------------------------------ MODULE VehicleUart ------------------------------
(***************************************************************************)
(* The serial port of the vehicle: the two tasks that write STCP messages  *)
(* (the listener, which answers requests, and the cc_comms task, which     *)
(* sends stream values), the buffer they share, the RTOS wrapper of the    *)
(* LPUART driver with its transmit mutex and event bits, the interrupt     *)
(* handler, and the ring buffer that holds the bytes the listener has not  *)
(* taken.                                                                  *)
(*                                                                         *)
(* The listener has the higher priority: the cc_comms task runs only while *)
(* the listener waits.  Interrupts are steps of their own and may come     *)
(* between any two.  Bytes coming in are numbered in their order, those    *)
(* the port loses too, when its FIFO is full and no interrupt empties it;  *)
(* a byte of a message written is the writer, its number of the message    *)
(* and its place in the frame.  No timeouts are configured for the port    *)
(* and only the listener receives, so the receive mutex is left out.       *)
(***************************************************************************)
EXTENDS Integers, Sequences, FiniteSets

CONSTANTS
  Uart, Cc,         \* the tasks uart_comms and cc_comms
  FrameLen,         \* bytes of a frame of each task, escapes included
  Replies,          \* the numbers of messages a request may be answered with
  RingSize,         \* COMMS_UART_BACKGROUND_BUFFER_SIZE
  RequestLen,       \* bytes of a request on the line
  MaxRequests,      \* bound of the model: requests received
  MaxStreamed       \* bound of the model: stream values sent

Tasks == {Uart, Cc}

ASSUME TasksAssumption == Uart # Cc
ASSUME LengthsAssumption ==
  /\ FrameLen \in [Tasks -> Nat \ {0}]
  /\ Replies \subseteq Nat
  /\ RingSize \in Nat \ {0, 1} /\ RequestLen \in Nat \ {0}
  /\ MaxRequests \in Nat /\ MaxStreamed \in Nat

VARIABLES
  pc,             \* where each task is
  written,        \* the number of messages each task has begun to write
  output_idx,     \* of StcpEscape, one of each task
  write_payload_buffer,
  replies,        \* answers the listener has still to write
  txSemaphore,    \* the owner of the transmit mutex, or the empty set
  tx_left,        \* txDataSize of the driver's handle
  tx_next,        \* txData, as a place in write_payload_buffer
  tx_busy,        \* txState is kLPUART_TxBusy
  tx_empty_irq,   \* TIE of the port
  tx_complete_irq,\* TCIE of the port
  txEvent,        \* RTOS_LPUART_TX_COMPLETE is set
  on_line,        \* the bytes sent in this transfer
  next_byte,      \* the number of the next byte to come
  ring, rxRingBufferHead, rxRingBufferTail,
  rx_wanted,      \* rxDataSize of the driver's handle is not 0
  rxEvent,        \* the bits set in rxEvent
  uart_rcv_buffer,
  uart_msg_buffer,
  handled,        \* the messages handed to StcpHandleMessage
  whole,          \* the frame of the newest message of a task left as it was meant
  disturbed,      \* the other task was writing while the newest message was
  last_taken,     \* the newest byte the listener has taken
  overfull,       \* more bytes have waited than the ring holds
  missed          \* a byte came while the FIFO of the port was full

tx_vars == <<txSemaphore, tx_left, tx_next, tx_busy, tx_empty_irq, tx_complete_irq,
             txEvent, on_line>>
rx_vars == <<next_byte, ring, rxRingBufferHead, rxRingBufferTail, rx_wanted, rxEvent,
             uart_rcv_buffer, last_taken, overfull, missed>>
write_vars == <<written, output_idx, write_payload_buffer, whole, disturbed>>
handle_vars == <<uart_msg_buffer, handled, replies>>
vars == <<pc, tx_vars, rx_vars, write_vars, handle_vars>>

-----------------------------------------------------------------------------
Frame(t) == [i \in 1 .. FrameLen[t] |-> << t, written[t], i >>]

LongestFrame == IF FrameLen[Uart] > FrameLen[Cc] THEN FrameLen[Uart] ELSE FrameLen[Cc]

Writing == {"escape", "take", "start", "wait", "give"}

Blocked(t) ==
  \/ pc[t] \in {"sensor", "suspended"}
  \/ pc[t] = "rx_wait" /\ rxEvent = {}
  \/ pc[t] = "wait" /\ ~txEvent

CanRun(t) == t = Cc => Blocked(Uart)

Goto(t, l) == pc' = [pc EXCEPT ![t] = l]

Init ==
  /\ pc = [t \in Tasks |-> IF t = Uart THEN "receive" ELSE "idle"]
  /\ written = [t \in Tasks |-> 0]
  /\ output_idx = [t \in Tasks |-> 0]
  /\ write_payload_buffer = [i \in 1 .. LongestFrame |-> << >>]
  /\ replies = 0
  /\ txSemaphore = {}
  /\ tx_left = 0 /\ tx_next = 1 /\ tx_busy = FALSE
  /\ tx_empty_irq = FALSE /\ tx_complete_irq = FALSE /\ txEvent = FALSE
  /\ on_line = << >>
  /\ next_byte = 1
  /\ ring = [i \in 0 .. RingSize - 1 |-> 0]
  /\ rxRingBufferHead = 0 /\ rxRingBufferTail = 0
  /\ rx_wanted = FALSE /\ rxEvent = {}
  /\ uart_rcv_buffer = 0
  /\ uart_msg_buffer = << >> /\ handled = << >>
  /\ whole = [t \in Tasks |-> FALSE]
  /\ disturbed = [t \in Tasks |-> FALSE]
  /\ last_taken = 0 /\ overfull = FALSE /\ missed = FALSE

-----------------------------------------------------------------------------
(* Writing a message: StcpWrite and, below it, LPUART_RTOS_Send.           *)

\* Entering StcpWrite; when the other task is inside it, both are disturbed.
BeginWrite(t) ==
  /\ Goto(t, "escape")
  /\ written' = [written EXCEPT ![t] = @ + 1]
  /\ output_idx' = [output_idx EXCEPT ![t] = 0]
  /\ whole' = [whole EXCEPT ![t] = FALSE]
  /\ LET others == { u \in Tasks \ {t} : pc[u] \in Writing }
     IN  disturbed' = [u \in Tasks |-> IF u = t THEN others # {} ELSE disturbed[u] \/ u \in others]
  /\ UNCHANGED write_payload_buffer

\* Stream values are sent when they are due, at any time as far as the port goes.
StreamDue ==
  /\ CanRun(Cc)
  /\ pc[Cc] = "idle"
  /\ written[Cc] < MaxStreamed
  /\ BeginWrite(Cc)
  /\ UNCHANGED <<tx_vars, rx_vars, handle_vars>>

Reply ==
  /\ pc[Uart] = "reply"
  /\ replies > 0
  /\ replies' = replies - 1
  /\ BeginWrite(Uart)
  /\ UNCHANGED <<tx_vars, rx_vars, uart_msg_buffer, handled>>

NoReply ==
  /\ pc[Uart] = "reply"
  /\ replies = 0
  /\ Goto(Uart, "receive")
  /\ UNCHANGED <<tx_vars, rx_vars, write_vars, handle_vars>>

\* One byte of StcpEscape.
StcpEscape(t) ==
  /\ CanRun(t)
  /\ pc[t] = "escape"
  /\ LET i == output_idx[t] + 1
     IN  /\ write_payload_buffer' = [write_payload_buffer EXCEPT ![i] = << t, written[t], i >>]
         /\ output_idx' = [output_idx EXCEPT ![t] = i]
         /\ IF i = FrameLen[t] THEN Goto(t, "take") ELSE UNCHANGED pc
  /\ UNCHANGED <<written, whole, disturbed, tx_vars, rx_vars, handle_vars>>

AfterWrite(t) == IF t = Uart THEN "reply" ELSE "idle"

\* The mutex is tried once; a message is given up when the other task holds it.
TakeTxSemaphore(t) ==
  /\ CanRun(t)
  /\ pc[t] = "take"
  /\ \/ txSemaphore = {} /\ txSemaphore' = {t} /\ Goto(t, "start")
     \/ txSemaphore # {} /\ UNCHANGED txSemaphore /\ Goto(t, AfterWrite(t))
  /\ UNCHANGED <<tx_left, tx_next, tx_busy, tx_empty_irq, tx_complete_irq, txEvent, on_line,
                 rx_vars, write_vars, handle_vars>>

\* Faulty variant: the sender does not wait for the transfer.
SendWithoutWaiting(t) ==
  /\ CanRun(t)
  /\ pc[t] = "start"
  /\ txSemaphore' = {}
  /\ Goto(t, AfterWrite(t))
  /\ IF tx_busy
     THEN UNCHANGED <<tx_left, tx_next, tx_busy, tx_empty_irq>>
     ELSE /\ tx_busy' = TRUE
          /\ tx_next' = 1
          /\ tx_left' = output_idx[t]
          /\ tx_empty_irq' = TRUE
  /\ UNCHANGED <<tx_complete_irq, txEvent, on_line, rx_vars, write_vars, handle_vars>>

\* LPUART_TransferSendNonBlocking; it refuses while a transfer is in progress,
\* and then the mutex is given back.
SendNonBlocking(t) ==
  /\ CanRun(t)
  /\ pc[t] = "start"
  /\ IF tx_busy
     THEN /\ txSemaphore' = {}
          /\ Goto(t, AfterWrite(t))
          /\ UNCHANGED <<tx_left, tx_next, tx_busy, tx_empty_irq>>
     ELSE /\ tx_busy' = TRUE
          /\ tx_next' = 1
          /\ tx_left' = output_idx[t]
          /\ tx_empty_irq' = TRUE
          /\ Goto(t, "wait")
          /\ UNCHANGED txSemaphore
  /\ UNCHANGED <<tx_complete_irq, txEvent, on_line, rx_vars, write_vars, handle_vars>>

\* Faulty variant: the event bit stays set after the wait.
WaitTxCompleteNoClear(t) ==
  /\ CanRun(t)
  /\ pc[t] = "wait"
  /\ txEvent
  /\ Goto(t, "give")
  /\ UNCHANGED <<tx_vars, rx_vars, write_vars, handle_vars>>

\* xEventGroupWaitBits clears the bit on exit.
WaitTxComplete(t) ==
  /\ CanRun(t)
  /\ pc[t] = "wait"
  /\ txEvent
  /\ txEvent' = FALSE
  /\ Goto(t, "give")
  /\ UNCHANGED <<txSemaphore, tx_left, tx_next, tx_busy, tx_empty_irq, tx_complete_irq, on_line,
                 rx_vars, write_vars, handle_vars>>

GiveTxSemaphore(t) ==
  /\ CanRun(t)
  /\ pc[t] = "give"
  /\ txSemaphore' = {}
  /\ Goto(t, AfterWrite(t))
  /\ UNCHANGED <<tx_left, tx_next, tx_busy, tx_empty_irq, tx_complete_irq, txEvent, on_line,
                 rx_vars, write_vars, handle_vars>>

-----------------------------------------------------------------------------
(* LPUART_TransferHandleIRQ.                                               *)

\* Faulty variant: the transmission complete interrupt is never enabled.
TxEmptyIrqNoComplete ==
  /\ tx_empty_irq
  /\ on_line' = Append(on_line, write_payload_buffer[tx_next])
  /\ tx_next' = tx_next + 1
  /\ tx_left' = tx_left - 1
  /\ tx_empty_irq' = (tx_left > 1)
  /\ UNCHANGED <<pc, txSemaphore, tx_busy, tx_complete_irq, txEvent, rx_vars, write_vars, handle_vars>>

\* One byte goes from the buffer to the port; after the last the transmission
\* complete interrupt takes the place of the register empty interrupt.
TxEmptyIrq ==
  /\ tx_empty_irq
  /\ on_line' = Append(on_line, write_payload_buffer[tx_next])
  /\ tx_next' = tx_next + 1
  /\ tx_left' = tx_left - 1
  /\ tx_empty_irq' = (tx_left > 1)
  /\ tx_complete_irq' = (tx_left = 1)
  /\ UNCHANGED <<pc, txSemaphore, tx_busy, txEvent, rx_vars, write_vars, handle_vars>>

\* The last byte has left; the callback sets the event bit through the timer
\* task, whose priority is the highest.
TxCompleteIrq ==
  /\ tx_complete_irq
  /\ tx_busy' = FALSE
  /\ tx_complete_irq' = FALSE
  /\ txEvent' = TRUE
  /\ whole' = [t \in Tasks |-> whole[t] \/ (t \in txSemaphore /\ on_line = Frame(t))]
  /\ on_line' = << >>
  /\ UNCHANGED <<pc, txSemaphore, tx_left, tx_next, tx_empty_irq, rx_vars,
                 written, output_idx, write_payload_buffer, disturbed, handle_vars>>

-----------------------------------------------------------------------------
(* Receiving.                                                              *)

\* Faulty variant: the index wraps one place late.
RingNextLate(i) == IF i = RingSize THEN 0 ELSE i + 1

RingNext(i) == IF i + 1 = RingSize THEN 0 ELSE i + 1

RingLength ==
  IF rxRingBufferTail > rxRingBufferHead
  THEN rxRingBufferHead + RingSize - rxRingBufferTail
  ELSE rxRingBufferHead - rxRingBufferTail

\* Faulty variant: a ring with one free place counts as full.
RingFullEarly == RingLength >= RingSize - 2

RingFull == RingLength = RingSize - 1

\* The interrupt for a received byte: it goes to the receive that waits for it,
\* or into the ring; a full ring raises the overrun event and loses its oldest byte.
RxFullIrq ==
  /\ next_byte <= MaxRequests * RequestLen
  /\ next_byte' = next_byte + 1
  /\ \/ /\ rx_wanted
        /\ rx_wanted' = FALSE
        /\ uart_rcv_buffer' = next_byte
        /\ rxEvent' = rxEvent \cup {"complete"}
        /\ last_taken' = next_byte
        /\ UNCHANGED <<ring, rxRingBufferHead, rxRingBufferTail, overfull>>
     \/ /\ ~rx_wanted
        /\ rxEvent' = rxEvent \cup (IF RingFull THEN {"overrun"} ELSE {})
        /\ rxRingBufferTail' = IF RingFull THEN RingNext(rxRingBufferTail) ELSE rxRingBufferTail
        /\ ring' = [ring EXCEPT ![rxRingBufferHead] = next_byte]
        /\ rxRingBufferHead' = RingNext(rxRingBufferHead)
        /\ overfull' = (overfull \/ next_byte - last_taken >= RingSize)
        /\ UNCHANGED <<rx_wanted, uart_rcv_buffer, last_taken>>
  /\ UNCHANGED <<pc, missed, tx_vars, write_vars, handle_vars>>

\* The interrupt for an overrun of the port: a byte that came while its FIFO was full
\* is lost; when it finds several lost they are as many steps.  The bytes it finds in
\* the FIFO, which came before, are steps of RxFullIrq.
RxOverrunIrq ==
  /\ next_byte <= MaxRequests * RequestLen
  /\ next_byte' = next_byte + 1
  /\ rxEvent' = rxEvent \cup {"hardware"}
  /\ missed' = TRUE
  /\ UNCHANGED <<pc, ring, rxRingBufferHead, rxRingBufferTail, rx_wanted, uart_rcv_buffer,
                 last_taken, overfull, tx_vars, write_vars, handle_vars>>

\* LPUART_TransferReceiveNonBlocking for one byte, with the receive interrupt off.
ReceiveNonBlocking ==
  /\ pc[Uart] = "receive"
  /\ Goto(Uart, "rx_wait")
  /\ \/ /\ RingLength > 0
        /\ uart_rcv_buffer' = ring[rxRingBufferTail]
        /\ last_taken' = ring[rxRingBufferTail]
        /\ rxRingBufferTail' = RingNext(rxRingBufferTail)
        /\ rxEvent' = rxEvent \cup {"complete"}
        /\ UNCHANGED rx_wanted
     \/ /\ RingLength = 0
        /\ rx_wanted' = TRUE
        /\ UNCHANGED <<uart_rcv_buffer, last_taken, rxRingBufferTail, rxEvent>>
  /\ UNCHANGED <<next_byte, ring, rxRingBufferHead, overfull, missed, tx_vars, write_vars, handle_vars>>

\* After an overrun, of the port or of the ring, LPUART_RTOS_Receive aborts the
\* receive and fails, and the listener suspends itself.
ReceiveFails ==
  /\ pc[Uart] = "rx_wait"
  /\ rxEvent \cap {"hardware", "overrun"} # {}
  /\ rxEvent' = {}
  /\ rx_wanted' = FALSE
  /\ Goto(Uart, "suspended")
  /\ UNCHANGED <<next_byte, ring, rxRingBufferHead, rxRingBufferTail, uart_rcv_buffer,
                 last_taken, overfull, missed, tx_vars, write_vars, handle_vars>>

\* Faulty variant: an overrun does not fail the receive.
ByteReceivedAnyway ==
  /\ pc[Uart] = "rx_wait"
  /\ rxEvent # {}

ByteReceived ==
  /\ pc[Uart] = "rx_wait"
  /\ rxEvent = {"complete"}

FrameComplete(b) == b[Len(b)] % RequestLen = 0

\* The listener puts the byte behind the others and hands a complete frame to
\* StcpHandleMessage: it is answered, at once or after a reading of a sensor.
ListenerByte ==
  /\ ByteReceived
  /\ rxEvent' = {}
  /\ LET b == Append(uart_msg_buffer, uart_rcv_buffer)
     IN  \/ /\ ~FrameComplete(b)
            /\ uart_msg_buffer' = b
            /\ Goto(Uart, "receive")
            /\ UNCHANGED <<handled, replies>>
         \/ /\ FrameComplete(b)
            /\ uart_msg_buffer' = << >>
            /\ handled' = Append(handled, b)
            /\ replies' \in Replies
            /\ \E l \in {"sensor", "reply"} : Goto(Uart, l)
  /\ UNCHANGED <<next_byte, ring, rxRingBufferHead, rxRingBufferTail, rx_wanted, uart_rcv_buffer,
                 last_taken, overfull, missed, tx_vars, write_vars>>

\* The transfer on the sensor bus is over.
SensorRead ==
  /\ pc[Uart] = "sensor"
  /\ Goto(Uart, "reply")
  /\ UNCHANGED <<tx_vars, rx_vars, write_vars, handle_vars>>

-----------------------------------------------------------------------------
WriteStep(t) ==
  \/ StcpEscape(t) \/ TakeTxSemaphore(t) \/ SendNonBlocking(t)
  \/ WaitTxComplete(t) \/ GiveTxSemaphore(t)

ListenerStep ==
  Reply \/ NoReply \/ ReceiveNonBlocking \/ ReceiveFails \/ ListenerByte \/ WriteStep(Uart)

Next ==
  \/ ListenerStep \/ WriteStep(Cc) \/ StreamDue \/ SensorRead
  \/ TxEmptyIrq \/ TxCompleteIrq \/ RxFullIrq \/ RxOverrunIrq

Spec == Init /\ [][Next]_vars

\* A task that is ready and has the processor runs, the port sends, the sensor
\* bus finishes its transfers; nothing makes a byte come or a stream value due.
FairSpec ==
  /\ Spec
  /\ WF_vars(ListenerStep) /\ WF_vars(WriteStep(Cc))
  /\ WF_vars(TxEmptyIrq) /\ WF_vars(TxCompleteIrq) /\ WF_vars(SensorRead)

-----------------------------------------------------------------------------
TypeOK ==
  /\ pc \in [Tasks -> Writing \cup {"idle", "reply", "sensor", "receive", "rx_wait", "suspended"}]
  /\ txSemaphore \subseteq Tasks /\ Cardinality(txSemaphore) <= 1
  /\ rxRingBufferHead \in 0 .. RingSize - 1 /\ rxRingBufferTail \in 0 .. RingSize - 1
  /\ rxEvent \subseteq {"complete", "hardware", "overrun"}
  /\ rx_wanted => RingLength = 0
  /\ tx_left \in 0 .. LongestFrame
  /\ whole \in [Tasks -> BOOLEAN] /\ disturbed \in [Tasks -> BOOLEAN]

\* A message reaches the line whole unless the other task was inside StcpWrite
\* at the same time: neither what was left in the shared buffer nor what the
\* listener does between two bytes damages or loses any other.
OnlyOverlapDamages ==
  \A t \in Tasks :
    written[t] > 0 /\ pc[t] \notin Writing => whole[t] \/ disturbed[t]

\* Whoever takes the transmit mutex finds the driver idle and no completion
\* left over from an earlier transfer, so no wait ends before its own transfer.
FreeMeansIdle ==
  (txSemaphore = {} \/ \E t \in txSemaphore : pc[t] = "start")
    => ~tx_busy /\ ~txEvent /\ tx_left = 0

\* However many bytes come while the listener writes or reads a sensor, every
\* message it handles is one that was sent, in order and none left out: an
\* overrun of the ring or of the port never splices the rest of one request to another.
HandledAsSent ==
  \A k \in DOMAIN handled :
    handled[k] = [i \in 1 .. RequestLen |-> (k - 1) * RequestLen + i]

\* The listener stops for good only after a byte that waited was written over or a
\* byte was lost in the port: with neither, wherever in its frame and in the driver it
\* is, it goes on however many bytes wait in the ring.
SuspendedOnlyAfterLoss == pc[Uart] = "suspended" => overfull \/ missed

\* Every StcpWrite returns, in either task, and stream values can be sent again,
\* when the listener has stopped too.
WritesReturn == \A t \in Tasks : pc[t] \in Writing ~> pc[t] \notin Writing
=============================================================================
