-------------------------- MODULE VehicleUartProofs --------------------------
(***************************************************************************)
(* Proofs about VehicleUart: the types of its state, that a free transmit  *)
(* mutex means an idle driver, that only overlapping writers damage a      *)
(* message, that what the listener handles is what was sent, and that it   *)
(* stops only after a byte was lost, for every length of frames, requests  *)
(* and ring and any number of messages.                                    *)
(***************************************************************************)
EXTENDS VehicleUart, SequenceTheorems, FiniteSetTheorems, TLAPS

Places == Writing \cup {"idle", "reply", "sensor", "receive", "rx_wait", "suspended"}

\* A byte of a frame, or of the buffer before the first.
FrameBytes == {<< >>} \cup Tasks \X Nat \X Nat

WriterTypes ==
  /\ pc \in [Tasks -> Places]
  /\ written \in [Tasks -> Nat] /\ output_idx \in [Tasks -> Nat]
  /\ write_payload_buffer \in [1 .. LongestFrame -> FrameBytes]
  /\ whole \in [Tasks -> BOOLEAN] /\ disturbed \in [Tasks -> BOOLEAN]
  /\ txSemaphore \subseteq Tasks
  /\ tx_left \in Nat /\ tx_next \in Nat
  /\ tx_busy \in BOOLEAN /\ tx_empty_irq \in BOOLEAN /\ tx_complete_irq \in BOOLEAN /\ txEvent \in BOOLEAN
  /\ on_line \in Seq(FrameBytes)

DriverIdle == ~ tx_busy /\ ~ tx_empty_irq /\ ~ tx_complete_irq /\ tx_left = 0 /\ on_line = << >>

\* Bytes of the frame of t are still to be sent.
SendingBytes(t) ==
  /\ tx_busy /\ tx_empty_irq /\ ~ tx_complete_irq /\ ~ txEvent
  /\ tx_left \in 1 .. FrameLen[t]
  /\ tx_next = FrameLen[t] + 1 - tx_left
  /\ Len(on_line) = FrameLen[t] - tx_left

\* All of them have gone to the port.
AllBytesSent(t) ==
  /\ tx_busy /\ ~ tx_empty_irq /\ tx_complete_irq /\ ~ txEvent
  /\ tx_left = 0
  /\ Len(on_line) = FrameLen[t]

\* The driver works for the task that waits for it, which has the mutex, and for
\* nobody else.
TxOwned ==
  /\ \A t \in Tasks : t \in txSemaphore <=> pc[t] \in {"start", "wait", "give"}
  /\ \A t, u \in txSemaphore : t = u
  /\ (\A t \in Tasks : pc[t] # "wait") => DriverIdle /\ ~ txEvent
  /\ \A t \in Tasks : pc[t] = "wait" => SendingBytes(t) \/ AllBytesSent(t) \/ (DriverIdle /\ txEvent)

\* How far the newest frame of a task is, and that it is intact as long as the
\* other task was not writing.
FrameKept(t) ==
  /\ pc[t] = "escape" => output_idx[t] < FrameLen[t]
  /\ pc[t] \in Writing /\ pc[t] # "escape" => output_idx[t] = FrameLen[t]
  /\ pc[t] \in Writing /\ ~ disturbed[t] =>
       /\ \A u \in Tasks \ {t} : pc[u] \notin Writing
       /\ \A i \in 1 .. output_idx[t] : write_payload_buffer[i] = << t, written[t], i >>
       /\ pc[t] = "wait" => \A i \in 1 .. Len(on_line) : on_line[i] = << t, written[t], i >>
       /\ pc[t] = "give" \/ (pc[t] = "wait" /\ txEvent) => whole[t]
  /\ pc[t] \notin Writing /\ written[t] > 0 => whole[t] \/ disturbed[t]

FramesKept == \A t \in Tasks : FrameKept(t)

ReaderTypes ==
  /\ next_byte \in Nat \ {0} /\ last_taken \in Nat /\ uart_rcv_buffer \in Nat
  /\ ring \in [0 .. RingSize - 1 -> Nat]
  /\ rxRingBufferHead \in 0 .. RingSize - 1 /\ rxRingBufferTail \in 0 .. RingSize - 1
  /\ rx_wanted \in BOOLEAN /\ overfull \in BOOLEAN /\ missed \in BOOLEAN
  /\ rxEvent \subseteq {"complete", "hardware", "overrun"}
  /\ uart_msg_buffer \in Seq(Nat) /\ handled \in Seq(Seq(Nat))

\* Where the k-th byte that waits in the ring is, from 0.
RingPlace(k) == IF rxRingBufferTail + k < RingSize THEN rxRingBufferTail + k ELSE rxRingBufferTail + k - RingSize

\* A byte was lost, in the ring or in the port.
ByteLost == overfull \/ missed

\* Before the first loss the ring holds, in order, the bytes that were not taken;
\* a loss is reported to the receive that comes next, and only a loss is.
RingHolds ==
  /\ ~ ByteLost => \A k \in 0 .. RingLength - 1 : ring[RingPlace(k)] = next_byte - RingLength + k
  /\ ~ ByteLost => last_taken = next_byte - 1 - RingLength
  /\ rx_wanted => RingLength = 0 /\ pc[Uart] = "rx_wait" /\ "complete" \notin rxEvent
  /\ rxEvent \cap {"hardware", "overrun"} # {} => ByteLost
  /\ ByteLost => rxEvent \cap {"hardware", "overrun"} # {} \/ pc[Uart] = "suspended"
  /\ pc[Uart] = "suspended" => ByteLost

\* The bytes of the frame being received follow those of the frames handled.
BytesInOrder ==
  /\ HandledAsSent
  /\ Len(uart_msg_buffer) < RequestLen
  /\ \A i \in 1 .. Len(uart_msg_buffer) : uart_msg_buffer[i] = Len(handled) * RequestLen + i
  /\ "complete" \in rxEvent => pc[Uart] = "rx_wait"
  /\ ~ ByteLost =>
       last_taken = Len(handled) * RequestLen + Len(uart_msg_buffer) + (IF "complete" \in rxEvent THEN 1 ELSE 0)
  /\ "complete" \in rxEvent => uart_rcv_buffer = last_taken

\* The inductive invariant.
IInv == WriterTypes /\ TxOwned /\ FramesKept /\ ReaderTypes /\ RingHolds /\ BytesInOrder

-----------------------------------------------------------------------------
(* The writers: StcpWrite, the RTOS wrapper and the driver's interrupts.   *)

LEMMA FrameLengths ==
  ASSUME NEW t \in Tasks
  PROVE  FrameLen[t] \in Nat \ {0} /\ LongestFrame \in Nat /\ FrameLen[t] <= LongestFrame
BY LengthsAssumption DEF LongestFrame, Tasks

\* A step outside StcpWrite and the driver.
LEMMA WritersUndisturbed ==
  ASSUME WriterTypes, TxOwned, FramesKept, UNCHANGED <<tx_vars, write_vars>>, pc' \in [Tasks -> Places],
         \A t \in Tasks : pc'[t] = pc[t] \/ (pc[t] \notin Writing /\ pc'[t] \notin Writing)
  PROVE  WriterTypes' /\ TxOwned' /\ FramesKept'
<1>1. WriterTypes'
  BY DEF WriterTypes, tx_vars, write_vars
<1>2. TxOwned'
  BY DEF TxOwned, DriverIdle, SendingBytes, AllBytesSent, tx_vars, Writing
<1>3. FramesKept'
  BY DEF FramesKept, FrameKept, tx_vars, write_vars, Writing
<1>4. QED
  BY <1>1, <1>2, <1>3

LEMMA BeginWriteKeeps ==
  ASSUME WriterTypes, TxOwned, FramesKept, NEW t \in Tasks, pc[t] \notin Writing, BeginWrite(t), UNCHANGED tx_vars
  PROVE  WriterTypes' /\ TxOwned' /\ FramesKept'
<1>1. WriterTypes'
  <2>1. whole' \in [Tasks -> BOOLEAN]
    BY DEF WriterTypes, BeginWrite
  <2>2. disturbed' \in [Tasks -> BOOLEAN]
    BY Zenon DEF WriterTypes, BeginWrite
  <2>3. /\ pc' \in [Tasks -> Places]
        /\ written' \in [Tasks -> Nat] /\ output_idx' \in [Tasks -> Nat]
    BY DEF WriterTypes, BeginWrite, Goto, Places, Writing
  <2>4. QED
    BY <2>1, <2>2, <2>3 DEF WriterTypes, BeginWrite, tx_vars
<1>2. TxOwned'
  BY DEF WriterTypes, TxOwned, DriverIdle, SendingBytes, AllBytesSent, BeginWrite, Goto, Writing, tx_vars
<1>3. FramesKept'
  <2>1. ASSUME NEW u \in Tasks, u # t
        PROVE  /\ pc'[u] = pc[u] /\ written'[u] = written[u] /\ output_idx'[u] = output_idx[u]
               /\ whole'[u] = whole[u]
               /\ disturbed[u] => disturbed'[u]
               /\ pc[u] \in Writing => disturbed'[u] /\ disturbed'[t]
    BY <2>1 DEF WriterTypes, BeginWrite, Goto
  <2>2. pc'[t] = "escape" /\ output_idx'[t] = 0 /\ output_idx'[t] < FrameLen[t]
    BY FrameLengths DEF WriterTypes, BeginWrite, Goto
  <2>3. UNCHANGED <<write_payload_buffer, on_line, txEvent>>
    BY DEF BeginWrite, tx_vars
  <2>4. \A i \in 1 .. 0 : FALSE
    OBVIOUS
  <2>5. FrameKept(t)'
    BY <2>1, <2>2, <2>3, <2>4 DEF FrameKept, Writing
  <2>6. ASSUME NEW u \in Tasks, u # t
        PROVE  FrameKept(u)'
    <3>1. FrameKept(u)
      BY DEF FramesKept
    <3>2. CASE pc[u] \in Writing
      BY <2>1, <2>3, <2>6, <3>1, <3>2 DEF FrameKept, Writing
    <3>3. CASE pc[u] \notin Writing
      BY <2>1, <2>3, <2>6, <3>1, <3>3 DEF FrameKept, Writing
    <3>4. QED
      BY <3>2, <3>3
  <2>7. QED
    BY <2>5, <2>6 DEF FramesKept
<1>4. QED
  BY <1>1, <1>2, <1>3

LEMMA StcpEscapeKeeps ==
  ASSUME WriterTypes, TxOwned, FramesKept, NEW t \in Tasks, StcpEscape(t)
  PROVE  WriterTypes' /\ TxOwned' /\ FramesKept'
<1>1. WriterTypes'
  <2>1. output_idx[t] + 1 \in 1 .. LongestFrame
    BY FrameLengths DEF WriterTypes, FramesKept, FrameKept, StcpEscape
  <2>2. << t, written[t], output_idx[t] + 1 >> \in FrameBytes
    BY DEF WriterTypes, FrameBytes
  <2>3. write_payload_buffer' \in [1 .. LongestFrame -> FrameBytes]
    BY <2>1, <2>2 DEF WriterTypes, StcpEscape
  <2>4. pc' \in [Tasks -> Places]
    BY DEF WriterTypes, StcpEscape, Goto, Places, Writing
  <2>5. output_idx' \in [Tasks -> Nat]
    BY DEF WriterTypes, StcpEscape
  <2>6. QED
    BY <2>3, <2>4, <2>5 DEF WriterTypes, StcpEscape, tx_vars
<1>2. TxOwned'
  BY DEF WriterTypes, TxOwned, DriverIdle, SendingBytes, AllBytesSent, StcpEscape, Goto, tx_vars
<1>3. FramesKept'
  <2>1. output_idx[t] + 1 \in 1 .. LongestFrame /\ output_idx[t] \in Nat /\ FrameLen[t] \in Nat
    BY FrameLengths DEF WriterTypes, FramesKept, FrameKept, StcpEscape
  <2>2. /\ output_idx'[t] = output_idx[t] + 1
        /\ pc'[t] = IF output_idx[t] + 1 = FrameLen[t] THEN "take" ELSE "escape"
        /\ output_idx'[t] < FrameLen[t] \/ output_idx'[t] = FrameLen[t]
    BY <2>1 DEF WriterTypes, FramesKept, FrameKept, StcpEscape, Goto
  <2>3. /\ \A u \in Tasks \ {t} : pc'[u] = pc[u] /\ output_idx'[u] = output_idx[u]
        /\ UNCHANGED <<written, whole, disturbed, on_line, txEvent>>
    BY DEF WriterTypes, StcpEscape, Goto, tx_vars
  <2>4. \A i \in 1 .. output_idx'[t] :
          write_payload_buffer'[i] = IF i = output_idx'[t] THEN << t, written[t], i >> ELSE write_payload_buffer[i]
    <3>1. DOMAIN write_payload_buffer = 1 .. LongestFrame /\ LongestFrame \in Nat
      BY FrameLengths DEF WriterTypes
    <3>2. write_payload_buffer' =
            [write_payload_buffer EXCEPT ![output_idx[t] + 1] = << t, written[t], output_idx[t] + 1 >>]
      BY DEF StcpEscape
    <3>3. \A i \in 1 .. output_idx[t] + 1 : i \in DOMAIN write_payload_buffer
      BY <2>1, <3>1
    <3>4. QED
      BY <2>2, <3>2, <3>3
  <2>5. \A i \in 1 .. output_idx'[t] : i = output_idx'[t] \/ i \in 1 .. output_idx[t]
    BY <2>1, <2>2
  <2>6. pc[t] = "escape"
    BY DEF StcpEscape
  <2>7. FrameKept(t)'
    <3>1. FrameKept(t)
      BY DEF FramesKept
    <3>2. QED
      BY <2>2, <2>3, <2>4, <2>5, <2>6, <3>1 DEF FrameKept, Writing
  <2>8. ASSUME NEW u \in Tasks, u # t
        PROVE  FrameKept(u)'
    <3>1. FrameKept(u)
      BY DEF FramesKept
    <3>2. pc[u] \in Writing => disturbed[u]
      BY <2>6, <2>8, <3>1 DEF FrameKept, Writing
    <3>3. QED
      BY <2>3, <2>8, <3>1, <3>2 DEF FrameKept, Writing
  <2>9. QED
    BY <2>7, <2>8 DEF FramesKept
<1>4. QED
  BY <1>1, <1>2, <1>3

LEMMA TakeTxSemaphoreKeeps ==
  ASSUME WriterTypes, TxOwned, FramesKept, NEW t \in Tasks, TakeTxSemaphore(t)
  PROVE  WriterTypes' /\ TxOwned' /\ FramesKept'
<1>1. WriterTypes'
  <2>1. pc' \in [Tasks -> Places] /\ txSemaphore' \subseteq Tasks
    BY DEF WriterTypes, TakeTxSemaphore, AfterWrite, Goto, Places, Writing
  <2>2. QED
    BY <2>1 DEF WriterTypes, TakeTxSemaphore, write_vars
<1>2. TxOwned'
  BY DEF WriterTypes, TxOwned, DriverIdle, SendingBytes, AllBytesSent, TakeTxSemaphore, AfterWrite, Goto
<1>3. FramesKept'
  <2>1. /\ UNCHANGED <<written, output_idx, write_payload_buffer, whole, disturbed, on_line, txEvent>>
        /\ \A u \in Tasks \ {t} : pc'[u] = pc[u]
    BY DEF WriterTypes, TakeTxSemaphore, Goto, write_vars
  <2>2. CASE txSemaphore = {}
    <3>1. pc[t] = "take" /\ pc'[t] = "start"
      BY <2>2 DEF WriterTypes, TakeTxSemaphore, Goto
    <3>2. QED
      BY <2>1, <3>1 DEF FramesKept, FrameKept, Writing
  <2>3. CASE txSemaphore # {}
    <3>1. pc[t] = "take" /\ pc'[t] \notin Writing
      BY <2>3 DEF WriterTypes, TakeTxSemaphore, AfterWrite, Goto, Writing
    <3>2. PICK u \in txSemaphore : u \in Tasks /\ pc[u] \in Writing /\ u # t
      BY <2>3, <3>1 DEF WriterTypes, TxOwned, Writing
    <3>3. disturbed[t]
      BY <3>1, <3>2 DEF FramesKept, FrameKept, Writing
    <3>4. QED
      BY <2>1, <3>1, <3>3 DEF FramesKept, FrameKept, Writing
  <2>4. QED
    BY <2>2, <2>3
<1>4. QED
  BY <1>1, <1>2, <1>3

LEMMA SendNonBlockingKeeps ==
  ASSUME WriterTypes, TxOwned, FramesKept, NEW t \in Tasks, SendNonBlocking(t)
  PROVE  WriterTypes' /\ TxOwned' /\ FramesKept'
<1>1. DriverIdle /\ ~ txEvent
  BY DEF TxOwned, SendNonBlocking
<1>2. WriterTypes'
  <2>1. pc' \in [Tasks -> Places]
    BY <1>1 DEF DriverIdle, WriterTypes, SendNonBlocking, Goto, Places, Writing
  <2>2. tx_left' \in Nat /\ tx_next' \in Nat
    BY <1>1 DEF DriverIdle, WriterTypes, SendNonBlocking
  <2>3. tx_busy' /\ tx_empty_irq'
    BY <1>1 DEF DriverIdle, SendNonBlocking
  <2>4. QED
    BY <1>1, <2>1, <2>2, <2>3 DEF DriverIdle, WriterTypes, SendNonBlocking, write_vars
<1>3. TxOwned'
  BY <1>1, FrameLengths DEF WriterTypes, TxOwned, FramesKept, FrameKept, DriverIdle, SendingBytes, AllBytesSent, SendNonBlocking, Goto, Writing
<1>4. FramesKept'
  BY <1>1 DEF DriverIdle, WriterTypes, FramesKept, FrameKept, SendNonBlocking, Goto, Writing, write_vars
<1>5. QED
  BY <1>2, <1>3, <1>4

LEMMA WaitTxCompleteKeeps ==
  ASSUME WriterTypes, TxOwned, FramesKept, NEW t \in Tasks, WaitTxComplete(t)
  PROVE  WriterTypes' /\ TxOwned' /\ FramesKept'
<1>1. WriterTypes'
  BY DEF WriterTypes, WaitTxComplete, Goto, Places, Writing, write_vars
<1>2. TxOwned'
  BY DEF WriterTypes, TxOwned, DriverIdle, SendingBytes, AllBytesSent, WaitTxComplete, Goto
<1>3. FramesKept'
  BY DEF WriterTypes, FramesKept, FrameKept, WaitTxComplete, Goto, Writing, write_vars
<1>4. QED
  BY <1>1, <1>2, <1>3

LEMMA GiveTxSemaphoreKeeps ==
  ASSUME WriterTypes, TxOwned, FramesKept, NEW t \in Tasks, GiveTxSemaphore(t)
  PROVE  WriterTypes' /\ TxOwned' /\ FramesKept'
<1>1. WriterTypes'
  BY DEF WriterTypes, GiveTxSemaphore, AfterWrite, Goto, Places, Writing, write_vars
<1>2. TxOwned'
  BY DEF WriterTypes, TxOwned, DriverIdle, SendingBytes, AllBytesSent, GiveTxSemaphore, AfterWrite, Goto
<1>3. FramesKept'
  BY DEF WriterTypes, FramesKept, FrameKept, GiveTxSemaphore, AfterWrite, Goto, Writing, write_vars
<1>4. QED
  BY <1>1, <1>2, <1>3

\* An interrupt comes while exactly one task waits, the one with the mutex.
LEMMA OneWaits ==
  ASSUME TxOwned, tx_empty_irq \/ tx_complete_irq
  PROVE  \E t \in Tasks : /\ pc[t] = "wait" /\ txSemaphore = {t}
                          /\ \A u \in Tasks \ {t} : pc[u] \notin {"start", "wait", "give"}
<1>1. PICK t \in Tasks : pc[t] = "wait"
  BY DEF TxOwned, DriverIdle
<1>2. QED
  BY <1>1 DEF TxOwned

LEMMA TxEmptyIrqKeeps ==
  ASSUME WriterTypes, TxOwned, FramesKept, TxEmptyIrq
  PROVE  WriterTypes' /\ TxOwned' /\ FramesKept'
<1>1. PICK t \in Tasks : pc[t] = "wait" /\ \A u \in Tasks \ {t} : pc[u] # "wait"
  BY OneWaits DEF TxEmptyIrq
<1>2. SendingBytes(t)
  BY <1>1 DEF TxOwned, AllBytesSent, DriverIdle, TxEmptyIrq
<1>3. FrameLen[t] \in Nat \ {0} /\ LongestFrame \in Nat /\ FrameLen[t] <= LongestFrame
  BY FrameLengths
<1>4. /\ on_line \in Seq(FrameBytes) /\ Len(on_line) = tx_next - 1 /\ tx_next \in 1 .. FrameLen[t]
      /\ write_payload_buffer[tx_next] \in FrameBytes
  <2>1. on_line \in Seq(FrameBytes) /\ write_payload_buffer \in [1 .. LongestFrame -> FrameBytes]
    BY DEF WriterTypes
  <2>2. Len(on_line) = tx_next - 1 /\ tx_next \in 1 .. FrameLen[t]
    BY <1>2, <1>3 DEF SendingBytes
  <2>3. tx_next \in 1 .. LongestFrame
    BY <1>3, <2>2
  <2>4. QED
    BY <2>1, <2>2, <2>3
<1>5. /\ on_line' \in Seq(FrameBytes) /\ Len(on_line') = tx_next
      /\ \A i \in 1 .. tx_next - 1 : on_line'[i] = on_line[i]
      /\ on_line'[tx_next] = write_payload_buffer[tx_next]
  BY <1>4 DEF TxEmptyIrq
<1>6. WriterTypes'
  <2>1. tx_left' \in Nat /\ tx_next' \in Nat
    BY <1>2, <1>3, SMTT(30) DEF WriterTypes, SendingBytes, TxEmptyIrq
  <2>2. tx_empty_irq' \in BOOLEAN /\ tx_complete_irq' \in BOOLEAN
    BY DEF TxEmptyIrq
  <2>3. UNCHANGED <<pc, txSemaphore, tx_busy, txEvent, write_vars>>
    BY DEF TxEmptyIrq
  <2>4. QED
    BY <1>5, <2>1, <2>2, <2>3 DEF WriterTypes, write_vars
<1>7. TxOwned'
  <2>1. CASE tx_left = 1
    <3>1. tx_left' = 0 /\ Len(on_line') = FrameLen[t]
      BY <1>2, <1>3, <1>4, <1>5, <2>1 DEF SendingBytes, TxEmptyIrq
    <3>2. ~ tx_empty_irq' /\ tx_complete_irq'
      <4>1. tx_left = 1 /\ ~ (tx_left > 1)
        BY <2>1
      <4>2. QED
        BY <4>1, Zenon DEF TxEmptyIrq
    <3>3. AllBytesSent(t)'
      BY <1>2, <3>1, <3>2 DEF SendingBytes, AllBytesSent, TxEmptyIrq
    <3>4. QED
      BY <1>1, <3>3 DEF TxOwned, TxEmptyIrq
  <2>2. CASE tx_left > 1
    <3>1. /\ tx_left' \in 1 .. FrameLen[t]
          /\ tx_next' = FrameLen[t] + 1 - tx_left'
          /\ Len(on_line') = FrameLen[t] - tx_left'
      BY <1>2, <1>3, <1>4, <1>5, <2>2, SMTT(30) DEF SendingBytes, TxEmptyIrq
    <3>2. tx_empty_irq' /\ ~ tx_complete_irq'
      <4>1. tx_left > 1 /\ ~ (tx_left = 1)
        BY <1>3, <2>2
      <4>2. QED
        BY <4>1, Zenon DEF TxEmptyIrq
    <3>3. SendingBytes(t)'
      BY <1>2, <3>1, <3>2 DEF SendingBytes, TxEmptyIrq
    <3>4. QED
      BY <1>1, <3>3 DEF TxOwned, TxEmptyIrq
  <2>3. QED
    BY <1>2, <2>1, <2>2 DEF SendingBytes
<1>8. FramesKept'
  <2>1. output_idx[t] = FrameLen[t]
    BY <1>1 DEF FramesKept, FrameKept, Writing
  <2>2. \A i \in 1 .. Len(on_line') : i \in 1 .. Len(on_line) \/ (i = tx_next /\ i \in 1 .. output_idx[t])
    BY <1>3, <1>4, <1>5, <2>1
  <2>3. QED
    BY <1>1, <1>4, <1>5, <2>1, <2>2 DEF FramesKept, FrameKept, TxEmptyIrq, write_vars, Writing
<1>9. QED
  BY <1>6, <1>7, <1>8

LEMMA TxCompleteIrqKeeps ==
  ASSUME WriterTypes, TxOwned, FramesKept, TxCompleteIrq
  PROVE  WriterTypes' /\ TxOwned' /\ FramesKept'
<1>1. PICK t \in Tasks : /\ pc[t] = "wait" /\ txSemaphore = {t}
                         /\ \A u \in Tasks \ {t} : pc[u] # "wait"
  BY OneWaits DEF TxCompleteIrq
<1>2. AllBytesSent(t)
  BY <1>1 DEF TxOwned, SendingBytes, DriverIdle, TxCompleteIrq
<1>3. WriterTypes'
  <2>1. whole' \in [Tasks -> BOOLEAN]
    BY Zenon DEF WriterTypes, TxCompleteIrq
  <2>2. on_line' \in Seq(FrameBytes)
    BY DEF TxCompleteIrq
  <2>3. QED
    BY <2>1, <2>2 DEF WriterTypes, TxCompleteIrq
<1>4. TxOwned'
  BY <1>1, <1>2 DEF WriterTypes, TxOwned, AllBytesSent, DriverIdle, TxCompleteIrq
<1>5. ~ disturbed[t] => on_line = Frame(t)
  <2>1. SUFFICES ASSUME ~ disturbed[t]
                 PROVE  on_line = Frame(t)
    OBVIOUS
  <2>2. \A i \in 1 .. FrameLen[t] : on_line[i] = << t, written[t], i >>
    BY <1>1, <1>2, <2>1 DEF FramesKept, FrameKept, AllBytesSent, Writing
  <2>3. on_line = [i \in 1 .. Len(on_line) |-> on_line[i]]
    BY DEF WriterTypes
  <2>4. QED
    BY <1>2, <2>2, <2>3 DEF Frame, AllBytesSent
<1>6. FramesKept'
  <2>1. /\ \A u \in Tasks : whole[u] => whole'[u]
        /\ ~ disturbed[t] => whole'[t]
    BY <1>1, <1>5 DEF TxCompleteIrq
  <2>2. \A i \in 1 .. Len(on_line') : FALSE
    BY DEF TxCompleteIrq
  <2>3. UNCHANGED <<pc, written, output_idx, write_payload_buffer, disturbed>>
    BY DEF TxCompleteIrq
  <2>4. QED
    BY <1>1, <2>1, <2>2, <2>3 DEF FramesKept, FrameKept, Writing
<1>7. QED
  BY <1>3, <1>4, <1>6
-----------------------------------------------------------------------------
(* The listener, its receive and the ring behind it.                       *)

LEMMA RingPlaces ==
  ASSUME ReaderTypes
  PROVE  /\ RingSize \in Nat /\ RingSize > 1
         /\ RingLength \in 0 .. RingSize - 1
         /\ RingPlace(RingLength) = rxRingBufferHead
         /\ \A k \in 0 .. RingSize - 1 : RingPlace(k) \in 0 .. RingSize - 1
         /\ \A k, j \in 0 .. RingSize - 1 : RingPlace(k) = RingPlace(j) => k = j
         /\ RingPlace(0) = rxRingBufferTail
<1>1. RingSize \in Nat /\ RingSize > 1
  BY LengthsAssumption
<1>2. QED
  BY <1>1 DEF ReaderTypes, RingLength, RingPlace

\* A byte is taken from the ring's tail.
LEMMA TailAdvances ==
  ASSUME ReaderTypes, RingLength > 0, rxRingBufferTail' = RingNext(rxRingBufferTail), UNCHANGED rxRingBufferHead
  PROVE  /\ rxRingBufferTail' \in 0 .. RingSize - 1
         /\ RingLength' = RingLength - 1
         /\ \A k \in 0 .. RingLength - 2 : RingPlace(k)' = RingPlace(k + 1)
<1>1. RingSize \in Nat /\ RingSize > 1
  BY LengthsAssumption
<1>2. QED
  BY <1>1 DEF ReaderTypes, RingLength, RingPlace, RingNext

\* A byte is put at the ring's head.
LEMMA HeadAdvances ==
  ASSUME ReaderTypes, RingLength < RingSize - 1, rxRingBufferHead' = RingNext(rxRingBufferHead),
         UNCHANGED rxRingBufferTail
  PROVE  /\ rxRingBufferHead' \in 0 .. RingSize - 1
         /\ RingLength' = RingLength + 1
         /\ \A k \in 0 .. RingLength : RingPlace(k)' = RingPlace(k)
<1>1. RingSize \in Nat /\ RingSize > 1
  BY LengthsAssumption
<1>2. QED
  BY <1>1 DEF ReaderTypes, RingLength, RingPlace, RingNext

\* A byte is put at the head of a full ring, over the oldest one.
LEMMA BothAdvance ==
  ASSUME ReaderTypes, RingFull, rxRingBufferHead' = RingNext(rxRingBufferHead),
         rxRingBufferTail' = RingNext(rxRingBufferTail)
  PROVE  /\ rxRingBufferHead' \in 0 .. RingSize - 1 /\ rxRingBufferTail' \in 0 .. RingSize - 1
         /\ RingLength' = RingLength
<1>1. RingSize \in Nat /\ RingSize > 1
  BY LengthsAssumption
<1>2. QED
  BY <1>1 DEF ReaderTypes, RingLength, RingNext, RingFull

\* The last byte of a frame is known by its number.
LEMMA FrameEnds ==
  ASSUME NEW n \in Nat, NEW c \in 1 .. RequestLen
  PROVE  (n * RequestLen + c) % RequestLen = 0 <=> c = RequestLen
<1>1. RequestLen \in Nat \ {0}
  BY LengthsAssumption
<1> DEFINE x == n * RequestLen + c
           q == x \div RequestLen
           r == x % RequestLen
<1>2. x \in Nat
  BY <1>1
<1>3. q \in Int /\ r \in 0 .. RequestLen - 1 /\ x = RequestLen * q + r
  BY <1>1, <1>2
<1>4. RequestLen * (q - n) = c - r
  BY <1>1, <1>3
<1>5. QED
  BY <1>1, <1>3, <1>4

\* The remainder of a step that leaves the port and the frame received alone.
LEMMA ReaderUndisturbed ==
  ASSUME ReaderTypes, RingHolds, BytesInOrder, UNCHANGED <<rx_vars, uart_msg_buffer, handled>>,
         pc'[Uart] = pc[Uart] \/ (pc[Uart] \notin {"rx_wait", "suspended"} /\ pc'[Uart] \notin {"rx_wait", "suspended"})
  PROVE  ReaderTypes' /\ RingHolds' /\ BytesInOrder'
<1>1. ReaderTypes'
  BY DEF ReaderTypes, rx_vars
<1>2. RingHolds'
  BY DEF RingHolds, RingPlace, RingLength, ByteLost, rx_vars
<1>3. BytesInOrder'
  BY DEF RingHolds, BytesInOrder, HandledAsSent, ByteLost, rx_vars
<1>4. QED
  BY <1>1, <1>2, <1>3

LEMMA ListIsFunction ==
  ASSUME NEW S, NEW s \in Seq(S)
  PROVE  s = [i \in 1 .. Len(s) |-> s[i]]
OBVIOUS

\* How many bytes the handled frames have.
LEMMA HandledBytes ==
  ASSUME ReaderTypes
  PROVE  /\ Len(handled) \in Nat /\ Len(uart_msg_buffer) \in Nat /\ RequestLen \in Nat \ {0}
         /\ Len(handled) * RequestLen \in Nat
<1>1. Len(handled) \in Nat /\ Len(uart_msg_buffer) \in Nat /\ RequestLen \in Nat \ {0}
  BY LengthsAssumption DEF ReaderTypes
<1>2. QED
  BY <1>1

LEMMA RxFullIrqKeeps ==
  ASSUME ReaderTypes, RingHolds, BytesInOrder, RxFullIrq
  PROVE  ReaderTypes' /\ RingHolds' /\ BytesInOrder'
<1>1. CASE rx_wanted
  <2>1. /\ RingLength = 0 /\ pc[Uart] = "rx_wait" /\ "complete" \notin rxEvent
        /\ UNCHANGED <<pc, ring, rxRingBufferHead, rxRingBufferTail, overfull, missed, uart_msg_buffer, handled>>
        /\ rx_wanted' = FALSE /\ uart_rcv_buffer' = next_byte /\ last_taken' = next_byte
        /\ next_byte' = next_byte + 1 /\ rxEvent' = rxEvent \cup {"complete"}
    BY <1>1 DEF RxFullIrq, RingHolds, handle_vars
  <2>2. ReaderTypes'
    <3>1. next_byte' \in Nat \ {0} /\ rxEvent' \subseteq {"complete", "hardware", "overrun"}
      BY <2>1 DEF ReaderTypes
    <3>2. QED
      BY <2>1, <3>1 DEF ReaderTypes
  <2>3. RingLength' = 0
    BY <2>1 DEF RingLength
  <2>4. RingHolds'
    BY <2>1, <2>3 DEF ReaderTypes, RingHolds, ByteLost
  <2>5. BytesInOrder'
    <3>1. ~ ByteLost => next_byte = Len(handled) * RequestLen + Len(uart_msg_buffer) + 1
      BY <2>1, HandledBytes DEF ReaderTypes, RingHolds, BytesInOrder
    <3>2. QED
      BY <2>1, <3>1 DEF BytesInOrder, HandledAsSent, ByteLost
  <2>6. QED
    BY <2>2, <2>4, <2>5
<1>2. CASE ~ rx_wanted
  <2>1. /\ UNCHANGED <<pc, missed, rx_wanted, uart_rcv_buffer, last_taken, uart_msg_buffer, handled>>
        /\ rxRingBufferHead' = RingNext(rxRingBufferHead)
        /\ ring' = [ring EXCEPT ![rxRingBufferHead] = next_byte]
        /\ next_byte' = next_byte + 1
        /\ rxEvent' = rxEvent \cup (IF RingFull THEN {"overrun"} ELSE {})
        /\ rxRingBufferTail' = IF RingFull THEN RingNext(rxRingBufferTail) ELSE rxRingBufferTail
    BY <1>2 DEF RxFullIrq, handle_vars
  <2>2. overfull' <=> overfull \/ next_byte - last_taken >= RingSize
    BY <1>2 DEF RxFullIrq
  <2>3. overfull' \in BOOLEAN
    BY <1>2, Zenon DEF RxFullIrq
  <2>4. /\ RingSize \in Nat /\ RingSize > 1 /\ RingLength \in 0 .. RingSize - 1
        /\ \A k \in 0 .. RingSize - 1 : RingPlace(k) \in 0 .. RingSize - 1
        /\ \A k \in 0 .. RingSize - 1 :
             ring'[RingPlace(k)] = IF k = RingLength THEN next_byte ELSE ring[RingPlace(k)]
    BY <2>1, RingPlaces DEF ReaderTypes
  <2>5. ring' \in [0 .. RingSize - 1 -> Nat]
    BY <2>1 DEF ReaderTypes
  <2>6. CASE ~ RingFull
    <3>1. RingLength < RingSize - 1
      BY <2>4, <2>6 DEF RingFull
    <3>2. /\ rxRingBufferHead' \in 0 .. RingSize - 1 /\ RingLength' = RingLength + 1
          /\ \A k \in 0 .. RingLength : RingPlace(k)' = RingPlace(k)
      BY <2>1, <2>6, <3>1, HeadAdvances
    <3>3. ReaderTypes'
      BY <2>1, <2>3, <2>5, <2>6, <3>2 DEF ReaderTypes
    <3>4. ~ ByteLost => ~ ByteLost'
      BY <2>1, <2>2, <2>4, <3>1 DEF RingHolds, ReaderTypes, ByteLost
    <3>5. ByteLost => ByteLost'
      BY <2>1, <2>2 DEF ByteLost
    <3>6. rxEvent' = rxEvent
      BY <2>1, <2>6
    <3>7. ~ ByteLost => \A k \in 0 .. RingLength' - 1 : ring'[RingPlace(k)'] = next_byte' - RingLength' + k
      <4>1. SUFFICES ASSUME ~ ByteLost, NEW k \in 0 .. RingLength' - 1
                     PROVE  ring'[RingPlace(k)'] = next_byte' - RingLength' + k
        OBVIOUS
      <4>2. k \in 0 .. RingLength /\ k \in 0 .. RingSize - 1 /\ next_byte \in Nat
        BY <2>4, <3>2 DEF ReaderTypes
      <4>3. /\ RingPlace(k)' = RingPlace(k)
            /\ ring'[RingPlace(k)] = IF k = RingLength THEN next_byte ELSE ring[RingPlace(k)]
        BY <2>4, <3>2, <4>2
      <4>4. next_byte' - RingLength' + k = next_byte - RingLength + k
        BY <2>1, <2>4, <3>2, <4>2
      <4>5. CASE k = RingLength
        BY <2>4, <4>2, <4>3, <4>4, <4>5
      <4>6. CASE k # RingLength
        <5>1. k \in 0 .. RingLength - 1
          BY <2>4, <4>2, <4>6
        <5>2. QED
          BY <4>1, <4>3, <4>4, <4>6, <5>1 DEF RingHolds
      <4>7. QED
        BY <4>5, <4>6
    <3>8. RingHolds'
      <4>1. ~ ByteLost' => last_taken' = next_byte' - 1 - RingLength'
        BY <2>1, <2>4, <3>2, <3>5 DEF ReaderTypes, RingHolds
      <4>2. QED
        BY <1>2, <2>1, <3>4, <3>5, <3>6, <3>7, <4>1 DEF RingHolds
    <3>9. BytesInOrder'
      BY <2>1, <3>4, <3>5, <3>6 DEF BytesInOrder, HandledAsSent
    <3>10. QED
      BY <3>3, <3>8, <3>9
  <2>7. CASE RingFull
    <3>1. RingLength = RingSize - 1
      BY <2>7 DEF RingFull
    <3>2. /\ rxRingBufferHead' \in 0 .. RingSize - 1 /\ rxRingBufferTail' \in 0 .. RingSize - 1
          /\ RingLength' = RingLength
      BY <2>1, <2>7, BothAdvance
    <3>3. ReaderTypes'
      BY <2>1, <2>3, <2>5, <2>7, <3>2 DEF ReaderTypes
    <3>4. ByteLost'
      BY <2>1, <2>2, <2>4, <3>1 DEF RingHolds, ReaderTypes, ByteLost
    <3>5. rxEvent' = rxEvent \cup {"overrun"}
      BY <2>1, <2>7
    <3>6. RingHolds'
      BY <1>2, <2>1, <3>2, <3>4, <3>5 DEF RingHolds
    <3>7. BytesInOrder'
      BY <2>1, <3>4, <3>5 DEF BytesInOrder, HandledAsSent
    <3>8. QED
      BY <3>3, <3>6, <3>7
  <2>8. QED
    BY <2>6, <2>7
<1>3. QED
  BY <1>1, <1>2

LEMMA RxOverrunIrqKeeps ==
  ASSUME ReaderTypes, RingHolds, BytesInOrder, RxOverrunIrq
  PROVE  ReaderTypes' /\ RingHolds' /\ BytesInOrder'
<1>1. /\ rxEvent' = rxEvent \cup {"hardware"} /\ missed' = TRUE /\ next_byte' \in Nat \ {0}
      /\ UNCHANGED <<pc, ring, rxRingBufferHead, rxRingBufferTail, rx_wanted, uart_rcv_buffer, last_taken, overfull,
                     uart_msg_buffer, handled>>
  BY DEF RxOverrunIrq, ReaderTypes, handle_vars
<1>2. ReaderTypes'
  BY <1>1 DEF ReaderTypes
<1>3. RingHolds'
  BY <1>1 DEF RingHolds, RingLength, ByteLost
<1>4. BytesInOrder'
  BY <1>1 DEF BytesInOrder, HandledAsSent, ByteLost
<1>5. QED
  BY <1>2, <1>3, <1>4

LEMMA ReceiveNonBlockingKeeps ==
  ASSUME ReaderTypes, RingHolds, BytesInOrder, pc \in [Tasks -> Places], ReceiveNonBlocking
  PROVE  ReaderTypes' /\ RingHolds' /\ BytesInOrder'
<1>1. /\ pc[Uart] = "receive" /\ pc'[Uart] = "rx_wait" /\ ~ rx_wanted /\ "complete" \notin rxEvent
      /\ ~ ByteLost \/ rxEvent \cap {"hardware", "overrun"} # {}
      /\ UNCHANGED <<next_byte, ring, rxRingBufferHead, overfull, missed, uart_msg_buffer, handled>>
  BY DEF ReceiveNonBlocking, Goto, Tasks, RingHolds, BytesInOrder, handle_vars
<1>2. ByteLost' <=> ByteLost
  BY <1>1 DEF ByteLost
<1>3. CASE RingLength > 0
  <2>1. /\ uart_rcv_buffer' = ring[rxRingBufferTail] /\ last_taken' = ring[rxRingBufferTail]
        /\ rxRingBufferTail' = RingNext(rxRingBufferTail)
        /\ rxEvent' = rxEvent \cup {"complete"} /\ UNCHANGED rx_wanted
    BY <1>3 DEF ReceiveNonBlocking
  <2>2. /\ rxRingBufferTail' \in 0 .. RingSize - 1 /\ RingLength' = RingLength - 1
        /\ \A k \in 0 .. RingLength - 2 : RingPlace(k)' = RingPlace(k + 1)
    BY <1>1, <1>3, <2>1, TailAdvances
  <2>3. RingLength \in Nat /\ RingPlace(0) = rxRingBufferTail
    BY RingPlaces
  <2>4. ReaderTypes'
    BY <1>1, <2>1, <2>2 DEF ReaderTypes
  <2>5. ~ ByteLost => ring[rxRingBufferTail] = next_byte - RingLength
    <3>1. 0 \in 0 .. RingLength - 1
      BY <1>3, <2>3
    <3>2. ~ ByteLost => ring[RingPlace(0)] = next_byte - RingLength + 0
      BY <3>1 DEF RingHolds
    <3>3. QED
      BY <2>3, <3>2 DEF ReaderTypes
  <2>6. ~ ByteLost => \A k \in 0 .. RingLength' - 1 : ring'[RingPlace(k)'] = next_byte' - RingLength' + k
    BY <1>1, <2>2, <2>3 DEF RingHolds, ReaderTypes
  <2>7. RingHolds'
    BY <1>1, <1>2, <2>1, <2>2, <2>3, <2>5, <2>6 DEF RingHolds, ReaderTypes
  <2>8. BytesInOrder'
    <3>1. ~ ByteLost => next_byte - RingLength = Len(handled) * RequestLen + Len(uart_msg_buffer) + 1
      <4>1. ~ ByteLost => last_taken = Len(handled) * RequestLen + Len(uart_msg_buffer) + 0
        BY <1>1 DEF BytesInOrder
      <4>2. ~ ByteLost => last_taken = next_byte - 1 - RingLength
        BY DEF RingHolds
      <4>3. next_byte \in Nat /\ last_taken \in Nat
        BY DEF ReaderTypes
      <4>4. QED
        BY <2>3, <4>1, <4>2, <4>3, HandledBytes, SMTT(30)
    <3>2. QED
      BY <1>1, <1>2, <2>1, <2>5, <3>1 DEF BytesInOrder, HandledAsSent
  <2>9. QED
    BY <2>4, <2>7, <2>8
<1>4. CASE RingLength = 0
  <2>1. rx_wanted' = TRUE /\ UNCHANGED <<uart_rcv_buffer, last_taken, rxRingBufferTail, rxEvent>>
    BY <1>4 DEF ReceiveNonBlocking
  <2>2. ReaderTypes'
    BY <1>1, <2>1 DEF ReaderTypes
  <2>3. RingHolds'
    BY <1>1, <1>2, <1>4, <2>1 DEF RingHolds, RingPlace, RingLength
  <2>4. BytesInOrder'
    BY <1>1, <1>2, <2>1 DEF BytesInOrder, HandledAsSent
  <2>5. QED
    BY <2>2, <2>3, <2>4
<1>5. QED
  BY <1>3, <1>4 DEF ReceiveNonBlocking

LEMMA ReceiveFailsKeeps ==
  ASSUME ReaderTypes, RingHolds, BytesInOrder, pc \in [Tasks -> Places], ReceiveFails
  PROVE  ReaderTypes' /\ RingHolds' /\ BytesInOrder'
<1>1. /\ pc'[Uart] = "suspended" /\ ByteLost /\ rx_wanted' = FALSE /\ rxEvent' = {}
      /\ UNCHANGED <<next_byte, ring, rxRingBufferHead, rxRingBufferTail, uart_rcv_buffer, last_taken, overfull, missed,
                     uart_msg_buffer, handled>>
  BY DEF ReceiveFails, Goto, Tasks, RingHolds, handle_vars
<1>2. ReaderTypes'
  BY <1>1 DEF ReaderTypes
<1>3. RingHolds'
  BY <1>1 DEF RingHolds, ByteLost
<1>4. BytesInOrder'
  BY <1>1 DEF BytesInOrder, HandledAsSent, ByteLost
<1>5. QED
  BY <1>2, <1>3, <1>4

LEMMA ListenerByteKeeps ==
  ASSUME ReaderTypes, RingHolds, BytesInOrder, pc \in [Tasks -> Places], ListenerByte
  PROVE  ReaderTypes' /\ RingHolds' /\ BytesInOrder'
<1> DEFINE n == Len(handled)
           b == Append(uart_msg_buffer, uart_rcv_buffer)
<1>1. /\ pc[Uart] = "rx_wait" /\ rxEvent = {"complete"} /\ rxEvent' = {} /\ ~ ByteLost
      /\ UNCHANGED <<next_byte, ring, rxRingBufferHead, rxRingBufferTail, rx_wanted, uart_rcv_buffer, last_taken,
                     overfull, missed>>
      /\ pc'[Uart] \in {"receive", "sensor", "reply"}
  BY DEF ListenerByte, ByteReceived, Goto, Tasks, RingHolds
<1>2. RequestLen \in Nat \ {0} /\ n \in Nat /\ Len(uart_msg_buffer) \in Nat
  BY LengthsAssumption DEF ReaderTypes
<1>3. ~ rx_wanted /\ uart_rcv_buffer = n * RequestLen + Len(uart_msg_buffer) + 1
  BY <1>1, <1>2 DEF BytesInOrder, RingHolds
<1>4. /\ b \in Seq(Nat) /\ Len(b) = Len(uart_msg_buffer) + 1 /\ Len(b) \in 1 .. RequestLen
      /\ b[Len(b)] = n * RequestLen + Len(b)
  BY <1>2, <1>3 DEF ReaderTypes, BytesInOrder
<1>5. \A i \in 1 .. Len(b) : b[i] = n * RequestLen + i
  <2>1. \A i \in 1 .. Len(b) : i = Len(b) \/ (i \in 1 .. Len(uart_msg_buffer) /\ b[i] = uart_msg_buffer[i])
    BY <1>2, <1>4 DEF ReaderTypes
  <2>2. QED
    BY <1>4, <2>1 DEF BytesInOrder
<1>6. FrameComplete(b) <=> Len(b) = RequestLen
  BY <1>2, <1>4, FrameEnds DEF FrameComplete
<1>7. RingHolds'
  BY <1>1, <1>3 DEF RingHolds, RingPlace, RingLength, ByteLost
<1>8. CASE ~ FrameComplete(b)
  <2>1. uart_msg_buffer' = b /\ UNCHANGED handled
    BY <1>8 DEF ListenerByte
  <2>2. ReaderTypes'
    BY <1>1, <1>4, <2>1 DEF ReaderTypes
  <2>3. last_taken' = n * RequestLen + Len(b)
    BY <1>1, <1>2, <1>4 DEF BytesInOrder
  <2>4. BytesInOrder'
    BY <1>1, <1>2, <1>4, <1>5, <1>6, <1>8, <2>1, <2>3 DEF BytesInOrder, HandledAsSent
  <2>5. QED
    BY <1>7, <2>2, <2>4
<1>9. CASE FrameComplete(b)
  <2>1. uart_msg_buffer' = << >> /\ handled' = Append(handled, b)
    BY <1>9 DEF ListenerByte
  <2>2. handled' \in Seq(Seq(Nat)) /\ Len(handled') = n + 1
    BY <1>4, <2>1 DEF ReaderTypes
  <2>3. ReaderTypes'
    BY <1>1, <2>1, <2>2 DEF ReaderTypes
  <2>4. b = [i \in 1 .. RequestLen |-> (n + 1 - 1) * RequestLen + i]
    <3>1. b = [i \in 1 .. Len(b) |-> b[i]]
      <4> HIDE DEF b
      <4>1. QED
        BY <1>4, ListIsFunction
    <3>2. n + 1 - 1 = n /\ Len(b) = RequestLen
      BY <1>2, <1>6, <1>9
    <3>3. QED
      BY <1>5, <3>1, <3>2
  <2>5. HandledAsSent'
    <3>1. SUFFICES ASSUME NEW k \in DOMAIN handled'
                   PROVE  handled'[k] = [i \in 1 .. RequestLen |-> (k - 1) * RequestLen + i]
      BY DEF HandledAsSent
    <3>2. CASE k = n + 1
      <4>1. handled'[k] = b
        BY <1>2, <2>1, <3>2 DEF ReaderTypes
      <4>2. QED
        BY <2>4, <3>2, <4>1
    <3>3. CASE k # n + 1
      <4>1. k \in DOMAIN handled /\ handled'[k] = handled[k]
        BY <1>2, <1>4, <2>1, <2>2, <3>3, SMTT(30) DEF ReaderTypes
      <4>2. QED
        BY <4>1 DEF BytesInOrder, HandledAsSent
    <3>4. QED
      BY <3>2, <3>3
  <2>6. (n + 1) * RequestLen = n * RequestLen + RequestLen
    BY <1>2
  <2>7. last_taken' = Len(handled') * RequestLen
    <3>1. last_taken = n * RequestLen + Len(uart_msg_buffer) + 1
      BY <1>1, <1>3 DEF BytesInOrder
    <3>2. Len(uart_msg_buffer) + 1 = RequestLen
      BY <1>4, <1>6, <1>9
    <3>3. last_taken = n * RequestLen + RequestLen
      BY <1>2, <3>1, <3>2
    <3>4. QED
      BY <1>1, <2>2, <2>6, <3>3
  <2>8. last_taken' \in Nat /\ Len(uart_msg_buffer') = 0
    BY <2>1, <2>3 DEF ReaderTypes
  <2>9. BytesInOrder'
    BY <1>1, <1>2, <2>5, <2>7, <2>8 DEF BytesInOrder
  <2>10. QED
    BY <1>7, <2>3, <2>9
<1>10. QED
  BY <1>8, <1>9

-----------------------------------------------------------------------------
(* Every step keeps the invariant.                                         *)

LEMMA Starts ==
  ASSUME Init
  PROVE  IInv
<1>1. WriterTypes
  <2>1. pc \in [Tasks -> Places]
    BY DEF Init, Places, Writing
  <2>2. write_payload_buffer \in [1 .. LongestFrame -> FrameBytes]
    BY DEF Init, FrameBytes
  <2>3. on_line \in Seq(FrameBytes)
    BY DEF Init
  <2>4. QED
    BY <2>1, <2>2, <2>3 DEF Init, WriterTypes
<1>2. TxOwned
  BY DEF Init, TxOwned, DriverIdle
<1>3. FramesKept
  BY DEF Init, FramesKept, FrameKept, Writing
<1>4. ReaderTypes
  <2>1. ring \in [0 .. RingSize - 1 -> Nat] /\ 0 \in 0 .. RingSize - 1
    BY LengthsAssumption DEF Init
  <2>2. uart_msg_buffer \in Seq(Nat) /\ handled \in Seq(Seq(Nat))
    BY DEF Init
  <2>3. next_byte \in Nat \ {0} /\ last_taken \in Nat /\ uart_rcv_buffer \in Nat
    BY DEF Init
  <2>4. rxRingBufferHead \in 0 .. RingSize - 1 /\ rxRingBufferTail \in 0 .. RingSize - 1
    BY <2>1 DEF Init
  <2>5. rx_wanted = FALSE /\ overfull = FALSE /\ missed = FALSE /\ rxEvent = {}
    BY DEF Init
  <2>6. QED
    BY <2>1, <2>2, <2>3, <2>4, <2>5 DEF ReaderTypes
<1>5. RingHolds
  BY TasksAssumption, LengthsAssumption DEF Init, RingHolds, ByteLost, RingLength, Tasks
<1>6. BytesInOrder
  BY LengthsAssumption DEF Init, BytesInOrder, HandledAsSent
<1>7. QED
  BY <1>1, <1>2, <1>3, <1>4, <1>5, <1>6 DEF IInv

LEMMA WriteStepKeeps ==
  ASSUME IInv, NEW t \in Tasks, WriteStep(t)
  PROVE  IInv'
<1>1. WriterTypes' /\ TxOwned' /\ FramesKept'
  BY StcpEscapeKeeps, TakeTxSemaphoreKeeps, SendNonBlockingKeeps, WaitTxCompleteKeeps, GiveTxSemaphoreKeeps
     DEF IInv, WriteStep
<1>2. UNCHANGED <<rx_vars, uart_msg_buffer, handled>>
  BY DEF WriteStep, StcpEscape, TakeTxSemaphore, SendNonBlocking, WaitTxComplete, GiveTxSemaphore, handle_vars
<1>3. pc[t] \in Writing /\ \E l \in Writing \cup {AfterWrite(t)} : pc' = [pc EXCEPT ![t] = l]
  <2>1. CASE StcpEscape(t)
    <3>1. pc' = [pc EXCEPT ![t] = "take"] \/ pc' = [pc EXCEPT ![t] = pc[t]]
      BY <2>1 DEF StcpEscape, Goto, IInv, WriterTypes
    <3>2. QED
      BY <2>1, <3>1 DEF StcpEscape, Writing
  <2>2. CASE TakeTxSemaphore(t)
    BY <2>2 DEF TakeTxSemaphore, Goto, Writing
  <2>3. CASE SendNonBlocking(t)
    BY <2>3 DEF SendNonBlocking, Goto, Writing
  <2>4. CASE WaitTxComplete(t)
    BY <2>4 DEF WaitTxComplete, Goto, Writing
  <2>5. CASE GiveTxSemaphore(t)
    BY <2>5 DEF GiveTxSemaphore, Goto, Writing
  <2>6. QED
    BY <2>1, <2>2, <2>3, <2>4, <2>5 DEF WriteStep
<1>4. \/ pc'[Uart] = pc[Uart]
      \/ pc[Uart] \notin {"rx_wait", "suspended"} /\ pc'[Uart] \notin {"rx_wait", "suspended"}
  BY <1>3, TasksAssumption DEF IInv, WriterTypes, AfterWrite, Writing, Tasks
<1>5. QED
  BY <1>1, <1>2, <1>4, ReaderUndisturbed DEF IInv

LEMMA NewMessageKeeps ==
  ASSUME IInv, StreamDue \/ Reply
  PROVE  IInv'
<1>1. PICK t \in Tasks : /\ BeginWrite(t) /\ pc[t] \notin Writing
                         /\ t = Uart => pc[t] = "reply"
  BY TasksAssumption DEF StreamDue, Reply, Writing, Tasks
<1>2. UNCHANGED <<tx_vars, rx_vars, uart_msg_buffer, handled>>
  BY DEF StreamDue, Reply, handle_vars
<1>3. WriterTypes' /\ TxOwned' /\ FramesKept'
  BY <1>1, <1>2, BeginWriteKeeps DEF IInv
<1>4. \/ pc'[Uart] = pc[Uart]
      \/ pc[Uart] \notin {"rx_wait", "suspended"} /\ pc'[Uart] \notin {"rx_wait", "suspended"}
  BY <1>1 DEF IInv, WriterTypes, BeginWrite, Goto, Tasks
<1>5. QED
  BY <1>2, <1>3, <1>4, ReaderUndisturbed DEF IInv

\* The steps of the listener outside StcpWrite.
LEMMA ListenerKeeps ==
  ASSUME IInv, NoReply \/ SensorRead \/ ReceiveNonBlocking \/ ReceiveFails \/ ListenerByte
  PROVE  IInv'
<1>1. /\ UNCHANGED <<tx_vars, write_vars>>
      /\ pc[Uart] \in {"reply", "sensor", "receive", "rx_wait"}
      /\ \E l \in {"reply", "sensor", "receive", "rx_wait", "suspended"} : pc' = [pc EXCEPT ![Uart] = l]
  BY DEF NoReply, SensorRead, ReceiveNonBlocking, ReceiveFails, ListenerByte, ByteReceived, Goto
<1>2. /\ pc' \in [Tasks -> Places]
      /\ \A t \in Tasks : pc'[t] = pc[t] \/ (pc[t] \notin Writing /\ pc'[t] \notin Writing)
  BY <1>1 DEF IInv, WriterTypes, Places, Writing
<1>3. WriterTypes' /\ TxOwned' /\ FramesKept'
  BY <1>1, <1>2, WritersUndisturbed DEF IInv
<1>4. CASE NoReply \/ SensorRead
  <2>1. UNCHANGED <<rx_vars, uart_msg_buffer, handled>>
    BY <1>4 DEF NoReply, SensorRead, handle_vars
  <2>2. pc[Uart] \notin {"rx_wait", "suspended"} /\ pc'[Uart] \notin {"rx_wait", "suspended"}
    BY <1>4 DEF NoReply, SensorRead, Goto, IInv, WriterTypes, Tasks
  <2>3. QED
    BY <1>3, <2>1, <2>2, ReaderUndisturbed DEF IInv
<1>5. CASE ReceiveNonBlocking \/ ReceiveFails \/ ListenerByte
  BY <1>3, <1>5, ReceiveNonBlockingKeeps, ReceiveFailsKeeps, ListenerByteKeeps DEF IInv, WriterTypes
<1>6. QED
  BY <1>4, <1>5

LEMMA InterruptsKeep ==
  ASSUME IInv, TxEmptyIrq \/ TxCompleteIrq \/ RxFullIrq \/ RxOverrunIrq
  PROVE  IInv'
<1>1. CASE TxEmptyIrq \/ TxCompleteIrq
  <2>1. UNCHANGED <<pc, rx_vars, uart_msg_buffer, handled>>
    BY <1>1 DEF TxEmptyIrq, TxCompleteIrq, handle_vars
  <2>2. QED
    BY <1>1, <2>1, TxEmptyIrqKeeps, TxCompleteIrqKeeps, ReaderUndisturbed DEF IInv
<1>2. CASE RxFullIrq \/ RxOverrunIrq
  <2>1. UNCHANGED <<pc, tx_vars, write_vars>>
    BY <1>2 DEF RxFullIrq, RxOverrunIrq
  <2>2. QED
    BY <1>2, <2>1, RxFullIrqKeeps, RxOverrunIrqKeeps, WritersUndisturbed DEF IInv, WriterTypes
<1>3. QED
  BY <1>1, <1>2

LEMMA StepKeeps ==
  ASSUME IInv, [Next]_vars
  PROVE  IInv'
<1>1. CASE UNCHANGED vars
  <2>1. UNCHANGED <<pc, tx_vars, write_vars, rx_vars, uart_msg_buffer, handled>>
    BY <1>1 DEF vars, handle_vars
  <2>2. QED
    BY <2>1, WritersUndisturbed, ReaderUndisturbed DEF IInv, WriterTypes
<1>2. CASE Next
  <2>1. Uart \in Tasks /\ Cc \in Tasks
    BY DEF Tasks
  <2>2. QED
    BY <1>2, <2>1, WriteStepKeeps, NewMessageKeeps, ListenerKeeps, InterruptsKeep DEF Next, ListenerStep
<1>3. QED
  BY <1>1, <1>2

LEMMA InvariantHolds == Spec => []IInv
<1>1. Init => IInv
  BY Starts
<1>2. IInv /\ [Next]_vars => IInv'
  BY StepKeeps
<1>3. QED
  BY <1>1, <1>2, PTL DEF Spec

-----------------------------------------------------------------------------
(* What it means for the messages.                                         *)

\* The state keeps its types; at most one task has the transmit mutex, and a receive
\* waits only while the ring is empty.
THEOREM TypesKept == Spec => []TypeOK
<1>1. ASSUME IInv
      PROVE  TypeOK
  <2>1. Cardinality(txSemaphore) <= 1
    <3>1. txSemaphore = {} \/ \E t \in Tasks : txSemaphore = {t}
      BY <1>1 DEF IInv, WriterTypes, TxOwned
    <3>2. QED
      BY <3>1, FS_EmptySet, FS_Singleton
  <2>2. tx_left \in 0 .. LongestFrame
    <3>1. tx_left = 0 \/ \E t \in Tasks : tx_left \in 1 .. FrameLen[t]
      BY <1>1 DEF IInv, TxOwned, DriverIdle, SendingBytes, AllBytesSent
    <3>2. QED
      BY <3>1, FrameLengths, LengthsAssumption DEF LongestFrame, Tasks
  <2>3. QED
    BY <1>1, <2>1, <2>2 DEF IInv, WriterTypes, ReaderTypes, RingHolds, TypeOK, Places
<1>2. QED
  BY <1>1, InvariantHolds, PTL

\* Nothing but the other task's writing at the same time damages or loses a message:
\* neither what is left in the shared buffer nor an earlier transfer.
THEOREM OnlyOverlapsDamage == Spec => []OnlyOverlapDamages
<1>1. IInv => OnlyOverlapDamages
  BY DEF IInv, FramesKept, FrameKept, OnlyOverlapDamages
<1>2. QED
  BY <1>1, InvariantHolds, PTL

\* The task that takes the transmit mutex finds the driver idle and the event bit
\* clear, so its wait ends with its own transfer.
THEOREM FreeMutexMeansIdleDriver == Spec => []FreeMeansIdle
<1>1. IInv => FreeMeansIdle
  BY DEF IInv, WriterTypes, TxOwned, DriverIdle, FreeMeansIdle
<1>2. QED
  BY <1>1, InvariantHolds, PTL

\* The listener handles the messages that were sent, whole, in order and none left
\* out, however late it takes their bytes.
THEOREM MessagesHandledAsSent == Spec => []HandledAsSent
<1>1. IInv => HandledAsSent
  BY DEF IInv, BytesInOrder
<1>2. QED
  BY <1>1, InvariantHolds, PTL

\* The listener stops for good only after a byte that waited was written over or one
\* was lost in the port, however long requests, answers and the ring are.
THEOREM StopsOnlyAfterLoss == Spec => []SuspendedOnlyAfterLoss
<1>1. IInv => SuspendedOnlyAfterLoss
  BY DEF IInv, RingHolds, ByteLost, SuspendedOnlyAfterLoss
<1>2. QED
  BY <1>1, InvariantHolds, PTL

\* A writer that waits has its end ahead: all bytes not yet sent are inside its frame
\* and the interrupt that sends the next is enabled, or the one that reports the end
\* is, or the end was reported.  And a listener outside of StcpWrite, stopped for good
\* or not, leaves the mutex free.
WritersServed ==
  /\ \A t \in Tasks : pc[t] = "wait" =>
       \/ tx_empty_irq /\ tx_left \in 1 .. FrameLen[t] /\ tx_next + tx_left = FrameLen[t] + 1
       \/ tx_complete_irq \/ txEvent
  /\ \A t \in Tasks : pc[t] \notin Writing => t \notin txSemaphore

\* No writer waits in LPUART_RTOS_Send (fsl_lpuart_freertos.c:271) for an event that
\* nothing will set: what WritesReturn needs besides fairness, for frames of every
\* length.
THEOREM WritersAreServed == Spec => []WritersServed
<1>1. IInv => WritersServed
  <2>1. ASSUME IInv, NEW t \in Tasks, pc[t] = "wait", SendingBytes(t)
        PROVE  tx_empty_irq /\ tx_left \in 1 .. FrameLen[t] /\ tx_next + tx_left = FrameLen[t] + 1
    BY <2>1, FrameLengths DEF SendingBytes
  <2>2. QED
    BY <2>1 DEF IInv, TxOwned, AllBytesSent, WritersServed, Writing
<1>2. QED
  BY <1>1, InvariantHolds, PTL

=============================================================================
