-------------------------------- MODULE Stcp --------------------------------
(***************************************************************************)
(* The framing of messages on the serial line (stcp/src/stcp.c) and the    *)
(* receive loop of both ends, UartListener_Task in the vehicle and         *)
(* startListener in the telemetry server, which cut the byte stream into   *)
(* frames at two footer bytes in a row.                                    *)
(*                                                                         *)
(* One direction of the line; noise may swallow bytes.                     *)
(***************************************************************************)
EXTENDS Integers, Sequences, SequencesExt

CONSTANTS
  STCP_HEADER, STCP_ESCAPE, STCP_FOOTER,
  Payloads,      \* the messages, sequences of bytes
  MaxFrames,     \* bound of the model: messages sent
  MaxLosses      \* bound of the model: bytes lost

ASSUME BytesAssumption ==
  STCP_HEADER # STCP_ESCAPE /\ STCP_ESCAPE # STCP_FOOTER /\ STCP_HEADER # STCP_FOOTER
ASSUME BoundsAssumption == MaxFrames \in Nat /\ MaxLosses \in Nat

VARIABLES
  line,         \* the bytes on the line, each with the number of its frame
  msg_buffer,   \* the bytes received of the next frame
  sent,         \* the messages sent
  delivered,    \* the messages handed to HandleMessage
  losses,       \* the number of bytes lost
  last_hit      \* the newest frame that lost a byte, or 0

vars == <<line, msg_buffer, sent, delivered, losses, last_hit>>

-----------------------------------------------------------------------------
Special == {STCP_ESCAPE, STCP_FOOTER, STCP_HEADER}
Alphabet == Special \cup UNION { ToSet(m) : m \in Payloads }

\* A message begins with its type, and none is longer than the buffers the
\* escaped bytes are written to (MAX_PAYLOAD_LENGTH).
ASSUME PayloadsAssumption ==
  /\ \A m \in Payloads : m \in Seq(Alphabet) /\ m # <<>>
  /\ \E m \in Payloads : \A n \in Payloads : Len(n) <= Len(m)

\* Faulty variant: footers inside a message are not escaped.
EscapedNotFooter(b) == IF b \in Special \ {STCP_FOOTER} THEN << STCP_ESCAPE, b >> ELSE << b >>

Escaped(b) == IF b \in Special THEN << STCP_ESCAPE, b >> ELSE << b >>

StcpEscape(m) ==
  << STCP_HEADER >> \o FlattenSeq([i \in DOMAIN m |-> Escaped(m[i])])
                    \o << STCP_FOOTER, STCP_FOOTER >>

\* The first and the last two bytes are taken for header and footer, whatever
\* they are; an escape before the footer takes the footer's first byte.
StcpUnEscape(b) ==
  LET from[i \in Nat] ==
        IF i > Len(b) - 2 THEN <<>>
        ELSE IF b[i] = STCP_ESCAPE THEN << b[i + 1] >> \o from[i + 2]
        ELSE << b[i] >> \o from[i + 1]
  IN  from[2]

\* Faulty variant: a footer is three bytes.
FrameCompleteThree(b) ==
  Len(b) >= 3 /\ \A i \in Len(b) - 2 .. Len(b) : b[i] = STCP_FOOTER

FrameComplete(b) ==
  Len(b) >= 2 /\ \A i \in Len(b) - 1 .. Len(b) : b[i] = STCP_FOOTER

-----------------------------------------------------------------------------
Init ==
  /\ line = <<>>
  /\ msg_buffer = <<>>
  /\ sent = <<>>
  /\ delivered = <<>>
  /\ losses = 0
  /\ last_hit = 0

\* Sending blocks until the frame has left.
StcpWrite(m) ==
  /\ line = <<>>
  /\ Len(sent) < MaxFrames
  /\ sent' = Append(sent, m)
  /\ line' = [i \in DOMAIN StcpEscape(m) |->
                [byte |-> StcpEscape(m)[i], frame |-> Len(sent) + 1]]
  /\ UNCHANGED <<msg_buffer, delivered, losses, last_hit>>

\* Faulty variant: the next frame is collected behind the complete one.
BufferAfterFrameKept(b) == b

BufferAfterFrame(b) == <<>>

ReceiveByte ==
  /\ line # <<>>
  /\ line' = Tail(line)
  /\ LET b == Append(msg_buffer, Head(line).byte)
     IN  \/ /\ FrameComplete(b)
            /\ delivered' = Append(delivered, StcpUnEscape(b))
            /\ msg_buffer' = BufferAfterFrame(b)
         \/ /\ ~FrameComplete(b)
            /\ msg_buffer' = b
            /\ UNCHANGED delivered
  /\ UNCHANGED <<sent, losses, last_hit>>

LoseByte ==
  /\ line # <<>>
  /\ losses < MaxLosses
  /\ line' = Tail(line)
  /\ losses' = losses + 1
  /\ last_hit' = Head(line).frame
  /\ UNCHANGED <<msg_buffer, sent, delivered>>

Next == ReceiveByte \/ LoseByte \/ \E m \in Payloads : StcpWrite(m)

Spec == Init /\ [][Next]_vars

-----------------------------------------------------------------------------
\* What becomes of the k-th message: a frame whose message ends in a footer
\* byte is complete one byte early, and the byte left over shifts the header of
\* the next frame into its message.
Received(k) ==
  IF k > 1 /\ Last(sent[k - 1]) = STCP_FOOTER
  THEN << STCP_HEADER >> \o sent[k] ELSE sent[k]

ReceivedFrom(k) == [i \in 1 .. Len(sent) - k + 1 |-> Received(k + i - 1)]

\* Without noise every message sent is handed over once and in order, escaped
\* bytes included, and only a message that follows one ending in a footer byte
\* is changed: it begins with a spurious header byte.
DeliveredAsSent == line = <<>> /\ losses = 0 => delivered = ReceivedFrom(1)

\* However bytes are lost, only the frame that lost one and the frame behind
\* it suffer: all later messages are handed over as without noise.
Resynchronises ==
  line = <<>> /\ losses > 0 => IsSuffix(ReceivedFrom(last_hit + 2), delivered)

\* The receive buffer holds one frame, and one more for every byte lost.
LongestFrame == 2 * Len(CHOOSE m \in Payloads : \A n \in Payloads : Len(n) <= Len(m)) + 3
BufferBounded == Len(msg_buffer) <= (losses + 1) * LongestFrame + 1
=============================================================================
