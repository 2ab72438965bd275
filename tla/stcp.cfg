\* Three frames of every message of one or two bytes, two bytes lost anywhere.
SPECIFICATION Spec
CONSTANTS
  STCP_HEADER = STCP_HEADER
  STCP_ESCAPE = STCP_ESCAPE
  STCP_FOOTER = STCP_FOOTER
  data = data
  Payloads <- ShortPayloads
  MaxFrames = 3
  MaxLosses = 2
INVARIANTS DeliveredAsSent Resynchronises BufferBounded
CHECK_DEADLOCK FALSE
