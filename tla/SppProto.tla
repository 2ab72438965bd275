------------------------------ MODULE SppProto ------------------------------
(***************************************************************************)
(* The Simple Property Protocol: the messages the SPP host (telemetry      *)
(* server) and the SPP clients (flight software) exchange, the limits the  *)
(* two engines share, and the link that carries the messages.              *)
(*                                                                         *)
(* One FIFO of whole messages per client and direction stands for the      *)
(* UART / XBee line with its STCP framing.  A property is represented by   *)
(* its id; the value of a property by the property it was read from, so    *)
(* that a value handed to the wrong property can be told apart.            *)
(***************************************************************************)
EXTENDS Integers, Sequences, FiniteSets, FiniteSetsExt

CONSTANTS
  Clients,                   \* addresses of the SPP clients
  PropertyList,              \* client -> sequence of the property ids it has
  ListId,                    \* client -> property_list_id it announces
  SPP_TOKEN_MAX_RESERVED,    \* 0xFF: never a token, marks a free slot
  SPP_PENDING_REQUESTS_MAX,  \* 8
  SPP_CONNECTIONS_MAX,       \* 5
  SPP_STREAM_MAX_COUNT,      \* 16
  DefsBufferSize,            \* defs_buffer_size given at host initialisation
  MaxInFlight                \* bound of the model: no new request or stream
                             \* message while this many are on a line

ASSUME TokenAssumption == SPP_TOKEN_MAX_RESERVED \in Nat /\ SPP_TOKEN_MAX_RESERVED > 0
ASSUME SlotsAssumption == SPP_PENDING_REQUESTS_MAX \in Nat /\ SPP_PENDING_REQUESTS_MAX > 0
ASSUME ConnectionsAssumption == SPP_CONNECTIONS_MAX \in Nat /\ SPP_CONNECTIONS_MAX > 0
ASSUME StreamsAssumption == SPP_STREAM_MAX_COUNT \in 0 .. 255   \* stream ids are bytes
ASSUME DefsBufferAssumption == DefsBufferSize \in Nat
ASSUME BoundAssumption == MaxInFlight \in Nat
ASSUME ListIdAssumption == ListId \in [Clients -> Nat]

Props == UNION { { PropertyList[c][i] : i \in DOMAIN PropertyList[c] } : c \in Clients }

ASSUME PropertyListAssumption ==
  /\ PropertyList \in [Clients -> Seq(Props)]
  /\ \A c \in Clients : PropertyList[c] # <<>>

VARIABLES
  toHost,    \* client -> messages on their way to the host
  toClient,  \* client -> messages on their way to that client
  fault      \* first access outside of an object's storage, or "none"

linkVars == <<toHost, toClient>>

-----------------------------------------------------------------------------
\* The tokens SppGetToken hands out: an 8-bit count that skips the reserved value.
Tokens == 0 .. SPP_TOKEN_MAX_RESERVED - 1
Slots == 1 .. SPP_PENDING_REQUESTS_MAX
StreamIds == 0 .. 255

\* Messages a client sends.
ConnectRequest(id) == [type |-> "CONNECT_REQUEST_BC", list_id |-> id]
PropListResponse(n) == [type |-> "PROP_LIST_RESPONSE", num_props |-> n]
PropDef(p, r) == [type |-> "PROP_DEF", prop |-> p, remaining |-> r]
GetResponse(t, p) == [type |-> "GET_RESPONSE", token |-> t, prop |-> p]
SetResponse(t) == [type |-> "SET_RESPONSE", token |-> t]
StreamData(s, p) == [type |-> "STREAM", stream_id |-> s, prop |-> p]

\* Messages the host sends.
ConnectResponse(st) == [type |-> "CONNECT_RESPONSE", status |-> st]
GetRequest(t, p) == [type |-> "GET_REQUEST", token |-> t, prop |-> p]
SetRequest(t, p) == [type |-> "SET_REQUEST", token |-> t, prop |-> p]
StreamRequest(t, s, p) ==
  [type |-> "STREAM_REQUEST", token |-> t, stream_id |-> s, prop |-> p]

-----------------------------------------------------------------------------
\* A defined behaviour ends at the first access out of bounds: what the
\* program does afterwards depends on the memory layout and is not modelled.
Running == fault = "none"

SendToHost(c, ms) == toHost' = [toHost EXCEPT ![c] = @ \o ms]

\* A handler consumes the message at the head and sends the answers ms.
ReplyToHost(c, ms) ==
  /\ toClient' = [toClient EXCEPT ![c] = Tail(@)]
  /\ toHost' = [toHost EXCEPT ![c] = @ \o ms]

ReplyToClient(c, ms) ==
  /\ toHost' = [toHost EXCEPT ![c] = Tail(@)]
  /\ toClient' = [toClient EXCEPT ![c] = @ \o ms]

\* The radio may drop any message; dropping heads at any time loses any subset.
LoseToHost(c) ==
  /\ toHost[c] # <<>>
  /\ toHost' = [toHost EXCEPT ![c] = Tail(@)]
  /\ UNCHANGED toClient

LoseToClient(c) ==
  /\ toClient[c] # <<>>
  /\ toClient' = [toClient EXCEPT ![c] = Tail(@)]
  /\ UNCHANGED toHost
=============================================================================
