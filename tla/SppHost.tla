------------------------------- MODULE SppHost -------------------------------
(***************************************************************************)
(* The SPP host engine (spp/src-host/spp.c) as the telemetry server runs   *)
(* it: every public operation and every message handler is one action,     *)
(* since the server serialises them with a mutex.                          *)
(*                                                                         *)
(* Arrays of the engine are 1-based here; property_def_start keeps its     *)
(* C meaning of an offset, so entry k of a client's range is               *)
(* defs_buffer[property_def_start + k].                                    *)
(***************************************************************************)
EXTENDS SppProto

CONSTANTS
  NoClient,           \* "no address": the server connects to nobody at start
  DefaultClient,      \* the address the server connects to in start(), or NoClient
  StreamCountAtBoot,  \* values stream_count may have: SppHostEngineInit leaves it
  AppProps,           \* property ids the viewer gets and sets
  StreamProps         \* property ids the viewer starts streams of

ASSUME DefaultClientAssumption == DefaultClient \in Clients \cup {NoClient}
ASSUME NoClientAssumption == NoClient \notin Clients
ASSUME StreamCountAssumption == StreamCountAtBoot \subseteq StreamIds

VARIABLES
  host_up,                 \* the server process runs
  state,                   \* READY or CONNECTING
  token_count,
  pending_request_tokens,
  pending_request_count,
  defs_buffer,             \* the definitions written so far (defs_buffer_used = Len)
  clients,                 \* the registered clients (client_count = Len)
  property_count,
  property_def_start,
  stream_count,
  streams                  \* stream_id -> property of the stream, or NoProp

tokenVars == <<token_count, pending_request_tokens, pending_request_count>>
tableVars == <<state, defs_buffer, clients, property_count, property_def_start>>
streamVars == <<stream_count, streams>>
hostVars == <<host_up, tokenVars, tableVars, streamVars>>

NoProp == "no property"
Connections == 1 .. SPP_CONNECTIONS_MAX
NoTokens == [i \in Slots |-> SPP_TOKEN_MAX_RESERVED]
NoCounts == [i \in Connections |-> 0]
ASSUME NoPropAssumption == NoProp \notin Props
NoStreams == [s \in 0 .. SPP_STREAM_MAX_COUNT - 1 |-> NoProp]

-----------------------------------------------------------------------------
\* Pending requests.

\* Faulty variant: the 8-bit counter simply wraps, 0xFF included.
SppGetTokenUnskipped == (token_count + 1) % (SPP_TOKEN_MAX_RESERVED + 1)

SppGetToken ==
  IF token_count + 1 = SPP_TOKEN_MAX_RESERVED THEN 0 ELSE token_count + 1

FreeSlots == { i \in Slots : pending_request_tokens[i] = SPP_TOKEN_MAX_RESERVED }
SlotsOf(t) == { i \in Slots : pending_request_tokens[i] = t }

\* Faulty variant: a request that found no slot is counted too.
SppInsertTokenAlwaysCounted(t) ==
  /\ IF FreeSlots = {}
     THEN UNCHANGED pending_request_tokens
     ELSE pending_request_tokens' = [pending_request_tokens EXCEPT ![Min(FreeSlots)] = t]
  /\ pending_request_count' = pending_request_count + 1

\* Faulty variant: the loop goes on after the first free slot.
SppInsertTokenEverywhere(t) ==
  /\ pending_request_tokens' =
       [i \in Slots |-> IF i \in FreeSlots THEN t ELSE pending_request_tokens[i]]
  /\ pending_request_count' = pending_request_count + Cardinality(FreeSlots)

\* The lowest free slot takes the token; with none free the token is dropped
\* and the caller, which ignores the result, sends the request all the same.
SppInsertToken(t) ==
  \/ /\ FreeSlots # {}
     /\ pending_request_tokens' = [pending_request_tokens EXCEPT ![Min(FreeSlots)] = t]
     /\ pending_request_count' = pending_request_count + 1
  \/ /\ FreeSlots = {}
     /\ UNCHANGED <<pending_request_tokens, pending_request_count>>

SppClearToken(t) ==
  \/ /\ SlotsOf(t) # {}
     /\ pending_request_tokens' =
          [pending_request_tokens EXCEPT ![Min(SlotsOf(t))] = SPP_TOKEN_MAX_RESERVED]
     /\ pending_request_count' = pending_request_count - 1
     /\ UNCHANGED token_count
  \/ /\ SlotsOf(t) = {}
     /\ UNCHANGED tokenVars

-----------------------------------------------------------------------------
\* Registered clients and their definitions.

Registered(c) == \E i \in DOMAIN clients : clients[i].client = c
SppGetClientIdx(c) == CHOOSE i \in DOMAIN clients : clients[i].client = c

\* The definitions SppHostGetDefinition searches for client c.
ClientRange(c) ==
  LET i == SppGetClientIdx(c)
  IN  { property_def_start[i] + k : k \in 1 .. property_count[i] }

SppHostGetDefinition(c, p) ==
  Registered(c) /\ \E k \in ClientRange(c) : defs_buffer[k].prop = p

\* Faulty variant: a client that comes back is added again.
SppAddClientTwice(c, id) ==
  IF Len(clients) = SPP_CONNECTIONS_MAX
  THEN clients ELSE Append(clients, [client |-> c, list_id |-> id])

SppAddClient(c, id) ==
  IF Registered(c) THEN clients ELSE Append(clients, [client |-> c, list_id |-> id])

\* Faulty variants: the duplicate's range is not copied, or copied backwards.
CopyRangeNot(f, last, from) == f
CopyRangeBackwards(f, last, from) == [f EXCEPT ![from] = f[last]]

CopyRange(f, last, from) == [f EXCEPT ![last] = f[from]]

\* SppConnectToClient for a request that just set the state to CONNECTING: the
\* answer is OK, or DUPLICATE_CLIENT when another client announced the same
\* list.  A duplicate's range is copied to the last client registered, and the
\* loop's last match wins.
SppConnectToClient(c, id) ==
  LET known == SppAddClient(c, id)
      last  == Len(known)
      same  == { i \in 1 .. last : known[i].list_id = id /\ known[i].client # c }
      from  == IF same \subseteq {last} THEN last ELSE Max(same \ {last})
  IN  /\ clients' = known
      /\ property_def_start' = CopyRange(property_def_start, last, from)
      /\ property_count' = CopyRange(property_count, last, from)
      /\ \/ /\ same = {}
            /\ state' = "CONNECTING"
            /\ ReplyToClient(c, << ConnectResponse("OK") >>)
         \/ /\ same # {}
            /\ state' = "READY"
            /\ ReplyToClient(c, << ConnectResponse("DUPLICATE_CLIENT") >>)

RoomForClient(c) == Registered(c) \/ Len(clients) < SPP_CONNECTIONS_MAX

-----------------------------------------------------------------------------
\* Start and end of the server process.

\* SppHostEngineInit and, on a serial line, SppConnectToClient to the default
\* address.  (What reaches a host that is down, or is flushed when the port is
\* opened, is lost on the link: see SppLink.)
\* Faulty variant: the counts of the previous run are kept.
CountsAtBootKept == property_count

CountsAtBoot == NoCounts

\* Faulty variant: the server waits for the vehicle's broadcast.
ClientsAtBootNone == clients' = <<>> /\ UNCHANGED toClient

ClientsAtBoot ==
  IF DefaultClient = NoClient
  THEN clients' = <<>> /\ UNCHANGED toClient
  ELSE /\ clients' = << [client |-> DefaultClient, list_id |-> 0] >>
       /\ toClient' = [toClient EXCEPT ![DefaultClient] = Append(@, ConnectResponse("OK"))]

HostBoot ==
  /\ ~host_up
  /\ host_up' = TRUE
  /\ token_count' = 0
  /\ pending_request_tokens' = NoTokens
  /\ pending_request_count' = 0
  /\ defs_buffer' = <<>>
  /\ property_count' = CountsAtBoot
  /\ property_def_start' = NoCounts
  /\ stream_count' \in StreamCountAtBoot
  /\ streams' = NoStreams
  /\ state' = "READY"
  /\ ClientsAtBoot
  /\ UNCHANGED <<toHost, fault>>

HostCrash ==
  /\ host_up
  /\ host_up' = FALSE
  /\ UNCHANGED <<tokenVars, tableVars, streamVars, linkVars, fault>>

-----------------------------------------------------------------------------
\* SppHostProcessMessage, one action per message.

Received(c, type) ==
  /\ host_up
  /\ toHost[c] # <<>>
  /\ Head(toHost[c]).type = type

Discard(c) == ReplyToClient(c, <<>>)

\* Refused while the list of another client is being received.
ConnectBusy(c) ==
  /\ Received(c, "CONNECT_REQUEST_BC")
  /\ state # "READY"
  /\ ReplyToClient(c, << ConnectResponse("BUSY") >>)
  /\ UNCHANGED <<host_up, tokenVars, tableVars, streamVars, fault>>

ConnectAccepted(c) ==
  /\ Received(c, "CONNECT_REQUEST_BC")
  /\ state = "READY"
  /\ RoomForClient(c)
  /\ SppConnectToClient(c, Head(toHost[c]).list_id)
  /\ UNCHANGED <<host_up, tokenVars, defs_buffer, streamVars, fault>>

\* Too many properties is an error status the caller only prints: no answer
\* goes out and nothing is remembered, so the handler changes no state.
PropListReceived(c) ==
  /\ Received(c, "PROP_LIST_RESPONSE")
  /\ Discard(c)
  /\ UNCHANGED <<host_up, tokenVars, tableVars, streamVars, fault>>

\* Faulty variant: ready one definition too early.
LastDefinitionEarly(m) == m.remaining <= 1

LastDefinition(m) == m.remaining = 0

\* SppUnpackPropDef.
PropDefReceived(c) ==
  LET m == Head(toHost[c])
      i == SppGetClientIdx(c)
  IN  /\ Received(c, "PROP_DEF")
      /\ Registered(c)
      /\ Len(defs_buffer) < DefsBufferSize
      /\ property_count' = [property_count EXCEPT ![i] = @ + 1]
      /\ defs_buffer' = Append(defs_buffer, [client |-> c, prop |-> m.prop])
      /\ state' = IF LastDefinition(m) THEN "READY" ELSE state
      /\ Discard(c)
      /\ UNCHANGED <<host_up, tokenVars, clients, property_def_start, streamVars, fault>>

\* GET, SET and STREAM responses: the token is cleared before the status and
\* the token's own validity are looked at.  (No client ever sends the last.)
ResponseReceived(c) ==
  /\ \E type \in {"GET_RESPONSE", "SET_RESPONSE", "STREAM_RESPONSE"} : Received(c, type)
  /\ SppClearToken(Head(toHost[c]).token)
  /\ Discard(c)
  /\ UNCHANGED <<host_up, tableVars, streamVars, fault>>

\* The value goes to the property of streams[stream_id].
StreamReceived(c) ==
  /\ Received(c, "STREAM")
  /\ Head(toHost[c]).stream_id \in DOMAIN streams
  /\ streams[Head(toHost[c]).stream_id] # NoProp
  /\ Discard(c)
  /\ UNCHANGED <<host_up, tokenVars, tableVars, streamVars, fault>>

-----------------------------------------------------------------------------
\* Requests of the application.  A refused request changes nothing.

MayRequest(c) ==
  /\ host_up
  /\ pending_request_count <= SPP_PENDING_REQUESTS_MAX
  /\ Len(toClient[c]) + Len(toHost[c]) < MaxInFlight

\* SppGetToken and SppInsertToken, then the message goes out.
IssueRequest(c, m) ==
  /\ token_count' = SppGetToken
  /\ SppInsertToken(SppGetToken)
  /\ toClient' = [toClient EXCEPT ![c] = Append(@, m)]
  /\ UNCHANGED <<host_up, tableVars, toHost, fault>>

SppHostGetValue(c, p) ==
  /\ MayRequest(c)
  /\ Registered(c)
  /\ IssueRequest(c, GetRequest(SppGetToken, p))
  /\ UNCHANGED streamVars

SppHostSetValue(c, p) ==
  /\ MayRequest(c)
  /\ SppHostGetDefinition(c, p)
  /\ IssueRequest(c, SetRequest(SppGetToken, p))
  /\ UNCHANGED streamVars

\* Faulty variants: every stream gets the same id, or the request carries the
\* id of the next stream.
NextStreamSame == stream_count
StreamIdSentNext == (stream_count + 1) % 256

NextStream == (stream_count + 1) % 256
StreamIdSent == stream_count

SppHostStartStream(c, p) ==
  /\ MayRequest(c)
  /\ SppHostGetDefinition(c, p)
  /\ stream_count \in DOMAIN streams
  /\ streams' = [streams EXCEPT ![stream_count] = p]
  /\ stream_count' = NextStream
  /\ IssueRequest(c, StreamRequest(SppGetToken, StreamIdSent, p))

-----------------------------------------------------------------------------
\* The accesses nothing in the engine prevents; each ends the behaviour.

HostOverrun(c) ==
  /\ \/ /\ Received(c, "PROP_DEF")
        /\ Len(defs_buffer) >= DefsBufferSize
        /\ fault' = "defs_buffer"
     \/ /\ Received(c, "PROP_DEF")
        /\ ~Registered(c)
        /\ fault' = "client_index"
     \/ /\ Received(c, "CONNECT_REQUEST_BC")
        /\ state = "READY"
        /\ ~RoomForClient(c)
        /\ fault' = "connections"
     \/ /\ Received(c, "STREAM")
        /\ \/ Head(toHost[c]).stream_id \notin DOMAIN streams
           \/ streams[Head(toHost[c]).stream_id] = NoProp
        /\ fault' = "stream_data"
     \/ /\ MayRequest(c)
        /\ \E p \in StreamProps : SppHostGetDefinition(c, p)
        /\ stream_count \notin DOMAIN streams
        /\ fault' = "host_streams"
  /\ UNCHANGED <<hostVars, linkVars>>

HostReceive(c) ==
  \/ ConnectBusy(c)
  \/ ConnectAccepted(c)
  \/ PropListReceived(c)
  \/ PropDefReceived(c)
  \/ ResponseReceived(c)
  \/ StreamReceived(c)
=============================================================================
