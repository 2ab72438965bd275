------------------------------- MODULE SppLink -------------------------------
(***************************************************************************)
(* The SPP system: one host, its clients and the link between them.        *)
(*                                                                         *)
(* Either side may be switched off and on again; while it is off what      *)
(* reaches it is lost, what it sent before is still delivered.  With Lossy *)
(* the radio itself drops messages as well.                                *)
(***************************************************************************)
EXTENDS SppHost, SppClient

CONSTANTS
  Lossy,           \* the radio may drop messages
  MaxHostBoots,    \* bound of the model: starts of the server
  MaxClientBoots   \* bound of the model: starts of each client

ASSUME LossyAssumption == Lossy \in BOOLEAN
ASSUME BootsAssumption == MaxHostBoots \in Nat /\ MaxClientBoots \in Nat

VARIABLES host_boots, client_boots

bootVars == <<host_boots, client_boots>>
vars == <<hostVars, clientVars, linkVars, fault, bootVars>>

Init ==
  /\ host_up = FALSE
  /\ state = "READY"
  /\ token_count = 0
  /\ pending_request_tokens = NoTokens
  /\ pending_request_count = 0
  /\ defs_buffer = <<>>
  /\ clients = <<>>
  /\ property_count = NoCounts
  /\ property_def_start = NoCounts
  /\ stream_count = 0
  /\ streams = NoStreams
  /\ client_up = [c \in Clients |-> FALSE]
  /\ started = [c \in Clients |-> FALSE]
  /\ sending = [c \in Clients |-> 0]
  /\ is_duplicate = [c \in Clients |-> FALSE]
  /\ client_streams = [c \in Clients |-> <<>>]
  /\ toHost = [c \in Clients |-> <<>>]
  /\ toClient = [c \in Clients |-> <<>>]
  /\ fault = "none"
  /\ host_boots = 0
  /\ client_boots = [c \in Clients |-> 0]

-----------------------------------------------------------------------------
\* Each side can be switched off only while its bound lets it start again.
PowerOnHost ==
  /\ Running
  /\ host_boots < MaxHostBoots
  /\ HostBoot
  /\ host_boots' = host_boots + 1
  /\ UNCHANGED <<clientVars, client_boots>>

PowerOffHost ==
  /\ Running
  /\ host_boots < MaxHostBoots
  /\ HostCrash
  /\ UNCHANGED <<clientVars, bootVars>>

PowerOnClient(c) ==
  /\ Running
  /\ client_boots[c] < MaxClientBoots
  /\ ClientBoot(c)
  /\ client_boots' = [client_boots EXCEPT ![c] = @ + 1]
  /\ UNCHANGED <<hostVars, host_boots>>

PowerOffClient(c) ==
  /\ Running
  /\ client_boots[c] < MaxClientBoots
  /\ ClientCrash(c)
  /\ UNCHANGED <<hostVars, bootVars>>

\* The serial listener thread of the server handles a message.
HostHandles(c) ==
  /\ Running
  /\ HostReceive(c)
  /\ UNCHANGED <<clientVars, bootVars>>

\* A command of the viewer.
ViewerAsks(c) ==
  /\ Running
  /\ \/ \E p \in AppProps : SppHostGetValue(c, p) \/ SppHostSetValue(c, p)
     \/ \E p \in StreamProps : SppHostStartStream(c, p)
  /\ UNCHANGED <<clientVars, bootVars>>

\* The uart listener task of the client handles a message, or goes on with the
\* list it is sending.
ClientHandles(c) ==
  /\ Running
  /\ ClientReceive(c) \/ SendPropDef(c)
  /\ UNCHANGED <<hostVars, bootVars>>

ClientBroadcasts(c) ==
  /\ Running
  /\ SppClientStart(c)
  /\ UNCHANGED <<hostVars, bootVars>>

ClientStreams(c) ==
  /\ Running
  /\ SppProcessStreams(c)
  /\ UNCHANGED <<hostVars, bootVars>>

Overrun(c) ==
  /\ Running
  /\ \/ HostOverrun(c) /\ UNCHANGED clientVars
     \/ ClientOverrun(c) /\ UNCHANGED hostVars
  /\ UNCHANGED bootVars

Lose(c) ==
  /\ Running
  /\ \/ (Lossy \/ ~host_up) /\ LoseToHost(c)
     \/ (Lossy \/ ~client_up[c]) /\ LoseToClient(c)
  /\ UNCHANGED <<hostVars, clientVars, fault, bootVars>>

Next ==
  \/ PowerOnHost
  \/ PowerOffHost
  \/ \E c \in Clients :
       \/ PowerOnClient(c)
       \/ PowerOffClient(c)
       \/ HostHandles(c)
       \/ ViewerAsks(c)
       \/ ClientHandles(c)
       \/ ClientBroadcasts(c)
       \/ ClientStreams(c)
       \/ Overrun(c)
       \/ Lose(c)

Spec == Init /\ [][Next]_vars

\* Both programs are switched on, and while on they read their line, finish a
\* list they began and broadcast: each is a task or thread of its own that
\* blocks only on its input.  Nothing makes the viewer ask for anything, a
\* stream expire or a message get lost.
Fairness ==
  /\ WF_vars(PowerOnHost)
  /\ \A c \in Clients :
       /\ WF_vars(PowerOnClient(c))
       /\ WF_vars(HostHandles(c))
       /\ WF_vars(ClientHandles(c))
       /\ WF_vars(ClientBroadcasts(c))

FairSpec == Spec /\ Fairness

-----------------------------------------------------------------------------
\* Type invariant: every variable of the two engines and of the link stays in
\* its C type, and counters stay within the arrays they index.
HostMessages ==
  [type : {"CONNECT_RESPONSE"}, status : {"OK", "BUSY", "DUPLICATE_CLIENT"}]
    \cup [type : {"GET_REQUEST", "SET_REQUEST"}, token : Tokens, prop : AppProps]
    \cup [type : {"STREAM_REQUEST"}, token : Tokens, stream_id : StreamIds, prop : StreamProps]

ClientMessages ==
  [type : {"CONNECT_REQUEST_BC"}, list_id : Nat]
    \cup [type : {"PROP_LIST_RESPONSE"}, num_props : Nat]
    \cup [type : {"PROP_DEF"}, prop : Props, remaining : Nat]
    \cup [type : {"GET_RESPONSE"}, token : Tokens, prop : Props]
    \cup [type : {"SET_RESPONSE"}, token : Tokens]
    \cup [type : {"STREAM"}, stream_id : StreamIds, prop : Props]

Faults == { "none", "defs_buffer", "client_index", "connections", "stream_data",
            "host_streams", "client_definition", "client_streams", "stream_definition" }

TokenTypeOK ==
  /\ token_count \in Tokens
  /\ pending_request_tokens \in [Slots -> Tokens \cup {SPP_TOKEN_MAX_RESERVED}]
  /\ pending_request_count \in 0 .. SPP_PENDING_REQUESTS_MAX

TableTypeOK ==
  /\ state \in {"READY", "CONNECTING"}
  /\ defs_buffer \in Seq([client : Clients, prop : Props])
  /\ Len(defs_buffer) <= DefsBufferSize
  /\ clients \in Seq([client : Clients, list_id : Nat])
  /\ Len(clients) <= SPP_CONNECTIONS_MAX
  /\ property_count \in [Connections -> Nat]
  /\ property_def_start \in [Connections -> Nat]

StreamTypeOK ==
  /\ stream_count \in StreamIds
  /\ streams \in [0 .. SPP_STREAM_MAX_COUNT - 1 -> StreamProps \cup {NoProp}]

ClientTypeOK ==
  /\ client_up \in [Clients -> BOOLEAN]
  /\ started \in [Clients -> BOOLEAN]
  /\ sending \in [Clients -> Nat]
  /\ \A c \in Clients : sending[c] <= Len(PropertyList[c])
  /\ is_duplicate \in [Clients -> BOOLEAN]
  /\ client_streams \in
       [Clients -> Seq([stream_id : StreamIds, def : Props \cup {NoDef}])]

LinkTypeOK ==
  /\ toHost \in [Clients -> Seq(ClientMessages)]
  /\ toClient \in [Clients -> Seq(HostMessages)]
  /\ fault \in Faults

PowerTypeOK ==
  /\ host_up \in BOOLEAN
  /\ host_boots \in 0 .. MaxHostBoots
  /\ client_boots \in [Clients -> 0 .. MaxClientBoots]

TypeOK ==
  /\ PowerTypeOK
  /\ TokenTypeOK
  /\ TableTypeOK
  /\ StreamTypeOK
  /\ ClientTypeOK
  /\ LinkTypeOK

-----------------------------------------------------------------------------
\* Safety.

\* The request window: pending_request_count is the number of occupied slots,
\* however requests, answers, lost answers and restarts interleave (a response
\* carrying the reserved token would free a slot that is already free).
PendingCountExact == pending_request_count = Cardinality(Slots \ FreeSlots)

\* For one vehicle that stays on, with gets and sets only and nothing lost: the token
\* that comes next is that of a request still waiting for its answer only when the
\* line holds as many messages as there are tokens (255 in the code).  While it
\* holds fewer no two requests share a token, and an answer retires its own
\* (SppClearToken takes the first slot it finds).
ReuseNeedsFullLine ==
  host_up =>
    \A i \in Slots \ FreeSlots :
      pending_request_tokens[i] = SppGetToken =>
        \E c \in Clients : Len(toHost[c]) + Len(toClient[c]) >= SPP_TOKEN_MAX_RESERVED

Carries(m, t) == "token" \in DOMAIN m /\ m.token = t

\* A slot is occupied only while its request or the answer to it is on the
\* line: nothing the two engines do leaves a slot behind that no message can
\* free any more.
PendingIsInFlight ==
  host_up =>
    \A i \in Slots \ FreeSlots : \E c \in Clients :
      \E m \in { toClient[c][k] : k \in DOMAIN toClient[c] }
               \cup { toHost[c][k] : k \in DOMAIN toHost[c] } :
        Carries(m, pending_request_tokens[i])

\* SppHostGetDefinition reads only definitions that were written: every range
\* lies inside the used part of defs_buffer, through reconnections,
\* duplicates and lists cut short.
RangesAreWritten ==
  \A c \in Clients : Registered(c) => ClientRange(c) \subseteq DOMAIN defs_buffer

\* A client that reconnects any number of times has one entry in the table.
RegisteredOnce ==
  \A i, j \in DOMAIN clients : clients[i].client = clients[j].client => i = j

\* No client has been started a second time yet: each broadcasts its presence
\* at most once.
NoClientRestarted == \A c \in Clients : client_boots[c] <= 1

\* "not ready until all properties are received" (spp/src-host/spp.c:63): in
\* state READY every property of every registered client can be looked up, for
\* as long as no client restarts (a list that was cut short by a restart of
\* both sides is taken for a whole one).
Findable(c) ==
  \A i \in DOMAIN PropertyList[c] : SppHostGetDefinition(c, PropertyList[c][i])

ReadyMeansAllReceived ==
  NoClientRestarted /\ host_up /\ state = "READY" =>
    \A c \in Clients : Registered(c) => Findable(c)

\* A stream message is booked under the property whose value it carries.
StreamValuesMatch ==
  \A c \in Clients :
    Received(c, "STREAM") =>
      LET m == Head(toHost[c])
      IN  m.stream_id \in DOMAIN streams /\ streams[m.stream_id] # NoProp
            => streams[m.stream_id] = m.prop

\* The same as long as the server has not been restarted, whatever the radio
\* loses and however often the vehicle restarts.
FirstRunStreamsMatch == host_boots <= 1 => StreamValuesMatch

\* Until then, too, every stream message names a stream the host knows, and a
\* client never has to store more streams than its table holds nor serves one
\* whose property it does not have.
FirstRunStreamTablesSuffice ==
  host_boots <= 1 => fault \notin {"stream_data", "client_streams", "stream_definition"}

\* Clients that announced the same list are given the same definitions, for as
\* long as no client restarts: one that reconnects without being the client
\* registered last has the range of its kind copied to that last client, of
\* whatever kind it is (spp/src-host/spp.c:86).
SameListSameRange ==
  NoClientRestarted /\ host_up /\ state = "READY" =>
    \A i, j \in DOMAIN clients :
      clients[i].list_id = clients[j].list_id =>
        /\ property_count[i] = property_count[j]
        /\ property_def_start[i] = property_def_start[j]

\* The range the host searches for client i changes.
RangeChanges(i) ==
  <<property_def_start[i], property_count[i]>>' # <<property_def_start[i], property_count[i]>>

HandlesMessageOf(i) == toHost[clients[i].client]' # toHost[clients[i].client]

\* Whatever clients connect, reconnect or turn out to be duplicates, no message
\* of one client changes the range of another, except for the client
\* registered last, which SppConnectToClient takes for the one it just added
\* (spp/src-host/spp.c:86).
OnlyLastRangeIsExposed ==
  [][ host_up /\ host_up' =>
        \A i \in DOMAIN clients :
          RangeChanges(i) => HandlesMessageOf(i) \/ i = Len(clients') ]_vars

-----------------------------------------------------------------------------
\* Liveness.

\* Whatever the order in which server and flight software are started, and
\* however often the server is restarted, the host ends up with every
\* property of every client.
PropertyListArrives == \A c \in Clients : <>[](host_up /\ Findable(c))

\* A host that is receiving a property list gets out of that state.
ConnectingEnds == host_up /\ state = "CONNECTING" ~> host_up /\ state = "READY"
=============================================================================
