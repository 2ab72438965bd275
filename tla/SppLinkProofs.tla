---------------------------- MODULE SppLinkProofs ----------------------------
(***************************************************************************)
(* Proofs about SppLink: type correctness, the request window and the      *)
(* connection table, for every number of clients, every property list and  *)
(* every size of the engines' tables.                                      *)
(***************************************************************************)
EXTENDS SppLink, FiniteSetTheorems, TLAPS

-----------------------------------------------------------------------------
\* Lemmas about the helpers the model is built from.

\* A non-empty set of natural numbers has a least element, and Min names it.
LEMMA MinOfNats ==
  ASSUME NEW S \in SUBSET Nat, S # {}
  PROVE  /\ Min(S) \in S
         /\ \A y \in S : Min(S) =< y
<1> DEFINE R == { ss \in Nat \X Nat : ss[1] < ss[2] }
<1>1. IsWellFoundedOn(R, Nat)
  BY NatLessThanWellFounded DEF OpToRel
<1>2. \E x \in S : \A y \in S : ~ (<<y, x>> \in R)
  <2> HIDE DEF R
  <2>1. QED
    BY <1>1, WFMin
<1>3. \E x \in S : \A y \in S : x =< y
  <2>1. PICK x \in S : \A y \in S : ~ (<<y, x>> \in R)
    BY <1>2
  <2>2. ASSUME NEW y \in S PROVE x =< y
    <3>1. y \in Nat /\ x \in Nat /\ ~ (<<y, x>> \in R)
      BY <2>1
    <3>2. ~ (y < x)
      BY <3>1
    <3>3. QED
      BY <3>1, <3>2
  <2>3. QED
    BY <2>2
<1>4. QED
  BY <1>3 DEF Min

\* So has a set of natural numbers below a bound a greatest one: it is as far
\* from the bound as the least distance.
LEMMA MaxOfBounded ==
  ASSUME NEW n \in Nat, NEW S \in SUBSET (1 .. n), S # {}
  PROVE  Max(S) \in S
<1> DEFINE D == { n - x : x \in S }
<1>1. D \in SUBSET Nat /\ D # {}
  <2>1. PICK x \in S : TRUE
    OBVIOUS
  <2>2. n - x \in D
    OBVIOUS
  <2>3. ASSUME NEW y \in S PROVE n - y \in Nat
    OBVIOUS
  <2>4. QED
    BY <2>2, <2>3
<1>2. Min(D) \in D /\ \A y \in D : Min(D) =< y
  <2> HIDE DEF D
  <2>1. QED
    BY <1>1, MinOfNats
<1>3. \E x \in S : \A y \in S : x >= y
  <2>1. PICK x \in S : Min(D) = n - x
    BY <1>2
  <2>2. \A y \in S : n - x =< n - y
    BY <1>2, <2>1
  <2>3. QED
    BY <2>2
<1>4. QED
  BY <1>3 DEF Max

-----------------------------------------------------------------------------
\* The request window.

\* Marking one more slot as occupied or free changes the number of occupied
\* slots by one.
LEMMA OccupiedFinite ==
  ASSUME NEW S \in SUBSET Slots
  PROVE  /\ IsFiniteSet(S)
         /\ Cardinality(S) \in 0 .. SPP_PENDING_REQUESTS_MAX
<1>1. IsFiniteSet(Slots) /\ Cardinality(Slots) = SPP_PENDING_REQUESTS_MAX
  BY FS_Interval, SlotsAssumption DEF Slots
<1>2. IsFiniteSet(S) /\ Cardinality(S) <= Cardinality(Slots)
  BY <1>1, FS_Subset
<1>3. Cardinality(S) \in Nat
  BY <1>2, FS_CardinalityType
<1>4. QED
  BY <1>1, <1>2, <1>3, SlotsAssumption

\* SppInsertToken with a token SppGetToken gave out.
LEMMA InsertKeepsWindow ==
  ASSUME TokenTypeOK, PendingCountExact, NEW t \in Tokens,
         token_count' = t, SppInsertToken(t)
  PROVE  TokenTypeOK' /\ PendingCountExact'
<1> DEFINE Occupied == Slots \ FreeSlots
<1>1. CASE FreeSlots # {}
  <2> DEFINE i == Min(FreeSlots)
  <2>1. i \in FreeSlots /\ i \in Slots
    BY <1>1, MinOfNats, SlotsAssumption DEF FreeSlots, Slots
  <2>2. /\ pending_request_tokens' = [pending_request_tokens EXCEPT ![i] = t]
        /\ pending_request_count' = pending_request_count + 1
    BY <1>1 DEF SppInsertToken
  <2>3. t # SPP_TOKEN_MAX_RESERVED
    BY TokenAssumption DEF Tokens
  <2>4. pending_request_tokens' \in [Slots -> Tokens \cup {SPP_TOKEN_MAX_RESERVED}]
    BY <2>2 DEF TokenTypeOK
  <2>5. Occupied' = Occupied \cup {i}
    <3> HIDE DEF i
    <3>1. QED
      BY <2>1, <2>2, <2>3 DEF FreeSlots, TokenTypeOK
  <2>6. Cardinality(Occupied') = Cardinality(Occupied) + 1
    <3> HIDE DEF i
    <3>1. i \notin Occupied
      BY <2>1
    <3>2. IsFiniteSet(Occupied)
      BY OccupiedFinite
    <3>3. QED
      BY <2>5, <3>1, <3>2, FS_AddElement
  <2>7. Cardinality(Occupied') \in 0 .. SPP_PENDING_REQUESTS_MAX
    <3>1. Occupied' \in SUBSET Slots
      BY <2>1, <2>5
    <3> HIDE DEF Occupied
    <3>2. QED
      BY <3>1, OccupiedFinite
  <2>8. QED
    BY <2>2, <2>4, <2>6, <2>7 DEF TokenTypeOK, PendingCountExact
<1>2. CASE FreeSlots = {}
  BY <1>2 DEF SppInsertToken, TokenTypeOK, PendingCountExact, FreeSlots
<1>3. QED
  BY <1>1, <1>2

\* SppClearToken with a token a response may carry: the slot it frees was
\* occupied.
LEMMA ClearKeepsWindow ==
  ASSUME TokenTypeOK, PendingCountExact, NEW t \in Tokens, SppClearToken(t)
  PROVE  TokenTypeOK' /\ PendingCountExact'
<1> DEFINE Occupied == Slots \ FreeSlots
<1>1. CASE SlotsOf(t) # {}
  <2> DEFINE i == Min(SlotsOf(t))
  <2>1. i \in SlotsOf(t)
    BY <1>1, MinOfNats, SlotsAssumption DEF SlotsOf, Slots
  <2>2. i \in Occupied
    BY <2>1, TokenAssumption DEF SlotsOf, FreeSlots, Tokens
  <2>3. /\ pending_request_tokens' =
             [pending_request_tokens EXCEPT ![i] = SPP_TOKEN_MAX_RESERVED]
        /\ pending_request_count' = pending_request_count - 1
        /\ token_count' = token_count
    BY <1>1 DEF SppClearToken
  <2>4. pending_request_tokens' \in [Slots -> Tokens \cup {SPP_TOKEN_MAX_RESERVED}]
    BY <2>3 DEF TokenTypeOK
  <2>5. Occupied' = Occupied \ {i}
    <3> HIDE DEF i
    <3>1. QED
      BY <2>2, <2>3 DEF FreeSlots, TokenTypeOK
  <2>6. Cardinality(Occupied') = Cardinality(Occupied) - 1
    <3> HIDE DEF i
    <3>1. IsFiniteSet(Occupied)
      BY OccupiedFinite
    <3>2. QED
      BY <2>2, <2>5, <3>1, FS_RemoveElement
  <2>7. Cardinality(Occupied') \in 0 .. SPP_PENDING_REQUESTS_MAX
    <3>1. Occupied' \in SUBSET Slots
      BY <2>5
    <3> HIDE DEF Occupied
    <3>2. QED
      BY <3>1, OccupiedFinite
  <2>8. QED
    BY <2>3, <2>4, <2>6, <2>7 DEF TokenTypeOK, PendingCountExact
<1>2. CASE SlotsOf(t) = {}
  BY <1>2 DEF SppClearToken, TokenTypeOK, PendingCountExact, FreeSlots, tokenVars
<1>3. QED
  BY <1>1, <1>2

\* SppHostEngineInit frees every slot.
LEMMA BootEmptiesWindow ==
  ASSUME token_count' = 0, pending_request_tokens' = NoTokens, pending_request_count' = 0
  PROVE  TokenTypeOK' /\ PendingCountExact'
<1>1. (Slots \ FreeSlots)' = {}
  BY DEF FreeSlots, NoTokens
<1>2. QED
  BY <1>1, FS_EmptySet, TokenAssumption, SlotsAssumption
     DEF TokenTypeOK, PendingCountExact, NoTokens, Tokens

LEMMA NextTokenIsToken == token_count \in Tokens => SppGetToken \in Tokens
BY TokenAssumption DEF SppGetToken, Tokens

-----------------------------------------------------------------------------
\* The inductive invariant, in the groups the actions change.

\* Every range of the connection table, used or not, lies in the part of
\* defs_buffer that was written: a copied range lies where its original does.
RangesInside ==
  \A i \in Connections : property_def_start[i] + property_count[i] <= Len(defs_buffer)

Window == TokenTypeOK /\ PendingCountExact
Table == TableTypeOK /\ RegisteredOnce /\ RangesInside

IInv ==
  /\ PowerTypeOK
  /\ Window
  /\ Table
  /\ StreamTypeOK
  /\ ClientTypeOK
  /\ LinkTypeOK

LEMMA UnchangedGroups ==
  /\ PowerTypeOK /\ UNCHANGED <<host_up, bootVars>> => PowerTypeOK'
  /\ Window /\ UNCHANGED tokenVars => Window'
  /\ Table /\ UNCHANGED tableVars => Table'
  /\ StreamTypeOK /\ UNCHANGED streamVars => StreamTypeOK'
  /\ ClientTypeOK /\ UNCHANGED clientVars => ClientTypeOK'
  /\ LinkTypeOK /\ UNCHANGED <<linkVars, fault>> => LinkTypeOK'
<1>1. PowerTypeOK /\ UNCHANGED <<host_up, bootVars>> => PowerTypeOK'
  BY DEF PowerTypeOK, bootVars
<1>2. Window /\ UNCHANGED tokenVars => Window'
  BY DEF Window, TokenTypeOK, PendingCountExact, FreeSlots, tokenVars
<1>3. Table /\ UNCHANGED tableVars => Table'
  BY DEF Table, TableTypeOK, RegisteredOnce, RangesInside, tableVars
<1>4. StreamTypeOK /\ UNCHANGED streamVars => StreamTypeOK'
  BY DEF StreamTypeOK, streamVars
<1>5. ClientTypeOK /\ UNCHANGED clientVars => ClientTypeOK'
  BY DEF ClientTypeOK, clientVars
<1>6. LinkTypeOK /\ UNCHANGED <<linkVars, fault>> => LinkTypeOK'
  BY DEF LinkTypeOK, linkVars
<1>7. QED
  BY <1>1, <1>2, <1>3, <1>4, <1>5, <1>6

-----------------------------------------------------------------------------
\* The link carries well-formed messages only.

LEMMA HostMessageTypes ==
  /\ \A st \in {"OK", "BUSY", "DUPLICATE_CLIENT"} : ConnectResponse(st) \in HostMessages
  /\ \A t \in Tokens, p \in AppProps : GetRequest(t, p) \in HostMessages
  /\ \A t \in Tokens, p \in AppProps : SetRequest(t, p) \in HostMessages
  /\ \A t \in Tokens, s \in StreamIds, p \in StreamProps : StreamRequest(t, s, p) \in HostMessages
BY DEF HostMessages, ConnectResponse, GetRequest, SetRequest, StreamRequest

LEMMA ClientMessageTypes ==
  /\ \A n \in Nat : ConnectRequest(n) \in ClientMessages
  /\ \A n \in Nat : PropListResponse(n) \in ClientMessages
  /\ \A p \in Props, n \in Nat : PropDef(p, n) \in ClientMessages
  /\ \A t \in Tokens, p \in Props : GetResponse(t, p) \in ClientMessages
  /\ \A t \in Tokens : SetResponse(t) \in ClientMessages
  /\ \A s \in StreamIds, p \in Props : StreamData(s, p) \in ClientMessages
BY DEF ClientMessages, ConnectRequest, PropListResponse, PropDef, GetResponse, SetResponse,
       StreamData

LEMMA ClientMessageFields ==
  ASSUME NEW m \in ClientMessages
  PROVE  /\ m.type \in {"GET_RESPONSE", "SET_RESPONSE", "STREAM_RESPONSE"} => m.token \in Tokens
         /\ m.type = "CONNECT_REQUEST_BC" => m.list_id \in Nat
         /\ m.type = "PROP_DEF" => m.prop \in Props
BY DEF ClientMessages

LEMMA HostMessageFields ==
  ASSUME NEW m \in HostMessages
  PROVE  /\ m.type \in {"GET_REQUEST", "SET_REQUEST", "STREAM_REQUEST"} => m.token \in Tokens
         /\ m.type = "STREAM_REQUEST" => m.stream_id \in StreamIds
BY DEF HostMessages

LEMMA HeadsTyped ==
  ASSUME LinkTypeOK, NEW c \in Clients
  PROVE  /\ toHost[c] # <<>> => Head(toHost[c]) \in ClientMessages
         /\ toClient[c] # <<>> => Head(toClient[c]) \in HostMessages
<1> DEFINE CM == ClientMessages  HM == HostMessages
<1>1. toHost[c] \in Seq(CM) /\ toClient[c] \in Seq(HM)
  BY DEF LinkTypeOK
<1> HIDE DEF CM, HM
<1>2. /\ toHost[c] # <<>> => Head(toHost[c]) \in CM
      /\ toClient[c] # <<>> => Head(toClient[c]) \in HM
  BY <1>1
<1>3. QED
  BY <1>2 DEF CM, HM

LEMMA LinkSteps ==
  ASSUME LinkTypeOK, NEW c \in Clients, NEW ms, UNCHANGED fault,
         \/ ms \in Seq(ClientMessages) /\ SendToHost(c, ms) /\ UNCHANGED toClient
         \/ ms \in Seq(ClientMessages) /\ toClient[c] # <<>> /\ ReplyToHost(c, ms)
         \/ ms \in Seq(HostMessages) /\ toHost[c] # <<>> /\ ReplyToClient(c, ms)
         \/ ms \in HostMessages /\ toClient' = [toClient EXCEPT ![c] = Append(@, ms)]
                                /\ UNCHANGED toHost
         \/ LoseToHost(c)
         \/ LoseToClient(c)
  PROVE  LinkTypeOK'
<1> DEFINE CM == ClientMessages  HM == HostMessages
<1>1. toHost \in [Clients -> Seq(CM)] /\ toClient \in [Clients -> Seq(HM)]
  BY DEF LinkTypeOK
<1>2. fault' \in Faults
  BY DEF LinkTypeOK
<1> HIDE DEF CM, HM
<1>3. toHost' \in [Clients -> Seq(CM)] /\ toClient' \in [Clients -> Seq(HM)]
  <2>1. CASE ms \in Seq(CM) /\ SendToHost(c, ms) /\ UNCHANGED toClient
    BY <1>1, <2>1 DEF SendToHost
  <2>2. CASE ms \in Seq(CM) /\ toClient[c] # <<>> /\ ReplyToHost(c, ms)
    BY <1>1, <2>2, SMTT(30) DEF ReplyToHost
  <2>3. CASE ms \in Seq(HM) /\ toHost[c] # <<>> /\ ReplyToClient(c, ms)
    BY <1>1, <2>3, SMTT(30) DEF ReplyToClient
  <2>4. CASE ms \in HM /\ toClient' = [toClient EXCEPT ![c] = Append(@, ms)] /\ UNCHANGED toHost
    BY <1>1, <2>4
  <2>5. CASE LoseToHost(c)
    BY <1>1, <2>5 DEF LoseToHost
  <2>6. CASE LoseToClient(c)
    BY <1>1, <2>6 DEF LoseToClient
  <2>7. QED
    BY <2>1, <2>2, <2>3, <2>4, <2>5, <2>6 DEF CM, HM
<1>4. QED
  BY <1>2, <1>3 DEF LinkTypeOK, CM, HM

-----------------------------------------------------------------------------
\* The connection table.

LEMMA EntriesAreConnections ==
  ASSUME TableTypeOK
  PROVE  DOMAIN clients \subseteq Connections
<1>1. DOMAIN clients = 1 .. Len(clients) /\ Len(clients) \in Nat /\ Len(clients) <= SPP_CONNECTIONS_MAX
  BY DEF TableTypeOK
<1>2. QED
  BY <1>1, ConnectionsAssumption DEF Connections

LEMMA IndexOfRegistered ==
  ASSUME TableTypeOK, NEW c \in Clients, Registered(c)
  PROVE  /\ SppGetClientIdx(c) \in DOMAIN clients
         /\ SppGetClientIdx(c) \in Connections
<1>1. SppGetClientIdx(c) \in DOMAIN clients
  BY DEF Registered, SppGetClientIdx
<1>2. QED
  BY <1>1, EntriesAreConnections

\* SppAddClient: a client is in the table at most once.
LEMMA AddedClient ==
  ASSUME TableTypeOK, RegisteredOnce, NEW c \in Clients, NEW id \in Nat, RoomForClient(c)
  PROVE  LET known == SppAddClient(c, id)
         IN  /\ known \in Seq([client : Clients, list_id : Nat])
             /\ Len(known) \in 1 .. SPP_CONNECTIONS_MAX
             /\ \A i, j \in DOMAIN known : known[i].client = known[j].client => i = j
<1> DEFINE known == SppAddClient(c, id)
<1>0. clients \in Seq([client : Clients, list_id : Nat]) /\ Len(clients) <= SPP_CONNECTIONS_MAX
  BY DEF TableTypeOK
<1>1. CASE Registered(c)
  <2>1. known = clients
    BY <1>1 DEF SppAddClient
  <2>2. PICK i \in DOMAIN clients : clients[i].client = c
    BY <1>1 DEF Registered
  <2>3. Len(clients) \in 1 .. SPP_CONNECTIONS_MAX
    BY <1>0, <2>2, ConnectionsAssumption
  <2>4. QED
    BY <1>0, <2>1, <2>3 DEF RegisteredOnce
<1>2. CASE ~ Registered(c)
  <2>1. known = Append(clients, [client |-> c, list_id |-> id])
    BY <1>2 DEF SppAddClient
  <2>2. Len(clients) < SPP_CONNECTIONS_MAX
    BY <1>2 DEF RoomForClient
  <2>3. \A i \in DOMAIN clients : clients[i].client # c
    BY <1>2 DEF Registered
  <2>4. known \in Seq([client : Clients, list_id : Nat])
    BY <1>0, <2>1
  <2>5. Len(known) = Len(clients) + 1
    BY <1>0, <2>1
  <2>6. \A i \in DOMAIN known :
          known[i] = IF i \in DOMAIN clients THEN clients[i] ELSE [client |-> c, list_id |-> id]
    BY <1>0, <2>1
  <2>7. \A i \in DOMAIN known : i \in DOMAIN clients \/ i = Len(clients) + 1
    BY <1>0, <2>4, <2>5
  <2>8. \A i, j \in DOMAIN known : known[i].client = known[j].client => i = j
    BY <2>3, <2>6, <2>7 DEF RegisteredOnce
  <2>9. QED
    BY <1>0, <2>2, <2>4, <2>5, <2>8, ConnectionsAssumption
<1>3. QED
  BY <1>1, <1>2

\* SppConnectToClient copies a range that lies in the written part.
LEMMA ConnectKeepsTable ==
  ASSUME Table, NEW c \in Clients, NEW id \in Nat, RoomForClient(c),
         SppConnectToClient(c, id), UNCHANGED defs_buffer
  PROVE  Table'
<1> DEFINE known == SppAddClient(c, id)
           last == Len(known)
           same == { i \in 1 .. last : known[i].list_id = id /\ known[i].client # c }
           from == IF same \subseteq {last} THEN last ELSE Max(same \ {last})
<1>1. /\ known \in Seq([client : Clients, list_id : Nat])
      /\ last \in 1 .. SPP_CONNECTIONS_MAX
      /\ \A i, j \in DOMAIN known : known[i].client = known[j].client => i = j
  BY AddedClient DEF Table
<1>2. /\ clients' = known
      /\ property_def_start' = [property_def_start EXCEPT ![last] = property_def_start[from]]
      /\ property_count' = [property_count EXCEPT ![last] = property_count[from]]
      /\ state' \in {"READY", "CONNECTING"}
  BY DEF SppConnectToClient, CopyRange
<1>3. from \in 1 .. last
  <2>1. CASE same \subseteq {last}
    BY <1>1, <2>1
  <2>2. CASE ~ (same \subseteq {last})
    <3> DEFINE others == same \ {last}
    <3>1. last \in Nat /\ others \in SUBSET (1 .. last) /\ others # {}
      BY <1>1, <2>2
    <3>2. Max(others) \in others
      <4> HIDE DEF others, last
      <4>1. QED
        BY <3>1, MaxOfBounded
    <3>3. QED
      BY <2>2, <3>1, <3>2
  <2>3. QED
    BY <2>1, <2>2
<1> HIDE DEF known, last, same, from
<1>4. from \in Connections /\ last \in Connections
  BY <1>1, <1>3, ConnectionsAssumption DEF Connections
<1>5. TableTypeOK'
  BY <1>1, <1>2, <1>4 DEF Table, TableTypeOK, last
<1>6. RegisteredOnce'
  BY <1>1, <1>2 DEF RegisteredOnce
<1>7. RangesInside'
  BY <1>2, <1>4 DEF Table, TableTypeOK, RangesInside
<1>8. QED
  BY <1>5, <1>6, <1>7 DEF Table

\* SppUnpackPropDef extends one range and defs_buffer by one definition.
LEMMA PropDefKeepsTable ==
  ASSUME Table, LinkTypeOK, NEW c \in Clients, PropDefReceived(c)
  PROVE  Table'
<1> DEFINE i == SppGetClientIdx(c)
           d == [client |-> c, prop |-> Head(toHost[c]).prop]
<1>1. i \in Connections
  BY IndexOfRegistered DEF Table, PropDefReceived
<1>2. d \in [client : Clients, prop : Props]
  BY HeadsTyped, ClientMessageFields DEF PropDefReceived, Received
<1>3. /\ property_count' = [property_count EXCEPT ![i] = @ + 1]
      /\ defs_buffer' = Append(defs_buffer, d)
      /\ state' \in {"READY", state}
      /\ Len(defs_buffer) < DefsBufferSize
      /\ UNCHANGED <<clients, property_def_start>>
  BY DEF PropDefReceived
<1> HIDE DEF i, d
<1>4. Len(defs_buffer') = Len(defs_buffer) + 1
  BY <1>2, <1>3 DEF Table, TableTypeOK
<1>5. TableTypeOK'
  BY <1>1, <1>2, <1>3, <1>4, DefsBufferAssumption DEF Table, TableTypeOK
<1>6. RangesInside'
  BY <1>1, <1>3, <1>4 DEF Table, TableTypeOK, RangesInside
<1>7. RegisteredOnce'
  BY <1>3 DEF Table, RegisteredOnce
<1>8. QED
  BY <1>5, <1>6, <1>7 DEF Table

-----------------------------------------------------------------------------
\* Steps of the host.

LEMMA BootKeepsIInv == IInv /\ PowerOnHost => IInv'
<1> SUFFICES ASSUME IInv, PowerOnHost PROVE IInv'
  OBVIOUS
<1>1. PowerTypeOK'
  BY BootsAssumption DEF IInv, PowerTypeOK, PowerOnHost, HostBoot
<1>2. Window'
  BY BootEmptiesWindow DEF Window, PowerOnHost, HostBoot
<1>3. Table'
  <2>1. /\ state' = "READY" /\ defs_buffer' = <<>>
        /\ property_count' = NoCounts /\ property_def_start' = NoCounts
    BY DEF PowerOnHost, HostBoot, CountsAtBoot
  <2>2. /\ clients' \in Seq([client : Clients, list_id : Nat])
        /\ Len(clients') <= 1
    <3>1. CASE DefaultClient = NoClient
      <4>1. clients' = <<>>
        BY <3>1 DEF PowerOnHost, HostBoot, ClientsAtBoot
      <4>2. QED
        BY <4>1
    <3>2. CASE DefaultClient # NoClient
      <4>1. clients' = << [client |-> DefaultClient, list_id |-> 0] >>
        BY <3>2 DEF PowerOnHost, HostBoot, ClientsAtBoot
      <4>2. DefaultClient \in Clients
        BY <3>2, DefaultClientAssumption
      <4>3. QED
        BY <4>1, <4>2
    <3>3. QED
      BY <3>1, <3>2
  <2>3. QED
    BY <2>1, <2>2, ConnectionsAssumption, DefsBufferAssumption
       DEF Table, TableTypeOK, RegisteredOnce, RangesInside, NoCounts
<1>4. StreamTypeOK'
  BY StreamCountAssumption DEF PowerOnHost, HostBoot, StreamTypeOK, NoStreams
<1>5. ClientTypeOK'
  BY UnchangedGroups DEF IInv, PowerOnHost
<1>6. LinkTypeOK'
  <2>1. CASE DefaultClient = NoClient
    BY <2>1, UnchangedGroups DEF IInv, PowerOnHost, HostBoot, ClientsAtBoot, linkVars
  <2>2. CASE DefaultClient # NoClient
    <3>1. DefaultClient \in Clients
      BY <2>2, DefaultClientAssumption
    <3>2. ConnectResponse("OK") \in HostMessages
      BY HostMessageTypes
    <3>3. /\ toClient' = [toClient EXCEPT ![DefaultClient] = Append(@, ConnectResponse("OK"))]
          /\ UNCHANGED <<toHost, fault>>
      BY <2>2 DEF PowerOnHost, HostBoot, ClientsAtBoot
    <3>4. QED
      BY <3>1, <3>2, <3>3, LinkSteps DEF IInv
  <2>3. QED
    BY <2>1, <2>2
<1>7. QED
  BY <1>1, <1>2, <1>3, <1>4, <1>5, <1>6 DEF IInv

\* A handler of SppHostProcessMessage that sends ms in reply.
LEMMA HostReplies ==
  ASSUME IInv, NEW c \in Clients, NEW ms \in Seq(HostMessages), toHost[c] # <<>>,
         ReplyToClient(c, ms), UNCHANGED <<host_up, bootVars, fault, clientVars, streamVars>>
  PROVE  PowerTypeOK' /\ LinkTypeOK' /\ ClientTypeOK' /\ StreamTypeOK'
BY UnchangedGroups, LinkSteps DEF IInv

LEMMA HostHandlesKeepsIInv == \A c \in Clients : IInv /\ HostHandles(c) => IInv'
<1> SUFFICES ASSUME IInv, NEW c \in Clients, HostHandles(c) PROVE IInv'
  OBVIOUS
<1>0. UNCHANGED <<clientVars, bootVars>> /\ HostReceive(c)
  BY DEF HostHandles
<1>a. \A st \in {"OK", "BUSY", "DUPLICATE_CLIENT"} : << ConnectResponse(st) >> \in Seq(HostMessages)
  BY HostMessageTypes
<1>b. <<>> \in Seq(HostMessages)
  OBVIOUS
<1>1. CASE ConnectBusy(c)
  <2>1. PowerTypeOK' /\ LinkTypeOK' /\ ClientTypeOK' /\ StreamTypeOK'
    BY <1>0, <1>1, <1>a, HostReplies DEF ConnectBusy, Received
  <2>2. QED
    BY <1>1, <2>1, UnchangedGroups DEF ConnectBusy, IInv
<1>2. CASE ConnectAccepted(c)
  <2>1. Head(toHost[c]).list_id \in Nat
    BY <1>2, HeadsTyped, ClientMessageFields DEF IInv, ConnectAccepted, Received
  <2>2. \E ms \in Seq(HostMessages) : ReplyToClient(c, ms)
    BY <1>2, <1>a DEF ConnectAccepted, SppConnectToClient
  <2>3. PowerTypeOK' /\ LinkTypeOK' /\ ClientTypeOK' /\ StreamTypeOK'
    BY <1>0, <1>2, <2>2, HostReplies DEF ConnectAccepted, Received
  <2>4. Table'
    BY <1>2, <2>1, ConnectKeepsTable DEF IInv, ConnectAccepted
  <2>5. QED
    BY <1>2, <2>3, <2>4, UnchangedGroups DEF ConnectAccepted, IInv
<1>3. CASE PropListReceived(c)
  <2>1. PowerTypeOK' /\ LinkTypeOK' /\ ClientTypeOK' /\ StreamTypeOK'
    BY <1>0, <1>3, <1>b, HostReplies DEF PropListReceived, Received, Discard
  <2>2. QED
    BY <1>3, <2>1, UnchangedGroups DEF PropListReceived, IInv
<1>4. CASE PropDefReceived(c)
  <2>1. PowerTypeOK' /\ LinkTypeOK' /\ ClientTypeOK' /\ StreamTypeOK'
    BY <1>0, <1>4, <1>b, HostReplies DEF PropDefReceived, Received, Discard
  <2>2. Table'
    BY <1>4, PropDefKeepsTable DEF IInv
  <2>3. QED
    BY <1>4, <2>1, <2>2, UnchangedGroups DEF PropDefReceived, IInv
<1>5. CASE ResponseReceived(c)
  <2>1. Head(toHost[c]).token \in Tokens
    BY <1>5, HeadsTyped, ClientMessageFields DEF IInv, ResponseReceived, Received
  <2>2. Window'
    BY <1>5, <2>1, ClearKeepsWindow DEF IInv, Window, ResponseReceived
  <2>3. PowerTypeOK' /\ LinkTypeOK' /\ ClientTypeOK' /\ StreamTypeOK'
    BY <1>0, <1>5, <1>b, HostReplies DEF ResponseReceived, Received, Discard
  <2>4. QED
    BY <1>5, <2>2, <2>3, UnchangedGroups DEF ResponseReceived, IInv
<1>6. CASE StreamReceived(c)
  <2>1. PowerTypeOK' /\ LinkTypeOK' /\ ClientTypeOK' /\ StreamTypeOK'
    BY <1>0, <1>6, <1>b, HostReplies DEF StreamReceived, Received, Discard
  <2>2. QED
    BY <1>6, <2>1, UnchangedGroups DEF StreamReceived, IInv
<1>7. QED
  BY <1>0, <1>1, <1>2, <1>3, <1>4, <1>5, <1>6 DEF HostReceive

\* IssueRequest: the token is new, so the request is well-formed and the
\* window keeps its count.
LEMMA IssueKeepsWindow ==
  ASSUME IInv, NEW c \in Clients, NEW m \in HostMessages, IssueRequest(c, m)
  PROVE  Window' /\ Table' /\ LinkTypeOK' /\ UNCHANGED host_up
<1>1. SppGetToken \in Tokens
  BY NextTokenIsToken DEF IInv, Window, TokenTypeOK
<1>2. Window'
  BY <1>1, InsertKeepsWindow DEF IInv, Window, IssueRequest
<1>3. Table' /\ UNCHANGED host_up
  BY UnchangedGroups DEF IInv, IssueRequest
<1>4. LinkTypeOK'
  BY LinkSteps DEF IInv, IssueRequest
<1>5. QED
  BY <1>2, <1>3, <1>4

LEMMA ViewerAsksKeepsIInv == \A c \in Clients : IInv /\ ViewerAsks(c) => IInv'
<1> SUFFICES ASSUME IInv, NEW c \in Clients, ViewerAsks(c) PROVE IInv'
  OBVIOUS
<1>0. UNCHANGED <<clientVars, bootVars>>
  BY DEF ViewerAsks
<1>1. SppGetToken \in Tokens
  BY NextTokenIsToken DEF IInv, Window, TokenTypeOK
<1>2. ASSUME NEW p \in AppProps, SppHostGetValue(c, p) PROVE IInv'
  BY <1>0, <1>1, <1>2, HostMessageTypes, IssueKeepsWindow, UnchangedGroups
     DEF SppHostGetValue, IInv
<1>3. ASSUME NEW p \in AppProps, SppHostSetValue(c, p) PROVE IInv'
  BY <1>0, <1>1, <1>3, HostMessageTypes, IssueKeepsWindow, UnchangedGroups
     DEF SppHostSetValue, IInv
<1>4. ASSUME NEW p \in StreamProps, SppHostStartStream(c, p) PROVE IInv'
  <2>1. stream_count \in StreamIds
    BY DEF IInv, StreamTypeOK
  <2>2. StreamRequest(SppGetToken, StreamIdSent, p) \in HostMessages
    BY <1>1, <2>1, HostMessageTypes DEF StreamIdSent
  <2>3. Window' /\ Table' /\ LinkTypeOK' /\ UNCHANGED host_up
    BY <1>4, <2>2, IssueKeepsWindow DEF SppHostStartStream
  <2>4. StreamTypeOK'
    BY <1>4, <2>1 DEF SppHostStartStream, IInv, StreamTypeOK, NextStream, StreamIds
  <2>5. QED
    BY <1>0, <2>3, <2>4, UnchangedGroups DEF IInv
<1>5. QED
  BY <1>2, <1>3, <1>4 DEF ViewerAsks

LEMMA PowerOffHostKeepsIInv == IInv /\ PowerOffHost => IInv'
BY UnchangedGroups DEF IInv, PowerOffHost, HostCrash, PowerTypeOK, bootVars, linkVars

-----------------------------------------------------------------------------
\* Steps of the clients.

\* What a step of a client leaves alone.
LEMMA ClientSteps ==
  ASSUME IInv, UNCHANGED <<hostVars, bootVars>>
  PROVE  PowerTypeOK' /\ Window' /\ Table' /\ StreamTypeOK'
BY UnchangedGroups DEF IInv, hostVars

LEMMA PowerOnClientKeepsIInv == \A c \in Clients : IInv /\ PowerOnClient(c) => IInv'
<1> SUFFICES ASSUME IInv, NEW c \in Clients, PowerOnClient(c) PROVE IInv'
  OBVIOUS
<1>1. PowerTypeOK'
  BY BootsAssumption DEF IInv, PowerTypeOK, PowerOnClient, hostVars
<1>2. Window' /\ Table' /\ StreamTypeOK' /\ LinkTypeOK'
  BY UnchangedGroups DEF IInv, PowerOnClient, ClientBoot, hostVars
<1>3. ClientTypeOK'
  <2>1. \A b \in Clients : Len(PropertyList[b]) \in Nat
    BY PropertyListAssumption
  <2> DEFINE E == [stream_id : StreamIds, def : Props \cup {NoDef}]
  <2>2. client_streams \in [Clients -> Seq(E)]
    BY DEF IInv, ClientTypeOK
  <2>3. client_streams' = [client_streams EXCEPT ![c] = <<>>]
    BY DEF PowerOnClient, ClientBoot
  <2> HIDE DEF E
  <2>4. client_streams' \in [Clients -> Seq(E)]
    BY <2>2, <2>3
  <2>5. sending' \in [Clients -> Nat] /\ \A b \in Clients : sending'[b] <= Len(PropertyList[b])
    BY <2>1 DEF IInv, ClientTypeOK, PowerOnClient, ClientBoot
  <2>6. /\ client_up' \in [Clients -> BOOLEAN]
        /\ started' \in [Clients -> BOOLEAN]
        /\ is_duplicate' \in [Clients -> BOOLEAN]
    BY DEF IInv, ClientTypeOK, PowerOnClient, ClientBoot
  <2>7. QED
    BY <2>4, <2>5, <2>6 DEF ClientTypeOK, E
<1>4. QED
  BY <1>1, <1>2, <1>3 DEF IInv

LEMMA PowerOffClientKeepsIInv == \A c \in Clients : IInv /\ PowerOffClient(c) => IInv'
<1> SUFFICES ASSUME IInv, NEW c \in Clients, PowerOffClient(c) PROVE IInv'
  OBVIOUS
<1>1. PowerTypeOK' /\ Window' /\ Table' /\ StreamTypeOK'
  BY ClientSteps DEF PowerOffClient
<1>2. LinkTypeOK'
  BY UnchangedGroups DEF IInv, PowerOffClient, ClientCrash
<1>3. ClientTypeOK'
  BY DEF IInv, ClientTypeOK, PowerOffClient, ClientCrash
<1>4. QED
  BY <1>1, <1>2, <1>3 DEF IInv

LEMMA ClientBroadcastsKeepsIInv == \A c \in Clients : IInv /\ ClientBroadcasts(c) => IInv'
<1> SUFFICES ASSUME IInv, NEW c \in Clients, ClientBroadcasts(c) PROVE IInv'
  OBVIOUS
<1>1. PowerTypeOK' /\ Window' /\ Table' /\ StreamTypeOK'
  BY ClientSteps DEF ClientBroadcasts
<1>2. << ConnectRequest(ListId[c]) >> \in Seq(ClientMessages)
  BY ClientMessageTypes, ListIdAssumption
<1>3. LinkTypeOK'
  BY <1>2, LinkSteps DEF IInv, ClientBroadcasts, SppClientStart
<1>4. ClientTypeOK'
  BY DEF IInv, ClientTypeOK, ClientBroadcasts, SppClientStart
<1>5. QED
  BY <1>1, <1>3, <1>4 DEF IInv

\* A property some client has is one of the properties of its list.
LEMMA ListedProps ==
  ASSUME NEW c \in Clients
  PROVE  /\ Len(PropertyList[c]) \in Nat /\ Len(PropertyList[c]) > 0
         /\ \A i \in 1 .. Len(PropertyList[c]) : PropertyList[c][i] \in Props
         /\ \A p : SppGetDefinition(c, p) => p \in Props
<1>1. PropertyList[c] \in Seq(Props) /\ PropertyList[c] # <<>>
  BY PropertyListAssumption
<1> HIDE DEF Props
<1>2. QED
  BY <1>1 DEF SppGetDefinition

LEMMA ClientStreamsKeepsIInv == \A c \in Clients : IInv /\ ClientStreams(c) => IInv'
<1> SUFFICES ASSUME IInv, NEW c \in Clients, ClientStreams(c) PROVE IInv'
  OBVIOUS
<1>1. PowerTypeOK' /\ Window' /\ Table' /\ StreamTypeOK' /\ ClientTypeOK'
  BY ClientSteps, UnchangedGroups DEF IInv, ClientStreams, SppProcessStreams
<1>2. PICK i \in DOMAIN client_streams[c] :
        /\ client_streams[c][i].def # NoDef
        /\ SendToHost(c, << StreamData(client_streams[c][i].stream_id, client_streams[c][i].def) >>)
  BY DEF ClientStreams, SppProcessStreams
<1>3. client_streams[c][i] \in [stream_id : StreamIds, def : Props \cup {NoDef}]
  <2> DEFINE E == [stream_id : StreamIds, def : Props \cup {NoDef}]
  <2>1. client_streams[c] \in Seq(E)
    BY DEF IInv, ClientTypeOK
  <2> HIDE DEF E
  <2>2. client_streams[c][i] \in E
    BY <2>1
  <2>3. QED
    BY <2>2 DEF E
<1>4. << StreamData(client_streams[c][i].stream_id, client_streams[c][i].def) >>
        \in Seq(ClientMessages)
  BY <1>2, <1>3, ClientMessageTypes
<1>5. LinkTypeOK'
  BY <1>2, <1>4, LinkSteps DEF IInv, ClientStreams, SppProcessStreams
<1>6. QED
  BY <1>1, <1>5 DEF IInv

LEMMA PropDefSentKeeps ==
  ASSUME IInv, NEW c \in Clients, SendPropDef(c)
  PROVE  ClientTypeOK' /\ LinkTypeOK'
<1> DEFINE i == sending[c]
           n == Len(PropertyList[c])
<1>1. i \in 1 .. n /\ n \in Nat
  BY ListedProps DEF IInv, ClientTypeOK, SendPropDef
<1>2. RemainingAfter(i, n) \in Nat
  BY <1>1 DEF RemainingAfter
<1>3. << PropDef(PropertyList[c][i], RemainingAfter(i, n)) >> \in Seq(ClientMessages)
  BY <1>1, <1>2, ListedProps, ClientMessageTypes
<1>4. LinkTypeOK'
  BY <1>3, LinkSteps DEF IInv, SendPropDef
<1>5. ClientTypeOK'
  <2>1. sending' = [sending EXCEPT ![c] = IF i = n THEN 0 ELSE i + 1]
    BY DEF SendPropDef
  <2> HIDE DEF i, n
  <2>2. (IF i = n THEN 0 ELSE i + 1) \in 0 .. n
    BY <1>1
  <2>3. sending' \in [Clients -> Nat] /\ \A b \in Clients : sending'[b] <= Len(PropertyList[b])
    BY <1>1, <2>1, <2>2 DEF IInv, ClientTypeOK, n
  <2>4. QED
    BY <2>3 DEF IInv, ClientTypeOK, SendPropDef
<1>6. QED
  BY <1>4, <1>5

LEMMA ReceivedKeeps ==
  ASSUME IInv, NEW c \in Clients, ClientReceive(c)
  PROVE  ClientTypeOK' /\ LinkTypeOK'
<1> DEFINE m == Head(toClient[c])
<1>1. ASSUME NEW ms \in Seq(ClientMessages), toClient[c] # <<>>, ReplyToHost(c, ms),
             UNCHANGED fault
      PROVE  LinkTypeOK'
  BY <1>1, LinkSteps DEF IInv
<1>2. toClient[c] # <<>> => m \in HostMessages
  BY HeadsTyped DEF IInv
<1>3. <<>> \in Seq(ClientMessages)
  OBVIOUS
<1> HIDE DEF m
<1>4. CASE ConnectRefused(c)
  BY <1>1, <1>3, <1>4 DEF ConnectRefused, Addressed, IInv, ClientTypeOK
<1>5. CASE SendPropertyList(c)
  <2>1. << PropListResponse(Len(PropertyList[c])) >> \in Seq(ClientMessages)
    BY ListedProps, ClientMessageTypes
  <2>2. LinkTypeOK'
    BY <1>1, <1>5, <2>1 DEF SendPropertyList, Addressed
  <2>3. sending' \in [Clients -> Nat] /\ \A b \in Clients : sending'[b] <= Len(PropertyList[b])
    <3>1. sending' = [sending EXCEPT ![c] = 1]
      BY <1>5 DEF SendPropertyList
    <3>2. 1 <= Len(PropertyList[c])
      BY ListedProps
    <3>3. QED
      BY <3>1, <3>2 DEF IInv, ClientTypeOK
  <2>4. ClientTypeOK'
    BY <1>5, <2>3 DEF SendPropertyList, IInv, ClientTypeOK
  <2>5. QED
    BY <2>2, <2>4
<1>6. CASE GetReceived(c)
  <2>1. m.token \in Tokens /\ m.prop \in Props
    BY <1>2, <1>6, HostMessageFields, ListedProps DEF GetReceived, Addressed, m
  <2>2. << GetResponse(m.token, m.prop) >> \in Seq(ClientMessages)
    BY <2>1, ClientMessageTypes
  <2>3. LinkTypeOK'
    BY <1>1, <1>6, <2>2 DEF GetReceived, Addressed, m
  <2>4. QED
    BY <1>6, <2>3, UnchangedGroups DEF GetReceived, IInv
<1>7. CASE SetReceived(c)
  <2>1. m.token \in Tokens
    BY <1>2, <1>7, HostMessageFields DEF SetReceived, Addressed, m
  <2>2. SetAnswer(m) \in Seq(ClientMessages)
    BY <2>1, ClientMessageTypes DEF SetAnswer
  <2>3. LinkTypeOK'
    BY <1>1, <1>7, <2>2 DEF SetReceived, Addressed, m
  <2>4. QED
    BY <1>7, <2>3, UnchangedGroups DEF SetReceived, IInv
<1>8. CASE StreamRequested(c)
  <2> DEFINE e == [stream_id |-> m.stream_id,
                   def |-> IF SppGetDefinition(c, m.prop) THEN m.prop ELSE NoDef]
             E == [stream_id : StreamIds, def : Props \cup {NoDef}]
  <2>1. m.stream_id \in StreamIds
    BY <1>2, <1>8, HostMessageFields DEF StreamRequested, Addressed, m
  <2>2. e \in E
    BY <2>1, ListedProps
  <2>3. client_streams' = [client_streams EXCEPT ![c] = Append(@, e)]
    BY <1>8 DEF StreamRequested, m
  <2>4. client_streams \in [Clients -> Seq(E)]
    BY DEF IInv, ClientTypeOK
  <2> HIDE DEF e, E
  <2>5. client_streams' \in [Clients -> Seq(E)]
    BY <2>2, <2>3, <2>4
  <2>6. ClientTypeOK'
    BY <1>8, <2>5 DEF StreamRequested, IInv, ClientTypeOK, E
  <2>7. LinkTypeOK'
    BY <1>1, <1>3, <1>8 DEF StreamRequested, Addressed
  <2>8. QED
    BY <2>6, <2>7
<1>9. QED
  BY <1>4, <1>5, <1>6, <1>7, <1>8 DEF ClientReceive

LEMMA ClientHandlesKeepsIInv == \A c \in Clients : IInv /\ ClientHandles(c) => IInv'
BY ClientSteps, PropDefSentKeeps, ReceivedKeeps DEF IInv, ClientHandles

-----------------------------------------------------------------------------
\* The line and the ends of a defined behaviour.

LEMMA OverrunKeepsIInv == \A c \in Clients : IInv /\ Overrun(c) => IInv'
<1> SUFFICES ASSUME IInv, NEW c \in Clients, Overrun(c) PROVE IInv'
  OBVIOUS
<1>1. UNCHANGED <<hostVars, clientVars, linkVars, bootVars>>
  BY DEF Overrun, HostOverrun, ClientOverrun
<1>2. fault' \in Faults
  BY DEF Overrun, HostOverrun, ClientOverrun, Faults
<1>3. LinkTypeOK'
  BY <1>1, <1>2 DEF IInv, LinkTypeOK, linkVars
<1>4. QED
  BY <1>1, <1>3, ClientSteps, UnchangedGroups DEF IInv

LEMMA LoseKeepsIInv == \A c \in Clients : IInv /\ Lose(c) => IInv'
<1> SUFFICES ASSUME IInv, NEW c \in Clients, Lose(c) PROVE IInv'
  OBVIOUS
<1>1. LinkTypeOK'
  BY LinkSteps DEF IInv, Lose
<1>2. QED
  BY <1>1, ClientSteps, UnchangedGroups DEF IInv, Lose

-----------------------------------------------------------------------------
\* The invariant and what it says.

LEMMA InitIInv == Init => IInv
<1> SUFFICES ASSUME Init PROVE IInv
  OBVIOUS
<1>1. PowerTypeOK
  <2>1. host_up = FALSE /\ host_boots = 0 /\ client_boots = [c \in Clients |-> 0]
    BY DEF Init
  <2>2. 0 \in 0 .. MaxHostBoots /\ 0 \in 0 .. MaxClientBoots
    BY BootsAssumption
  <2>3. QED
    BY <2>1, <2>2 DEF PowerTypeOK
<1>2. Window
  <2>1. /\ token_count = 0 /\ pending_request_count = 0
        /\ pending_request_tokens = [i \in Slots |-> SPP_TOKEN_MAX_RESERVED]
    BY DEF Init, NoTokens
  <2>2. Slots \ FreeSlots = {}
    BY <2>1 DEF FreeSlots
  <2>3. PendingCountExact
    BY <2>1, <2>2, FS_EmptySet DEF PendingCountExact
  <2>4. TokenTypeOK
    BY <2>1, TokenAssumption, SlotsAssumption DEF TokenTypeOK, Tokens
  <2>5. QED
    BY <2>3, <2>4 DEF Window
<1>3. Table
  BY ConnectionsAssumption, DefsBufferAssumption
     DEF Init, Table, TableTypeOK, RegisteredOnce, RangesInside, NoCounts
<1>4. StreamTypeOK
  BY DEF Init, StreamTypeOK, NoStreams, StreamIds
<1>5. ClientTypeOK
  BY ListedProps DEF Init, ClientTypeOK
<1>6. LinkTypeOK
  BY DEF Init, LinkTypeOK, Faults
<1>7. QED
  BY <1>1, <1>2, <1>3, <1>4, <1>5, <1>6 DEF IInv

LEMMA NextKeepsIInv == IInv /\ [Next]_vars => IInv'
<1> SUFFICES ASSUME IInv, [Next]_vars PROVE IInv'
  OBVIOUS
<1>1. CASE UNCHANGED vars
  BY <1>1, ClientSteps, UnchangedGroups DEF vars, IInv
<1>2. CASE PowerOnHost
  BY <1>2, BootKeepsIInv
<1>3. CASE PowerOffHost
  BY <1>3, PowerOffHostKeepsIInv
<1>4. ASSUME NEW c \in Clients,
             \/ PowerOnClient(c) \/ PowerOffClient(c) \/ HostHandles(c)
             \/ ViewerAsks(c) \/ ClientHandles(c) \/ ClientBroadcasts(c)
             \/ ClientStreams(c) \/ Overrun(c) \/ Lose(c)
      PROVE  IInv'
  BY <1>4, PowerOnClientKeepsIInv, PowerOffClientKeepsIInv, HostHandlesKeepsIInv,
     ViewerAsksKeepsIInv, ClientHandlesKeepsIInv, ClientBroadcastsKeepsIInv,
     ClientStreamsKeepsIInv, OverrunKeepsIInv, LoseKeepsIInv
<1>5. QED
  BY <1>1, <1>2, <1>3, <1>4 DEF Next

LEMMA AlwaysIInv == Spec => []IInv
<1>1. QED
  BY InitIInv, NextKeepsIInv, PTL DEF Spec

\* Type correctness of both engines and of the link: in particular no counter
\* or table of the engines outgrows its array, whatever the two programs do and
\* whatever is lost.
THEOREM TypeCorrect == Spec => []TypeOK
<1>1. IInv => TypeOK
  BY DEF IInv, Window, Table, TypeOK
<1>2. QED
  BY <1>1, AlwaysIInv, PTL

\* pending_request_count counts the occupied slots of the request window, for
\* every size of the window, any token width and any loss of requests and
\* answers.
THEOREM WindowExact == Spec => []PendingCountExact
<1>1. IInv => PendingCountExact
  BY DEF IInv, Window
<1>2. QED
  BY <1>1, AlwaysIInv, PTL

\* SppAddClient never enters a client twice, however often it reconnects.
THEOREM NoDoubleEntry == Spec => []RegisteredOnce
<1>1. IInv => RegisteredOnce
  BY DEF IInv, Table
<1>2. QED
  BY <1>1, AlwaysIInv, PTL

LEMMA RangesInWritten == IInv => RangesAreWritten
<1> SUFFICES ASSUME IInv, NEW c \in Clients, Registered(c)
             PROVE  ClientRange(c) \subseteq 1 .. Len(defs_buffer)
  BY DEF IInv, Table, TableTypeOK, RangesAreWritten
<1> DEFINE i == SppGetClientIdx(c)
<1>1. i \in Connections
  BY IndexOfRegistered DEF IInv, Table
<1>2. ClientRange(c) = { property_def_start[i] + k : k \in 1 .. property_count[i] }
  BY DEF ClientRange
<1> HIDE DEF i
<1>3. /\ property_def_start[i] \in Nat /\ property_count[i] \in Nat
      /\ property_def_start[i] + property_count[i] <= Len(defs_buffer)
      /\ Len(defs_buffer) \in Nat
  BY <1>1 DEF IInv, Table, TableTypeOK, RangesInside
<1>4. QED
  BY <1>2, <1>3

\* SppHostGetDefinition reads written definitions only, for every number of
\* clients that connect, reconnect and are refused or found to be duplicates.
THEOREM LookupsInWritten == Spec => []RangesAreWritten
<1>1. QED
  BY RangesInWritten, AlwaysIInv, PTL

-----------------------------------------------------------------------------
\* Whose range a step may change.

\* SppConnectToClient writes the range of the last client only.
LEMMA ConnectTouchesLast ==
  ASSUME IInv, NEW c \in Clients, ConnectAccepted(c), NEW i \in DOMAIN clients, RangeChanges(i)
  PROVE  i = Len(clients')
<1> DEFINE id == Head(toHost[c]).list_id
           known == SppAddClient(c, id)
           last == Len(known)
<1>1. \E from :
        /\ clients' = known
        /\ property_def_start' = [property_def_start EXCEPT ![last] = property_def_start[from]]
        /\ property_count' = [property_count EXCEPT ![last] = property_count[from]]
  BY DEF ConnectAccepted, SppConnectToClient, CopyRange
<1>2. i \in Connections
  BY EntriesAreConnections DEF IInv, Table
<1> HIDE DEF known
<1>3. i # last => property_def_start'[i] = property_def_start[i]
                  /\ property_count'[i] = property_count[i]
  BY <1>1, <1>2 DEF IInv, Table, TableTypeOK
<1>4. QED
  BY <1>1, <1>3 DEF RangeChanges

\* A definition extends the range of the client it came from.
LEMMA DefinitionTouchesOwn ==
  ASSUME IInv, NEW c \in Clients, PropDefReceived(c), NEW i \in DOMAIN clients, RangeChanges(i)
  PROVE  HandlesMessageOf(i)
<1> DEFINE h == SppGetClientIdx(c)
<1>1. /\ property_count' = [property_count EXCEPT ![h] = @ + 1]
      /\ UNCHANGED <<clients, property_def_start>>
      /\ toHost[c] # <<>> /\ toHost' = [toHost EXCEPT ![c] = Tail(@)]
  BY DEF PropDefReceived, Received, Discard, ReplyToClient
<1>2. h \in DOMAIN clients /\ clients[h].client = c
  BY DEF PropDefReceived, Registered, SppGetClientIdx
<1> HIDE DEF h
<1>3. i \in Connections
  BY EntriesAreConnections DEF IInv, Table
<1>4. i = h
  BY <1>1, <1>3 DEF RangeChanges, IInv, Table, TableTypeOK
<1>5. PICK M : toHost \in [Clients -> Seq(M)]
  BY DEF IInv, LinkTypeOK
<1>6. toHost'[c] # toHost[c]
  <2>1. toHost[c] \in Seq(M) /\ toHost'[c] = Tail(toHost[c])
    BY <1>1, <1>5
  <2>2. Len(Tail(toHost[c])) # Len(toHost[c])
    BY <1>1, <2>1
  <2>3. QED
    BY <2>1, <2>2
<1>7. QED
  BY <1>1, <1>2, <1>4, <1>6 DEF HandlesMessageOf

\* No message of one client changes the range of another, except for the client
\* registered last, which SppConnectToClient takes for the one it just added
\* (spp/src-host/spp.c:86): for any clients, any lists, any losses and restarts.
THEOREM OthersKeepTheirRange == Spec => OnlyLastRangeIsExposed
<1> DEFINE Exposed ==
      host_up /\ host_up' =>
        \A i \in DOMAIN clients : RangeChanges(i) => HandlesMessageOf(i) \/ i = Len(clients')
<1>1. IInv /\ [Next]_vars => Exposed
  <2> SUFFICES ASSUME IInv, [Next]_vars, host_up, host_up', NEW i \in DOMAIN clients,
                      RangeChanges(i)
               PROVE  HandlesMessageOf(i) \/ i = Len(clients')
    OBVIOUS
  <2>1. ~UNCHANGED <<property_def_start, property_count>>
    BY DEF RangeChanges
  <2>2. PICK c \in Clients : HostHandles(c)
    BY <2>1 DEF Next, vars, hostVars, tableVars, PowerOnHost, PowerOffHost, HostBoot, HostCrash,
                PowerOnClient, PowerOffClient, ViewerAsks, SppHostGetValue, SppHostSetValue,
                SppHostStartStream, IssueRequest, ClientHandles, ClientBroadcasts, ClientStreams,
                Overrun, HostOverrun, ClientOverrun, Lose
  <2>3. ConnectAccepted(c) \/ PropDefReceived(c)
    BY <2>1, <2>2 DEF HostHandles, HostReceive, ConnectBusy, PropListReceived, ResponseReceived,
                      StreamReceived, tableVars
  <2>4. QED
    BY <2>3, ConnectTouchesLast, DefinitionTouchesOwn
<1>2. IInv /\ [Next]_vars => [Exposed]_vars
  BY <1>1
<1>3. QED
  BY <1>2, AlwaysIInv, PTL DEF Spec, OnlyLastRangeIsExposed

=============================================================================
