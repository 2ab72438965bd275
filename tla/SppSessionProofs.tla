--------------------------- MODULE SppSessionProofs ---------------------------
(***************************************************************************)
(* Proofs about SppLink: the transfer of property lists as long as no      *)
(* client restarts, and the streams as long as the server does not.        *)
(*                                                                         *)
(* IInv of SppLinkProofs is proved there for every behaviour; the          *)
(* invariants of this module build on it.                                  *)
(***************************************************************************)
EXTENDS SppLinkProofs

\* Every client is a vehicle of one kind: one list of properties, one list id.
OneKind ==
  \A c, d \in Clients : PropertyList[c] = PropertyList[d] /\ ListId[c] = ListId[d]

-----------------------------------------------------------------------------
\* The transfer of a property list.

IsRequest(m) == m.type = "CONNECT_REQUEST_BC"
IsDef(m) == m.type = "PROP_DEF"
IsOk(m) == m = ConnectResponse("OK")

\* The client has asked to be connected and the host has not seen it yet.
Requested(c) == \E k \in DOMAIN toHost[c] : IsRequest(toHost[c][k])

\* A list was asked of the client, is being sent, or is on its way.
Offered(c) == \E k \in DOMAIN toClient[c] : IsOk(toClient[c][k])
Listed(c) == \E k \in DOMAIN toHost[c] : IsDef(toHost[c][k])
InTransfer(c) == Offered(c) \/ sending[c] # 0 \/ Listed(c)

\* A client asks once, after it was started and before anything is asked of it;
\* it is asked for its list once; and nothing follows the last definition.
LineKept(c) ==
  /\ client_boots[c] = 0 => ~client_up[c] /\ ~started[c]
  /\ ~started[c] => ~Requested(c) /\ ~InTransfer(c)
  /\ Requested(c) => ~InTransfer(c)
  /\ \A k, l \in DOMAIN toHost[c] :
       IsRequest(toHost[c][k]) /\ IsRequest(toHost[c][l]) => k = l
  /\ Offered(c) => sending[c] = 0 /\ ~Listed(c)
  /\ \A k, l \in DOMAIN toClient[c] :
       IsOk(toClient[c][k]) /\ IsOk(toClient[c][l]) => k = l
  /\ \A k \in DOMAIN toHost[c] :
       IsDef(toHost[c][k]) /\ toHost[c][k].remaining = 0 =>
         sending[c] = 0 /\ \A l \in DOMAIN toHost[c] : k < l => ~IsDef(toHost[c][l])

LastClient == clients[Len(clients)]

\* A client in the table has nothing to ask any more, and only the client the
\* host is CONNECTING to, the one registered last, sends its list.
EntryKept(c) ==
  Registered(c) =>
    /\ started[c]
    /\ ~Requested(c)
    /\ InTransfer(c) => state = "CONNECTING" /\ LastClient.client = c

\* The client the host is CONNECTING to is the first of its list; all others of
\* one list have one range.
LastIsNew ==
  state = "CONNECTING" =>
    /\ clients # <<>>
    /\ \A i \in DOMAIN clients : clients[i].list_id = LastClient.list_id => i = Len(clients)

Shared ==
  \A i, j \in DOMAIN clients :
    clients[i].list_id = clients[j].list_id =>
      /\ property_count[i] = property_count[j]
      /\ property_def_start[i] = property_def_start[j]

ListFacts ==
  /\ \A c \in Clients : LineKept(c) /\ EntryKept(c)
  /\ LastIsNew
  /\ Shared

ListInv == NoClientRestarted => ListFacts

-----------------------------------------------------------------------------
\* What the host has received of the list.

IdsKept ==
  /\ \A c \in Clients : \A k \in DOMAIN toHost[c] :
       IsRequest(toHost[c][k]) => toHost[c][k].list_id = ListId[c]
  /\ \A i \in DOMAIN clients : clients[i].list_id = ListId[clients[i].client]

\* Ranges start with the first definition, and that of the first client ends
\* with the last one received.
RangesKept ==
  /\ property_def_start = NoCounts
  /\ property_count[1] = Len(defs_buffer)

\* Definition i of the list of c was received, is on the line, is still to be
\* sent, or the list was not begun yet.
Covered(c, i) ==
  \/ \E k \in DOMAIN defs_buffer : defs_buffer[k].prop = PropertyList[c][i]
  \/ \E k \in DOMAIN toHost[c] : IsDef(toHost[c][k]) /\ toHost[c][k].prop = PropertyList[c][i]
  \/ sending[c] \in 1 .. i
  \/ sending[c] = 0 /\ ~Listed(c) /\ state = "CONNECTING"

ListCovered ==
  host_up /\ clients # <<>> =>
    \A i \in DOMAIN PropertyList[clients[1].client] : Covered(clients[1].client, i)

ReceivedFacts == IdsKept /\ RangesKept /\ ListCovered
ReceivedInv == NoClientRestarted => ReceivedFacts

-----------------------------------------------------------------------------
\* The streams of the first run of the server.

\* The stream was started by this run.
Booked(s) == s \in DOMAIN streams /\ s < stream_count

\* The client's entries, the requests on their way to it and the values on
\* their way back are of booked streams, with the property the host booked;
\* a request finds room, for its id is no less than the number of entries.
EntriesBooked(c) ==
  \A i \in DOMAIN client_streams[c] :
    LET e == client_streams[c][i]
    IN  Booked(e.stream_id) /\ e.def \in {streams[e.stream_id], NoDef}

IsStreamRequest(m) == m.type = "STREAM_REQUEST"

RequestsBooked(c) ==
  \A k \in DOMAIN toClient[c] :
    IsStreamRequest(toClient[c][k]) =>
      LET s == toClient[c][k].stream_id
      IN  /\ Booked(s)
          /\ streams[s] = toClient[c][k].prop
          /\ Len(client_streams[c]) <= s
          /\ \A l \in DOMAIN toClient[c] :
               k < l /\ IsStreamRequest(toClient[c][l]) => s < toClient[c][l].stream_id

ValuesBooked(c) ==
  \A k \in DOMAIN toHost[c] :
    toHost[c][k].type = "STREAM" =>
      LET s == toHost[c][k].stream_id
      IN  Booked(s) /\ streams[s] = toHost[c][k].prop

StreamsKept(c) ==
  /\ Len(client_streams[c]) <= stream_count
  /\ EntriesBooked(c)
  /\ RequestsBooked(c)
  /\ ValuesBooked(c)

StreamFacts ==
  /\ host_boots = 0 => stream_count = 0 /\ ~host_up
  /\ \A c \in Clients : StreamsKept(c)
  /\ fault \notin {"stream_data", "client_streams"}

StreamInv == host_boots <= 1 => StreamFacts

\* With one kind of client every stream is of a property its client has.
DefsKept ==
  /\ \A c \in Clients :
       /\ \A i \in DOMAIN client_streams[c] : client_streams[c][i].def # NoDef
       /\ \A k \in DOMAIN toClient[c] :
            IsStreamRequest(toClient[c][k]) => SppGetDefinition(c, toClient[c][k].prop)
  /\ fault # "stream_definition"

-----------------------------------------------------------------------------
\* Lemmas about the lines.

LEMMA TailAt ==
  ASSUME NEW S, NEW s \in Seq(S), s # <<>>
  PROVE  /\ Tail(s) \in Seq(S)
         /\ 1 \in DOMAIN s /\ Head(s) = s[1]
         /\ \A k \in DOMAIN Tail(s) : k + 1 \in DOMAIN s /\ Tail(s)[k] = s[k + 1]
OBVIOUS

LEMMA ConcatAt ==
  ASSUME NEW S, NEW s \in Seq(S), NEW t \in Seq(S)
  PROVE  /\ s \o t \in Seq(S)
         /\ \A k \in DOMAIN (s \o t) :
              \/ k \in DOMAIN s /\ (s \o t)[k] = s[k]
              \/ k - Len(s) \in DOMAIN t /\ (s \o t)[k] = t[k - Len(s)]
         /\ \A k \in DOMAIN s : k \in DOMAIN (s \o t) /\ (s \o t)[k] = s[k]
         /\ \A k \in DOMAIN t : Len(s) + k \in DOMAIN (s \o t) /\ (s \o t)[Len(s) + k] = t[k]
OBVIOUS

LEMMA AppendAt ==
  ASSUME NEW S, NEW s \in Seq(S), NEW m \in S
  PROVE  /\ Append(s, m) \in Seq(S)
         /\ Append(s, m) = s \o << m >>
OBVIOUS

\* The lines of one client as sequences of messages whose form is left out.
LEMMA LinesAreSequences ==
  ASSUME LinkTypeOK
  PROVE  \E CM, HM :
           /\ CM = ClientMessages /\ HM = HostMessages
           /\ toHost \in [Clients -> Seq(CM)]
           /\ toClient \in [Clients -> Seq(HM)]
BY DEF LinkTypeOK

\* What a step may do to a line: drop its head, put something behind it.  A
\* line is quiet when what is put behind it plays no part in the transfer of a
\* property list.
QuietHost(c) ==
  \E d \in {0, 1} : \A k \in DOMAIN toHost'[c] :
    \/ k + d \in DOMAIN toHost[c] /\ toHost'[c][k] = toHost[c][k + d]
    \/ toHost'[c][k].type \notin {"CONNECT_REQUEST_BC", "PROP_DEF"}

QuietClient(c) ==
  \E d \in {0, 1} : \A k \in DOMAIN toClient'[c] :
    \/ k + d \in DOMAIN toClient[c] /\ toClient'[c][k] = toClient[c][k + d]
    \/ ~IsOk(toClient'[c][k])

LEMMA QuietHostMoves ==
  ASSUME LinkTypeOK, NEW c \in Clients
  PROVE  /\ toHost'[c] = toHost[c] => QuietHost(c)
         /\ toHost[c] # <<>> /\ toHost'[c] = Tail(toHost[c]) => QuietHost(c)
         /\ \A m \in ClientMessages :
              m.type \notin {"CONNECT_REQUEST_BC", "PROP_DEF"} /\ toHost'[c] = toHost[c] \o << m >>
                => QuietHost(c)
         /\ toHost'[c] = toHost[c] \o <<>> => QuietHost(c)
<1>1. PICK CM : CM = ClientMessages /\ toHost \in [Clients -> Seq(CM)]
  BY DEF LinkTypeOK
<1>2. toHost[c] \in Seq(CM)
  BY <1>1
<1>3. toHost'[c] = toHost[c] => QuietHost(c)
  <2> SUFFICES ASSUME toHost'[c] = toHost[c] PROVE QuietHost(c)
    OBVIOUS
  <2>1. \A k \in DOMAIN toHost'[c] : k + 0 \in DOMAIN toHost[c] /\ toHost'[c][k] = toHost[c][k + 0]
    BY <1>2
  <2>2. QED
    BY <2>1 DEF QuietHost
<1>4. toHost[c] # <<>> /\ toHost'[c] = Tail(toHost[c]) => QuietHost(c)
  BY <1>2, TailAt DEF QuietHost
<1>5. ASSUME NEW m \in ClientMessages, m.type \notin {"CONNECT_REQUEST_BC", "PROP_DEF"},
             toHost'[c] = toHost[c] \o << m >>
      PROVE  QuietHost(c)
  <2>1. << m >> \in Seq(CM) /\ DOMAIN << m >> = {1} /\ << m >>[1] = m
    BY <1>1
  <2>2. ASSUME NEW k \in DOMAIN toHost'[c]
        PROVE  \/ k + 0 \in DOMAIN toHost[c] /\ toHost'[c][k] = toHost[c][k + 0]
               \/ toHost'[c][k].type \notin {"CONNECT_REQUEST_BC", "PROP_DEF"}
    <3>1. CASE k \in DOMAIN toHost[c] /\ toHost'[c][k] = toHost[c][k]
      BY <1>2, <3>1
    <3>2. CASE k - Len(toHost[c]) \in DOMAIN << m >> /\ toHost'[c][k] = << m >>[k - Len(toHost[c])]
      BY <1>5, <2>1, <3>2
    <3>3. QED
      BY <1>2, <1>5, <2>1, <3>1, <3>2, ConcatAt
  <2>3. QED
    BY <2>2 DEF QuietHost
<1>6. toHost'[c] = toHost[c] \o <<>> => QuietHost(c)
  BY <1>2, <1>3
<1>7. QED
  BY <1>3, <1>4, <1>5, <1>6

LEMMA QuietClientMoves ==
  ASSUME LinkTypeOK, NEW c \in Clients
  PROVE  /\ toClient'[c] = toClient[c] => QuietClient(c)
         /\ toClient[c] # <<>> /\ toClient'[c] = Tail(toClient[c]) => QuietClient(c)
         /\ \A m \in HostMessages :
              ~IsOk(m) /\ toClient'[c] = toClient[c] \o << m >> => QuietClient(c)
         /\ toClient'[c] = toClient[c] \o <<>> => QuietClient(c)
<1>1. PICK HM : HM = HostMessages /\ toClient \in [Clients -> Seq(HM)]
  BY DEF LinkTypeOK
<1>2. toClient[c] \in Seq(HM)
  BY <1>1
<1>3. toClient'[c] = toClient[c] => QuietClient(c)
  <2> SUFFICES ASSUME toClient'[c] = toClient[c] PROVE QuietClient(c)
    OBVIOUS
  <2>1. \A k \in DOMAIN toClient'[c] :
          k + 0 \in DOMAIN toClient[c] /\ toClient'[c][k] = toClient[c][k + 0]
    BY <1>2
  <2>2. QED
    BY <2>1 DEF QuietClient
<1>4. toClient[c] # <<>> /\ toClient'[c] = Tail(toClient[c]) => QuietClient(c)
  BY <1>2, TailAt DEF QuietClient
<1>5. ASSUME NEW m \in HostMessages, ~IsOk(m), toClient'[c] = toClient[c] \o << m >>
      PROVE  QuietClient(c)
  <2>1. << m >> \in Seq(HM) /\ DOMAIN << m >> = {1} /\ << m >>[1] = m
    BY <1>1
  <2>2. ASSUME NEW k \in DOMAIN toClient'[c]
        PROVE  \/ k + 0 \in DOMAIN toClient[c] /\ toClient'[c][k] = toClient[c][k + 0]
               \/ ~IsOk(toClient'[c][k])
    <3>1. CASE k \in DOMAIN toClient[c] /\ toClient'[c][k] = toClient[c][k]
      BY <1>2, <3>1
    <3>2. CASE k - Len(toClient[c]) \in DOMAIN << m >>
               /\ toClient'[c][k] = << m >>[k - Len(toClient[c])]
      BY <1>5, <2>1, <3>2
    <3>3. QED
      BY <1>2, <1>5, <2>1, <3>1, <3>2, ConcatAt
  <2>3. QED
    BY <2>2 DEF QuietClient
<1>6. toClient'[c] = toClient[c] \o <<>> => QuietClient(c)
  BY <1>2, <1>3
<1>7. QED
  BY <1>3, <1>4, <1>5, <1>6

\* A quiet step of a client keeps what is known of its lines.
LEMMA QuietStep ==
  ASSUME LinkTypeOK, LinkTypeOK', NEW c \in Clients, LineKept(c), QuietHost(c), QuietClient(c),
         client_boots'[c] = 0 => client_boots[c] = 0 /\ (client_up'[c] => client_up[c]),
         UNCHANGED <<started[c], sending[c]>>
  PROVE  /\ LineKept(c)'
         /\ Requested(c)' => Requested(c)
         /\ InTransfer(c)' => InTransfer(c)
         /\ Listed(c)' => Listed(c)
<1>1. PICK d \in {0, 1} : \A k \in DOMAIN toHost'[c] :
        \/ k + d \in DOMAIN toHost[c] /\ toHost'[c][k] = toHost[c][k + d]
        \/ toHost'[c][k].type \notin {"CONNECT_REQUEST_BC", "PROP_DEF"}
  BY DEF QuietHost
<1>2. PICK e \in {0, 1} : \A k \in DOMAIN toClient'[c] :
        \/ k + e \in DOMAIN toClient[c] /\ toClient'[c][k] = toClient[c][k + e]
        \/ ~IsOk(toClient'[c][k])
  BY DEF QuietClient
<1>3. \A k \in DOMAIN toHost'[c] : IsRequest(toHost'[c][k]) \/ IsDef(toHost'[c][k]) =>
        k + d \in DOMAIN toHost[c] /\ toHost'[c][k] = toHost[c][k + d]
  BY <1>1 DEF IsRequest, IsDef
<1>4. DOMAIN toHost'[c] \subseteq Nat /\ DOMAIN toClient'[c] \subseteq Nat
  BY DEF LinkTypeOK
<1>5. Requested(c)' => Requested(c)
  BY <1>3 DEF Requested
<1>6. Listed(c)' => Listed(c)
  BY <1>3 DEF Listed
<1>7. Offered(c)' => Offered(c)
  BY <1>2 DEF Offered
<1>8. InTransfer(c)' => InTransfer(c)
  BY <1>6, <1>7 DEF InTransfer
<1>9. ASSUME NEW k \in DOMAIN toHost'[c], NEW l \in DOMAIN toHost'[c],
             IsRequest(toHost'[c][k]), IsRequest(toHost'[c][l])
      PROVE  k = l
  <2>1. /\ k + d \in DOMAIN toHost[c] /\ IsRequest(toHost[c][k + d])
        /\ l + d \in DOMAIN toHost[c] /\ IsRequest(toHost[c][l + d])
    BY <1>3, <1>9
  <2>2. k + d = l + d
    BY <2>1 DEF LineKept
  <2>3. QED
    BY <1>4, <2>2
<1>10. ASSUME NEW k \in DOMAIN toClient'[c], NEW l \in DOMAIN toClient'[c],
              IsOk(toClient'[c][k]), IsOk(toClient'[c][l])
       PROVE  k = l
  <2>1. /\ k + e \in DOMAIN toClient[c] /\ IsOk(toClient[c][k + e])
        /\ l + e \in DOMAIN toClient[c] /\ IsOk(toClient[c][l + e])
    BY <1>2, <1>10
  <2>2. k + e = l + e
    BY <2>1 DEF LineKept
  <2>3. QED
    BY <1>4, <2>2
<1>11. ASSUME NEW k \in DOMAIN toHost'[c], IsDef(toHost'[c][k]), toHost'[c][k].remaining = 0
       PROVE  sending'[c] = 0 /\ \A l \in DOMAIN toHost'[c] : k < l => ~IsDef(toHost'[c][l])
  <2>1. k + d \in DOMAIN toHost[c] /\ IsDef(toHost[c][k + d]) /\ toHost[c][k + d].remaining = 0
    BY <1>3, <1>11
  <2>2. sending[c] = 0 /\ \A l \in DOMAIN toHost[c] : k + d < l => ~IsDef(toHost[c][l])
    BY <2>1 DEF LineKept
  <2>3. ASSUME NEW l \in DOMAIN toHost'[c], k < l, IsDef(toHost'[c][l]) PROVE FALSE
    <3>1. l + d \in DOMAIN toHost[c] /\ IsDef(toHost[c][l + d])
      BY <1>3, <2>3
    <3>2. k + d < l + d
      BY <1>4, <2>3
    <3>3. QED
      BY <2>2, <3>1, <3>2
  <2>4. QED
    BY <2>2, <2>3
<1>12. client_boots'[c] = 0 => ~client_up'[c] /\ ~started'[c]
  BY DEF LineKept
<1>13. /\ ~started'[c] => ~Requested(c)' /\ ~InTransfer(c)'
       /\ Requested(c)' => ~InTransfer(c)'
       /\ Offered(c)' => sending'[c] = 0 /\ ~Listed(c)'
  BY <1>5, <1>6, <1>7, <1>8 DEF LineKept
<1>14. LineKept(c)'
  BY <1>9, <1>10, <1>11, <1>12, <1>13 DEF LineKept
<1>15. QED
  BY <1>5, <1>6, <1>8, <1>14

\* A step that is quiet on every line and starts nothing.
Quiet ==
  /\ \A c \in Clients : QuietHost(c) /\ QuietClient(c) /\ (client_up'[c] => client_up[c])
  /\ UNCHANGED <<client_boots, started, sending>>

\* One line changes by a move that is quiet, or none does.
LEMMA QuietMoves ==
  ASSUME LinkTypeOK, NEW c \in Clients
  PROVE  /\ UNCHANGED toHost => \A b \in Clients : QuietHost(b)
         /\ UNCHANGED toClient => \A b \in Clients : QuietClient(b)
         /\ toHost[c] # <<>> /\ toHost' = [toHost EXCEPT ![c] = Tail(@)]
              => \A b \in Clients : QuietHost(b)
         /\ toClient[c] # <<>> /\ toClient' = [toClient EXCEPT ![c] = Tail(@)]
              => \A b \in Clients : QuietClient(b)
         /\ toHost' = [toHost EXCEPT ![c] = @ \o <<>>] => \A b \in Clients : QuietHost(b)
         /\ toClient' = [toClient EXCEPT ![c] = @ \o <<>>] => \A b \in Clients : QuietClient(b)
         /\ \A m \in ClientMessages :
              /\ m.type \notin {"CONNECT_REQUEST_BC", "PROP_DEF"}
              /\ toHost' = [toHost EXCEPT ![c] = @ \o << m >>]
              => \A b \in Clients : QuietHost(b)
         /\ \A m \in HostMessages :
              ~IsOk(m) /\ toClient' = [toClient EXCEPT ![c] = @ \o << m >>]
              => \A b \in Clients : QuietClient(b)
<1>0. PICK CM, HM : /\ CM = ClientMessages /\ HM = HostMessages
                    /\ toHost \in [Clients -> Seq(CM)]
                    /\ toClient \in [Clients -> Seq(HM)]
  BY LinesAreSequences
<1>1. UNCHANGED toHost => \A b \in Clients : QuietHost(b)
  BY QuietHostMoves
<1>2. UNCHANGED toClient => \A b \in Clients : QuietClient(b)
  BY QuietClientMoves
<1>3. toHost[c] # <<>> /\ toHost' = [toHost EXCEPT ![c] = Tail(@)]
        => \A b \in Clients : QuietHost(b)
  <2> SUFFICES ASSUME toHost[c] # <<>>, toHost' = [toHost EXCEPT ![c] = Tail(@)],
                      NEW b \in Clients
               PROVE  QuietHost(b)
    OBVIOUS
  <2>1. toHost'[b] = IF b = c THEN Tail(toHost[c]) ELSE toHost[b]
    BY <1>0
  <2>2. QED
    BY <2>1, QuietHostMoves
<1>4. toClient[c] # <<>> /\ toClient' = [toClient EXCEPT ![c] = Tail(@)]
        => \A b \in Clients : QuietClient(b)
  <2> SUFFICES ASSUME toClient[c] # <<>>, toClient' = [toClient EXCEPT ![c] = Tail(@)],
                      NEW b \in Clients
               PROVE  QuietClient(b)
    OBVIOUS
  <2>1. toClient'[b] = IF b = c THEN Tail(toClient[c]) ELSE toClient[b]
    BY <1>0
  <2>2. QED
    BY <2>1, QuietClientMoves
<1>5. toHost' = [toHost EXCEPT ![c] = @ \o <<>>] => \A b \in Clients : QuietHost(b)
  <2> SUFFICES ASSUME toHost' = [toHost EXCEPT ![c] = @ \o <<>>], NEW b \in Clients
               PROVE  QuietHost(b)
    OBVIOUS
  <2>1. toHost'[b] = IF b = c THEN toHost[c] \o <<>> ELSE toHost[b]
    BY <1>0
  <2>2. QED
    BY <2>1, QuietHostMoves
<1>6. toClient' = [toClient EXCEPT ![c] = @ \o <<>>] => \A b \in Clients : QuietClient(b)
  <2> SUFFICES ASSUME toClient' = [toClient EXCEPT ![c] = @ \o <<>>], NEW b \in Clients
               PROVE  QuietClient(b)
    OBVIOUS
  <2>1. toClient'[b] = IF b = c THEN toClient[c] \o <<>> ELSE toClient[b]
    BY <1>0
  <2>2. QED
    BY <2>1, QuietClientMoves
<1>7. ASSUME NEW m \in ClientMessages, m.type \notin {"CONNECT_REQUEST_BC", "PROP_DEF"},
             toHost' = [toHost EXCEPT ![c] = @ \o << m >>], NEW b \in Clients
      PROVE  QuietHost(b)
  <2>1. toHost'[b] = IF b = c THEN toHost[c] \o << m >> ELSE toHost[b]
    BY <1>0, <1>7
  <2>2. QED
    BY <1>7, <2>1, QuietHostMoves
<1>8. ASSUME NEW m \in HostMessages, ~IsOk(m),
             toClient' = [toClient EXCEPT ![c] = @ \o << m >>], NEW b \in Clients
      PROVE  QuietClient(b)
  <2>1. toClient'[b] = IF b = c THEN toClient[c] \o << m >> ELSE toClient[b]
    BY <1>0, <1>8
  <2>2. QED
    BY <1>8, <2>1, QuietClientMoves
<1>9. QED
  BY <1>1, <1>2, <1>3, <1>4, <1>5, <1>6, <1>7, <1>8

\* The answers and values that play no part in the transfer of a list.
LEMMA QuietMessages ==
  /\ \A n \in Nat : PropListResponse(n) \in ClientMessages
       /\ PropListResponse(n).type \notin {"CONNECT_REQUEST_BC", "PROP_DEF"}
  /\ \A t \in Tokens, p \in Props : GetResponse(t, p) \in ClientMessages
       /\ GetResponse(t, p).type \notin {"CONNECT_REQUEST_BC", "PROP_DEF"}
  /\ \A t \in Tokens : SetResponse(t) \in ClientMessages
       /\ SetResponse(t).type \notin {"CONNECT_REQUEST_BC", "PROP_DEF"}
  /\ \A s \in StreamIds, p \in Props : StreamData(s, p) \in ClientMessages
       /\ StreamData(s, p).type \notin {"CONNECT_REQUEST_BC", "PROP_DEF"}
  /\ \A st \in {"BUSY", "DUPLICATE_CLIENT"} : ConnectResponse(st) \in HostMessages
       /\ ~IsOk(ConnectResponse(st))
  /\ \A t \in Tokens, p \in AppProps : GetRequest(t, p) \in HostMessages /\ ~IsOk(GetRequest(t, p))
  /\ \A t \in Tokens, p \in AppProps : SetRequest(t, p) \in HostMessages /\ ~IsOk(SetRequest(t, p))
  /\ \A t \in Tokens, s \in StreamIds, p \in StreamProps :
       StreamRequest(t, s, p) \in HostMessages /\ ~IsOk(StreamRequest(t, s, p))
<1>1. /\ \A n \in Nat : PropListResponse(n).type \notin {"CONNECT_REQUEST_BC", "PROP_DEF"}
      /\ \A t \in Tokens, p \in Props :
           GetResponse(t, p).type \notin {"CONNECT_REQUEST_BC", "PROP_DEF"}
      /\ \A t \in Tokens : SetResponse(t).type \notin {"CONNECT_REQUEST_BC", "PROP_DEF"}
      /\ \A s \in StreamIds, p \in Props :
           StreamData(s, p).type \notin {"CONNECT_REQUEST_BC", "PROP_DEF"}
  BY DEF PropListResponse, GetResponse, SetResponse, StreamData
<1>2. /\ \A st \in {"BUSY", "DUPLICATE_CLIENT"} : ~IsOk(ConnectResponse(st))
      /\ \A t \in Tokens, p \in AppProps : ~IsOk(GetRequest(t, p))
      /\ \A t \in Tokens, p \in AppProps : ~IsOk(SetRequest(t, p))
      /\ \A t \in Tokens, s \in StreamIds, p \in StreamProps : ~IsOk(StreamRequest(t, s, p))
  BY DEF IsOk, ConnectResponse, GetRequest, SetRequest, StreamRequest
<1>3. QED
  BY <1>1, <1>2, ClientMessageTypes, HostMessageTypes

\* No definition on its way to the host leaves the line.
DefsStay ==
  \A c \in Clients : \A k \in DOMAIN toHost[c] :
    IsDef(toHost[c][k]) => \E l \in DOMAIN toHost'[c] : toHost'[c][l] = toHost[c][k]

LEMMA OneMessage ==
  /\ \A m \in ClientMessages : << m >> \in Seq(ClientMessages)
  /\ \A m \in HostMessages : << m >> \in Seq(HostMessages)
<1>1. ASSUME NEW M, NEW m \in M PROVE << m >> \in Seq(M)
  OBVIOUS
<1>2. QED
  BY <1>1

LEMMA DefsStayMoves ==
  ASSUME LinkTypeOK, NEW c \in Clients
  PROVE  /\ UNCHANGED toHost => DefsStay
         /\ /\ toHost[c] # <<>> /\ ~IsDef(Head(toHost[c]))
            /\ toHost' = [toHost EXCEPT ![c] = Tail(@)]
            => DefsStay
         /\ \A ms \in Seq(ClientMessages) : toHost' = [toHost EXCEPT ![c] = @ \o ms] => DefsStay
<1>0. PICK CM : CM = ClientMessages /\ toHost \in [Clients -> Seq(CM)]
  BY DEF LinkTypeOK
<1>1. UNCHANGED toHost => DefsStay
  BY DEF DefsStay
<1>2. ASSUME toHost[c] # <<>>, ~IsDef(Head(toHost[c])), toHost' = [toHost EXCEPT ![c] = Tail(@)]
      PROVE  DefsStay
  <2> SUFFICES ASSUME NEW b \in Clients, NEW k \in DOMAIN toHost[b], IsDef(toHost[b][k])
               PROVE  \E l \in DOMAIN toHost'[b] : toHost'[b][l] = toHost[b][k]
    BY DEF DefsStay
  <2>1. toHost'[b] = IF b = c THEN Tail(toHost[c]) ELSE toHost[b]
    BY <1>0, <1>2
  <2>2. CASE b = c
    <3>1. toHost[c] \in Seq(CM) /\ k # 1
      BY <1>0, <1>2, <2>2, TailAt
    <3>2. k - 1 \in DOMAIN Tail(toHost[c]) /\ Tail(toHost[c])[k - 1] = toHost[c][k]
      BY <1>2, <2>2, <3>1
    <3>3. QED
      BY <2>1, <2>2, <3>2
  <2>3. QED
    BY <2>1, <2>2
<1>3. ASSUME NEW ms \in Seq(ClientMessages), toHost' = [toHost EXCEPT ![c] = @ \o ms]
      PROVE  DefsStay
  <2> SUFFICES ASSUME NEW b \in Clients, NEW k \in DOMAIN toHost[b]
               PROVE  \E l \in DOMAIN toHost'[b] : toHost'[b][l] = toHost[b][k]
    BY DEF DefsStay
  <2>1. toHost'[b] = IF b = c THEN toHost[c] \o ms ELSE toHost[b]
    BY <1>0, <1>3
  <2>2. toHost[b] \in Seq(CM) /\ ms \in Seq(CM)
    BY <1>0
  <2>3. QED
    BY <2>1, <2>2, ConcatAt
<1>4. QED
  BY <1>1, <1>2, <1>3

-----------------------------------------------------------------------------
\* Steps that play no part in the transfer of a list.

Still ==
  /\ Quiet
  /\ UNCHANGED tableVars
  /\ host_up' => host_up
  /\ ~Lossy /\ host_up' => DefsStay

LEMMA HostHandlesCases ==
  ASSUME IInv, NEW c \in Clients, HostHandles(c)
  PROVE  Still \/ ConnectAccepted(c) \/ PropDefReceived(c)
<1>0. LinkTypeOK /\ HostReceive(c) /\ UNCHANGED <<clientVars, bootVars>>
  BY DEF IInv, HostHandles
<1>1. CASE ConnectBusy(c)
  <2>1. /\ toHost[c] # <<>> /\ ~IsDef(Head(toHost[c]))
        /\ toHost' = [toHost EXCEPT ![c] = Tail(@)]
        /\ toClient' = [toClient EXCEPT ![c] = @ \o << ConnectResponse("BUSY") >>]
        /\ UNCHANGED <<host_up, tableVars>>
    BY <1>1 DEF ConnectBusy, Received, ReplyToClient, IsDef
  <2>2. /\ \A b \in Clients : QuietHost(b) /\ QuietClient(b)
        /\ DefsStay
    BY <1>0, <2>1, QuietMoves, QuietMessages, DefsStayMoves
  <2>3. QED
    BY <1>0, <2>1, <2>2 DEF Still, Quiet, clientVars, bootVars
<1>2. CASE PropListReceived(c) \/ ResponseReceived(c) \/ StreamReceived(c)
  <2>1. /\ toHost[c] # <<>> /\ ~IsDef(Head(toHost[c]))
        /\ toHost' = [toHost EXCEPT ![c] = Tail(@)]
        /\ toClient' = [toClient EXCEPT ![c] = @ \o <<>>]
        /\ UNCHANGED <<host_up, tableVars>>
    BY <1>2 DEF PropListReceived, ResponseReceived, StreamReceived, Discard, Received,
                ReplyToClient, IsDef
  <2>2. /\ \A b \in Clients : QuietHost(b) /\ QuietClient(b)
        /\ DefsStay
    BY <1>0, <2>1, QuietMoves, DefsStayMoves
  <2>3. QED
    BY <1>0, <2>1, <2>2 DEF Still, Quiet, clientVars, bootVars
<1>3. QED
  BY <1>0, <1>1, <1>2 DEF HostReceive

LEMMA ViewerAsksStill ==
  ASSUME IInv, NEW c \in Clients, ViewerAsks(c)
  PROVE  Still
<1>0. LinkTypeOK /\ UNCHANGED <<clientVars, bootVars>>
  BY DEF IInv, ViewerAsks
<1>1. SppGetToken \in Tokens
  BY NextTokenIsToken DEF IInv, Window, TokenTypeOK
<1>2. StreamIdSent \in StreamIds
  BY DEF StreamIdSent, IInv, StreamTypeOK
<1>3. PICK m \in HostMessages : ~IsOk(m) /\ IssueRequest(c, m)
  <2>1. \A p \in AppProps : SppHostGetValue(c, p) => IssueRequest(c, GetRequest(SppGetToken, p))
    BY DEF SppHostGetValue
  <2>2. \A p \in AppProps : SppHostSetValue(c, p) => IssueRequest(c, SetRequest(SppGetToken, p))
    BY DEF SppHostSetValue
  <2>3. \A p \in StreamProps :
          SppHostStartStream(c, p) => IssueRequest(c, StreamRequest(SppGetToken, StreamIdSent, p))
    BY DEF SppHostStartStream
  <2>4. QED
    BY <1>1, <1>2, <2>1, <2>2, <2>3, QuietMessages DEF ViewerAsks
<1>4. /\ toClient' = [toClient EXCEPT ![c] = @ \o << m >>]
      /\ UNCHANGED <<toHost, host_up, tableVars>>
  <2>1. PICK CM, HM : /\ CM = ClientMessages /\ HM = HostMessages
                      /\ toHost \in [Clients -> Seq(CM)]
                      /\ toClient \in [Clients -> Seq(HM)]
    BY <1>0, LinesAreSequences
  <2>2. Append(toClient[c], m) = toClient[c] \o << m >>
    BY <2>1, AppendAt
  <2>3. QED
    BY <1>3, <2>2 DEF IssueRequest
<1>5. (\A b \in Clients : QuietHost(b) /\ QuietClient(b)) /\ DefsStay
  BY <1>0, <1>3, <1>4, QuietMoves, DefsStayMoves
<1>6. QED
  BY <1>0, <1>4, <1>5 DEF Still, Quiet, clientVars, bootVars

LEMMA ClientHandlesCases ==
  ASSUME IInv, NEW c \in Clients, ClientHandles(c)
  PROVE  Still \/ SendPropertyList(c) \/ SendPropDef(c)
<1>0. LinkTypeOK /\ UNCHANGED <<hostVars, bootVars>>
  BY DEF IInv, ClientHandles
<1>1. /\ UNCHANGED <<host_up, tableVars, client_boots>>
  BY <1>0 DEF hostVars, bootVars
<1> DEFINE m == Head(toClient[c])
<1>2. toClient[c] # <<>> => m \in HostMessages
  BY <1>0, HeadsTyped
<1> HIDE DEF m
<1>3. <<>> \in Seq(ClientMessages)
  OBVIOUS
<1>4. ASSUME toClient[c] # <<>>, ReplyToHost(c, <<>>), UNCHANGED <<client_up, started, sending>>
      PROVE  Still
  <2>1. (\A b \in Clients : QuietHost(b) /\ QuietClient(b)) /\ DefsStay
    BY <1>0, <1>3, <1>4, QuietMoves, DefsStayMoves DEF ReplyToHost
  <2>2. QED
    BY <1>1, <1>4, <2>1 DEF Still, Quiet
<1>5. ASSUME NEW r \in ClientMessages, r.type \notin {"CONNECT_REQUEST_BC", "PROP_DEF"},
             toClient[c] # <<>>, ReplyToHost(c, << r >>), UNCHANGED <<client_up, started, sending>>
      PROVE  Still
  <2>1. (\A b \in Clients : QuietHost(b) /\ QuietClient(b)) /\ DefsStay
    BY <1>0, <1>5, OneMessage, QuietMoves, DefsStayMoves DEF ReplyToHost
  <2>2. QED
    BY <1>1, <1>5, <2>1 DEF Still, Quiet
<1>6. CASE ConnectRefused(c)
  BY <1>4, <1>6 DEF ConnectRefused, Addressed
<1>7. CASE GetReceived(c)
  <2>1. m.token \in Tokens /\ m.prop \in Props
    BY <1>2, <1>7, HostMessageFields, ListedProps DEF GetReceived, Addressed, m
  <2>2. ReplyToHost(c, << GetResponse(m.token, m.prop) >>)
    BY <1>7 DEF GetReceived, m
  <2>3. UNCHANGED <<client_up, started, sending>> /\ toClient[c] # <<>>
    BY <1>7 DEF GetReceived, clientVars, Addressed
  <2>4. QED
    BY <1>5, <2>1, <2>2, <2>3, QuietMessages
<1>8. CASE SetReceived(c)
  <2>1. m.token \in Tokens
    BY <1>2, <1>8, HostMessageFields DEF SetReceived, Addressed, m
  <2>2. ReplyToHost(c, << SetResponse(m.token) >>)
    BY <1>8 DEF SetReceived, SetAnswer, m
  <2>3. UNCHANGED <<client_up, started, sending>> /\ toClient[c] # <<>>
    BY <1>8 DEF SetReceived, clientVars, Addressed
  <2>4. QED
    BY <1>5, <2>1, <2>2, <2>3, QuietMessages
<1>9. CASE StreamRequested(c)
  BY <1>4, <1>9 DEF StreamRequested, Addressed
<1>10. QED
  BY <1>6, <1>7, <1>8, <1>9 DEF ClientHandles, ClientReceive

LEMMA ClientStreamsStill ==
  ASSUME IInv, NEW c \in Clients, ClientStreams(c)
  PROVE  Still
<1>0. LinkTypeOK /\ ClientTypeOK
  BY DEF IInv
<1>1. PICK i \in DOMAIN client_streams[c] :
        /\ client_streams[c][i].def # NoDef
        /\ SendToHost(c, << StreamData(client_streams[c][i].stream_id, client_streams[c][i].def) >>)
  BY DEF ClientStreams, SppProcessStreams
<1>2. client_streams[c][i].stream_id \in StreamIds /\ client_streams[c][i].def \in Props
  <2> DEFINE E == [stream_id : StreamIds, def : Props \cup {NoDef}]
  <2>1. client_streams[c] \in Seq(E)
    BY <1>0 DEF ClientTypeOK
  <2> HIDE DEF E
  <2>2. client_streams[c][i] \in E
    BY <1>1, <2>1
  <2>3. QED
    BY <1>1, <2>2 DEF E
<1> DEFINE m == StreamData(client_streams[c][i].stream_id, client_streams[c][i].def)
<1>3. m \in ClientMessages /\ m.type \notin {"CONNECT_REQUEST_BC", "PROP_DEF"}
  BY <1>2, QuietMessages
<1>4. toHost' = [toHost EXCEPT ![c] = @ \o << m >>] /\ UNCHANGED toClient
  BY <1>1 DEF SendToHost, ClientStreams, SppProcessStreams
<1> HIDE DEF m
<1>5. (\A b \in Clients : QuietHost(b) /\ QuietClient(b)) /\ DefsStay
  BY <1>0, <1>3, <1>4, OneMessage, QuietMoves, DefsStayMoves
<1>6. QED
  BY <1>5 DEF Still, Quiet, ClientStreams, SppProcessStreams, clientVars, hostVars, bootVars

LEMMA LoseStill ==
  ASSUME IInv, NEW c \in Clients, Lose(c)
  PROVE  Still
<1>0. LinkTypeOK
  BY DEF IInv
<1>1. \A b \in Clients : QuietHost(b) /\ QuietClient(b)
  BY <1>0, QuietMoves DEF Lose, LoseToHost, LoseToClient
<1>2. ~Lossy /\ host_up => DefsStay
  BY <1>0, DefsStayMoves DEF Lose, LoseToClient
<1>3. QED
  BY <1>1, <1>2 DEF Still, Quiet, Lose, hostVars, clientVars, bootVars

LEMMA StepCases ==
  ASSUME IInv, [Next]_vars
  PROVE  \/ Still
         \/ PowerOnHost
         \/ \E c \in Clients :
              \/ PowerOnClient(c)
              \/ HostHandles(c) /\ (ConnectAccepted(c) \/ PropDefReceived(c))
              \/ ClientHandles(c) /\ (SendPropertyList(c) \/ SendPropDef(c))
              \/ ClientBroadcasts(c)
<1>0. LinkTypeOK
  BY DEF IInv
<1>1. ASSUME UNCHANGED linkVars PROVE DefsStay /\ \A b \in Clients : QuietHost(b) /\ QuietClient(b)
  <2>1. UNCHANGED toHost /\ UNCHANGED toClient
    BY <1>1 DEF linkVars
  <2>2. \A b \in Clients : QuietHost(b) /\ QuietClient(b)
    BY <1>0, <2>1, QuietHostMoves, QuietClientMoves
  <2>3. QED
    BY <2>1, <2>2 DEF DefsStay
<1>2. CASE UNCHANGED vars
  BY <1>1, <1>2 DEF vars, Still, Quiet, hostVars, clientVars, bootVars
<1>3. CASE PowerOffHost
  BY <1>1, <1>3 DEF PowerOffHost, HostCrash, Still, Quiet, clientVars, bootVars
<1>4. ASSUME NEW c \in Clients, PowerOffClient(c) PROVE Still
  <2>1. \A b \in Clients : client_up'[b] => client_up[b]
    BY <1>4 DEF PowerOffClient, ClientCrash, IInv, ClientTypeOK
  <2>2. QED
    BY <1>1, <1>4, <2>1 DEF PowerOffClient, ClientCrash, Still, Quiet, hostVars, bootVars
<1>5. ASSUME NEW c \in Clients, Overrun(c) PROVE Still
  BY <1>1, <1>5 DEF Overrun, HostOverrun, ClientOverrun, Still, Quiet, hostVars, clientVars, bootVars
<1>6. QED
  BY <1>2, <1>3, <1>4, <1>5, HostHandlesCases, ViewerAsksStill, ClientHandlesCases,
     ClientStreamsStill, LoseStill DEF Next

-----------------------------------------------------------------------------
\* Steps that do, with the lines first: LineKept holds of every client after
\* every step as long as no client restarts.

\* What a step leaves of a line it may not make longer.
NoLonger(c) ==
  /\ LineKept(c)'
  /\ Requested(c)' => Requested(c)
  /\ InTransfer(c)' => InTransfer(c)
  /\ Listed(c)' => Listed(c)

LEMMA OtherLines ==
  ASSUME LinkTypeOK, LinkTypeOK', NEW b \in Clients, LineKept(b),
         UNCHANGED <<toHost[b], toClient[b], client_up[b], client_boots[b], started[b], sending[b]>>
  PROVE  NoLonger(b)
BY QuietStep, QuietHostMoves, QuietClientMoves DEF NoLonger

LEMMA QuietLines ==
  ASSUME LinkTypeOK, LinkTypeOK', NEW b \in Clients, LineKept(b), Quiet
  PROVE  NoLonger(b)
BY QuietStep DEF NoLonger, Quiet

LEMMA PoppedHost ==
  ASSUME LinkTypeOK, NEW c \in Clients, toHost[c] # <<>>, toHost'[c] = Tail(toHost[c])
  PROVE  /\ 1 \in DOMAIN toHost[c] /\ toHost[c][1] = Head(toHost[c])
         /\ \A k \in DOMAIN toHost'[c] :
              /\ k + 1 \in DOMAIN toHost[c] /\ toHost'[c][k] = toHost[c][k + 1]
              /\ k + 1 > 1
<1>1. PICK CM : CM = ClientMessages /\ toHost \in [Clients -> Seq(CM)]
  BY DEF LinkTypeOK
<1>2. toHost[c] \in Seq(CM)
  BY <1>1
<1>3. \A k \in DOMAIN Tail(toHost[c]) : k \in Nat /\ k >= 1
  BY <1>2
<1>4. QED
  BY <1>2, <1>3, TailAt

LEMMA PoppedClient ==
  ASSUME LinkTypeOK, NEW c \in Clients, toClient[c] # <<>>, toClient'[c] = Tail(toClient[c])
  PROVE  /\ 1 \in DOMAIN toClient[c] /\ toClient[c][1] = Head(toClient[c])
         /\ \A k \in DOMAIN toClient'[c] :
              /\ k + 1 \in DOMAIN toClient[c] /\ toClient'[c][k] = toClient[c][k + 1]
              /\ k + 1 > 1
<1>1. PICK HM : HM = HostMessages /\ toClient \in [Clients -> Seq(HM)]
  BY DEF LinkTypeOK
<1>2. toClient[c] \in Seq(HM)
  BY <1>1
<1>3. \A k \in DOMAIN Tail(toClient[c]) : k \in Nat /\ k >= 1
  BY <1>2
<1>4. QED
  BY <1>2, <1>3, TailAt

\* A message put behind a line.
LEMMA PushedHost ==
  ASSUME LinkTypeOK, NEW c \in Clients, NEW m \in ClientMessages, toHost'[c] = toHost[c] \o << m >>
  PROVE  \E n \in Nat :
           /\ n \in DOMAIN toHost'[c] /\ toHost'[c][n] = m
           /\ \A k \in DOMAIN toHost[c] : k \in Nat /\ k < n
           /\ \A k \in DOMAIN toHost'[c] :
                k = n \/ (k \in DOMAIN toHost[c] /\ toHost'[c][k] = toHost[c][k])
           /\ \A k \in DOMAIN toHost[c] : k \in DOMAIN toHost'[c]
<1>1. PICK CM : CM = ClientMessages /\ toHost \in [Clients -> Seq(CM)]
  BY DEF LinkTypeOK
<1>2. toHost[c] \in Seq(CM) /\ m \in CM
  BY <1>1
<1> DEFINE n == Len(toHost[c]) + 1
<1>3. n \in Nat /\ n \in DOMAIN toHost'[c] /\ toHost'[c][n] = m
  BY <1>2
<1>4. \A k \in DOMAIN toHost[c] : k \in Nat /\ k < n /\ k \in DOMAIN toHost'[c]
  BY <1>2
<1>5. \A k \in DOMAIN toHost'[c] : k = n \/ (k \in DOMAIN toHost[c] /\ toHost'[c][k] = toHost[c][k])
  BY <1>2
<1> HIDE DEF n
<1>6. QED
  BY <1>3, <1>4, <1>5

LEMMA PushedClient ==
  ASSUME LinkTypeOK, NEW c \in Clients, NEW m \in HostMessages, toClient'[c] = toClient[c] \o << m >>
  PROVE  \E n \in Nat :
           /\ n \in DOMAIN toClient'[c] /\ toClient'[c][n] = m
           /\ \A k \in DOMAIN toClient[c] : k \in Nat /\ k < n
           /\ \A k \in DOMAIN toClient'[c] :
                k = n \/ (k \in DOMAIN toClient[c] /\ toClient'[c][k] = toClient[c][k])
           /\ \A k \in DOMAIN toClient[c] : k \in DOMAIN toClient'[c]
<1>1. PICK HM : HM = HostMessages /\ toClient \in [Clients -> Seq(HM)]
  BY DEF LinkTypeOK
<1>2. toClient[c] \in Seq(HM) /\ m \in HM
  BY <1>1
<1> DEFINE n == Len(toClient[c]) + 1
<1>3. n \in Nat /\ n \in DOMAIN toClient'[c] /\ toClient'[c][n] = m
  BY <1>2
<1>4. \A k \in DOMAIN toClient[c] : k \in Nat /\ k < n /\ k \in DOMAIN toClient'[c]
  BY <1>2
<1>5. \A k \in DOMAIN toClient'[c] : k = n \/ (k \in DOMAIN toClient[c] /\ toClient'[c][k] = toClient[c][k])
  BY <1>2
<1> HIDE DEF n
<1>6. QED
  BY <1>3, <1>4, <1>5

LEMMA StillKeepsLists ==
  ASSUME IInv, IInv', ListFacts, Still
  PROVE  ListFacts'
<1>1. \A b \in Clients : NoLonger(b)
  BY QuietLines DEF IInv, ListFacts, Still
<1>2. UNCHANGED <<state, clients, property_count, property_def_start, started>>
  BY DEF Still, Quiet, tableVars
<1>3. \A b \in Clients : LineKept(b)' /\ EntryKept(b)'
  BY <1>1, <1>2 DEF NoLonger, ListFacts, EntryKept, Registered, LastClient
<1>4. LastIsNew' /\ Shared'
  BY <1>2 DEF ListFacts, LastIsNew, Shared, LastClient
<1>5. QED
  BY <1>3, <1>4 DEF ListFacts

LEMMA BootKeepsLists ==
  ASSUME IInv, IInv', ListFacts, PowerOnHost, DefaultClient = NoClient
  PROVE  ListFacts'
<1>1. /\ UNCHANGED <<toHost, toClient, client_up, client_boots, started, sending>>
      /\ clients' = <<>> /\ state' = "READY"
  BY DEF PowerOnHost, HostBoot, ClientsAtBoot, clientVars
<1>2. \A b \in Clients : NoLonger(b)
  BY <1>1, OtherLines DEF IInv, ListFacts
<1>3. \A b \in Clients : LineKept(b)' /\ EntryKept(b)'
  BY <1>1, <1>2 DEF NoLonger, EntryKept, Registered
<1>4. LastIsNew' /\ Shared'
  BY <1>1 DEF LastIsNew, Shared
<1>5. QED
  BY <1>3, <1>4 DEF ListFacts

LEMMA FirstStart ==
  ASSUME IInv, ListFacts, NEW c \in Clients, PowerOnClient(c), NoClientRestarted'
  PROVE  client_boots[c] = 0 /\ client_boots'[c] # 0 /\ ~started[c] /\ UNCHANGED <<started, sending>>
<1>1. client_boots' = [client_boots EXCEPT ![c] = @ + 1] /\ client_boots[c] \in Nat
  BY DEF PowerOnClient, IInv, PowerTypeOK
<1>2. client_boots'[c] = client_boots[c] + 1 /\ client_boots'[c] <= 1
  BY <1>1 DEF NoClientRestarted, IInv, PowerTypeOK
<1>3. client_boots[c] = 0 /\ client_boots'[c] # 0
  BY <1>1, <1>2
<1>4. ~started[c] /\ sending[c] = 0
  BY <1>3 DEF ListFacts, LineKept, InTransfer
<1>5. UNCHANGED <<started, sending>>
  BY <1>4 DEF PowerOnClient, ClientBoot, IInv, ClientTypeOK
<1>6. QED
  BY <1>3, <1>4, <1>5

LEMMA FirstStartKeepsLists ==
  ASSUME IInv, IInv', ListFacts, NEW c \in Clients, PowerOnClient(c), NoClientRestarted'
  PROVE  ListFacts'
<1>1. UNCHANGED <<toHost, toClient, started, sending, tableVars>>
  BY FirstStart DEF PowerOnClient, ClientBoot, linkVars, hostVars
<1>2. \A b \in Clients : client_boots'[b] = 0 => client_boots[b] = 0 /\ (client_up'[b] => client_up[b])
  BY FirstStart DEF PowerOnClient, ClientBoot, IInv, PowerTypeOK, ClientTypeOK
<1>3. \A b \in Clients : NoLonger(b)
  BY <1>1, <1>2, QuietStep, QuietHostMoves, QuietClientMoves DEF IInv, ListFacts, NoLonger
<1>4. \A b \in Clients : LineKept(b)' /\ EntryKept(b)'
  BY <1>1, <1>3 DEF NoLonger, ListFacts, EntryKept, Registered, LastClient, tableVars
<1>5. LastIsNew' /\ Shared'
  BY <1>1 DEF ListFacts, LastIsNew, Shared, LastClient, tableVars
<1>6. QED
  BY <1>4, <1>5 DEF ListFacts

LEMMA BroadcastKeepsLists ==
  ASSUME IInv, IInv', ListFacts, NEW c \in Clients, ClientBroadcasts(c)
  PROVE  ListFacts'
<1> DEFINE m == ConnectRequest(ListId[c])
<1>0. m \in ClientMessages /\ IsRequest(m) /\ ~IsDef(m)
  BY ClientMessageTypes, ListIdAssumption DEF ConnectRequest, IsRequest, IsDef
<1>1. /\ ~started[c] /\ client_up[c]
      /\ started' = [started EXCEPT ![c] = TRUE]
      /\ toHost' = [toHost EXCEPT ![c] = @ \o << m >>]
      /\ UNCHANGED <<toClient, client_up, client_boots, sending, tableVars>>
  BY DEF ClientBroadcasts, SppClientStart, SendToHost, hostVars, bootVars
<1> HIDE DEF m
<1>2. ~Requested(c) /\ ~InTransfer(c) /\ client_boots[c] # 0 /\ ~Registered(c)
  BY <1>1 DEF ListFacts, LineKept, EntryKept
<1>3. toHost'[c] = toHost[c] \o << m >> /\ started'[c]
  BY <1>1 DEF IInv, LinkTypeOK, ClientTypeOK
<1>4. PICK n \in Nat :
        /\ n \in DOMAIN toHost'[c] /\ toHost'[c][n] = m
        /\ \A k \in DOMAIN toHost'[c] :
             k = n \/ (k \in DOMAIN toHost[c] /\ toHost'[c][k] = toHost[c][k])
  BY <1>0, <1>3, PushedHost DEF IInv
<1>5. /\ \A k \in DOMAIN toHost'[c] : ~IsDef(toHost'[c][k])
      /\ \A k \in DOMAIN toHost'[c] : IsRequest(toHost'[c][k]) => k = n
  BY <1>0, <1>2, <1>4 DEF Requested, InTransfer, Listed
<1>6. ~InTransfer(c)'
  BY <1>1, <1>2, <1>5 DEF InTransfer, Offered, Listed
<1>7. LineKept(c)'
  BY <1>1, <1>2, <1>3, <1>5, <1>6 DEF ListFacts, LineKept, InTransfer, Offered
<1>8. \A b \in Clients : b # c => NoLonger(b) /\ started'[b] = started[b]
  <2> SUFFICES ASSUME NEW b \in Clients, b # c PROVE NoLonger(b) /\ started'[b] = started[b]
    OBVIOUS
  <2>1. UNCHANGED <<toHost[b], toClient[b], client_up[b], client_boots[b], started[b], sending[b]>>
    BY <1>1 DEF IInv, LinkTypeOK, ClientTypeOK
  <2>2. QED
    BY <2>1, OtherLines DEF IInv, ListFacts
<1>9. UNCHANGED <<state, clients, property_count, property_def_start>>
  BY <1>1 DEF tableVars
<1>10. \A b \in Clients : LineKept(b)' /\ EntryKept(b)'
  <2>1. EntryKept(c)'
    BY <1>2, <1>9 DEF EntryKept, Registered
  <2>2. \A b \in Clients : b # c => LineKept(b)' /\ EntryKept(b)'
    BY <1>8, <1>9 DEF NoLonger, ListFacts, EntryKept, Registered, LastClient
  <2>3. QED
    BY <1>7, <2>1, <2>2
<1>11. LastIsNew' /\ Shared'
  BY <1>9 DEF ListFacts, LastIsNew, Shared, LastClient
<1>12. QED
  BY <1>10, <1>11 DEF ListFacts

LEMMA AnswerKeepsLists ==
  ASSUME IInv, IInv', ListFacts, NEW c \in Clients, ClientHandles(c), SendPropertyList(c)
  PROVE  ListFacts'
<1> DEFINE m == PropListResponse(Len(PropertyList[c]))
<1>0. m \in ClientMessages /\ m.type \notin {"CONNECT_REQUEST_BC", "PROP_DEF"}
  BY QuietMessages, ListedProps
<1>1. /\ toClient[c] # <<>> /\ Head(toClient[c]).type = "CONNECT_RESPONSE"
      /\ Head(toClient[c]).status = "OK"
      /\ toClient' = [toClient EXCEPT ![c] = Tail(@)]
      /\ toHost' = [toHost EXCEPT ![c] = @ \o << m >>]
      /\ sending' = [sending EXCEPT ![c] = 1]
      /\ UNCHANGED <<client_up, client_boots, started, tableVars>>
  BY DEF ClientHandles, SendPropertyList, Addressed, ReplyToHost, hostVars, bootVars
<1> HIDE DEF m
<1>2. IsOk(Head(toClient[c]))
  <2>1. Head(toClient[c]) \in HostMessages
    BY <1>1, HeadsTyped DEF IInv
  <2>2. \A r \in HostMessages :
          r.type = "CONNECT_RESPONSE" /\ r.status = "OK" => r = ConnectResponse("OK")
    BY DEF HostMessages, ConnectResponse
  <2>3. QED
    BY <1>1, <2>1, <2>2 DEF IsOk
<1>3. /\ toHost'[c] = toHost[c] \o << m >>
      /\ toClient'[c] = Tail(toClient[c])
      /\ sending'[c] = 1
  BY <1>1 DEF IInv, LinkTypeOK, ClientTypeOK
<1>4. /\ 1 \in DOMAIN toClient[c] /\ IsOk(toClient[c][1])
      /\ \A k \in DOMAIN toClient'[c] :
           /\ k + 1 \in DOMAIN toClient[c] /\ toClient'[c][k] = toClient[c][k + 1]
           /\ k + 1 > 1
  BY <1>1, <1>2, <1>3, PoppedClient DEF IInv
<1>5. Offered(c) /\ InTransfer(c)
  BY <1>4 DEF Offered, InTransfer
<1>6. started[c] /\ ~Requested(c) /\ sending[c] = 0 /\ ~Listed(c)
  BY <1>5 DEF ListFacts, LineKept
<1>7. \A k \in DOMAIN toClient'[c] : ~IsOk(toClient'[c][k])
  <2> SUFFICES ASSUME NEW k \in DOMAIN toClient'[c], IsOk(toClient'[c][k]) PROVE FALSE
    OBVIOUS
  <2>1. k + 1 = 1
    BY <1>4 DEF ListFacts, LineKept
  <2>2. QED
    BY <1>4, <2>1
<1>8. \A k \in DOMAIN toHost'[c] : ~IsDef(toHost'[c][k]) /\ ~IsRequest(toHost'[c][k])
  <2>1. PICK n \in Nat :
          /\ n \in DOMAIN toHost'[c] /\ toHost'[c][n] = m
          /\ \A k \in DOMAIN toHost'[c] :
               k = n \/ (k \in DOMAIN toHost[c] /\ toHost'[c][k] = toHost[c][k])
    BY <1>0, <1>3, PushedHost, SMTT(30) DEF IInv
  <2>2. QED
    BY <1>0, <1>6, <2>1 DEF Requested, Listed, IsDef, IsRequest
<1>9. LineKept(c)' /\ ~Requested(c)'
  BY <1>1, <1>6, <1>7, <1>8 DEF ListFacts, LineKept, Requested, Offered
<1>10. \A b \in Clients : b # c => NoLonger(b)
  <2> SUFFICES ASSUME NEW b \in Clients, b # c PROVE NoLonger(b)
    OBVIOUS
  <2>1. UNCHANGED <<toHost[b], toClient[b], client_up[b], client_boots[b], started[b], sending[b]>>
    BY <1>1 DEF IInv, LinkTypeOK, ClientTypeOK
  <2>2. QED
    BY <2>1, OtherLines DEF IInv, ListFacts
<1>11. UNCHANGED <<state, clients, property_count, property_def_start, started>>
  BY <1>1 DEF tableVars
<1>12. \A b \in Clients : LineKept(b)' /\ EntryKept(b)'
  <2>1. EntryKept(c)'
    BY <1>5, <1>9, <1>11 DEF ListFacts, EntryKept, Registered, LastClient
  <2>2. \A b \in Clients : b # c => LineKept(b)' /\ EntryKept(b)'
    BY <1>10, <1>11 DEF NoLonger, ListFacts, EntryKept, Registered, LastClient
  <2>3. QED
    BY <1>9, <2>1, <2>2
<1>13. LastIsNew' /\ Shared'
  BY <1>11 DEF ListFacts, LastIsNew, Shared, LastClient
<1>14. QED
  BY <1>12, <1>13 DEF ListFacts

LEMMA DefSentKeepsLists ==
  ASSUME IInv, IInv', ListFacts, NEW c \in Clients, ClientHandles(c), SendPropDef(c)
  PROVE  ListFacts'
<1> DEFINE i == sending[c]
           n == Len(PropertyList[c])
           m == PropDef(PropertyList[c][i], RemainingAfter(i, n))
<1>1. /\ i # 0
      /\ toHost' = [toHost EXCEPT ![c] = @ \o << m >>]
      /\ sending' = [sending EXCEPT ![c] = IF i = n THEN 0 ELSE i + 1]
      /\ UNCHANGED <<toClient, client_up, client_boots, started, tableVars>>
  BY DEF ClientHandles, SendPropDef, SendToHost, hostVars, bootVars
<1>2. i \in 1 .. n /\ n \in Nat
  BY <1>1, ListedProps DEF IInv, ClientTypeOK
<1>3. /\ m \in ClientMessages /\ IsDef(m) /\ ~IsRequest(m)
      /\ m.remaining = 0 => i = n
  <2>1. RemainingAfter(i, n) \in Nat
    BY <1>2 DEF RemainingAfter
  <2>2. m \in ClientMessages
    BY <1>2, <2>1, ListedProps, ClientMessageTypes
  <2>3. m.type = "PROP_DEF" /\ m.remaining = n - i
    BY DEF PropDef, RemainingAfter
  <2>4. QED
    BY <1>2, <2>2, <2>3 DEF IsDef, IsRequest
<1> HIDE DEF m
<1>4. /\ toHost'[c] = toHost[c] \o << m >>
      /\ m.remaining = 0 => sending'[c] = 0
  BY <1>1, <1>3 DEF IInv, LinkTypeOK, ClientTypeOK
<1>5. InTransfer(c) /\ sending[c] # 0
  BY <1>1 DEF InTransfer
<1>6. started[c] /\ ~Requested(c) /\ ~Offered(c)
  BY <1>5 DEF ListFacts, LineKept
<1>7. PICK q \in Nat :
        /\ q \in DOMAIN toHost'[c] /\ toHost'[c][q] = m
        /\ \A k \in DOMAIN toHost[c] : k \in Nat /\ k < q
        /\ \A k \in DOMAIN toHost'[c] :
             k = q \/ (k \in DOMAIN toHost[c] /\ toHost'[c][k] = toHost[c][k])
  BY <1>3, <1>4, PushedHost DEF IInv
<1>8. \A k \in DOMAIN toHost'[c] : ~IsRequest(toHost'[c][k])
  BY <1>3, <1>6, <1>7 DEF Requested
<1>9. ASSUME NEW k \in DOMAIN toHost'[c], IsDef(toHost'[c][k]), toHost'[c][k].remaining = 0
      PROVE  sending'[c] = 0 /\ \A l \in DOMAIN toHost'[c] : k < l => ~IsDef(toHost'[c][l])
  <2>1. k = q
    BY <1>5, <1>7, <1>9 DEF ListFacts, LineKept
  <2>2. \A l \in DOMAIN toHost'[c] : ~ (k < l)
    BY <1>7, <2>1
  <2>3. QED
    BY <1>4, <1>7, <1>9, <2>1, <2>2
<1>10. ~Offered(c)' /\ ~Requested(c)'
  BY <1>1, <1>6, <1>8 DEF Offered, Requested
<1>11. LineKept(c)'
  BY <1>1, <1>6, <1>8, <1>9, <1>10 DEF ListFacts, LineKept
<1>12. \A b \in Clients : b # c => NoLonger(b)
  <2> SUFFICES ASSUME NEW b \in Clients, b # c PROVE NoLonger(b)
    OBVIOUS
  <2>1. UNCHANGED <<toHost[b], toClient[b], client_up[b], client_boots[b], started[b], sending[b]>>
    BY <1>1 DEF IInv, LinkTypeOK, ClientTypeOK
  <2>2. QED
    BY <2>1, OtherLines DEF IInv, ListFacts
<1>13. UNCHANGED <<state, clients, property_count, property_def_start, started>>
  BY <1>1 DEF tableVars
<1>14. \A b \in Clients : LineKept(b)' /\ EntryKept(b)'
  <2>1. EntryKept(c)'
    BY <1>5, <1>10, <1>13 DEF ListFacts, EntryKept, Registered, LastClient
  <2>2. \A b \in Clients : b # c => LineKept(b)' /\ EntryKept(b)'
    BY <1>12, <1>13 DEF NoLonger, ListFacts, EntryKept, Registered, LastClient
  <2>3. QED
    BY <1>11, <2>1, <2>2
<1>15. LastIsNew' /\ Shared'
  BY <1>13 DEF ListFacts, LastIsNew, Shared, LastClient
<1>16. QED
  BY <1>14, <1>15 DEF ListFacts

\* The client the host is CONNECTING to is the one whose definition arrives,
\* and it stands last in the table.
LEMMA DefOfLast ==
  ASSUME IInv, ListFacts, NEW c \in Clients, PropDefReceived(c)
  PROVE  /\ Registered(c) /\ Listed(c) /\ InTransfer(c)
         /\ state = "CONNECTING" /\ LastClient.client = c
         /\ SppGetClientIdx(c) = Len(clients)
         /\ Len(clients) \in DOMAIN clients /\ Len(clients) \in Connections
<1>1. Registered(c) /\ toHost[c] # <<>> /\ IsDef(Head(toHost[c]))
  BY DEF PropDefReceived, Received, IsDef
<1>2. Listed(c)
  <2>1. PICK CM : CM = ClientMessages /\ toHost \in [Clients -> Seq(CM)]
    BY DEF IInv, LinkTypeOK
  <2>2. toHost[c] \in Seq(CM)
    BY <2>1
  <2>3. 1 \in DOMAIN toHost[c] /\ toHost[c][1] = Head(toHost[c])
    BY <1>1, <2>2, TailAt
  <2>4. QED
    BY <1>1, <2>3 DEF Listed
<1>3. InTransfer(c)
  BY <1>2 DEF InTransfer
<1>4. state = "CONNECTING" /\ LastClient.client = c
  BY <1>1, <1>3 DEF ListFacts, EntryKept
<1>5. SppGetClientIdx(c) \in DOMAIN clients /\ clients[SppGetClientIdx(c)].client = c
  BY <1>1 DEF Registered, SppGetClientIdx
<1>6. Len(clients) \in DOMAIN clients /\ Len(clients) \in Connections
  <2>1. clients \in Seq([client : Clients, list_id : Nat]) /\ Len(clients) <= SPP_CONNECTIONS_MAX
    BY DEF IInv, Table, TableTypeOK
  <2>2. clients # <<>>
    BY <1>4 DEF ListFacts, LastIsNew
  <2>3. Len(clients) \in DOMAIN clients /\ Len(clients) \in Nat /\ Len(clients) >= 1
    BY <2>1, <2>2
  <2>4. QED
    BY <2>1, <2>3, ConnectionsAssumption DEF Connections
<1>7. SppGetClientIdx(c) = Len(clients)
  BY <1>4, <1>5, <1>6 DEF IInv, Table, RegisteredOnce, LastClient
<1>8. QED
  BY <1>1, <1>2, <1>3, <1>4, <1>6, <1>7

LEMMA DefReceivedKeepsLists ==
  ASSUME IInv, IInv', ListFacts, NEW c \in Clients, HostHandles(c), PropDefReceived(c)
  PROVE  ListFacts'
<1> DEFINE m == Head(toHost[c])
           last == Len(clients)
<1>1. /\ Registered(c) /\ Listed(c)
      /\ state = "CONNECTING" /\ LastClient.client = c
      /\ SppGetClientIdx(c) = last /\ last \in DOMAIN clients /\ last \in Connections
  BY DefOfLast
<1>2. /\ toHost[c] # <<>> /\ m.type = "PROP_DEF"
      /\ toHost' = [toHost EXCEPT ![c] = Tail(@)]
      /\ toClient' = [toClient EXCEPT ![c] = @ \o <<>>]
      /\ property_count' = [property_count EXCEPT ![last] = @ + 1]
      /\ state' = IF m.remaining = 0 THEN "READY" ELSE state
      /\ UNCHANGED <<clients, property_def_start, client_up, client_boots, started, sending>>
  BY <1>1 DEF HostHandles, PropDefReceived, Received, Discard, ReplyToClient, LastDefinition,
              clientVars, bootVars
<1>3. \A b \in Clients : NoLonger(b)
  <2>1. Quiet
    BY <1>2, QuietMoves DEF IInv, Quiet
  <2>2. QED
    BY <2>1, QuietLines DEF IInv, ListFacts
<1>4. m.remaining = 0 => ~InTransfer(c)'
  <2> SUFFICES ASSUME m.remaining = 0 PROVE ~InTransfer(c)'
    OBVIOUS
  <2>1. toHost'[c] = Tail(toHost[c])
    BY <1>2 DEF IInv, LinkTypeOK
  <2>2. /\ 1 \in DOMAIN toHost[c] /\ toHost[c][1] = m
        /\ \A k \in DOMAIN toHost'[c] :
             /\ k + 1 \in DOMAIN toHost[c] /\ toHost'[c][k] = toHost[c][k + 1]
             /\ k + 1 > 1
    BY <1>2, <2>1, PoppedHost DEF IInv
  <2>3. sending[c] = 0 /\ \A l \in DOMAIN toHost[c] : 1 < l => ~IsDef(toHost[c][l])
    BY <1>2, <2>2 DEF ListFacts, LineKept, IsDef
  <2>4. \A k \in DOMAIN toHost'[c] : ~IsDef(toHost'[c][k])
    <3> SUFFICES ASSUME NEW k \in DOMAIN toHost'[c] PROVE ~IsDef(toHost'[c][k])
      OBVIOUS
    <3>1. k + 1 \in DOMAIN toHost[c] /\ toHost'[c][k] = toHost[c][k + 1] /\ 1 < k + 1
      BY <2>2
    <3>2. QED
      BY <2>3, <3>1
  <2>5. ~Offered(c)
    BY <1>1 DEF ListFacts, LineKept
  <2>6. ~Offered(c)'
    <3>1. toClient'[c] = toClient[c]
      <4>1. PICK HM : HM = HostMessages /\ toClient \in [Clients -> Seq(HM)]
        BY DEF IInv, LinkTypeOK
      <4>2. toClient[c] \in Seq(HM) /\ toClient'[c] = toClient[c] \o <<>>
        BY <1>2, <4>1
      <4>3. QED
        BY <4>2
    <3>2. QED
      BY <2>5, <3>1 DEF Offered
  <2>7. QED
    BY <1>2, <2>3, <2>4, <2>6 DEF InTransfer, Listed
<1>5. ASSUME NEW b \in Clients PROVE EntryKept(b)'
  <2> SUFFICES ASSUME Registered(b)'
               PROVE  /\ started'[b] /\ ~Requested(b)'
                      /\ InTransfer(b)' => state' = "CONNECTING" /\ LastClient'.client = b
    BY DEF EntryKept
  <2>1. Registered(b)
    BY <1>2 DEF Registered
  <2>2. started'[b] /\ ~Requested(b)'
    BY <1>2, <1>3, <2>1 DEF ListFacts, EntryKept, NoLonger
  <2>3. InTransfer(b)' => state' = "CONNECTING" /\ LastClient'.client = b
    <3> SUFFICES ASSUME InTransfer(b)' PROVE state' = "CONNECTING" /\ LastClient'.client = b
      OBVIOUS
    <3>1. LastClient.client = b
      BY <1>3, <2>1 DEF ListFacts, EntryKept, NoLonger
    <3>2. m.remaining # 0
      BY <1>1, <1>4, <3>1
    <3>3. QED
      BY <1>1, <1>2, <3>1, <3>2 DEF LastClient
  <2>4. QED
    BY <2>2, <2>3
<1>6. LastIsNew'
  BY <1>1, <1>2 DEF ListFacts, LastIsNew, LastClient
<1>7. Shared'
  <2> SUFFICES ASSUME NEW i \in DOMAIN clients, NEW j \in DOMAIN clients,
                      clients[i].list_id = clients[j].list_id
               PROVE  /\ property_count'[i] = property_count'[j]
                      /\ property_def_start'[i] = property_def_start'[j]
    BY <1>2 DEF Shared
  <2>1. i = j \/ (i # last /\ j # last)
    BY <1>1 DEF ListFacts, LastIsNew, LastClient
  <2>2. property_count[i] = property_count[j] /\ property_def_start[i] = property_def_start[j]
    BY DEF ListFacts, Shared
  <2>3. property_count \in [Connections -> Nat]
    BY DEF IInv, Table, TableTypeOK
  <2> HIDE DEF last
  <2>4. QED
    BY <1>1, <1>2, <2>1, <2>2, <2>3
<1>8. QED
  BY <1>3, <1>5, <1>6, <1>7 DEF ListFacts, NoLonger

\* SppConnectToClient for a client that is not in the table.
LEMMA NewClient ==
  ASSUME IInv, NEW c \in Clients, NEW id \in Nat, ~Registered(c), RoomForClient(c),
         SppConnectToClient(c, id)
  PROVE  LET last == Len(clients) + 1
             same == { i \in DOMAIN clients : clients[i].list_id = id }
         IN  /\ last \in Connections
             /\ DOMAIN clients' = 1 .. last /\ DOMAIN clients = 1 .. last - 1
             /\ Len(clients') = last
             /\ clients'[last] = [client |-> c, list_id |-> id]
             /\ \A i \in DOMAIN clients : clients'[i] = clients[i]
             /\ \/ /\ same = {} /\ state' = "CONNECTING"
                   /\ UNCHANGED <<property_count, property_def_start>>
                   /\ ReplyToClient(c, << ConnectResponse("OK") >>)
                \/ /\ same # {} /\ state' = "READY"
                   /\ \E from \in same :
                        /\ property_count' =
                             [property_count EXCEPT ![last] = property_count[from]]
                        /\ property_def_start' =
                             [property_def_start EXCEPT ![last] = property_def_start[from]]
                   /\ ReplyToClient(c, << ConnectResponse("DUPLICATE_CLIENT") >>)
<1> DEFINE last == Len(clients) + 1
           same == { i \in DOMAIN clients : clients[i].list_id = id }
           known == Append(clients, [client |-> c, list_id |-> id])
           found == { i \in 1 .. Len(known) : known[i].list_id = id /\ known[i].client # c }
           from == IF found \subseteq {Len(known)} THEN Len(known) ELSE Max(found \ {Len(known)})
<1>1. /\ clients \in Seq([client : Clients, list_id : Nat])
      /\ Len(clients) < SPP_CONNECTIONS_MAX
  BY DEF IInv, Table, TableTypeOK, RoomForClient
<1>2. /\ Len(clients) \in Nat /\ last \in Connections /\ Len(known) = last
      /\ DOMAIN known = 1 .. last /\ DOMAIN clients = 1 .. last - 1
      /\ known[last] = [client |-> c, list_id |-> id]
      /\ \A i \in DOMAIN clients : known[i] = clients[i]
  BY <1>1, ConnectionsAssumption DEF Connections
<1>3. \A i \in DOMAIN clients : clients[i].client # c
  BY DEF Registered
<1>4. SppAddClient(c, id) = known
  BY DEF SppAddClient
<1>5. /\ clients' = known
      /\ property_def_start' = [property_def_start EXCEPT ![Len(known)] = property_def_start[from]]
      /\ property_count' = [property_count EXCEPT ![Len(known)] = property_count[from]]
      /\ \/ /\ found = {}
            /\ state' = "CONNECTING"
            /\ ReplyToClient(c, << ConnectResponse("OK") >>)
         \/ /\ found # {}
            /\ state' = "READY"
            /\ ReplyToClient(c, << ConnectResponse("DUPLICATE_CLIENT") >>)
  BY <1>4 DEF SppConnectToClient, CopyRange
<1> HIDE DEF known
<1>6. found = same
  <2>1. \A i \in 1 .. last : i \in found <=> i \in same
    <3> SUFFICES ASSUME NEW i \in 1 .. last PROVE i \in found <=> i \in same
      OBVIOUS
    <3>1. CASE i = last
      BY <1>2, <3>1
    <3>2. CASE i # last
      <4>1. i \in DOMAIN clients
        BY <1>2, <3>2
      <4>2. QED
        BY <1>2, <1>3, <4>1
    <3>3. QED
      BY <3>1, <3>2
  <2>2. found \subseteq 1 .. last /\ same \subseteq 1 .. last
    BY <1>2
  <2>3. QED
    BY <2>1, <2>2
<1>7. last \notin same
  BY <1>2
<1>8. CASE found = {}
  <2>1. from = last
    BY <1>2, <1>8
  <2>2. UNCHANGED <<property_count, property_def_start>>
    BY <1>2, <1>5, <2>1 DEF IInv, Table, TableTypeOK
  <2>3. QED
    BY <1>2, <1>5, <1>6, <1>8, <2>2
<1>9. CASE found # {}
  <2>1. found \ {Len(known)} = same
    BY <1>2, <1>6, <1>7
  <2>2. from = Max(same)
    BY <1>2, <1>6, <1>7, <1>9, <2>1
  <2>3. from \in same
    <3>1. same \in SUBSET (1 .. last)
      BY <1>2
    <3>2. same # {} /\ last \in Nat
      BY <1>2, <1>6, <1>9
    <3> HIDE DEF same, last
    <3>3. QED
      BY <2>2, <3>1, <3>2, MaxOfBounded
  <2>4. QED
    BY <1>2, <1>5, <1>6, <1>9, <2>3
<1>10. QED
  BY <1>8, <1>9

\* The host answers a request for the first time: its client is in no table
\* and in no transfer, and since the host is READY no client of the table is.
LEMMA RequestOfNew ==
  ASSUME IInv, ListFacts, NEW c \in Clients, ConnectAccepted(c)
  PROVE  /\ started[c] /\ Requested(c) /\ ~Registered(c) /\ ~InTransfer(c)
         /\ Head(toHost[c]).list_id \in Nat
         /\ SppConnectToClient(c, Head(toHost[c]).list_id) /\ RoomForClient(c)
         /\ 1 \in DOMAIN toHost[c] /\ toHost[c][1] = Head(toHost[c]) /\ IsRequest(toHost[c][1])
         /\ \A b \in Clients : Registered(b) => ~InTransfer(b)
<1>1. /\ toHost[c] # <<>> /\ IsRequest(Head(toHost[c])) /\ state = "READY"
      /\ SppConnectToClient(c, Head(toHost[c]).list_id) /\ RoomForClient(c)
  BY DEF ConnectAccepted, Received, IsRequest
<1>2. 1 \in DOMAIN toHost[c] /\ toHost[c][1] = Head(toHost[c])
  <2>1. PICK CM : CM = ClientMessages /\ toHost \in [Clients -> Seq(CM)]
    BY DEF IInv, LinkTypeOK
  <2>2. toHost[c] \in Seq(CM)
    BY <2>1
  <2>3. QED
    BY <1>1, <2>2, TailAt
<1>3. Requested(c)
  BY <1>1, <1>2 DEF Requested
<1>4. started[c] /\ ~InTransfer(c) /\ ~Registered(c)
  BY <1>3 DEF ListFacts, LineKept, EntryKept
<1>5. Head(toHost[c]).list_id \in Nat
  BY <1>1, HeadsTyped, ClientMessageFields DEF IInv, IsRequest
<1>6. \A b \in Clients : Registered(b) => ~InTransfer(b)
  BY <1>1 DEF ListFacts, EntryKept
<1>7. QED
  BY <1>1, <1>2, <1>3, <1>4, <1>5, <1>6

LEMMA AcceptedKeepsLists ==
  ASSUME IInv, IInv', ListFacts, NEW c \in Clients, HostHandles(c), ConnectAccepted(c)
  PROVE  ListFacts'
<1> DEFINE id == Head(toHost[c]).list_id
           last == Len(clients) + 1
           same == { i \in DOMAIN clients : clients[i].list_id = id }
<1>1. /\ started[c] /\ Requested(c) /\ ~Registered(c) /\ ~InTransfer(c) /\ id \in Nat
      /\ SppConnectToClient(c, id) /\ RoomForClient(c)
      /\ \A b \in Clients : Registered(b) => ~InTransfer(b)
      /\ toHost[c][1] = Head(toHost[c]) /\ IsRequest(toHost[c][1]) /\ 1 \in DOMAIN toHost[c]
  BY RequestOfNew
<1>2. UNCHANGED <<client_up, client_boots, started, sending>>
  BY DEF HostHandles, clientVars, bootVars
<1>3. /\ last \in Connections
      /\ DOMAIN clients' = 1 .. last /\ DOMAIN clients = 1 .. last - 1
      /\ Len(clients') = last
      /\ clients'[last] = [client |-> c, list_id |-> id]
      /\ \A i \in DOMAIN clients : clients'[i] = clients[i]
      /\ \/ /\ same = {} /\ state' = "CONNECTING"
            /\ UNCHANGED <<property_count, property_def_start>>
            /\ ReplyToClient(c, << ConnectResponse("OK") >>)
         \/ /\ same # {} /\ state' = "READY"
            /\ \E from \in same :
                 /\ property_count' = [property_count EXCEPT ![last] = property_count[from]]
                 /\ property_def_start' =
                      [property_def_start EXCEPT ![last] = property_def_start[from]]
            /\ ReplyToClient(c, << ConnectResponse("DUPLICATE_CLIENT") >>)
  BY <1>1, NewClient
<1> HIDE DEF id, last, same
<1>4. /\ toHost[c] # <<>>
      /\ toHost' = [toHost EXCEPT ![c] = Tail(@)]
      /\ toHost'[c] = Tail(toHost[c])
  BY <1>3 DEF ConnectAccepted, Received, ReplyToClient, IInv, LinkTypeOK
<1>5. \A k \in DOMAIN toHost'[c] : ~IsRequest(toHost'[c][k]) /\ ~IsDef(toHost'[c][k])
  <2>1. \A k \in DOMAIN toHost'[c] :
          /\ k + 1 \in DOMAIN toHost[c] /\ toHost'[c][k] = toHost[c][k + 1]
          /\ k + 1 > 1
    BY <1>4, PoppedHost DEF IInv
  <2>2. ASSUME NEW k \in DOMAIN toHost'[c] PROVE ~IsRequest(toHost'[c][k])
    <3>1. k + 1 \in DOMAIN toHost[c] /\ toHost'[c][k] = toHost[c][k + 1] /\ ~ (k + 1 = 1)
      BY <2>1
    <3>2. QED
      BY <1>1, <3>1 DEF ListFacts, LineKept
  <2>3. \A k \in DOMAIN toHost'[c] : ~IsDef(toHost'[c][k])
    BY <1>1, <2>1 DEF InTransfer, Listed
  <2>4. QED
    BY <2>2, <2>3
<1>6. ASSUME NEW b \in Clients, b # c PROVE NoLonger(b)
  <2>1. UNCHANGED <<toHost[b], toClient[b]>>
    BY <1>3, <1>4, <1>6 DEF ReplyToClient, IInv, LinkTypeOK
  <2>2. QED
    BY <1>2, <2>1, OtherLines DEF IInv, ListFacts
<1>7. /\ LineKept(c)' /\ ~Requested(c)'
      /\ InTransfer(c)' => state' = "CONNECTING"
  <2>1. CASE same # {}
    <3>1. state' = "READY" /\ ReplyToClient(c, << ConnectResponse("DUPLICATE_CLIENT") >>)
      BY <1>3, <2>1
    <3>2. QuietHost(c) /\ QuietClient(c)
      BY <1>4, <3>1, QuietMoves, QuietMessages DEF ReplyToClient, IInv
    <3>3. NoLonger(c)
      BY <1>2, <3>2, QuietStep DEF IInv, ListFacts, NoLonger
    <3>4. ~Requested(c)'
      BY <1>5 DEF Requested
    <3>5. QED
      BY <1>1, <3>3, <3>4 DEF NoLonger
  <2>2. CASE same = {}
    <3>1. state' = "CONNECTING" /\ toClient' = [toClient EXCEPT ![c] = @ \o << ConnectResponse("OK") >>]
      BY <1>3, <2>2 DEF ReplyToClient
    <3>2. toClient'[c] = toClient[c] \o << ConnectResponse("OK") >>
      BY <3>1 DEF IInv, LinkTypeOK
    <3>3. PICK n \in Nat :
            \A k \in DOMAIN toClient'[c] :
              k = n \/ (k \in DOMAIN toClient[c] /\ toClient'[c][k] = toClient[c][k])
      <4>1. ConnectResponse("OK") \in HostMessages
        BY HostMessageTypes
      <4> DEFINE m == ConnectResponse("OK")
      <4>2. m \in HostMessages /\ toClient'[c] = toClient[c] \o << m >>
        BY <3>2, <4>1
      <4> HIDE DEF m
      <4>3. QED
        BY <4>2, PushedClient, SMTT(30) DEF IInv
    <3>4. \A k \in DOMAIN toClient'[c] : IsOk(toClient'[c][k]) => k = n
      BY <1>1, <3>3 DEF InTransfer, Offered
    <3>5. ~Listed(c)' /\ ~Requested(c)' /\ sending'[c] = 0
      BY <1>1, <1>2, <1>5 DEF Listed, Requested, InTransfer
    <3>6. LineKept(c)'
      BY <1>1, <1>2, <1>5, <3>4, <3>5 DEF ListFacts, LineKept
    <3>7. QED
      BY <3>1, <3>5, <3>6
  <2>3. QED
    BY <2>1, <2>2
<1>8. \A b \in Clients : Registered(b)' <=> Registered(b) \/ b = c
  <2>1. \A i \in DOMAIN clients' : i = last \/ i \in DOMAIN clients
    BY <1>3 DEF Connections
  <2>2. last \in DOMAIN clients' /\ DOMAIN clients \subseteq DOMAIN clients'
    BY <1>3 DEF Connections
  <2>3. QED
    BY <1>3, <2>1, <2>2 DEF Registered
<1>9. ASSUME NEW b \in Clients PROVE EntryKept(b)'
  <2>1. CASE b = c
    <3>1. LastClient'.client = c
      BY <1>3 DEF LastClient
    <3>2. QED
      BY <1>1, <1>2, <1>7, <2>1, <3>1 DEF EntryKept
  <2>2. CASE b # c
    BY <1>1, <1>2, <1>6, <1>8, <2>2 DEF EntryKept, ListFacts, NoLonger
  <2>3. QED
    BY <2>1, <2>2
<1>10. LastIsNew'
  <2> SUFFICES ASSUME state' = "CONNECTING", NEW i \in DOMAIN clients',
                      clients'[i].list_id = LastClient'.list_id
               PROVE  i = Len(clients')
    <3>1. clients' # <<>>
      BY <1>3 DEF Connections
    <3>2. QED
      BY <3>1 DEF LastIsNew
  <2>1. same = {} /\ LastClient'.list_id = id
    BY <1>3 DEF LastClient
  <2>2. i \notin DOMAIN clients
    BY <1>3, <2>1 DEF same
  <2>3. QED
    BY <1>3, <2>2 DEF Connections
<1>11. Shared'
  <2> SUFFICES ASSUME NEW i \in DOMAIN clients', NEW j \in DOMAIN clients',
                      clients'[i].list_id = clients'[j].list_id
               PROVE  /\ property_count'[i] = property_count'[j]
                      /\ property_def_start'[i] = property_def_start'[j]
    BY DEF Shared
  <2>0. \A h \in DOMAIN clients' : h = last \/ (h \in DOMAIN clients /\ h # last)
    BY <1>3 DEF Connections
  <2>1. /\ property_count \in [Connections -> Nat] /\ property_def_start \in [Connections -> Nat]
        /\ \A h \in DOMAIN clients' : h \in Connections
    <3>1. property_count \in [Connections -> Nat] /\ property_def_start \in [Connections -> Nat]
      BY DEF IInv, Table, TableTypeOK
    <3>2. \A h \in 1 .. last : h \in Connections
      BY <1>3, ConnectionsAssumption DEF Connections
    <3>3. QED
      BY <1>3, <3>1, <3>2
  <2>2. \A h \in DOMAIN clients : h # last =>
          property_count'[h] = property_count[h] /\ property_def_start'[h] = property_def_start[h]
    BY <1>3, <2>1
  <2>3. \A h \in DOMAIN clients : h # last /\ clients[h].list_id = id =>
          /\ property_count'[last] = property_count[h]
          /\ property_def_start'[last] = property_def_start[h]
    <3> SUFFICES ASSUME NEW h \in DOMAIN clients, clients[h].list_id = id
                 PROVE  /\ property_count'[last] = property_count[h]
                        /\ property_def_start'[last] = property_def_start[h]
      OBVIOUS
    <3>1. h \in same
      BY DEF same
    <3>2. PICK from \in same :
            /\ property_count' = [property_count EXCEPT ![last] = property_count[from]]
            /\ property_def_start' = [property_def_start EXCEPT ![last] = property_def_start[from]]
      BY <1>3, <3>1
    <3>3. from \in DOMAIN clients /\ clients[from].list_id = clients[h].list_id
      BY DEF same
    <3>4. property_count[from] = property_count[h] /\ property_def_start[from] = property_def_start[h]
      BY <3>3 DEF ListFacts, Shared
    <3>5. QED
      BY <1>3, <2>1, <3>2, <3>4
  <2>4. \A h, g \in DOMAIN clients : clients[h].list_id = clients[g].list_id =>
          property_count[h] = property_count[g] /\ property_def_start[h] = property_def_start[g]
    BY DEF ListFacts, Shared
  <2>5. clients'[last].list_id = id /\ \A h \in DOMAIN clients : clients'[h] = clients[h]
    BY <1>3
  <2>6. CASE i = last /\ j # last
    BY <2>0, <2>2, <2>3, <2>5, <2>6
  <2>7. CASE i # last /\ j = last
    BY <2>0, <2>2, <2>3, <2>5, <2>7
  <2>8. CASE i # last /\ j # last
    BY <2>0, <2>2, <2>4, <2>5, <2>8
  <2>9. QED
    BY <2>6, <2>7, <2>8
<1>12. QED
  BY <1>6, <1>7, <1>9, <1>10, <1>11 DEF ListFacts, NoLonger

\* The steps in which no client starts.
LEMMA NoOtherStarts ==
  ASSUME IInv, [Next]_vars, NoClientRestarted'
  PROVE  NoClientRestarted
<1>1. CASE \E c \in Clients : PowerOnClient(c)
  <2>1. PICK c \in Clients : PowerOnClient(c)
    BY <1>1
  <2>2. client_boots' = [client_boots EXCEPT ![c] = @ + 1]
    BY <2>1 DEF PowerOnClient
  <2>3. QED
    BY <2>2 DEF IInv, PowerTypeOK, NoClientRestarted
<1>2. CASE ~ \E c \in Clients : PowerOnClient(c)
  <2>1. UNCHANGED client_boots
    BY <1>2, StepCases
       DEF Still, Quiet, PowerOnHost, HostHandles, ClientHandles, ClientBroadcasts, bootVars
  <2>2. QED
    BY <2>1 DEF NoClientRestarted
<1>3. QED
  BY <1>1, <1>2

LEMMA InitLists == Init => ListInv
<1> SUFFICES ASSUME Init PROVE ListFacts
  BY DEF ListInv
<1>1. ASSUME NEW c \in Clients PROVE LineKept(c) /\ EntryKept(c)
  <2>1. /\ toHost[c] = <<>> /\ toClient[c] = <<>> /\ sending[c] = 0
        /\ ~client_up[c] /\ ~started[c] /\ clients = <<>>
    BY DEF Init
  <2>2. ~Requested(c) /\ ~InTransfer(c) /\ ~Offered(c) /\ ~Registered(c)
    BY <2>1 DEF Requested, InTransfer, Offered, Listed, Registered
  <2>3. QED
    BY <2>1, <2>2 DEF LineKept, EntryKept
<1>2. LastIsNew /\ Shared
  BY DEF Init, LastIsNew, Shared
<1>3. QED
  BY <1>1, <1>2 DEF ListFacts

LEMMA NextKeepsLists ==
  ASSUME IInv, IInv', ListInv, [Next]_vars, DefaultClient = NoClient
  PROVE  ListInv'
<1> SUFFICES ASSUME NoClientRestarted' PROVE ListFacts'
  BY DEF ListInv
<1>1. ListFacts
  BY NoOtherStarts DEF ListInv
<1>2. CASE Still
  BY <1>1, <1>2, StillKeepsLists
<1>3. CASE PowerOnHost
  BY <1>1, <1>3, BootKeepsLists
<1>4. ASSUME NEW c \in Clients, PowerOnClient(c) PROVE ListFacts'
  BY <1>1, <1>4, FirstStartKeepsLists
<1>5. ASSUME NEW c \in Clients, HostHandles(c), ConnectAccepted(c) \/ PropDefReceived(c)
      PROVE  ListFacts'
  BY <1>1, <1>5, AcceptedKeepsLists, DefReceivedKeepsLists
<1>6. ASSUME NEW c \in Clients, ClientHandles(c), SendPropertyList(c) \/ SendPropDef(c)
      PROVE  ListFacts'
  BY <1>1, <1>6, AnswerKeepsLists, DefSentKeepsLists
<1>7. ASSUME NEW c \in Clients, ClientBroadcasts(c) PROVE ListFacts'
  BY <1>1, <1>7, BroadcastKeepsLists
<1>8. QED
  BY <1>2, <1>3, <1>4, <1>5, <1>6, <1>7, StepCases

LEMMA AlwaysLists ==
  ASSUME DefaultClient = NoClient
  PROVE  Spec => [](IInv /\ ListInv)
<1>1. Init => IInv /\ ListInv
  BY InitIInv, InitLists
<1>2. IInv /\ ListInv /\ [Next]_vars => (IInv /\ ListInv)'
  BY NextKeepsIInv, NextKeepsLists
<1>3. QED
  BY <1>1, <1>2, PTL DEF Spec

\* Clients that announced the same list are given the same definitions: the
\* range SppConnectToClient (spp/src-host/spp.c:68) copies for a duplicate is
\* the range of its kind and stays so, for every number of clients, of kinds
\* and of starts of the server, and whatever the radio loses, as long as the
\* server waits for broadcasts and no client restarts.
THEOREM OneListOneRange ==
  ASSUME DefaultClient = NoClient
  PROVE  Spec => []SameListSameRange
<1>1. ListInv => SameListSameRange
  BY DEF ListInv, ListFacts, Shared, SameListSameRange
<1>2. QED
  BY <1>1, AlwaysLists, PTL

-----------------------------------------------------------------------------
\* With one kind of client only the first client is asked for its list, and
\* what is received of it is the range of every client.

LEMMA FirstClientOnly ==
  ASSUME IInv, ListFacts, IdsKept, OneKind
  PROVE  /\ state = "CONNECTING" => Len(clients) = 1
         /\ \A i \in DOMAIN clients : property_count[i] = property_count[1]
         /\ \A i \in DOMAIN clients : clients[i].client \in Clients
         /\ clients # <<>> => 1 \in DOMAIN clients
<1> DEFINE E == [client : Clients, list_id : Nat]
<1>1. clients \in Seq(E)
  BY DEF IInv, Table, TableTypeOK
<1>a. \A e \in E : e.client \in Clients
  OBVIOUS
<1> HIDE DEF E
<1>2. /\ clients # <<>> => 1 \in DOMAIN clients
      /\ \A i \in DOMAIN clients : 1 \in DOMAIN clients /\ clients[i] \in E
      /\ \A e \in E : e.client \in Clients
  BY <1>1, <1>a
<1>3. \A i, j \in DOMAIN clients : clients[i].list_id = clients[j].list_id
  BY <1>2 DEF IdsKept, OneKind
<1>4. \A i \in DOMAIN clients : property_count[i] = property_count[1]
  BY <1>2, <1>3 DEF ListFacts, Shared
<1>5. ASSUME state = "CONNECTING" PROVE Len(clients) = 1
  <2>1. clients # <<>>
    BY <1>5 DEF ListFacts, LastIsNew
  <2>2. 1 \in DOMAIN clients /\ Len(clients) \in DOMAIN clients
    BY <1>1, <2>1
  <2>3. QED
    BY <1>3, <1>5, <2>2 DEF ListFacts, LastIsNew, LastClient
<1>6. QED
  BY <1>2, <1>4, <1>5

\* Requests and definitions on a line were on it before, or were put there.
LEMMA FromOldLine ==
  ASSUME NEW c \in Clients, QuietHost(c), NEW k \in DOMAIN toHost'[c],
         IsRequest(toHost'[c][k]) \/ IsDef(toHost'[c][k])
  PROVE  \E l \in DOMAIN toHost[c] : toHost'[c][k] = toHost[c][l]
BY DEF QuietHost, IsRequest, IsDef

LEMMA QuietKeepsIds ==
  ASSUME IdsKept, \A c \in Clients : QuietHost(c), UNCHANGED clients
  PROVE  IdsKept'
<1>1. ASSUME NEW c \in Clients, NEW k \in DOMAIN toHost'[c], IsRequest(toHost'[c][k])
      PROVE  toHost'[c][k].list_id = ListId[c]
  BY <1>1, FromOldLine DEF IdsKept
<1>2. QED
  BY <1>1 DEF IdsKept

\* What is received, on the line or still to be sent stays so.
LEMMA CoveredStays ==
  ASSUME NEW b \in Clients, NEW i, Covered(b, i), defs_buffer' = defs_buffer,
         sending'[b] = sending[b], state = "CONNECTING" => state' = "CONNECTING",
         Listed(b)' => Listed(b),
         \A k \in DOMAIN toHost[b] :
           IsDef(toHost[b][k]) => \E l \in DOMAIN toHost'[b] : toHost'[b][l] = toHost[b][k]
  PROVE  Covered(b, i)'
BY DEF Covered

LEMMA StillKeepsReceived ==
  ASSUME IInv, IInv', ListFacts, ReceivedFacts, OneKind, ~Lossy, Still
  PROVE  ReceivedFacts'
<1>1. UNCHANGED <<state, clients, property_count, property_def_start, defs_buffer, sending>>
  BY DEF Still, Quiet, tableVars
<1>2. IdsKept' /\ RangesKept'
  BY <1>1, QuietKeepsIds DEF ReceivedFacts, RangesKept, Still, Quiet
<1>3. ASSUME host_up', clients # <<>>,
             NEW i \in DOMAIN PropertyList[clients[1].client]
      PROVE  Covered(clients[1].client, i)'
  <2> DEFINE b == clients[1].client
  <2>1. b \in Clients
    BY <1>3, FirstClientOnly DEF ReceivedFacts
  <2>2. Covered(b, i) /\ DefsStay /\ NoLonger(b)
    BY <1>3, <2>1, QuietLines DEF ReceivedFacts, ListCovered, Still, IInv, ListFacts
  <2>3. b' = b
    BY <1>1
  <2> HIDE DEF b
  <2>4. Covered(b, i)' 
    BY <1>1, <2>1, <2>2, <2>3 DEF DefsStay, NoLonger, Covered
  <2>5. QED
    BY <2>4 DEF b
<1>4. ListCovered'
  BY <1>1, <1>3 DEF ListCovered
<1>5. QED
  BY <1>2, <1>4 DEF ReceivedFacts

LEMMA BootKeepsReceived ==
  ASSUME IInv, ReceivedFacts, PowerOnHost, DefaultClient = NoClient
  PROVE  ReceivedFacts'
<1>1. /\ clients' = <<>> /\ defs_buffer' = <<>> /\ UNCHANGED toHost
      /\ property_count' = NoCounts /\ property_def_start' = NoCounts
  BY DEF PowerOnHost, HostBoot, ClientsAtBoot, CountsAtBoot
<1>2. IdsKept'
  BY <1>1 DEF ReceivedFacts, IdsKept
<1>3. RangesKept'
  BY <1>1, ConnectionsAssumption DEF RangesKept, NoCounts, Connections
<1>4. ListCovered'
  BY <1>1 DEF ListCovered
<1>5. QED
  BY <1>2, <1>3, <1>4 DEF ReceivedFacts

LEMMA FirstStartKeepsReceived ==
  ASSUME IInv, ListFacts, ReceivedFacts, OneKind, NEW c \in Clients, PowerOnClient(c),
         NoClientRestarted'
  PROVE  ReceivedFacts'
<1>1. UNCHANGED <<toHost, sending, host_up, tableVars>>
  BY FirstStart DEF PowerOnClient, ClientBoot, linkVars, hostVars
<1>2. UNCHANGED <<state, clients, property_count, property_def_start, defs_buffer>>
  BY <1>1 DEF tableVars
<1>3. IdsKept' /\ RangesKept' /\ ListCovered'
  BY <1>1, <1>2 DEF ReceivedFacts, IdsKept, RangesKept, ListCovered, Covered, Listed
<1>4. QED
  BY <1>3 DEF ReceivedFacts

LEMMA BroadcastKeepsReceived ==
  ASSUME IInv, ListFacts, ReceivedFacts, OneKind, NEW c \in Clients, ClientBroadcasts(c)
  PROVE  ReceivedFacts'
<1> DEFINE m == ConnectRequest(ListId[c])
<1>0. m \in ClientMessages /\ m.list_id = ListId[c]
  BY ClientMessageTypes, ListIdAssumption DEF ConnectRequest
<1>1. /\ ~started[c]
      /\ toHost' = [toHost EXCEPT ![c] = @ \o << m >>]
      /\ UNCHANGED <<sending, host_up, tableVars>>
  BY DEF ClientBroadcasts, SppClientStart, SendToHost, hostVars
<1> HIDE DEF m
<1>2. UNCHANGED <<state, clients, property_count, property_def_start, defs_buffer>>
  BY <1>1 DEF tableVars
<1>3. ~Registered(c)
  BY <1>1 DEF ListFacts, EntryKept
<1>4. /\ toHost'[c] = toHost[c] \o << m >>
      /\ \A b \in Clients : b # c => toHost'[b] = toHost[b]
  BY <1>1 DEF IInv, LinkTypeOK
<1>5. IdsKept'
  <2>1. PICK n \in Nat :
          /\ toHost'[c][n] = m
          /\ \A k \in DOMAIN toHost'[c] :
               k = n \/ (k \in DOMAIN toHost[c] /\ toHost'[c][k] = toHost[c][k])
    BY <1>0, <1>4, PushedHost DEF IInv
  <2>2. \A k \in DOMAIN toHost'[c] :
          IsRequest(toHost'[c][k]) => toHost'[c][k].list_id = ListId[c]
    BY <1>0, <2>1 DEF ReceivedFacts, IdsKept
  <2>3. QED
    BY <1>2, <1>4, <2>2 DEF ReceivedFacts, IdsKept
<1>6. RangesKept'
  BY <1>2 DEF ReceivedFacts, RangesKept
<1>7. ASSUME host_up, clients # <<>>, NEW b \in Clients, b = clients[1].client,
             NEW i \in DOMAIN PropertyList[b]
      PROVE  Covered(b, i)'
  <2>1. b # c
    BY <1>3, <1>7, FirstClientOnly DEF ReceivedFacts, Registered
  <2>2. toHost'[b] = toHost[b]
    BY <1>4, <2>1
  <2>3. Covered(b, i)
    BY <1>7 DEF ReceivedFacts, ListCovered
  <2>4. QED
    BY <1>1, <1>2, <2>2, <2>3, CoveredStays DEF Listed
<1>8. ListCovered'
  BY <1>1, <1>2, <1>7, FirstClientOnly DEF ListCovered, ReceivedFacts
<1>9. QED
  BY <1>5, <1>6, <1>8 DEF ReceivedFacts

LEMMA AnswerKeepsReceived ==
  ASSUME IInv, ListFacts, ReceivedFacts, OneKind, NEW c \in Clients, ClientHandles(c),
         SendPropertyList(c)
  PROVE  ReceivedFacts'
<1> DEFINE m == PropListResponse(Len(PropertyList[c]))
<1>0. m \in ClientMessages /\ m.type \notin {"CONNECT_REQUEST_BC", "PROP_DEF"}
  BY QuietMessages, ListedProps
<1>1. /\ toHost' = [toHost EXCEPT ![c] = @ \o << m >>]
      /\ sending' = [sending EXCEPT ![c] = 1]
      /\ UNCHANGED <<host_up, tableVars>>
  BY DEF ClientHandles, SendPropertyList, ReplyToHost, hostVars
<1> HIDE DEF m
<1>2. UNCHANGED <<state, clients, property_count, property_def_start, defs_buffer>>
  BY <1>1 DEF tableVars
<1>3. IdsKept'
  BY <1>0, <1>1, <1>2, QuietMoves, QuietKeepsIds DEF IInv, ReceivedFacts
<1>4. RangesKept'
  BY <1>2 DEF ReceivedFacts, RangesKept
<1>5. ASSUME host_up, clients # <<>>, NEW b \in Clients, b = clients[1].client,
             NEW i \in DOMAIN PropertyList[b]
      PROVE  Covered(b, i)'
  <2>1. CASE b = c
    <3>1. sending'[c] = 1
      BY <1>1 DEF IInv, ClientTypeOK
    <3>2. i \in Nat /\ 1 <= i
      BY <1>5, ListedProps
    <3>3. QED
      BY <2>1, <3>1, <3>2 DEF Covered
  <2>2. CASE b # c
    <3>1. toHost'[b] = toHost[b] /\ sending'[b] = sending[b]
      BY <1>1, <2>2 DEF IInv, LinkTypeOK, ClientTypeOK
    <3>2. Covered(b, i)
      BY <1>5 DEF ReceivedFacts, ListCovered
    <3>3. QED
      BY <1>2, <3>1, <3>2, CoveredStays DEF Listed
  <2>3. QED
    BY <2>1, <2>2
<1>6. ListCovered'
  BY <1>1, <1>2, <1>5, FirstClientOnly DEF ListCovered, ReceivedFacts
<1>7. QED
  BY <1>3, <1>4, <1>6 DEF ReceivedFacts

LEMMA DefSentKeepsReceived ==
  ASSUME IInv, ListFacts, ReceivedFacts, OneKind, NEW c \in Clients, ClientHandles(c), SendPropDef(c)
  PROVE  ReceivedFacts'
<1> DEFINE s == sending[c]
           n == Len(PropertyList[c])
           m == PropDef(PropertyList[c][s], RemainingAfter(s, n))
<1>1. /\ s # 0
      /\ toHost' = [toHost EXCEPT ![c] = @ \o << m >>]
      /\ sending' = [sending EXCEPT ![c] = IF s = n THEN 0 ELSE s + 1]
      /\ UNCHANGED <<host_up, tableVars>>
  BY DEF ClientHandles, SendPropDef, SendToHost, hostVars
<1>2. s \in 1 .. n /\ n \in Nat
  BY <1>1, ListedProps DEF IInv, ClientTypeOK
<1>3. m \in ClientMessages /\ IsDef(m) /\ ~IsRequest(m) /\ m.prop = PropertyList[c][s]
  <2>1. RemainingAfter(s, n) \in Nat
    BY <1>2 DEF RemainingAfter
  <2>2. m \in ClientMessages
    BY <1>2, <2>1, ListedProps, ClientMessageTypes
  <2>3. QED
    BY <2>2 DEF PropDef, IsDef, IsRequest
<1> HIDE DEF m
<1>4. UNCHANGED <<state, clients, property_count, property_def_start, defs_buffer>>
  BY <1>1 DEF tableVars
<1>5. /\ toHost'[c] = toHost[c] \o << m >>
      /\ sending'[c] = IF s = n THEN 0 ELSE s + 1
      /\ \A b \in Clients : b # c => toHost'[b] = toHost[b] /\ sending'[b] = sending[b]
  BY <1>1 DEF IInv, LinkTypeOK, ClientTypeOK
<1>6. PICK q \in Nat :
        /\ q \in DOMAIN toHost'[c] /\ toHost'[c][q] = m
        /\ \A k \in DOMAIN toHost[c] : k \in Nat /\ k < q
        /\ \A k \in DOMAIN toHost'[c] :
             k = q \/ (k \in DOMAIN toHost[c] /\ toHost'[c][k] = toHost[c][k])
        /\ \A k \in DOMAIN toHost[c] : k \in DOMAIN toHost'[c]
  BY <1>3, <1>5, PushedHost DEF IInv
<1>7. IdsKept'
  <2>1. \A k \in DOMAIN toHost'[c] :
          IsRequest(toHost'[c][k]) => toHost'[c][k].list_id = ListId[c]
    BY <1>3, <1>6 DEF ReceivedFacts, IdsKept
  <2>2. QED
    BY <1>4, <1>5, <2>1 DEF ReceivedFacts, IdsKept
<1>8. RangesKept'
  BY <1>4 DEF ReceivedFacts, RangesKept
<1>9. ASSUME host_up, clients # <<>>, NEW b \in Clients, b = clients[1].client,
             NEW i \in DOMAIN PropertyList[b]
      PROVE  Covered(b, i)'
  <2>0. Covered(b, i)
    BY <1>9 DEF ReceivedFacts, ListCovered
  <2>1. CASE b = c
    <3>1. i \in 1 .. n
      BY <1>9, <2>1, ListedProps, PropertyListAssumption
    <3>2. CASE \E k \in DOMAIN defs_buffer : defs_buffer[k].prop = PropertyList[c][i]
      BY <1>4, <2>1, <3>2 DEF Covered
    <3>3. CASE \E k \in DOMAIN toHost[c] :
                 IsDef(toHost[c][k]) /\ toHost[c][k].prop = PropertyList[c][i]
      <4>1. PICK k \in DOMAIN toHost[c] :
              IsDef(toHost[c][k]) /\ toHost[c][k].prop = PropertyList[c][i]
        BY <3>3
      <4>2. k \in DOMAIN toHost'[c] /\ toHost'[c][k] = toHost[c][k]
        BY <1>6
      <4>3. QED
        BY <2>1, <4>1, <4>2 DEF Covered
    <3>4. CASE s \in 1 .. i
      <4>1. CASE s = i
        BY <1>3, <1>6, <2>1, <4>1 DEF Covered
      <4>2. CASE s # i
        <5>1. sending'[c] = s + 1 /\ s + 1 \in 1 .. i
          BY <1>2, <1>5, <3>1, <3>4, <4>2
        <5>2. QED
          BY <2>1, <5>1 DEF Covered
      <4>3. QED
        BY <4>1, <4>2
    <3>5. QED
      BY <1>1, <2>0, <2>1, <3>2, <3>3, <3>4 DEF Covered
  <2>2. CASE b # c
    BY <1>4, <1>5, <2>0, <2>2, CoveredStays DEF Listed
  <2>3. QED
    BY <2>1, <2>2
<1>10. ListCovered'
  BY <1>1, <1>4, <1>9, FirstClientOnly DEF ListCovered, ReceivedFacts
<1>11. QED
  BY <1>7, <1>8, <1>10 DEF ReceivedFacts

LEMMA AcceptedKeepsReceived ==
  ASSUME IInv, ListFacts, ReceivedFacts, OneKind, NEW c \in Clients, HostHandles(c),
         ConnectAccepted(c)
  PROVE  ReceivedFacts'
<1> DEFINE id == Head(toHost[c]).list_id
           last == Len(clients) + 1
           same == { i \in DOMAIN clients : clients[i].list_id = id }
<1>1. /\ ~Registered(c) /\ ~InTransfer(c) /\ id \in Nat
      /\ SppConnectToClient(c, id) /\ RoomForClient(c)
      /\ 1 \in DOMAIN toHost[c] /\ toHost[c][1] = Head(toHost[c]) /\ IsRequest(toHost[c][1])
  BY RequestOfNew
<1>2. /\ last \in Connections
      /\ DOMAIN clients' = 1 .. last /\ DOMAIN clients = 1 .. last - 1
      /\ clients'[last] = [client |-> c, list_id |-> id]
      /\ \A i \in DOMAIN clients : clients'[i] = clients[i]
      /\ \/ /\ same = {} /\ state' = "CONNECTING"
            /\ UNCHANGED <<property_count, property_def_start>>
            /\ ReplyToClient(c, << ConnectResponse("OK") >>)
         \/ /\ same # {}
            /\ \E from \in same :
                 /\ property_count' = [property_count EXCEPT ![last] = property_count[from]]
                 /\ property_def_start' =
                      [property_def_start EXCEPT ![last] = property_def_start[from]]
            /\ ReplyToClient(c, << ConnectResponse("DUPLICATE_CLIENT") >>)
  BY <1>1, NewClient
<1>3. /\ UNCHANGED <<host_up, defs_buffer, sending>> /\ state = "READY" /\ host_up
      /\ toHost[c] # <<>> /\ toHost' = [toHost EXCEPT ![c] = Tail(@)]
  BY <1>2 DEF HostHandles, ConnectAccepted, Received, ReplyToClient, clientVars
<1>4. id = ListId[c]
  BY <1>1 DEF ReceivedFacts, IdsKept
<1>5. last \in Nat /\ DOMAIN clients \subseteq Connections
      /\ (\A i \in DOMAIN clients' : i = last \/ (i \in DOMAIN clients /\ i # last))
      /\ (\A i \in DOMAIN clients : i # last)
  <2>1. last \in Nat
    BY <1>2 DEF Connections
  <2>2. \A i \in 1 .. last : i = last \/ (i \in 1 .. last - 1 /\ i # last)
    BY <2>1
  <2>3. \A i \in 1 .. last - 1 : i # last
    BY <2>1
  <2>4. 1 .. last - 1 \subseteq Connections
    BY <1>2, ConnectionsAssumption DEF Connections
  <2>5. QED
    BY <1>2, <2>1, <2>2, <2>3, <2>4
<1>6. IdsKept'
  <2>1. \A b \in Clients : QuietHost(b)
    BY <1>3, QuietMoves DEF IInv
  <2>2. ASSUME NEW b \in Clients, NEW k \in DOMAIN toHost'[b], IsRequest(toHost'[b][k])
        PROVE  toHost'[b][k].list_id = ListId[b]
    BY <2>1, <2>2, FromOldLine DEF ReceivedFacts, IdsKept
  <2>3. ASSUME NEW i \in DOMAIN clients' PROVE clients'[i].list_id = ListId[clients'[i].client]
    <3>1. CASE i = last
      BY <1>2, <1>4, <3>1
    <3>2. CASE i \in DOMAIN clients
      BY <1>2, <3>2 DEF ReceivedFacts, IdsKept
    <3>3. QED
      BY <1>5, <3>1, <3>2
  <2>4. QED
    BY <2>2, <2>3 DEF IdsKept
<1>7. RangesKept'
  <2>1. property_def_start = NoCounts /\ property_count[1] = Len(defs_buffer)
    BY DEF ReceivedFacts, RangesKept
  <2>2. CASE same = {}
    BY <1>2, <1>3, <2>1, <2>2 DEF RangesKept
  <2>3. CASE same # {}
    <3>1. PICK from \in same :
            /\ property_count' = [property_count EXCEPT ![last] = property_count[from]]
            /\ property_def_start' = [property_def_start EXCEPT ![last] = property_def_start[from]]
      BY <1>2, <2>3
    <3>2. from \in DOMAIN clients /\ from \in Connections
      BY <1>5
    <3>3. property_def_start' = NoCounts
      BY <2>1, <3>1, <3>2 DEF NoCounts
    <3>4. last # 1 /\ 1 \in Connections
      BY <1>2, <1>5, <3>2, ConnectionsAssumption DEF Connections
    <3>5. property_count'[1] = property_count[1]
      BY <3>1, <3>4 DEF IInv, Table, TableTypeOK
    <3>6. QED
      BY <1>3, <2>1, <3>3, <3>5 DEF RangesKept
  <2>4. QED
    BY <2>2, <2>3
<1>8. ListCovered'
  <2>1. CASE clients = <<>>
    <3>1. last = 1 /\ same = {}
      BY <2>1
    <3>2. state' = "CONNECTING" /\ clients'[1].client = c
      BY <1>2, <3>1
    <3>3. sending[c] = 0 /\ ~Listed(c)
      BY <1>1 DEF InTransfer
    <3>4. ~Listed(c)'
      <4>1. QuietHost(c)
        BY <1>3, QuietMoves DEF IInv
      <4>2. QED
        BY <3>3, <4>1, FromOldLine DEF Listed
    <3>5. QED
      BY <1>3, <3>2, <3>3, <3>4 DEF ListCovered, Covered
  <2>2. CASE clients # <<>>
    <3> DEFINE b == clients[1].client
    <3>1. 1 \in DOMAIN clients /\ b \in Clients /\ clients'[1].client = b
      BY <1>2, <2>2, FirstClientOnly DEF ReceivedFacts
    <3>2. b # c
      BY <1>1, <3>1 DEF Registered
    <3> HIDE DEF b
    <3>3. toHost'[b] = toHost[b] /\ sending'[b] = sending[b]
      BY <1>3, <3>1, <3>2 DEF IInv, LinkTypeOK
    <3>4. \A i \in DOMAIN PropertyList[b] : Covered(b, i)
      BY <1>3, <2>2 DEF ReceivedFacts, ListCovered, b
    <3>5. clients'[1].client = b
      BY <3>1
    <3>6. ASSUME NEW d \in Clients, d = b, NEW i \in DOMAIN PropertyList[d] PROVE Covered(d, i)'
      <4>1. Covered(d, i) /\ toHost'[d] = toHost[d] /\ sending'[d] = sending[d]
        BY <3>3, <3>4, <3>6
      <4>2. QED
        BY <1>3, <4>1, CoveredStays DEF Listed
    <3>7. QED
      BY <3>1, <3>5, <3>6 DEF ListCovered
  <2>3. QED
    BY <2>1, <2>2
<1>9. QED
  BY <1>6, <1>7, <1>8 DEF ReceivedFacts

LEMMA DefReceivedKeepsReceived ==
  ASSUME IInv, ListFacts, ReceivedFacts, OneKind, NEW c \in Clients, HostHandles(c),
         PropDefReceived(c)
  PROVE  ReceivedFacts'
<1> DEFINE m == Head(toHost[c])
           e == [client |-> c, prop |-> m.prop]
<1>1. /\ Listed(c) /\ state = "CONNECTING" /\ LastClient.client = c
      /\ SppGetClientIdx(c) = Len(clients)
      /\ Len(clients) \in Connections /\ Len(clients) \in DOMAIN clients
  BY DefOfLast
<1>2. Len(clients) = 1 /\ clients[1].client = c /\ 1 \in DOMAIN clients
  <2>1. Len(clients) = 1
    BY <1>1, FirstClientOnly DEF ReceivedFacts
  <2>2. QED
    BY <1>1, <2>1 DEF LastClient
<1>3. /\ toHost[c] # <<>> /\ m.type = "PROP_DEF"
      /\ toHost' = [toHost EXCEPT ![c] = Tail(@)]
      /\ property_count' = [property_count EXCEPT ![1] = @ + 1]
      /\ defs_buffer' = Append(defs_buffer, e)
      /\ UNCHANGED <<clients, property_def_start, sending, host_up>>
  BY <1>1, <1>2 DEF HostHandles, PropDefReceived, Received, Discard, ReplyToClient, clientVars
<1>4. m.prop \in Props
  BY <1>3, HeadsTyped, ClientMessageFields DEF IInv
<1> DEFINE D == [client : Clients, prop : Props]
<1>5. defs_buffer \in Seq(D) /\ e \in D
  BY <1>4 DEF IInv, Table, TableTypeOK
<1>6. e.prop = m.prop
  OBVIOUS
<1> HIDE DEF D, e, m
<1>7. /\ Len(defs_buffer') = Len(defs_buffer) + 1
      /\ Len(defs_buffer') \in DOMAIN defs_buffer' /\ defs_buffer'[Len(defs_buffer')] = e
      /\ \A k \in DOMAIN defs_buffer : k \in DOMAIN defs_buffer' /\ defs_buffer'[k] = defs_buffer[k]
  BY <1>3, <1>5
<1>8. IdsKept'
  BY <1>3, QuietMoves, QuietKeepsIds DEF IInv, ReceivedFacts
<1>9. RangesKept'
  <2>1. property_count'[1] = property_count[1] + 1
    BY <1>1, <1>2, <1>3 DEF IInv, Table, TableTypeOK
  <2>2. QED
    BY <1>3, <1>7, <2>1 DEF ReceivedFacts, RangesKept
<1>10. ASSUME host_up, NEW i \in DOMAIN PropertyList[c] PROVE Covered(c, i)'
  <2>0. Covered(c, i)
    BY <1>2, <1>10 DEF ReceivedFacts, ListCovered
  <2>1. CASE \E k \in DOMAIN defs_buffer : defs_buffer[k].prop = PropertyList[c][i]
    BY <1>7, <2>1 DEF Covered
  <2>2. CASE \E k \in DOMAIN toHost[c] :
               IsDef(toHost[c][k]) /\ toHost[c][k].prop = PropertyList[c][i]
    <3>1. PICK k \in DOMAIN toHost[c] :
            IsDef(toHost[c][k]) /\ toHost[c][k].prop = PropertyList[c][i]
      BY <2>2
    <3>2. PICK CM : CM = ClientMessages /\ toHost \in [Clients -> Seq(CM)]
      BY DEF IInv, LinkTypeOK
    <3>3. toHost[c] \in Seq(CM) /\ toHost'[c] = Tail(toHost[c]) /\ Head(toHost[c]) = m
      BY <1>3, <3>2 DEF m
    <3>4. CASE k = 1
      <4>1. toHost[c][1] = m
        BY <1>3, <3>3, TailAt
      <4>2. defs_buffer'[Len(defs_buffer')].prop = PropertyList[c][i]
        BY <1>6, <1>7, <3>1, <3>4, <4>1
      <4>3. QED
        BY <1>7, <4>2 DEF Covered
    <3>5. CASE k # 1
      <4>1. k - 1 \in DOMAIN Tail(toHost[c]) /\ Tail(toHost[c])[k - 1] = toHost[c][k]
        BY <1>3, <3>3, <3>5
      <4>2. QED
        BY <3>1, <3>3, <4>1 DEF Covered
    <3>6. QED
      BY <3>4, <3>5
  <2>3. CASE sending[c] \in 1 .. i
    BY <1>3, <2>3 DEF Covered
  <2>4. QED
    BY <1>1, <2>0, <2>1, <2>2, <2>3 DEF Covered
<1>11. ListCovered'
  BY <1>2, <1>3, <1>10 DEF ListCovered
<1>12. QED
  BY <1>8, <1>9, <1>11 DEF ReceivedFacts

LEMMA InitReceived == Init => ReceivedInv
<1> SUFFICES ASSUME Init PROVE ReceivedFacts
  BY DEF ReceivedInv
<1>1. /\ clients = <<>> /\ defs_buffer = <<>> /\ ~host_up
      /\ property_count = NoCounts /\ property_def_start = NoCounts
      /\ \A c \in Clients : toHost[c] = <<>>
  BY DEF Init
<1>2. IdsKept /\ ListCovered
  BY <1>1 DEF IdsKept, ListCovered
<1>3. RangesKept
  BY <1>1, ConnectionsAssumption DEF RangesKept, NoCounts, Connections
<1>4. QED
  BY <1>2, <1>3 DEF ReceivedFacts

LEMMA NextKeepsReceived ==
  ASSUME IInv, IInv', ListInv, ReceivedInv, [Next]_vars,
         DefaultClient = NoClient, OneKind, ~Lossy
  PROVE  ReceivedInv'
<1> SUFFICES ASSUME NoClientRestarted' PROVE ReceivedFacts'
  BY DEF ReceivedInv
<1>1. ListFacts /\ ReceivedFacts
  BY NoOtherStarts DEF ListInv, ReceivedInv
<1>2. CASE Still
  BY <1>1, <1>2, StillKeepsReceived
<1>3. CASE PowerOnHost
  BY <1>1, <1>3, BootKeepsReceived
<1>4. ASSUME NEW c \in Clients, PowerOnClient(c) PROVE ReceivedFacts'
  BY <1>1, <1>4, FirstStartKeepsReceived
<1>5. ASSUME NEW c \in Clients, HostHandles(c), ConnectAccepted(c) \/ PropDefReceived(c)
      PROVE  ReceivedFacts'
  BY <1>1, <1>5, AcceptedKeepsReceived, DefReceivedKeepsReceived
<1>6. ASSUME NEW c \in Clients, ClientHandles(c), SendPropertyList(c) \/ SendPropDef(c)
      PROVE  ReceivedFacts'
  BY <1>1, <1>6, AnswerKeepsReceived, DefSentKeepsReceived
<1>7. ASSUME NEW c \in Clients, ClientBroadcasts(c) PROVE ReceivedFacts'
  BY <1>1, <1>7, BroadcastKeepsReceived
<1>8. QED
  BY <1>2, <1>3, <1>4, <1>5, <1>6, <1>7, StepCases

\* "not ready until all properties are received" (spp/src-host/spp.c:63) for any
\* number of clients of one kind and any number of starts of the server, on a
\* line that loses nothing between two programs that run, as long as no client
\* restarts.  Each hypothesis is needed: without it the property has a
\* counterexample.
THEOREM ReadyListsComplete ==
  ASSUME DefaultClient = NoClient, OneKind, ~Lossy
  PROVE  Spec => []ReadyMeansAllReceived
<1> DEFINE Inv == IInv /\ ListInv /\ ReceivedInv
<1>1. Init => Inv
  BY InitIInv, InitLists, InitReceived
<1>2. Inv /\ [Next]_vars => Inv'
  BY NextKeepsIInv, NextKeepsLists, NextKeepsReceived
<1>3. Inv => ReadyMeansAllReceived
  <2> SUFFICES ASSUME IInv, ListFacts, ReceivedFacts, host_up, state = "READY",
                      NEW c \in Clients, Registered(c), NEW i \in DOMAIN PropertyList[c]
               PROVE  SppHostGetDefinition(c, PropertyList[c][i])
    BY DEF ReadyMeansAllReceived, ListInv, ReceivedInv, Findable
  <2> DEFINE h == SppGetClientIdx(c)
             b == clients[1].client
  <2>1. h \in DOMAIN clients /\ h \in Connections
    BY IndexOfRegistered DEF IInv, Table
  <2>2. clients # <<>>
    BY <2>1
  <2>3. 1 \in DOMAIN clients /\ b \in Clients /\ property_count[h] = property_count[1]
    BY <2>1, <2>2, FirstClientOnly DEF ReceivedFacts
  <2>4. PropertyList[b] = PropertyList[c]
    BY <2>3 DEF OneKind
  <2>5. Covered(b, i)
    BY <2>2, <2>4 DEF ReceivedFacts, ListCovered
  <2>6. Registered(b)
    BY <2>3 DEF Registered
  <2>7. ~InTransfer(b)
    BY <2>3, <2>6 DEF ListFacts, EntryKept
  <2>8. sending[b] = 0 /\ \A k \in DOMAIN toHost[b] : ~IsDef(toHost[b][k])
    BY <2>7 DEF InTransfer, Listed
  <2>9. PICK k \in DOMAIN defs_buffer : defs_buffer[k].prop = PropertyList[c][i]
    BY <2>4, <2>5, <2>8 DEF Covered
  <2>10. k \in ClientRange(c)
    <3>1. property_def_start[h] = 0 /\ property_count[h] = Len(defs_buffer)
      BY <2>1, <2>3 DEF ReceivedFacts, RangesKept, NoCounts
    <3>2. k \in 1 .. Len(defs_buffer) /\ k = 0 + k
      BY <2>9 DEF IInv, Table, TableTypeOK
    <3>3. QED
      BY <3>1, <3>2 DEF ClientRange
  <2>11. QED
    BY <2>9, <2>10 DEF SppHostGetDefinition
<1>4. QED
  BY <1>1, <1>2, <1>3, PTL DEF Spec

-----------------------------------------------------------------------------
\* Streams.  Of a step most lines only lose their head or get longer by
\* messages of other types.

Follows(s, t, types) ==
  \E d \in {0, 1} : \A k \in DOMAIN t :
    (k + d \in DOMAIN s /\ t[k] = s[k + d]) \/ t[k].type \notin types

LEMMA FollowsMoves ==
  ASSUME NEW M, NEW s \in Seq(M), NEW types
  PROVE  /\ Follows(s, s, types)
         /\ Follows(s, s \o <<>>, types)
         /\ s # <<>> => Follows(s, Tail(s), types)
         /\ \A m \in M : m.type \notin types => Follows(s, s \o << m >>, types)
<1>1. Follows(s, s, types)
  <2>1. \A k \in DOMAIN s : k + 0 \in DOMAIN s /\ s[k] = s[k + 0]
    OBVIOUS
  <2>2. QED
    BY <2>1 DEF Follows
<1>2. s \o <<>> = s
  OBVIOUS
<1>3. s # <<>> => Follows(s, Tail(s), types)
  BY TailAt DEF Follows
<1>4. ASSUME NEW m \in M, m.type \notin types PROVE Follows(s, s \o << m >>, types)
  <2>1. \A k \in DOMAIN (s \o << m >>) :
          (k + 0 \in DOMAIN s /\ (s \o << m >>)[k] = s[k + 0]) \/ (s \o << m >>)[k] = m
    OBVIOUS
  <2>2. QED
    BY <1>4, <2>1 DEF Follows
<1>5. QED
  BY <1>1, <1>2, <1>3, <1>4

\* The same of all lines in one direction, one of which moves.
LEMMA LinesFollow ==
  ASSUME NEW M, NEW f \in [Clients -> Seq(M)], NEW g, NEW c \in Clients, NEW types,
         \/ g = f
         \/ g = [f EXCEPT ![c] = @ \o <<>>]
         \/ f[c] # <<>> /\ g = [f EXCEPT ![c] = Tail(@)]
         \/ \E m \in M : m.type \notin types /\ g = [f EXCEPT ![c] = @ \o << m >>]
         \/ \E m \in M : m.type \notin types /\ g = [f EXCEPT ![c] = Append(@, m)]
  PROVE  \A b \in Clients : Follows(f[b], g[b], types)
<1>1. ASSUME NEW b \in Clients PROVE f[b] \in Seq(M)
  OBVIOUS
<1>2. \A m \in M : Append(f[c], m) = f[c] \o << m >>
  BY <1>1, AppendAt
<1>3. \A b \in Clients : Follows(f[b], f[b], types)
  BY <1>1, FollowsMoves
<1>4. CASE g = f
  BY <1>3, <1>4
<1>5. CASE g = [f EXCEPT ![c] = @ \o <<>>]
  <2>1. Follows(f[c], f[c] \o <<>>, types)
    BY <1>1, FollowsMoves
  <2>2. QED
    BY <1>3, <1>5, <2>1
<1>6. CASE f[c] # <<>> /\ g = [f EXCEPT ![c] = Tail(@)]
  <2>1. Follows(f[c], Tail(f[c]), types)
    BY <1>1, <1>6, FollowsMoves
  <2>2. QED
    BY <1>3, <1>6, <2>1
<1>7. ASSUME NEW m \in M, m.type \notin types,
             \/ g = [f EXCEPT ![c] = @ \o << m >>]
             \/ g = [f EXCEPT ![c] = Append(@, m)]
      PROVE  \A b \in Clients : Follows(f[b], g[b], types)
  <2>1. Follows(f[c], f[c] \o << m >>, types)
    BY <1>1, <1>7, FollowsMoves
  <2>2. g = [f EXCEPT ![c] = f[c] \o << m >>]
    BY <1>2, <1>7
  <2>3. QED
    BY <1>3, <2>1, <2>2
<1>8. QED
  BY <1>4, <1>5, <1>6, <1>7

StreamTypes == {"STREAM_REQUEST", "STREAM"}

StreamQuiet ==
  \A c \in Clients :
    Follows(toHost[c], toHost'[c], StreamTypes) /\ Follows(toClient[c], toClient'[c], StreamTypes)

StreamStill ==
  /\ StreamQuiet
  /\ UNCHANGED <<client_streams, streamVars, fault, host_boots>>
  /\ host_up' => host_up

LEMMA StreamQuietMoves ==
  ASSUME LinkTypeOK, NEW c \in Clients,
         \/ UNCHANGED toHost
         \/ toHost' = [toHost EXCEPT ![c] = @ \o <<>>]
         \/ toHost[c] # <<>> /\ toHost' = [toHost EXCEPT ![c] = Tail(@)]
         \/ \E m \in ClientMessages :
              m.type \notin StreamTypes /\ toHost' = [toHost EXCEPT ![c] = @ \o << m >>],
         \/ UNCHANGED toClient
         \/ toClient' = [toClient EXCEPT ![c] = @ \o <<>>]
         \/ toClient[c] # <<>> /\ toClient' = [toClient EXCEPT ![c] = Tail(@)]
         \/ \E m \in HostMessages :
              m.type \notin StreamTypes /\ toClient' = [toClient EXCEPT ![c] = @ \o << m >>]
         \/ \E m \in HostMessages :
              m.type \notin StreamTypes /\ toClient' = [toClient EXCEPT ![c] = Append(@, m)]
  PROVE  StreamQuiet
<1>1. PICK CM, HM : /\ CM = ClientMessages /\ HM = HostMessages
                    /\ toHost \in [Clients -> Seq(CM)]
                    /\ toClient \in [Clients -> Seq(HM)]
  BY LinesAreSequences
<1>2. \A b \in Clients : Follows(toHost[b], toHost'[b], StreamTypes)
  BY <1>1, LinesFollow
<1>3. \A b \in Clients : Follows(toClient[b], toClient'[b], StreamTypes)
  BY <1>1, LinesFollow
<1>4. QED
  BY <1>2, <1>3 DEF StreamQuiet

LEMMA LinesStill == LinkTypeOK /\ UNCHANGED linkVars => StreamQuiet
<1> SUFFICES ASSUME LinkTypeOK, UNCHANGED linkVars PROVE StreamQuiet
  OBVIOUS
<1>1. PICK CM, HM : /\ CM = ClientMessages /\ HM = HostMessages
                    /\ toHost \in [Clients -> Seq(CM)]
                    /\ toClient \in [Clients -> Seq(HM)]
  BY LinesAreSequences
<1>2. UNCHANGED toHost /\ UNCHANGED toClient
  BY DEF linkVars
<1>3. \A b \in Clients : toHost[b] \in Seq(CM) /\ toClient[b] \in Seq(HM)
  BY <1>1
<1>4. QED
  BY <1>2, <1>3, FollowsMoves DEF StreamQuiet

LEMMA PlainMessages ==
  /\ \A n \in Nat : ConnectRequest(n) \in ClientMessages /\ ConnectRequest(n).type \notin StreamTypes
  /\ \A n \in Nat : PropListResponse(n) \in ClientMessages
       /\ PropListResponse(n).type \notin StreamTypes
  /\ \A p \in Props, n \in Nat : PropDef(p, n) \in ClientMessages
       /\ PropDef(p, n).type \notin StreamTypes
  /\ \A t \in Tokens, p \in Props : GetResponse(t, p) \in ClientMessages
       /\ GetResponse(t, p).type \notin StreamTypes
  /\ \A t \in Tokens : SetResponse(t) \in ClientMessages /\ SetResponse(t).type \notin StreamTypes
  /\ \A st \in {"OK", "BUSY", "DUPLICATE_CLIENT"} : ConnectResponse(st) \in HostMessages
       /\ ConnectResponse(st).type \notin StreamTypes
  /\ \A t \in Tokens, p \in AppProps : GetRequest(t, p) \in HostMessages
       /\ GetRequest(t, p).type \notin StreamTypes
  /\ \A t \in Tokens, p \in AppProps : SetRequest(t, p) \in HostMessages
       /\ SetRequest(t, p).type \notin StreamTypes
<1>1. /\ \A n : ConnectRequest(n).type \notin StreamTypes
      /\ \A n : PropListResponse(n).type \notin StreamTypes
      /\ \A p, n : PropDef(p, n).type \notin StreamTypes
      /\ \A t, p : GetResponse(t, p).type \notin StreamTypes
      /\ \A t : SetResponse(t).type \notin StreamTypes
      /\ \A st : ConnectResponse(st).type \notin StreamTypes
      /\ \A t, p : GetRequest(t, p).type \notin StreamTypes
      /\ \A t, p : SetRequest(t, p).type \notin StreamTypes
  BY DEF StreamTypes, ConnectRequest, PropListResponse, PropDef, GetResponse, SetResponse,
         ConnectResponse, GetRequest, SetRequest
<1>2. QED
  BY <1>1, ClientMessageTypes, HostMessageTypes

LEMMA HostHandlesStreamStill ==
  ASSUME IInv, NEW c \in Clients, HostHandles(c)
  PROVE  StreamStill
<1>0. LinkTypeOK /\ HostReceive(c) /\ UNCHANGED <<client_streams, host_boots>>
  BY DEF IInv, HostHandles, clientVars, bootVars
<1>1. UNCHANGED <<host_up, streamVars, fault>>
  BY <1>0 DEF HostReceive, ConnectBusy, ConnectAccepted, PropListReceived, PropDefReceived,
              ResponseReceived, StreamReceived
<1>2. ASSUME toHost[c] # <<>>, ReplyToClient(c, <<>>) PROVE StreamQuiet
  BY <1>0, <1>2, StreamQuietMoves DEF ReplyToClient
<1>3. ASSUME toHost[c] # <<>>, NEW st \in {"OK", "BUSY", "DUPLICATE_CLIENT"},
             ReplyToClient(c, << ConnectResponse(st) >>)
      PROVE  StreamQuiet
  BY <1>0, <1>3, PlainMessages, StreamQuietMoves DEF ReplyToClient
<1>4. ConnectBusy(c) => StreamQuiet
  BY <1>3 DEF ConnectBusy, Received
<1>5. ConnectAccepted(c) => StreamQuiet
  <2>1. ConnectAccepted(c) =>
          toHost[c] # <<>>
          /\ \/ ReplyToClient(c, << ConnectResponse("OK") >>)
             \/ ReplyToClient(c, << ConnectResponse("DUPLICATE_CLIENT") >>)
    BY DEF ConnectAccepted, Received, SppConnectToClient
  <2>2. QED
    BY <1>3, <2>1
<1>6. PropListReceived(c) \/ PropDefReceived(c) \/ ResponseReceived(c) \/ StreamReceived(c)
        => StreamQuiet
  BY <1>2 DEF PropListReceived, PropDefReceived, ResponseReceived, StreamReceived,
              Received, Discard
<1>7. StreamQuiet
  BY <1>0, <1>4, <1>5, <1>6 DEF HostReceive
<1>8. QED
  BY <1>0, <1>1, <1>7 DEF StreamStill

LEMMA ViewerAsksStreamCases ==
  ASSUME IInv, NEW c \in Clients, ViewerAsks(c)
  PROVE  StreamStill \/ \E p \in StreamProps : SppHostStartStream(c, p)
<1>0. LinkTypeOK /\ UNCHANGED <<client_streams, host_boots>>
  BY DEF IInv, ViewerAsks, clientVars, bootVars
<1>1. SppGetToken \in Tokens
  BY NextTokenIsToken DEF IInv, Window, TokenTypeOK
<1>2. ASSUME NEW p \in AppProps, SppHostGetValue(c, p) \/ SppHostSetValue(c, p)
      PROVE  StreamStill
  <2>1. \E m \in HostMessages : m.type \notin StreamTypes /\ IssueRequest(c, m)
    BY <1>1, <1>2, PlainMessages DEF SppHostGetValue, SppHostSetValue
  <2>2. PICK m \in HostMessages : m.type \notin StreamTypes /\ IssueRequest(c, m)
    BY <2>1
  <2>3. StreamQuiet
    BY <1>0, <2>2, StreamQuietMoves DEF IssueRequest
  <2>4. QED
    BY <1>0, <1>2, <2>2, <2>3
       DEF StreamStill, IssueRequest, SppHostGetValue, SppHostSetValue
<1>3. QED
  BY <1>2 DEF ViewerAsks

LEMMA ClientHandlesStreamCases ==
  ASSUME IInv, NEW c \in Clients, ClientHandles(c)
  PROVE  StreamStill \/ StreamRequested(c)
<1>0. /\ LinkTypeOK /\ UNCHANGED <<host_up, streamVars, host_boots>>
      /\ ClientReceive(c) \/ SendPropDef(c)
  BY DEF IInv, ClientHandles, hostVars, bootVars
<1> DEFINE m == Head(toClient[c])
<1>1. toClient[c] # <<>> => m \in HostMessages
  BY <1>0, HeadsTyped
<1> HIDE DEF m
<1>2. ASSUME toClient[c] # <<>>, ReplyToHost(c, <<>>), UNCHANGED <<client_streams, fault>>
      PROVE  StreamStill
  <2>1. /\ toHost' = [toHost EXCEPT ![c] = @ \o <<>>]
        /\ toClient[c] # <<>> /\ toClient' = [toClient EXCEPT ![c] = Tail(@)]
    BY <1>2 DEF ReplyToHost
  <2>2. LinkTypeOK
    BY <1>0
  <2>3. StreamQuiet
    BY <2>1, <2>2, StreamQuietMoves
  <2>4. QED
    BY <1>0, <1>2, <2>3 DEF StreamStill
<1>3. ASSUME NEW r \in ClientMessages, r.type \notin StreamTypes, toClient[c] # <<>>,
             ReplyToHost(c, << r >>), UNCHANGED <<client_streams, fault>>
      PROVE  StreamStill
  <2>1. /\ toHost' = [toHost EXCEPT ![c] = @ \o << r >>]
        /\ toClient[c] # <<>> /\ toClient' = [toClient EXCEPT ![c] = Tail(@)]
    BY <1>3 DEF ReplyToHost
  <2>2. LinkTypeOK
    BY <1>0
  <2>3. StreamQuiet
    BY <1>3, <2>1, <2>2, StreamQuietMoves
  <2>4. QED
    BY <1>0, <1>3, <2>3 DEF StreamStill
<1>4. CASE ConnectRefused(c)
  BY <1>2, <1>4 DEF ConnectRefused, Addressed
<1>5. CASE SendPropertyList(c)
  <2>1. Len(PropertyList[c]) \in Nat
    BY ListedProps
  <2>2. /\ ReplyToHost(c, << PropListResponse(Len(PropertyList[c])) >>)
        /\ UNCHANGED <<client_streams, fault>> /\ toClient[c] # <<>>
    BY <1>5 DEF SendPropertyList, Addressed
  <2>3. QED
    BY <1>3, <2>1, <2>2, PlainMessages
<1>6. CASE GetReceived(c)
  <2>1. m.token \in Tokens /\ m.prop \in Props
    BY <1>1, <1>6, HostMessageFields, ListedProps DEF GetReceived, Addressed, m
  <2>2. /\ ReplyToHost(c, << GetResponse(m.token, m.prop) >>)
        /\ UNCHANGED <<client_streams, fault>> /\ toClient[c] # <<>>
    BY <1>6 DEF GetReceived, clientVars, Addressed, m
  <2>3. QED
    BY <1>3, <2>1, <2>2, PlainMessages
<1>7. CASE SetReceived(c)
  <2>1. m.token \in Tokens
    BY <1>1, <1>7, HostMessageFields DEF SetReceived, Addressed, m
  <2>2. /\ ReplyToHost(c, << SetResponse(m.token) >>)
        /\ UNCHANGED <<client_streams, fault>> /\ toClient[c] # <<>>
    BY <1>7 DEF SetReceived, SetAnswer, clientVars, Addressed, m
  <2>3. QED
    BY <1>3, <2>1, <2>2, PlainMessages
<1>8. CASE SendPropDef(c)
  <2> DEFINE i == sending[c]
             n == Len(PropertyList[c])
             r == PropDef(PropertyList[c][i], RemainingAfter(i, n))
  <2>1. i \in 1 .. n /\ n \in Nat
    BY <1>8, ListedProps DEF SendPropDef, IInv, ClientTypeOK
  <2>2. RemainingAfter(i, n) \in Nat
    BY <2>1 DEF RemainingAfter
  <2>3. r \in ClientMessages /\ r.type \notin StreamTypes
    BY <2>1, <2>2, ListedProps, PlainMessages
  <2>4. toHost' = [toHost EXCEPT ![c] = @ \o << r >>]
        /\ UNCHANGED <<toClient, client_streams, fault>>
    BY <1>8 DEF SendPropDef, SendToHost
  <2> HIDE DEF r
  <2>5. QED
    BY <1>0, <2>3, <2>4, StreamQuietMoves DEF StreamStill
<1>9. QED
  BY <1>0, <1>4, <1>5, <1>6, <1>7, <1>8 DEF ClientReceive

LEMMA StreamStepCases ==
  ASSUME IInv, [Next]_vars
  PROVE  \/ StreamStill
         \/ PowerOnHost
         \/ \E c \in Clients :
              \/ PowerOnClient(c)
              \/ ViewerAsks(c) /\ \E p \in StreamProps : SppHostStartStream(c, p)
              \/ ClientHandles(c) /\ StreamRequested(c)
              \/ ClientStreams(c)
              \/ Overrun(c)
<1>0. LinkTypeOK
  BY DEF IInv
<1>1. UNCHANGED linkVars => StreamQuiet
  BY <1>0, LinesStill
<1>2. CASE UNCHANGED vars
  BY <1>1, <1>2 DEF vars, StreamStill, hostVars, clientVars, bootVars
<1>3. CASE PowerOffHost
  BY <1>1, <1>3 DEF PowerOffHost, HostCrash, StreamStill, clientVars, bootVars
<1>4. ASSUME NEW c \in Clients, PowerOffClient(c) PROVE StreamStill
  BY <1>1, <1>4 DEF PowerOffClient, ClientCrash, StreamStill, hostVars, bootVars
<1>5. ASSUME NEW c \in Clients, ClientBroadcasts(c) PROVE StreamStill
  <2>1. /\ toHost' = [toHost EXCEPT ![c] = @ \o << ConnectRequest(ListId[c]) >>]
        /\ UNCHANGED <<toClient, client_streams, fault, host_up, streamVars, host_boots>>
    BY <1>5 DEF ClientBroadcasts, SppClientStart, SendToHost, hostVars, bootVars
  <2>2. ConnectRequest(ListId[c]) \in ClientMessages /\ ConnectRequest(ListId[c]).type \notin StreamTypes
    BY PlainMessages, ListIdAssumption
  <2>3. QED
    BY <1>0, <2>1, <2>2, StreamQuietMoves DEF StreamStill
<1>6. ASSUME NEW c \in Clients, Lose(c) PROVE StreamStill
  <2>1. StreamQuiet
    BY <1>0, <1>6, StreamQuietMoves DEF Lose, LoseToHost, LoseToClient
  <2>2. QED
    BY <1>6, <2>1 DEF Lose, StreamStill, hostVars, clientVars, bootVars
<1>7. QED
  BY <1>2, <1>3, <1>4, <1>5, <1>6, HostHandlesStreamStill, ViewerAsksStreamCases,
     ClientHandlesStreamCases DEF Next, HostHandles, ClientHandles

\* What was booked stays booked.
BookedNext(s) == s \in DOMAIN streams' /\ s < stream_count'
BooksGrow == \A s : Booked(s) => BookedNext(s) /\ streams'[s] = streams[s]

LEMMA EntriesFollow ==
  ASSUME NEW c \in Clients, BooksGrow, client_streams'[c] = client_streams[c], EntriesBooked(c)
  PROVE  EntriesBooked(c)'
BY DEF EntriesBooked, BooksGrow, BookedNext, Booked

LEMMA ValuesFollow ==
  ASSUME NEW c \in Clients, BooksGrow, Follows(toHost[c], toHost'[c], StreamTypes), ValuesBooked(c)
  PROVE  ValuesBooked(c)'
<1>1. PICK d \in {0, 1} : \A k \in DOMAIN toHost'[c] :
        (k + d \in DOMAIN toHost[c] /\ toHost'[c][k] = toHost[c][k + d])
          \/ toHost'[c][k].type \notin StreamTypes
  BY DEF Follows
<1>2. ASSUME NEW k \in DOMAIN toHost'[c], toHost'[c][k].type = "STREAM"
      PROVE  /\ BookedNext(toHost'[c][k].stream_id)
             /\ streams'[toHost'[c][k].stream_id] = toHost'[c][k].prop
  <2>1. k + d \in DOMAIN toHost[c] /\ toHost'[c][k] = toHost[c][k + d]
    BY <1>1, <1>2 DEF StreamTypes
  <2>2. Booked(toHost'[c][k].stream_id) /\ streams[toHost'[c][k].stream_id] = toHost'[c][k].prop
    BY <1>2, <2>1 DEF ValuesBooked
  <2>3. QED
    BY <2>2 DEF BooksGrow
<1>3. QED
  BY <1>2 DEF ValuesBooked, BookedNext, Booked

LEMMA RequestsFollow ==
  ASSUME NEW c \in Clients, LinkTypeOK', BooksGrow,
         Follows(toClient[c], toClient'[c], StreamTypes),
         client_streams'[c] = client_streams[c], RequestsBooked(c)
  PROVE  RequestsBooked(c)'
<1>1. PICK d \in {0, 1} : \A k \in DOMAIN toClient'[c] :
        (k + d \in DOMAIN toClient[c] /\ toClient'[c][k] = toClient[c][k + d])
          \/ toClient'[c][k].type \notin StreamTypes
  BY DEF Follows
<1>2. DOMAIN toClient'[c] \subseteq Nat
  BY DEF LinkTypeOK
<1>3. ASSUME NEW k \in DOMAIN toClient'[c], IsStreamRequest(toClient'[c][k])
      PROVE  k + d \in DOMAIN toClient[c] /\ toClient'[c][k] = toClient[c][k + d]
  BY <1>1, <1>3 DEF StreamTypes, IsStreamRequest
<1>4. ASSUME NEW k \in DOMAIN toClient'[c], IsStreamRequest(toClient'[c][k])
      PROVE  /\ BookedNext(toClient'[c][k].stream_id)
             /\ streams'[toClient'[c][k].stream_id] = toClient'[c][k].prop
             /\ Len(client_streams'[c]) <= toClient'[c][k].stream_id
             /\ \A l \in DOMAIN toClient'[c] :
                  k < l /\ IsStreamRequest(toClient'[c][l]) =>
                    toClient'[c][k].stream_id < toClient'[c][l].stream_id
  <2>1. k + d \in DOMAIN toClient[c] /\ toClient'[c][k] = toClient[c][k + d]
    BY <1>3, <1>4
  <2>2. /\ Booked(toClient'[c][k].stream_id)
        /\ streams[toClient'[c][k].stream_id] = toClient'[c][k].prop
        /\ Len(client_streams[c]) <= toClient'[c][k].stream_id
    BY <1>4, <2>1 DEF RequestsBooked
  <2>3. ASSUME NEW l \in DOMAIN toClient'[c], k < l, IsStreamRequest(toClient'[c][l])
        PROVE  toClient'[c][k].stream_id < toClient'[c][l].stream_id
    <3>1. l + d \in DOMAIN toClient[c] /\ toClient'[c][l] = toClient[c][l + d]
      BY <1>3, <2>3
    <3>2. k + d < l + d
      BY <1>2, <2>3
    <3>3. QED
      BY <1>4, <2>1, <2>3, <3>1, <3>2 DEF RequestsBooked
  <2>4. QED
    BY <2>2, <2>3 DEF BooksGrow
<1>5. QED
  BY <1>4 DEF RequestsBooked, BookedNext, Booked

LEMMA StreamsFollow ==
  ASSUME NEW c \in Clients, StreamTypeOK, StreamTypeOK', ClientTypeOK, LinkTypeOK',
         BooksGrow, stream_count <= stream_count',
         Follows(toHost[c], toHost'[c], StreamTypes),
         Follows(toClient[c], toClient'[c], StreamTypes),
         client_streams'[c] = client_streams[c], StreamsKept(c)
  PROVE  StreamsKept(c)'
<1>1. Len(client_streams'[c]) <= stream_count'
  <2>1. Len(client_streams[c]) \in Nat /\ stream_count \in Nat /\ stream_count' \in Nat
    BY DEF StreamTypeOK, ClientTypeOK, StreamIds
  <2>2. QED
    BY <2>1 DEF StreamsKept
<1>2. QED
  BY <1>1, EntriesFollow, ValuesFollow, RequestsFollow DEF StreamsKept

LEMMA DefsFollow ==
  ASSUME DefsKept, StreamQuiet, client_streams' = client_streams, fault' # "stream_definition"
  PROVE  DefsKept'
<1>1. ASSUME NEW c \in Clients, NEW k \in DOMAIN toClient'[c], IsStreamRequest(toClient'[c][k])
      PROVE  SppGetDefinition(c, toClient'[c][k].prop)
  <2>1. PICK d \in {0, 1} : \A l \in DOMAIN toClient'[c] :
          (l + d \in DOMAIN toClient[c] /\ toClient'[c][l] = toClient[c][l + d])
            \/ toClient'[c][l].type \notin StreamTypes
    BY DEF StreamQuiet, Follows
  <2>2. k + d \in DOMAIN toClient[c] /\ toClient'[c][k] = toClient[c][k + d]
    BY <1>1, <2>1 DEF IsStreamRequest, StreamTypes
  <2>3. QED
    BY <1>1, <2>2 DEF DefsKept
<1>2. QED
  BY <1>1 DEF DefsKept, SppGetDefinition

LEMMA StreamStillKeeps ==
  ASSUME IInv, IInv', StreamStill
  PROVE  /\ StreamFacts => StreamFacts'
         /\ DefsKept => DefsKept'
<1>1. ASSUME NEW c \in Clients, StreamsKept(c) PROVE StreamsKept(c)'
  <2>1. BooksGrow
    BY DEF BooksGrow, BookedNext, Booked, StreamStill, streamVars
  <2>2. stream_count <= stream_count' /\ client_streams'[c] = client_streams[c]
    BY DEF StreamStill, streamVars, IInv, StreamTypeOK, StreamIds
  <2>3. QED
    BY <1>1, <2>1, <2>2, StreamsFollow DEF IInv, StreamStill, StreamQuiet
<1>2. ASSUME StreamFacts PROVE StreamFacts'
  BY <1>1, <1>2 DEF StreamFacts, StreamStill, streamVars
<1>3. ASSUME DefsKept PROVE DefsKept'
  BY <1>3, DefsFollow DEF StreamStill, DefsKept
<1>4. QED
  BY <1>2, <1>3

LEMMA PowerOnHostQuiet ==
  ASSUME IInv, PowerOnHost
  PROVE  StreamQuiet
<1>0. HostBoot /\ LinkTypeOK
  BY DEF PowerOnHost, IInv
<1>1. UNCHANGED toHost
  BY <1>0 DEF HostBoot
<1>2. CASE UNCHANGED toClient
  BY <1>0, <1>1, <1>2, LinesStill DEF linkVars
<1>3. CASE DefaultClient \in Clients
           /\ toClient' = [toClient EXCEPT ![DefaultClient] = Append(@, ConnectResponse("OK"))]
  <2> DEFINE m == ConnectResponse("OK")
  <2>1. m \in HostMessages /\ m.type \notin StreamTypes
    BY PlainMessages
  <2> HIDE DEF m
  <2>2. \E x \in HostMessages :
          x.type \notin StreamTypes
            /\ toClient' = [toClient EXCEPT ![DefaultClient] = Append(@, x)]
    BY <1>3, <2>1 DEF m
  <2>3. QED
    BY <1>0, <1>1, <1>3, <2>2, StreamQuietMoves
<1>4. QED
  BY <1>0, <1>2, <1>3, DefaultClientAssumption DEF HostBoot, ClientsAtBoot

\* The first start of the server finds no stream booked.
LEMMA PowerOnHostStreams ==
  ASSUME IInv, IInv', StreamFacts, PowerOnHost, host_boots = 0
  PROVE  StreamFacts'
<1>1. /\ HostBoot /\ UNCHANGED clientVars /\ host_boots' = host_boots + 1
      /\ LinkTypeOK /\ stream_count = 0
  BY DEF PowerOnHost, IInv, StreamFacts
<1>2. \A s : ~Booked(s)
  BY <1>1 DEF Booked, IInv, StreamTypeOK
<1>3. BooksGrow
  BY <1>2 DEF BooksGrow
<1>4. StreamQuiet
  BY PowerOnHostQuiet
<1>5. stream_count <= stream_count' /\ client_streams' = client_streams /\ fault' = fault
  BY <1>1 DEF HostBoot, clientVars, IInv, StreamTypeOK, StreamIds
<1>6. \A c \in Clients : StreamsKept(c)'
  BY <1>3, <1>4, <1>5, StreamsFollow DEF StreamFacts, IInv, StreamQuiet
<1>7. host_boots' # 0
  BY <1>1
<1>8. QED
  BY <1>5, <1>6, <1>7 DEF StreamFacts

\* A vehicle that starts again has forgotten its streams.
LEMMA PowerOnClientStreams ==
  ASSUME IInv, IInv', NEW c \in Clients, StreamFacts, PowerOnClient(c)
  PROVE  StreamFacts'
<1>1. /\ client_streams' = [client_streams EXCEPT ![c] = <<>>]
      /\ UNCHANGED <<toHost, toClient, stream_count, streams, host_up, host_boots, fault>>
  BY DEF PowerOnClient, ClientBoot, hostVars, streamVars, linkVars
<1>2. BooksGrow /\ stream_count <= stream_count'
  BY <1>1 DEF BooksGrow, BookedNext, Booked, IInv, StreamTypeOK, StreamIds
<1>3. StreamQuiet
  BY <1>1, LinesStill DEF IInv, linkVars
<1>4. ASSUME NEW b \in Clients, b # c PROVE StreamsKept(b)'
  <2>1. client_streams'[b] = client_streams[b]
    BY <1>1, <1>4 DEF IInv, ClientTypeOK
  <2>2. QED
    BY <1>2, <1>3, <2>1, StreamsFollow DEF StreamFacts, IInv, StreamQuiet
<1>5. StreamsKept(c)'
  <2>1. client_streams'[c] = <<>>
    BY <1>1 DEF IInv, ClientTypeOK
  <2>2. Len(client_streams'[c]) <= stream_count'
    BY <1>1, <2>1 DEF IInv, StreamTypeOK, StreamIds
  <2>3. EntriesBooked(c)'
    BY <2>1 DEF EntriesBooked
  <2>4. RequestsBooked(c)'
    <3>1. \A s : Booked(s) => 0 <= s
      BY DEF Booked, IInv, StreamTypeOK
    <3>2. Len(client_streams'[c]) = 0
      BY <2>1
    <3>3. QED
      BY <1>1, <3>1, <3>2 DEF RequestsBooked, Booked, StreamFacts, StreamsKept
  <2>5. ValuesBooked(c)'
    BY <1>2, <1>3, ValuesFollow DEF StreamFacts, StreamsKept, StreamQuiet
  <2>6. QED
    BY <2>2, <2>3, <2>4, <2>5 DEF StreamsKept
<1>6. QED
  BY <1>1, <1>4, <1>5 DEF StreamFacts

\* The server starts a stream: the request goes behind those with smaller ids.
LEMMA StartStreamStreams ==
  ASSUME IInv, IInv', NEW c \in Clients, NEW p \in StreamProps, StreamFacts,
         SppHostStartStream(c, p), UNCHANGED <<clientVars, bootVars>>
  PROVE  StreamFacts'
<1> DEFINE m == StreamRequest(SppGetToken, stream_count, p)
<1>1. /\ stream_count \in DOMAIN streams
      /\ streams' = [streams EXCEPT ![stream_count] = p]
      /\ stream_count' = (stream_count + 1) % 256
      /\ toClient' = [toClient EXCEPT ![c] = Append(@, m)]
      /\ UNCHANGED <<toHost, host_up, host_boots, fault, client_streams>>
      /\ host_up
  BY DEF SppHostStartStream, IssueRequest, NextStream, StreamIdSent, MayRequest, clientVars,
         bootVars
<1>2. m.type = "STREAM_REQUEST" /\ m.stream_id = stream_count /\ m.prop = p
  BY DEF StreamRequest
<1>3. m \in HostMessages
  <2>1. SppGetToken \in Tokens
    BY NextTokenIsToken DEF IInv, Window, TokenTypeOK
  <2>2. stream_count \in StreamIds
    BY DEF IInv, StreamTypeOK
  <2>3. QED
    BY <2>1, <2>2, HostMessageTypes
<1> HIDE DEF m
<1>4. stream_count \in 0 .. 254 /\ stream_count' = stream_count + 1
  <2>1. stream_count \in 0 .. SPP_STREAM_MAX_COUNT - 1
    BY <1>1 DEF IInv, StreamTypeOK
  <2>2. stream_count \in 0 .. 254
    BY <2>1, StreamsAssumption
  <2>3. (stream_count + 1) % 256 = stream_count + 1
    BY <2>2
  <2>4. QED
    BY <1>1, <2>2, <2>3
<1>5. DOMAIN streams = 0 .. SPP_STREAM_MAX_COUNT - 1 /\ DOMAIN streams' = DOMAIN streams
  BY <1>1 DEF IInv, StreamTypeOK
<1>6. BooksGrow
  <2>1. ASSUME NEW s, Booked(s) PROVE BookedNext(s) /\ streams'[s] = streams[s]
    <3>1. s \in 0 .. SPP_STREAM_MAX_COUNT - 1 /\ s < stream_count
      BY <1>5, <2>1 DEF Booked
    <3>2. s # stream_count /\ s < stream_count'
      BY <1>4, <3>1
    <3>3. QED
      BY <1>1, <1>5, <3>1, <3>2 DEF BookedNext
  <2>2. QED
    BY <2>1 DEF BooksGrow
<1>7. BookedNext(stream_count) /\ streams'[stream_count] = p
  BY <1>1, <1>4, <1>5 DEF BookedNext
<1>8. PICK CM, HM : /\ CM = ClientMessages /\ HM = HostMessages
                    /\ toHost \in [Clients -> Seq(CM)]
                    /\ toClient \in [Clients -> Seq(HM)]
  BY LinesAreSequences DEF IInv
<1>9. \A b \in Clients : Follows(toHost[b], toHost'[b], StreamTypes)
  BY <1>1, <1>8, FollowsMoves
<1>10. \A b \in Clients : EntriesBooked(b)' /\ ValuesBooked(b)'
  BY <1>1, <1>6, <1>9, EntriesFollow, ValuesFollow DEF StreamFacts, StreamsKept
<1>11. ASSUME NEW b \in Clients PROVE Len(client_streams'[b]) <= stream_count'
  <2>1. Len(client_streams[b]) \in Nat
    BY DEF IInv, ClientTypeOK
  <2>2. Len(client_streams[b]) <= stream_count
    BY DEF StreamFacts, StreamsKept
  <2>3. client_streams'[b] = client_streams[b]
    BY <1>1
  <2>4. Len(client_streams'[b]) \in Nat /\ Len(client_streams'[b]) <= stream_count
    BY <2>1, <2>2, <2>3
  <2>5. QED
    BY <1>4, <2>4
<1>12. ASSUME NEW b \in Clients, b # c PROVE RequestsBooked(b)'
  <2>1. toClient'[b] = toClient[b] /\ client_streams'[b] = client_streams[b]
    BY <1>1, <1>8, <1>12
  <2>2. Follows(toClient[b], toClient'[b], StreamTypes)
    BY <1>8, <2>1, FollowsMoves
  <2>3. QED
    BY <1>6, <2>1, <2>2, RequestsFollow DEF StreamFacts, StreamsKept, IInv
<1>13. RequestsBooked(c)'
  <2>1. /\ toClient[c] \in Seq(HM) /\ m \in HM
        /\ toClient'[c] = Append(toClient[c], m)
    BY <1>1, <1>3, <1>8
  <2>2. \A k \in DOMAIN toClient'[c] :
          \/ k \in DOMAIN toClient[c] /\ toClient'[c][k] = toClient[c][k]
          \/ k = Len(toClient[c]) + 1 /\ toClient'[c][k] = m
    BY <2>1
  <2>3. DOMAIN toClient[c] = 1 .. Len(toClient[c]) /\ Len(toClient[c]) \in Nat
        /\ DOMAIN toClient'[c] = 1 .. Len(toClient[c]) + 1
    BY <2>1
  <2>4. ASSUME NEW k \in DOMAIN toClient[c], IsStreamRequest(toClient[c][k])
        PROVE  toClient[c][k].stream_id < stream_count
    BY <2>4 DEF StreamFacts, StreamsKept, RequestsBooked, Booked
  <2>5. ASSUME NEW k \in DOMAIN toClient'[c], IsStreamRequest(toClient'[c][k])
        PROVE  /\ BookedNext(toClient'[c][k].stream_id)
               /\ streams'[toClient'[c][k].stream_id] = toClient'[c][k].prop
               /\ Len(client_streams'[c]) <= toClient'[c][k].stream_id
    <3>1. CASE k \in DOMAIN toClient[c] /\ toClient'[c][k] = toClient[c][k]
      BY <1>1, <1>6, <2>5, <3>1 DEF StreamFacts, StreamsKept, RequestsBooked, BooksGrow
    <3>2. CASE toClient'[c][k] = m
      <4>1. Len(client_streams[c]) <= stream_count
        BY DEF StreamFacts, StreamsKept
      <4>2. QED
        BY <1>1, <1>2, <1>7, <3>2, <4>1
    <3>3. QED
      BY <2>2, <3>1, <3>2
  <2>6. ASSUME NEW k \in DOMAIN toClient'[c], IsStreamRequest(toClient'[c][k]),
               NEW l \in DOMAIN toClient'[c], IsStreamRequest(toClient'[c][l]), k < l
        PROVE  toClient'[c][k].stream_id < toClient'[c][l].stream_id
    <3>1. k \in DOMAIN toClient[c] /\ toClient'[c][k] = toClient[c][k]
      BY <2>2, <2>3, <2>6
    <3>2. CASE l \in DOMAIN toClient[c] /\ toClient'[c][l] = toClient[c][l]
      BY <2>6, <3>1, <3>2 DEF StreamFacts, StreamsKept, RequestsBooked
    <3>3. CASE toClient'[c][l] = m
      BY <1>2, <2>4, <2>6, <3>1, <3>3
    <3>4. QED
      BY <2>2, <3>2, <3>3
  <2>7. QED
    BY <2>5, <2>6 DEF RequestsBooked, BookedNext, Booked
<1>14. host_boots' # 0
  BY <1>1 DEF StreamFacts
<1>15. QED
  BY <1>1, <1>10, <1>11, <1>12, <1>13, <1>14 DEF StreamFacts, StreamsKept

\* The vehicle takes a request from the line: the requests behind it have
\* greater ids, so that its longer table still has room for them.
LEMMA StreamRequestedStreams ==
  ASSUME IInv, IInv', NEW c \in Clients, StreamFacts, StreamRequested(c),
         UNCHANGED <<hostVars, bootVars>>
  PROVE  StreamFacts'
<1>1. PICK CM, HM : /\ CM = ClientMessages /\ HM = HostMessages
                    /\ toHost \in [Clients -> Seq(CM)]
                    /\ toClient \in [Clients -> Seq(HM)]
  BY LinesAreSequences DEF IInv
<1> DEFINE m == Head(toClient[c])
           e == [stream_id |-> m.stream_id, def |-> IF SppGetDefinition(c, m.prop) THEN m.prop ELSE NoDef]
<1>2. /\ toClient[c] # <<>> /\ m.type = "STREAM_REQUEST"
      /\ client_streams' = [client_streams EXCEPT ![c] = Append(@, e)]
      /\ toHost' = [toHost EXCEPT ![c] = @ \o <<>>]
      /\ toClient' = [toClient EXCEPT ![c] = Tail(@)]
      /\ UNCHANGED <<stream_count, streams, host_up, host_boots, fault>>
  BY DEF StreamRequested, Addressed, ReplyToHost, hostVars, streamVars, bootVars
<1>3. 1 \in DOMAIN toClient[c] /\ m = toClient[c][1]
  BY <1>1, <1>2, TailAt
<1>4. e.stream_id = m.stream_id /\ e.def \in {m.prop, NoDef}
  OBVIOUS
<1> HIDE DEF m, e
<1>5. /\ Booked(m.stream_id) /\ streams[m.stream_id] = m.prop
      /\ Len(client_streams[c]) <= m.stream_id
      /\ \A l \in DOMAIN toClient[c] :
           1 < l /\ IsStreamRequest(toClient[c][l]) => m.stream_id < toClient[c][l].stream_id
  BY <1>2, <1>3 DEF StreamFacts, StreamsKept, RequestsBooked, IsStreamRequest
<1>6. m.stream_id \in Nat /\ stream_count \in Nat
  <2>1. m.stream_id \in 0 .. SPP_STREAM_MAX_COUNT - 1
    BY <1>5 DEF Booked, IInv, StreamTypeOK
  <2>2. QED
    BY <2>1 DEF IInv, StreamTypeOK, StreamIds
<1>7. /\ client_streams'[c] = Append(client_streams[c], e)
      /\ Len(client_streams[c]) \in Nat
      /\ Len(client_streams'[c]) = Len(client_streams[c]) + 1
      /\ \A i \in DOMAIN client_streams'[c] :
           \/ i \in DOMAIN client_streams[c] /\ client_streams'[c][i] = client_streams[c][i]
           \/ client_streams'[c][i] = e
  BY <1>2 DEF IInv, ClientTypeOK
<1>8. BooksGrow /\ stream_count <= stream_count'
  BY <1>2, <1>6 DEF BooksGrow, BookedNext, Booked
<1>9. StreamQuiet
  BY <1>2, StreamQuietMoves DEF IInv
<1>10. ASSUME NEW b \in Clients, b # c PROVE StreamsKept(b)'
  <2>1. client_streams'[b] = client_streams[b]
    BY <1>2, <1>10 DEF IInv, ClientTypeOK
  <2>2. QED
    BY <1>8, <1>9, <2>1, StreamsFollow DEF StreamFacts, IInv, StreamQuiet
<1>11. StreamsKept(c)'
  <2>1. Len(client_streams'[c]) <= stream_count'
    <3>1. m.stream_id < stream_count
      BY <1>5 DEF Booked
    <3>2. QED
      BY <1>2, <1>5, <1>6, <1>7, <3>1
  <2>2. EntriesBooked(c)'
    <3>1. ASSUME NEW i \in DOMAIN client_streams'[c]
          PROVE  /\ BookedNext(client_streams'[c][i].stream_id)
                 /\ client_streams'[c][i].def \in {streams'[client_streams'[c][i].stream_id], NoDef}
      <4>1. CASE i \in DOMAIN client_streams[c] /\ client_streams'[c][i] = client_streams[c][i]
        BY <1>2, <4>1 DEF StreamFacts, StreamsKept, EntriesBooked, Booked, BookedNext
      <4>2. CASE client_streams'[c][i] = e
        BY <1>2, <1>4, <1>5, <4>2 DEF Booked, BookedNext
      <4>3. QED
        BY <1>7, <4>1, <4>2
    <3>2. QED
      BY <3>1 DEF EntriesBooked, Booked, BookedNext
  <2>3. ValuesBooked(c)'
    BY <1>8, <1>9, ValuesFollow DEF StreamFacts, StreamsKept, StreamQuiet
  <2>4. RequestsBooked(c)'
    <3>1. /\ toClient'[c] = Tail(toClient[c])
          /\ DOMAIN toClient'[c] \subseteq Nat \ {0}
          /\ \A k \in DOMAIN toClient'[c] :
               k + 1 \in DOMAIN toClient[c] /\ toClient'[c][k] = toClient[c][k + 1]
      BY <1>1, <1>2, TailAt
    <3>2. ASSUME NEW k \in DOMAIN toClient'[c], IsStreamRequest(toClient'[c][k])
          PROVE  /\ BookedNext(toClient'[c][k].stream_id)
                 /\ streams'[toClient'[c][k].stream_id] = toClient'[c][k].prop
                 /\ Len(client_streams'[c]) <= toClient'[c][k].stream_id
                 /\ \A l \in DOMAIN toClient'[c] :
                      k < l /\ IsStreamRequest(toClient'[c][l]) =>
                        toClient'[c][k].stream_id < toClient'[c][l].stream_id
      <4> DEFINE s == toClient[c][k + 1].stream_id
      <4>1. k + 1 \in DOMAIN toClient[c] /\ IsStreamRequest(toClient[c][k + 1])
            /\ toClient'[c][k] = toClient[c][k + 1] /\ 1 < k + 1
        BY <3>1, <3>2
      <4>2. Booked(s) /\ streams[s] = toClient[c][k + 1].prop /\ m.stream_id < s
        BY <1>5, <4>1 DEF StreamFacts, StreamsKept, RequestsBooked
      <4>3. s \in Nat
        BY <4>2 DEF Booked, IInv, StreamTypeOK
      <4>4. Len(client_streams'[c]) <= s
        <5> HIDE DEF s
        <5>1. QED
          BY <1>5, <1>6, <1>7, <4>2, <4>3
      <4>5. ASSUME NEW l \in DOMAIN toClient'[c], k < l, IsStreamRequest(toClient'[c][l])
            PROVE  s < toClient'[c][l].stream_id
        <5>1. l + 1 \in DOMAIN toClient[c] /\ toClient'[c][l] = toClient[c][l + 1]
              /\ k + 1 < l + 1
          BY <3>1, <4>5
        <5>2. QED
          BY <4>1, <4>5, <5>1 DEF StreamFacts, StreamsKept, RequestsBooked
      <4>6. QED
        BY <1>2, <4>1, <4>2, <4>4, <4>5 DEF Booked, BookedNext
    <3>3. QED
      BY <3>2 DEF RequestsBooked, Booked, BookedNext
  <2>5. QED
    BY <2>1, <2>2, <2>3, <2>4 DEF StreamsKept
<1>12. QED
  BY <1>2, <1>10, <1>11 DEF StreamFacts

\* The vehicle sends the value of one of its entries.
LEMMA ClientStreamsStreams ==
  ASSUME IInv, IInv', NEW c \in Clients, StreamFacts, ClientStreams(c)
  PROVE  StreamFacts'
<1>1. PICK CM, HM : /\ CM = ClientMessages /\ HM = HostMessages
                    /\ toHost \in [Clients -> Seq(CM)]
                    /\ toClient \in [Clients -> Seq(HM)]
  BY LinesAreSequences DEF IInv
<1>2. PICK i \in DOMAIN client_streams[c] :
        /\ client_streams[c][i].def # NoDef
        /\ SendToHost(c, << StreamData(client_streams[c][i].stream_id, client_streams[c][i].def) >>)
  BY DEF ClientStreams, SppProcessStreams
<1> DEFINE s == client_streams[c][i].stream_id
           p == client_streams[c][i].def
           m == StreamData(s, p)
<1>3. /\ toHost' = [toHost EXCEPT ![c] = @ \o << m >>]
      /\ UNCHANGED <<toClient, client_streams, stream_count, streams, host_up, host_boots, fault>>
  BY <1>2 DEF ClientStreams, SppProcessStreams, SendToHost, hostVars, clientVars, streamVars,
              bootVars
<1>4. Booked(s) /\ p = streams[s]
  BY <1>2 DEF StreamFacts, StreamsKept, EntriesBooked
<1>5. m \in CM /\ m.type = "STREAM" /\ m.stream_id = s /\ m.prop = p
  <2>1. s \in StreamIds /\ p \in Props
    <3>1. PICK E : E = [stream_id : StreamIds, def : Props \cup {NoDef}]
                   /\ client_streams[c] \in Seq(E)
      BY DEF IInv, ClientTypeOK
    <3>2. client_streams[c] \in Seq(E)
      BY <3>1
    <3>3. \A j \in DOMAIN client_streams[c] : client_streams[c][j] \in E
      BY <3>2
    <3>4. QED
      BY <1>2, <3>1, <3>3
  <2>2. QED
    BY <1>1, <2>1, ClientMessageTypes DEF StreamData
<1> HIDE DEF s, p, m
<1>6. BooksGrow /\ stream_count <= stream_count'
  BY <1>3 DEF BooksGrow, BookedNext, Booked, IInv, StreamTypeOK, StreamIds
<1>7. \A b \in Clients : Follows(toClient[b], toClient'[b], StreamTypes)
  BY <1>1, <1>3, FollowsMoves
<1>8. ASSUME NEW b \in Clients, b # c PROVE StreamsKept(b)'
  <2>1. toHost'[b] = toHost[b] /\ client_streams'[b] = client_streams[b]
    BY <1>1, <1>3, <1>8
  <2>2. Follows(toHost[b], toHost'[b], StreamTypes)
    BY <1>1, <2>1, FollowsMoves
  <2>3. QED
    BY <1>6, <1>7, <2>1, <2>2, StreamsFollow DEF StreamFacts, IInv
<1>9. StreamsKept(c)'
  <2>1. /\ Len(client_streams'[c]) <= stream_count' /\ EntriesBooked(c)' /\ RequestsBooked(c)'
    <3>1. EntriesBooked(c)' /\ RequestsBooked(c)'
      BY <1>3, <1>6, <1>7, EntriesFollow, RequestsFollow DEF StreamFacts, StreamsKept, IInv
    <3>2. QED
      BY <1>3, <3>1 DEF StreamFacts, StreamsKept
  <2>2. ValuesBooked(c)'
    <3>1. toHost[c] \in Seq(CM) /\ toHost'[c] = toHost[c] \o << m >>
      BY <1>1, <1>3
    <3>2. \A k \in DOMAIN toHost'[c] :
            \/ k \in DOMAIN toHost[c] /\ toHost'[c][k] = toHost[c][k]
            \/ toHost'[c][k] = m
      BY <1>5, <3>1
    <3>3. ASSUME NEW k \in DOMAIN toHost'[c], toHost'[c][k].type = "STREAM"
          PROVE  /\ BookedNext(toHost'[c][k].stream_id)
                 /\ streams'[toHost'[c][k].stream_id] = toHost'[c][k].prop
      <4>1. CASE k \in DOMAIN toHost[c] /\ toHost'[c][k] = toHost[c][k]
        BY <1>3, <3>3, <4>1 DEF StreamFacts, StreamsKept, ValuesBooked, Booked, BookedNext
      <4>2. CASE toHost'[c][k] = m
        BY <1>3, <1>4, <1>5, <4>2 DEF Booked, BookedNext
      <4>3. QED
        BY <3>2, <4>1, <4>2
    <3>4. QED
      BY <3>3 DEF ValuesBooked, Booked, BookedNext
  <2>3. QED
    BY <2>1, <2>2 DEF StreamsKept
<1>10. QED
  BY <1>3, <1>8, <1>9 DEF StreamFacts

\* The values find their stream and the requests find room.
LEMMA OverrunStreams ==
  ASSUME IInv, IInv', NEW c \in Clients, StreamFacts, Overrun(c)
  PROVE  StreamFacts'
<1>1. UNCHANGED <<hostVars, clientVars, linkVars, bootVars>>
  BY DEF Overrun, HostOverrun, ClientOverrun
<1>2. UNCHANGED <<stream_count, streams, client_streams, toHost, toClient, host_up, host_boots>>
  BY <1>1 DEF hostVars, clientVars, linkVars, bootVars, streamVars
<1>3. fault' # "stream_data"
  <2> SUFFICES ASSUME fault' = "stream_data" PROVE FALSE
    OBVIOUS
  <2>1. /\ Received(c, "STREAM")
        /\ \/ Head(toHost[c]).stream_id \notin DOMAIN streams
           \/ streams[Head(toHost[c]).stream_id] = NoProp
    BY DEF Overrun, HostOverrun, ClientOverrun
  <2> DEFINE m == Head(toHost[c])
  <2>2. PICK CM : CM = ClientMessages /\ toHost \in [Clients -> Seq(CM)]
    BY DEF IInv, LinkTypeOK
  <2>3. 1 \in DOMAIN toHost[c] /\ m = toHost[c][1] /\ m \in ClientMessages /\ m.type = "STREAM"
    BY <2>1, <2>2, TailAt DEF Received
  <2>4. m.prop \in Props
    BY <2>3 DEF ClientMessages
  <2>5. m.stream_id \in DOMAIN streams /\ streams[m.stream_id] = m.prop
    BY <2>3 DEF StreamFacts, StreamsKept, ValuesBooked, Booked
  <2>6. QED
    BY <2>1, <2>4, <2>5, NoPropAssumption
<1>4. fault' # "client_streams"
  <2> SUFFICES ASSUME fault' = "client_streams" PROVE FALSE
    OBVIOUS
  <2>1. /\ Addressed(c, "STREAM_REQUEST")
        /\ Len(client_streams[c]) >= SPP_STREAM_MAX_COUNT
    BY DEF Overrun, HostOverrun, ClientOverrun
  <2> DEFINE m == Head(toClient[c])
  <2>2. PICK HM : HM = HostMessages /\ toClient \in [Clients -> Seq(HM)]
    BY DEF IInv, LinkTypeOK
  <2>3. 1 \in DOMAIN toClient[c] /\ m = toClient[c][1] /\ m.type = "STREAM_REQUEST"
    BY <2>1, <2>2, TailAt DEF Addressed
  <2>4. Len(client_streams[c]) <= m.stream_id /\ m.stream_id \in DOMAIN streams
    BY <2>3 DEF StreamFacts, StreamsKept, RequestsBooked, Booked, IsStreamRequest
  <2>5. m.stream_id \in 0 .. SPP_STREAM_MAX_COUNT - 1
    BY <2>4 DEF IInv, StreamTypeOK
  <2> HIDE DEF m
  <2>6. Len(client_streams[c]) \in Nat
    BY DEF IInv, ClientTypeOK
  <2>7. QED
    BY <2>1, <2>4, <2>5, <2>6, StreamsAssumption
<1>5. \A b \in Clients : StreamsKept(b)'
  BY <1>2 DEF StreamFacts, StreamsKept, EntriesBooked, RequestsBooked, ValuesBooked, Booked
<1>6. QED
  BY <1>2, <1>3, <1>4, <1>5 DEF StreamFacts

\* The server starts streams of properties of its own list, which with one kind
\* of client is the list of each of them.
LEMMA LookedUpIsListed ==
  ASSUME IInv, OneKind, NEW c \in Clients, NEW p, SppHostGetDefinition(c, p)
  PROVE  SppGetDefinition(c, p)
<1>1. PICK k \in DOMAIN defs_buffer : defs_buffer[k].prop = p
  BY RangesInWritten DEF SppHostGetDefinition, RangesAreWritten
<1>2. PICK D : D = [client : Clients, prop : Props] /\ defs_buffer \in Seq(D)
  BY DEF IInv, Table, TableTypeOK
<1>3. defs_buffer \in Seq(D)
  BY <1>2
<1>4. defs_buffer[k] \in D
  BY <1>1, <1>3
<1>5. p \in Props
  BY <1>1, <1>2, <1>4
<1>6. PICK d \in Clients : \E i \in DOMAIN PropertyList[d] : PropertyList[d][i] = p
  BY <1>5 DEF Props
<1>7. PropertyList[d] = PropertyList[c]
  BY DEF OneKind
<1>8. QED
  BY <1>6, <1>7 DEF SppGetDefinition

LEMMA NextKeepsDefs ==
  ASSUME IInv, IInv', OneKind, DefsKept, [Next]_vars
  PROVE  DefsKept'
<1>1. CASE StreamStill
  BY <1>1, StreamStillKeeps
<1>2. CASE PowerOnHost
  <2>1. client_streams' = client_streams /\ fault' = fault
    BY <1>2 DEF PowerOnHost, HostBoot, clientVars
  <2>2. QED
    BY <1>2, <2>1, PowerOnHostQuiet, DefsFollow DEF DefsKept
<1>3. ASSUME NEW c \in Clients, PowerOnClient(c) PROVE DefsKept'
  <2>1. /\ client_streams' = [client_streams EXCEPT ![c] = <<>>]
        /\ UNCHANGED <<toClient, fault>>
    BY <1>3 DEF PowerOnClient, ClientBoot, linkVars
  <2>2. \A b \in Clients : client_streams'[b] = <<>> \/ client_streams'[b] = client_streams[b]
    BY <2>1 DEF IInv, ClientTypeOK
  <2>3. QED
    BY <2>1, <2>2 DEF DefsKept, SppGetDefinition
<1>4. ASSUME NEW c \in Clients, ViewerAsks(c), NEW p \in StreamProps, SppHostStartStream(c, p)
      PROVE  DefsKept'
  <2> DEFINE m == StreamRequest(SppGetToken, stream_count, p)
  <2>1. /\ toClient' = [toClient EXCEPT ![c] = Append(@, m)]
        /\ UNCHANGED <<client_streams, fault>>
    BY <1>4 DEF ViewerAsks, SppHostStartStream, IssueRequest, StreamIdSent, clientVars
  <2>2. SppGetDefinition(c, m.prop)
    BY <1>4, LookedUpIsListed DEF SppHostStartStream, StreamRequest
  <2> HIDE DEF m
  <2>3. PICK HM : HM = HostMessages /\ toClient \in [Clients -> Seq(HM)]
    BY DEF IInv, LinkTypeOK
  <2>4. toClient \in [Clients -> Seq(HM)]
    BY <2>3
  <2>5. ASSUME NEW b \in Clients, NEW k \in DOMAIN toClient'[b]
        PROVE  \/ k \in DOMAIN toClient[b] /\ toClient'[b][k] = toClient[b][k]
               \/ b = c /\ toClient'[b][k] = m
    <3>1. toClient'[b] = IF b = c THEN Append(toClient[b], m) ELSE toClient[b]
      BY <2>1, <2>4
    <3>2. QED
      BY <2>4, <2>5, <3>1
  <2>6. QED
    BY <2>1, <2>2, <2>5 DEF DefsKept, SppGetDefinition
<1>5. ASSUME NEW c \in Clients, ClientHandles(c), StreamRequested(c) PROVE DefsKept'
  <2> DEFINE m == Head(toClient[c])
             e == [stream_id |-> m.stream_id, def |-> m.prop]
  <2>1. PICK HM : HM = HostMessages /\ toClient \in [Clients -> Seq(HM)]
    BY DEF IInv, LinkTypeOK
  <2>2. toClient \in [Clients -> Seq(HM)]
    BY <2>1
  <2>3. /\ toClient[c] # <<>> /\ m.type = "STREAM_REQUEST"
        /\ toClient' = [toClient EXCEPT ![c] = Tail(@)] /\ fault' = fault
    BY <1>5 DEF StreamRequested, Addressed, ReplyToHost
  <2>4. 1 \in DOMAIN toClient[c] /\ m = toClient[c][1]
    BY <2>2, <2>3, TailAt
  <2>5. SppGetDefinition(c, m.prop)
    BY <2>3, <2>4 DEF DefsKept, IsStreamRequest
  <2>6. m.prop # NoDef
    BY <2>5, ListedProps, NoDefAssumption
  <2>7. client_streams' = [client_streams EXCEPT ![c] = Append(@, e)]
    BY <1>5, <2>5 DEF StreamRequested
  <2>8. e.def # NoDef
    BY <2>6
  <2> HIDE DEF m, e
  <2>9. ASSUME NEW b \in Clients, NEW i \in DOMAIN client_streams'[b]
        PROVE  client_streams'[b][i].def # NoDef
    <3>1. PICK E : client_streams \in [Clients -> Seq(E)]
      BY DEF IInv, ClientTypeOK
    <3>2. client_streams'[b] =
            IF b = c THEN Append(client_streams[b], e) ELSE client_streams[b]
      BY <2>7, <3>1
    <3>3. \/ i \in DOMAIN client_streams[b] /\ client_streams'[b][i] = client_streams[b][i]
          \/ client_streams'[b][i] = e
      BY <2>9, <3>1, <3>2
    <3>4. QED
      BY <2>8, <3>3 DEF DefsKept
  <2>10. ASSUME NEW b \in Clients, NEW k \in DOMAIN toClient'[b]
         PROVE  \E l \in DOMAIN toClient[b] : toClient'[b][k] = toClient[b][l]
    <3>1. toClient'[b] = IF b = c THEN Tail(toClient[b]) ELSE toClient[b]
      BY <2>2, <2>3
    <3>2. CASE b = c
      BY <2>2, <2>3, <2>10, <3>1, <3>2, TailAt
    <3>3. QED
      BY <2>10, <3>1, <3>2
  <2>11. QED
    BY <2>3, <2>9, <2>10 DEF DefsKept, SppGetDefinition
<1>6. ASSUME NEW c \in Clients, ClientStreams(c) PROVE DefsKept'
  <2>1. UNCHANGED <<toClient, client_streams, fault>>
    BY <1>6 DEF ClientStreams, SppProcessStreams, clientVars
  <2>2. QED
    BY <2>1 DEF DefsKept, SppGetDefinition
<1>7. ASSUME NEW c \in Clients, Overrun(c) PROVE DefsKept'
  <2>1. UNCHANGED <<toClient, client_streams>>
    BY <1>7 DEF Overrun, HostOverrun, ClientOverrun, linkVars, clientVars
  <2>2. fault' # "stream_definition"
    <3> SUFFICES ASSUME fault' = "stream_definition" PROVE FALSE
      OBVIOUS
    <3>1. \E i \in DOMAIN client_streams[c] : client_streams[c][i].def = NoDef
      BY <1>7 DEF Overrun, HostOverrun, ClientOverrun
    <3>2. QED
      BY <3>1 DEF DefsKept
  <2>3. QED
    BY <2>1, <2>2 DEF DefsKept, SppGetDefinition
<1>8. QED
  BY <1>1, <1>2, <1>3, <1>4, <1>5, <1>6, <1>7, StreamStepCases

LEMMA NextKeepsStreams ==
  ASSUME IInv, IInv', StreamInv, [Next]_vars
  PROVE  StreamInv'
<1> SUFFICES ASSUME host_boots' <= 1 PROVE StreamFacts'
  BY DEF StreamInv
<1>1. CASE PowerOnHost
  <2>1. host_boots = 0
    BY <1>1 DEF PowerOnHost, IInv, PowerTypeOK
  <2>2. QED
    BY <1>1, <2>1, PowerOnHostStreams DEF StreamInv
<1>2. CASE ~PowerOnHost
  <2>1. host_boots' = host_boots
    BY <1>2 DEF Next, PowerOffHost, PowerOnClient, PowerOffClient, HostHandles, ViewerAsks,
                ClientHandles, ClientBroadcasts, ClientStreams, Overrun, Lose, bootVars, vars
  <2>2. StreamFacts
    BY <2>1 DEF StreamInv
  <2>3. CASE StreamStill
    BY <2>2, <2>3, StreamStillKeeps
  <2>4. ASSUME NEW c \in Clients, PowerOnClient(c) PROVE StreamFacts'
    BY <2>2, <2>4, PowerOnClientStreams
  <2>5. ASSUME NEW c \in Clients, ViewerAsks(c), NEW p \in StreamProps, SppHostStartStream(c, p)
        PROVE  StreamFacts'
    BY <2>2, <2>5, StartStreamStreams DEF ViewerAsks
  <2>6. ASSUME NEW c \in Clients, ClientHandles(c), StreamRequested(c) PROVE StreamFacts'
    BY <2>2, <2>6, StreamRequestedStreams DEF ClientHandles
  <2>7. ASSUME NEW c \in Clients, ClientStreams(c) PROVE StreamFacts'
    BY <2>2, <2>7, ClientStreamsStreams
  <2>8. ASSUME NEW c \in Clients, Overrun(c) PROVE StreamFacts'
    BY <2>2, <2>8, OverrunStreams
  <2>9. QED
    BY <1>2, <2>3, <2>4, <2>5, <2>6, <2>7, <2>8, StreamStepCases
<1>3. QED
  BY <1>1, <1>2

LEMMA InitStreams == Init => StreamInv /\ DefsKept
<1> SUFFICES ASSUME Init PROVE StreamFacts /\ DefsKept
  BY DEF StreamInv
<1>1. \A c \in Clients : /\ client_streams[c] = <<>> /\ toHost[c] = <<>> /\ toClient[c] = <<>>
  BY DEF Init
<1>2. stream_count = 0 /\ ~host_up /\ fault = "none"
  BY DEF Init
<1>3. \A c \in Clients : StreamsKept(c)
  BY <1>1, <1>2 DEF StreamsKept, EntriesBooked, RequestsBooked, ValuesBooked
<1>4. DefsKept
  BY <1>1, <1>2 DEF DefsKept
<1>5. QED
  BY <1>2, <1>3, <1>4 DEF StreamFacts

LEMMA AlwaysStreams == Spec => [](IInv /\ StreamInv)
<1>1. Init => IInv /\ StreamInv
  BY InitIInv, InitStreams
<1>2. IInv /\ StreamInv /\ [Next]_vars => (IInv /\ StreamInv)'
  BY NextKeepsIInv, NextKeepsStreams
<1>3. QED
  BY <1>1, <1>2, PTL DEF Spec

\* Until the server is restarted every stream message is booked under the
\* property whose value it carries (SppHostStartStream, SppProcessStreams,
\* spp/src-host/spp.c and spp/src-client/spp.c), for any clients with any
\* lists, whatever the radio loses and however often the vehicles restart.
THEOREM FirstRunStreamsRight == Spec => []FirstRunStreamsMatch
<1>1. IInv /\ StreamInv => FirstRunStreamsMatch
  <2> SUFFICES ASSUME LinkTypeOK, StreamFacts, NEW c \in Clients, Received(c, "STREAM"),
                      Head(toHost[c]).stream_id \in DOMAIN streams
               PROVE  streams[Head(toHost[c]).stream_id] = Head(toHost[c]).prop
    BY DEF FirstRunStreamsMatch, StreamValuesMatch, StreamInv, IInv
  <2>1. PICK CM : toHost \in [Clients -> Seq(CM)]
    BY DEF LinkTypeOK
  <2>2. toHost[c] \in Seq(CM) /\ toHost[c] # <<>>
    BY <2>1 DEF Received
  <2>3. 1 \in DOMAIN toHost[c] /\ Head(toHost[c]) = toHost[c][1]
    BY <2>2, TailAt
  <2>4. QED
    BY <2>3 DEF StreamFacts, StreamsKept, ValuesBooked, Received
<1>2. QED
  BY <1>1, AlwaysStreams, PTL

\* Until then a value never names a stream the server does not know, and no
\* vehicle is asked for more streams than its table holds.
THEOREM FirstRunStreamsFit ==
  Spec => [](host_boots <= 1 => fault \notin {"stream_data", "client_streams"})
<1>1. StreamInv => (host_boots <= 1 => fault \notin {"stream_data", "client_streams"})
  BY DEF StreamInv, StreamFacts
<1>2. QED
  BY <1>1, AlwaysStreams, PTL

\* With one kind of vehicle none of them serves a stream whose property it does
\* not have either.  Two kinds break this: the definitions of the first are
\* looked up for the second (spp/src-host/spp.c:384).
THEOREM FirstRunTablesSuffice ==
  ASSUME OneKind
  PROVE  Spec => []FirstRunStreamTablesSuffice
<1> DEFINE Inv == IInv /\ StreamInv /\ DefsKept
<1>1. Init => Inv
  BY InitIInv, InitStreams
<1>2. Inv /\ [Next]_vars => Inv'
  BY NextKeepsIInv, NextKeepsStreams, NextKeepsDefs
<1>3. Inv => FirstRunStreamTablesSuffice
  BY DEF StreamInv, StreamFacts, DefsKept, FirstRunStreamTablesSuffice
<1>4. QED
  BY <1>1, <1>2, <1>3, PTL DEF Spec

=============================================================================
