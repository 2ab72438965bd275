------------------------------ MODULE SppClient ------------------------------
(***************************************************************************)
(* The SPP client engine (spp/src-client/spp.c) in the flight software:    *)
(* the uart listener task handles the host's messages one after another,   *)
(* the cc_comms task broadcasts once and then serves the streams.  Sending *)
(* a message blocks the sender, so the cc_comms task can run between two   *)
(* definitions of a property list.                                         *)
(***************************************************************************)
EXTENDS SppProto

VARIABLES
  client_up,       \* client -> the flight software runs
  started,         \* client -> SppClientStart has been called
  sending,         \* client -> next definition of the list being sent, or 0
  is_duplicate,
  client_streams   \* client -> its streams (stream_count = Len)

clientVars == <<client_up, started, sending, is_duplicate, client_streams>>

NoDef == "no definition"   \* SppGetDefinition failed: def was never set
ASSUME NoDefAssumption == NoDef \notin Props

SppGetDefinition(c, p) == \E i \in DOMAIN PropertyList[c] : PropertyList[c][i] = p

-----------------------------------------------------------------------------
\* SppClientEngineInit at power up.
ClientBoot(c) ==
  /\ ~client_up[c]
  /\ client_up' = [client_up EXCEPT ![c] = TRUE]
  /\ started' = [started EXCEPT ![c] = FALSE]
  /\ sending' = [sending EXCEPT ![c] = 0]
  /\ is_duplicate' = [is_duplicate EXCEPT ![c] = FALSE]
  /\ client_streams' = [client_streams EXCEPT ![c] = <<>>]
  /\ UNCHANGED <<linkVars, fault>>

ClientCrash(c) ==
  /\ client_up[c]
  /\ client_up' = [client_up EXCEPT ![c] = FALSE]
  /\ UNCHANGED <<started, sending, is_duplicate, client_streams, linkVars, fault>>

\* CommandControlComms_Task broadcasts the client's presence, once.
SppClientStart(c) ==
  /\ client_up[c]
  /\ ~started[c]
  /\ started' = [started EXCEPT ![c] = TRUE]
  /\ SendToHost(c, << ConnectRequest(ListId[c]) >>)
  /\ UNCHANGED <<client_up, sending, is_duplicate, client_streams, toClient, fault>>

-----------------------------------------------------------------------------
\* SppClientProcessMessage, one action per message.  The listener task is busy
\* while it sends a property list.  The code takes the client address out of the
\* message and never compares it (spp-client/spp.c:167): a vehicle handles whatever
\* reaches its radio, and toClient[c] is what does.

Addressed(c, type) ==
  /\ client_up[c]
  /\ sending[c] = 0
  /\ toClient[c] # <<>>
  /\ Head(toClient[c]).type = type

\* SppSendPropertyList when the host wants no list: nothing is sent, and the
\* client does not ask again.
ConnectRefused(c) ==
  /\ Addressed(c, "CONNECT_RESPONSE")
  /\ \/ /\ Head(toClient[c]).status = "DUPLICATE_CLIENT"
        /\ is_duplicate' = [is_duplicate EXCEPT ![c] = TRUE]
     \/ /\ Head(toClient[c]).status = "BUSY"
        /\ UNCHANGED is_duplicate
  /\ ReplyToHost(c, <<>>)
  /\ UNCHANGED <<client_up, started, sending, client_streams, fault>>

\* SppSendPropertyList otherwise: the list header, then a message per property.
SendPropertyList(c) ==
  /\ Addressed(c, "CONNECT_RESPONSE")
  /\ Head(toClient[c]).status = "OK"
  /\ ReplyToHost(c, << PropListResponse(Len(PropertyList[c])) >>)
  /\ sending' = [sending EXCEPT ![c] = 1]
  /\ UNCHANGED <<client_up, started, is_duplicate, client_streams, fault>>

\* Faulty variant: the definition being sent counts as remaining.
RemainingAfterInclusive(i, n) == n - i + 1

RemainingAfter(i, n) == n - i

SendPropDef(c) ==
  /\ client_up[c]
  /\ sending[c] # 0
  /\ LET i == sending[c]
         n == Len(PropertyList[c])
     IN  /\ SendToHost(c, << PropDef(PropertyList[c][i], RemainingAfter(i, n)) >>)
         /\ sending' = [sending EXCEPT ![c] = IF i = n THEN 0 ELSE i + 1]
  /\ UNCHANGED <<client_up, started, is_duplicate, client_streams, toClient, fault>>

GetReceived(c) ==
  LET m == Head(toClient[c])
  IN  /\ Addressed(c, "GET_REQUEST")
      /\ SppGetDefinition(c, m.prop)
      /\ ReplyToHost(c, << GetResponse(m.token, m.prop) >>)
      /\ UNCHANGED <<clientVars, fault>>

\* Faulty variant: a set request is carried out and not answered.
SetAnswerNone(m) == <<>>

SetAnswer(m) == << SetResponse(m.token) >>

\* The response says OK whatever SetValue returned.
SetReceived(c) ==
  /\ Addressed(c, "SET_REQUEST")
  /\ ReplyToHost(c, SetAnswer(Head(toClient[c])))
  /\ UNCHANGED <<clientVars, fault>>

\* A stream request takes the next table entry and is never answered.
StreamRequested(c) ==
  LET m == Head(toClient[c])
      d == IF SppGetDefinition(c, m.prop) THEN m.prop ELSE NoDef
  IN  /\ Addressed(c, "STREAM_REQUEST")
      /\ Len(client_streams[c]) < SPP_STREAM_MAX_COUNT
      /\ client_streams' =
           [client_streams EXCEPT ![c] = Append(@, [stream_id |-> m.stream_id, def |-> d])]
      /\ ReplyToHost(c, <<>>)
      /\ UNCHANGED <<client_up, started, sending, is_duplicate, fault>>

-----------------------------------------------------------------------------
\* One expired stream of SppProcessStreams: sending blocks, so the listener may
\* run before the loop's next one.  Periods are left open, so any stream may be
\* the next to expire.
SppProcessStreams(c) ==
  /\ client_up[c]
  /\ started[c]
  /\ Len(toClient[c]) + Len(toHost[c]) < MaxInFlight
  /\ \E i \in DOMAIN client_streams[c] :
       /\ client_streams[c][i].def # NoDef
       /\ SendToHost(c, << StreamData(client_streams[c][i].stream_id, client_streams[c][i].def) >>)
  /\ UNCHANGED <<clientVars, toClient, fault>>

\* The accesses nothing in the engine prevents; each ends the behaviour.
ClientOverrun(c) ==
  /\ \/ /\ Addressed(c, "GET_REQUEST")
        /\ ~SppGetDefinition(c, Head(toClient[c]).prop)
        /\ fault' = "client_definition"
     \/ /\ Addressed(c, "STREAM_REQUEST")
        /\ Len(client_streams[c]) >= SPP_STREAM_MAX_COUNT
        /\ fault' = "client_streams"
     \/ /\ client_up[c] /\ started[c]
        /\ \E i \in DOMAIN client_streams[c] : client_streams[c][i].def = NoDef
        /\ fault' = "stream_definition"
  /\ UNCHANGED <<clientVars, linkVars>>

ClientReceive(c) ==
  \/ ConnectRefused(c)
  \/ SendPropertyList(c)
  \/ GetReceived(c)
  \/ SetReceived(c)
  \/ StreamRequested(c)
=============================================================================
