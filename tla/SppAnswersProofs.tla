--------------------------- MODULE SppAnswersProofs ---------------------------
(***************************************************************************)
(* Proofs about SppLink: what the host waits for is on its way, as long as *)
(* nothing is lost between two programs that run.  The answer to a pending *)
(* request can be told from all others, and a list that was asked for is   *)
(* going to be completed.                                                  *)
(***************************************************************************)
EXTENDS SppSessionProofs

\* The radio loses nothing, and a vehicle that was switched on stays on.
NothingLost == ~Lossy /\ MaxClientBoots <= 1

OneVehicle == \E c : Clients = {c}

-----------------------------------------------------------------------------
\* Vehicles that were switched on, once and for all.

Silent(c) == toHost[c] = <<>> /\ toClient[c] = <<>> /\ ~Registered(c)

OffIsNew(c) == ~client_up[c] => client_boots[c] = 0 /\ Silent(c)

-----------------------------------------------------------------------------
\* Requests on their way round the line.

\* The number of tokens given out behind t when n was the last, unless t was
\* given out again.
Age(n, t) == IF t <= n THEN n - t ELSE n + SPP_TOKEN_MAX_RESERVED - t

\* f gives each of the slots in K a message of the line with its token, and one for
\* every token given out since behind it.
Queued(f, K, x, n, l) ==
  /\ f \in [K -> DOMAIN l]
  /\ \A i \in K : Carries(l[f[i]], x[i]) /\ Age(n, x[i]) <= Len(l) - f[i]
  /\ \A i, j \in K : f[i] = f[j] => i = j

\* The messages between the host and its client, those the host takes first in front.
Line(c) == toHost[c] \o toClient[c]

\* Each pending request has its message on the line, and behind it one for every
\* token given out since.
InOrder(c) ==
  host_up =>
    \E f : Queued(f, Slots \ FreeSlots, pending_request_tokens, token_count, Line(c))

\* The host has no reason to refuse the client.
NeverRefused(c) ==
  \A k \in DOMAIN toClient[c] : toClient[c][k].type = "CONNECT_RESPONSE" => IsOk(toClient[c][k])

OffIsNewInv == \A c \in Clients : OffIsNew(c)

RequestFacts == \A c \in Clients : InOrder(c) /\ NeverRefused(c)

\* A list the host is CONNECTING for is asked for, being sent, or its last
\* definition is on the line.
LastDefOnLine(c) ==
  \E k \in DOMAIN toHost[c] : IsDef(toHost[c][k]) /\ toHost[c][k].remaining = 0

Owed(c) == Offered(c) \/ sending[c] # 0 \/ LastDefOnLine(c)

ListOwed ==
  host_up /\ state = "CONNECTING" => Owed(LastClient.client)

-----------------------------------------------------------------------------
\* What the messages have behind them, as the line moves.

LEMMA JoinAt ==
  ASSUME NEW S, NEW s \in Seq(S), NEW r \in Seq(S)
  PROVE  /\ s \o r \in Seq(S) /\ Len(s \o r) = Len(s) + Len(r) /\ Len(s) \in Nat /\ Len(r) \in Nat
         /\ DOMAIN (s \o r) = 1 .. Len(s) + Len(r)
         /\ \A k \in 1 .. Len(s) : (s \o r)[k] = s[k]
         /\ \A k \in 1 .. Len(r) : (s \o r)[Len(s) + k] = r[k]
OBVIOUS

\* A slot that was freed has no message any more.
LEMMA FewerQueued ==
  ASSUME NEW K, NEW L, L \subseteq K, NEW x, NEW y, \A i \in L : y[i] = x[i],
         NEW n, NEW l, NEW f, Queued(f, K, x, n, l)
  PROVE  \E h : Queued(h, L, y, n, l)
<1> DEFINE h == [i \in L |-> f[i]]
<1>1. h \in [L -> DOMAIN l] /\ \A i \in L : h[i] = f[i]
  BY DEF Queued
<1> HIDE DEF h
<1>2. Queued(h, L, y, n, l)
  BY <1>1 DEF Queued
<1>3. QED
  BY <1>2

\* A message goes behind all others, perhaps with a new token.
LEMMA Appended ==
  ASSUME NEW S, NEW l \in Seq(S), NEW m \in S, NEW K, NEW x, NEW n, NEW o,
         \A i \in K : /\ Age(n, x[i]) \in Nat /\ Age(o, x[i]) \in Nat
                      /\ Age(o, x[i]) <= Age(n, x[i]) + 1,
         NEW f, Queued(f, K, x, n, l)
  PROVE  Queued(f, K, x, o, l \o << m >>) /\ \A i \in K : f[i] # Len(l) + 1
<1> DEFINE z == l \o << m >>
<1>1. /\ Len(l) \in Nat /\ Len(z) = Len(l) + 1 /\ DOMAIN l = 1 .. Len(l) /\ DOMAIN z = 1 .. Len(l) + 1
      /\ \A k \in DOMAIN l : z[k] = l[k]
  OBVIOUS
<1> HIDE DEF z
<1>2. \A i \in K : f[i] \in 1 .. Len(l)
  BY <1>1 DEF Queued
<1>3. f \in [K -> DOMAIN z]
  BY <1>1, <1>2 DEF Queued
<1>4. \A i \in K : Carries(z[f[i]], x[i])
  BY <1>1, <1>2 DEF Queued
<1>5. ASSUME NEW i \in K PROVE Age(o, x[i]) <= Len(z) - f[i]
  <2>1. PICK a, b \in Nat : a = Age(n, x[i]) /\ b = Age(o, x[i]) /\ b <= a + 1
    OBVIOUS
  <2>2. a <= Len(l) - f[i]
    BY <2>1 DEF Queued
  <2>3. QED
    BY <1>1, <1>2, <2>1, <2>2
<1>6. Queued(f, K, x, o, z)
  BY <1>3, <1>4, <1>5 DEF Queued
<1>7. QED
  BY <1>1, <1>2, <1>6 DEF z

\* The message at the head goes, and is no slot's.
LEMMA HeadTaken ==
  ASSUME NEW S, NEW l \in Seq(S), l # <<>>, NEW K, NEW x, NEW n,
         \A i \in K : Age(n, x[i]) \in Nat,
         NEW f, Queued(f, K, x, n, l), \A i \in K : f[i] # 1
  PROVE  \E h : Queued(h, K, x, n, Tail(l))
<1> DEFINE z == Tail(l)
           h == [i \in K |-> f[i] - 1]
<1>1. /\ Len(l) \in Nat /\ Len(z) = Len(l) - 1 /\ DOMAIN l = 1 .. Len(l) /\ DOMAIN z = 1 .. Len(l) - 1
      /\ \A k \in DOMAIN l : k # 1 => k - 1 \in DOMAIN z /\ z[k - 1] = l[k]
  OBVIOUS
<1>2. \A i \in K : f[i] \in 1 .. Len(l) /\ h[i] = f[i] - 1
  BY <1>1 DEF Queued
<1>3. h \in [K -> DOMAIN z]
  BY <1>1, <1>2
<1> HIDE DEF z, h
<1>4. \A i \in K : Carries(z[h[i]], x[i])
  BY <1>1, <1>2 DEF Queued
<1>5. ASSUME NEW i \in K PROVE Age(n, x[i]) <= Len(z) - h[i]
  <2>1. PICK a \in Nat : a = Age(n, x[i])
    OBVIOUS
  <2>2. a <= Len(l) - f[i]
    BY <2>1 DEF Queued
  <2>3. QED
    BY <1>1, <1>2, <2>1, <2>2
<1>6. \A i, j \in K : h[i] = h[j] => f[i] = f[j]
  BY <1>2
<1>7. Queued(h, K, x, n, z)
  BY <1>3, <1>4, <1>5, <1>6 DEF Queued
<1>8. QED
  BY <1>7 DEF z

\* A message goes in the middle: behind those to the host, before those to the client.
LEMMA Inserted ==
  ASSUME NEW S, NEW s \in Seq(S), NEW r \in Seq(S), NEW m \in S, NEW K, NEW x, NEW n,
         \A i \in K : Age(n, x[i]) \in Nat,
         NEW f, Queued(f, K, x, n, s \o r)
  PROVE  \E h : Queued(h, K, x, n, (s \o << m >>) \o r)
<1> DEFINE l == s \o r
           z == (s \o << m >>) \o r
           h == [i \in K |-> IF f[i] <= Len(s) THEN f[i] ELSE f[i] + 1]
<1>1. /\ Len(s) \in Nat /\ Len(r) \in Nat /\ Len(l) = Len(s) + Len(r) /\ DOMAIN l = 1 .. Len(s) + Len(r)
      /\ \A k \in 1 .. Len(s) : l[k] = s[k]
      /\ \A k \in 1 .. Len(r) : l[Len(s) + k] = r[k]
  BY JoinAt
<1>2. /\ s \o << m >> \in Seq(S) /\ Len(s \o << m >>) = Len(s) + 1
      /\ \A k \in 1 .. Len(s) : (s \o << m >>)[k] = s[k]
  OBVIOUS
<1>3. /\ Len(z) = Len(s) + 1 + Len(r) /\ DOMAIN z = 1 .. Len(s) + 1 + Len(r)
      /\ \A k \in 1 .. Len(s) + 1 : z[k] = (s \o << m >>)[k]
      /\ \A k \in 1 .. Len(r) : z[Len(s) + 1 + k] = r[k]
  BY <1>2, JoinAt
<1>4. \A i \in K : /\ f[i] \in 1 .. Len(s) + Len(r)
                   /\ h[i] = IF f[i] <= Len(s) THEN f[i] ELSE f[i] + 1
  BY <1>1 DEF Queued
<1>5. h \in [K -> DOMAIN z]
  BY <1>1, <1>3, <1>4
<1> HIDE DEF z, h, l
<1>6. ASSUME NEW k \in 1 .. Len(s) + Len(r)
      PROVE  z[IF k <= Len(s) THEN k ELSE k + 1] = l[k]
  <2>1. CASE k <= Len(s)
    BY <1>1, <1>2, <1>3, <2>1
  <2>2. CASE ~(k <= Len(s))
    <3>1. PICK p \in 1 .. Len(r) : k = Len(s) + p /\ k + 1 = Len(s) + 1 + p
      <4>1. k - Len(s) \in 1 .. Len(r) /\ k = Len(s) + (k - Len(s)) /\ k + 1 = Len(s) + 1 + (k - Len(s))
        BY <1>1, <2>2
      <4>2. QED
        BY <4>1
    <3>2. QED
      BY <1>1, <1>3, <2>2, <3>1
  <2>3. QED
    BY <2>1, <2>2
<1>7. \A i \in K : Carries(z[h[i]], x[i])
  BY <1>4, <1>6 DEF Queued, l
<1>8. ASSUME NEW i \in K PROVE Age(n, x[i]) <= Len(z) - h[i]
  <2>1. PICK a \in Nat : a = Age(n, x[i])
    OBVIOUS
  <2>2. a <= Len(l) - f[i]
    BY <2>1 DEF Queued, l
  <2>3. QED
    BY <1>1, <1>3, <1>4, <2>1, <2>2
<1>9. \A i, j \in K : h[i] = h[j] => f[i] = f[j]
  BY <1>1, <1>4
<1>10. Queued(h, K, x, n, z)
  BY <1>5, <1>7, <1>8, <1>9 DEF Queued
<1>11. QED
  BY <1>10 DEF z

\* The client takes a message and sends another, an answer if it was a request: the
\* new message stands where the old one stood.
LEMMA Answered ==
  ASSUME NEW S, NEW s \in Seq(S), NEW r \in Seq(S), r # <<>>, NEW m \in S,
         \A t : Carries(Head(r), t) => Carries(m, t), NEW K, NEW x, NEW n,
         NEW f, Queued(f, K, x, n, s \o r)
  PROVE  Queued(f, K, x, n, (s \o << m >>) \o Tail(r))
<1> DEFINE l == s \o r
           z == (s \o << m >>) \o Tail(r)
<1>1. /\ Len(s) \in Nat /\ Len(r) \in Nat /\ Len(l) = Len(s) + Len(r) /\ DOMAIN l = 1 .. Len(s) + Len(r)
      /\ \A k \in 1 .. Len(s) : l[k] = s[k]
      /\ \A k \in 1 .. Len(r) : l[Len(s) + k] = r[k]
  BY JoinAt
<1>2. /\ s \o << m >> \in Seq(S) /\ Len(s \o << m >>) = Len(s) + 1
      /\ \A k \in 1 .. Len(s) : (s \o << m >>)[k] = s[k]
      /\ (s \o << m >>)[Len(s) + 1] = m
  OBVIOUS
<1>3. /\ Tail(r) \in Seq(S) /\ Len(Tail(r)) = Len(r) - 1 /\ Len(r) >= 1 /\ Head(r) = r[1]
      /\ \A k \in 1 .. Len(r) - 1 : Tail(r)[k] = r[k + 1]
  OBVIOUS
<1>4. /\ Len(z) = Len(s) + 1 + (Len(r) - 1) /\ DOMAIN z = 1 .. Len(s) + 1 + (Len(r) - 1)
      /\ \A k \in 1 .. Len(s) + 1 : z[k] = (s \o << m >>)[k]
      /\ \A k \in 1 .. Len(r) - 1 : z[Len(s) + 1 + k] = Tail(r)[k]
  BY <1>2, <1>3, JoinAt
<1> HIDE DEF l, z
<1>5. Len(z) = Len(l) /\ DOMAIN z = DOMAIN l
  BY <1>1, <1>4
<1>6. ASSUME NEW k \in DOMAIN l, NEW t, Carries(l[k], t) PROVE Carries(z[k], t)
  <2>1. CASE k <= Len(s)
    BY <1>1, <1>2, <1>4, <1>6, <2>1
  <2>2. CASE k = Len(s) + 1
    <3>1. l[k] = Head(r) /\ z[k] = m
      BY <1>1, <1>2, <1>3, <1>4, <2>2
    <3>2. QED
      BY <1>6, <3>1
  <2>3. CASE k > Len(s) + 1
    <3>1. PICK p \in 1 .. Len(r) - 1 : k = Len(s) + 1 + p /\ p + 1 \in 1 .. Len(r) /\ k = Len(s) + (p + 1)
      <4>1. /\ k - Len(s) - 1 \in 1 .. Len(r) - 1 /\ k = Len(s) + 1 + (k - Len(s) - 1)
            /\ (k - Len(s) - 1) + 1 \in 1 .. Len(r) /\ k = Len(s) + ((k - Len(s) - 1) + 1)
        BY <1>1, <2>3
      <4>2. QED
        BY <4>1
    <3>2. z[k] = l[k]
      BY <1>1, <1>3, <1>4, <3>1
    <3>3. QED
      BY <1>6, <3>2
  <2>4. QED
    BY <1>1, <2>1, <2>2, <2>3
<1>7. Queued(f, K, x, n, l)
  BY DEF l
<1>8. Queued(f, K, x, n, z)
  BY <1>5, <1>6, <1>7 DEF Queued
<1>9. QED
  BY <1>8 DEF z

\* The slots in L are left when the message at the head has freed one with its token,
\* or when there is none.
LeftByAnswer(L, K, x, l) ==
  /\ L \subseteq K
  /\ \A i \in L : Carries(l[1], x[i]) =>
       \E j \in K \ L : x[j] = x[i]

\* An answer frees a slot with its token, maybe not the one it was for: then that
\* one gets the message of the slot that was freed.
LEMMA HeadAnswers ==
  ASSUME NEW K, NEW L, NEW x, NEW n, NEW l, NEW f, Queued(f, K, x, n, l),
         LeftByAnswer(L, K, x, l)
  PROVE  \E h : Queued(h, L, x, n, l) /\ \A i \in L : h[i] # 1
<1>1. CASE \A i \in L : f[i] # 1
  <2> DEFINE h == [i \in L |-> f[i]]
  <2>1. h \in [L -> DOMAIN l] /\ \A i \in L : i \in K /\ h[i] = f[i]
    BY DEF Queued, LeftByAnswer
  <2> HIDE DEF h
  <2>2. Queued(h, L, x, n, l)
    BY <2>1 DEF Queued
  <2>3. QED
    BY <1>1, <2>1, <2>2
<1>2. ASSUME NEW i \in L, f[i] = 1
      PROVE  \E h : Queued(h, L, x, n, l) /\ \A k \in L : h[k] # 1
  <2>1. i \in K /\ Carries(l[1], x[i])
    BY <1>2 DEF Queued, LeftByAnswer
  <2>2. PICK j \in K : j \notin L /\ x[j] = x[i]
    BY <2>1 DEF LeftByAnswer
  <2> DEFINE h == [k \in L |-> IF k = i THEN f[j] ELSE f[k]]
  <2>3. /\ h \in [L -> DOMAIN l] /\ h[i] = f[j]
        /\ \A k \in L : k \in K /\ k # j /\ (k # i => h[k] = f[k])
    BY <2>2 DEF Queued, LeftByAnswer
  <2> HIDE DEF h
  <2>4. \A k \in L : Carries(l[h[k]], x[k]) /\ Age(n, x[k]) <= Len(l) - h[k]
    BY <2>2, <2>3 DEF Queued
  <2>5. \A k, m \in L : h[k] = h[m] => k = m
    BY <2>2, <2>3 DEF Queued
  <2>6. \A k \in L : h[k] # 1
    BY <1>2, <2>1, <2>2, <2>3 DEF Queued
  <2>7. QED
    BY <2>3, <2>4, <2>5, <2>6 DEF Queued
<1>3. QED
  BY <1>1, <1>2

LEMMA HeadJoined ==
  ASSUME NEW S, NEW s \in Seq(S), NEW r \in Seq(S), s # <<>>
  PROVE  /\ s \o r \in Seq(S) /\ s \o r # <<>>
         /\ (s \o r)[1] = Head(s) /\ Tail(s \o r) = Tail(s) \o r
OBVIOUS

LEMMA EndJoined ==
  ASSUME NEW S, NEW s \in Seq(S), NEW r \in Seq(S), NEW m \in S
  PROVE  s \o (r \o << m >>) = (s \o r) \o << m >>
OBVIOUS

-----------------------------------------------------------------------------
\* Tokens and their age.

LEMMA AgeFacts ==
  ASSUME NEW n \in Tokens, NEW t \in Tokens, NEW m,
         m = IF n + 1 = SPP_TOKEN_MAX_RESERVED THEN 0 ELSE n + 1
  PROVE  /\ Age(n, t) \in Nat
         /\ Age(n, n) = 0
         /\ t # m => Age(m, t) = Age(n, t) + 1
         /\ Age(n, m) = SPP_TOKEN_MAX_RESERVED - 1
BY TokenAssumption DEF Tokens, Age

LEMMA Tokenless ==
  ASSUME NEW t
  PROVE  /\ \A m \in ClientMessages :
              m.type \notin {"GET_RESPONSE", "SET_RESPONSE"} => ~Carries(m, t)
         /\ \A m \in HostMessages : m.type = "CONNECT_RESPONSE" => ~Carries(m, t)
BY DEF ClientMessages, HostMessages, Carries

\* The answer to a request has its token.
LEMMA AnswersCarry ==
  ASSUME NEW m, NEW p
  PROVE  /\ \A t : Carries(m, t) => Carries(GetResponse(m.token, p), t)
         /\ \A t : Carries(m, t) => Carries(SetResponse(m.token), t)
BY DEF Carries, GetResponse, SetResponse

-----------------------------------------------------------------------------
\* What a step does to the requests under way.

LEMMA LineTyped ==
  ASSUME LinkTypeOK, NEW c \in Clients
  PROVE  \E S : /\ ClientMessages \subseteq S /\ HostMessages \subseteq S
                /\ toHost[c] \in Seq(S) /\ toClient[c] \in Seq(S)
<1>1. PICK CM, HM : /\ CM = ClientMessages /\ HM = HostMessages
                    /\ toHost \in [Clients -> Seq(CM)]
                    /\ toClient \in [Clients -> Seq(HM)]
  BY LinesAreSequences
<1>2. toHost[c] \in Seq(CM) /\ toClient[c] \in Seq(HM)
  BY <1>1
<1>3. \A A, B, s : s \in Seq(A) => s \in Seq(A \cup B) /\ s \in Seq(B \cup A)
  OBVIOUS
<1>4. toHost[c] \in Seq(CM \cup HM) /\ toClient[c] \in Seq(CM \cup HM)
  BY <1>2, <1>3
<1>5. QED
  BY <1>1, <1>4

LEMMA AgesTyped ==
  ASSUME IInv
  PROVE  /\ token_count \in Tokens /\ SppGetToken \in Tokens
         /\ \A i \in Slots \ FreeSlots : /\ pending_request_tokens[i] \in Tokens
                                         /\ Age(token_count, pending_request_tokens[i]) \in Nat
<1>1. /\ token_count \in Tokens /\ SppGetToken \in Tokens
      /\ \A i \in Slots \ FreeSlots : pending_request_tokens[i] \in Tokens
  BY NextTokenIsToken DEF IInv, Window, TokenTypeOK, FreeSlots
<1>2. QED
  BY <1>1, AgeFacts

\* The client sends something, of its own accord or in place of a message it took.
LEMMA ClientKeepsOrder ==
  ASSUME IInv, NEW c \in Clients, InOrder(c), UNCHANGED <<host_up, tokenVars>>,
         NEW m \in ClientMessages, toHost' = [toHost EXCEPT ![c] = @ \o << m >>],
         \/ UNCHANGED toClient
         \/ /\ toClient[c] # <<>> /\ toClient' = [toClient EXCEPT ![c] = Tail(@)]
            /\ \A t : Carries(Head(toClient[c]), t) => Carries(m, t)
  PROVE  InOrder(c)'
<1> SUFFICES ASSUME host_up'
             PROVE  \E h : Queued(h, (Slots \ FreeSlots)', pending_request_tokens', token_count', Line(c)')
  BY DEF InOrder
<1> DEFINE K == Slots \ FreeSlots
           x == pending_request_tokens
           n == token_count
           s == toHost[c]
           r == toClient[c]
<1>1. PICK S : m \in S /\ s \in Seq(S) /\ r \in Seq(S)
  BY LineTyped DEF IInv
<1>2. PICK f : Queued(f, K, x, n, s \o r)
  BY DEF InOrder, Line
<1>3. \A i \in K : Age(n, x[i]) \in Nat
  BY AgesTyped
<1>4. K' = K /\ x' = x /\ n' = n
  BY DEF tokenVars, FreeSlots
<1>5. s' = s \o << m >>
  BY DEF IInv, LinkTypeOK
<1>6. CASE UNCHANGED toClient
  <2>1. Line(c)' = (s \o << m >>) \o r
    BY <1>5, <1>6 DEF Line
  <2> HIDE DEF K, x, n, s, r
  <2>2. \E h : Queued(h, K, x, n, (s \o << m >>) \o r)
    BY <1>1, <1>2, <1>3, Inserted
  <2>3. QED
    BY <1>4, <2>1, <2>2 DEF K, x, n
<1>7. CASE /\ toClient[c] # <<>> /\ toClient' = [toClient EXCEPT ![c] = Tail(@)]
           /\ \A t : Carries(Head(toClient[c]), t) => Carries(m, t)
  <2>1. Line(c)' = (s \o << m >>) \o Tail(r)
    BY <1>5, <1>7 DEF Line, IInv, LinkTypeOK
  <2>2. r # <<>> /\ \A t : Carries(Head(r), t) => Carries(m, t)
    BY <1>7
  <2> HIDE DEF K, x, n, s, r
  <2>3. Queued(f, K, x, n, (s \o << m >>) \o Tail(r))
    BY <1>1, <1>2, <2>2, Answered
  <2>4. QED
    BY <1>4, <2>1, <2>3 DEF K, x, n
<1>8. QED
  BY <1>6, <1>7

\* The host handles a message that answers no request, and may send another.
LEMMA HostKeepsOrder ==
  ASSUME IInv, NEW c \in Clients, InOrder(c), UNCHANGED <<host_up, tokenVars>>, NEW ms,
         ms = <<>> \/ \E m \in HostMessages : ms = << m >>,
         toHost[c] # <<>>, \A t \in Tokens : ~Carries(Head(toHost[c]), t), ReplyToClient(c, ms)
  PROVE  InOrder(c)'
<1> SUFFICES ASSUME host_up'
             PROVE  \E h : Queued(h, (Slots \ FreeSlots)', pending_request_tokens', token_count', Line(c)')
  BY DEF InOrder
<1> DEFINE K == Slots \ FreeSlots
           x == pending_request_tokens
           n == token_count
           s == toHost[c]
           r == toClient[c]
<1>1. PICK S : HostMessages \subseteq S /\ s \in Seq(S) /\ r \in Seq(S)
  BY LineTyped DEF IInv
<1>2. PICK f : Queued(f, K, x, n, s \o r)
  BY DEF InOrder, Line
<1>3. \A i \in K : x[i] \in Tokens /\ Age(n, x[i]) \in Nat
  BY AgesTyped
<1>4. K' = K /\ x' = x /\ n' = n
  BY DEF tokenVars, FreeSlots
<1>5. Line(c)' = Tail(s) \o (r \o ms)
  BY DEF Line, ReplyToClient, IInv, LinkTypeOK
<1>6. s # <<>> /\ \A t \in Tokens : ~Carries(Head(s), t)
  OBVIOUS
<1> HIDE DEF K, x, n, s, r
<1>7. \A i \in K : f[i] # 1
  <2>1. (s \o r)[1] = Head(s)
    BY <1>1, <1>6, HeadJoined
  <2>2. QED
    BY <1>2, <1>3, <1>6, <2>1 DEF Queued
<1>8. PICK h : Queued(h, K, x, n, Tail(s) \o r)
  <2>1. s \o r \in Seq(S) /\ s \o r # <<>> /\ Tail(s \o r) = Tail(s) \o r
    BY <1>1, <1>6, HeadJoined
  <2>2. \E h : Queued(h, K, x, n, Tail(s \o r))
    BY <1>2, <1>3, <1>7, <2>1, HeadTaken
  <2>3. QED
    BY <2>1, <2>2
<1>9. Queued(h, K, x, n, Tail(s) \o (r \o ms))
  <2>1. Tail(s) \in Seq(S)
    BY <1>1, <1>6
  <2>2. CASE ms = <<>>
    <3>1. r \o ms = r
      BY <1>1, <2>2
    <3>2. QED
      BY <1>8, <3>1
  <2>3. ASSUME NEW m \in S, ms = << m >> PROVE Queued(h, K, x, n, Tail(s) \o (r \o ms))
    <3>1. Tail(s) \o r \in Seq(S)
      BY <1>1, <2>1, JoinAt
    <3>2. \A i \in K : /\ Age(n, x[i]) \in Nat /\ Age(n, x[i]) \in Nat
                       /\ Age(n, x[i]) <= Age(n, x[i]) + 1
      BY <1>3
    <3>3. Queued(h, K, x, n, (Tail(s) \o r) \o << m >>)
      BY <1>8, <3>1, <3>2, Appended
    <3>4. Tail(s) \o (r \o << m >>) = (Tail(s) \o r) \o << m >>
      BY <1>1, <2>1, <2>3, EndJoined
    <3>5. QED
      BY <2>3, <3>3, <3>4
  <2>4. QED
    BY <1>1, <2>2, <2>3
<1>10. QED
  BY <1>4, <1>5, <1>9 DEF K, x, n

\* An answer is taken from the line and frees a slot with its token.
LEMMA ResponseKeepsOrder ==
  ASSUME IInv, NEW c \in Clients, InOrder(c), NEW t \in Tokens,
         toHost[c] # <<>>, \A u : Carries(Head(toHost[c]), u) => u = t,
         SppClearToken(t), ReplyToClient(c, <<>>), UNCHANGED host_up
  PROVE  InOrder(c)'
<1> SUFFICES ASSUME host_up'
             PROVE  \E h : Queued(h, (Slots \ FreeSlots)', pending_request_tokens', token_count', Line(c)')
  BY DEF InOrder
<1> DEFINE K == Slots \ FreeSlots
           x == pending_request_tokens
           n == token_count
           s == toHost[c]
           r == toClient[c]
<1>1. PICK S : s \in Seq(S) /\ r \in Seq(S)
  BY LineTyped DEF IInv
<1>2. PICK f : Queued(f, K, x, n, s \o r)
  BY DEF InOrder, Line
<1>3. \A i \in K : x[i] \in Tokens /\ Age(n, x[i]) \in Nat
  BY AgesTyped
<1>4. n' = n
  BY DEF SppClearToken, tokenVars
<1>5. Line(c)' = Tail(s) \o r
  <2>1. Line(c)' = Tail(s) \o (r \o <<>>)
    BY DEF Line, ReplyToClient, IInv, LinkTypeOK
  <2>2. r \o <<>> = r
    BY <1>1
  <2>3. QED
    BY <2>1, <2>2
<1>6. s # <<>> /\ \A u : Carries(Head(s), u) => u = t
  OBVIOUS
<1>7. /\ K' \subseteq K /\ \A i \in K' : x'[i] = x[i]
      /\ \A i \in K' : x[i] = t => \E j \in K \ K' : x[j] = t
  <2>1. CASE SlotsOf(t) # {}
    <3> DEFINE j == Min(SlotsOf(t))
    <3>1. j \in SlotsOf(t)
      <4>1. SlotsOf(t) \subseteq Nat
        BY SlotsAssumption DEF SlotsOf, Slots
      <4>2. QED
        BY <2>1, <4>1, MinOfNats
    <3>2. j \in K /\ x[j] = t
      BY <3>1, TokenAssumption DEF SlotsOf, FreeSlots, Tokens
    <3>3. x' = [x EXCEPT ![j] = SPP_TOKEN_MAX_RESERVED]
      BY <2>1 DEF SppClearToken
    <3> HIDE DEF j
    <3>4. /\ x'[j] = SPP_TOKEN_MAX_RESERVED
          /\ \A i \in Slots \ {j} : x'[i] = x[i]
      BY <3>2, <3>3 DEF IInv, Window, TokenTypeOK
    <3>5. \A i \in K' : i # j /\ i \in K
      BY <3>4 DEF FreeSlots
    <3>6. QED
      BY <3>2, <3>4, <3>5
  <2>2. CASE SlotsOf(t) = {}
    <3>1. UNCHANGED pending_request_tokens
      BY <2>2 DEF SppClearToken, tokenVars
    <3>2. K' = K
      BY <3>1 DEF FreeSlots
    <3>3. \A i \in K : x[i] # t
      BY <2>2 DEF SlotsOf
    <3>4. QED
      BY <3>1, <3>2, <3>3
  <2>3. QED
    BY <2>1, <2>2
<1> HIDE DEF K, x, n, s, r
<1>8. PICK L, y, g : /\ L = K' /\ y = x' /\ L \subseteq K /\ \A i \in L : y[i] = x[i]
                     /\ Queued(g, L, x, n, s \o r) /\ \A i \in L : g[i] # 1
  <2>1. PICK l : l = s \o r /\ l[1] = Head(s)
    BY <1>1, <1>6, HeadJoined
  <2>2. PICK L, y : L = K' /\ y = x'
    OBVIOUS
  <2>3. LeftByAnswer(L, K, x, l)
    BY <1>6, <1>7, <2>1, <2>2 DEF LeftByAnswer
  <2>4. Queued(f, K, x, n, l)
    BY <1>2, <2>1
  <2>5. \E g : Queued(g, L, x, n, l) /\ \A i \in L : g[i] # 1
    BY <2>3, <2>4, HeadAnswers
  <2>6. QED
    BY <1>7, <2>1, <2>2, <2>5
<1>9. PICK h : Queued(h, L, x, n, Tail(s) \o r)
  <2>1. s \o r \in Seq(S) /\ s \o r # <<>> /\ Tail(s \o r) = Tail(s) \o r
    BY <1>1, <1>6, HeadJoined
  <2>2. \A i \in L : Age(n, x[i]) \in Nat
    BY <1>3, <1>8
  <2>3. \E h : Queued(h, L, x, n, Tail(s \o r))
    BY <1>8, <2>1, <2>2, HeadTaken
  <2>4. QED
    BY <2>1, <2>3
<1>10. \E e : Queued(e, L, y, n, Tail(s) \o r)
  <2>1. L \subseteq L /\ \A i \in L : y[i] = x[i]
    BY <1>8
  <2>2. QED
    BY <1>9, <2>1, FewerQueued
<1>11. QED
  BY <1>4, <1>5, <1>8, <1>10 DEF K, x, n

\* A request goes behind all others and is the youngest.
LEMMA IssueKeepsOrder ==
  ASSUME IInv, NEW c \in Clients, InOrder(c), NEW m \in HostMessages, IssueRequest(c, m),
         Carries(m, SppGetToken)
  PROVE  InOrder(c)'
<1> SUFFICES ASSUME host_up'
             PROVE  \E h : Queued(h, (Slots \ FreeSlots)', pending_request_tokens', token_count', Line(c)')
  BY DEF InOrder
<1> DEFINE K == Slots \ FreeSlots
           x == pending_request_tokens
           n == token_count
           s == toHost[c]
           r == toClient[c]
           t == SppGetToken
<1>1. PICK S : m \in S /\ s \in Seq(S) /\ r \in Seq(S)
  BY LineTyped DEF IInv
<1>2. host_up /\ SppInsertToken(t) /\ n' = t
  BY DEF IssueRequest
<1>3. PICK f : Queued(f, K, x, n, s \o r)
  BY <1>2 DEF InOrder, Line
<1>4. /\ n \in Tokens /\ t \in Tokens
      /\ t = IF n + 1 = SPP_TOKEN_MAX_RESERVED THEN 0 ELSE n + 1
      /\ \A i \in K : x[i] \in Tokens
  BY AgesTyped DEF SppGetToken
<1>5. Line(c)' = (s \o r) \o << m >>
  <2>1. Line(c)' = s \o Append(r, m)
    BY DEF Line, IssueRequest, IInv, LinkTypeOK
  <2>2. Append(r, m) = r \o << m >>
    BY <1>1, AppendAt
  <2> HIDE DEF s, r
  <2>3. s \o (r \o << m >>) = (s \o r) \o << m >>
    BY <1>1, EndJoined
  <2>4. QED
    BY <2>1, <2>2, <2>3
<1>6. PICK j \in Slots \cup {0} : /\ K' \subseteq K \cup {j}
                                  /\ \A i \in K' \ {j} : x'[i] = x[i]
                                  /\ j \in K' => x'[j] = t
  <2>1. CASE FreeSlots # {}
    <3> DEFINE j == Min(FreeSlots)
    <3>1. j \in FreeSlots /\ j \in Slots
      BY <2>1, MinOfNats, SlotsAssumption DEF FreeSlots, Slots
    <3>2. x' = [x EXCEPT ![j] = t]
      BY <1>2, <2>1 DEF SppInsertToken
    <3> HIDE DEF j, t
    <3>3. x'[j] = t /\ \A i \in Slots \ {j} : x'[i] = x[i]
      BY <3>1, <3>2 DEF IInv, Window, TokenTypeOK
    <3>4. K' \subseteq K \cup {j}
      BY <3>3 DEF FreeSlots
    <3>5. QED
      BY <3>1, <3>3, <3>4
  <2>2. CASE FreeSlots = {}
    <3>1. UNCHANGED pending_request_tokens
      BY <1>2, <2>2 DEF SppInsertToken
    <3>2. K' = K /\ 0 \notin K
      BY <3>1, SlotsAssumption DEF FreeSlots, Slots
    <3>3. QED
      BY <3>1, <3>2
  <2>3. QED
    BY <2>1, <2>2
<1> DEFINE l == s \o r
           z == l \o << m >>
           p == Len(l) + 1
<1>7. Carries(m, t)
  OBVIOUS
<1> HIDE DEF K, x, n, s, r, t
<1>8. l \in Seq(S)
  BY <1>1, JoinAt
<1>9. p \in DOMAIN z /\ z[p] = m /\ Len(z) - p = 0
  BY <1>1, <1>8
<1>10. \A i \in K : /\ Age(n, x[i]) \in Nat /\ Age(t, x[i]) \in Nat
                    /\ Age(t, x[i]) <= Age(n, x[i]) + 1
  <2>1. ASSUME NEW u \in Tokens
        PROVE  Age(n, u) \in Nat /\ Age(t, u) \in Nat /\ Age(t, u) <= Age(n, u) + 1
    <3>1. Age(n, u) \in Nat /\ (u # t => Age(t, u) = Age(n, u) + 1) /\ Age(t, t) = 0
      BY <1>4, AgeFacts
    <3>2. QED
      BY <3>1
  <2>2. QED
    BY <1>4, <2>1
<1> HIDE DEF l
<1>11. Queued(f, K, x, t, z) /\ \A i \in K : f[i] # p
  BY <1>1, <1>3, <1>8, <1>10, Appended DEF l
<1>12. Age(t, t) = 0
  BY <1>4, AgeFacts
<1> HIDE DEF z, p
<1>13. \E h : Queued(h, K', x', t, z)
  <2> DEFINE h == [i \in K' |-> IF i = j THEN p ELSE f[i]]
  <2>1. j \in K' => Carries(z[p], x'[j]) /\ Age(t, x'[j]) <= Len(z) - p
    BY <1>6, <1>7, <1>9, <1>12
  <2>2. /\ h \in [K' -> DOMAIN z] /\ \A i \in K' \ {j} : i \in K /\ h[i] = f[i]
        /\ j \in K' => h[j] = p
    BY <1>6, <1>9, <1>11 DEF Queued
  <2> HIDE DEF h
  <2>3. \A i \in K' : Carries(z[h[i]], x'[i]) /\ Age(t, x'[i]) <= Len(z) - h[i]
    BY <1>6, <1>11, <2>1, <2>2 DEF Queued
  <2>4. \A i, k \in K' : h[i] = h[k] => i = k
    BY <1>11, <2>2 DEF Queued
  <2>5. Queued(h, K', x', t, z)
    BY <2>2, <2>3, <2>4 DEF Queued
  <2>6. QED
    BY <2>5
<1>14. QED
  BY <1>2, <1>5, <1>13 DEF K, x, n, z, l

-----------------------------------------------------------------------------
\* A vehicle that is off was never on, and nothing is on its line.

LEMMA NobodyRestarts ==
  ASSUME IInv, NothingLost
  PROVE  NoClientRestarted
<1> SUFFICES ASSUME NEW c \in Clients PROVE client_boots[c] <= 1
  BY DEF NoClientRestarted
<1>1. client_boots[c] \in 0 .. MaxClientBoots
  BY DEF IInv, PowerTypeOK
<1>2. QED
  BY <1>1, BootsAssumption DEF NothingLost

LEMMA StaysOn ==
  ASSUME IInv, ListFacts, NothingLost, NEW c \in Clients, PowerOffClient(c)
  PROVE  FALSE
<1>1. client_boots[c] = 0
  BY BootsAssumption DEF IInv, PowerTypeOK, NothingLost, PowerOffClient
<1>2. QED
  BY <1>1 DEF ListFacts, LineKept, PowerOffClient, ClientCrash

\* A step on the line of a client that is on.
OnlyLine(c) ==
  /\ client_up[c]
  /\ UNCHANGED <<client_up, client_boots>>
  /\ \A b \in Clients \ {c} : /\ UNCHANGED <<toHost[b], toClient[b]>>
                              /\ Registered(b)' => Registered(b)

LEMMA OnlyLineKeepsOff ==
  ASSUME OffIsNewInv, NEW c \in Clients, OnlyLine(c)
  PROVE  OffIsNewInv'
BY DEF OffIsNewInv, OffIsNew, Silent, OnlyLine

LEMMA BusyIsOn ==
  ASSUME OffIsNewInv, NEW c \in Clients,
         toHost[c] # <<>> \/ toClient[c] # <<>> \/ Registered(c)
  PROVE  client_up[c]
BY DEF OffIsNewInv, OffIsNew, Silent

LEMMA OneLineChanges ==
  ASSUME LinkTypeOK, NEW c \in Clients, NEW x, NEW y,
         toHost' = toHost \/ toHost' = [toHost EXCEPT ![c] = x],
         toClient' = toClient \/ toClient' = [toClient EXCEPT ![c] = y]
  PROVE  \A b \in Clients \ {c} : UNCHANGED <<toHost[b], toClient[b]>>
<1>1. PICK CM, HM : /\ CM = ClientMessages /\ HM = HostMessages
                    /\ toHost \in [Clients -> Seq(CM)]
                    /\ toClient \in [Clients -> Seq(HM)]
  BY LinesAreSequences
<1>2. QED
  BY <1>1

LEMMA HostHandlesOnLine ==
  ASSUME IInv, OffIsNewInv, NEW c \in Clients, HostHandles(c)
  PROVE  OnlyLine(c)
<1>1. LinkTypeOK /\ UNCHANGED <<client_up, client_boots>> /\ HostReceive(c)
  BY DEF IInv, HostHandles, clientVars, bootVars
<1>2. toHost[c] # <<>> /\ \E ms : ReplyToClient(c, ms)
  BY <1>1 DEF HostReceive, ConnectBusy, ConnectAccepted, SppConnectToClient, PropListReceived,
              PropDefReceived, ResponseReceived, StreamReceived, Received, Discard
<1>3. \A b \in Clients \ {c} : UNCHANGED <<toHost[b], toClient[b]>>
  BY <1>1, <1>2, OneLineChanges DEF ReplyToClient
<1>4. \A b \in Clients \ {c} : Registered(b)' => Registered(b)
  <2>1. CASE ConnectAccepted(c)
    <3> DEFINE id == Head(toHost[c]).list_id
               e == [client |-> c, list_id |-> id]
    <3>1. clients' = IF Registered(c) THEN clients ELSE Append(clients, e)
      BY <2>1 DEF ConnectAccepted, SppConnectToClient, SppAddClient
    <3>2. PICK E : clients \in Seq(E)
      BY DEF IInv, Table, TableTypeOK
    <3>3. e.client = c
      OBVIOUS
    <3> HIDE DEF e
    <3>4. \A i \in DOMAIN clients' :
            \/ i \in DOMAIN clients /\ clients'[i] = clients[i]
            \/ clients'[i] = e
      BY <3>1, <3>2
    <3>5. QED
      BY <3>3, <3>4 DEF Registered
  <2>2. CASE ~ConnectAccepted(c)
    <3>1. clients' = clients
      BY <1>1, <2>2 DEF HostReceive, ConnectBusy, PropListReceived, PropDefReceived,
                        ResponseReceived, StreamReceived, tableVars
    <3>2. QED
      BY <3>1 DEF Registered
  <2>3. QED
    BY <2>1, <2>2
<1>5. QED
  BY <1>1, <1>2, <1>3, <1>4, BusyIsOn DEF OnlyLine

LEMMA ViewerAsksOnLine ==
  ASSUME IInv, OffIsNewInv, NEW c \in Clients, ViewerAsks(c)
  PROVE  OnlyLine(c)
<1>1. LinkTypeOK /\ UNCHANGED <<client_up, client_boots>>
  BY DEF IInv, ViewerAsks, clientVars, bootVars
<1>2. Registered(c) /\ \E m : IssueRequest(c, m)
  BY DEF ViewerAsks, SppHostGetValue, SppHostSetValue, SppHostStartStream, SppHostGetDefinition
<1>3. /\ toHost' = toHost /\ \E y : toClient' = [toClient EXCEPT ![c] = y]
      /\ clients' = clients
  BY <1>2 DEF IssueRequest, tableVars
<1>4. \A b \in Clients \ {c} : UNCHANGED <<toHost[b], toClient[b]>>
  BY <1>1, <1>3, OneLineChanges
<1>5. QED
  BY <1>1, <1>2, <1>3, <1>4, BusyIsOn DEF OnlyLine, Registered

LEMMA ClientOnLine ==
  ASSUME IInv, OffIsNewInv, NEW c \in Clients,
         ClientHandles(c) \/ ClientBroadcasts(c) \/ ClientStreams(c)
  PROVE  OnlyLine(c)
<1>1. LinkTypeOK /\ UNCHANGED <<client_boots, clients>>
  BY DEF IInv, ClientHandles, ClientBroadcasts, ClientStreams, bootVars, hostVars, tableVars
<1>2. client_up[c] /\ UNCHANGED client_up
  BY DEF ClientHandles, ClientBroadcasts, ClientStreams, ClientReceive, ConnectRefused, SendPropertyList,
         GetReceived, SetReceived, StreamRequested, SendPropDef, SppClientStart, SppProcessStreams,
         Addressed, clientVars
<1>3. \E x, y : /\ toHost' = [toHost EXCEPT ![c] = x]
                /\ toClient' = toClient \/ toClient' = [toClient EXCEPT ![c] = y]
  BY DEF ClientHandles, ClientBroadcasts, ClientStreams, ClientReceive, ConnectRefused, SendPropertyList,
         GetReceived, SetReceived, StreamRequested, SendPropDef, SppClientStart, SppProcessStreams,
         SendToHost, ReplyToHost
<1>4. \A b \in Clients \ {c} : UNCHANGED <<toHost[b], toClient[b]>>
  BY <1>1, <1>3, OneLineChanges
<1>5. QED
  BY <1>1, <1>2, <1>4 DEF OnlyLine, Registered

LEMMA NextKeepsOff ==
  ASSUME IInv, ListFacts, OffIsNewInv, [Next]_vars, NothingLost, DefaultClient = NoClient
  PROVE  OffIsNewInv'
<1>1. CASE UNCHANGED <<client_up, client_boots, toHost, toClient, clients>>
  BY <1>1 DEF OffIsNewInv, OffIsNew, Silent, Registered
<1>2. CASE PowerOnHost
  BY <1>2 DEF PowerOnHost, HostBoot, ClientsAtBoot, clientVars, OffIsNewInv, OffIsNew, Silent, Registered
<1>3. ASSUME NEW c \in Clients, PowerOnClient(c) PROVE OffIsNewInv'
  <2>1. /\ client_up'[c] /\ UNCHANGED <<toHost, toClient, clients>>
        /\ \A b \in Clients \ {c} : client_up'[b] = client_up[b] /\ client_boots'[b] = client_boots[b]
    BY <1>3 DEF PowerOnClient, ClientBoot, linkVars, hostVars, tableVars, IInv, PowerTypeOK, ClientTypeOK
  <2>2. QED
    BY <2>1 DEF OffIsNewInv, OffIsNew, Silent, Registered
<1>4. ASSUME NEW c \in Clients, Lose(c) PROVE OffIsNewInv'
  <2>1. /\ toHost[c] # <<>> \/ toClient[c] # <<>>
        /\ toHost' = toHost \/ toHost' = [toHost EXCEPT ![c] = Tail(@)]
        /\ toClient' = toClient \/ toClient' = [toClient EXCEPT ![c] = Tail(@)]
        /\ UNCHANGED <<client_up, client_boots, clients>>
    BY <1>4 DEF Lose, LoseToHost, LoseToClient, clientVars, bootVars, hostVars, tableVars
  <2>2. \A b \in Clients \ {c} : UNCHANGED <<toHost[b], toClient[b]>>
    BY <2>1, OneLineChanges DEF IInv
  <2>3. OnlyLine(c)
    BY <2>1, <2>2, BusyIsOn DEF OnlyLine, Registered
  <2>4. QED
    BY <2>3, OnlyLineKeepsOff
<1>5. ASSUME NEW c \in Clients,
             \/ HostHandles(c) \/ ViewerAsks(c)
             \/ ClientHandles(c) \/ ClientBroadcasts(c) \/ ClientStreams(c)
      PROVE  OffIsNewInv'
  BY <1>5, HostHandlesOnLine, ViewerAsksOnLine, ClientOnLine, OnlyLineKeepsOff
<1>6. ASSUME NEW c \in Clients, PowerOffClient(c) PROVE FALSE
  BY <1>6, StaysOn
<1>7. CASE PowerOffHost
  BY <1>1, <1>7 DEF PowerOffHost, HostCrash, clientVars, bootVars, linkVars, tableVars
<1>8. ASSUME NEW c \in Clients, Overrun(c) PROVE OffIsNewInv'
  BY <1>1, <1>8 DEF Overrun, HostOverrun, ClientOverrun, clientVars, bootVars, linkVars, hostVars, tableVars
<1>9. CASE UNCHANGED vars
  BY <1>1, <1>9 DEF vars, clientVars, bootVars, linkVars, hostVars, tableVars
<1>10. QED
  BY <1>2, <1>3, <1>4, <1>5, <1>6, <1>7, <1>8, <1>9 DEF Next

-----------------------------------------------------------------------------
\* One vehicle is never refused.

LEMMA StillAccepted ==
  ASSUME LinkTypeOK, NEW c \in Clients, \A b \in Clients : NeverRefused(b),
         \/ UNCHANGED toClient
         \/ toClient[c] # <<>> /\ toClient' = [toClient EXCEPT ![c] = Tail(@)]
         \/ toClient' = [toClient EXCEPT ![c] = @ \o <<>>]
         \/ \E m \in HostMessages :
              /\ m.type = "CONNECT_RESPONSE" => IsOk(m)
              /\ toClient' = [toClient EXCEPT ![c] = @ \o << m >>]
  PROVE  \A b \in Clients : NeverRefused(b)'
<1>1. PICK HM : HM = HostMessages /\ toClient \in [Clients -> Seq(HM)]
  BY LinesAreSequences
<1>2. toClient[c] \in Seq(HM) /\ \A b \in Clients \ {c} : toClient'[b] = toClient[b]
  BY <1>1
<1>3. \A k \in DOMAIN toClient'[c] :
        \/ \E l \in DOMAIN toClient[c] : toClient'[c][k] = toClient[c][l]
        \/ toClient'[c][k].type = "CONNECT_RESPONSE" => IsOk(toClient'[c][k])
  <2>1. CASE UNCHANGED toClient
    BY <2>1
  <2>2. CASE toClient[c] # <<>> /\ toClient' = [toClient EXCEPT ![c] = Tail(@)]
    <3>1. toClient'[c] = Tail(toClient[c])
      BY <1>1, <2>2
    <3>2. QED
      BY <1>2, <2>2, <3>1, TailAt
  <2>3. CASE toClient' = [toClient EXCEPT ![c] = @ \o <<>>]
    <3>1. toClient'[c] = toClient[c] \o <<>>
      BY <1>1, <2>3
    <3>2. toClient'[c] = toClient[c]
      BY <1>2, <3>1
    <3>3. QED
      BY <3>2
  <2>4. ASSUME NEW m \in HostMessages, m.type = "CONNECT_RESPONSE" => IsOk(m),
               toClient' = [toClient EXCEPT ![c] = @ \o << m >>]
        PROVE  \A k \in DOMAIN toClient'[c] :
                 \/ \E l \in DOMAIN toClient[c] : toClient'[c][k] = toClient[c][l]
                 \/ toClient'[c][k].type = "CONNECT_RESPONSE" => IsOk(toClient'[c][k])
    <3>1. toClient'[c] = toClient[c] \o << m >>
      BY <1>1, <2>4
    <3>2. QED
      BY <2>4, <3>1, PushedClient
  <2>5. QED
    BY <2>1, <2>2, <2>3, <2>4
<1>4. NeverRefused(c)'
  BY <1>3 DEF NeverRefused
<1>5. QED
  BY <1>2, <1>4 DEF NeverRefused

\* The only vehicle is new whenever it asks, and no list is being received then.
LEMMA OnlyRequestIsNew ==
  ASSUME IInv, ListFacts, OneVehicle, NEW c \in Clients, Received(c, "CONNECT_REQUEST_BC")
  PROVE  clients = <<>> /\ state = "READY"
<1>1. Requested(c)
  <2>1. PICK CM : CM = ClientMessages /\ toHost \in [Clients -> Seq(CM)]
    BY DEF IInv, LinkTypeOK
  <2>2. toHost[c] \in Seq(CM) /\ toHost[c] # <<>>
    BY <2>1 DEF Received
  <2>3. 1 \in DOMAIN toHost[c] /\ toHost[c][1] = Head(toHost[c])
    BY <2>2, TailAt
  <2>4. QED
    BY <2>3 DEF Requested, IsRequest, Received
<1>2. clients \in Seq([client : Clients, list_id : Nat])
  BY DEF IInv, Table, TableTypeOK
<1>3. clients # <<>> => Registered(c)
  <2>1. PICK E : E = [client : Clients, list_id : Nat] /\ clients \in Seq(E)
    BY <1>2
  <2>2. ASSUME NEW S, NEW s \in Seq(S), s # <<>> PROVE 1 \in DOMAIN s /\ s[1] \in S
    BY <2>2
  <2>3. clients # <<>> => 1 \in DOMAIN clients /\ clients[1] \in E
    BY <2>1, <2>2
  <2>4. clients # <<>> => clients[1].client \in Clients
    BY <2>1, <2>3
  <2>5. QED
    BY <2>3, <2>4 DEF OneVehicle, Registered
<1>4. clients = <<>>
  BY <1>1, <1>3 DEF ListFacts, EntryKept
<1>5. QED
  BY <1>4 DEF ListFacts, LastIsNew, IInv, Table, TableTypeOK

-----------------------------------------------------------------------------
\* Every step keeps what is known of the requests.

LEMMA BootKeepsRequests ==
  ASSUME \A c \in Clients : NeverRefused(c), PowerOnHost, DefaultClient = NoClient
  PROVE  RequestFacts'
<1>1. FreeSlots' = Slots
  BY DEF PowerOnHost, HostBoot, FreeSlots, NoTokens
<1>2. UNCHANGED toClient
  BY DEF PowerOnHost, HostBoot, ClientsAtBoot
<1>3. \A c \in Clients : InOrder(c)'
  <2> SUFFICES ASSUME NEW c \in Clients PROVE \E f : Queued(f, {}, pending_request_tokens', token_count', Line(c)')
    BY <1>1 DEF InOrder
  <2>1. Queued([i \in {} |-> 1], {}, pending_request_tokens', token_count', Line(c)')
    BY DEF Queued
  <2>2. QED
    BY <2>1
<1>4. QED
  BY <1>2, <1>3 DEF RequestFacts, NeverRefused

\* Steps that touch neither the slots nor the lines.
LEMMA IdleKeepsRequests ==
  ASSUME IInv, RequestFacts, UNCHANGED <<tokenVars, linkVars>>, host_up' => host_up
  PROVE  RequestFacts'
<1>1. UNCHANGED <<toHost, toClient, token_count, pending_request_tokens>>
  BY DEF tokenVars, linkVars
<1>2. UNCHANGED FreeSlots /\ \A c \in Clients : UNCHANGED Line(c)
  BY <1>1 DEF FreeSlots, Line
<1>3. \A c \in Clients : InOrder(c)' /\ NeverRefused(c)'
  BY <1>1, <1>2 DEF RequestFacts, InOrder, NeverRefused
<1>4. QED
  BY <1>3 DEF RequestFacts

\* The host handles a message that answers no request.
LEMMA OtherHandled ==
  ASSUME IInv, RequestFacts, OneVehicle, NEW c \in Clients, NEW ms,
         ms = <<>> \/ \E m \in HostMessages : IsOk(m) /\ ms = << m >>,
         toHost[c] # <<>>, Head(toHost[c]).type \notin {"GET_RESPONSE", "SET_RESPONSE"},
         ReplyToClient(c, ms), UNCHANGED <<host_up, tokenVars>>
  PROVE  RequestFacts'
<1>1. \A t \in Tokens : ~Carries(Head(toHost[c]), t)
  BY HeadsTyped, Tokenless DEF IInv
<1>2. InOrder(c)'
  BY <1>1, HostKeepsOrder DEF RequestFacts
<1>3. \A b \in Clients : NeverRefused(b)'
  BY StillAccepted DEF ReplyToClient, RequestFacts, IInv
<1>4. QED
  BY <1>2, <1>3 DEF RequestFacts, OneVehicle

LEMMA ResponseKeepsRequests ==
  ASSUME IInv, RequestFacts, OneVehicle, NEW c \in Clients, ResponseReceived(c)
  PROVE  RequestFacts'
<1> DEFINE m == Head(toHost[c])
<1>1. /\ toHost[c] # <<>> /\ m.type \in {"GET_RESPONSE", "SET_RESPONSE", "STREAM_RESPONSE"}
      /\ SppClearToken(m.token) /\ ReplyToClient(c, <<>>) /\ UNCHANGED host_up
  BY DEF ResponseReceived, Received, Discard
<1>2. m.token \in Tokens
  BY <1>1, HeadsTyped, ClientMessageFields DEF IInv
<1>3. \A u : Carries(m, u) => u = m.token
  BY DEF Carries
<1>4. InOrder(c)'
  BY <1>1, <1>2, <1>3, ResponseKeepsOrder DEF RequestFacts
<1>5. \A b \in Clients : NeverRefused(b)'
  BY <1>1, StillAccepted DEF ReplyToClient, RequestFacts, IInv
<1>6. QED
  BY <1>4, <1>5 DEF RequestFacts, OneVehicle

LEMMA HostHandlesKeepsRequests ==
  ASSUME IInv, ListFacts, RequestFacts, OneVehicle, NEW c \in Clients, HostHandles(c)
  PROVE  RequestFacts'
<1>1. CASE ConnectBusy(c)
  BY <1>1, OnlyRequestIsNew DEF ConnectBusy
<1>2. CASE ConnectAccepted(c)
  <2>1. /\ Received(c, "CONNECT_REQUEST_BC") /\ clients = <<>>
        /\ UNCHANGED <<host_up, tokenVars>>
    BY <1>2, OnlyRequestIsNew DEF ConnectAccepted
  <2>2. { i \in DOMAIN clients : clients[i].list_id = Head(toHost[c]).list_id } = {}
    BY <2>1
  <2>3. ReplyToClient(c, << ConnectResponse("OK") >>)
    BY <1>2, <2>2, RequestOfNew, NewClient
  <2>4. ConnectResponse("OK") \in HostMessages /\ IsOk(ConnectResponse("OK"))
    BY HostMessageTypes DEF IsOk
  <2>5. QED
    BY <2>1, <2>3, <2>4, OtherHandled DEF Received
<1>3. CASE PropListReceived(c) \/ PropDefReceived(c) \/ StreamReceived(c)
  <2>1. /\ toHost[c] # <<>> /\ Head(toHost[c]).type \in {"PROP_LIST_RESPONSE", "PROP_DEF", "STREAM"}
        /\ ReplyToClient(c, <<>>) /\ UNCHANGED <<host_up, tokenVars>>
    BY <1>3 DEF PropListReceived, PropDefReceived, StreamReceived, Discard, Received
  <2>2. QED
    BY <2>1, OtherHandled
<1>4. CASE ResponseReceived(c)
  BY <1>4, ResponseKeepsRequests
<1>5. QED
  BY <1>1, <1>2, <1>3, <1>4 DEF HostHandles, HostReceive

LEMMA ViewerAsksKeepsRequests ==
  ASSUME IInv, RequestFacts, OneVehicle, StreamProps = {}, NEW c \in Clients, ViewerAsks(c)
  PROVE  RequestFacts'
<1>1. SppGetToken \in Tokens
  BY NextTokenIsToken DEF IInv, Window, TokenTypeOK
<1>2. PICK m \in HostMessages :
        /\ Carries(m, SppGetToken) /\ m.type # "CONNECT_RESPONSE"
        /\ IssueRequest(c, m)
  <2>1. ASSUME NEW p \in AppProps
        PROVE  /\ GetRequest(SppGetToken, p) \in HostMessages
               /\ Carries(GetRequest(SppGetToken, p), SppGetToken)
               /\ GetRequest(SppGetToken, p).type # "CONNECT_RESPONSE"
               /\ SetRequest(SppGetToken, p) \in HostMessages
               /\ Carries(SetRequest(SppGetToken, p), SppGetToken)
               /\ SetRequest(SppGetToken, p).type # "CONNECT_RESPONSE"
    <3>1. GetRequest(SppGetToken, p) \in HostMessages /\ SetRequest(SppGetToken, p) \in HostMessages
      BY <1>1, HostMessageTypes
    <3>2. QED
      BY <3>1 DEF Carries, GetRequest, SetRequest
  <2>2. PICK p \in AppProps : SppHostGetValue(c, p) \/ SppHostSetValue(c, p)
    BY DEF ViewerAsks
  <2>3. IssueRequest(c, GetRequest(SppGetToken, p)) \/ IssueRequest(c, SetRequest(SppGetToken, p))
    BY <2>2 DEF SppHostGetValue, SppHostSetValue
  <2>4. QED
    BY <2>1, <2>3
<1>3. InOrder(c)'
  BY <1>2, IssueKeepsOrder DEF RequestFacts
<1>4. toClient' = [toClient EXCEPT ![c] = @ \o << m >>]
  <2>1. PICK HM : HM = HostMessages /\ toClient \in [Clients -> Seq(HM)]
    BY LinesAreSequences DEF IInv
  <2>2. Append(toClient[c], m) = toClient[c] \o << m >>
    BY <2>1, AppendAt
  <2>3. QED
    BY <1>2, <2>2 DEF IssueRequest
<1>5. \A b \in Clients : NeverRefused(b)'
  BY <1>2, <1>4, StillAccepted DEF RequestFacts, IInv
<1>6. QED
  BY <1>3, <1>5 DEF RequestFacts, OneVehicle

\* A client sends something that is no answer, of its own accord or when it was
\* asked for its list.
LEMMA ClientSends ==
  ASSUME IInv, RequestFacts, OneVehicle, NEW c \in Clients, NEW m \in ClientMessages,
         toHost' = [toHost EXCEPT ![c] = @ \o << m >>],
         \/ UNCHANGED toClient
         \/ /\ toClient[c] # <<>> /\ toClient' = [toClient EXCEPT ![c] = Tail(@)]
            /\ \A t : Carries(Head(toClient[c]), t) => Carries(m, t),
         UNCHANGED <<host_up, tokenVars>>
  PROVE  RequestFacts'
<1>1. InOrder(c)'
  BY ClientKeepsOrder DEF RequestFacts
<1>2. \A b \in Clients : NeverRefused(b)'
  BY StillAccepted DEF RequestFacts, IInv
<1>3. QED
  BY <1>1, <1>2 DEF RequestFacts, OneVehicle

\* A definition of the list is sent as a well-formed message.
LEMMA DefSent ==
  ASSUME IInv, NEW c \in Clients, SendPropDef(c)
  PROVE  \E m \in ClientMessages : SendToHost(c, << m >>)
<1> DEFINE i == sending[c]
           n == Len(PropertyList[c])
<1>1. i \in 1 .. n /\ n \in Nat
  BY ListedProps DEF SendPropDef, IInv, ClientTypeOK
<1>2. PropertyList[c][i] \in Props /\ n - i \in Nat
  BY <1>1, ListedProps
<1>3. PropDef(PropertyList[c][i], n - i) \in ClientMessages
  BY <1>2, ClientMessageTypes
<1>4. QED
  BY <1>3 DEF SendPropDef, RemainingAfter

LEMMA ClientHandlesKeepsRequests ==
  ASSUME IInv, RequestFacts, OneVehicle, StreamProps = {}, NEW c \in Clients, ClientHandles(c)
  PROVE  RequestFacts'
<1> DEFINE m == Head(toClient[c])
<1>0. UNCHANGED <<host_up, tokenVars>>
  BY DEF ClientHandles, hostVars
<1>1. toClient[c] # <<>> => m \in HostMessages
  BY HeadsTyped DEF IInv
<1>2. ASSUME toClient[c] # <<>>, m.type = "CONNECT_RESPONSE" PROVE m.status = "OK" /\ \A t : ~Carries(m, t)
  <2>1. PICK HM : HM = HostMessages /\ toClient \in [Clients -> Seq(HM)]
    BY LinesAreSequences DEF IInv
  <2>2. toClient[c] \in Seq(HM)
    BY <2>1
  <2>3. 1 \in DOMAIN toClient[c] /\ m = toClient[c][1]
    BY <1>2, <2>2, TailAt
  <2>4. m = ConnectResponse("OK")
    BY <1>2, <2>3 DEF RequestFacts, NeverRefused, IsOk
  <2>5. QED
    BY <2>4 DEF ConnectResponse, Carries
<1>3. ASSUME NEW r \in ClientMessages, toClient[c] # <<>>, ReplyToHost(c, << r >>),
             \A t : Carries(m, t) => Carries(r, t)
      PROVE  RequestFacts'
  BY <1>0, <1>3, ClientSends DEF ReplyToHost
<1>4. CASE ConnectRefused(c)
  BY <1>2, <1>4 DEF ConnectRefused, Addressed
<1>5. CASE SendPropertyList(c)
  <2>1. PropListResponse(Len(PropertyList[c])) \in ClientMessages
    BY ListedProps, ClientMessageTypes
  <2>2. /\ toClient[c] # <<>> /\ m.type = "CONNECT_RESPONSE"
        /\ ReplyToHost(c, << PropListResponse(Len(PropertyList[c])) >>)
    BY <1>5 DEF SendPropertyList, Addressed
  <2>3. QED
    BY <1>2, <1>3, <2>1, <2>2
<1>6. CASE GetReceived(c)
  <2>1. /\ toClient[c] # <<>> /\ m.type = "GET_REQUEST" /\ SppGetDefinition(c, m.prop)
        /\ ReplyToHost(c, << GetResponse(m.token, m.prop) >>)
    BY <1>6 DEF GetReceived, Addressed
  <2>2. GetResponse(m.token, m.prop) \in ClientMessages
    BY <1>1, <2>1, HostMessageFields, ListedProps, ClientMessageTypes
  <2>3. QED
    BY <1>3, <2>1, <2>2, AnswersCarry
<1>7. CASE SetReceived(c)
  <2>1. /\ toClient[c] # <<>> /\ m.type = "SET_REQUEST"
        /\ ReplyToHost(c, << SetResponse(m.token) >>)
    BY <1>7 DEF SetReceived, Addressed, SetAnswer
  <2>2. SetResponse(m.token) \in ClientMessages
    BY <1>1, <2>1, HostMessageFields, ClientMessageTypes
  <2>3. QED
    BY <1>3, <2>1, <2>2, AnswersCarry
<1>8. CASE StreamRequested(c)
  <2>1. m \in HostMessages /\ m.type = "STREAM_REQUEST"
    BY <1>1, <1>8 DEF StreamRequested, Addressed
  <2>2. QED
    BY <2>1 DEF HostMessages
<1>9. CASE SendPropDef(c)
  <2>1. PICK r \in ClientMessages : SendToHost(c, << r >>)
    BY <1>9, DefSent
  <2>2. UNCHANGED toClient
    BY <1>9 DEF SendPropDef
  <2>3. QED
    BY <1>0, <2>1, <2>2, ClientSends DEF SendToHost
<1>10. QED
  BY <1>4, <1>5, <1>6, <1>7, <1>8, <1>9 DEF ClientHandles, ClientReceive

LEMMA BroadcastKeepsRequests ==
  ASSUME IInv, RequestFacts, OneVehicle, NEW c \in Clients, ClientBroadcasts(c)
  PROVE  RequestFacts'
<1>1. ConnectRequest(ListId[c]) \in ClientMessages
  BY ListIdAssumption, ClientMessageTypes
<1>2. QED
  BY <1>1, ClientSends DEF ClientBroadcasts, SppClientStart, SendToHost, hostVars

\* A stream whose property the client has is sent as a well-formed message.
LEMMA StreamSent ==
  ASSUME IInv, NEW c \in Clients, ClientStreams(c)
  PROVE  \E m \in ClientMessages : SendToHost(c, << m >>)
<1>1. PICK i \in DOMAIN client_streams[c] :
        /\ client_streams[c][i].def # NoDef
        /\ SendToHost(c, << StreamData(client_streams[c][i].stream_id, client_streams[c][i].def) >>)
  BY DEF ClientStreams, SppProcessStreams
<1>2. client_streams[c][i].stream_id \in StreamIds /\ client_streams[c][i].def \in Props
  <2> DEFINE E == [stream_id : StreamIds, def : Props \cup {NoDef}]
  <2>1. client_streams[c] \in Seq(E)
    BY DEF IInv, ClientTypeOK
  <2> HIDE DEF E
  <2>2. client_streams[c][i] \in E
    BY <1>1, <2>1
  <2>3. QED
    BY <1>1, <2>2 DEF E
<1>3. StreamData(client_streams[c][i].stream_id, client_streams[c][i].def) \in ClientMessages
  BY <1>2, ClientMessageTypes
<1>4. QED
  BY <1>1, <1>3

LEMMA StreamsKeepRequests ==
  ASSUME IInv, RequestFacts, OneVehicle, NEW c \in Clients, ClientStreams(c)
  PROVE  RequestFacts'
<1>1. PICK m \in ClientMessages : toHost' = [toHost EXCEPT ![c] = @ \o << m >>]
  BY StreamSent DEF SendToHost
<1>2. UNCHANGED <<toClient, host_up, tokenVars>>
  BY DEF ClientStreams, SppProcessStreams, hostVars
<1>3. QED
  BY <1>1, <1>2, ClientSends

\* What is lost is lost on the way to a host that is down.
LEMMA LossKeepsRequests ==
  ASSUME IInv, RequestFacts, OffIsNewInv, NothingLost, NEW c \in Clients, Lose(c)
  PROVE  RequestFacts'
<1>1. ~host_up /\ LoseToHost(c) /\ UNCHANGED <<host_up, tokenVars>>
  BY BusyIsOn DEF Lose, NothingLost, LoseToClient, hostVars
<1>2. UNCHANGED toClient
  BY <1>1 DEF LoseToHost
<1>3. \A b \in Clients : InOrder(b)'
  BY <1>1 DEF InOrder
<1>4. QED
  BY <1>2, <1>3 DEF RequestFacts, NeverRefused

LEMMA NextKeepsRequests ==
  ASSUME IInv, ListFacts, OffIsNewInv, RequestFacts, [Next]_vars,
         NothingLost, OneVehicle, DefaultClient = NoClient, StreamProps = {}
  PROVE  RequestFacts'
<1>1. CASE PowerOnHost
  BY <1>1, BootKeepsRequests DEF RequestFacts
<1>2. CASE \/ UNCHANGED vars \/ PowerOffHost
           \/ \E c \in Clients : PowerOnClient(c) \/ Overrun(c)
  <2>1. UNCHANGED <<tokenVars, linkVars>> /\ (host_up' => host_up)
    BY <1>2 DEF vars, hostVars, PowerOffHost, HostCrash, PowerOnClient, ClientBoot, Overrun,
                HostOverrun, ClientOverrun
  <2>2. QED
    BY <2>1, IdleKeepsRequests
<1>3. ASSUME NEW c \in Clients, PowerOffClient(c) PROVE FALSE
  BY <1>3, StaysOn
<1>4. ASSUME NEW c \in Clients, HostHandles(c) PROVE RequestFacts'
  BY <1>4, HostHandlesKeepsRequests
<1>5. ASSUME NEW c \in Clients, ViewerAsks(c) PROVE RequestFacts'
  BY <1>5, ViewerAsksKeepsRequests
<1>6. ASSUME NEW c \in Clients, ClientHandles(c) \/ ClientBroadcasts(c) \/ ClientStreams(c)
      PROVE  RequestFacts'
  BY <1>6, ClientHandlesKeepsRequests, BroadcastKeepsRequests, StreamsKeepRequests
<1>7. ASSUME NEW c \in Clients, Lose(c) PROVE RequestFacts'
  BY <1>7, LossKeepsRequests
<1>8. QED
  BY <1>1, <1>2, <1>3, <1>4, <1>5, <1>6, <1>7 DEF Next

LEMMA InitRequests == Init => OffIsNewInv /\ RequestFacts
<1> SUFFICES ASSUME Init PROVE OffIsNewInv /\ RequestFacts
  OBVIOUS
<1>1. \A c \in Clients : toHost[c] = <<>> /\ toClient[c] = <<>> /\ client_boots[c] = 0
  BY DEF Init
<1>2. clients = <<>> /\ FreeSlots = Slots
  BY DEF Init, FreeSlots, NoTokens
<1>3. QED
  BY <1>1, <1>2 DEF Init, OffIsNewInv, OffIsNew, Silent, Registered, RequestFacts, InOrder, NeverRefused

LEMMA AlwaysRequests ==
  ASSUME NothingLost, OneVehicle, DefaultClient = NoClient, StreamProps = {}
  PROVE  Spec => [](IInv /\ RequestFacts)
<1> DEFINE Inv == IInv /\ ListInv /\ OffIsNewInv /\ RequestFacts
<1>1. Init => Inv
  BY InitIInv, InitLists, InitRequests
<1>2. Inv /\ [Next]_vars => Inv'
  <2> SUFFICES ASSUME Inv, [Next]_vars PROVE Inv'
    OBVIOUS
  <2>1. IInv' /\ ListInv'
    BY NextKeepsIInv, NextKeepsLists
  <2>2. ListFacts
    BY NobodyRestarts DEF ListInv
  <2>3. OffIsNewInv' /\ RequestFacts'
    BY <2>2, NextKeepsOff, NextKeepsRequests
  <2>4. QED
    BY <2>1, <2>3
<1>3. Inv => IInv /\ RequestFacts
  OBVIOUS
<1>4. QED
  BY <1>1, <1>2, <1>3, PTL DEF Spec

\* A request with the token that comes next has had every other token given out
\* since, and a message for each is behind its own.
LEMMA NextTokenIsOldest ==
  ASSUME IInv, NEW c \in Clients, InOrder(c), host_up,
         NEW i \in Slots \ FreeSlots, pending_request_tokens[i] = SppGetToken
  PROVE  Len(toHost[c]) + Len(toClient[c]) >= SPP_TOKEN_MAX_RESERVED
<1>1. PICK S : toHost[c] \in Seq(S) /\ toClient[c] \in Seq(S)
  BY LineTyped DEF IInv
<1> DEFINE l == Line(c)
           h == Len(toHost[c]) + Len(toClient[c])
<1>2. h \in Nat /\ Len(l) = h /\ DOMAIN l = 1 .. h
  <2>1. PICK a, b \in Seq(S) : a = toHost[c] /\ b = toClient[c]
    BY <1>1
  <2>2. Len(a) + Len(b) \in Nat /\ Len(a \o b) = Len(a) + Len(b) /\ DOMAIN (a \o b) = 1 .. Len(a) + Len(b)
    OBVIOUS
  <2>3. QED
    BY <2>1, <2>2 DEF Line
<1>3. PICK f : Queued(f, Slots \ FreeSlots, pending_request_tokens, token_count, l)
  BY DEF InOrder
<1> HIDE DEF l, h
<1>4. f[i] \in 1 .. h /\ Age(token_count, SppGetToken) <= h - f[i]
  BY <1>2, <1>3 DEF Queued
<1>5. Age(token_count, SppGetToken) = SPP_TOKEN_MAX_RESERVED - 1
  BY AgesTyped, AgeFacts DEF SppGetToken
<1>6. SPP_TOKEN_MAX_RESERVED \in Nat
  BY TokenAssumption
<1>7. h >= SPP_TOKEN_MAX_RESERVED
  BY <1>2, <1>4, <1>5, <1>6
<1>8. QED
  BY <1>7 DEF h

\* The 8-bit token (SppGetToken, spp/src-host/spp.c:151) is not given out again
\* while the request that has it still waits, unless the line holds as many messages
\* as there are tokens.  So it is for one vehicle that stays on, on a line that loses
\* nothing, used for gets and sets; it holds of every number of restarts of the
\* server, of requests asked at once, every list and every size of the request
\* window, and however often tokens have been used twice before.  The request window
\* is no substitute for the line, for once it is full it refuses nothing any more
\* (spp/src-host/spp.c:344).
THEOREM AnswersToldApart ==
  ASSUME NothingLost, OneVehicle, DefaultClient = NoClient, StreamProps = {}
  PROVE  Spec => []ReuseNeedsFullLine
<1>1. IInv /\ RequestFacts => ReuseNeedsFullLine
  BY NextTokenIsOldest DEF RequestFacts, OneVehicle, ReuseNeedsFullLine
<1>2. QED
  BY <1>1, AlwaysRequests, PTL

-----------------------------------------------------------------------------
\* Each pending request has a message of its own.  For this it does not matter how
\* many messages or vehicles there are, and whether tokens are distinct: two slots
\* with one token have two messages.

Ways == {"ask", "answer"}

\* A place on a line: whose, which way, the how manieth.
Spots == Clients \X Ways \X Int

\* The messages on a way when those to the host are a and those to the clients q.
OnWay(a, q, c, w) == IF w = "ask" THEN q[c] ELSE a[c]

Bears(a, q, p, t) ==
  /\ p[3] \in DOMAIN OnWay(a, q, p[1], p[2])
  /\ Carries(OnWay(a, q, p[1], p[2])[p[3]], t)

\* f gives each of the slots in K a message with its token.
Gives(f, K, tokens, a, q) ==
  /\ f \in [K -> Spots]
  /\ \A i \in K : Bears(a, q, f[i], tokens[i])
  /\ \A i, j \in K : f[i] = f[j] => i = j

EachHasItsOwn ==
  host_up =>
    \E f : Gives(f, Slots \ FreeSlots, pending_request_tokens, toHost, toClient)

LEMMA FewerSlots ==
  ASSUME NEW K, NEW L, L \subseteq K, NEW x, NEW y, \A i \in L : y[i] = x[i],
         NEW a, NEW q, NEW f, Gives(f, K, x, a, q)
  PROVE  \E h : Gives(h, L, y, a, q)
<1> DEFINE h == [i \in L |-> f[i]]
<1>1. h \in [L -> Spots] /\ \A i \in L : h[i] = f[i]
  BY DEF Gives
<1> HIDE DEF h
<1>2. Gives(h, L, y, a, q)
  BY <1>1 DEF Gives
<1>3. QED
  BY <1>2

\* A line that grows keeps its messages where they are.
LEMMA Grown ==
  ASSUME NEW K, NEW x, NEW a, NEW q, NEW f, Gives(f, K, x, a, q), NEW b, NEW r,
         \A c \in Clients, w \in Ways : \A k \in DOMAIN OnWay(a, q, c, w) :
           k \in DOMAIN OnWay(b, r, c, w) /\ OnWay(b, r, c, w)[k] = OnWay(a, q, c, w)[k]
  PROVE  Gives(f, K, x, b, r)
<1>1. ASSUME NEW i \in K PROVE Bears(b, r, f[i], x[i])
  <2>1. Bears(a, q, f[i], x[i]) /\ f[i] \in Spots
    BY DEF Gives
  <2>2. PICK p : p = f[i] /\ p[1] \in Clients /\ p[2] \in Ways
    BY <2>1 DEF Spots
  <2>3. QED
    BY <2>1, <2>2 DEF Bears
<1>2. QED
  BY <1>1 DEF Gives

\* Of all lines only that of c on the way w changes, and loses its head.
HeadGone(a, q, b, r, c, w) ==
  /\ \E S : OnWay(a, q, c, w) \in Seq(S)
  /\ OnWay(a, q, c, w) # <<>>
  /\ OnWay(b, r, c, w) = Tail(OnWay(a, q, c, w))
  /\ \A d \in Clients, v \in Ways : d # c \/ v # w => OnWay(b, r, d, v) = OnWay(a, q, d, v)

\* A line loses its head, which is no slot's message.
LEMMA Shortened ==
  ASSUME NEW K, NEW x, NEW a, NEW q, NEW f, Gives(f, K, x, a, q), NEW b, NEW r,
         NEW c \in Clients, NEW w \in Ways, HeadGone(a, q, b, r, c, w),
         \A i \in K : f[i] # << c, w, 1 >>
  PROVE  \E h : Gives(h, K, x, b, r)
<1> DEFINE line == OnWay(a, q, c, w)
           z == Tail(line)
           Move(p) == IF p[1] = c /\ p[2] = w THEN << c, w, p[3] - 1 >> ELSE p
           h == [i \in K |-> Move(f[i])]
<1>0. /\ OnWay(b, r, c, w) = z
      /\ \A d \in Clients, v \in Ways : d # c \/ v # w => OnWay(b, r, d, v) = OnWay(a, q, d, v)
  BY DEF HeadGone
<1>1. \A k \in DOMAIN line : k \in Int /\ (k # 1 => k - 1 \in DOMAIN z /\ z[k - 1] = line[k])
  <2>1. PICK S, l : l = line /\ l \in Seq(S) /\ l # <<>>
    BY DEF HeadGone
  <2>2. \A k \in DOMAIN l : k \in Int /\ (k # 1 => k - 1 \in DOMAIN Tail(l) /\ Tail(l)[k - 1] = l[k])
    BY <2>1
  <2>3. QED
    BY <2>1, <2>2
<1>2. \A p \in Spots : /\ p = << p[1], p[2], p[3] >> /\ p[1] \in Clients /\ p[2] \in Ways /\ p[3] \in Int
                       /\ Move(p) \in Spots
  BY DEF Spots
<1>3. \A i \in K : f[i] \in Spots
  BY DEF Gives
<1>4. h \in [K -> Spots]
  BY <1>2, <1>3
<1>5. ASSUME NEW i \in K PROVE Bears(b, r, h[i], x[i])
  <2>1. PICK p \in Spots : p = f[i] /\ Bears(a, q, p, x[i]) /\ h[i] = Move(p) /\ p # << c, w, 1 >>
    BY <1>3 DEF Gives
  <2>2. CASE p[1] = c /\ p[2] = w
    <3>1. p[3] \in DOMAIN line /\ Carries(line[p[3]], x[i]) /\ p[3] # 1
      BY <1>2, <2>1, <2>2 DEF Bears
    <3>2. p[3] - 1 \in DOMAIN z /\ Carries(z[p[3] - 1], x[i])
      BY <1>1, <3>1
    <3>3. PICK n : n = p[3] - 1 /\ h[i] = << c, w, n >> /\ n \in DOMAIN z /\ Carries(z[n], x[i])
      BY <2>1, <2>2, <3>2
    <3>4. Bears(b, r, << c, w, n >>, x[i])
      <4>1. OnWay(b, r, c, w) = z /\ << c, w, n >>[1] = c /\ << c, w, n >>[2] = w /\ << c, w, n >>[3] = n
        BY <1>0
      <4> HIDE DEF z
      <4>2. QED
        BY <3>3, <4>1, Zenon DEF Bears
    <3>5. QED
      BY <3>3, <3>4
  <2>3. CASE ~(p[1] = c /\ p[2] = w)
    BY <1>0, <1>2, <2>1, <2>3 DEF Bears
  <2>4. QED
    BY <2>2, <2>3
<1>6. ASSUME NEW i \in K, NEW j \in K, h[i] = h[j] PROVE i = j
  <2>1. f[i] \in Spots /\ f[j] \in Spots /\ Move(f[i]) = Move(f[j])
    BY <1>3, <1>6
  <2>2. ASSUME NEW p \in Spots, NEW s \in Spots, Move(p) = Move(s) PROVE p = s
    <3>1. CASE p[1] = c /\ p[2] = w /\ s[1] = c /\ s[2] = w
      <4>1. p[3] - 1 = s[3] - 1 /\ p[3] \in Int /\ s[3] \in Int
        BY <1>2, <2>2, <3>1
      <4>2. \A m, n \in Int : m - 1 = n - 1 => m = n
        OBVIOUS
      <4>3. p[3] = s[3] /\ p = << p[1], p[2], p[3] >> /\ s = << s[1], s[2], s[3] >>
        BY <1>2, <4>1, <4>2, Zenon
      <4>4. QED
        BY <3>1, <4>3, Zenon
    <3>2. CASE ~(p[1] = c /\ p[2] = w /\ s[1] = c /\ s[2] = w)
      BY <1>2, <2>2, <3>2
    <3>3. QED
      BY <3>1, <3>2
  <2>3. f[i] = f[j]
    BY <2>1, <2>2
  <2>4. QED
    BY <2>3 DEF Gives
<1>7. QED
  BY <1>4, <1>5, <1>6 DEF Gives

\* The message at one place hands its token over to a new one elsewhere.
LEMMA HandedOver ==
  ASSUME NEW K, NEW x, NEW a, NEW q, NEW f, Gives(f, K, x, a, q),
         NEW o \in Spots, NEW n \in Spots, o # n,
         \A i \in K : f[i] # n,
         \A t : Bears(a, q, o, t) => Bears(a, q, n, t)
  PROVE  \E h : Gives(h, K, x, a, q) /\ \A i \in K : h[i] # o
<1> DEFINE h == [i \in K |-> IF f[i] = o THEN n ELSE f[i]]
<1>1. h \in [K -> Spots] /\ \A i \in K : h[i] # o
  BY DEF Gives
<1>2. \A i \in K : Bears(a, q, h[i], x[i])
  BY DEF Gives
<1>3. \A i, j \in K : h[i] = h[j] => i = j
  BY DEF Gives
<1>4. QED
  BY <1>1, <1>2, <1>3 DEF Gives

\* An answer frees a slot with its token, maybe not the one it was for: then that
\* one gets the message of the slot that was freed.
LEMMA AnswerTaken ==
  ASSUME NEW K, NEW x, NEW a, NEW q, NEW f, Gives(f, K, x, a, q),
         NEW o \in Spots, NEW t, \A u : Bears(a, q, o, u) => u = t,
         NEW j, j \in K => x[j] = t, (\E i \in K : x[i] = t) => j \in K
  PROVE  \E h : Gives(h, K \ {j}, x, a, q) /\ \A i \in K \ {j} : h[i] # o
<1>1. CASE \A i \in K \ {j} : f[i] # o
  <2> DEFINE h == [i \in K \ {j} |-> f[i]]
  <2>1. h \in [K \ {j} -> Spots] /\ \A i \in K \ {j} : h[i] = f[i]
    BY DEF Gives
  <2> HIDE DEF h
  <2>2. Gives(h, K \ {j}, x, a, q)
    BY <2>1 DEF Gives
  <2>3. QED
    BY <1>1, <2>1, <2>2
<1>2. ASSUME NEW i \in K \ {j}, f[i] = o PROVE \E h : Gives(h, K \ {j}, x, a, q) /\ \A l \in K \ {j} : h[l] # o
  <2> DEFINE h == [l \in K \ {j} |-> IF l = i THEN f[j] ELSE f[l]]
  <2>1. x[i] = t
    BY <1>2 DEF Gives
  <2>2. j \in K /\ x[j] = t
    BY <2>1
  <2>3. h \in [K \ {j} -> Spots] /\ h[i] = f[j] /\ \A l \in K \ {j} : l # i => h[l] = f[l]
    BY <2>2 DEF Gives
  <2> HIDE DEF h
  <2>4. \A l \in K \ {j} : Bears(a, q, h[l], x[l])
    BY <2>1, <2>2, <2>3 DEF Gives
  <2>5. \A l, m \in K \ {j} : h[l] = h[m] => l = m
    BY <2>2, <2>3 DEF Gives
  <2>6. \A l \in K \ {j} : h[l] # o
    BY <1>2, <2>2, <2>3 DEF Gives
  <2>7. QED
    BY <2>3, <2>4, <2>5, <2>6 DEF Gives
<1>3. QED
  BY <1>1, <1>2

LEMMA BearsThere ==
  ASSUME NEW a, NEW q, NEW p, NEW m, NEW l, OnWay(a, q, p[1], p[2]) = l,
         p[3] \in DOMAIN l, l[p[3]] = m
  PROVE  \A t : Carries(m, t) => Bears(a, q, p, t)
  BY DEF Bears

\* The four things a step does to the lines.

LEMMA ToHostGrows ==
  ASSUME LinkTypeOK, NEW c \in Clients, NEW m \in ClientMessages,
         toHost' = [toHost EXCEPT ![c] = @ \o << m >>],
         NEW K, NEW x, NEW q, NEW f, Gives(f, K, x, toHost, q)
  PROVE  /\ Gives(f, K, x, toHost', q)
         /\ \E n \in Int : /\ \A i \in K : f[i] # << c, "answer", n >>
                           /\ \A t : Carries(m, t) => Bears(toHost', q, << c, "answer", n >>, t)
<1>1. PICK CM, HM : /\ CM = ClientMessages /\ HM = HostMessages
                    /\ toHost \in [Clients -> Seq(CM)]
                    /\ toClient \in [Clients -> Seq(HM)]
  BY LinesAreSequences
<1> DEFINE n == Len(toHost[c]) + 1
<1>2. toHost[c] \in Seq(CM) /\ m \in CM
  BY <1>1
<1>3. toHost'[c] = toHost[c] \o << m >> /\ \A d \in Clients \ {c} : toHost'[d] = toHost[d]
  BY <1>1
<1>4. /\ n \in Int /\ n \in DOMAIN toHost'[c] /\ toHost'[c][n] = m /\ n \notin DOMAIN toHost[c]
      /\ \A k \in DOMAIN toHost[c] : k \in DOMAIN toHost'[c] /\ toHost'[c][k] = toHost[c][k]
  BY <1>2, <1>3
<1> HIDE DEF n
<1>5. Gives(f, K, x, toHost', q)
  <2>1. PICK a, b : a = toHost /\ b = toHost'
    OBVIOUS
  <2>2. \A d \in Clients, w \in Ways : \A k \in DOMAIN OnWay(a, q, d, w) :
          k \in DOMAIN OnWay(b, q, d, w) /\ OnWay(b, q, d, w)[k] = OnWay(a, q, d, w)[k]
    BY <1>3, <1>4, <2>1 DEF OnWay
  <2>3. Gives(f, K, x, a, q)
    BY <2>1
  <2>4. Gives(f, K, x, b, q)
    BY <2>2, <2>3, Grown
  <2>5. QED
    BY <2>1, <2>4
<1> DEFINE p == << c, "answer", n >>
<1>6. p[1] = c /\ p[2] = "answer" /\ p[3] = n
  OBVIOUS
<1> HIDE DEF p
<1>7. \A i \in K : f[i] # p
  <2>1. OnWay(toHost, q, c, "answer") = toHost[c]
    BY DEF OnWay
  <2>2. \A t : ~Bears(toHost, q, p, t)
    BY <1>4, <1>6, <2>1 DEF Bears
  <2>3. QED
    BY <2>2 DEF Gives
<1>8. \A t : Carries(m, t) => Bears(toHost', q, p, t)
  <2>1. OnWay(toHost', q, c, "answer") = toHost'[c]
    BY DEF OnWay
  <2>2. OnWay(toHost', q, p[1], p[2]) = toHost'[c]
    BY <1>6, <2>1
  <2>3. p[3] \in DOMAIN toHost'[c] /\ toHost'[c][p[3]] = m
    BY <1>4, <1>6
  <2>4. QED
    BY <2>2, <2>3, BearsThere
<1>9. QED
  BY <1>4, <1>5, <1>7, <1>8 DEF p

LEMMA ToClientGrows ==
  ASSUME LinkTypeOK, NEW c \in Clients, NEW m \in HostMessages,
         toClient' = [toClient EXCEPT ![c] = @ \o << m >>],
         NEW K, NEW x, NEW a, NEW f, Gives(f, K, x, a, toClient)
  PROVE  /\ Gives(f, K, x, a, toClient')
         /\ \E n \in Int : /\ \A i \in K : f[i] # << c, "ask", n >>
                           /\ \A t : Carries(m, t) => Bears(a, toClient', << c, "ask", n >>, t)
<1>1. PICK CM, HM : /\ CM = ClientMessages /\ HM = HostMessages
                    /\ toHost \in [Clients -> Seq(CM)]
                    /\ toClient \in [Clients -> Seq(HM)]
  BY LinesAreSequences
<1> DEFINE n == Len(toClient[c]) + 1
<1>2. toClient[c] \in Seq(HM) /\ m \in HM
  BY <1>1
<1>3. toClient'[c] = toClient[c] \o << m >> /\ \A d \in Clients \ {c} : toClient'[d] = toClient[d]
  BY <1>1
<1>4. /\ n \in Int /\ n \in DOMAIN toClient'[c] /\ toClient'[c][n] = m /\ n \notin DOMAIN toClient[c]
      /\ \A k \in DOMAIN toClient[c] : k \in DOMAIN toClient'[c] /\ toClient'[c][k] = toClient[c][k]
  BY <1>2, <1>3
<1> HIDE DEF n
<1>5. Gives(f, K, x, a, toClient')
  <2>1. PICK q, r : q = toClient /\ r = toClient'
    OBVIOUS
  <2>2. \A d \in Clients, w \in Ways : \A k \in DOMAIN OnWay(a, q, d, w) :
          k \in DOMAIN OnWay(a, r, d, w) /\ OnWay(a, r, d, w)[k] = OnWay(a, q, d, w)[k]
    BY <1>3, <1>4, <2>1 DEF OnWay
  <2>3. Gives(f, K, x, a, q)
    BY <2>1
  <2>4. Gives(f, K, x, a, r)
    BY <2>2, <2>3, Grown
  <2>5. QED
    BY <2>1, <2>4
<1> DEFINE p == << c, "ask", n >>
<1>6. p[1] = c /\ p[2] = "ask" /\ p[3] = n
  OBVIOUS
<1> HIDE DEF p
<1>7. \A i \in K : f[i] # p
  <2>1. OnWay(a, toClient, c, "ask") = toClient[c]
    BY DEF OnWay
  <2>2. \A t : ~Bears(a, toClient, p, t)
    BY <1>4, <1>6, <2>1 DEF Bears
  <2>3. QED
    BY <2>2 DEF Gives
<1>8. \A t : Carries(m, t) => Bears(a, toClient', p, t)
  <2>1. OnWay(a, toClient', c, "ask") = toClient'[c]
    BY DEF OnWay
  <2>2. OnWay(a, toClient', p[1], p[2]) = toClient'[c]
    BY <1>6, <2>1
  <2>3. p[3] \in DOMAIN toClient'[c] /\ toClient'[c][p[3]] = m
    BY <1>4, <1>6
  <2>4. QED
    BY <2>2, <2>3, BearsThere
<1>9. QED
  BY <1>4, <1>5, <1>7, <1>8 DEF p

LEMMA FromHostTaken ==
  ASSUME LinkTypeOK, NEW c \in Clients, toHost[c] # <<>>, toHost' = [toHost EXCEPT ![c] = Tail(@)],
         NEW K, NEW x, NEW q, NEW f, Gives(f, K, x, toHost, q), \A i \in K : f[i] # << c, "answer", 1 >>
  PROVE  \E h : Gives(h, K, x, toHost', q)
<1>1. PICK CM : CM = ClientMessages /\ toHost \in [Clients -> Seq(CM)]
  BY LinesAreSequences
<1>2. PICK w : w = "answer" /\ w \in Ways
  BY DEF Ways
<1>3. HeadGone(toHost, q, toHost', q, c, w)
  BY <1>1, <1>2 DEF HeadGone, OnWay, Ways
<1>4. QED
  BY <1>2, <1>3, Shortened

LEMMA FromClientTaken ==
  ASSUME LinkTypeOK, NEW c \in Clients, toClient[c] # <<>>, toClient' = [toClient EXCEPT ![c] = Tail(@)],
         NEW K, NEW x, NEW a, NEW f, Gives(f, K, x, a, toClient), \A i \in K : f[i] # << c, "ask", 1 >>
  PROVE  \E h : Gives(h, K, x, a, toClient')
<1>1. PICK HM : HM = HostMessages /\ toClient \in [Clients -> Seq(HM)]
  BY LinesAreSequences
<1>2. PICK w : w = "ask" /\ w \in Ways
  BY DEF Ways
<1>3. HeadGone(a, toClient, a, toClient', c, w)
  BY <1>1, <1>2 DEF HeadGone, OnWay, Ways
<1>4. QED
  BY <1>2, <1>3, Shortened

LEMMA HeadBears ==
  ASSUME LinkTypeOK, NEW c \in Clients, NEW t
  PROVE  /\ \A q : toHost[c] # <<>> =>
               (Bears(toHost, q, << c, "answer", 1 >>, t) <=> Carries(Head(toHost[c]), t))
         /\ \A a : toClient[c] # <<>> =>
               (Bears(a, toClient, << c, "ask", 1 >>, t) <=> Carries(Head(toClient[c]), t))
<1>1. PICK CM, HM : /\ CM = ClientMessages /\ HM = HostMessages
                    /\ toHost \in [Clients -> Seq(CM)]
                    /\ toClient \in [Clients -> Seq(HM)]
  BY LinesAreSequences
<1>2. toHost[c] \in Seq(CM) /\ toClient[c] \in Seq(HM)
  BY <1>1
<1>3. /\ toHost[c] # <<>> => 1 \in DOMAIN toHost[c] /\ Head(toHost[c]) = toHost[c][1]
      /\ toClient[c] # <<>> => 1 \in DOMAIN toClient[c] /\ Head(toClient[c]) = toClient[c][1]
  BY <1>2
<1>4. ASSUME NEW q, toHost[c] # <<>>
      PROVE  Bears(toHost, q, << c, "answer", 1 >>, t) <=> Carries(Head(toHost[c]), t)
  <2> DEFINE p == << c, "answer", 1 >>
  <2>1. p[1] = c /\ p[2] = "answer" /\ p[3] = 1
    OBVIOUS
  <2> HIDE DEF p
  <2>2. OnWay(toHost, q, p[1], p[2]) = toHost[c]
    BY <2>1 DEF OnWay
  <2>3. Bears(toHost, q, p, t) <=> Carries(Head(toHost[c]), t)
    BY <1>3, <1>4, <2>1, <2>2, Zenon DEF Bears
  <2>4. QED
    BY <2>3 DEF p
<1>5. ASSUME NEW a, toClient[c] # <<>>
      PROVE  Bears(a, toClient, << c, "ask", 1 >>, t) <=> Carries(Head(toClient[c]), t)
  <2> DEFINE p == << c, "ask", 1 >>
  <2>1. p[1] = c /\ p[2] = "ask" /\ p[3] = 1
    OBVIOUS
  <2> HIDE DEF p
  <2>2. OnWay(a, toClient, p[1], p[2]) = toClient[c]
    BY <2>1 DEF OnWay
  <2>3. Bears(a, toClient, p, t) <=> Carries(Head(toClient[c]), t)
    BY <1>3, <1>5, <2>1, <2>2, Zenon DEF Bears
  <2>4. QED
    BY <2>3 DEF p
<1>6. QED
  BY <1>4, <1>5

-----------------------------------------------------------------------------
\* Every step leaves each pending request a message.

LEMMA OwnAfter ==
  ASSUME UNCHANGED <<host_up, tokenVars>>,
         \A f : Gives(f, Slots \ FreeSlots, pending_request_tokens, toHost, toClient) =>
           \E h : Gives(h, Slots \ FreeSlots, pending_request_tokens, toHost', toClient'),
         EachHasItsOwn
  PROVE  EachHasItsOwn'
<1>1. FreeSlots' = FreeSlots /\ UNCHANGED <<host_up, pending_request_tokens>>
  BY DEF FreeSlots, tokenVars
<1> SUFFICES ASSUME host_up'
             PROVE  \E f : Gives(f, Slots \ FreeSlots', pending_request_tokens', toHost', toClient')
  BY DEF EachHasItsOwn
<1>2. PICK f : Gives(f, Slots \ FreeSlots, pending_request_tokens, toHost, toClient)
  BY <1>1 DEF EachHasItsOwn
<1>3. QED
  BY <1>1, <1>2

\* The client sends something of its own accord.
LEMMA SendingKeepsOwn ==
  ASSUME LinkTypeOK, EachHasItsOwn, NEW c \in Clients, NEW m \in ClientMessages,
         SendToHost(c, << m >>), UNCHANGED <<toClient, host_up, tokenVars>>
  PROVE  EachHasItsOwn'
<1>1. ASSUME NEW f, Gives(f, Slots \ FreeSlots, pending_request_tokens, toHost, toClient)
      PROVE  \E h : Gives(h, Slots \ FreeSlots, pending_request_tokens, toHost', toClient')
  <2>1. PICK K, x, q : K = Slots \ FreeSlots /\ x = pending_request_tokens /\ q = toClient
    OBVIOUS
  <2>2. Gives(f, K, x, toHost, q)
    BY <1>1, <2>1
  <2>3. Gives(f, K, x, toHost', q)
    BY <2>2, ToHostGrows DEF SendToHost
  <2>4. QED
    BY <2>1, <2>3
<1>2. QED
  BY <1>1, OwnAfter

\* The client handles a message and sends nothing, or something that has its token.
LEMMA AnsweringKeepsOwn ==
  ASSUME LinkTypeOK, EachHasItsOwn, NEW c \in Clients, toClient[c] # <<>>,
         UNCHANGED <<host_up, tokenVars>>,
         \/ (\A t : ~Carries(Head(toClient[c]), t)) /\ ReplyToHost(c, <<>>)
         \/ \E m \in ClientMessages :
              (\A t : Carries(Head(toClient[c]), t) => Carries(m, t)) /\ ReplyToHost(c, << m >>)
  PROVE  EachHasItsOwn'
<1>1. ASSUME NEW f, Gives(f, Slots \ FreeSlots, pending_request_tokens, toHost, toClient)
      PROVE  \E h : Gives(h, Slots \ FreeSlots, pending_request_tokens, toHost', toClient')
  <2>1. PICK K, x : K = Slots \ FreeSlots /\ x = pending_request_tokens
    OBVIOUS
  <2> DEFINE o == << c, "ask", 1 >>
  <2>2. Gives(f, K, x, toHost, toClient) /\ o \in Spots
    BY <1>1, <2>1 DEF Spots, Ways
  <2>3. toClient' = [toClient EXCEPT ![c] = Tail(@)]
    BY DEF ReplyToHost
  <2>4. CASE (\A t : ~Carries(Head(toClient[c]), t)) /\ ReplyToHost(c, <<>>)
    <3>1. \A i \in K : f[i] # o
      <4>1. \A t : ~Bears(toHost, toClient, o, t)
        BY <2>4, HeadBears
      <4>2. QED
        BY <2>2, <4>1 DEF Gives
    <3>2. toHost' = toHost
      <4>1. PICK CM : CM = ClientMessages /\ toHost \in [Clients -> Seq(CM)]
        BY LinesAreSequences
      <4>2. toHost[c] \o <<>> = toHost[c]
        BY <4>1
      <4>3. QED
        BY <2>4, <4>1, <4>2 DEF ReplyToHost
    <3>3. \E h : Gives(h, K, x, toHost, toClient')
      BY <2>2, <2>3, <3>1, FromClientTaken
    <3>4. QED
      BY <2>1, <3>2, <3>3
  <2>5. ASSUME NEW m \in ClientMessages, ReplyToHost(c, << m >>),
               \A t : Carries(Head(toClient[c]), t) => Carries(m, t)
        PROVE  \E h : Gives(h, Slots \ FreeSlots, pending_request_tokens, toHost', toClient')
    <3>1. PICK q : q = toClient
      OBVIOUS
    <3>2. toHost' = [toHost EXCEPT ![c] = @ \o << m >>] /\ Gives(f, K, x, toHost, q)
      BY <2>2, <2>5, <3>1 DEF ReplyToHost
    <3>3. Gives(f, K, x, toHost', q)
      BY <3>2, ToHostGrows
    <3>4. PICK n \in Int : /\ \A i \in K : f[i] # << c, "answer", n >>
                           /\ \A t : Carries(m, t) => Bears(toHost', q, << c, "answer", n >>, t)
      BY <3>2, ToHostGrows
    <3>5. PICK a, p : a = toHost' /\ p = << c, "answer", n >>
      OBVIOUS
    <3>6. p \in Spots /\ p # o
      BY <3>5 DEF Spots, Ways
    <3>7. \A t : Bears(a, q, o, t) => Bears(a, q, p, t)
      <4>1. \A t : Bears(a, q, o, t) => Carries(Head(toClient[c]), t)
        BY <3>1, HeadBears
      <4>2. QED
        BY <2>5, <3>4, <3>5, <4>1
    <3>8. Gives(f, K, x, a, q) /\ \A i \in K : f[i] # p
      BY <3>3, <3>4, <3>5
    <3> HIDE DEF o
    <3>9. PICK h : Gives(h, K, x, a, q) /\ \A i \in K : h[i] # o
      BY <2>2, <3>6, <3>7, <3>8, HandedOver
    <3>10. \E g : Gives(g, K, x, a, toClient')
      BY <2>3, <3>1, <3>9, FromClientTaken DEF o
    <3>11. QED
      BY <2>1, <3>5, <3>10
  <2>6. QED
    BY <2>4, <2>5
<1>2. QED
  BY <1>1, OwnAfter

\* What the host sends in reply.
LEMMA ReplyGives ==
  ASSUME LinkTypeOK, NEW c \in Clients, NEW ms, ms = <<>> \/ \E m \in HostMessages : ms = << m >>,
         toHost[c] # <<>>, ReplyToClient(c, ms),
         NEW K, NEW x, NEW f, Gives(f, K, x, toHost, toClient), \A i \in K : f[i] # << c, "answer", 1 >>
  PROVE  \E h : Gives(h, K, x, toHost', toClient')
<1>1. toHost' = [toHost EXCEPT ![c] = Tail(@)] /\ toClient' = [toClient EXCEPT ![c] = @ \o ms]
  BY DEF ReplyToClient
<1>2. PICK q : q = toClient
  OBVIOUS
<1>3. Gives(f, K, x, toHost, q)
  BY <1>2
<1>4. PICK h : Gives(h, K, x, toHost', q)
  BY <1>1, <1>3, FromHostTaken
<1>5. CASE ms = <<>>
  <2>1. PICK HM : HM = HostMessages /\ toClient \in [Clients -> Seq(HM)]
    BY LinesAreSequences
  <2>2. toClient[c] \o <<>> = toClient[c]
    BY <2>1
  <2>3. toClient' = q
    BY <1>1, <1>2, <1>5, <2>1, <2>2
  <2>4. QED
    BY <1>4, <2>3
<1>6. ASSUME NEW m \in HostMessages, ms = << m >> PROVE \E g : Gives(g, K, x, toHost', toClient')
  <2>1. PICK a : a = toHost'
    OBVIOUS
  <2>2. toClient' = [toClient EXCEPT ![c] = @ \o << m >>] /\ Gives(h, K, x, a, toClient)
    BY <1>1, <1>2, <1>4, <1>6, <2>1
  <2>3. Gives(h, K, x, a, toClient')
    BY <2>2, ToClientGrows
  <2>4. QED
    BY <2>1, <2>3
<1>7. QED
  BY <1>5, <1>6

\* The host handles a message that answers no request.
LEMMA HandlingKeepsOwn ==
  ASSUME LinkTypeOK, EachHasItsOwn, NEW c \in Clients, NEW ms,
         ms = <<>> \/ \E m \in HostMessages : ms = << m >>,
         toHost[c] # <<>>, Head(toHost[c]).type \notin {"GET_RESPONSE", "SET_RESPONSE"},
         ReplyToClient(c, ms), UNCHANGED <<host_up, tokenVars>>
  PROVE  EachHasItsOwn'
<1>1. ASSUME NEW f, Gives(f, Slots \ FreeSlots, pending_request_tokens, toHost, toClient)
      PROVE  \E h : Gives(h, Slots \ FreeSlots, pending_request_tokens, toHost', toClient')
  <2>1. PICK K, x : K = Slots \ FreeSlots /\ x = pending_request_tokens
    OBVIOUS
  <2>2. Gives(f, K, x, toHost, toClient)
    BY <1>1, <2>1
  <2>3. \A i \in K : f[i] # << c, "answer", 1 >>
    <3>1. \A t : ~Carries(Head(toHost[c]), t)
      BY HeadsTyped, Tokenless
    <3>2. \A t : ~Bears(toHost, toClient, << c, "answer", 1 >>, t)
      BY <3>1, HeadBears
    <3>3. QED
      BY <2>2, <3>2 DEF Gives
  <2>4. \E h : Gives(h, K, x, toHost', toClient')
    BY <2>2, <2>3, ReplyGives
  <2>5. QED
    BY <2>1, <2>4
<1>2. QED
  BY <1>1, OwnAfter

\* An answer frees one slot, and uses up one message.
LEMMA ResponseKeepsOwn ==
  ASSUME IInv, EachHasItsOwn, NEW c \in Clients, ResponseReceived(c)
  PROVE  EachHasItsOwn'
<1> DEFINE t == Head(toHost[c]).token
           o == << c, "answer", 1 >>
<1>1. /\ toHost[c] # <<>> /\ ReplyToClient(c, <<>>) /\ SppClearToken(t) /\ UNCHANGED host_up
      /\ t \in Tokens /\ LinkTypeOK
  BY HeadsTyped, ClientMessageFields DEF ResponseReceived, Received, Discard, IInv
<1>2. \A u : Bears(toHost, toClient, o, u) => u = t
  BY <1>1, HeadBears DEF Carries
<1> HIDE DEF t
<1>3. PICK j : /\ j \in Slots \ FreeSlots => pending_request_tokens[j] = t
               /\ (\E i \in Slots \ FreeSlots : pending_request_tokens[i] = t) => j \in Slots \ FreeSlots
               /\ \A i \in Slots \ FreeSlots' :
                    /\ i \in (Slots \ FreeSlots) \ {j}
                    /\ pending_request_tokens'[i] = pending_request_tokens[i]
  <2>1. CASE SlotsOf(t) # {}
    <3> DEFINE j == Min(SlotsOf(t))
    <3>1. j \in SlotsOf(t)
      BY <2>1, MinOfNats, SlotsAssumption DEF SlotsOf, Slots
    <3>2. j \in Slots \ FreeSlots /\ pending_request_tokens[j] = t
      BY <1>1, <3>1, TokenAssumption DEF SlotsOf, FreeSlots, Tokens
    <3>3. pending_request_tokens' = [pending_request_tokens EXCEPT ![j] = SPP_TOKEN_MAX_RESERVED]
      BY <1>1, <2>1 DEF SppClearToken
    <3> HIDE DEF j
    <3>4. /\ pending_request_tokens'[j] = SPP_TOKEN_MAX_RESERVED
          /\ \A i \in Slots \ {j} : pending_request_tokens'[i] = pending_request_tokens[i]
      BY <3>2, <3>3 DEF IInv, Window, TokenTypeOK
    <3>5. \A i \in Slots \ FreeSlots' : i # j /\ i \in Slots \ FreeSlots
      BY <3>4 DEF FreeSlots
    <3>6. QED
      BY <3>2, <3>4, <3>5
  <2>2. CASE SlotsOf(t) = {}
    <3>1. /\ UNCHANGED pending_request_tokens /\ FreeSlots' = FreeSlots
          /\ \A i \in Slots : pending_request_tokens[i] # t
      BY <1>1, <2>2 DEF SppClearToken, tokenVars, SlotsOf, FreeSlots
    <3>2. 0 \notin Slots
      BY DEF Slots
    <3>3. WITNESS 0
    <3>4. QED
      BY <3>1, <3>2
  <2>3. QED
    BY <2>1, <2>2
<1> SUFFICES ASSUME host_up'
             PROVE  \E f : Gives(f, Slots \ FreeSlots', pending_request_tokens', toHost', toClient')
  BY DEF EachHasItsOwn
<1>4. PICK f : Gives(f, Slots \ FreeSlots, pending_request_tokens, toHost, toClient)
  BY <1>1 DEF EachHasItsOwn
<1>5. PICK K, x, L, y : /\ K = Slots \ FreeSlots /\ x = pending_request_tokens
                        /\ L = Slots \ FreeSlots' /\ y = pending_request_tokens'
  OBVIOUS
<1>6. o \in Spots
  BY DEF Spots, Ways
<1>7. PICK h : Gives(h, K \ {j}, x, toHost, toClient) /\ \A i \in K \ {j} : h[i] # o
  <2>1. PICK a, q : a = toHost /\ q = toClient
    OBVIOUS
  <2>2. Gives(f, K, x, a, q) /\ \A u : Bears(a, q, o, u) => u = t
    BY <1>2, <1>4, <1>5, <2>1
  <2>3. (j \in K => x[j] = t) /\ ((\E i \in K : x[i] = t) => j \in K)
    BY <1>3, <1>5
  <2> HIDE DEF o
  <2>4. \E h : Gives(h, K \ {j}, x, a, q) /\ \A i \in K \ {j} : h[i] # o
    BY <1>6, <2>2, <2>3, AnswerTaken
  <2>5. QED
    BY <2>1, <2>4
<1>8. PICK g : Gives(g, K \ {j}, x, toHost', toClient')
  <2>1. PICK M : M = K \ {j}
    OBVIOUS
  <2>2. Gives(h, M, x, toHost, toClient) /\ \A i \in M : h[i] # << c, "answer", 1 >>
    BY <1>7, <2>1
  <2>3. \E g : Gives(g, M, x, toHost', toClient')
    BY <1>1, <2>2, ReplyGives
  <2>4. QED
    BY <2>1, <2>3
<1>9. L \subseteq K \ {j} /\ \A i \in L : y[i] = x[i]
  BY <1>3, <1>5
<1>10. \E e : Gives(e, L, y, toHost', toClient')
  BY <1>8, <1>9, FewerSlots
<1>11. QED
  BY <1>5, <1>10

\* A new request is the message of the slot it was given, if it was given one.
LEMMA IssuingKeepsOwn ==
  ASSUME IInv, EachHasItsOwn, NEW c \in Clients, NEW m \in HostMessages,
         host_up, IssueRequest(c, m), Carries(m, SppGetToken)
  PROVE  EachHasItsOwn'
<1> DEFINE t == SppGetToken
<1>1. LinkTypeOK /\ SppInsertToken(t) /\ UNCHANGED <<host_up, toHost>>
  BY DEF IInv, IssueRequest
<1>2. toClient' = [toClient EXCEPT ![c] = @ \o << m >>]
  <2>1. PICK HM : HM = HostMessages /\ toClient \in [Clients -> Seq(HM)]
    BY LinesAreSequences DEF IInv
  <2>2. Append(toClient[c], m) = toClient[c] \o << m >>
    BY <2>1, AppendAt
  <2>3. QED
    BY <2>2 DEF IssueRequest
<1> HIDE DEF t
<1>3. PICK f : Gives(f, Slots \ FreeSlots, pending_request_tokens, toHost, toClient)
  BY DEF EachHasItsOwn
<1>4. PICK K, x, L, y, a :
        /\ K = Slots \ FreeSlots /\ x = pending_request_tokens /\ a = toHost
        /\ L = Slots \ FreeSlots' /\ y = pending_request_tokens'
  OBVIOUS
<1>5. Gives(f, K, x, a, toClient)
  BY <1>3, <1>4
<1>6. Gives(f, K, x, a, toClient')
  BY <1>1, <1>2, <1>5, ToClientGrows
<1>7. PICK n \in Int : /\ \A i \in K : f[i] # << c, "ask", n >>
                       /\ \A u : Carries(m, u) => Bears(a, toClient', << c, "ask", n >>, u)
  BY <1>1, <1>2, <1>5, ToClientGrows
<1>8. PICK j : \A i \in L : (i = j /\ y[i] = t) \/ (i \in K /\ i # j /\ y[i] = x[i])
  <2>1. CASE FreeSlots # {}
    <3> DEFINE j == Min(FreeSlots)
    <3>1. j \in FreeSlots /\ j \in Slots
      BY <2>1, MinOfNats, SlotsAssumption DEF FreeSlots, Slots
    <3>2. pending_request_tokens' = [pending_request_tokens EXCEPT ![j] = t]
      BY <1>1, <2>1 DEF SppInsertToken
    <3> HIDE DEF j
    <3>3. QED
      BY <1>4, <3>1, <3>2 DEF FreeSlots, IInv, Window, TokenTypeOK
  <2>2. CASE FreeSlots = {}
    <3>1. y = x /\ L = K /\ 0 \notin K
      BY <1>1, <1>4, <2>2 DEF SppInsertToken, FreeSlots, Slots
    <3>2. QED
      BY <3>1
  <2>3. QED
    BY <2>1, <2>2
<1> DEFINE p == << c, "ask", n >>
           h == [i \in L |-> IF i = j THEN p ELSE f[i]]
<1>9. p \in Spots /\ (\A i \in K : f[i] # p) /\ Bears(a, toClient', p, t)
  BY <1>7 DEF Spots, Ways, t
<1> HIDE DEF p
<1>10. \A i \in L : h[i] = IF i = j THEN p ELSE f[i]
  OBVIOUS
<1>11. h \in [L -> Spots]
  BY <1>6, <1>8, <1>9 DEF Gives
<1> HIDE DEF h
<1>12. \A i \in L : Bears(a, toClient', h[i], y[i])
  BY <1>6, <1>8, <1>9, <1>10 DEF Gives
<1>13. \A i, l \in L : h[i] = h[l] => i = l
  BY <1>6, <1>8, <1>9, <1>10 DEF Gives
<1>14. Gives(h, L, y, a, toClient')
  BY <1>11, <1>12, <1>13 DEF Gives
<1>15. QED
  BY <1>1, <1>4, <1>14 DEF EachHasItsOwn

LEMMA HostHandlesKeepsOwn ==
  ASSUME IInv, EachHasItsOwn, NEW c \in Clients, HostHandles(c)
  PROVE  EachHasItsOwn'
<1>0. LinkTypeOK
  BY DEF IInv
<1>1. CASE ConnectBusy(c)
  <2>1. ConnectResponse("BUSY") \in HostMessages
    BY HostMessageTypes
  <2>2. QED
    BY <1>0, <1>1, <2>1, HandlingKeepsOwn DEF ConnectBusy, Received
<1>2. CASE ConnectAccepted(c)
  <2>1. ConnectResponse("OK") \in HostMessages /\ ConnectResponse("DUPLICATE_CLIENT") \in HostMessages
    BY HostMessageTypes
  <2>2. /\ toHost[c] # <<>> /\ Head(toHost[c]).type = "CONNECT_REQUEST_BC" /\ UNCHANGED <<host_up, tokenVars>>
        /\ ReplyToClient(c, << ConnectResponse("OK") >>) \/ ReplyToClient(c, << ConnectResponse("DUPLICATE_CLIENT") >>)
    BY <1>2 DEF ConnectAccepted, SppConnectToClient, Received
  <2>3. QED
    BY <1>0, <2>1, <2>2, HandlingKeepsOwn
<1>3. CASE PropListReceived(c) \/ PropDefReceived(c) \/ StreamReceived(c)
  <2>1. /\ toHost[c] # <<>> /\ Head(toHost[c]).type \in {"PROP_LIST_RESPONSE", "PROP_DEF", "STREAM"}
        /\ ReplyToClient(c, <<>>) /\ UNCHANGED <<host_up, tokenVars>>
    BY <1>3 DEF PropListReceived, PropDefReceived, StreamReceived, Discard, Received
  <2>2. QED
    BY <1>0, <2>1, HandlingKeepsOwn
<1>4. CASE ResponseReceived(c)
  BY <1>4, ResponseKeepsOwn
<1>5. QED
  BY <1>1, <1>2, <1>3, <1>4 DEF HostHandles, HostReceive

LEMMA ViewerAsksKeepsOwn ==
  ASSUME IInv, EachHasItsOwn, StreamProps = {}, NEW c \in Clients, ViewerAsks(c)
  PROVE  EachHasItsOwn'
<1>1. SppGetToken \in Tokens
  BY NextTokenIsToken DEF IInv, Window, TokenTypeOK
<1>2. PICK p \in AppProps : SppHostGetValue(c, p) \/ SppHostSetValue(c, p)
  BY DEF ViewerAsks
<1>3. PICK m : /\ m = GetRequest(SppGetToken, p) \/ m = SetRequest(SppGetToken, p)
               /\ IssueRequest(c, m) /\ host_up
  BY <1>2 DEF SppHostGetValue, SppHostSetValue, MayRequest
<1>4. m \in HostMessages
  BY <1>1, <1>3, HostMessageTypes
<1>5. Carries(m, SppGetToken)
  BY <1>3 DEF Carries, GetRequest, SetRequest
<1>6. QED
  BY <1>3, <1>4, <1>5, IssuingKeepsOwn

LEMMA ClientHandlesKeepsOwn ==
  ASSUME IInv, EachHasItsOwn, StreamProps = {}, NEW c \in Clients, ClientHandles(c)
  PROVE  EachHasItsOwn'
<1> DEFINE m == Head(toClient[c])
<1>0. UNCHANGED <<host_up, tokenVars>> /\ LinkTypeOK
  BY DEF ClientHandles, hostVars, IInv
<1>1. toClient[c] # <<>> => m \in HostMessages
  BY HeadsTyped DEF IInv
<1>2. ASSUME NEW r \in ClientMessages, toClient[c] # <<>>, ReplyToHost(c, << r >>),
             \A t : Carries(m, t) => Carries(r, t)
      PROVE  EachHasItsOwn'
  BY <1>0, <1>2, AnsweringKeepsOwn
<1>3. ASSUME toClient[c] # <<>>, m.type = "CONNECT_RESPONSE" PROVE \A t : ~Carries(m, t)
  BY <1>1, <1>3, Tokenless
<1>4. CASE ConnectRefused(c)
  <2>1. toClient[c] # <<>> /\ m.type = "CONNECT_RESPONSE" /\ ReplyToHost(c, <<>>)
    BY <1>4 DEF ConnectRefused, Addressed
  <2>2. QED
    BY <1>0, <1>3, <2>1, AnsweringKeepsOwn
<1>5. CASE SendPropertyList(c)
  <2>1. PropListResponse(Len(PropertyList[c])) \in ClientMessages
    BY ListedProps, ClientMessageTypes
  <2>2. /\ toClient[c] # <<>> /\ m.type = "CONNECT_RESPONSE"
        /\ ReplyToHost(c, << PropListResponse(Len(PropertyList[c])) >>)
    BY <1>5 DEF SendPropertyList, Addressed
  <2>3. QED
    BY <1>2, <1>3, <2>1, <2>2
<1>6. CASE GetReceived(c)
  <2>1. /\ toClient[c] # <<>> /\ m.type = "GET_REQUEST" /\ SppGetDefinition(c, m.prop)
        /\ ReplyToHost(c, << GetResponse(m.token, m.prop) >>)
    BY <1>6 DEF GetReceived, Addressed
  <2>2. GetResponse(m.token, m.prop) \in ClientMessages
    BY <1>1, <2>1, HostMessageFields, ListedProps, ClientMessageTypes
  <2>3. QED
    BY <1>2, <2>1, <2>2, AnswersCarry
<1>7. CASE SetReceived(c)
  <2>1. /\ toClient[c] # <<>> /\ m.type = "SET_REQUEST"
        /\ ReplyToHost(c, << SetResponse(m.token) >>)
    BY <1>7 DEF SetReceived, Addressed, SetAnswer
  <2>2. SetResponse(m.token) \in ClientMessages
    BY <1>1, <2>1, HostMessageFields, ClientMessageTypes
  <2>3. QED
    BY <1>2, <2>1, <2>2, AnswersCarry
<1>8. CASE StreamRequested(c)
  <2>1. m \in HostMessages /\ m.type = "STREAM_REQUEST"
    BY <1>1, <1>8 DEF StreamRequested, Addressed
  <2>2. QED
    BY <2>1 DEF HostMessages
<1>9. CASE SendPropDef(c)
  <2>1. PICK r \in ClientMessages : SendToHost(c, << r >>)
    BY <1>9, DefSent
  <2>2. UNCHANGED toClient
    BY <1>9 DEF SendPropDef
  <2>3. QED
    BY <1>0, <2>1, <2>2, SendingKeepsOwn
<1>10. QED
  BY <1>4, <1>5, <1>6, <1>7, <1>8, <1>9 DEF ClientHandles, ClientReceive

LEMMA NextKeepsOwn ==
  ASSUME IInv, ListFacts, OffIsNewInv, EachHasItsOwn, [Next]_vars,
         NothingLost, StreamProps = {}
  PROVE  EachHasItsOwn'
<1>0. LinkTypeOK
  BY DEF IInv
<1>1. CASE PowerOnHost
  <2>1. Slots \ FreeSlots' = {}
    BY <1>1 DEF PowerOnHost, HostBoot, FreeSlots, NoTokens
  <2>2. PICK K : K = Slots \ FreeSlots' /\ K = {}
    BY <2>1
  <2>3. [i \in K |-> << >>] \in [K -> Spots]
    BY <2>2
  <2>4. Gives([i \in K |-> << >>], K, pending_request_tokens', toHost', toClient')
    BY <2>2, <2>3 DEF Gives
  <2>5. QED
    BY <2>2, <2>4 DEF EachHasItsOwn
<1>2. CASE ~host_up'
  BY <1>2 DEF EachHasItsOwn
<1>3. CASE \/ UNCHANGED vars
           \/ \E c \in Clients : PowerOnClient(c) \/ Overrun(c)
  <2>1. UNCHANGED <<host_up, tokenVars, linkVars>>
    BY <1>3 DEF vars, hostVars, PowerOnClient, ClientBoot, Overrun, HostOverrun, ClientOverrun
  <2>2. UNCHANGED <<toHost, toClient>>
    BY <2>1 DEF linkVars
  <2>3. QED
    BY <2>1, <2>2, OwnAfter
<1>4. ASSUME NEW c \in Clients, PowerOffClient(c) PROVE FALSE
  BY <1>4, StaysOn
<1>5. ASSUME NEW c \in Clients, HostHandles(c) PROVE EachHasItsOwn'
  BY <1>5, HostHandlesKeepsOwn
<1>6. ASSUME NEW c \in Clients, ViewerAsks(c) PROVE EachHasItsOwn'
  BY <1>6, ViewerAsksKeepsOwn
<1>7. ASSUME NEW c \in Clients, ClientHandles(c) PROVE EachHasItsOwn'
  BY <1>7, ClientHandlesKeepsOwn
<1>8. ASSUME NEW c \in Clients, ClientBroadcasts(c) \/ ClientStreams(c) PROVE EachHasItsOwn'
  <2>1. PICK m \in ClientMessages : SendToHost(c, << m >>)
    <3>1. ConnectRequest(ListId[c]) \in ClientMessages
      BY ListIdAssumption, ClientMessageTypes
    <3>2. QED
      BY <1>8, <3>1, StreamSent DEF ClientBroadcasts, SppClientStart
  <2>2. UNCHANGED <<toClient, host_up, tokenVars>>
    BY <1>8 DEF ClientBroadcasts, SppClientStart, ClientStreams, SppProcessStreams, hostVars
  <2>3. QED
    BY <1>0, <2>1, <2>2, SendingKeepsOwn
<1>9. ASSUME NEW c \in Clients, Lose(c) PROVE EachHasItsOwn'
  <2>1. ~host_up /\ UNCHANGED host_up
    BY <1>9, BusyIsOn DEF Lose, NothingLost, LoseToClient, hostVars
  <2>2. QED
    BY <2>1 DEF EachHasItsOwn
<1>10. CASE PowerOffHost
  BY <1>2, <1>10 DEF PowerOffHost, HostCrash
<1>11. QED
  BY <1>1, <1>3, <1>4, <1>5, <1>6, <1>7, <1>8, <1>9, <1>10 DEF Next

\* A slot of pending_request_tokens is occupied only while its request or the
\* answer to it is on the line (SppInsertToken and SppClearToken,
\* spp/src-host/spp.c:116), and two slots have two messages, whether or not the
\* token has been given out again meanwhile: the window never stays full.  This
\* holds of any number of vehicles and of messages, as long as none is lost or
\* switched off, the server was given no default address, and no stream is asked
\* for, which would never be answered.
THEOREM SlotsAreAnswered ==
  ASSUME NothingLost, DefaultClient = NoClient, StreamProps = {}
  PROVE  Spec => []PendingIsInFlight
<1> DEFINE Inv == IInv /\ ListInv /\ OffIsNewInv /\ EachHasItsOwn
<1>1. Init => Inv
  <2>1. Init => EachHasItsOwn
    BY DEF Init, EachHasItsOwn
  <2>2. QED
    BY <2>1, InitIInv, InitLists, InitRequests
<1>2. Inv /\ [Next]_vars => Inv'
  <2> SUFFICES ASSUME Inv, [Next]_vars PROVE Inv'
    OBVIOUS
  <2>1. IInv' /\ ListInv'
    BY NextKeepsIInv, NextKeepsLists
  <2>2. ListFacts
    BY NobodyRestarts DEF ListInv
  <2>3. OffIsNewInv' /\ EachHasItsOwn'
    BY <2>2, NextKeepsOff, NextKeepsOwn
  <2>4. QED
    BY <2>1, <2>3
<1>3. Inv => PendingIsInFlight
  <2> SUFFICES ASSUME EachHasItsOwn, host_up, NEW i \in Slots \ FreeSlots
               PROVE  \E c \in Clients :
                        \E m \in { toClient[c][k] : k \in DOMAIN toClient[c] }
                                 \cup { toHost[c][k] : k \in DOMAIN toHost[c] } :
                          Carries(m, pending_request_tokens[i])
    BY DEF PendingIsInFlight
  <2>1. PICK p \in Spots : Bears(toHost, toClient, p, pending_request_tokens[i])
    BY DEF EachHasItsOwn, Gives
  <2>2. p[1] \in Clients
    BY DEF Spots
  <2>3. QED
    BY <2>1, <2>2 DEF Bears, OnWay
<1>4. QED
  BY <1>1, <1>2, <1>3, PTL DEF Spec

-----------------------------------------------------------------------------
\* A list the host is receiving is owed to it.

IsLastDef(m) == IsDef(m) /\ m.remaining = 0

\* What a step may do to a line without taking a message away that the host
\* waits for, or the client.
LEMMA OffersStay ==
  ASSUME LinkTypeOK, NEW c \in Clients,
         \/ UNCHANGED toClient
         \/ /\ toClient[c] # <<>> /\ ~IsOk(Head(toClient[c]))
            /\ toClient' = [toClient EXCEPT ![c] = Tail(@)]
         \/ \E ms \in Seq(HostMessages) : toClient' = [toClient EXCEPT ![c] = @ \o ms]
  PROVE  \A b \in Clients : Offered(b) => Offered(b)'
<1>1. PICK HM : HM = HostMessages /\ toClient \in [Clients -> Seq(HM)]
  BY LinesAreSequences
<1>2. toClient[c] \in Seq(HM) /\ \A b \in Clients \ {c} : toClient'[b] = toClient[b]
  BY <1>1
<1>3. ASSUME NEW k \in DOMAIN toClient[c], IsOk(toClient[c][k])
      PROVE  \E l \in DOMAIN toClient'[c] : toClient'[c][l] = toClient[c][k]
  <2>1. CASE UNCHANGED toClient
    BY <2>1
  <2>2. CASE /\ toClient[c] # <<>> /\ ~IsOk(Head(toClient[c]))
             /\ toClient' = [toClient EXCEPT ![c] = Tail(@)]
    <3>1. toClient'[c] = Tail(toClient[c]) /\ k # 1
      BY <1>1, <1>2, <1>3, <2>2, TailAt
    <3>2. k - 1 \in DOMAIN Tail(toClient[c]) /\ Tail(toClient[c])[k - 1] = toClient[c][k]
      BY <1>2, <2>2, <3>1
    <3>3. QED
      BY <3>1, <3>2
  <2>3. ASSUME NEW ms \in Seq(HM), toClient' = [toClient EXCEPT ![c] = @ \o ms]
        PROVE  \E l \in DOMAIN toClient'[c] : toClient'[c][l] = toClient[c][k]
    <3>1. toClient'[c] = toClient[c] \o ms
      BY <1>1, <2>3
    <3>2. QED
      BY <1>2, <3>1, ConcatAt
  <2>4. QED
    BY <1>1, <2>1, <2>2, <2>3
<1>4. Offered(c) => Offered(c)'
  BY <1>3 DEF Offered
<1>5. QED
  BY <1>2, <1>4 DEF Offered

LEMMA LastDefsStay ==
  ASSUME LinkTypeOK, NEW c \in Clients,
         \/ UNCHANGED toHost
         \/ /\ toHost[c] # <<>> /\ ~IsLastDef(Head(toHost[c]))
            /\ toHost' = [toHost EXCEPT ![c] = Tail(@)]
         \/ \E ms \in Seq(ClientMessages) : toHost' = [toHost EXCEPT ![c] = @ \o ms]
  PROVE  \A b \in Clients : LastDefOnLine(b) => LastDefOnLine(b)'
<1>1. PICK CM : CM = ClientMessages /\ toHost \in [Clients -> Seq(CM)]
  BY LinesAreSequences
<1>2. toHost[c] \in Seq(CM) /\ \A b \in Clients \ {c} : toHost'[b] = toHost[b]
  BY <1>1
<1>3. ASSUME NEW k \in DOMAIN toHost[c], IsLastDef(toHost[c][k])
      PROVE  \E l \in DOMAIN toHost'[c] : toHost'[c][l] = toHost[c][k]
  <2>1. CASE UNCHANGED toHost
    BY <2>1
  <2>2. CASE /\ toHost[c] # <<>> /\ ~IsLastDef(Head(toHost[c]))
             /\ toHost' = [toHost EXCEPT ![c] = Tail(@)]
    <3>1. toHost'[c] = Tail(toHost[c]) /\ k # 1
      BY <1>1, <1>2, <1>3, <2>2, TailAt
    <3>2. k - 1 \in DOMAIN Tail(toHost[c]) /\ Tail(toHost[c])[k - 1] = toHost[c][k]
      BY <1>2, <2>2, <3>1
    <3>3. QED
      BY <3>1, <3>2
  <2>3. ASSUME NEW ms \in Seq(CM), toHost' = [toHost EXCEPT ![c] = @ \o ms]
        PROVE  \E l \in DOMAIN toHost'[c] : toHost'[c][l] = toHost[c][k]
    <3>1. toHost'[c] = toHost[c] \o ms
      BY <1>1, <2>3
    <3>2. QED
      BY <1>2, <3>1, ConcatAt
  <2>4. QED
    BY <1>1, <2>1, <2>2, <2>3
<1>4. LastDefOnLine(c) => LastDefOnLine(c)'
  BY <1>3 DEF LastDefOnLine, IsLastDef
<1>5. QED
  BY <1>2, <1>4 DEF LastDefOnLine

\* No list is taken from those that are owed.
Kept == \A b \in Clients : Owed(b) => Owed(b)'

LEMMA HostHandlesKeepsOwed ==
  ASSUME IInv, NEW c \in Clients, HostHandles(c), state' = "CONNECTING"
  PROVE  Kept
<1>1. LinkTypeOK /\ UNCHANGED sending /\ HostReceive(c)
  BY DEF IInv, HostHandles, clientVars
<1>2. ASSUME NEW ms \in Seq(HostMessages), toHost[c] # <<>>, ReplyToClient(c, ms),
             ~IsLastDef(Head(toHost[c]))
      PROVE  Kept
  BY <1>1, <1>2, OffersStay, LastDefsStay DEF ReplyToClient, Kept, Owed
<1>3. CASE ConnectBusy(c) \/ ConnectAccepted(c)
  <2>1. \E st \in {"OK", "BUSY", "DUPLICATE_CLIENT"} : ReplyToClient(c, << ConnectResponse(st) >>)
    BY <1>3 DEF ConnectBusy, ConnectAccepted, SppConnectToClient
  <2>2. \E ms \in Seq(HostMessages) : ReplyToClient(c, ms)
    BY <2>1, HostMessageTypes, OneMessage
  <2>3. toHost[c] # <<>> /\ ~IsLastDef(Head(toHost[c]))
    BY <1>3 DEF ConnectBusy, ConnectAccepted, Received, IsLastDef, IsDef
  <2>4. QED
    BY <1>2, <2>2, <2>3
<1>4. CASE PropListReceived(c) \/ PropDefReceived(c) \/ ResponseReceived(c) \/ StreamReceived(c)
  <2>1. toHost[c] # <<>> /\ ReplyToClient(c, <<>>) /\ <<>> \in Seq(HostMessages)
    BY <1>4 DEF PropListReceived, PropDefReceived, ResponseReceived, StreamReceived, Received, Discard
  <2>2. ~IsLastDef(Head(toHost[c]))
    BY <1>4 DEF PropListReceived, PropDefReceived, ResponseReceived, StreamReceived, Received,
                IsLastDef, IsDef, LastDefinition
  <2>3. QED
    BY <1>2, <2>1, <2>2
<1>5. QED
  BY <1>1, <1>3, <1>4 DEF HostReceive

LEMMA ViewerAsksKeepsOwed ==
  ASSUME IInv, NEW c \in Clients, ViewerAsks(c)
  PROVE  Kept
<1>1. LinkTypeOK /\ UNCHANGED <<sending, toHost>>
  BY DEF IInv, ViewerAsks, clientVars, SppHostGetValue, SppHostSetValue, SppHostStartStream,
         IssueRequest
<1>2. SppGetToken \in Tokens /\ StreamIdSent \in StreamIds
  BY NextTokenIsToken DEF IInv, Window, TokenTypeOK, StreamIdSent, StreamTypeOK
<1>3. PICK m \in HostMessages : toClient' = [toClient EXCEPT ![c] = Append(@, m)]
  <2>1. \A p \in AppProps : SppHostGetValue(c, p) => IssueRequest(c, GetRequest(SppGetToken, p))
    BY DEF SppHostGetValue
  <2>2. \A p \in AppProps : SppHostSetValue(c, p) => IssueRequest(c, SetRequest(SppGetToken, p))
    BY DEF SppHostSetValue
  <2>3. \A p \in StreamProps :
          SppHostStartStream(c, p) => IssueRequest(c, StreamRequest(SppGetToken, StreamIdSent, p))
    BY DEF SppHostStartStream
  <2>4. \E m \in HostMessages : IssueRequest(c, m)
    BY <1>2, <2>1, <2>2, <2>3, HostMessageTypes DEF ViewerAsks
  <2>5. QED
    BY <2>4 DEF IssueRequest
<1>4. toClient' = [toClient EXCEPT ![c] = @ \o << m >>]
  <2>1. PICK HM : HM = HostMessages /\ toClient \in [Clients -> Seq(HM)]
    BY <1>1, LinesAreSequences
  <2>2. Append(toClient[c], m) = toClient[c] \o << m >>
    BY <2>1, AppendAt
  <2>3. QED
    BY <1>3, <2>2
<1>5. QED
  BY <1>1, <1>4, OneMessage, OffersStay, LastDefsStay DEF Kept, Owed

LEMMA ClientHandlesKeepsOwed ==
  ASSUME IInv, NEW c \in Clients, ClientHandles(c)
  PROVE  Kept
<1> DEFINE m == Head(toClient[c])
<1>1. LinkTypeOK
  BY DEF IInv
<1>2. toClient[c] # <<>> => m \in HostMessages
  BY <1>1, HeadsTyped
<1>3. ASSUME NEW ms \in Seq(ClientMessages), toClient[c] # <<>>, ReplyToHost(c, ms),
             ~IsOk(m), UNCHANGED sending
      PROVE  Kept
  BY <1>1, <1>3, OffersStay, LastDefsStay DEF ReplyToHost, Kept, Owed
<1>4. CASE ConnectRefused(c) \/ StreamRequested(c)
  <2>1. /\ toClient[c] # <<>> /\ ReplyToHost(c, <<>>) /\ UNCHANGED sending
        /\ ~IsOk(m) /\ <<>> \in Seq(ClientMessages)
    BY <1>4 DEF ConnectRefused, StreamRequested, Addressed, IsOk, ConnectResponse
  <2>2. QED
    BY <1>3, <2>1
<1>5. CASE GetReceived(c) \/ SetReceived(c)
  <2>1. toClient[c] # <<>> /\ UNCHANGED sending /\ ~IsOk(m)
    BY <1>5 DEF GetReceived, SetReceived, Addressed, IsOk, ConnectResponse, clientVars
  <2>2. m.token \in Tokens
    BY <1>2, <1>5, HostMessageFields DEF GetReceived, SetReceived, Addressed
  <2>3. \/ m.prop \in Props /\ ReplyToHost(c, << GetResponse(m.token, m.prop) >>)
        \/ ReplyToHost(c, << SetResponse(m.token) >>)
    BY <1>5, ListedProps DEF GetReceived, SetReceived, SetAnswer
  <2>4. \E ms \in Seq(ClientMessages) : ReplyToHost(c, ms)
    BY <2>2, <2>3, ClientMessageTypes, OneMessage
  <2>5. QED
    BY <1>3, <2>1, <2>4
<1>6. CASE SendPropertyList(c)
  <2>1. /\ sending'[c] = 1 /\ \A b \in Clients \ {c} : sending'[b] = sending[b]
        /\ toClient' = [toClient EXCEPT ![c] = Tail(@)]
    BY <1>6 DEF SendPropertyList, ReplyToHost, IInv, ClientTypeOK
  <2>2. \A b \in Clients \ {c} : toClient'[b] = toClient[b]
    BY <1>1, <2>1, OneLineChanges
  <2>3. << PropListResponse(Len(PropertyList[c])) >> \in Seq(ClientMessages)
    BY ListedProps, ClientMessageTypes, OneMessage
  <2>4. \A b \in Clients : LastDefOnLine(b) => LastDefOnLine(b)'
    BY <1>1, <1>6, <2>3, LastDefsStay DEF SendPropertyList, ReplyToHost
  <2>5. QED
    BY <2>1, <2>2, <2>4 DEF Kept, Owed, Offered
<1>7. CASE SendPropDef(c)
  <2> DEFINE i == sending[c]
             n == Len(PropertyList[c])
             d == PropDef(PropertyList[c][i], n - i)
  <2>1. i \in 1 .. n /\ n \in Nat
    BY <1>7, ListedProps DEF SendPropDef, IInv, ClientTypeOK
  <2>2. PropertyList[c][i] \in Props /\ n - i \in Nat
    BY <2>1, ListedProps
  <2>3. d \in ClientMessages
    BY <2>2, ClientMessageTypes
  <2>4. toHost' = [toHost EXCEPT ![c] = @ \o << d >>] /\ UNCHANGED toClient
    BY <1>7 DEF SendPropDef, SendToHost, RemainingAfter
  <2>5. /\ sending'[c] = IF i = n THEN 0 ELSE i + 1
        /\ \A b \in Clients \ {c} : sending'[b] = sending[b]
    BY <1>7 DEF SendPropDef, IInv, ClientTypeOK
  <2>6. (\A b \in Clients : LastDefOnLine(b) => LastDefOnLine(b)') /\ \A b \in Clients : Offered(b) => Offered(b)'
    BY <1>1, <2>3, <2>4, OneMessage, OffersStay, LastDefsStay
  <2>7. CASE i = n
    <3>1. IsDef(d) /\ d.remaining = 0
      BY <2>1, <2>7 DEF PropDef, IsDef
    <3>2. toHost'[c] = toHost[c] \o << d >>
      BY <2>4 DEF IInv, LinkTypeOK
    <3> HIDE DEF d
    <3>3. PICK k \in DOMAIN toHost'[c] : toHost'[c][k] = d
      BY <1>1, <2>3, <3>2, PushedHost
    <3>4. LastDefOnLine(c)'
      BY <3>1, <3>3, Zenon DEF LastDefOnLine
    <3>5. QED
      BY <2>5, <2>6, <3>4 DEF Kept, Owed
  <2>8. CASE i # n
    <3>1. sending'[c] # 0
      BY <2>1, <2>5, <2>8
    <3>2. QED
      BY <2>5, <2>6, <3>1 DEF Kept, Owed
  <2>9. QED
    BY <2>7, <2>8
<1>8. QED
  BY <1>4, <1>5, <1>6, <1>7 DEF ClientHandles, ClientReceive

LEMMA StillOwed ==
  ASSUME UNCHANGED <<toHost, toClient, sending>>
  PROVE  Kept
BY DEF Kept, Owed, Offered, LastDefOnLine

LEMMA ClientSendsKeepsOwed ==
  ASSUME IInv, NEW c \in Clients, ClientBroadcasts(c) \/ ClientStreams(c)
  PROVE  Kept
<1>1. LinkTypeOK /\ UNCHANGED <<sending, toClient>>
  BY DEF IInv, ClientBroadcasts, SppClientStart, ClientStreams, SppProcessStreams, clientVars
<1>2. PICK ms \in Seq(ClientMessages) : toHost' = [toHost EXCEPT ![c] = @ \o ms]
  <2>1. CASE ClientBroadcasts(c)
    <3>1. << ConnectRequest(ListId[c]) >> \in Seq(ClientMessages)
      BY ListIdAssumption, ClientMessageTypes, OneMessage
    <3>2. QED
      BY <2>1, <3>1 DEF ClientBroadcasts, SppClientStart, SendToHost
  <2>2. CASE ClientStreams(c)
    <3>1. PICK m \in ClientMessages : SendToHost(c, << m >>)
      BY <2>2, StreamSent
    <3>2. QED
      BY <3>1, OneMessage DEF SendToHost
  <2>3. QED
    BY <2>1, <2>2
<1>3. QED
  BY <1>1, <1>2, OffersStay, LastDefsStay DEF Kept, Owed

\* Nobody is left waiting by a loss: a host that is down waits for nothing, and
\* nothing is on the line of a vehicle that is off.
LEMMA LossKeepsOwed ==
  ASSUME OffIsNewInv, NothingLost, NEW c \in Clients, Lose(c)
  PROVE  ~host_up'
BY BusyIsOn DEF Lose, NothingLost, LoseToClient, hostVars

LEMMA NextKeepsOwed ==
  ASSUME IInv, IInv', ListFacts, OffIsNewInv, ListOwed, [Next]_vars, NothingLost,
         DefaultClient = NoClient
  PROVE  ListOwed'
<1> SUFFICES ASSUME host_up', state' = "CONNECTING" PROVE Owed(LastClient.client)'
  BY DEF ListOwed
<1>1. ASSUME Kept, UNCHANGED clients, host_up, state = "CONNECTING" PROVE Owed(LastClient.client)'
  <2>1. PICK E : E = [client : Clients, list_id : Nat] /\ clients \in Seq(E)
    BY DEF IInv, Table, TableTypeOK
  <2>2. ASSUME NEW S, NEW s \in Seq(S), s # <<>> PROVE s[Len(s)] \in S
    BY <2>2
  <2>3. clients # <<>>
    BY <1>1 DEF ListFacts, LastIsNew
  <2>4. LastClient \in E
    BY <2>1, <2>2, <2>3 DEF LastClient
  <2>5. LastClient.client \in Clients /\ LastClient' = LastClient
    BY <1>1, <2>1, <2>4 DEF LastClient
  <2>6. Owed(LastClient.client)
    BY <1>1 DEF ListOwed
  <2>7. PICK b \in Clients : b = LastClient.client /\ Owed(b)
    BY <2>5, <2>6
  <2>8. Owed(b)' /\ b = LastClient'.client
    BY <1>1, <2>5, <2>7 DEF Kept
  <2>9. QED
    BY <2>8 DEF Owed, Offered, LastDefOnLine
<1>2. CASE PowerOnHost
  BY <1>2 DEF PowerOnHost, HostBoot
<1>3. CASE PowerOffHost
  BY <1>3 DEF PowerOffHost, HostCrash
<1>4. CASE UNCHANGED vars \/ \E c \in Clients : Overrun(c)
  <2>1. UNCHANGED <<hostVars, clientVars, linkVars>>
    BY <1>4 DEF vars, Overrun, HostOverrun, ClientOverrun
  <2>2. QED
    BY <1>1, <2>1, StillOwed DEF hostVars, tableVars, clientVars, linkVars
<1>5. ASSUME NEW c \in Clients, PowerOnClient(c) PROVE Owed(LastClient.client)'
  <2>1. NoClientRestarted'
    <3>1. \A b \in Clients : client_boots'[b] \in 0 .. MaxClientBoots
      BY DEF IInv, PowerTypeOK
    <3>2. QED
      BY <3>1, BootsAssumption DEF NoClientRestarted, NothingLost
  <2>2. UNCHANGED <<linkVars, hostVars>> /\ UNCHANGED sending
    BY <1>5, <2>1, FirstStart DEF PowerOnClient, ClientBoot
  <2>3. QED
    BY <1>1, <2>2, StillOwed DEF hostVars, tableVars, linkVars
<1>6. ASSUME NEW c \in Clients, PowerOffClient(c) PROVE FALSE
  BY <1>6, StaysOn
<1>7. ASSUME NEW c \in Clients, HostHandles(c) PROVE Owed(LastClient.client)'
  <2>1. Kept
    BY <1>7, HostHandlesKeepsOwed
  <2>2. CASE ConnectAccepted(c)
    <3> DEFINE id == Head(toHost[c]).list_id
    <3>1. /\ Len(clients') = Len(clients) + 1
          /\ clients'[Len(clients) + 1] = [client |-> c, list_id |-> id]
          /\ ReplyToClient(c, << ConnectResponse("OK") >>)
      BY <2>2, RequestOfNew, NewClient
    <3>2. LastClient'.client = c
      BY <3>1 DEF LastClient
    <3>3. toClient'[c] = toClient[c] \o << ConnectResponse("OK") >>
      BY <3>1 DEF ReplyToClient, IInv, LinkTypeOK
    <3>4. ConnectResponse("OK") \in HostMessages
      BY HostMessageTypes
    <3>5. Offered(c)'
      BY <3>3, <3>4, PushedClient DEF Offered, IsOk, IInv
    <3>6. QED
      BY <3>2, <3>5 DEF Owed, Offered
  <2>3. CASE ~ConnectAccepted(c)
    <3>1. UNCHANGED clients /\ host_up /\ state = "CONNECTING"
      BY <1>7, <2>3 DEF HostHandles, HostReceive, ConnectBusy, PropListReceived, PropDefReceived,
                        ResponseReceived, StreamReceived, tableVars, Received
    <3>2. QED
      BY <1>1, <2>1, <3>1
  <2>4. QED
    BY <2>2, <2>3
<1>8. ASSUME NEW c \in Clients, ViewerAsks(c) PROVE Owed(LastClient.client)'
  <2>1. UNCHANGED <<host_up, tableVars>>
    BY <1>8 DEF ViewerAsks, SppHostGetValue, SppHostSetValue, SppHostStartStream, IssueRequest
  <2>2. QED
    BY <1>1, <1>8, <2>1, ViewerAsksKeepsOwed DEF tableVars
<1>9. ASSUME NEW c \in Clients, ClientHandles(c) \/ ClientBroadcasts(c) \/ ClientStreams(c)
      PROVE  Owed(LastClient.client)'
  <2>1. UNCHANGED <<host_up, tableVars>>
    BY <1>9 DEF ClientHandles, ClientBroadcasts, ClientStreams, hostVars
  <2>2. Kept
    BY <1>9, ClientHandlesKeepsOwed, ClientSendsKeepsOwed
  <2>3. QED
    BY <1>1, <2>1, <2>2 DEF tableVars
<1>10. ASSUME NEW c \in Clients, Lose(c) PROVE FALSE
  BY <1>10, LossKeepsOwed
<1>11. QED
  BY <1>2, <1>3, <1>4, <1>5, <1>6, <1>7, <1>8, <1>9, <1>10 DEF Next

\* A host that is receiving a property list (state CONNECTING, in which
\* every other client is refused, spp/src-host/spp.c:245) is
\* never left there with nothing to come: the client it asked has the question
\* still before it, is sending the list, or has sent the last definition.  This
\* is the part of ConnectingEnds no fairness can give, and it holds of every
\* number of vehicles, of lists and of starts of the server.  A loss, or one
\* vehicle switched off for a moment, breaks it.
THEOREM ListsAreOwed ==
  ASSUME NothingLost, DefaultClient = NoClient
  PROVE  Spec => []ListOwed
<1> DEFINE Inv == IInv /\ ListInv /\ OffIsNewInv /\ ListOwed
<1>1. Init => Inv
  <2>1. Init => ListOwed
    BY DEF Init, ListOwed
  <2>2. QED
    BY <2>1, InitIInv, InitLists, InitRequests
<1>2. Inv /\ [Next]_vars => Inv'
  <2> SUFFICES ASSUME Inv, [Next]_vars PROVE Inv'
    OBVIOUS
  <2>1. IInv' /\ ListInv'
    BY NextKeepsIInv, NextKeepsLists
  <2>2. ListFacts
    BY NobodyRestarts DEF ListInv
  <2>3. OffIsNewInv' /\ ListOwed'
    BY <2>1, <2>2, NextKeepsOff, NextKeepsOwed
  <2>4. QED
    BY <2>1, <2>3
<1>3. QED
  BY <1>1, <1>2, PTL DEF Spec
=============================================================================
