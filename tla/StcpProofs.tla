------------------------------ MODULE StcpProofs ------------------------------
(***************************************************************************)
(* Proofs about Stcp: framing gives back what it was given, for every set  *)
(* of messages, any number of frames and any number of lost bytes.         *)
(***************************************************************************)
EXTENDS Stcp, SequenceTheorems, WellFoundedInduction, TLAPS

-----------------------------------------------------------------------------
\* Induction, in the form of a set that has zero and every successor.

\* Every set of natural numbers that is not empty has a least element.
LEMMA LeastNatural ==
  ASSUME NEW S \in SUBSET Nat, S # {}
  PROVE  \E n \in S : \A m \in S : n <= m
<1>1. IsWellFoundedOn(OpToRel(<, Nat), Nat)
  BY NatLessThanWellFounded, Zenon
<1>2. PICK n \in S : \A m \in S : ~ (<<m, n>> \in OpToRel(<, Nat))
  BY <1>1, WFMin, Zenon
<1>3. \A m \in S : ~ (m < n)
  BY <1>2 DEF OpToRel
<1>4. QED
  BY <1>3

\* A set of natural numbers with zero and the successor of each of its elements
\* has them all.
LEMMA NatSetInduction ==
  ASSUME NEW S \in SUBSET Nat, 0 \in S, \A n \in S : n + 1 \in S
  PROVE  S = Nat
<1>1. SUFFICES ASSUME Nat \ S # {} PROVE FALSE
  OBVIOUS
<1>2. PICK n \in Nat \ S : \A m \in Nat \ S : n <= m
  BY <1>1, LeastNatural
<1>3. n - 1 \in Nat
  BY <1>2
<1>4. n - 1 \in S
  BY <1>2, <1>3
<1>5. QED
  BY <1>2, <1>3, <1>4

-----------------------------------------------------------------------------
\* The two recursive definitions have values.

\* FlattenSeq is the last of the concatenations of its first i sequences.
LEMMA FlattenSeqValue ==
  ASSUME NEW q, Len(q) \in Nat, Len(q) # 0
  PROVE  \E G : /\ \A i \in 1 .. Len(q) : G[i] = IF i = 1 THEN q[i] ELSE G[i - 1] \o q[i]
                /\ FlattenSeq(q) = G[Len(q)]
<1> DEFINE Body(g, i) == IF i = 1 THEN q[i] ELSE g[i - 1] \o q[i]
           S == { n \in Nat : \E g : g = [i \in 1 .. n |-> Body(g, i)] }
<1>1. 0 \in S
  <2> DEFINE g0 == [i \in 1 .. 0 |-> <<>>]
  <2>1. g0 = [i \in 1 .. 0 |-> Body(g0, i)]
    BY 1 .. 0 = {}
  <2>2. QED
    BY <2>1
<1>2. ASSUME NEW n \in S PROVE n + 1 \in S
  <2>1. PICK g : g = [i \in 1 .. n |-> Body(g, i)]
    OBVIOUS
  <2> DEFINE h == [i \in 1 .. n + 1 |-> Body(g, i)]
  <2>2. ASSUME NEW i \in 1 .. n + 1 PROVE h[i] = Body(h, i)
    <3>1. CASE i = 1
      BY <3>1
    <3>2. CASE i # 1
      <4>1. i - 1 \in 1 .. n /\ i - 1 \in 1 .. n + 1
        BY <3>2
      <4>2. h[i - 1] = g[i - 1]
        BY <2>1, <4>1
      <4>3. QED
        BY <3>2, <4>2
    <3>3. QED
      BY <3>1, <3>2
  <2>3. h = [i \in 1 .. n + 1 |-> Body(h, i)]
    BY <2>2
  <2>4. \E f : f = [i \in 1 .. n + 1 |-> Body(f, i)]
    <3> HIDE DEF h
    <3>1. QED
      BY <2>3
  <2>5. n + 1 \in Nat
    OBVIOUS
  <2>6. QED
    <3> HIDE DEF Body, h
    <3>1. QED
      BY <2>4, <2>5
<1>3. S = Nat
  <2> HIDE DEF S
  <2>1. S \in SUBSET Nat
    BY DEF S
  <2>2. QED
    BY <1>1, <1>2, <2>1, NatSetInduction
<1> DEFINE G == CHOOSE g : g = [i \in 1 .. Len(q) |-> Body(g, i)]
<1>4. G = [i \in 1 .. Len(q) |-> Body(G, i)]
  <2>1. \E g : g = [i \in 1 .. Len(q) |-> Body(g, i)]
    BY <1>3
  <2>2. QED
    BY <2>1, Zenon
<1>5. FlattenSeq(q) = G[Len(q)]
  BY DEF FlattenSeq
<1> HIDE DEF G
<1>6. QED
  BY <1>4, <1>5

\* The local function of StcpUnEscape.
UnEscapesFrom(b, F) ==
  \A i \in Nat :
    F[i] = IF i > Len(b) - 2 THEN <<>>
           ELSE IF b[i] = STCP_ESCAPE THEN << b[i + 1] >> \o F[i + 2]
           ELSE << b[i] >> \o F[i + 1]

LEMMA UnEscapeValue ==
  ASSUME NEW b, Len(b) \in Nat
  PROVE  \E F : UnEscapesFrom(b, F) /\ StcpUnEscape(b) = F[2]
<1> DEFINE Body(g, i) == IF i > Len(b) - 2 THEN <<>>
                         ELSE IF b[i] = STCP_ESCAPE THEN << b[i + 1] >> \o g[i + 2]
                         ELSE << b[i] >> \o g[i + 1]
           D(n) == { i \in Nat : i + n > Len(b) - 2 }
           S == { n \in Nat : \E g : g = [i \in D(n) |-> Body(g, i)] }
<1>1. 0 \in S
  <2> DEFINE g0 == [i \in D(0) |-> <<>>]
  <2>1. g0 = [i \in D(0) |-> Body(g0, i)]
    OBVIOUS
  <2>2. \E g : g = [i \in D(0) |-> Body(g, i)]
    <3> HIDE DEF g0
    <3>1. QED
      BY <2>1
  <2>3. QED
    BY <2>2
<1>2. ASSUME NEW n \in S PROVE n + 1 \in S
  <2>1. PICK g : g = [i \in D(n) |-> Body(g, i)]
    OBVIOUS
  <2> DEFINE h == [i \in D(n + 1) |-> Body(g, i)]
  <2>2. ASSUME NEW i \in D(n + 1) PROVE h[i] = Body(h, i)
    <3>1. CASE i > Len(b) - 2
      BY <3>1
    <3>2. CASE ~(i > Len(b) - 2)
      <4>1. /\ i + 1 \in D(n) /\ i + 1 \in D(n + 1)
            /\ i + 2 \in D(n) /\ i + 2 \in D(n + 1)
        BY <3>2
      <4>2. h[i + 1] = g[i + 1] /\ h[i + 2] = g[i + 2]
        BY <2>1, <4>1
      <4>3. QED
        BY <3>2, <4>2
    <3>3. QED
      BY <3>1, <3>2
  <2>3. h = [i \in D(n + 1) |-> Body(h, i)]
    BY <2>2
  <2>4. \E f : f = [i \in D(n + 1) |-> Body(f, i)]
    <3> HIDE DEF h
    <3>1. QED
      BY <2>3
  <2>5. n + 1 \in Nat
    OBVIOUS
  <2>6. QED
    <3> HIDE DEF Body, h
    <3>1. QED
      BY <2>4, <2>5
<1>3. S = Nat
  <2> HIDE DEF S
  <2>1. S \in SUBSET Nat
    BY DEF S
  <2>2. QED
    BY <1>1, <1>2, <2>1, NatSetInduction
<1>4. \E g : g = [i \in Nat |-> Body(g, i)]
  <2>1. D(Len(b)) = Nat
    OBVIOUS
  <2>2. QED
    BY <1>3, <2>1
<1> DEFINE F == CHOOSE g : g = [i \in Nat |-> Body(g, i)]
<1>5. F = [i \in Nat |-> Body(F, i)]
  BY <1>4, Zenon
<1>6. StcpUnEscape(b) = F[2]
  BY DEF StcpUnEscape
<1> HIDE DEF F
<1>7. QED
  BY <1>5, <1>6 DEF UnEscapesFrom

-----------------------------------------------------------------------------
\* The bytes of a message between header and footer.
Spelling(m) == FlattenSeq([i \in DOMAIN m |-> Escaped(m[i])])

\* One more byte spelled out behind what there is.
LEMMA EscapedByte ==
  ASSUME NEW T, Special \subseteq T, NEW x \in T
  PROVE  /\ Escaped(x) \in Seq(T)
         /\ x \in Special => Len(Escaped(x)) = 2 /\ Escaped(x)[1] = STCP_ESCAPE /\ Escaped(x)[2] = x
         /\ x \notin Special => Len(Escaped(x)) = 1 /\ Escaped(x)[1] = x
BY DEF Escaped, Special

\* No footer in a stands without an escape in front of it.
FootersEscaped(a) ==
  \A p \in 1 .. Len(a) : a[p] = STCP_FOOTER => p > 1 /\ a[p - 1] = STCP_ESCAPE

LEMMA ConcatElements ==
  ASSUME NEW T, NEW u \in Seq(T), NEW v \in Seq(T)
  PROVE  /\ u \o v \in Seq(T)
         /\ Len(u \o v) = Len(u) + Len(v)
         /\ \A p \in 1 .. Len(u) : (u \o v)[p] = u[p]
         /\ \A p \in 1 .. Len(v) : (u \o v)[Len(u) + p] = v[p]
OBVIOUS

LEMMA OneInFront ==
  ASSUME NEW T, NEW x \in T, NEW a \in Seq(T)
  PROVE  /\ Len(<< x >> \o a) = 1 + Len(a)
         /\ \A k \in 1 .. Len(a) : (<< x >> \o a)[1 + k] = a[k]
OBVIOUS

LEMMA EscapedAppended ==
  ASSUME NEW T, Special \subseteq T, NEW x \in T, NEW u \in Seq(T), FootersEscaped(u)
  PROVE  LET v == u \o Escaped(x)
         IN  /\ v \in Seq(T) /\ FootersEscaped(v)
             /\ x \in Special => /\ Len(v) = Len(u) + 2
                                 /\ v[Len(u) + 1] = STCP_ESCAPE /\ v[Len(u) + 2] = x
             /\ x \notin Special => Len(v) = Len(u) + 1 /\ v[Len(u) + 1] = x
             /\ \A p \in 1 .. Len(u) : v[p] = u[p]
<1> DEFINE e == Escaped(x)
           v == u \o e
<1>1. /\ e \in Seq(T)
      /\ x \in Special => Len(e) = 2 /\ e[1] = STCP_ESCAPE /\ e[2] = x
      /\ x \notin Special => Len(e) = 1 /\ e[1] = x
  BY EscapedByte
<1> HIDE DEF e
<1>2. /\ v \in Seq(T) /\ Len(v) = Len(u) + Len(e)
      /\ \A p \in 1 .. Len(u) : v[p] = u[p]
      /\ \A p \in 1 .. Len(e) : v[Len(u) + p] = e[p]
  BY <1>1, ConcatElements
<1> HIDE DEF v
<1>3. /\ x \in Special => Len(v) = Len(u) + 2 /\ v[Len(u) + 1] = STCP_ESCAPE /\ v[Len(u) + 2] = x
      /\ x \notin Special => Len(v) = Len(u) + 1 /\ v[Len(u) + 1] = x
  BY <1>1, <1>2
<1>4. Len(u) \in Nat
  OBVIOUS
<1>5. ASSUME NEW p \in 1 .. Len(v), v[p] = STCP_FOOTER PROVE p > 1 /\ v[p - 1] = STCP_ESCAPE
  <2>1. CASE p \in 1 .. Len(u)
    <3>1. p > 1 /\ u[p - 1] = STCP_ESCAPE
      BY <1>2, <1>5, <2>1 DEF FootersEscaped
    <3>2. p - 1 \in 1 .. Len(u)
      BY <2>1, <3>1
    <3>3. QED
      BY <1>2, <3>1, <3>2
  <2>2. CASE p \notin 1 .. Len(u)
    <3>1. x \in Special
      <4>1. x \notin Special => p = Len(u) + 1
        BY <1>3, <1>4, <2>2
      <4>2. QED
        BY <1>3, <1>5, <4>1 DEF Special
    <3>2. p = Len(u) + 1 \/ p = Len(u) + 2
      BY <1>3, <1>4, <2>2, <3>1
    <3>3. p = Len(u) + 2
      BY <1>3, <1>5, <3>1, <3>2, BytesAssumption
    <3>4. p > 1 /\ p - 1 = Len(u) + 1
      BY <1>4, <3>3
    <3>5. QED
      BY <1>3, <3>1, <3>4
  <2>3. QED
    BY <2>1, <2>2
<1>6. QED
  BY <1>2, <1>3, <1>5 DEF v, e, FootersEscaped

\* Where the bytes of a message stand in its spelling: byte i begins behind the
\* first P[i - 1] bytes.
SpelledAt(m, w, P) ==
  /\ P[0] = 0 /\ P[Len(m)] = Len(w)
  /\ \A i \in 0 .. Len(m) : P[i] \in 0 .. Len(w)
  /\ \A i \in 1 .. Len(m) :
       m[i] \in Special =>
         P[i] = P[i - 1] + 2 /\ w[P[i - 1] + 1] = STCP_ESCAPE /\ w[P[i - 1] + 2] = m[i]
  /\ \A i \in 1 .. Len(m) :
       m[i] \notin Special => P[i] = P[i - 1] + 1 /\ w[P[i - 1] + 1] = m[i]

LEMMA SpelledOut ==
  ASSUME NEW T, Special \subseteq T, NEW m \in Seq(T), m # <<>>
  PROVE  /\ Spelling(m) \in Seq(T)
         /\ FootersEscaped(Spelling(m))
         /\ Len(Spelling(m)) <= 2 * Len(m)
         /\ \E P : SpelledAt(m, Spelling(m), P)
<1> DEFINE q == [i \in DOMAIN m |-> Escaped(m[i])]
           n == Len(m)
<1>1. /\ n \in Nat /\ n >= 1 /\ DOMAIN m = 1 .. n /\ Len(q) = n
      /\ \A i \in 1 .. n : q[i] = Escaped(m[i]) /\ m[i] \in T
  OBVIOUS
<1>2. PICK G : /\ \A i \in 1 .. n : G[i] = IF i = 1 THEN q[i] ELSE G[i - 1] \o q[i]
               /\ FlattenSeq(q) = G[n]
  <2> HIDE DEF q
  <2>1. QED
    BY <1>1, FlattenSeqValue
<1> HIDE DEF n, q
<1> DEFINE H == [i \in 0 .. n |-> IF i = 0 THEN <<>> ELSE G[i]]
<1>3. /\ H[0] = <<>> /\ H[n] = Spelling(m)
      /\ \A i \in 1 .. n : H[i] = H[i - 1] \o Escaped(m[i])
  <2>1. H[0] = <<>> /\ H[n] = G[n]
    BY <1>1
  <2>2. ASSUME NEW i \in 1 .. n PROVE H[i] = H[i - 1] \o Escaped(m[i])
    <3>1. CASE i = 1
      <4>1. H[i] = Escaped(m[i]) /\ H[i - 1] = <<>>
        BY <1>1, <1>2, <3>1
      <4>2. Escaped(m[i]) \in Seq(T)
        BY <1>1, EscapedByte
      <4>3. <<>> \o Escaped(m[i]) = Escaped(m[i])
        BY <4>2
      <4>4. QED
        BY <4>1, <4>3
    <3>2. CASE i # 1
      <4>1. i - 1 \in 0 .. n /\ i - 1 # 0 /\ i \in 0 .. n /\ i # 0
        BY <1>1, <3>2
      <4>2. QED
        BY <1>1, <1>2, <3>2, <4>1
    <3>3. QED
      BY <3>1, <3>2
  <2>3. QED
    BY <1>2, <2>1, <2>2 DEF Spelling, q
<1> HIDE DEF H
<1> DEFINE Good(j) ==
      /\ H[j] \in Seq(T) /\ FootersEscaped(H[j]) /\ Len(H[j]) <= 2 * j
      /\ \A i \in 0 .. j :
           /\ H[i] \in Seq(T) /\ Len(H[i]) <= Len(H[j])
           /\ \A p \in 1 .. Len(H[i]) : H[j][p] = H[i][p]
    S == { j \in Nat : j <= n => Good(j) }
<1>4. 0 \in S
  <2>1. <<>> \in Seq(T) /\ FootersEscaped(<<>>) /\ Len(<<>>) = 0
    BY DEF FootersEscaped
  <2>2. H[0] \in Seq(T) /\ FootersEscaped(H[0]) /\ Len(H[0]) <= 2 * 0
    BY <1>3, <2>1
  <2>3. Good(0)
    <3>1. \A i \in 0 .. 0 : i = 0
      OBVIOUS
    <3>2. Len(H[0]) <= Len(H[0])
      BY <1>3, <2>1
    <3>3. QED
      BY <2>2, <3>1, <3>2
  <2> HIDE DEF Good
  <2>4. QED
    BY <2>3
<1>5. ASSUME NEW j \in S PROVE j + 1 \in S
  <2> SUFFICES ASSUME j + 1 <= n PROVE Good(j + 1)
    OBVIOUS
  <2>1. j \in Nat /\ j <= n /\ Good(j) /\ j + 1 \in 1 .. n
    BY <1>1
  <2> HIDE DEF S, Good
  <2> DEFINE u == H[j]
             v == H[j + 1]
             x == m[j + 1]
  <2>2. v = u \o Escaped(x) /\ x \in T
    <3>1. H[j + 1] = H[(j + 1) - 1] \o Escaped(m[j + 1])
      BY <1>3, <2>1
    <3>2. (j + 1) - 1 = j
      BY <2>1
    <3>3. QED
      BY <1>1, <2>1, <3>1, <3>2
  <2>3. u \in Seq(T) /\ FootersEscaped(u) /\ Len(u) <= 2 * j
    BY <2>1 DEF Good
  <2> HIDE DEF u, v, x
  <2>4. /\ v \in Seq(T) /\ FootersEscaped(v)
        /\ Len(v) \in {Len(u) + 1, Len(u) + 2}
        /\ \A p \in 1 .. Len(u) : v[p] = u[p]
    BY <2>2, <2>3, EscapedAppended
  <2>5. Len(v) <= 2 * (j + 1) /\ Len(u) <= Len(v) /\ Len(u) \in Nat /\ Len(v) \in Nat
    BY <2>1, <2>3, <2>4
  <2>6. ASSUME NEW i \in 0 .. j + 1
        PROVE  /\ H[i] \in Seq(T) /\ Len(H[i]) <= Len(v)
               /\ \A p \in 1 .. Len(H[i]) : v[p] = H[i][p]
    <3>1. CASE i = j + 1
      BY <2>4, <2>5, <3>1 DEF v
    <3>2. CASE i \in 0 .. j
      <4>1. /\ H[i] \in Seq(T) /\ Len(H[i]) <= Len(u)
            /\ \A p \in 1 .. Len(H[i]) : u[p] = H[i][p]
        BY <2>1, <3>2 DEF Good, u
      <4>2. Len(H[i]) \in Nat
        BY <4>1
      <4>3. \A p \in 1 .. Len(H[i]) : p \in 1 .. Len(u)
        BY <2>5, <4>1, <4>2
      <4>4. QED
        BY <2>4, <2>5, <4>1, <4>2, <4>3
    <3>3. QED
      BY <2>1, <3>1, <3>2
  <2>7. QED
    BY <2>4, <2>5, <2>6 DEF Good, v
<1>6. S = Nat
  <2> HIDE DEF S
  <2>1. S \in SUBSET Nat
    BY DEF S
  <2>2. QED
    BY <1>4, <1>5, <2>1, NatSetInduction
<1>7. \A j \in 0 .. n : Good(j)
  BY <1>1, <1>6
<1> HIDE DEF S, Good
<1> DEFINE w == Spelling(m)
           P == [i \in 0 .. n |-> Len(H[i])]
<1>8. Good(n) /\ w = H[n]
  BY <1>1, <1>3, <1>7
<1> HIDE DEF w
<1>9. /\ w \in Seq(T) /\ FootersEscaped(w) /\ Len(w) <= 2 * n
      /\ \A i \in 0 .. n :
           /\ H[i] \in Seq(T) /\ Len(H[i]) \in 0 .. Len(w)
           /\ \A p \in 1 .. Len(H[i]) : w[p] = H[i][p]
  BY <1>8 DEF Good
<1>10. SpelledAt(m, w, P)
  <2>1. P[0] = 0 /\ P[n] = Len(w)
    BY <1>1, <1>3 DEF w
  <2>2. \A i \in 0 .. n : P[i] \in 0 .. Len(w)
    BY <1>9
  <2>3. ASSUME NEW i \in 1 .. n
        PROVE  /\ m[i] \in Special =>
                    P[i] = P[i - 1] + 2 /\ w[P[i - 1] + 1] = STCP_ESCAPE /\ w[P[i - 1] + 2] = m[i]
               /\ m[i] \notin Special => P[i] = P[i - 1] + 1 /\ w[P[i - 1] + 1] = m[i]
    <3> DEFINE u == H[i - 1]
               v == H[i]
               x == m[i]
    <3>1. i - 1 \in 0 .. n /\ i \in 0 .. n
      BY <1>1
    <3>2. /\ v = u \o Escaped(x) /\ x \in T /\ u \in Seq(T)
          /\ \A p \in 1 .. Len(v) : w[p] = v[p]
      BY <1>1, <1>3, <1>9, <3>1
    <3>3. P[i] = Len(v) /\ P[i - 1] = Len(u)
      BY <3>1
    <3>4. FootersEscaped(u) /\ Len(u) \in Nat
      BY <1>7, <3>1, <3>2 DEF Good
    <3> HIDE DEF u, v, x, P
    <3>5. /\ x \in Special => Len(v) = Len(u) + 2 /\ v[Len(u) + 1] = STCP_ESCAPE
                                 /\ v[Len(u) + 2] = x
          /\ x \notin Special => Len(v) = Len(u) + 1 /\ v[Len(u) + 1] = x
      BY <3>2, <3>4, EscapedAppended, SMTT(30)
    <3>6. QED
      BY <3>2, <3>3, <3>4, <3>5 DEF x
  <2> HIDE DEF P
  <2>4. QED
    BY <2>1, <2>2, <2>3 DEF SpelledAt, n
<1>11. QED
  BY <1>9, <1>10 DEF w, n

-----------------------------------------------------------------------------
\* A frame: header, the bytes of the message spelled out, two footers.

EndsInFooter(m) == Last(m) = STCP_FOOTER

LEMMA FrameForm ==
  ASSUME NEW T, Special \subseteq T, NEW m \in Seq(T), m # <<>>
  PROVE  /\ StcpEscape(m) \in Seq(T)
         /\ Spelling(m) \in Seq(T) /\ Len(Spelling(m)) \in Nat /\ Len(Spelling(m)) >= 1
         /\ Len(StcpEscape(m)) = Len(Spelling(m)) + 3
         /\ Len(StcpEscape(m)) <= 2 * Len(m) + 3
         /\ StcpEscape(m)[1] = STCP_HEADER
         /\ \A p \in 1 .. Len(Spelling(m)) : StcpEscape(m)[p + 1] = Spelling(m)[p]
         /\ StcpEscape(m)[Len(Spelling(m)) + 2] = STCP_FOOTER
         /\ StcpEscape(m)[Len(Spelling(m)) + 3] = STCP_FOOTER
         /\ Spelling(m)[Len(Spelling(m))] = Last(m)
<1> DEFINE w == Spelling(m)
           n == Len(m)
<1>1. n \in Nat /\ n >= 1
  OBVIOUS
<1>2. w \in Seq(T) /\ Len(w) <= 2 * n /\ Len(w) \in Nat
  BY SpelledOut
<1>3. PICK P : SpelledAt(m, w, P)
  BY SpelledOut
<1>4. StcpEscape(m) = << STCP_HEADER >> \o w \o << STCP_FOOTER, STCP_FOOTER >>
  BY DEF StcpEscape, Spelling
<1> HIDE DEF w
<1>5. Len(w) >= 1 /\ w[Len(w)] = m[n]
  <2>1. /\ n - 1 \in 0 .. n /\ n \in 1 .. n
        /\ P[n] = Len(w) /\ P[n - 1] \in 0 .. Len(w)
        /\ m[n] \in Special => P[n] = P[n - 1] + 2 /\ w[P[n - 1] + 2] = m[n]
        /\ m[n] \notin Special => P[n] = P[n - 1] + 1 /\ w[P[n - 1] + 1] = m[n]
    BY <1>1, <1>3 DEF SpelledAt
  <2> HIDE DEF n
  <2>2. QED
    BY <1>2, <2>1, SMTT(30)
<1> DEFINE F == StcpEscape(m)
<1>6. /\ F \in Seq(T) /\ Len(F) = Len(w) + 3 /\ F[1] = STCP_HEADER
      /\ \A p \in 1 .. Len(w) : F[p + 1] = w[p]
      /\ F[Len(w) + 2] = STCP_FOOTER /\ F[Len(w) + 3] = STCP_FOOTER
  <2> DEFINE h == << STCP_HEADER >>
             f == << STCP_FOOTER, STCP_FOOTER >>
  <2>1. /\ h \in Seq(T) /\ Len(h) = 1 /\ h[1] = STCP_HEADER
        /\ f \in Seq(T) /\ Len(f) = 2 /\ f[1] = STCP_FOOTER /\ f[2] = STCP_FOOTER
    BY DEF Special
  <2>2. F = h \o w \o f
    BY <1>4
  <2> HIDE DEF h, f, F
  <2> DEFINE g == h \o w
  <2>3. /\ g \in Seq(T) /\ Len(g) = 1 + Len(w) /\ g[1] = STCP_HEADER
        /\ \A p \in 1 .. Len(w) : g[1 + p] = w[p]
    <3>1. /\ g \in Seq(T) /\ Len(g) = Len(h) + Len(w)
          /\ \A p \in 1 .. Len(h) : g[p] = h[p]
          /\ \A p \in 1 .. Len(w) : g[Len(h) + p] = w[p]
      BY <1>2, <2>1, ConcatElements, SMTT(30)
    <3> HIDE DEF g
    <3>2. QED
      BY <2>1, <3>1
  <2>4. F = g \o f
    BY <2>2
  <2> HIDE DEF g
  <2>5. /\ F \in Seq(T) /\ Len(F) = Len(g) + 2
        /\ \A p \in 1 .. Len(g) : F[p] = g[p]
        /\ F[Len(g) + 1] = STCP_FOOTER /\ F[Len(g) + 2] = STCP_FOOTER
    <3>1. g \in Seq(T) /\ f \in Seq(T)
      BY <2>1, <2>3
    <3>2. /\ F \in Seq(T) /\ Len(F) = Len(g) + Len(f)
          /\ \A p \in 1 .. Len(g) : F[p] = g[p]
          /\ \A p \in 1 .. Len(f) : F[Len(g) + p] = f[p]
      BY <2>4, <3>1, ConcatElements
    <3>3. QED
      BY <2>1, <3>2
  <2>6. ASSUME NEW p \in 1 .. Len(w) PROVE F[p + 1] = w[p]
    <3>1. p + 1 \in 1 .. Len(g) /\ p + 1 = 1 + p
      BY <1>2, <2>3
    <3>2. QED
      BY <2>3, <2>5, <3>1
  <2>7. 1 \in 1 .. Len(g) /\ Len(g) + 1 = Len(w) + 2 /\ Len(g) + 2 = Len(w) + 3
    BY <1>2, <2>3
  <2>8. QED
    BY <2>3, <2>5, <2>6, <2>7
<1>7. Last(m) = m[n]
  BY DEF Last
<1>8. Len(F) <= 2 * n + 3
  <2> HIDE DEF F, n
  <2>1. QED
    BY <1>1, <1>2, <1>6
<1>9. QED
  BY <1>2, <1>5, <1>6, <1>7, <1>8 DEF w

\* Behind anything that is not complete itself, a frame is complete with its
\* last byte and, when its message ends in a footer byte, with the one before.
THEOREM CompleteAtTheEnd ==
  ASSUME NEW T, Special \subseteq T, NEW m \in Seq(T), m # <<>>,
         NEW b \in Seq(T), ~FrameComplete(b),
         NEW p \in 1 .. Len(StcpEscape(m))
  PROVE  FrameComplete(b \o SubSeq(StcpEscape(m), 1, p)) <=>
           \/ p = Len(StcpEscape(m))
           \/ p = Len(StcpEscape(m)) - 1 /\ EndsInFooter(m)
<1> DEFINE F == StcpEscape(m)
           w == Spelling(m)
           a == SubSeq(F, 1, p)
           c == b \o a
<1>1. /\ F \in Seq(T) /\ Len(F) = Len(w) + 3 /\ F[1] = STCP_HEADER
      /\ Len(w) \in Nat /\ Len(w) >= 1
      /\ \A k \in 1 .. Len(w) : F[k + 1] = w[k]
      /\ F[Len(w) + 2] = STCP_FOOTER /\ F[Len(w) + 3] = STCP_FOOTER
      /\ w[Len(w)] = Last(m)
  BY FrameForm
<1>2. FootersEscaped(w)
  BY SpelledOut
<1>3. p \in 1 .. Len(F)
  OBVIOUS
<1> HIDE DEF F, w
<1>4. a \in Seq(T) /\ Len(a) = p /\ \A k \in 1 .. p : a[k] = F[k]
  BY <1>1, <1>3
<1> HIDE DEF a
<1>5. /\ Len(c) = Len(b) + p /\ Len(b) \in Nat
      /\ \A k \in 1 .. Len(b) : c[k] = b[k]
      /\ \A k \in 1 .. p : c[Len(b) + k] = F[k]
  <2>1. /\ Len(c) = Len(b) + Len(a)
        /\ \A k \in 1 .. Len(b) : c[k] = b[k]
        /\ \A k \in 1 .. Len(a) : c[Len(b) + k] = a[k]
    BY <1>4, ConcatElements
  <2> HIDE DEF c
  <2>2. QED
    BY <1>4, <2>1
<1> HIDE DEF c
<1> SUFFICES FrameComplete(c) <=> p = Len(F) \/ (p = Len(F) - 1 /\ EndsInFooter(m))
  BY DEF c, a, F
<1>6. FrameComplete(c) <=>
        Len(c) >= 2 /\ c[Len(c) - 1] = STCP_FOOTER /\ c[Len(c)] = STCP_FOOTER
  <2>1. Len(c) \in Nat
    BY <1>3, <1>5
  <2>2. \A i \in Len(c) - 1 .. Len(c) : i = Len(c) - 1 \/ i = Len(c)
    BY <2>1
  <2>3. Len(c) - 1 \in Len(c) - 1 .. Len(c) /\ Len(c) \in Len(c) - 1 .. Len(c)
    BY <2>1
  <2>4. QED
    BY <2>2, <2>3 DEF FrameComplete
<1>7. c[Len(c)] = F[p]
  BY <1>3, <1>5
<1>8. CASE p = 1
  BY <1>1, <1>6, <1>7, <1>8, BytesAssumption
<1>9. CASE p > 1
  <2>1. c[Len(c) - 1] = F[p - 1] /\ Len(c) >= 2
    <3>1. p - 1 \in 1 .. p /\ Len(c) - 1 = Len(b) + (p - 1)
      BY <1>3, <1>5, <1>9
    <3>2. QED
      BY <1>5, <3>1
  <2>2. FrameComplete(c) <=> F[p - 1] = STCP_FOOTER /\ F[p] = STCP_FOOTER
    BY <1>6, <1>7, <2>1
  <2>3. CASE p = Len(F)
    BY <1>1, <2>2, <2>3
  <2>4. CASE p = Len(F) - 1
    <3>1. F[p] = STCP_FOOTER /\ F[p - 1] = Last(m)
      <4>1. p = Len(w) + 2 /\ p - 1 = Len(w) + 1 /\ Len(w) \in 1 .. Len(w)
        BY <1>1, <2>4
      <4>2. QED
        BY <1>1, <4>1
    <3>2. p # Len(F)
      BY <1>1, <2>4
    <3>3. QED
      BY <2>2, <2>4, <3>1, <3>2 DEF EndsInFooter
  <2>5. CASE p < Len(F) - 1
    <3>1. p - 1 \in 1 .. Len(w) /\ F[p] = w[p - 1]
      <4>1. p - 1 \in 1 .. Len(w) /\ (p - 1) + 1 = p
        BY <1>1, <1>3, <1>9, <2>5
      <4>2. QED
        BY <1>1, <4>1
    <3>2. ASSUME F[p] = STCP_FOOTER PROVE F[p - 1] # STCP_FOOTER
      <4>1. p - 1 > 1 /\ w[(p - 1) - 1] = STCP_ESCAPE
        BY <1>2, <3>1, <3>2 DEF FootersEscaped
      <4>2. (p - 1) - 1 \in 1 .. Len(w) /\ ((p - 1) - 1) + 1 = p - 1
        BY <1>1, <3>1, <4>1
      <4>3. F[p - 1] = STCP_ESCAPE
        BY <1>1, <4>1, <4>2
      <4>4. QED
        BY <4>3, BytesAssumption
    <3>3. QED
      BY <1>1, <2>2, <2>5, <3>2
  <2>6. QED
    BY <1>1, <1>3, <2>3, <2>4, <2>5
<1>10. QED
  BY <1>1, <1>3, <1>8, <1>9

\* The bytes w stand in b behind the first s.
CarriesAt(b, s, w) == \A p \in 1 .. Len(w) : b[s + p] = w[p]

\* From where the message begins on, StcpUnEscape gives back its bytes, whether
\* the frame was complete with the last footer or with the one before.
LEMMA UnEscapedRest ==
  ASSUME NEW T, Special \subseteq T, NEW m \in Seq(T), m # <<>>, NEW w \in Seq(T),
         NEW P, SpelledAt(m, w, P),
         NEW s \in Nat, NEW b, Len(b) \in Nat,
         CarriesAt(b, s, w),
         Len(b) = s + Len(w) + 2 \/ (Len(b) = s + Len(w) + 1 /\ EndsInFooter(m)),
         NEW F, UnEscapesFrom(b, F)
  PROVE  F[s + 1] = m
<1> DEFINE n == Len(m)
           At(j) == F[s + P[j] + 1] = SubSeq(m, j + 1, n)
           S == { k \in Nat : k <= n => At(n - k) }
<1>1. n \in Nat /\ n >= 1 /\ Len(w) \in Nat /\ m[n] = Last(m)
  BY DEF Last
<1>2. /\ P[0] = 0 /\ P[n] = Len(w)
      /\ \A i \in 0 .. n : P[i] \in 0 .. Len(w)
      /\ \A i \in 1 .. n :
           m[i] \in Special =>
             P[i] = P[i - 1] + 2 /\ w[P[i - 1] + 1] = STCP_ESCAPE /\ w[P[i - 1] + 2] = m[i]
      /\ \A i \in 1 .. n :
           m[i] \notin Special => P[i] = P[i - 1] + 1 /\ w[P[i - 1] + 1] = m[i]
  BY DEF SpelledAt
<1>3. At(n)
  <2>1. s + P[n] + 1 \in Nat /\ s + P[n] + 1 > Len(b) - 2
    BY <1>1, <1>2
  <2>2. SubSeq(m, n + 1, n) = <<>>
    BY <1>1
  <2>3. QED
    BY <2>1, <2>2 DEF UnEscapesFrom
<1>4. ASSUME NEW j \in 0 .. n - 1, At(j + 1) PROVE At(j)
  <2> DEFINE a == P[j]
             e == P[j + 1]
             x == m[j + 1]
             i == s + a + 1
  <2>1. j \in 0 .. n /\ j + 1 \in 1 .. n /\ j + 1 \in 0 .. n /\ (j + 1) - 1 = j
    BY <1>1
  <2>2. a \in 0 .. Len(w) /\ e \in 0 .. Len(w)
    BY <1>2, <2>1
  <2>3. /\ x \in Special => e = a + 2 /\ w[a + 1] = STCP_ESCAPE /\ w[a + 2] = x
        /\ x \notin Special => e = a + 1 /\ w[a + 1] = x
    BY <1>2, <2>1
  <2>4. SubSeq(m, j + 1, n) = << x >> \o SubSeq(m, (j + 1) + 1, n)
    BY <1>1, <2>1
  <2>5. F[s + e + 1] = SubSeq(m, (j + 1) + 1, n)
    BY <1>4
  <2>6. EndsInFooter(m) /\ x \notin Special => a + 2 <= Len(w)
    <3> SUFFICES ASSUME EndsInFooter(m), x \notin Special PROVE a + 2 <= Len(w)
      OBVIOUS
    <3>1. j + 1 # n
      BY <1>1 DEF EndsInFooter, Special
    <3>2. j + 2 \in 1 .. n /\ j + 2 \in 0 .. n /\ (j + 2) - 1 = j + 1
      BY <1>1, <2>1, <3>1
    <3>3. P[j + 2] = e + 2 \/ P[j + 2] = e + 1
      BY <1>2, <3>2
    <3>4. P[j + 2] \in 0 .. Len(w)
      BY <1>2, <3>2
    <3>5. e = a + 1
      BY <2>3
    <3> HIDE DEF a, e
    <3>6. QED
      BY <1>1, <2>2, <3>3, <3>4, <3>5
  <2> SUFFICES F[i] = << x >> \o SubSeq(m, (j + 1) + 1, n)
    BY <2>4
  <2> HIDE DEF a, e, x
  <2>7. a \in Nat /\ e \in Nat /\ i \in Nat
    BY <1>1, <2>2
  <2>8. a + 1 <= Len(w) /\ (EndsInFooter(m) => a + 2 <= Len(w))
    <3>1. CASE x \in Special
      <4>1. e = a + 2
        BY <2>3, <3>1
      <4>2. QED
        BY <1>1, <2>2, <2>7, <4>1
    <3>2. CASE x \notin Special
      <4>1. e = a + 1
        BY <2>3, <3>2
      <4>2. QED
        BY <1>1, <2>2, <2>6, <2>7, <3>2, <4>1
    <3>3. QED
      BY <3>1, <3>2
  <2>9. ~(i > Len(b) - 2)
    BY <1>1, <2>7, <2>8
  <2>10. F[i] = IF b[i] = STCP_ESCAPE THEN << b[i + 1] >> \o F[i + 2] ELSE << b[i] >> \o F[i + 1]
    <3> HIDE DEF i
    <3>1. QED
      BY <2>7, <2>9 DEF UnEscapesFrom
  <2>11. CASE x \in Special
    <3>1. e = a + 2 /\ w[a + 1] = STCP_ESCAPE /\ w[a + 2] = x
      BY <2>3, <2>11
    <3>2. a + 1 \in 1 .. Len(w) /\ a + 2 \in 1 .. Len(w)
      BY <1>1, <2>2, <2>7, <3>1
    <3>3. i = s + (a + 1) /\ i + 1 = s + (a + 2) /\ i + 2 = s + e + 1
      BY <2>7, <3>1
    <3>4. b[s + (a + 1)] = w[a + 1] /\ b[s + (a + 2)] = w[a + 2]
      BY <3>2 DEF CarriesAt
    <3>5. b[i] = STCP_ESCAPE /\ b[i + 1] = x
      BY <3>1, <3>3, <3>4
    <3>6. QED
      BY <2>5, <2>10, <3>3, <3>5
  <2>12. CASE x \notin Special
    <3>1. e = a + 1 /\ w[a + 1] = x
      BY <2>3, <2>12
    <3>2. a + 1 \in 1 .. Len(w)
      BY <1>1, <2>2, <2>7, <3>1
    <3>3. i = s + (a + 1) /\ i + 1 = s + e + 1
      BY <2>7, <3>1
    <3>4. b[i] = x /\ x # STCP_ESCAPE
      BY <2>12, <3>1, <3>2, <3>3 DEF Special, CarriesAt
    <3>5. QED
      BY <2>5, <2>10, <3>3, <3>4
  <2>13. QED
    BY <2>11, <2>12
<1> HIDE DEF At
<1>5. 0 \in S
  BY <1>1, <1>3
<1>6. ASSUME NEW k \in S PROVE k + 1 \in S
  <2> SUFFICES ASSUME k + 1 <= n PROVE At(n - (k + 1))
    OBVIOUS
  <2>1. k \in Nat /\ At(n - k)
    BY <1>1
  <2>2. n - (k + 1) \in 0 .. n - 1 /\ (n - (k + 1)) + 1 = n - k
    BY <1>1, <2>1
  <2>3. QED
    BY <1>4, <2>1, <2>2
<1>7. S = Nat
  <2> HIDE DEF S
  <2>1. S \in SUBSET Nat
    BY DEF S
  <2>2. QED
    BY <1>5, <1>6, <2>1, NatSetInduction
<1>8. At(0)
  <2>1. n \in S /\ n - n = 0
    BY <1>1, <1>7
  <2>2. QED
    BY <1>1, <2>1
<1>9. F[s + P[0] + 1] = SubSeq(m, 1, n)
  BY <1>8 DEF At
<1>10. SubSeq(m, 1, n) = m /\ s + P[0] + 1 = s + 1
  BY <1>1, <1>2
<1>11. QED
  BY <1>9, <1>10

\* A whole frame behind a byte left over by the one before, or behind nothing,
\* is turned into its message, with the header in front in the first case.
THEOREM FrameUnEscaped ==
  ASSUME NEW T, Special \subseteq T, NEW m \in Seq(T), m # <<>>,
         NEW p \in 1 .. Len(StcpEscape(m)),
         \/ p = Len(StcpEscape(m))
         \/ p = Len(StcpEscape(m)) - 1 /\ EndsInFooter(m)
  PROVE  /\ StcpUnEscape(<<>> \o SubSeq(StcpEscape(m), 1, p)) = m
         /\ StcpUnEscape(<< STCP_FOOTER >> \o SubSeq(StcpEscape(m), 1, p)) = << STCP_HEADER >> \o m
<1> DEFINE E == StcpEscape(m)
           w == Spelling(m)
           a == SubSeq(E, 1, p)
<1>1. /\ E \in Seq(T) /\ Len(E) = Len(w) + 3 /\ E[1] = STCP_HEADER
      /\ w \in Seq(T) /\ Len(w) \in Nat /\ Len(w) >= 1
      /\ \A k \in 1 .. Len(w) : E[k + 1] = w[k]
  BY FrameForm
<1>2. PICK P : SpelledAt(m, w, P)
  BY SpelledOut
<1>3. /\ p \in 1 .. Len(E)
      /\ p = Len(w) + 3 \/ (p = Len(w) + 2 /\ EndsInFooter(m))
  BY <1>1
<1> HIDE DEF E, w
<1>4. /\ a \in Seq(T) /\ Len(a) = p /\ a[1] = STCP_HEADER
      /\ \A k \in 1 .. Len(w) : a[1 + k] = w[k]
  <2>1. a \in Seq(T) /\ Len(a) = p /\ \A k \in 1 .. p : a[k] = E[k]
    BY <1>1, <1>3
  <2> HIDE DEF a
  <2>2. \A k \in 1 .. Len(w) : 1 + k \in 1 .. p /\ 1 + k = k + 1
    BY <1>1, <1>3
  <2>3. 1 \in 1 .. p
    BY <1>1, <1>3
  <2>4. QED
    BY <1>1, <2>1, <2>2, <2>3
<1> HIDE DEF a
<1>5. p \in Nat /\ p >= 3
  BY <1>1, <1>3
<1>6. StcpUnEscape(a) = m
  <2>1. Len(a) = 1 + Len(w) + 2 \/ (Len(a) = 1 + Len(w) + 1 /\ EndsInFooter(m))
    BY <1>1, <1>3, <1>4
  <2>2. PICK F : UnEscapesFrom(a, F) /\ StcpUnEscape(a) = F[2]
    BY <1>4, <1>5, UnEscapeValue
  <2>3. CarriesAt(a, 1, w) /\ Len(a) \in Nat /\ UnEscapesFrom(a, F)
    BY <1>4, <1>5, <2>2 DEF CarriesAt
  <2>4. F[1 + 1] = m
    BY <1>1, <1>2, <2>1, <2>3, UnEscapedRest
  <2>5. QED
    BY <2>2, <2>4
<1>7. StcpUnEscape(<< STCP_FOOTER >> \o a) = << STCP_HEADER >> \o m
  <2> DEFINE f == << STCP_FOOTER >>
             b == f \o a
  <2>1. /\ Len(b) = p + 1 /\ b[2] = STCP_HEADER
        /\ \A k \in 1 .. Len(w) : b[2 + k] = w[k]
    <3>1. STCP_FOOTER \in T /\ a \in Seq(T)
      BY <1>4 DEF Special
    <3>2. Len(b) = 1 + Len(a) /\ \A k \in 1 .. Len(a) : b[1 + k] = a[k]
      BY <3>1, OneInFront
    <3> HIDE DEF b
    <3>3. \A k \in 1 .. Len(w) : 1 + k \in 1 .. Len(a) /\ 1 + (1 + k) = 2 + k
      BY <1>1, <1>3, <1>4
    <3>4. 1 \in 1 .. Len(a)
      BY <1>4, <1>5
    <3>5. QED
      BY <1>4, <1>5, <3>2, <3>3, <3>4
  <2> HIDE DEF b
  <2>2. Len(b) \in Nat
        /\ (Len(b) = 2 + Len(w) + 2 \/ (Len(b) = 2 + Len(w) + 1 /\ EndsInFooter(m)))
    BY <1>1, <1>3, <1>5, <2>1
  <2>3. PICK F : UnEscapesFrom(b, F) /\ StcpUnEscape(b) = F[2]
    BY <2>2, UnEscapeValue
  <2>4. CarriesAt(b, 2, w)
    BY <2>1 DEF CarriesAt
  <2>5. F[2 + 1] = m
    BY <1>1, <1>2, <2>2, <2>3, <2>4, UnEscapedRest
  <2>6. F[2] = << STCP_HEADER >> \o F[2 + 1]
    <3>1. 2 \in Nat /\ ~(2 > Len(b) - 2) /\ b[2] # STCP_ESCAPE
      BY <1>5, <2>1, BytesAssumption
    <3>2. QED
      BY <2>1, <2>3, <3>1 DEF UnEscapesFrom
  <2>7. QED
    BY <2>3, <2>5, <2>6 DEF b
<1>8. <<>> \o a = a
  BY <1>4
<1>9. QED
  BY <1>6, <1>7, <1>8 DEF a, E

-----------------------------------------------------------------------------
\* The line, by the number of bytes of the newest frame that have left it.

Frame == StcpEscape(sent[Len(sent)])
Pos == Len(Frame) - Len(line)

\* The newest frame is complete for the receiver.
Whole == Pos = Len(Frame) \/ (Pos = Len(Frame) - 1 /\ EndsInFooter(sent[Len(sent)]))

\* The newest frame has lost a byte.
Hit == losses > 0 /\ last_hit = Len(sent)

\* Frame k and the frame before it lost nothing.
Spared(k) == losses = 0 \/ k >= last_hit + 2

\* What frame k leaves in the receive buffer for the next one.
LeftBy(k) == IF k > 0 /\ EndsInFooter(sent[k]) THEN << STCP_FOOTER >> ELSE <<>>

\* The messages that are promised, up to the u-th, are the last ones delivered.
FirstSpared == IF losses = 0 THEN 1 ELSE last_hit + 2
DeliveredUpTo(u) ==
  /\ losses = 0 => Len(delivered) = u
  /\ \A j \in FirstSpared .. u :
       LET i == Len(delivered) - (u - j)
       IN  i \in 1 .. Len(delivered) /\ delivered[i] = Received(j)

\* Frames before the newest leave this much in the buffer.
Room == losses * LongestFrame + 1

Counters ==
  /\ sent \in Seq(Payloads)
  /\ msg_buffer \in Seq(Alphabet)
  /\ \E V : delivered \in Seq(V)
  /\ losses \in Nat
  /\ last_hit \in 0 .. Len(sent)
  /\ losses = 0 <=> last_hit = 0

NothingYet == line = <<>> /\ msg_buffer = <<>> /\ delivered = <<>>

OnTheLine ==
  /\ Len(line) \in 0 .. Len(Frame)
  /\ line = [i \in 1 .. Len(line) |-> [byte |-> Frame[Pos + i], frame |-> Len(sent)]]

\* A frame being received stands behind what was in the buffer before it.
Behind(b) ==
  /\ ~FrameComplete(b)
  /\ Len(b) <= Room
  /\ Spared(Len(sent)) => b = LeftBy(Len(sent) - 1)
  /\ msg_buffer = b \o SubSeq(Frame, 1, Pos)

Arriving ==
  /\ \E b \in Seq(Alphabet) : Behind(b)
  /\ DeliveredUpTo(Len(sent) - 1)

Arrived ==
  /\ msg_buffer = IF Pos = Len(Frame) THEN LeftBy(Len(sent)) ELSE <<>>
  /\ DeliveredUpTo(Len(sent))

Damaged == Len(msg_buffer) + Len(line) <= Room

Progress ==
  IF sent = <<>> THEN NothingYet
  ELSE /\ OnTheLine
       /\ ~FrameComplete(msg_buffer)
       /\ ~Hit /\ ~Whole => Arriving
       /\ ~Hit /\ Whole => Arrived
       /\ Hit => Damaged

\* The inductive invariant.
IInv == Counters /\ Progress

-----------------------------------------------------------------------------
\* What the frames of the messages have in common.

LEMMA Messages ==
  ASSUME NEW m \in Payloads
  PROVE  /\ m \in Seq(Alphabet) /\ m # <<>> /\ Special \subseteq Alphabet
         /\ StcpEscape(m) \in Seq(Alphabet)
         /\ Len(StcpEscape(m)) \in Nat /\ Len(StcpEscape(m)) >= 4
         /\ Len(StcpEscape(m)) <= LongestFrame
         /\ StcpEscape(m)[Len(StcpEscape(m))] = STCP_FOOTER
         /\ LongestFrame \in Nat
<1>1. m \in Seq(Alphabet) /\ m # <<>> /\ Special \subseteq Alphabet
  BY PayloadsAssumption DEF Alphabet
<1> DEFINE M == CHOOSE n \in Payloads : \A o \in Payloads : Len(o) <= Len(n)
<1>2. M \in Payloads /\ Len(m) <= Len(M)
  BY PayloadsAssumption
<1>3. M \in Seq(Alphabet)
  BY <1>2, PayloadsAssumption
<1>4. LongestFrame = 2 * Len(M) + 3
  BY DEF LongestFrame
<1> HIDE DEF M
<1>5. LongestFrame \in Nat /\ 2 * Len(m) + 3 <= LongestFrame
  BY <1>1, <1>2, <1>3, <1>4
<1>6. /\ StcpEscape(m) \in Seq(Alphabet)
      /\ Spelling(m) \in Seq(Alphabet) /\ Len(Spelling(m)) \in Nat /\ Len(Spelling(m)) >= 1
      /\ Len(StcpEscape(m)) = Len(Spelling(m)) + 3
      /\ Len(StcpEscape(m)) <= 2 * Len(m) + 3
      /\ StcpEscape(m)[Len(Spelling(m)) + 3] = STCP_FOOTER
  BY <1>1, FrameForm
<1>7. QED
  BY <1>1, <1>5, <1>6

LEMMA NewestFrame ==
  ASSUME Counters, sent # <<>>
  PROVE  /\ Len(sent) \in Nat /\ Len(sent) >= 1
         /\ sent[Len(sent)] \in Payloads
         /\ sent[Len(sent)] \in Seq(Alphabet) /\ sent[Len(sent)] # <<>>
         /\ Special \subseteq Alphabet
         /\ Frame = StcpEscape(sent[Len(sent)])
         /\ Frame \in Seq(Alphabet) /\ Len(Frame) \in Nat /\ Len(Frame) >= 4
         /\ Len(Frame) <= LongestFrame /\ LongestFrame \in Nat
         /\ Frame[Len(Frame)] = STCP_FOOTER
<1>1. sent \in Seq(Payloads)
  BY DEF Counters
<1>2. Len(sent) \in Nat /\ Len(sent) >= 1 /\ sent[Len(sent)] \in Payloads
  BY <1>1
<1>3. QED
  BY <1>2, Messages DEF Frame

\* A byte leaves the line, received or lost.
LEMMA ByteLeaves ==
  ASSUME Counters, sent # <<>>, OnTheLine, line # <<>>,
         line' = Tail(line), sent' = sent
  PROVE  /\ Frame' = Frame
         /\ Len(line) \in Nat /\ Len(line) >= 1 /\ Len(line') = Len(line) - 1
         /\ Pos \in 0 .. Len(Frame) - 1 /\ Pos' = Pos + 1
         /\ Head(line).byte = Frame[Pos + 1] /\ Head(line).frame = Len(sent)
         /\ OnTheLine'
<1> DEFINE n == Len(line)
           f(i) == [byte |-> Frame[Pos + i], frame |-> Len(sent)]
<1>1. n \in Nat /\ line = [i \in 1 .. n |-> f(i)] /\ n <= Len(Frame) /\ Len(Frame) \in Nat
  BY NewestFrame DEF OnTheLine
<1>2. n >= 1
  <2>1. n = 0 => line = <<>>
    <3> HIDE DEF n, f
    <3>1. n = 0 => line = [i \in 1 .. 0 |-> f(i)]
      BY <1>1
    <3>2. QED
      BY <3>1
  <2>2. QED
    BY <1>1, <2>1
<1>3. Frame' = Frame
  BY DEF Frame
<1>4. Pos \in 0 .. Len(Frame) - 1
  BY <1>1, <1>2 DEF Pos
<1>5. Head(line) = f(1)
  BY <1>1, <1>2
<1>6. Len(line') = n - 1 /\ line' = [i \in 1 .. n - 1 |-> f(i + 1)]
  <2> HIDE DEF n, f
  <2>1. line' = Tail([i \in 1 .. n |-> f(i)])
    BY <1>1
  <2>2. QED
    BY <1>1, <1>2, <2>1
<1>7. Pos' = Pos + 1
  BY <1>1, <1>3, <1>6 DEF Pos
<1>8. OnTheLine'
  <2>1. \A i \in 1 .. n - 1 : f(i + 1) = [byte |-> Frame'[Pos' + i], frame |-> Len(sent')]
    <3>1. \A i \in 1 .. n - 1 : Pos + (i + 1) = Pos' + i
      BY <1>4, <1>7
    <3>2. QED
      BY <1>3, <3>1
  <2>2. line' = [i \in 1 .. n - 1 |-> [byte |-> Frame'[Pos' + i], frame |-> Len(sent')]]
    BY <1>6, <2>1
  <2>3. Len(line') \in 0 .. Len(Frame')
    BY <1>1, <1>2, <1>3, <1>6
  <2>4. line' = [i \in 1 .. Len(line') |-> [byte |-> Frame'[Pos' + i], frame |-> Len(sent')]]
    <3>1. Len(line') = n - 1
      BY <1>6
    <3> HIDE DEF n
    <3>2. QED
      BY <2>2, <3>1
  <2>5. QED
    BY <2>3, <2>4 DEF OnTheLine
<1>9. QED
  BY <1>1, <1>2, <1>3, <1>4, <1>5, <1>6, <1>7, <1>8

LEMMA RoomGrows ==
  ASSUME losses \in Nat, LongestFrame \in Nat
  PROVE  /\ Room \in Nat /\ Room >= 1
         /\ losses' = losses => Room' = Room
         /\ losses' = losses + 1 => Room' = Room + LongestFrame
<1>1. LongestFrame' = LongestFrame
  BY DEF LongestFrame
<1> DEFINE F == LongestFrame
<1>2. losses * F \in Nat /\ (losses + 1) * F = losses * F + F
  <2> HIDE DEF F
  <2>1. F \in Nat
    BY DEF F
  <2>2. QED
    BY <2>1
<1>3. QED
  BY <1>1, <1>2 DEF Room

\* Between two frames nothing is left to arrive.
LEMMA BetweenFrames ==
  ASSUME IInv, line = <<>>
  PROVE  /\ ~FrameComplete(msg_buffer)
         /\ sent # <<>> => Len(msg_buffer) <= Room
         /\ Spared(Len(sent) + 1) => msg_buffer = LeftBy(Len(sent))
         /\ DeliveredUpTo(Len(sent))
<1>1. /\ Len(sent) \in Nat /\ losses \in Nat /\ last_hit \in 0 .. Len(sent)
      /\ losses = 0 <=> last_hit = 0
  BY DEF IInv, Counters
<1>2. CASE sent = <<>>
  <2>1. Len(sent) = 0 /\ losses = 0 /\ msg_buffer = <<>> /\ delivered = <<>>
    BY <1>1, <1>2 DEF IInv, Progress, NothingYet
  <2>2. DeliveredUpTo(0)
    BY <2>1 DEF DeliveredUpTo, FirstSpared
  <2>3. LeftBy(0) = <<>>
    BY DEF LeftBy
  <2>4. QED
    BY <1>2, <2>1, <2>2, <2>3 DEF FrameComplete
<1>3. CASE sent # <<>>
  <2>1. OnTheLine /\ ~FrameComplete(msg_buffer)
    BY <1>3 DEF IInv, Progress
  <2>2. Len(line) = 0 /\ Pos = Len(Frame) /\ Whole
    BY <1>3, NewestFrame DEF IInv, Pos, Whole
  <2>3. CASE ~Hit
    <3>1. msg_buffer = LeftBy(Len(sent)) /\ DeliveredUpTo(Len(sent))
      BY <1>3, <2>2, <2>3 DEF IInv, Progress, Arrived
    <3>2. Len(msg_buffer) <= 1
      BY <3>1 DEF LeftBy
    <3>3. Len(msg_buffer) \in Nat /\ Room >= 1 /\ Room \in Nat
      BY <1>1, <1>3, NewestFrame, RoomGrows DEF IInv, Counters
    <3>4. Len(msg_buffer) <= Room
      BY <3>2, <3>3
    <3>5. QED
      BY <2>1, <3>1, <3>4
  <2>4. CASE Hit
    <3>1. losses > 0 /\ last_hit = Len(sent)
      BY <2>4 DEF Hit
    <3>2. Damaged /\ Len(msg_buffer) \in Nat
      BY <1>3, <2>4 DEF IInv, Progress, Counters
    <3>3. Len(msg_buffer) <= Room
      BY <2>2, <3>2 DEF Damaged
    <3>4. ~Spared(Len(sent) + 1)
      BY <1>1, <3>1 DEF Spared
    <3>5. DeliveredUpTo(Len(sent))
      BY <1>1, <3>1 DEF DeliveredUpTo, FirstSpared
    <3>6. QED
      BY <2>1, <3>3, <3>4, <3>5
  <2>5. QED
    BY <2>3, <2>4
<1>4. QED
  BY <1>2, <1>3

\* The messages promised before the newest stay where they are when the newest
\* is added.
LEMMA DeliveredNext ==
  ASSUME Counters, sent # <<>>, DeliveredUpTo(Len(sent) - 1),
         NEW u, Spared(Len(sent)) => u = Received(Len(sent)),
         delivered' = Append(delivered, u),
         sent' = sent, losses' = losses, last_hit' = last_hit
  PROVE  DeliveredUpTo(Len(sent))'
<1> DEFINE k == Len(sent)
           n == Len(delivered)
<1>1. k \in Nat /\ k >= 1 /\ losses \in Nat /\ last_hit \in Nat
  BY NewestFrame DEF Counters
<1>2. n \in Nat /\ Len(delivered') = n + 1 /\ delivered'[n + 1] = u
      /\ \A i \in 1 .. n : delivered'[i] = delivered[i]
  <2>1. PICK V : delivered \in Seq(V)
    BY DEF Counters
  <2>2. QED
    BY <2>1
<1>3. \A j : Received(j)' = Received(j)
  BY DEF Received
<1>4. FirstSpared' = FirstSpared /\ FirstSpared \in Nat /\ FirstSpared >= 1
  BY <1>1 DEF FirstSpared
<1> HIDE DEF k, n
<1>5. losses' = 0 => Len(delivered') = k
  BY <1>1, <1>2 DEF DeliveredUpTo, k, n
<1>6. ASSUME NEW j \in FirstSpared .. k
      PROVE  LET i == n + 1 - (k - j)
             IN  i \in 1 .. n + 1 /\ delivered'[i] = Received(j)
  <2>1. CASE j = k
    <3>1. Spared(k)
      BY <1>1, <1>4, <2>1 DEF Spared, FirstSpared
    <3>2. u = Received(k) /\ n + 1 - (k - j) = n + 1
      BY <1>1, <1>2, <2>1, <3>1 DEF k
    <3>3. QED
      BY <1>2, <2>1, <3>2
  <2>2. CASE j # k
    <3> DEFINE i == n - ((k - 1) - j)
    <3>1. j \in FirstSpared .. k - 1
      BY <1>1, <1>4, <2>2
    <3>2. i \in 1 .. n /\ delivered[i] = Received(j)
      BY <3>1 DEF DeliveredUpTo, k, n
    <3>3. n + 1 - (k - j) = i
      BY <1>1, <1>2, <1>4, <3>1
    <3> HIDE DEF i
    <3>4. QED
      BY <1>2, <3>2, <3>3
  <2>3. QED
    BY <2>1, <2>2
<1>7. Len(sent)' = k
  BY DEF k
<1>8. ASSUME NEW j \in FirstSpared' .. k
      PROVE  /\ Len(delivered') - (k - j) \in 1 .. Len(delivered')
             /\ delivered'[Len(delivered') - (k - j)] = Received(j)'
  <2>1. j \in FirstSpared .. k
    BY <1>4
  <2>2. Received(j)' = Received(j)
    BY <1>3
  <2>3. n + 1 - (k - j) \in 1 .. n + 1 /\ delivered'[n + 1 - (k - j)] = Received(j)
    BY <1>6, <2>1
  <2>4. Len(delivered') = n + 1 /\ n \in Nat /\ k \in Nat /\ j \in Int
    BY <1>1, <1>2, <1>4
  <2>5. Len(delivered') - (k - j) = n + 1 - (k - j)
    BY <2>4
  <2>6. QED
    BY <2>2, <2>3, <2>4, <2>5
<1>9. QED
  BY <1>5, <1>7, <1>8 DEF DeliveredUpTo

\* The bytes of the newest frame that have left the line, and the next one.
LEMMA NextByte ==
  ASSUME NEW T, NEW b \in Seq(T), NEW F \in Seq(T), NEW p \in 0 .. Len(F) - 1
  PROVE  Append(b \o SubSeq(F, 1, p), F[p + 1]) = b \o SubSeq(F, 1, p + 1)
<1>1. SubSeq(F, 1, p + 1) = Append(SubSeq(F, 1, p), F[p + 1])
  OBVIOUS
<1>2. SubSeq(F, 1, p) \in Seq(T) /\ F[p + 1] \in T
  OBVIOUS
<1>3. ASSUME NEW s \in Seq(T), NEW x \in T PROVE Append(b \o s, x) = b \o Append(s, x)
  <2>1. b \o s \in Seq(T) /\ << x >> \in Seq(T)
    OBVIOUS
  <2>2. Append(b \o s, x) = (b \o s) \o << x >> /\ Append(s, x) = s \o << x >>
    BY <2>1, AppendIsConcat
  <2>3. (b \o s) \o << x >> = b \o (s \o << x >>)
    BY <2>1, ConcatAssociative, SMTT(30)
  <2>4. QED
    BY <2>2, <2>3
<1>4. QED
  BY <1>1, <1>2, <1>3

-----------------------------------------------------------------------------
\* One step of each kind.

LEMMA ReceiveUnhit ==
  ASSUME IInv, sent # <<>>, ReceiveByte, ~Hit, ~Whole
  PROVE  Progress'
<1>1. /\ OnTheLine /\ line # <<>> /\ line' = Tail(line)
      /\ sent' = sent /\ losses' = losses /\ last_hit' = last_hit
  BY DEF IInv, Progress, ReceiveByte
<1>2. /\ Frame' = Frame
      /\ Pos \in 0 .. Len(Frame) - 1 /\ Pos' = Pos + 1
      /\ Head(line).byte = Frame[Pos + 1]
      /\ OnTheLine'
  BY <1>1, ByteLeaves DEF IInv
<1> DEFINE k == Len(sent)
           m == sent[k]
           F == Frame
           p == Pos + 1
<1>3. /\ k \in Nat /\ k >= 1 /\ m \in Payloads
      /\ m \in Seq(Alphabet) /\ m # <<>> /\ Special \subseteq Alphabet
      /\ F = StcpEscape(m) /\ F \in Seq(Alphabet) /\ Len(F) \in Nat /\ Len(F) >= 4
  BY NewestFrame DEF IInv
<1>4. PICK b \in Seq(Alphabet) : Behind(b)
  BY DEF IInv, Progress, Arriving
<1>5. DeliveredUpTo(k - 1)
  BY DEF IInv, Progress, Arriving
<1>6. /\ ~FrameComplete(b) /\ Len(b) <= Room
      /\ Spared(k) => b = LeftBy(k - 1)
      /\ msg_buffer = b \o SubSeq(F, 1, Pos)
  BY <1>4 DEF Behind
<1> DEFINE s == b \o SubSeq(F, 1, p)
<1>7. Append(msg_buffer, Head(line).byte) = s
  BY <1>2, <1>3, <1>6, NextByte
<1>8. p \in 1 .. Len(F) /\ (Whole' <=> p = Len(F) \/ (p = Len(F) - 1 /\ EndsInFooter(m)))
  BY <1>1, <1>2, <1>3 DEF Whole
<1>9. FrameComplete(s) <=> Whole'
  BY <1>3, <1>6, <1>8, CompleteAtTheEnd
<1>10. sent' # <<>> /\ ~Hit'
  BY <1>1 DEF Hit
<1>11. CASE Whole'
  <2>1. delivered' = Append(delivered, StcpUnEscape(s)) /\ msg_buffer' = <<>>
    BY <1>7, <1>9, <1>11 DEF ReceiveByte, BufferAfterFrame
  <2>2. Spared(k) => StcpUnEscape(s) = Received(k)
    <3> SUFFICES ASSUME Spared(k) PROVE StcpUnEscape(s) = Received(k)
      OBVIOUS
    <3>1. b = IF k > 1 /\ EndsInFooter(sent[k - 1]) THEN << STCP_FOOTER >> ELSE <<>>
      BY <1>3, <1>6 DEF LeftBy
    <3>2. /\ StcpUnEscape(<<>> \o SubSeq(F, 1, p)) = m
          /\ StcpUnEscape(<< STCP_FOOTER >> \o SubSeq(F, 1, p)) = << STCP_HEADER >> \o m
      BY <1>3, <1>8, <1>11, FrameUnEscaped
    <3> HIDE DEF m, F, p, k
    <3>3. QED
      BY <3>1, <3>2 DEF Received, EndsInFooter, m
  <2>3. DeliveredUpTo(Len(sent))'
    BY <1>1, <1>5, <2>1, <2>2, DeliveredNext DEF IInv
  <2>4. Pos' = Len(Frame') => LeftBy(Len(sent))' = <<>>
    <3>1. Pos' = Len(Frame') => ~EndsInFooter(m)
      BY <1>2, <1>3 DEF Whole
    <3>2. LeftBy(Len(sent))' = LeftBy(k)
      BY <1>1 DEF LeftBy
    <3>3. QED
      BY <3>1, <3>2 DEF LeftBy
  <2>5. Arrived'
    BY <2>1, <2>3, <2>4 DEF Arrived
  <2>6. ~FrameComplete(msg_buffer')
    BY <2>1 DEF FrameComplete
  <2>7. QED
    BY <1>2, <1>10, <1>11, <2>5, <2>6 DEF Progress
<1>12. CASE ~Whole'
  <2>1. delivered' = delivered /\ msg_buffer' = s
    BY <1>7, <1>9, <1>12 DEF ReceiveByte
  <2>2. Spared(k)' = Spared(k) /\ LeftBy(k - 1)' = LeftBy(k - 1) /\ Len(sent)' = k
    BY <1>1 DEF Spared, LeftBy
  <2>3. Room' = Room
    BY <1>1 DEF Room, LongestFrame
  <2>4. Behind(b)'
    BY <1>2, <1>6, <2>1, <2>2, <2>3 DEF Behind
  <2>5. DeliveredUpTo(Len(sent) - 1)'
    BY <1>1, <1>5, <2>1 DEF DeliveredUpTo, FirstSpared, Received
  <2>6. Arriving'
    BY <2>4, <2>5 DEF Arriving
  <2>7. ~FrameComplete(msg_buffer')
    BY <1>9, <1>12, <2>1
  <2>8. QED
    BY <1>2, <1>10, <1>12, <2>6, <2>7 DEF Progress
<1>13. QED
  BY <1>11, <1>12

\* The last byte of a frame that was complete without it.
LEMMA ReceiveLeftOver ==
  ASSUME IInv, sent # <<>>, ReceiveByte, ~Hit, Whole
  PROVE  Progress'
<1>1. /\ OnTheLine /\ line # <<>> /\ line' = Tail(line)
      /\ sent' = sent /\ losses' = losses /\ last_hit' = last_hit
  BY DEF IInv, Progress, ReceiveByte
<1>2. /\ Frame' = Frame
      /\ Pos \in 0 .. Len(Frame) - 1 /\ Pos' = Pos + 1
      /\ Head(line).byte = Frame[Pos + 1]
      /\ OnTheLine'
  BY <1>1, ByteLeaves DEF IInv
<1>3. Len(Frame) \in Nat /\ Frame[Len(Frame)] = STCP_FOOTER /\ Len(sent) \in Nat /\ Len(sent) >= 1
  BY NewestFrame DEF IInv
<1>4. Pos = Len(Frame) - 1 /\ EndsInFooter(sent[Len(sent)])
  BY <1>2, <1>3 DEF Whole
<1>5. Pos' = Len(Frame') /\ Whole'
  BY <1>1, <1>2, <1>3, <1>4 DEF Whole
<1>6. msg_buffer = <<>> /\ DeliveredUpTo(Len(sent))
  <2>1. Pos # Len(Frame)
    BY <1>2, <1>3
  <2>2. QED
    BY <2>1 DEF IInv, Progress, Arrived
<1>7. Append(msg_buffer, Head(line).byte) = << STCP_FOOTER >>
  BY <1>2, <1>3, <1>4, <1>6
<1>8. ~FrameComplete(<< STCP_FOOTER >>)
  BY DEF FrameComplete
<1>9. msg_buffer' = << STCP_FOOTER >> /\ delivered' = delivered
  BY <1>7, <1>8 DEF ReceiveByte
<1>10. LeftBy(Len(sent))' = << STCP_FOOTER >>
  BY <1>1, <1>3, <1>4 DEF LeftBy
<1>11. DeliveredUpTo(Len(sent))'
  BY <1>1, <1>6, <1>9 DEF DeliveredUpTo, FirstSpared, Received
<1>12. Arrived'
  BY <1>5, <1>9, <1>10, <1>11 DEF Arrived
<1>13. sent' # <<>> /\ ~Hit'
  BY <1>1 DEF Hit
<1>14. ~FrameComplete(msg_buffer')
  BY <1>8, <1>9
<1>15. QED
  BY <1>2, <1>5, <1>12, <1>13, <1>14 DEF Progress

\* Bytes of a frame that has lost one.
LEMMA ReceiveHit ==
  ASSUME IInv, sent # <<>>, ReceiveByte, Hit
  PROVE  Progress'
<1>1. /\ OnTheLine /\ line # <<>> /\ line' = Tail(line)
      /\ sent' = sent /\ losses' = losses /\ last_hit' = last_hit
  BY DEF IInv, Progress, ReceiveByte
<1>2. /\ Len(line) \in Nat /\ Len(line) >= 1 /\ Len(line') = Len(line) - 1
      /\ OnTheLine'
  BY <1>1, ByteLeaves DEF IInv
<1>3. sent' # <<>> /\ Hit'
  BY <1>1 DEF Hit
<1>4. Room' = Room
  BY <1>1 DEF Room, LongestFrame
<1>5. Len(msg_buffer) + Len(line) <= Room /\ msg_buffer \in Seq(Alphabet)
  BY DEF IInv, Counters, Progress, Damaged
<1>6. losses \in Nat /\ LongestFrame \in Nat
  BY NewestFrame DEF IInv, Counters
<1>7. Room \in Nat
  BY <1>6, RoomGrows
<1> DEFINE x == Head(line).byte
<1>8. \/ FrameComplete(Append(msg_buffer, x)) /\ msg_buffer' = <<>>
      \/ ~FrameComplete(Append(msg_buffer, x)) /\ msg_buffer' = Append(msg_buffer, x)
  BY DEF ReceiveByte, BufferAfterFrame
<1> HIDE DEF x
<1>9. ~FrameComplete(msg_buffer')
  BY <1>8 DEF FrameComplete
<1>10. Len(msg_buffer') \in Nat /\ Len(msg_buffer') <= Len(msg_buffer) + 1
  BY <1>5, <1>8
<1>11. Len(msg_buffer) \in Nat
  BY <1>5
<1>12. Len(msg_buffer') + Len(line') <= Room'
  BY <1>2, <1>4, <1>5, <1>7, <1>10, <1>11
<1>13. QED
  BY <1>2, <1>3, <1>9, <1>12 DEF Progress, Damaged

LEMMA LosePreserves ==
  ASSUME IInv, sent # <<>>, LoseByte
  PROVE  Progress'
<1>1. /\ OnTheLine /\ line # <<>> /\ line' = Tail(line) /\ sent' = sent
      /\ losses' = losses + 1 /\ last_hit' = Head(line).frame
      /\ msg_buffer' = msg_buffer
  BY DEF IInv, Progress, LoseByte
<1>2. /\ Len(line) \in Nat /\ Len(line) >= 1 /\ Len(line') = Len(line) - 1
      /\ Head(line).frame = Len(sent)
      /\ Pos \in 0 .. Len(Frame) - 1
      /\ OnTheLine'
  BY <1>1, ByteLeaves DEF IInv
<1>3. /\ losses \in Nat /\ msg_buffer \in Seq(Alphabet)
      /\ LongestFrame \in Nat /\ Frame \in Seq(Alphabet) /\ Len(Frame) \in Nat
      /\ Len(Frame) <= LongestFrame
  BY NewestFrame DEF IInv, Counters
<1>4. sent' # <<>> /\ Hit'
  BY <1>1, <1>2, <1>3 DEF Hit
<1>5. Room \in Nat /\ Room >= 1 /\ Room' = Room + LongestFrame
  BY <1>1, <1>3, RoomGrows
<1>6. ~FrameComplete(msg_buffer')
  BY <1>1 DEF IInv, Progress
<1>7. Len(msg_buffer) \in Nat /\ Len(line) = Len(Frame) - Pos
  BY <1>2, <1>3 DEF Pos
<1>8. Len(msg_buffer) + Len(line) <= Room + LongestFrame + 1
  <2>1. CASE Hit
    <3>1. Len(msg_buffer) + Len(line) <= Room
      BY <2>1 DEF IInv, Progress, Damaged
    <3>2. QED
      BY <1>2, <1>3, <1>5, <1>7, <3>1
  <2>2. CASE ~Hit /\ ~Whole
    <3>1. PICK b \in Seq(Alphabet) : Behind(b)
      BY <2>2 DEF IInv, Progress, Arriving
    <3>2. Len(b) <= Room /\ msg_buffer = b \o SubSeq(Frame, 1, Pos)
      BY <3>1 DEF Behind
    <3>3. Len(msg_buffer) = Len(b) + Pos
      BY <1>2, <1>3, <3>2
    <3>4. QED
      BY <1>2, <1>3, <1>5, <1>7, <3>2, <3>3
  <2>3. CASE ~Hit /\ Whole
    <3>1. msg_buffer = <<>> \/ msg_buffer = << STCP_FOOTER >>
      BY <2>3 DEF IInv, Progress, Arrived, LeftBy
    <3>2. Len(<<>>) <= 1 /\ Len(<< STCP_FOOTER >>) <= 1
      OBVIOUS
    <3>3. Len(msg_buffer) <= 1
      BY <3>1, <3>2
    <3>4. Len(line) <= LongestFrame
      BY <1>2, <1>3, <1>7
    <3>5. QED
      BY <1>2, <1>3, <1>5, <1>7, <3>3, <3>4
  <2>4. QED
    BY <2>1, <2>2, <2>3
<1>9. Len(msg_buffer') + Len(line') <= Room'
  BY <1>1, <1>2, <1>3, <1>5, <1>7, <1>8
<1>10. QED
  BY <1>2, <1>4, <1>6, <1>9 DEF Progress, Damaged

LEMMA WritePreserves ==
  ASSUME IInv, NEW m \in Payloads, StcpWrite(m)
  PROVE  Progress'
<1>a. PICK k \in Nat : k = Len(sent)
  BY DEF IInv, Counters
<1>b. PICK b \in Seq(Alphabet) : b = msg_buffer
  BY DEF IInv, Counters
<1> DEFINE F == StcpEscape(m)
<1>1. /\ line = <<>> /\ sent' = Append(sent, m)
      /\ line' = [i \in DOMAIN F |-> [byte |-> F[i], frame |-> k + 1]]
      /\ msg_buffer' = msg_buffer /\ delivered' = delivered
      /\ losses' = losses /\ last_hit' = last_hit
  BY <1>a DEF StcpWrite
<1>2. /\ F \in Seq(Alphabet) /\ Len(F) \in Nat /\ Len(F) >= 4 /\ LongestFrame \in Nat
  BY Messages
<1>3. /\ sent \in Seq(Payloads) /\ k \in Nat /\ losses \in Nat
      /\ last_hit \in 0 .. k /\ msg_buffer \in Seq(Alphabet)
  BY <1>a DEF IInv, Counters
<1>4. /\ Len(sent') = k + 1 /\ sent'[k + 1] = m /\ sent' # <<>>
      /\ \A j \in 1 .. k : sent'[j] = sent[j]
  BY <1>a, <1>1, <1>3
<1>5. Frame' = F
  <2>1. sent'[Len(sent')] = m
    BY <1>4
  <2>2. QED
    BY <2>1 DEF Frame
<1>6. Len(line') = Len(F) /\ Pos' = 0
  <2>1. DOMAIN F = 1 .. Len(F)
    BY <1>2
  <2>2. Len(line') = Len(F)
    <3> HIDE DEF F
    <3>1. QED
      BY <1>1, <1>2, <2>1
  <2>3. QED
    BY <1>2, <1>5, <2>2 DEF Pos
<1>7. OnTheLine'
  <2>1. \A i \in 1 .. Len(F) : F[i] = F[0 + i]
    OBVIOUS
  <2>2. line' = [i \in 1 .. Len(F) |-> [byte |-> F[0 + i], frame |-> k + 1]]
    <3>1. DOMAIN F = 1 .. Len(F)
      BY <1>2
    <3> HIDE DEF F
    <3>2. QED
      BY <1>1, <2>1, <3>1
  <2>3. Len(line') \in 0 .. Len(Frame')
    BY <1>2, <1>5, <1>6
  <2> HIDE DEF F
  <2>4. QED
    BY <1>4, <1>5, <1>6, <2>2, <2>3 DEF OnTheLine
<1>8. ~Hit' /\ ~Whole'
  <2>1. ~Hit'
    BY <1>1, <1>3, <1>4 DEF Hit
  <2>2. ~Whole'
    BY <1>2, <1>5, <1>6 DEF Whole
  <2>3. QED
    BY <2>1, <2>2
<1>9. /\ ~FrameComplete(msg_buffer)
      /\ sent # <<>> => Len(msg_buffer) <= Room
      /\ Spared(k + 1) => msg_buffer = LeftBy(k)
      /\ DeliveredUpTo(k)
  BY <1>a, <1>1, BetweenFrames
<1>10. Len(msg_buffer) <= Room /\ Room' = Room
  <2>1. sent = <<>> => msg_buffer = <<>>
    BY DEF IInv, Progress, NothingYet
  <2>2. Room \in Nat /\ Room' = Room
    BY <1>1, <1>2, <1>3, RoomGrows
  <2>3. QED
    BY <1>9, <2>1, <2>2
<1>11. Len(sent') - 1 = k
  BY <1>3, <1>4
<1>12. Behind(b)'
  <2>1. Spared(Len(sent))' => Spared(k + 1)
    BY <1>1, <1>4 DEF Spared
  <2>2. LeftBy(Len(sent) - 1)' = LeftBy(k)
    <3>1. k > 0 => sent'[k] = sent[k]
      BY <1>3, <1>4
    <3>2. QED
      BY <1>11, <3>1 DEF LeftBy
  <2>3. b = b \o SubSeq(F, 1, 0)
    BY <1>2
  <2>4. ~FrameComplete(b) /\ Len(b) <= Room' /\ (Spared(Len(sent))' => b = LeftBy(Len(sent) - 1)')
    BY <1>b, <1>9, <1>10, <2>1, <2>2
  <2>5. msg_buffer' = b \o SubSeq(Frame', 1, Pos')
    BY <1>b, <1>1, <1>5, <1>6, <2>3
  <2>6. QED
    BY <2>4, <2>5 DEF Behind
<1>13. DeliveredUpTo(Len(sent) - 1)'
  <2>1. FirstSpared' = FirstSpared /\ FirstSpared \in Nat /\ FirstSpared >= 1
    BY <1>1, <1>3 DEF FirstSpared
  <2>2. ASSUME NEW j \in FirstSpared .. k PROVE Received(j)' = Received(j)
    <3>1. j \in 1 .. k /\ (j > 1 => j - 1 \in 1 .. k)
      BY <1>3, <2>1
    <3>2. QED
      BY <1>4, <3>1 DEF Received
  <2>3. losses' = 0 => Len(delivered') = k
    BY <1>1, <1>9 DEF DeliveredUpTo
  <2>4. ASSUME NEW j \in FirstSpared' .. k
        PROVE  LET i == Len(delivered') - (k - j)
               IN  i \in 1 .. Len(delivered') /\ delivered'[i] = Received(j)'
    <3>1. j \in FirstSpared .. k
      BY <2>1
    <3>2. Received(j)' = Received(j)
      BY <2>2, <3>1
    <3>3. QED
      BY <1>1, <1>9, <3>1, <3>2 DEF DeliveredUpTo
  <2>5. QED
    BY <1>11, <2>3, <2>4 DEF DeliveredUpTo
<1>14. Arriving'
  BY <1>12, <1>13 DEF Arriving
<1>15. ~FrameComplete(msg_buffer')
  BY <1>1, <1>9
<1>16. QED
  BY <1>4, <1>7, <1>8, <1>14, <1>15 DEF Progress

-----------------------------------------------------------------------------
\* The invariant holds.

LEMMA CountersKept ==
  ASSUME IInv, [Next]_vars
  PROVE  Counters'
<1>1. /\ sent \in Seq(Payloads) /\ msg_buffer \in Seq(Alphabet)
      /\ losses \in Nat /\ last_hit \in 0 .. Len(sent)
      /\ losses = 0 <=> last_hit = 0
  BY DEF IInv, Counters
<1>2. PICK V : delivered \in Seq(V)
  BY DEF IInv, Counters
<1>3. ASSUME line # <<>> PROVE sent # <<>> /\ OnTheLine
  BY <1>3 DEF IInv, Progress, NothingYet
<1>4. ASSUME line # <<>>, sent' = sent, line' = Tail(line)
      PROVE  Head(line).byte \in Alphabet /\ Head(line).frame = Len(sent)
  <2>1. /\ Pos \in 0 .. Len(Frame) - 1 /\ Head(line).byte = Frame[Pos + 1]
        /\ Head(line).frame = Len(sent)
    BY <1>3, <1>4, ByteLeaves DEF IInv
  <2>2. Frame \in Seq(Alphabet)
    BY <1>3, <1>4, NewestFrame DEF IInv
  <2>3. QED
    BY <2>1, <2>2
<1>5. CASE ReceiveByte
  <2>1. line # <<>> /\ line' = Tail(line) /\ sent' = sent /\ losses' = losses /\ last_hit' = last_hit
    BY <1>5 DEF ReceiveByte
  <2> DEFINE bb == Append(msg_buffer, Head(line).byte)
             u == StcpUnEscape(bb)
  <2>2. bb \in Seq(Alphabet)
    BY <1>1, <1>4, <2>1
  <2>3. \/ delivered' = Append(delivered, u) /\ msg_buffer' = <<>>
        \/ delivered' = delivered /\ msg_buffer' = bb
    BY <1>5 DEF ReceiveByte, BufferAfterFrame
  <2> HIDE DEF bb, u
  <2>4. delivered' \in Seq(V \cup {u})
    <3>1. delivered \in Seq(V \cup {u})
      BY <1>2
    <3>2. QED
      BY <2>3, <3>1
  <2>5. msg_buffer' \in Seq(Alphabet)
    <3>1. <<>> \in Seq(Alphabet)
      OBVIOUS
    <3>2. QED
      BY <2>2, <2>3, <3>1
  <2>6. QED
    BY <1>1, <2>1, <2>4, <2>5 DEF Counters
<1>6. CASE LoseByte
  <2>1. /\ line # <<>> /\ line' = Tail(line) /\ sent' = sent
        /\ losses' = losses + 1 /\ last_hit' = Head(line).frame
        /\ msg_buffer' = msg_buffer /\ delivered' = delivered
    BY <1>6 DEF LoseByte
  <2>2. last_hit' = Len(sent) /\ Len(sent) \in Nat /\ Len(sent) >= 1
    BY <1>1, <1>3, <1>4, <2>1, NewestFrame DEF IInv
  <2>3. losses' \in Nat /\ last_hit' \in 0 .. Len(sent') /\ (losses' = 0 <=> last_hit' = 0)
    BY <1>1, <2>1, <2>2
  <2>4. QED
    BY <1>1, <1>2, <2>1, <2>3 DEF Counters
<1>7. ASSUME NEW m \in Payloads, StcpWrite(m) PROVE Counters'
  <2>1. /\ sent' = Append(sent, m) /\ msg_buffer' = msg_buffer /\ delivered' = delivered
        /\ losses' = losses /\ last_hit' = last_hit
    BY <1>7 DEF StcpWrite
  <2>2. sent' \in Seq(Payloads) /\ Len(sent') = Len(sent) + 1 /\ Len(sent) \in Nat
    BY <1>1, <2>1
  <2>3. last_hit' \in 0 .. Len(sent')
    BY <1>1, <2>1, <2>2
  <2>4. QED
    BY <1>1, <1>2, <2>1, <2>2, <2>3 DEF Counters
<1>8. CASE UNCHANGED vars
  <2>1. /\ sent' = sent /\ msg_buffer' = msg_buffer /\ delivered' = delivered
        /\ losses' = losses /\ last_hit' = last_hit
    BY <1>8 DEF vars
  <2>2. delivered' \in Seq(V)
    BY <1>2, <2>1
  <2>3. QED
    BY <1>1, <2>1, <2>2 DEF Counters
<1>9. QED
  BY <1>5, <1>6, <1>7, <1>8 DEF Next

LEMMA InvariantHolds == Spec => []IInv
<1>1. Init => IInv
  <2> SUFFICES ASSUME Init PROVE IInv
    OBVIOUS
  <2>1. Len(<<>>) = 0 /\ \A S : <<>> \in Seq(S)
    OBVIOUS
  <2>2. Counters
    BY <2>1 DEF Init, Counters
  <2>3. Progress
    BY DEF Init, Progress, NothingYet
  <2>4. QED
    BY <2>2, <2>3 DEF IInv
<1>2. IInv /\ [Next]_vars => IInv'
  <2> SUFFICES ASSUME IInv, [Next]_vars PROVE Progress'
    BY CountersKept DEF IInv
  <2>1. ReceiveByte \/ LoseByte => sent # <<>>
    BY DEF IInv, Progress, NothingYet, ReceiveByte, LoseByte
  <2>2. CASE ReceiveByte
    BY <2>1, <2>2, ReceiveUnhit, ReceiveLeftOver, ReceiveHit
  <2>3. CASE LoseByte
    BY <2>1, <2>3, LosePreserves
  <2>4. ASSUME NEW m \in Payloads, StcpWrite(m) PROVE Progress'
    BY <2>4, WritePreserves
  <2>5. CASE UNCHANGED vars
    <3>1. Progress /\ sent' = sent /\ msg_buffer' = msg_buffer /\ line' = line
          /\ delivered' = delivered /\ losses' = losses /\ last_hit' = last_hit
      BY <2>5 DEF IInv, vars
    <3>2. Frame' = Frame /\ Pos' = Pos /\ Room' = Room /\ FirstSpared' = FirstSpared
      BY <3>1 DEF Frame, Pos, Room, FirstSpared
    <3>3. (Hit <=> Hit') /\ (Whole <=> Whole') /\ (NothingYet <=> NothingYet')
      BY <3>1, <3>2 DEF Hit, Whole, NothingYet
    <3>4. (OnTheLine <=> OnTheLine') /\ (Damaged <=> Damaged')
      BY <3>1, <3>2 DEF OnTheLine, Damaged
    <3>5. Arriving <=> Arriving'
      BY <3>1, <3>2 DEF Arriving, Behind, Spared, LeftBy, DeliveredUpTo, Received
    <3>6. Arrived <=> Arrived'
      BY <3>1, <3>2 DEF Arrived, LeftBy, DeliveredUpTo, Received
    <3>7. QED
      BY <3>1, <3>3, <3>4, <3>5, <3>6 DEF Progress
  <2>6. QED
    BY <2>2, <2>3, <2>4, <2>5 DEF Next
<1>3. QED
  BY <1>1, <1>2, PTL DEF Spec

-----------------------------------------------------------------------------
\* What follows for the messages delivered and for the receive buffer.

\* Without noise every message sent is handed over once, in order and as the
\* framing gives it back.
THEOREM FramesReadBack == Spec => []DeliveredAsSent
<1>1. IInv => DeliveredAsSent
  <2> SUFFICES ASSUME IInv, line = <<>>, losses = 0
               PROVE  delivered = ReceivedFrom(1)
    BY DEF DeliveredAsSent
  <2>0. PICK k \in Nat : k = Len(sent)
    BY DEF IInv, Counters
  <2>1. PICK V : delivered \in Seq(V)
    BY DEF IInv, Counters
  <2>2. DeliveredUpTo(k)
    BY <2>0, BetweenFrames
  <2>3. Len(delivered) = k /\ FirstSpared = 1
    BY <2>2 DEF DeliveredUpTo, FirstSpared
  <2>4. ASSUME NEW j \in 1 .. k PROVE delivered[j] = Received(j)
    <3>1. delivered[Len(delivered) - (k - j)] = Received(j)
      BY <2>2, <2>3 DEF DeliveredUpTo
    <3>2. Len(delivered) - (k - j) = j
      BY <2>0, <2>3
    <3>3. QED
      BY <3>1, <3>2
  <2>5. delivered = [i \in 1 .. k |-> delivered[i]]
    BY <2>1, <2>3
  <2>6. ReceivedFrom(1) = [i \in 1 .. k |-> Received(i)]
    <3>1. Len(sent) - 1 + 1 = k /\ \A i \in 1 .. k : 1 + i - 1 = i
      BY <2>0
    <3>2. QED
      BY <3>1 DEF ReceivedFrom
  <2>7. QED
    BY <2>4, <2>5, <2>6
<1>2. QED
  BY <1>1, InvariantHolds, PTL

\* Only the frame that loses a byte and the frame behind it suffer.
THEOREM NoiseStaysLocal == Spec => []Resynchronises
<1>1. IInv => Resynchronises
  <2> SUFFICES ASSUME IInv, line = <<>>, losses > 0
               PROVE  IsSuffix(ReceivedFrom(last_hit + 2), delivered)
    BY DEF Resynchronises
  <2>0. PICK k \in Nat : k = Len(sent)
    BY DEF IInv, Counters
  <2>1. PICK n \in Nat : n = Len(delivered)
    BY DEF IInv, Counters
  <2>2. PICK h \in Nat : h = last_hit /\ h <= k
    BY <2>0 DEF IInv, Counters
  <2>3. DeliveredUpTo(k) /\ losses # 0
    BY <2>0, BetweenFrames DEF IInv, Counters
  <2> DEFINE s == ReceivedFrom(last_hit + 2)
             l == IF h < k THEN k - h - 1 ELSE 0
  <2>4. l \in Nat /\ s = [i \in 1 .. l |-> Received(h + 2 + i - 1)]
    <3>1. 1 .. k - (h + 2) + 1 = 1 .. l /\ l \in Nat
      BY <2>2
    <3>2. s = [i \in 1 .. k - (h + 2) + 1 |-> Received(h + 2 + i - 1)]
      BY <2>0, <2>2 DEF ReceivedFrom
    <3> HIDE DEF s, l
    <3>3. QED
      BY <3>1, <3>2
  <2>5. Len(s) = l
    <3> HIDE DEF s, l
    <3>1. QED
      BY <2>4
  <2>6. ASSUME NEW i \in 1 .. l
        PROVE  /\ n - (l - i) \in 1 .. n /\ s[i] = delivered[n - (l - i)]
    <3> DEFINE j == h + 2 + i - 1
    <3>1. j \in h + 2 .. k /\ k - j = l - i
      BY <2>2
    <3>2. FirstSpared = h + 2
      BY <2>2, <2>3 DEF FirstSpared
    <3>3. n - (k - j) \in 1 .. n /\ delivered[n - (k - j)] = Received(j)
      BY <2>1, <2>3, <3>1, <3>2 DEF DeliveredUpTo
    <3>4. s[i] = Received(j)
      <4> HIDE DEF s, l
      <4>1. QED
        BY <2>4
    <3>5. QED
      BY <3>1, <3>3, <3>4
  <2>7. l <= n
    <3>1. CASE l = 0
      BY <3>1
    <3>2. CASE l # 0
      <4>1. 1 \in 1 .. l
        BY <2>4, <3>2
      <4>2. n - (l - 1) \in 1 .. n
        BY <2>6, <4>1
      <4> HIDE DEF l
      <4>3. QED
        BY <2>1, <2>4, <4>2
    <3>3. QED
      BY <3>1, <3>2
  <2> HIDE DEF s, l
  <2>8. /\ Reverse(s) = [i \in 1 .. l |-> s[(l - i) + 1]]
        /\ Reverse(delivered) = [i \in 1 .. n |-> delivered[(n - i) + 1]]
    BY <2>1, <2>5 DEF Reverse
  <2>9. Len(Reverse(s)) = l /\ Len(Reverse(delivered)) = n
    BY <2>1, <2>4, <2>8
  <2>10. ASSUME NEW i \in 1 .. l PROVE Reverse(s)[i] = Reverse(delivered)[i]
    <3>1. (l - i) + 1 \in 1 .. l /\ n - (l - ((l - i) + 1)) = (n - i) + 1 /\ i \in 1 .. n
      BY <2>1, <2>4, <2>7
    <3>2. s[(l - i) + 1] = delivered[(n - i) + 1]
      BY <2>6, <3>1
    <3>3. QED
      BY <2>8, <3>1, <3>2
  <2>11. IsPrefix(Reverse(s), Reverse(delivered))
    <3>1. SubSeq(Reverse(s), 1, l) = SubSeq(Reverse(delivered), 1, l)
      <4> DEFINE a == Reverse(s)
                 b == Reverse(delivered)
      <4>1. Len(a) = l /\ Len(b) = n /\ \A i \in 1 .. l : a[i] = b[i]
        BY <2>9, <2>10
      <4> HIDE DEF a, b
      <4>2. SubSeq(a, 1, l) = SubSeq(b, 1, l)
        BY <2>1, <2>4, <2>7, <4>1
      <4>3. QED
        BY <4>2 DEF a, b
    <3>2. QED
      BY <2>7, <2>9, <3>1 DEF IsPrefix
  <2>12. QED
    BY <2>11 DEF IsSuffix, s
<1>2. QED
  BY <1>1, InvariantHolds, PTL

\* The receive buffer holds one frame, and one more for every byte lost.
THEOREM BufferNeedsOneFrame == Spec => []BufferBounded
<1>1. IInv => BufferBounded
  <2> SUFFICES ASSUME IInv PROVE BufferBounded
    OBVIOUS
  <2>1. losses \in Nat /\ msg_buffer \in Seq(Alphabet) /\ Len(msg_buffer) \in Nat
    BY DEF IInv, Counters
  <2>2. LongestFrame \in Nat
    BY PayloadsAssumption, Messages
  <2>3. Room \in Nat /\ Room >= 1
    BY <2>1, <2>2, RoomGrows
  <2>4. (losses + 1) * LongestFrame + 1 = Room + LongestFrame
    <3> DEFINE F == LongestFrame
    <3>1. F \in Nat
      BY <2>2
    <3> HIDE DEF F
    <3>2. (losses + 1) * F + 1 = (losses * F + 1) + F
      BY <2>1, <3>1
    <3>3. QED
      BY <3>2 DEF Room, F
  <2>5. Len(msg_buffer) <= Room + LongestFrame
    <3>1. CASE sent = <<>>
      BY <2>2, <2>3, <3>1 DEF IInv, Progress, NothingYet
    <3>2. CASE sent # <<>> /\ Hit
      <4>1. Len(msg_buffer) + Len(line) <= Room
        BY <3>2 DEF IInv, Progress, Damaged
      <4>2. Len(line) \in Nat
        BY <3>2, NewestFrame DEF IInv, Progress, OnTheLine
      <4>3. QED
        BY <2>1, <2>2, <2>3, <4>1, <4>2
    <3>3. CASE sent # <<>> /\ ~Hit /\ Whole
      <4>1. msg_buffer = <<>> \/ msg_buffer = << STCP_FOOTER >>
        BY <3>3 DEF IInv, Progress, Arrived, LeftBy
      <4>2. Len(<<>>) <= 1 /\ Len(<< STCP_FOOTER >>) <= 1
        OBVIOUS
      <4>3. Len(msg_buffer) <= 1
        BY <4>1, <4>2
      <4>4. QED
        BY <2>1, <2>2, <2>3, <4>3
    <3>4. CASE sent # <<>> /\ ~Hit /\ ~Whole
      <4>1. PICK b \in Seq(Alphabet) : Behind(b)
        BY <3>4 DEF IInv, Progress, Arriving
      <4>2. Len(b) <= Room /\ msg_buffer = b \o SubSeq(Frame, 1, Pos)
        BY <4>1 DEF Behind
      <4>3. Frame \in Seq(Alphabet) /\ Len(Frame) \in Nat /\ Len(Frame) <= LongestFrame
        BY <3>4, NewestFrame DEF IInv
      <4>4. Pos \in 0 .. Len(Frame)
        BY <3>4, <4>3 DEF IInv, Progress, OnTheLine, Pos
      <4>5. Len(msg_buffer) = Len(b) + Pos
        BY <4>2, <4>3, <4>4
      <4>6. QED
        BY <2>2, <2>3, <4>2, <4>3, <4>4, <4>5
    <3>5. QED
      BY <3>1, <3>2, <3>3, <3>4
  <2>6. QED
    BY <2>4, <2>5 DEF BufferBounded
<1>2. QED
  BY <1>1, InvariantHolds, PTL

=============================================================================
