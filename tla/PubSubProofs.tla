----------------------------- MODULE PubSubProofs -----------------------------
(***************************************************************************)
(* Proofs about PubSubDelivery, for every set of keys and configurations,   *)
(* every batch size and every bound: the two indexes of a subscription      *)
(* agree with its log, nothing unacknowledged is lost, keys stay in order,  *)
(* and a transferred message is finished at its source.                     *)
(***************************************************************************)
EXTENDS PubSubDelivery, FiniteSetTheorems, SequenceTheorems, NaturalsInduction,
        WellFoundedInduction, TLAPS

-----------------------------------------------------------------------------
(* Positions in order.                                                      *)

(* A nonempty set of naturals has a least element.                          *)
LEMMA LeastPosition ==
    ASSUME NEW S \in SUBSET Nat, S # {}
    PROVE  \E m \in S : \A k \in S : m <= k
<1> DEFINE R == OpToRel(<, Nat)
<1>1. IsWellFoundedOn(R, Nat)
  BY NatLessThanWellFounded
<1>2. \A k, m \in Nat : k < m => <<k, m>> \in R
  BY DEF OpToRel
<1> HIDE DEF R
<1>3. PICK m \in S : \A k \in S : ~ (<<k, m>> \in R)
  BY <1>1, WFMin
<1>4. \A k \in S : ~ (k < m)
  BY <1>2, <1>3
<1>5. \A k \in S : m <= k
  BY <1>4
<1> QED
  BY <1>5

(* What holds at zero and passes from each number to the next holds         *)
(* throughout.                                                              *)
LEMMA StepByStep ==
    ASSUME NEW N \in Nat, NEW S, 0 \in S,
           \A n \in 1 .. N : n - 1 \in S => n \in S
    PROVE  \A n \in 0 .. N : n \in S
<1> DEFINE T == {n \in 0 .. N : n \notin S}
<1>1. T \in SUBSET Nat
  OBVIOUS
<1>2. ASSUME T # {} PROVE FALSE
  <2>1. PICK m \in T : \A k \in T : m <= k
    <3> HIDE DEF T
    <3> QED
      BY <1>1, <1>2, LeastPosition
  <2>2. m \in 1 .. N /\ m - 1 \in 0 .. N
    BY <2>1
  <2>3. m - 1 \notin T
    BY <2>1, <2>2
  <2> QED
    BY <2>1, <2>2, <2>3
<1> QED
  BY <1>2

(* A nonempty set of positions of a log has a greatest element.             *)
LEMMA GreatestPosition ==
    ASSUME NEW N \in Nat, NEW S \in SUBSET (1 .. N), S # {}
    PROVE  \E m \in S : \A k \in S : k <= m
<1> DEFINE T == {n \in 0 .. N : N - n \in S}
<1>1. PICK x \in S : TRUE
  OBVIOUS
<1>2. N - x \in 0 .. N /\ N - (N - x) = x
  BY <1>1
<1>3. T \in SUBSET Nat /\ T # {}
  <2>1. N - x \in T
    BY <1>1, <1>2
  <2>2. \A n \in T : n \in Nat
    OBVIOUS
  <2> HIDE DEF T
  <2> QED
    BY <2>1, <2>2
<1>4. PICK m \in T : \A k \in T : m <= k
  <2> HIDE DEF T
  <2> QED
    BY <1>3, LeastPosition
<1>5. ASSUME NEW y \in S PROVE y <= N - m
  <2>1. N - y \in 0 .. N /\ N - (N - y) = y
    OBVIOUS
  <2>2. N - y \in T
    BY <2>1
  <2>3. m <= N - y /\ m \in 0 .. N
    BY <1>4, <2>2
  <2> QED
    BY <2>3
<1>6. N - m \in S
  BY <1>4
<1> QED
  BY <1>5, <1>6

\* p lists the positions S in order.
Orders(p, S) ==
    /\ p \in [1 .. Cardinality(S) -> S]
    /\ \A m, n \in DOMAIN p : m < n => p[m] < p[n]

(* The positions of a log are finite sets.                                  *)
LEMMA PositionsAreFinite ==
    ASSUME NEW N \in Nat, NEW S \in SUBSET (1 .. N)
    PROVE  IsFiniteSet(S) /\ Cardinality(S) \in Nat
<1>1. IsFiniteSet(1 .. N)
  BY FS_Interval
<1> QED
  BY <1>1, FS_Subset, FS_CardinalityType

(* Any set of positions can be listed in order.                             *)
LEMMA OrderExists ==
    ASSUME NEW N \in Nat, NEW S \in SUBSET (1 .. N)
    PROVE  \E p : Orders(p, S)
<1> DEFINE C == Cardinality(S)
           G == {n \in 0 .. C : \A T \in SUBSET S : Cardinality(T) = n => \E p : Orders(p, T)}
<1>1. C \in Nat
  BY PositionsAreFinite
<1>2. 0 \in G
  <2> SUFFICES ASSUME NEW T \in SUBSET S, Cardinality(T) = 0 PROVE \E p : Orders(p, T)
    BY <1>1
  <2>1. 1 .. 0 = {}
    OBVIOUS
  <2>2. [i \in 1 .. 0 |-> i] \in [1 .. 0 -> T]
    BY <2>1
  <2>3. Orders([i \in 1 .. 0 |-> i], T)
    BY <2>1, <2>2 DEF Orders
  <2> QED
    BY <2>3
<1>3. ASSUME NEW n \in 1 .. C, n - 1 \in G PROVE n \in G
  <2> SUFFICES ASSUME NEW T \in SUBSET S, Cardinality(T) = n PROVE \E p : Orders(p, T)
    OBVIOUS
  <2>1. IsFiniteSet(T) /\ T \in SUBSET (1 .. N)
    BY PositionsAreFinite
  <2>2. T # {}
    BY <1>1, <1>3, FS_EmptySet
  <2>3. PICK m \in T : \A k \in T : k <= m
    BY <2>1, <2>2, GreatestPosition
  <2>4. PICK U : U = T \ {m}
    OBVIOUS
  <2>5. U \in SUBSET S /\ Cardinality(U) = n - 1
    BY <2>1, <2>3, <2>4, FS_RemoveElement
  <2>6. PICK p : Orders(p, U)
    BY <1>3, <2>5
  <2>7. n \in Nat /\ p \in [1 .. (n - 1) -> U]
    <3>1. p \in [1 .. Cardinality(U) -> U]
      BY <2>6 DEF Orders
    <3> QED
      BY <1>1, <1>3, <2>5, <3>1
  <2>8. PICK q : q = [i \in 1 .. n |-> IF i = n THEN m ELSE p[i]]
    OBVIOUS
  <2>9. q \in [1 .. n -> T]
    BY <1>3, <2>3, <2>4, <2>7, <2>8
  <2>10. ASSUME NEW i \in 1 .. n, NEW k \in 1 .. n, i < k PROVE q[i] < q[k]
    <3>1. i \in 1 .. (n - 1) /\ i # n /\ q[i] = p[i] /\ p[i] \in U
      BY <2>7, <2>8, <2>10
    <3>2. CASE k = n
      <4>1. q[k] = m /\ p[i] \in T /\ p[i] # m
        BY <2>4, <2>8, <3>1, <3>2
      <4>2. p[i] \in 1 .. N /\ m \in 1 .. N
        BY <2>1, <2>3, <4>1
      <4>3. p[i] <= m
        BY <2>3, <4>1
      <4> QED
        BY <3>1, <4>1, <4>2, <4>3
    <3>3. CASE k # n
      <4>1. k \in 1 .. (n - 1) /\ q[k] = p[k]
        BY <2>7, <2>8, <3>3
      <4>2. i \in DOMAIN p /\ k \in DOMAIN p
        BY <2>7, <3>1, <4>1
      <4> QED
        BY <2>6, <2>10, <3>1, <4>1, <4>2 DEF Orders
    <3> QED
      BY <3>2, <3>3
  <2>11. Orders(q, T)
    BY <2>9, <2>10 DEF Orders
  <2> QED
    BY <2>11
<1>4. \A n \in 0 .. C : n \in G
  <2> HIDE DEF C, G
  <2> QED
    BY <1>1, <1>2, <1>3, StepByStep
<1> QED
  BY <1>1, <1>4

(* `InOrder` lists a set of positions, each once and in order.              *)
LEMMA InOrderIs ==
    ASSUME NEW N \in Nat, NEW S \in SUBSET (1 .. N)
    PROVE  /\ InOrder(S) \in [1 .. Cardinality(S) -> S]
           /\ \A m, n \in 1 .. Cardinality(S) : m < n => InOrder(S)[m] < InOrder(S)[n]
           /\ \A m, n \in 1 .. Cardinality(S) : InOrder(S)[m] = InOrder(S)[n] => m = n
           /\ \A i \in S : \E n \in 1 .. Cardinality(S) : InOrder(S)[n] = i
<1> DEFINE C == Cardinality(S)
<1>1. C \in Nat /\ IsFiniteSet(S)
  BY PositionsAreFinite
<1>2. PICK p : Orders(p, S)
  BY OrderExists
<1>3. Orders(InOrder(S), S)
  BY <1>2 DEF InOrder, Orders
<1>4. PICK q : q = InOrder(S)
  OBVIOUS
<1>5. q \in [1 .. C -> S] /\ \A m, n \in 1 .. C : m < n => q[m] < q[n]
  BY <1>3, <1>4 DEF Orders
<1> HIDE DEF C
<1>6. ASSUME NEW m \in 1 .. C, NEW n \in 1 .. C, q[m] = q[n] PROVE m = n
  <2>1. q[m] \in 1 .. N
    <3>1. q[m] \in S
      BY <1>5
    <3> QED
      BY <3>1
  <2>2. ~ (m < n) /\ ~ (n < m)
    BY <1>5, <1>6, <2>1
  <2> QED
    BY <1>1, <2>2
<1>7. q \in Injection(1 .. C, S)
  BY <1>5, <1>6 DEF Injection, IsInjective
<1>8. Cardinality(1 .. C) = C
  BY <1>1, FS_Interval
<1>9. q \in Surjection(1 .. C, S)
  BY <1>1, <1>7, <1>8, FS_Injection DEF C
<1> QED
  BY <1>4, <1>5, <1>6, <1>9 DEF C, Surjection

(* What a log retains: the elements at the retained positions, each once    *)
(* and in the order they had.                                               *)
LEMMA RetainIs ==
    ASSUME NEW X, NEW log \in Seq(X), NEW S \in SUBSET DOMAIN log
    PROVE  \E p \in [1 .. Len(Retain(log, S)) -> S] :
             /\ Retain(log, S) \in Seq(X)
             /\ \A n \in 1 .. Len(Retain(log, S)) : Retain(log, S)[n] = log[p[n]]
             /\ \A m, n \in 1 .. Len(Retain(log, S)) : m < n => p[m] < p[n]
             /\ \A m, n \in 1 .. Len(Retain(log, S)) : p[m] = p[n] => m = n
             /\ \A i \in S : \E n \in 1 .. Len(Retain(log, S)) : p[n] = i
<1>1. PICK N \in Nat : N = Len(log) /\ DOMAIN log = 1 .. N
  OBVIOUS
<1>2. PICK C \in Nat : C = Cardinality(S)
  BY <1>1, PositionsAreFinite
<1>3. PICK p : p = InOrder(S)
  OBVIOUS
<1>4. /\ p \in [1 .. C -> S]
      /\ \A m, n \in 1 .. C : m < n => p[m] < p[n]
      /\ \A m, n \in 1 .. C : p[m] = p[n] => m = n
      /\ \A i \in S : \E n \in 1 .. C : p[n] = i
  BY <1>1, <1>2, <1>3, InOrderIs
<1>5. PICK r : r = Retain(log, S)
  OBVIOUS
<1>6. r = [n \in 1 .. C |-> log[p[n]]]
  BY <1>2, <1>3, <1>5 DEF Retain
<1>7. \A n \in 1 .. C : p[n] \in DOMAIN log /\ log[p[n]] \in X
  BY <1>4
<1>8. r \in Seq(X) /\ Len(r) = C
  BY <1>6, <1>7
<1>9. \A n \in 1 .. C : r[n] = log[p[n]]
  BY <1>6
<1>10. /\ p \in [1 .. Len(r) -> S]
       /\ r \in Seq(X)
       /\ \A n \in 1 .. Len(r) : r[n] = log[p[n]]
       /\ \A m, n \in 1 .. Len(r) : m < n => p[m] < p[n]
       /\ \A m, n \in 1 .. Len(r) : p[m] = p[n] => m = n
       /\ \A i \in S : \E n \in 1 .. Len(r) : p[n] = i
  BY <1>4, <1>8, <1>9
<1> QED
  BY <1>5, <1>10

-----------------------------------------------------------------------------
(* The inductive invariant of a subscription.                               *)

States == {"Available", "Outstanding", "Acked", "ForwardPending"}

Entry == [msg : Message, state : States, at : Nat, ack : Nat, attempt : Nat]

\* A log of messages that are all different, after m publications and n - 1 leases.
LogOK(E, m, n) ==
    /\ E \in Seq(Entry)
    /\ \A i \in DOMAIN E : E[i].msg.id <= m /\ E[i].attempt < n
    /\ \A i, j \in DOMAIN E : E[i].msg.id = E[j].msg.id => i = j

\* Every open lease is one that a pull handed out for this message, and has not lapsed.
LeaseOK(E, led, now) ==
    \A i \in Leased(E) : E[i].ack \in DOMAIN led /\ led[E[i].ack] = E[i].msg.id /\ E[i].at > now

\* The index of the open leases.
OutstandingOK(E, index) ==
    /\ index = [a \in DOMAIN index |-> index[a]]
    /\ DOMAIN index = {E[i].ack : i \in Leased(E)}
    /\ \A a \in DOMAIN index : index[a] \in Leased(E) /\ E[index[a]].ack = a

\* Nothing behind the cursor waits.
CursorOK(E, f) == f \in 1 .. Len(E) + 1 /\ \A i \in 1 .. f - 1 : Acked(E[i])

IndexOK(s) ==
    /\ s = [entries |-> s.entries, first_unacked |-> s.first_unacked,
            outstanding |-> s.outstanding]
    /\ OutstandingOK(s.entries, s.outstanding)
    /\ CursorOK(s.entries, s.first_unacked)

SubOK(s, m, n, led, now) ==
    LogOK(s.entries, m, n) /\ LeaseOK(s.entries, led, now) /\ IndexOK(s)

\* With ordering, a reserved entry is the first of its key that is not acknowledged.
ReservedFirst(c, E) ==
    c.ordered => \A j \in DOMAIN E : E[j].state = "ForwardPending" =>
        \A i \in 1 .. j - 1 :
            E[j].msg.key # NoKey /\ E[i].msg.key = E[j].msg.key => Acked(E[i])

(* The fields of an entry.                                                  *)
LEMMA EntryIs ==
    ASSUME NEW E \in Seq(Entry)
    PROVE  \A i \in DOMAIN E :
             /\ E[i] \in Entry
             /\ E[i] = [msg |-> E[i].msg, state |-> E[i].state, at |-> E[i].at,
                        ack |-> E[i].ack, attempt |-> E[i].attempt]
             /\ E[i].msg \in Message /\ E[i].state \in States /\ E[i].at \in Nat
             /\ E[i].ack \in Nat /\ E[i].attempt \in Nat
             /\ E[i].msg.id \in Nat
<1> SUFFICES ASSUME NEW i \in DOMAIN E
             PROVE  /\ E[i] \in Entry
                    /\ E[i] = [msg |-> E[i].msg, state |-> E[i].state, at |-> E[i].at,
                               ack |-> E[i].ack, attempt |-> E[i].attempt]
                    /\ E[i].msg \in Message /\ E[i].state \in States /\ E[i].at \in Nat
                    /\ E[i].ack \in Nat /\ E[i].attempt \in Nat
                    /\ E[i].msg.id \in Nat
  OBVIOUS
<1>1. E[i] \in Entry
  OBVIOUS
<1>2. E[i].msg \in Message
  BY <1>1 DEF Entry
<1>3. E[i].msg.id \in Nat
  BY <1>2, InstanceAssumption DEF Message
<1> QED
  BY <1>1, <1>2, <1>3 DEF Entry

(* The first unacknowledged position, behind which nothing waits.           *)
LEMMA FirstUnackedIs ==
    ASSUME NEW E \in Seq(Entry), NEW f, CursorOK(E, f)
    PROVE  CursorOK(E, FirstUnacked(E, f))
<1> DEFINE live == {i \in f .. Len(E) : ~Acked(E[i])}
<1>1. Len(E) \in Nat /\ f \in 1 .. Len(E) + 1
  BY DEF CursorOK
<1>2. CASE live = {}
  BY <1>1, <1>2 DEF CursorOK, FirstUnacked
<1>3. CASE live # {}
  <2>1. live \in SUBSET Nat
    BY <1>1
  <2>2. PICK m \in live : \A k \in live : m <= k
    <3> HIDE DEF live
    <3> QED
      BY <1>3, <2>1, LeastPosition
  <2>3. PICK r : r = FirstUnacked(E, f)
    OBVIOUS
  <2>4. r \in live /\ \A k \in live : r <= k
    BY <1>3, <2>2, <2>3 DEF FirstUnacked
  <2>5. \A i \in 1 .. r - 1 : i \notin live
    BY <2>4, <1>1
  <2>6. \A i \in 1 .. r - 1 : Acked(E[i])
    BY <1>1, <2>4, <2>5 DEF CursorOK
  <2> QED
    BY <1>1, <2>3, <2>4, <2>6 DEF CursorOK
<1> QED
  BY <1>2, <1>3

(* No two open leases share an ack id.                                      *)
LEMMA AcksDiffer ==
    ASSUME NEW E, NEW m, NEW n, NEW led, NEW now, LogOK(E, m, n), LeaseOK(E, led, now)
    PROVE  \A i, j \in Leased(E) : E[i].ack = E[j].ack => i = j
BY DEF LogOK, LeaseOK, Leased

(* The rebuilt indexes agree with the log.                                  *)
LEMMA RebuildOK ==
    ASSUME NEW E, NEW m, NEW n, NEW led, NEW now, LogOK(E, m, n), LeaseOK(E, led, now)
    PROVE  SubOK(rebuild_indexes(E), m, n, led, now) /\ rebuild_indexes(E).entries = E
<1> DEFINE s == rebuild_indexes(E)
<1>1. /\ s.entries = E
      /\ s.first_unacked = FirstUnacked(E, 1)
      /\ s.outstanding = [a \in {E[i].ack : i \in Leased(E)} |->
                            CHOOSE i \in Leased(E) : E[i].ack = a]
      /\ s = [entries |-> s.entries, first_unacked |-> s.first_unacked,
              outstanding |-> s.outstanding]
  BY DEF rebuild_indexes
<1>2. CursorOK(E, FirstUnacked(E, 1))
  <2>1. E \in Seq(Entry)
    BY DEF LogOK
  <2>2. CursorOK(E, 1)
    BY <2>1 DEF CursorOK
  <2> QED
    BY <2>1, <2>2, FirstUnackedIs
<1>3. OutstandingOK(E, s.outstanding)
  BY <1>1 DEF OutstandingOK
<1> HIDE DEF s
<1>4. IndexOK(s)
  BY <1>1, <1>2, <1>3 DEF IndexOK
<1>5. SubOK(s, m, n, led, now)
  BY <1>1, <1>4 DEF SubOK
<1> QED
  BY <1>1, <1>5 DEF s

\* F is E with some entries moved on: the messages are the same, no attempt is added and no
\* lease is opened.
Follows(E, F) ==
    /\ F \in Seq(Entry) /\ Len(F) = Len(E)
    /\ \A i \in DOMAIN E :
          /\ F[i].msg = E[i].msg /\ F[i].attempt <= E[i].attempt
          /\ F[i].state = "Outstanding" => E[i].state = "Outstanding" /\ F[i].ack = E[i].ack

(* Such a log keeps the leases that it does not close.                      *)
LEMMA LogFollows ==
    ASSUME NEW E, NEW F, NEW m, NEW n \in Nat, LogOK(E, m, n), Follows(E, F)
    PROVE  LogOK(F, m, n)
<1>1. DOMAIN F = DOMAIN E /\ E \in Seq(Entry) /\ F \in Seq(Entry)
  BY DEF LogOK, Follows
<1>2. \A i \in DOMAIN E : F[i].attempt \in Nat /\ E[i].attempt \in Nat
  BY <1>1, EntryIs
<1>3. \A i \in DOMAIN E : F[i].attempt < n
  BY <1>2 DEF LogOK, Follows
<1> QED
  BY <1>1, <1>3 DEF LogOK, Follows

(* Taking the closed leases out of the index.                               *)
LEMMA IndexFollows ==
    ASSUME NEW E \in Seq(Entry), NEW F, NEW index, NEW acks,
           OutstandingOK(E, index), Follows(E, F),
           \A i \in DOMAIN E : F[i].state = "Outstanding" <=>
                                 E[i].state = "Outstanding" /\ E[i].ack \notin acks
    PROVE  OutstandingOK(F, [a \in DOMAIN index \ acks |-> index[a]])
<1>1. DOMAIN F = DOMAIN E
  BY DEF Follows
<1>2. Leased(F) = {i \in Leased(E) : E[i].ack \notin acks}
  BY <1>1 DEF Leased
<1>3. \A i \in Leased(F) : F[i].ack = E[i].ack
  BY <1>1, <1>2 DEF Follows, Leased
<1>4. {F[i].ack : i \in Leased(F)} = {E[i].ack : i \in Leased(E)} \ acks
  BY <1>2, <1>3
<1> QED
  BY <1>2, <1>3, <1>4 DEF OutstandingOK

(* The state of a subscription as a record.                                 *)
LEMMA SubIs ==
    ASSUME NEW E, NEW f, NEW index, NEW s,
           s = [entries |-> E, first_unacked |-> f, outstanding |-> index]
    PROVE  /\ s.entries = E /\ s.first_unacked = f /\ s.outstanding = index
           /\ \A F : [s EXCEPT !.entries = F]
                       = [entries |-> F, first_unacked |-> f, outstanding |-> index]
           /\ advance_first_unacked(s)
                = [entries |-> E, first_unacked |-> FirstUnacked(E, f), outstanding |-> index]
BY DEF advance_first_unacked

(* A step that moves some entries on, takes the leases it closes out of the *)
(* index and may move the cursor keeps the invariant.                       *)
LEMMA SubFollows ==
    ASSUME NEW s, NEW r, NEW m, NEW n \in Nat, NEW led, NEW now, NEW then, NEW acks,
           SubOK(s, m, n, led, now), Follows(s.entries, r.entries),
           r = [entries |-> r.entries, first_unacked |-> r.first_unacked,
                outstanding |-> r.outstanding],
           r.outstanding = [a \in DOMAIN s.outstanding \ acks |-> s.outstanding[a]],
           \A i \in DOMAIN s.entries :
             /\ r.entries[i].state = "Outstanding" <=>
                  s.entries[i].state = "Outstanding" /\ s.entries[i].ack \notin acks
             /\ Acked(s.entries[i]) => Acked(r.entries[i])
             /\ r.entries[i].state = "Outstanding" => r.entries[i].at > then,
           \/ r.first_unacked = s.first_unacked
           \/ r.first_unacked = FirstUnacked(r.entries, s.first_unacked)
    PROVE  SubOK(r, m, n, led, then)
<1> DEFINE E == s.entries
           F == r.entries
<1>1. LogOK(E, m, n) /\ LeaseOK(E, led, now) /\ IndexOK(s)
  BY DEF SubOK
<1>2. LogOK(F, m, n)
  BY <1>1, LogFollows
<1>3. DOMAIN F = DOMAIN E /\ F \in Seq(Entry) /\ Len(F) = Len(E) /\ E \in Seq(Entry)
  BY <1>1, <1>2 DEF LogOK, Follows
<1>4. LeaseOK(F, led, then)
  BY <1>1, <1>3 DEF LeaseOK, Leased, Follows
<1>5. OutstandingOK(F, r.outstanding)
  <2>1. OutstandingOK(E, s.outstanding)
    BY <1>1 DEF IndexOK
  <2>2. \A i \in DOMAIN E : F[i].state = "Outstanding" <=>
                                E[i].state = "Outstanding" /\ E[i].ack \notin acks
    OBVIOUS
  <2>3. Follows(E, F)
    OBVIOUS
  <2>4. OutstandingOK(F, [a \in DOMAIN s.outstanding \ acks |-> s.outstanding[a]])
    <3> HIDE DEF E, F
    <3> QED
      BY <1>3, <2>1, <2>2, <2>3, IndexFollows
  <2> QED
    BY <2>4
<1>6. CursorOK(F, s.first_unacked)
  BY <1>1, <1>3 DEF IndexOK, CursorOK
<1>7. CursorOK(F, r.first_unacked)
  BY <1>3, <1>6, FirstUnackedIs
<1> QED
  BY <1>2, <1>4, <1>5, <1>7 DEF SubOK, IndexOK

(* The same where no lease is closed.                                       *)
LEMMA SubStays ==
    ASSUME NEW s, NEW r, NEW m, NEW n \in Nat, NEW led, NEW now, NEW then,
           SubOK(s, m, n, led, now), Follows(s.entries, r.entries),
           r = [entries |-> r.entries, first_unacked |-> r.first_unacked,
                outstanding |-> r.outstanding],
           r.outstanding = s.outstanding,
           \A i \in DOMAIN s.entries :
             /\ r.entries[i].state = "Outstanding" <=> s.entries[i].state = "Outstanding"
             /\ Acked(s.entries[i]) => Acked(r.entries[i])
             /\ r.entries[i].state = "Outstanding" => r.entries[i].at > then,
           \/ r.first_unacked = s.first_unacked
           \/ r.first_unacked = FirstUnacked(r.entries, s.first_unacked)
    PROVE  SubOK(r, m, n, led, then)
<1>1. PICK none : none = {}
  OBVIOUS
<1>2. \A a : a \notin none
  BY <1>1
<1>3. s.outstanding = [a \in DOMAIN s.outstanding |-> s.outstanding[a]]
  BY DEF SubOK, IndexOK, OutstandingOK
<1>4. r.outstanding = [a \in DOMAIN s.outstanding \ none |-> s.outstanding[a]]
  BY <1>1, <1>3
<1>5. \A i \in DOMAIN s.entries :
        /\ r.entries[i].state = "Outstanding" <=>
             s.entries[i].state = "Outstanding" /\ s.entries[i].ack \notin none
        /\ Acked(s.entries[i]) => Acked(r.entries[i])
        /\ r.entries[i].state = "Outstanding" => r.entries[i].at > then
  BY <1>2
<1> QED
  BY <1>4, <1>5, SubFollows

\* What expiring the lapsed leases makes of a subscription: only they change.
Expires(s, r, m, n, led, then) ==
    /\ SubOK(r, m, n, led, then)
    /\ Follows(s.entries, r.entries)
    /\ \A i \in DOMAIN s.entries :
          \/ /\ r.entries[i] = s.entries[i]
             /\ s.entries[i].state = "Outstanding" => s.entries[i].at > then
          \/ /\ s.entries[i].state = "Outstanding" /\ s.entries[i].at <= then
             /\ r.entries[i].state = "Available"
    /\ (\A i \in Leased(s.entries) : s.entries[i].at > then) => r = s

\* What giving the reserved entries back makes of it.
Releases(s, r, m, n, led, now, authorized) ==
    /\ SubOK(r, m, n, led, now)
    /\ Follows(s.entries, r.entries)
    /\ \A i \in DOMAIN s.entries :
          \/ r.entries[i] = s.entries[i]
          \/ s.entries[i].state = "ForwardPending" /\ r.entries[i].state = "Available"
    /\ authorized \/ pending_forwards(s) = {} => r = s

(* Expiring the lapsed leases: only they change, and become available.      *)
LEMMA ExpireOK ==
    ASSUME NEW c \in Configurations, NEW s, NEW m, NEW n \in 1 .. MaxAcks + 1, NEW led,
           NEW now, NEW then \in Nat, SubOK(s, m, n, led, now)
    PROVE  Expires(s, expire_deadlines(c, s, then), m, n, led, then)
<1> DEFINE E == s.entries
           index == s.outstanding
           lapsed == {a \in DOMAIN index : E[index[a]].at <= then}
           hit == {index[a] : a \in lapsed}
           F == [i \in DOMAIN E |->
                   IF i \in hit THEN MadeAvailable(E[i], then + redelivery_backoff(c, E[i].attempt))
                   ELSE E[i]]
           r == expire_deadlines(c, s, then)
<1>1. /\ LogOK(E, m, n) /\ LeaseOK(E, led, now) /\ IndexOK(s) /\ OutstandingOK(E, index)
      /\ E \in Seq(Entry) /\ n \in Nat
  BY InstanceAssumption DEF SubOK, IndexOK, LogOK
<1>2. /\ r = [entries |-> r.entries, first_unacked |-> r.first_unacked,
              outstanding |-> r.outstanding]
      /\ r.entries = F /\ r.first_unacked = s.first_unacked
      /\ r.outstanding = [a \in DOMAIN index \ lapsed |-> index[a]]
  <2>1. s = [entries |-> E, first_unacked |-> s.first_unacked, outstanding |-> index]
    BY <1>1 DEF IndexOK
  <2>2. r = [entries |-> F, first_unacked |-> s.first_unacked,
             outstanding |-> [a \in DOMAIN index \ lapsed |-> index[a]]]
    <3>1. r = Unindex([s EXCEPT !.entries = F], lapsed)
      BY DEF expire_deadlines
    <3>2. [s EXCEPT !.entries = F]
            = [entries |-> F, first_unacked |-> s.first_unacked, outstanding |-> index]
      <4> HIDE DEF F
      <4> QED
        BY <2>1, SubIs
    <3>3. PICK q : q = [s EXCEPT !.entries = F]
      OBVIOUS
    <3> HIDE DEF r, F, lapsed, index
    <3>4. q = [entries |-> F, first_unacked |-> s.first_unacked, outstanding |-> index]
      BY <3>2, <3>3
    <3>5. Unindex(q, lapsed)
            = [entries |-> F, first_unacked |-> s.first_unacked,
               outstanding |-> [a \in DOMAIN index \ lapsed |-> index[a]]]
      BY <3>4 DEF Unindex
    <3> QED
      BY <3>1, <3>3, <3>5
  <2> QED
    BY <2>2
<1>3. \A i, j \in Leased(E) : E[i].ack = E[j].ack => i = j
  BY <1>1, AcksDiffer
<1>4. \A i \in DOMAIN E : i \in hit <=> E[i].state = "Outstanding" /\ E[i].at <= then
  <2> SUFFICES ASSUME NEW i \in DOMAIN E
               PROVE  i \in hit <=> E[i].state = "Outstanding" /\ E[i].at <= then
    OBVIOUS
  <2>1. ASSUME i \in hit PROVE E[i].state = "Outstanding" /\ E[i].at <= then
    BY <1>1, <2>1 DEF OutstandingOK, Leased
  <2>2. ASSUME E[i].state = "Outstanding", E[i].at <= then PROVE i \in hit
    <3>1. i \in Leased(E) /\ E[i].ack \in DOMAIN index
      BY <1>1, <2>2 DEF OutstandingOK, Leased
    <3>2. index[E[i].ack] = i
      BY <1>1, <1>3, <3>1 DEF OutstandingOK
    <3> QED
      BY <2>2, <3>1, <3>2
  <2> QED
    BY <2>1, <2>2
<1>5. \A i \in Leased(E) : E[i].ack \in lapsed <=> E[i].at <= then
  <2> SUFFICES ASSUME NEW i \in Leased(E) PROVE E[i].ack \in lapsed <=> E[i].at <= then
    OBVIOUS
  <2>1. E[i].ack \in DOMAIN index
    BY <1>1 DEF OutstandingOK
  <2>2. index[E[i].ack] = i
    BY <1>1, <1>3, <2>1 DEF OutstandingOK
  <2> QED
    BY <2>1, <2>2
<1>6. \A i \in DOMAIN E :
        /\ E[i] \in Entry /\ E[i].at \in Nat
        /\ E[i] = [msg |-> E[i].msg, state |-> E[i].state, at |-> E[i].at, ack |-> E[i].ack,
                   attempt |-> E[i].attempt]
        /\ then + redelivery_backoff(c, E[i].attempt) \in Nat
  <2> SUFFICES ASSUME NEW i \in DOMAIN E
               PROVE  /\ E[i] \in Entry /\ E[i].at \in Nat
                      /\ E[i] = [msg |-> E[i].msg, state |-> E[i].state, at |-> E[i].at,
                                 ack |-> E[i].ack, attempt |-> E[i].attempt]
                      /\ then + redelivery_backoff(c, E[i].attempt) \in Nat
    OBVIOUS
  <2>1. E[i].attempt \in Nat /\ E[i].attempt < n
    BY <1>1, EntryIs DEF LogOK
  <2>2. MaxAcks \in Nat
    BY InstanceAssumption
  <2>3. E[i].attempt \in 0 .. MaxAcks
    BY <2>1, <2>2
  <2>4. redelivery_backoff(c, E[i].attempt) \in Nat
    BY <2>3, BackoffAssumption
  <2> QED
    BY <1>1, <2>4, EntryIs
<1> HIDE DEF hit, lapsed
<1>7. \A i \in DOMAIN E :
        IF i \in hit
        THEN F[i] \in Entry /\ F[i].msg = E[i].msg /\ F[i].attempt = E[i].attempt
             /\ F[i].state = "Available"
        ELSE F[i] = E[i]
  BY <1>6 DEF MadeAvailable, Entry, States
<1>8. F \in Seq(Entry) /\ Len(F) = Len(E)
  <2>1. \A i \in DOMAIN E : F[i] \in Entry
    BY <1>6, <1>7
  <2>2. DOMAIN E = 1 .. Len(E) /\ Len(E) \in Nat
    BY <1>1
  <2>3. F = [i \in 1 .. Len(E) |-> F[i]]
    BY <2>2
  <2> HIDE DEF F
  <2> QED
    BY <2>1, <2>2, <2>3
<1> HIDE DEF F
<1>9. \A i \in DOMAIN E : F[i].attempt <= E[i].attempt
  BY <1>1, <1>7, EntryIs
<1>10. Follows(E, F)
  BY <1>7, <1>8, <1>9 DEF Follows
<1>11. \A i \in DOMAIN E :
         /\ F[i].state = "Outstanding" <=> E[i].state = "Outstanding" /\ E[i].ack \notin lapsed
         /\ Acked(E[i]) => Acked(F[i])
         /\ F[i].state = "Outstanding" => F[i].at > then
  <2> SUFFICES ASSUME NEW i \in DOMAIN E
               PROVE
         /\ F[i].state = "Outstanding" <=> E[i].state = "Outstanding" /\ E[i].ack \notin lapsed
         /\ Acked(E[i]) => Acked(F[i])
         /\ F[i].state = "Outstanding" => F[i].at > then
    OBVIOUS
  <2>1. CASE i \in hit
    BY <1>4, <1>5, <1>7, <2>1 DEF Acked, Leased
  <2>2. CASE i \notin hit
    <3>1. F[i] = E[i] /\ E[i].at \in Nat
      BY <1>6, <1>7, <2>2
    <3>2. E[i].state = "Outstanding" => ~ (E[i].at <= then)
      BY <1>4, <2>2
    <3>3. E[i].state = "Outstanding" => E[i].ack \notin lapsed /\ E[i].at > then
      BY <1>5, <3>1, <3>2 DEF Leased
    <3> QED
      BY <3>1, <3>3
  <2> QED
    BY <2>1, <2>2
<1>12. SubOK(r, m, n, led, then)
  <2> HIDE DEF r
  <2> QED
    BY <1>1, <1>2, <1>10, <1>11, SubFollows
<1>13. ASSUME \A i \in Leased(E) : E[i].at > then PROVE r = s
  <2>1. hit = {} /\ lapsed = {}
    <3>1. \A i \in Leased(E) : ~ (E[i].at <= then)
      <4>1. \A i \in Leased(E) : E[i].at \in Nat
        BY <1>6 DEF Leased
      <4> QED
        BY <1>13, <4>1
    <3>2. lapsed = {}
      BY <1>1, <3>1 DEF lapsed, OutstandingOK
    <3> QED
      BY <3>2 DEF hit
  <2>2. F = E
    BY <1>1, <2>1 DEF F
  <2>3. [a \in DOMAIN index \ lapsed |-> index[a]] = index
    BY <1>1, <2>1 DEF OutstandingOK
  <2> QED
    BY <1>1, <1>2, <2>2, <2>3 DEF IndexOK
<1>14. \A i \in DOMAIN E :
         \/ /\ F[i] = E[i]
            /\ E[i].state = "Outstanding" => E[i].at > then
         \/ /\ E[i].state = "Outstanding" /\ E[i].at <= then
            /\ F[i].state = "Available"
  BY <1>4, <1>7, <1>11
<1> HIDE DEF r
<1> QED
  <2>1. r = expire_deadlines(c, s, then)
    BY DEF r
  <2>2. Expires(s, r, m, n, led, then)
    BY <1>2, <1>10, <1>12, <1>13, <1>14 DEF Expires
  <2> QED
    BY <2>1, <2>2

(* An entry made available again, or acknowledged.                          *)
LEMMA MadeIs ==
    ASSUME NEW e \in Entry, NEW t \in Nat
    PROVE  /\ MadeAvailable(e, t) \in Entry /\ MadeAcked(e) \in Entry
           /\ MadeAvailable(e, t).state = "Available" /\ MadeAcked(e).state = "Acked"
           /\ MadeAvailable(e, t).msg = e.msg /\ MadeAcked(e).msg = e.msg
           /\ MadeAvailable(e, t).attempt = e.attempt /\ MadeAcked(e).attempt = e.attempt
BY DEF MadeAvailable, MadeAcked, Entry, States

\* Every entry of F is that of E, or that one made available again or acknowledged.
Moved(E, F) ==
    /\ F = [i \in DOMAIN E |-> F[i]]
    /\ \A i \in DOMAIN E :
          \/ F[i] = E[i]
          \/ F[i] = MadeAcked(E[i])
          \/ \E t \in Nat : F[i] = MadeAvailable(E[i], t)

(* Such a log follows the one before it.                                    *)
LEMMA MovedFollows ==
    ASSUME NEW E \in Seq(Entry), NEW F, Moved(E, F)
    PROVE  Follows(E, F)
<1>1. \A i \in DOMAIN E :
        /\ F[i] \in Entry /\ F[i].msg = E[i].msg /\ F[i].attempt = E[i].attempt
        /\ F[i].state = "Outstanding" => F[i] = E[i]
  <2> SUFFICES ASSUME NEW i \in DOMAIN E
               PROVE  /\ F[i] \in Entry /\ F[i].msg = E[i].msg /\ F[i].attempt = E[i].attempt
                      /\ F[i].state = "Outstanding" => F[i] = E[i]
    OBVIOUS
  <2>1. E[i] \in Entry
    BY EntryIs
  <2>2. CASE F[i] = E[i]
    BY <2>1, <2>2
  <2>3. CASE F[i] = MadeAcked(E[i])
    <3>1. 0 \in Nat
      OBVIOUS
    <3> QED
      BY <2>1, <2>3, <3>1, MadeIs
  <2>4. CASE \E t \in Nat : F[i] = MadeAvailable(E[i], t)
    <3>1. PICK t \in Nat : F[i] = MadeAvailable(E[i], t)
      BY <2>4
    <3>2. /\ F[i] \in Entry /\ F[i].msg = E[i].msg /\ F[i].attempt = E[i].attempt
          /\ F[i].state = "Available"
      <4>1. PICK e : e = MadeAvailable(E[i], t)
        OBVIOUS
      <4>2. /\ e \in Entry /\ e.msg = E[i].msg /\ e.attempt = E[i].attempt
            /\ e.state = "Available"
        BY <2>1, <4>1, MadeIs
      <4> QED
        BY <3>1, <4>1, <4>2
    <3> QED
      BY <3>2
  <2> QED
    BY <2>2, <2>3, <2>4 DEF Moved
<1>2. DOMAIN E = 1 .. Len(E) /\ Len(E) \in Nat
  OBVIOUS
<1>3. F = [i \in 1 .. Len(E) |-> F[i]]
  BY <1>2 DEF Moved
<1>4. F \in Seq(Entry) /\ Len(F) = Len(E)
  BY <1>1, <1>2, <1>3
<1>5. \A i \in DOMAIN E : F[i].attempt <= E[i].attempt
  BY <1>1, EntryIs
<1> QED
  BY <1>1, <1>4, <1>5 DEF Follows

(* A pull that may not forward releases the reserved entries.               *)
LEMMA ReleaseOK ==
    ASSUME NEW s, NEW m, NEW n \in Nat, NEW led, NEW now \in Nat, NEW authorized,
           SubOK(s, m, n, led, now)
    PROVE  Releases(s, release_forwards(s, authorized, now), m, n, led, now, authorized)
<1> DEFINE E == s.entries
           F == [i \in DOMAIN E |->
                   IF ~authorized /\ E[i].state = "ForwardPending"
                   THEN MadeAvailable(E[i], now) ELSE E[i]]
           r == release_forwards(s, authorized, now)
<1>1. E \in Seq(Entry) /\ IndexOK(s) /\ LeaseOK(E, led, now) /\ OutstandingOK(E, s.outstanding)
  BY DEF SubOK, LogOK, IndexOK
<1>2. r = [entries |-> F, first_unacked |-> s.first_unacked, outstanding |-> s.outstanding]
  <2>1. s = [entries |-> E, first_unacked |-> s.first_unacked, outstanding |-> s.outstanding]
    BY <1>1 DEF IndexOK
  <2>2. r = [s EXCEPT !.entries = F]
    BY DEF release_forwards
  <2> HIDE DEF F, r
  <2> QED
    BY <2>1, <2>2, SubIs
<1>3. Moved(E, F)
  BY DEF Moved
<1>4. Follows(E, F)
  <2> HIDE DEF F
  <2> QED
    BY <1>1, <1>3, MovedFollows
<1>5. \A i \in DOMAIN E :
        \/ F[i] = E[i]
        \/ E[i].state = "ForwardPending" /\ F[i].state = "Available"
  BY <1>1, EntryIs, MadeIs
<1>6. authorized \/ pending_forwards(s) = {} => F = E
  BY <1>1 DEF pending_forwards
<1> HIDE DEF F, r
<1>7. r.entries = F /\ r.first_unacked = s.first_unacked /\ r.outstanding = s.outstanding
  BY <1>2
<1>9. \A i \in DOMAIN E :
        /\ F[i].state = "Outstanding" <=> E[i].state = "Outstanding"
        /\ Acked(E[i]) => Acked(F[i])
        /\ F[i].state = "Outstanding" => F[i].at > now
  BY <1>1, <1>5 DEF Acked, LeaseOK, Leased
<1>10. SubOK(r, m, n, led, now)
  BY <1>2, <1>4, <1>7, <1>9, SubStays
<1>11. authorized \/ pending_forwards(s) = {} => r = s
  BY <1>1, <1>2, <1>6 DEF IndexOK
<1> QED
  <2>1. r = release_forwards(s, authorized, now)
    BY DEF r
  <2>2. Releases(s, r, m, n, led, now, authorized)
    BY <1>4, <1>5, <1>7, <1>10, <1>11 DEF Releases
  <2> QED
    BY <2>1, <2>2

(* Releasing the reservation of one message.                                *)
LEMMA ResumeOK ==
    ASSUME NEW s, NEW m, NEW n \in Nat, NEW led, NEW now \in Nat, NEW id,
           SubOK(s, m, n, led, now)
    PROVE  LET r == resume_forward(s, id, now)
           IN  /\ SubOK(r, m, n, led, now)
               /\ Follows(s.entries, r.entries)
               /\ \A i \in DOMAIN s.entries :
                    \/ r.entries[i] = s.entries[i]
                    \/ s.entries[i].state = "ForwardPending" /\ r.entries[i].state = "Available"
<1> DEFINE E == s.entries
           F == [i \in DOMAIN E |->
                   IF i \in pending_forwards(s) /\ E[i].msg.id = id
                   THEN MadeAvailable(E[i], now) ELSE E[i]]
           r == resume_forward(s, id, now)
<1>1. E \in Seq(Entry) /\ IndexOK(s) /\ LeaseOK(E, led, now) /\ OutstandingOK(E, s.outstanding)
  BY DEF SubOK, LogOK, IndexOK
<1>2. r = [entries |-> F, first_unacked |-> s.first_unacked, outstanding |-> s.outstanding]
  <2>1. s = [entries |-> E, first_unacked |-> s.first_unacked, outstanding |-> s.outstanding]
    BY <1>1 DEF IndexOK
  <2>2. r = [s EXCEPT !.entries = F]
    BY DEF resume_forward
  <2> HIDE DEF F, r
  <2> QED
    BY <2>1, <2>2, SubIs
<1>3. Moved(E, F)
  BY DEF Moved
<1>4. Follows(E, F)
  <2> HIDE DEF F
  <2> QED
    BY <1>1, <1>3, MovedFollows
<1>5. \A i \in DOMAIN E :
        \/ F[i] = E[i]
        \/ E[i].state = "ForwardPending" /\ F[i].state = "Available"
  BY <1>1, EntryIs, MadeIs DEF pending_forwards
<1> HIDE DEF F, r
<1>7. r.entries = F /\ r.first_unacked = s.first_unacked /\ r.outstanding = s.outstanding
  BY <1>2
<1>9. \A i \in DOMAIN E :
        /\ F[i].state = "Outstanding" <=> E[i].state = "Outstanding"
        /\ Acked(E[i]) => Acked(F[i])
        /\ F[i].state = "Outstanding" => F[i].at > now
  BY <1>1, <1>5 DEF Acked, LeaseOK, Leased
<1>10. SubOK(r, m, n, led, now)
  BY <1>2, <1>4, <1>7, <1>9, SubStays
<1> QED
  BY <1>4, <1>5, <1>7, <1>10 DEF r

(* Only the entry leased under the ack id has that ack id.                  *)
LEMMA LeaseIs ==
    ASSUME NEW s, NEW m, NEW n, NEW led, NEW now, SubOK(s, m, n, led, now),
           NEW ack \in DOMAIN s.outstanding
    PROVE  /\ s.outstanding[ack] \in DOMAIN s.entries
           /\ s.entries[s.outstanding[ack]].state = "Outstanding"
           /\ s.entries[s.outstanding[ack]].ack = ack
           /\ \A i \in Leased(s.entries) : s.entries[i].ack = ack => i = s.outstanding[ack]
<1>1. /\ LogOK(s.entries, m, n) /\ LeaseOK(s.entries, led, now)
      /\ OutstandingOK(s.entries, s.outstanding)
  BY DEF SubOK, IndexOK
<1>2. \A i, j \in Leased(s.entries) : s.entries[i].ack = s.entries[j].ack => i = j
  BY <1>1, AcksDiffer
<1> QED
  BY <1>1, <1>2 DEF OutstandingOK, Leased

(* Acknowledging closes one lease, that of the message it was handed out    *)
(* for; a stale ack id changes nothing.                                     *)
LEMMA AcknowledgeOK ==
    ASSUME NEW s, NEW m, NEW n \in Nat, NEW led, NEW now \in Nat, NEW ack,
           SubOK(s, m, n, led, now)
    PROVE  LET r == acknowledge(s, ack)
           IN  /\ SubOK(r, m, n, led, now)
               /\ Follows(s.entries, r.entries)
               /\ \A i \in DOMAIN s.entries :
                    \/ r.entries[i] = s.entries[i]
                    \/ /\ s.entries[i].state = "Outstanding" /\ s.entries[i].ack = ack
                       /\ Acked(r.entries[i])
<1>1. LogOK(s.entries, m, n) /\ LeaseOK(s.entries, led, now) /\ IndexOK(s) /\ s.entries \in Seq(Entry)
  BY DEF SubOK, LogOK
<1>2. CASE ack \notin DOMAIN s.outstanding
  <2>1. acknowledge(s, ack) = s
    BY <1>2 DEF acknowledge
  <2>2. Moved(s.entries, s.entries)
    BY <1>1 DEF Moved
  <2>3. Follows(s.entries, s.entries)
    BY <1>1, <2>2, MovedFollows
  <2> QED
    BY <2>1, <2>3
<1>3. CASE ack \in DOMAIN s.outstanding
  <2> DEFINE E == s.entries
             at == s.outstanding[ack]
             F == [E EXCEPT ![at] = MadeAcked(E[at])]
             r == acknowledge(s, ack)
             rest == [a \in DOMAIN s.outstanding \ {ack} |-> s.outstanding[a]]
  <2>1. /\ at \in DOMAIN E /\ E[at].state = "Outstanding" /\ E[at].ack = ack
        /\ \A i \in Leased(E) : E[i].ack = ack => i = at
    BY <1>3, LeaseIs
  <2>2. r = [entries |-> F, first_unacked |-> FirstUnacked(F, s.first_unacked),
             outstanding |-> rest]
    <3>1. s = [entries |-> E, first_unacked |-> s.first_unacked, outstanding |-> s.outstanding]
      BY <1>1 DEF IndexOK
    <3>2. [s EXCEPT !.entries[at] = MadeAcked(@)] = [s EXCEPT !.entries = F]
      BY <3>1
    <3>3. PICK q : q = [s EXCEPT !.entries = F]
      OBVIOUS
    <3>4. q = [entries |-> F, first_unacked |-> s.first_unacked, outstanding |-> s.outstanding]
      <4> HIDE DEF F
      <4> QED
        BY <3>1, <3>3, SubIs
    <3>5. PICK u : u = Unindex(q, {ack})
      OBVIOUS
    <3>6. u = [entries |-> F, first_unacked |-> s.first_unacked, outstanding |-> rest]
      <4> HIDE DEF F
      <4> QED
        BY <3>4, <3>5 DEF Unindex
    <3>7. advance_first_unacked(u)
            = [entries |-> F, first_unacked |-> FirstUnacked(F, s.first_unacked),
               outstanding |-> rest]
      <4> HIDE DEF F, rest
      <4> QED
        BY <3>6, SubIs
    <3>8. r = advance_first_unacked(u)
      BY <1>3, <3>2, <3>3, <3>5 DEF acknowledge
    <3> QED
      BY <3>7, <3>8
  <2>3. Moved(E, F)
    BY <1>1, <2>1 DEF Moved
  <2>4. Follows(E, F)
    <3> HIDE DEF F
    <3> QED
      BY <1>1, <2>3, MovedFollows
  <2>5. F[at].state = "Acked" /\ \A i \in DOMAIN E : i # at => F[i] = E[i]
    <3>1. E[at] \in Entry /\ 0 \in Nat
      BY <1>1, <2>1, EntryIs
    <3>2. MadeAcked(E[at]).state = "Acked"
      BY <3>1, MadeIs
    <3> QED
      BY <2>1, <3>2
  <2> HIDE DEF F, r, rest, at
  <2>6. r.entries = F /\ r.outstanding = rest
        /\ r.first_unacked = FirstUnacked(r.entries, s.first_unacked)
    BY <2>2
  <2>7. \A i \in DOMAIN E :
          /\ F[i].state = "Outstanding" <=> E[i].state = "Outstanding" /\ E[i].ack \notin {ack}
          /\ Acked(E[i]) => Acked(F[i])
          /\ F[i].state = "Outstanding" => F[i].at > now
    BY <1>1, <2>1, <2>5 DEF Acked, LeaseOK, Leased
  <2>8. SubOK(r, m, n, led, now)
    <3>1. PICK acks : acks = {ack}
      OBVIOUS
    <3>2. r.outstanding = [a \in DOMAIN s.outstanding \ acks |-> s.outstanding[a]]
      BY <2>6, <3>1 DEF rest
    <3>3. \A i \in DOMAIN E :
            /\ F[i].state = "Outstanding" <=> E[i].state = "Outstanding" /\ E[i].ack \notin acks
            /\ Acked(E[i]) => Acked(F[i])
            /\ F[i].state = "Outstanding" => F[i].at > now
      BY <2>7, <3>1
    <3> QED
      BY <2>2, <2>4, <2>6, <3>2, <3>3, SubFollows
  <2>9. \A i \in DOMAIN E :
          \/ F[i] = E[i]
          \/ E[i].state = "Outstanding" /\ E[i].ack = ack /\ Acked(F[i])
    BY <2>1, <2>5 DEF Acked
  <2> QED
    BY <2>4, <2>6, <2>8, <2>9 DEF r
<1> QED
  BY <1>2, <1>3

(* A deadline change moves one open lease, or gives it back.                *)
LEMMA ModifyOK ==
    ASSUME NEW c \in Configurations, NEW s, NEW m, NEW n \in 1 .. MaxAcks + 1, NEW led,
           NEW now \in Nat, NEW ack, NEW seconds \in Nat, SubOK(s, m, n, led, now)
    PROVE  LET r == modify_ack_deadline(c, s, ack, seconds, now)
           IN  /\ SubOK(r, m, n, led, now)
               /\ Follows(s.entries, r.entries)
               /\ \A i \in DOMAIN s.entries :
                    \/ r.entries[i] = s.entries[i]
                    \/ /\ s.entries[i].state = "Outstanding"
                       /\ r.entries[i].state \in {"Outstanding", "Available"}
<1>1. /\ LogOK(s.entries, m, n) /\ LeaseOK(s.entries, led, now) /\ IndexOK(s)
      /\ s.entries \in Seq(Entry) /\ n \in Nat /\ MaxAcks \in Nat
  BY InstanceAssumption DEF SubOK, LogOK
<1>2. CASE ack \notin DOMAIN s.outstanding
  <2>1. modify_ack_deadline(c, s, ack, seconds, now) = s
    BY <1>2 DEF modify_ack_deadline
  <2>2. Moved(s.entries, s.entries)
    BY <1>1 DEF Moved
  <2>3. Follows(s.entries, s.entries)
    BY <1>1, <2>2, MovedFollows
  <2> QED
    BY <2>1, <2>3
<1>3. CASE ack \in DOMAIN s.outstanding
  <2> DEFINE E == s.entries
             at == s.outstanding[ack]
             r == modify_ack_deadline(c, s, ack, seconds, now)
  <2>1. /\ at \in DOMAIN E /\ E[at].state = "Outstanding" /\ E[at].ack = ack
        /\ \A i \in Leased(E) : E[i].ack = ack => i = at
    BY <1>3, LeaseIs
  <2>2. s = [entries |-> E, first_unacked |-> s.first_unacked, outstanding |-> s.outstanding]
    BY <1>1 DEF IndexOK
  <2>3. CASE seconds = 0
    <3> DEFINE delay == now + redelivery_backoff(c, E[at].attempt)
               F == [E EXCEPT ![at] = MadeAvailable(E[at], delay)]
               rest == [a \in DOMAIN s.outstanding \ {ack} |-> s.outstanding[a]]
    <3>1. delay \in Nat
      <4>1. E[at].attempt \in Nat /\ E[at].attempt < n
        BY <1>1, <2>1, EntryIs DEF LogOK
      <4>2. E[at].attempt \in 0 .. MaxAcks
        BY <1>1, <4>1
      <4> QED
        BY <4>2, BackoffAssumption
    <3>2. r = [entries |-> F, first_unacked |-> s.first_unacked, outstanding |-> rest]
      <4>1. PICK q : q = [s EXCEPT !.entries[at] = MadeAvailable(@, now + redelivery_backoff(c, @.attempt))]
        OBVIOUS
      <4>2. q = [entries |-> F, first_unacked |-> s.first_unacked, outstanding |-> s.outstanding]
        BY <2>2, <4>1
      <4>3. r = Unindex(q, {ack})
        BY <1>3, <2>3, <4>1 DEF modify_ack_deadline
      <4> HIDE DEF F, r
      <4> QED
        BY <4>2, <4>3 DEF Unindex
    <3> HIDE DEF delay
    <3>3. Moved(E, F)
      BY <1>1, <2>1, <3>1 DEF Moved
    <3>4. Follows(E, F)
      <4> HIDE DEF F
      <4> QED
        BY <1>1, <3>3, MovedFollows
    <3>5. F[at].state = "Available" /\ \A i \in DOMAIN E : i # at => F[i] = E[i]
      <4>1. E[at] \in Entry
        BY <1>1, <2>1, EntryIs
      <4>2. MadeAvailable(E[at], delay).state = "Available"
        BY <3>1, <4>1, MadeIs
      <4> QED
        BY <2>1, <4>2
    <3> HIDE DEF F, r, rest, at
    <3>6. r.entries = F /\ r.outstanding = rest /\ r.first_unacked = s.first_unacked
      BY <3>2
    <3>7. PICK acks : acks = {ack}
      OBVIOUS
    <3>8. r.outstanding = [a \in DOMAIN s.outstanding \ acks |-> s.outstanding[a]]
      BY <3>6, <3>7 DEF rest
    <3>9. \A i \in DOMAIN E :
            /\ F[i].state = "Outstanding" <=> E[i].state = "Outstanding" /\ E[i].ack \notin acks
            /\ Acked(E[i]) => Acked(F[i])
            /\ F[i].state = "Outstanding" => F[i].at > now
      BY <1>1, <2>1, <3>5, <3>7 DEF Acked, LeaseOK, Leased
    <3>10. SubOK(r, m, n, led, now)
      <4>1. r = [entries |-> r.entries, first_unacked |-> r.first_unacked,
                 outstanding |-> r.outstanding]
        BY <3>2, <3>6
      <4>2. Follows(s.entries, r.entries)
        BY <3>4, <3>6
      <4>3. \A i \in DOMAIN s.entries :
              /\ r.entries[i].state = "Outstanding" <=>
                   s.entries[i].state = "Outstanding" /\ s.entries[i].ack \notin acks
              /\ Acked(s.entries[i]) => Acked(r.entries[i])
              /\ r.entries[i].state = "Outstanding" => r.entries[i].at > now
        BY <3>6, <3>9
      <4>4. r.first_unacked = s.first_unacked /\ n \in Nat
        BY <1>1, <3>6
      <4> HIDE DEF E
      <4> QED
        BY <3>8, <4>1, <4>2, <4>3, <4>4, SubFollows
    <3> QED
      BY <2>1, <3>4, <3>5, <3>6, <3>10 DEF r
  <2>4. CASE seconds # 0
    <3> DEFINE e == [E[at] EXCEPT !.at = now + seconds]
               F == [E EXCEPT ![at] = e]
    <3>1. /\ e \in Entry /\ e.msg = E[at].msg /\ e.state = "Outstanding" /\ e.ack = E[at].ack
          /\ e.attempt = E[at].attempt /\ e.at > now
      <4>1. E[at] \in Entry
        BY <1>1, <2>1, EntryIs
      <4> QED
        BY <2>1, <2>4, <4>1 DEF Entry
    <3>2. r = [entries |-> F, first_unacked |-> s.first_unacked, outstanding |-> s.outstanding]
      <4>1. r = [s EXCEPT !.entries[at].at = now + seconds]
        BY <1>3, <2>4 DEF modify_ack_deadline
      <4> HIDE DEF r
      <4> QED
        BY <2>2, <4>1
    <3> HIDE DEF e
    <3>3. F \in Seq(Entry) /\ Len(F) = Len(E)
      BY <1>1, <2>1, <3>1
    <3>4. F[at] = e /\ \A i \in DOMAIN E : i # at => F[i] = E[i]
      BY <1>1, <2>1
    <3>5. Follows(E, F)
      <4> HIDE DEF F
      <4>1. \A i \in DOMAIN E : F[i].attempt <= E[i].attempt
        BY <1>1, <3>1, <3>4, EntryIs
      <4>2. \A i \in DOMAIN E :
              /\ F[i].msg = E[i].msg
              /\ F[i].state = "Outstanding" => E[i].state = "Outstanding" /\ F[i].ack = E[i].ack
        BY <2>1, <3>1, <3>4
      <4> QED
        BY <3>3, <4>1, <4>2 DEF Follows
    <3> HIDE DEF F, r, at
    <3>6. r.entries = F /\ r.outstanding = s.outstanding /\ r.first_unacked = s.first_unacked
      BY <3>2
    <3>7. \A i \in DOMAIN E :
            /\ F[i].state = "Outstanding" <=> E[i].state = "Outstanding"
            /\ Acked(E[i]) => Acked(F[i])
            /\ F[i].state = "Outstanding" => F[i].at > now
      BY <1>1, <2>1, <3>1, <3>4 DEF Acked, LeaseOK, Leased
    <3>8. SubOK(r, m, n, led, now)
      BY <1>1, <3>2, <3>5, <3>6, <3>7, SubStays
    <3> QED
      BY <2>1, <3>1, <3>4, <3>5, <3>6, <3>8 DEF r
  <2> QED
    BY <2>3, <2>4
<1> QED
  BY <1>2, <1>3

(* The completion of a transfer acknowledges the reserved entry.            *)
LEMMA CompleteOK ==
    ASSUME NEW s, NEW m, NEW n \in Nat, NEW led, NEW now \in Nat, NEW id,
           SubOK(s, m, n, led, now)
    PROVE  LET r == complete_forward(s, id)
           IN  /\ SubOK(r, m, n, led, now)
               /\ Follows(s.entries, r.entries)
               /\ \A i \in DOMAIN s.entries :
                    \/ /\ r.entries[i] = s.entries[i]
                       /\ ~ (s.entries[i].state = "ForwardPending" /\ s.entries[i].msg.id = id)
                    \/ /\ s.entries[i].state = "ForwardPending" /\ s.entries[i].msg.id = id
                       /\ Acked(r.entries[i])
<1> DEFINE E == s.entries
           at == {i \in pending_forwards(s) : E[i].msg.id = id}
           r == complete_forward(s, id)
<1>1. LogOK(E, m, n) /\ LeaseOK(E, led, now) /\ IndexOK(s) /\ E \in Seq(Entry)
  BY DEF SubOK, LogOK
<1>2. CASE at = {}
  <2>1. r = s
    BY <1>2 DEF complete_forward
  <2>2. Moved(E, E)
    BY <1>1 DEF Moved
  <2>3. Follows(E, E)
    BY <1>1, <2>2, MovedFollows
  <2>4. \A i \in DOMAIN E : ~ (E[i].state = "ForwardPending" /\ E[i].msg.id = id)
    BY <1>2 DEF pending_forwards
  <2> QED
    BY <2>1, <2>3, <2>4
<1>3. CASE at # {}
  <2>1. PICK k : k = CHOOSE i \in at : TRUE
    OBVIOUS
  <2>2. k \in DOMAIN E /\ E[k].state = "ForwardPending" /\ E[k].msg.id = id
    BY <1>3, <2>1 DEF pending_forwards
  <2>3. \A i \in DOMAIN E : E[i].msg.id = id => i = k
    BY <1>1, <2>2 DEF LogOK
  <2> DEFINE F == [E EXCEPT ![k] = MadeAcked(E[k])]
  <2>4. r = [entries |-> F, first_unacked |-> FirstUnacked(F, s.first_unacked),
             outstanding |-> s.outstanding]
    <3>1. s = [entries |-> E, first_unacked |-> s.first_unacked, outstanding |-> s.outstanding]
      BY <1>1 DEF IndexOK
    <3>2. PICK q : q = [s EXCEPT !.entries[k] = MadeAcked(@)]
      OBVIOUS
    <3>3. q = [entries |-> F, first_unacked |-> s.first_unacked, outstanding |-> s.outstanding]
      BY <3>1, <3>2
    <3>4. r = advance_first_unacked(q)
      BY <1>3, <2>1, <3>2 DEF complete_forward
    <3> HIDE DEF F, r
    <3> QED
      BY <3>3, <3>4, SubIs
  <2>5. Moved(E, F)
    BY <1>1, <2>2 DEF Moved
  <2>6. Follows(E, F)
    <3> HIDE DEF F
    <3> QED
      BY <1>1, <2>5, MovedFollows
  <2>7. F[k].state = "Acked" /\ \A i \in DOMAIN E : i # k => F[i] = E[i]
    <3>1. E[k] \in Entry /\ 0 \in Nat
      BY <1>1, <2>2, EntryIs
    <3>2. MadeAcked(E[k]).state = "Acked"
      BY <3>1, MadeIs
    <3> QED
      BY <2>2, <3>2
  <2> HIDE DEF F, r
  <2>8. r.entries = F /\ r.outstanding = s.outstanding
        /\ r.first_unacked = FirstUnacked(r.entries, s.first_unacked)
    BY <2>4
  <2>9. \A i \in DOMAIN E :
          /\ F[i].state = "Outstanding" <=> E[i].state = "Outstanding"
          /\ Acked(E[i]) => Acked(F[i])
          /\ F[i].state = "Outstanding" => F[i].at > now
    BY <1>1, <2>2, <2>7 DEF Acked, LeaseOK, Leased
  <2>10. SubOK(r, m, n, led, now)
    BY <2>4, <2>6, <2>8, <2>9, SubStays
  <2>11. \A i \in DOMAIN E :
           \/ /\ F[i] = E[i]
              /\ ~ (E[i].state = "ForwardPending" /\ E[i].msg.id = id)
           \/ E[i].state = "ForwardPending" /\ E[i].msg.id = id /\ Acked(F[i])
    BY <2>2, <2>3, <2>7 DEF Acked
  <2> QED
    BY <2>6, <2>8, <2>10, <2>11 DEF r
<1> QED
  BY <1>2, <1>3

(* Reclaiming keeps every entry that is not acknowledged, in order.         *)
LEMMA ReclaimOK ==
    ASSUME NEW c, NEW s, NEW m, NEW n \in Nat, NEW led, NEW now \in Nat,
           SubOK(s, m, n, led, now), ReservedFirst(c, s.entries)
    PROVE  LET r == reclaim_acked_entries(s)
           IN  /\ SubOK(r, m, n, led, now)
               /\ ReservedFirst(c, r.entries)
               /\ \A i \in DOMAIN r.entries : \E j \in DOMAIN s.entries : r.entries[i] = s.entries[j]
               /\ \A j \in DOMAIN s.entries :
                    ~Acked(s.entries[j]) => \E i \in DOMAIN r.entries : r.entries[i] = s.entries[j]
<1> DEFINE E == s.entries
           live == Unacked(E)
           r == reclaim_acked_entries(s)
<1>1. LogOK(E, m, n) /\ LeaseOK(E, led, now) /\ E \in Seq(Entry)
  BY DEF SubOK, LogOK
<1>2. live \in SUBSET DOMAIN E
  BY DEF Unacked
<1>3. PICK F : F = Retain(E, live)
  OBVIOUS
<1>4. PICK p \in [1 .. Len(F) -> live] :
        /\ F \in Seq(Entry)
        /\ \A k \in 1 .. Len(F) : F[k] = E[p[k]]
        /\ \A h, k \in 1 .. Len(F) : h < k => p[h] < p[k]
        /\ \A h, k \in 1 .. Len(F) : p[h] = p[k] => h = k
        /\ \A i \in live : \E k \in 1 .. Len(F) : p[k] = i
  <2> HIDE DEF live, E
  <2> QED
    BY <1>1, <1>2, <1>3, RetainIs
<1>5. DOMAIN F = 1 .. Len(F) /\ \A k \in DOMAIN F : p[k] \in DOMAIN E /\ F[k] = E[p[k]]
  BY <1>2, <1>4
<1>6. LogOK(F, m, n)
  BY <1>1, <1>4, <1>5 DEF LogOK
<1>7. LeaseOK(F, led, now)
  BY <1>1, <1>5 DEF LeaseOK, Leased
<1>8. r = rebuild_indexes(F)
  BY <1>3 DEF reclaim_acked_entries
<1>9. SubOK(r, m, n, led, now) /\ r.entries = F
  <2> HIDE DEF r
  <2> QED
    BY <1>6, <1>7, <1>8, RebuildOK
<1>10. ReservedFirst(c, F)
  <2> SUFFICES ASSUME c.ordered, NEW j \in DOMAIN F, F[j].state = "ForwardPending", NEW i \in 1 .. j - 1,
                      F[j].msg.key # NoKey, F[i].msg.key = F[j].msg.key
               PROVE  Acked(F[i])
    BY DEF ReservedFirst
  <2>1. Len(F) \in Nat /\ i \in DOMAIN F /\ i < j /\ i \in 1 .. Len(F) /\ j \in 1 .. Len(F)
    BY <1>4, <1>5
  <2>2. p[i] < p[j] /\ p[i] \in DOMAIN E /\ p[j] \in DOMAIN E
    BY <1>4, <1>5, <2>1
  <2>3. p[i] \in 1 .. p[j] - 1
    BY <1>1, <2>2
  <2> QED
    BY <1>5, <2>1, <2>2, <2>3 DEF ReservedFirst
<1>11. \A j \in DOMAIN E : ~Acked(E[j]) => \E i \in DOMAIN F : F[i] = E[j]
  <2> SUFFICES ASSUME NEW j \in DOMAIN E, ~Acked(E[j]) PROVE \E i \in DOMAIN F : F[i] = E[j]
    OBVIOUS
  <2>1. j \in live
    BY DEF Unacked
  <2>2. PICK k \in 1 .. Len(F) : p[k] = j
    BY <1>4, <2>1
  <2> QED
    BY <1>5, <2>2
<1> HIDE DEF r
<1> QED
  BY <1>5, <1>9, <1>10, <1>11 DEF r

(* Publishing to the subscription, with the reclaim that makes room.        *)
LEMMA EnqueueOK ==
    ASSUME NEW c, NEW s, NEW m \in Nat, NEW n \in Nat, n >= 1, NEW led, NEW now \in Nat,
           NEW msg \in Message, msg.id = m + 1, SubOK(s, m, n, led, now), ReservedFirst(c, s.entries)
    PROVE  LET r == enqueue(c, s, msg, now)
           IN  /\ SubOK(r, m + 1, n, led, now)
               /\ ReservedFirst(c, r.entries)
               /\ \A i \in DOMAIN r.entries :
                    \/ r.entries[i].msg = msg
                    \/ \E j \in DOMAIN s.entries : r.entries[i] = s.entries[j]
               /\ \A j \in DOMAIN s.entries :
                    ~Acked(s.entries[j]) => \E i \in DOMAIN r.entries : r.entries[i] = s.entries[j]
<1>1. PICK q : q = IF Len(s.entries) >= c.retain /\ AckedCount(s) > 0
                   THEN reclaim_acked_entries(s) ELSE s
  OBVIOUS
<1>2. /\ SubOK(q, m, n, led, now) /\ ReservedFirst(c, q.entries)
      /\ \A i \in DOMAIN q.entries : \E j \in DOMAIN s.entries : q.entries[i] = s.entries[j]
      /\ \A j \in DOMAIN s.entries :
           ~Acked(s.entries[j]) => \E i \in DOMAIN q.entries : q.entries[i] = s.entries[j]
  <2>1. CASE q = reclaim_acked_entries(s)
    BY <2>1, ReclaimOK
  <2>2. CASE q = s
    BY <2>2
  <2> QED
    BY <1>1, <2>1, <2>2
<1>3. PICK F : F = Append(q.entries, Available(msg, now, 0))
  OBVIOUS
<1>4. PICK r : r = [entries |-> F, first_unacked |-> q.first_unacked,
                    outstanding |-> q.outstanding]
  OBVIOUS
<1>10. /\ SubOK(r, m + 1, n, led, now) /\ ReservedFirst(c, r.entries)
       /\ Len(r.entries) = Len(q.entries) + 1
       /\ r.entries[Len(r.entries)].msg = msg
       /\ \A i \in DOMAIN q.entries : r.entries[i] = q.entries[i]
  <2> DEFINE E == q.entries
             e == Available(msg, now, 0)
  <2>1. /\ LogOK(E, m, n) /\ LeaseOK(E, led, now) /\ IndexOK(q) /\ E \in Seq(Entry)
        /\ OutstandingOK(E, q.outstanding) /\ CursorOK(E, q.first_unacked)
    BY <1>2 DEF SubOK, LogOK, IndexOK
  <2>2. /\ e \in Entry /\ e.msg = msg /\ e.state = "Available" /\ e.attempt = 0
    BY DEF Available, Entry, States
  <2>3. F = Append(E, e)
    BY <1>3
  <2> HIDE DEF e
  <2>4. /\ F \in Seq(Entry) /\ Len(F) = Len(E) + 1 /\ F[Len(E) + 1] = e
        /\ \A i \in DOMAIN E : F[i] = E[i]
        /\ DOMAIN E = 1 .. Len(E) /\ DOMAIN F = 1 .. Len(E) + 1 /\ Len(E) \in Nat
    BY <2>1, <2>2, <2>3
  <2>5. \A i \in DOMAIN F : i \in DOMAIN E \/ i = Len(E) + 1
    BY <2>4
  <2>6. LogOK(F, m + 1, n)
    <3>1. \A i \in DOMAIN E : E[i].msg.id \in Nat /\ E[i].msg.id <= m
      BY <2>1, EntryIs DEF LogOK
    <3>2. \A i \in DOMAIN F : F[i].msg.id <= m + 1 /\ F[i].attempt < n
      BY <2>1, <2>2, <2>4, <2>5, <3>1 DEF LogOK
    <3>3. \A i, j \in DOMAIN F : F[i].msg.id = F[j].msg.id => i = j
      <4> SUFFICES ASSUME NEW i \in DOMAIN F, NEW j \in DOMAIN F, F[i].msg.id = F[j].msg.id
                   PROVE  i = j
        OBVIOUS
      <4>1. \A k \in DOMAIN E : F[k].msg.id # m + 1
        BY <2>4, <3>1
      <4>2. F[Len(E) + 1].msg.id = m + 1
        BY <2>2, <2>4
      <4>3. CASE i \in DOMAIN E /\ j \in DOMAIN E
        BY <2>1, <2>4, <4>3 DEF LogOK
      <4>4. CASE i = Len(E) + 1 \/ j = Len(E) + 1
        BY <2>5, <4>1, <4>2, <4>4
      <4> QED
        BY <2>5, <4>3, <4>4
    <3> QED
      BY <2>4, <3>2, <3>3 DEF LogOK
  <2>7. Leased(F) = Leased(E)
    BY <2>2, <2>4, <2>5 DEF Leased
  <2>8. \A i \in Leased(E) : F[i] = E[i]
    BY <2>4 DEF Leased
  <2>9. LeaseOK(F, led, now) /\ OutstandingOK(F, q.outstanding)
    <3>1. {F[i].ack : i \in Leased(F)} = {E[i].ack : i \in Leased(E)}
      BY <2>7, <2>8
    <3>2. OutstandingOK(F, q.outstanding)
      BY <2>1, <2>7, <2>8, <3>1 DEF OutstandingOK
    <3> QED
      BY <2>1, <2>7, <2>8, <3>2 DEF LeaseOK
  <2>10. CursorOK(F, q.first_unacked)
    <3>1. q.first_unacked \in 1 .. Len(E) + 1
      BY <2>1 DEF CursorOK
    <3>2. q.first_unacked \in 1 .. Len(F) + 1
      BY <2>4, <3>1
    <3>3. \A i \in 1 .. q.first_unacked - 1 : i \in DOMAIN E
      BY <2>4, <3>1
    <3>4. \A i \in 1 .. q.first_unacked - 1 : Acked(F[i])
      BY <2>1, <2>4, <3>3 DEF CursorOK
    <3> QED
      BY <3>2, <3>4 DEF CursorOK
  <2>11. ReservedFirst(c, F)
    <3> SUFFICES ASSUME c.ordered, NEW j \in DOMAIN F, F[j].state = "ForwardPending", NEW i \in 1 .. j - 1,
                        F[j].msg.key # NoKey, F[i].msg.key = F[j].msg.key
                 PROVE  Acked(F[i])
      BY DEF ReservedFirst
    <3>1. j \in DOMAIN E /\ i \in DOMAIN E
      BY <2>2, <2>4, <2>5
    <3> QED
      BY <1>2, <2>4, <3>1 DEF ReservedFirst
  <2>12. r.entries = F /\ r.first_unacked = q.first_unacked /\ r.outstanding = q.outstanding
    BY <1>4
  <2>13. SubOK(r, m + 1, n, led, now)
    BY <1>4, <2>6, <2>9, <2>10, <2>12 DEF SubOK, IndexOK
  <2> QED
    BY <2>2, <2>4, <2>11, <2>12, <2>13
<1>5. r = enqueue(c, s, msg, now)
  <2>1. q = [entries |-> q.entries, first_unacked |-> q.first_unacked,
             outstanding |-> q.outstanding]
    BY <1>2 DEF SubOK, IndexOK
  <2>2. r = [q EXCEPT !.entries = F]
    BY <1>4, <2>1, SubIs
  <2> QED
    BY <1>1, <1>3, <2>2 DEF enqueue
<1>6. /\ r.entries \in Seq(Entry) /\ q.entries \in Seq(Entry)
  BY <1>2, <1>10 DEF SubOK, LogOK
<1>7. /\ DOMAIN q.entries \subseteq DOMAIN r.entries
      /\ \A i \in DOMAIN r.entries : i \in DOMAIN q.entries \/ i = Len(r.entries)
  BY <1>10, <1>6
<1>8. \A i \in DOMAIN r.entries :
        \/ r.entries[i].msg = msg
        \/ \E j \in DOMAIN s.entries : r.entries[i] = s.entries[j]
  BY <1>2, <1>10, <1>7
<1>9. \A j \in DOMAIN s.entries :
        ~Acked(s.entries[j]) => \E i \in DOMAIN r.entries : r.entries[i] = s.entries[j]
  BY <1>2, <1>10, <1>7
<1> QED
  BY <1>10, <1>5, <1>8, <1>9

-----------------------------------------------------------------------------
(* The pull.                                                                *)

(* Ranks: the positions of a set are numbered from zero, in order.          *)
LEMMA RankIs ==
    ASSUME NEW N \in Nat, NEW S \in SUBSET (1 .. N)
    PROVE  /\ Cardinality(S) \in Nat
           /\ \A i : Before(S, i) \in Nat
           /\ \A i \in S : Before(S, i) < Cardinality(S)
           /\ \A i, j \in S : i < j => Before(S, i) < Before(S, j)
           /\ \A i, j \in S : Before(S, i) = Before(S, j) => i = j
           /\ \A k \in 0 .. Cardinality(S) - 1 : \E i \in S : Before(S, i) = k
<1> DEFINE C == Cardinality(S)
           B(i) == {j \in S : j < i}
<1>1. IsFiniteSet(S) /\ C \in Nat
  BY PositionsAreFinite
<1>2. ASSUME NEW i PROVE IsFiniteSet(B(i)) /\ Before(S, i) \in Nat /\ Before(S, i) = Cardinality(B(i))
  <2>1. B(i) \in SUBSET S
    OBVIOUS
  <2>2. IsFiniteSet(B(i)) /\ Cardinality(B(i)) \in Nat
    <3> HIDE DEF B
    <3> QED
      BY <1>1, <2>1, FS_Subset, FS_CardinalityType
  <2> QED
    BY <2>2 DEF Before
<1>3. ASSUME NEW i \in S PROVE Before(S, i) < C
  <2>1. B(i) \in SUBSET S /\ B(i) # S
    OBVIOUS
  <2>2. Cardinality(B(i)) <= Cardinality(S) /\ (Cardinality(S) = Cardinality(B(i)) => B(i) = S)
    <3>1. PICK T : T = B(i)
      OBVIOUS
    <3> QED
      BY <1>1, <2>1, <3>1, FS_Subset
  <2> QED
    BY <1>1, <1>2, <2>1, <2>2
<1>4. ASSUME NEW i \in S, NEW j \in S, i < j PROVE Before(S, i) < Before(S, j)
  <2>1. B(i) \in SUBSET B(j) /\ B(i) # B(j)
    <3>1. i \in B(j) /\ i \notin B(i)
      BY <1>4
    <3>2. ASSUME NEW k \in S, k < i PROVE k < j
      BY <1>4, <3>2
    <3> QED
      BY <3>1, <3>2
  <2>2. Before(S, i) <= Before(S, j) /\ Before(S, i) # Before(S, j)
    <3>1. PICK T, U : T = B(i) /\ U = B(j)
      OBVIOUS
    <3>2. IsFiniteSet(U) /\ T \in SUBSET U /\ T # U
      BY <1>2, <2>1, <3>1
    <3>3. Cardinality(T) <= Cardinality(U) /\ (Cardinality(U) = Cardinality(T) => T = U)
      BY <3>2, FS_Subset
    <3> QED
      BY <1>2, <3>1, <3>2, <3>3
  <2>3. Before(S, i) \in Nat /\ Before(S, j) \in Nat
    BY <1>2
  <2> QED
    BY <2>2, <2>3
<1>5. ASSUME NEW i \in S, NEW j \in S, Before(S, i) = Before(S, j) PROVE i = j
  <2>1. Before(S, i) \in Nat /\ Before(S, j) \in Nat
    BY <1>2
  <2>2. ~ (i < j) /\ ~ (j < i)
    BY <1>4, <1>5, <2>1
  <2> QED
    BY <2>2
<1>6. ASSUME NEW k \in 0 .. C - 1 PROVE \E i \in S : Before(S, i) = k
  <2> DEFINE f == [i \in S |-> Before(S, i)]
  <2>1. f \in [S -> 0 .. C - 1]
    <3>1. ASSUME NEW i \in S PROVE Before(S, i) \in 0 .. C - 1
      <4>1. Before(S, i) \in Nat /\ Before(S, i) < C
        BY <1>2, <1>3
      <4> QED
        BY <1>1, <4>1
    <3> QED
      BY <3>1
  <2>2. f \in Injection(S, 0 .. C - 1)
    BY <1>5, <2>1 DEF Injection, IsInjective
  <2>3. IsFiniteSet(0 .. C - 1) /\ Cardinality(0 .. C - 1) = C
    <3>1. C - 1 \in Int /\ 0 \in Int /\ 0 <= C - 1
      BY <1>1, <1>6
    <3>2. IsFiniteSet(0 .. C - 1) /\ Cardinality(0 .. C - 1) = (C - 1) - 0 + 1
      <4> HIDE DEF C
      <4> QED
        BY <1>1, <1>6, <3>1, FS_Interval
    <3> QED
      BY <1>1, <3>2
  <2>4. f \in Surjection(S, 0 .. C - 1)
    <3> HIDE DEF f
    <3> QED
      BY <1>1, <2>2, <2>3, FS_Injection
  <2> QED
    BY <2>4 DEF Surjection
<1> QED
  BY <1>1, <1>2, <1>3, <1>4, <1>5, <1>6

(* What a pull reaches of a key: every unacknowledged predecessor goes out  *)
(* with it, for the first time.                                             *)
LEMMA ReachedIs ==
    ASSUME NEW c, NEW s, NEW now, NEW authorized, IndexOK(s), s.entries \in Seq(Entry),
           NEW i \in Reached(c, s, now, authorized), c.ordered, Key(s, i) # NoKey,
           NEW j \in 1 .. i - 1, Key(s, j) = Key(s, i), ~Acked(s.entries[j])
    PROVE  /\ j \in Selectable(c, s, now, authorized)
           /\ j \in Predecessors(c, s, i, now, authorized)
           /\ ~ c.push /\ s.entries[j].attempt = 0
<1> DEFINE E == s.entries
<1>1. /\ i \in Considered(c, s, now, authorized)
      /\ \A h \in Predecessors(c, s, i, now, authorized) : ~HoldsSuccessors(c, s, h, now, authorized)
  BY DEF Reached
<1>2. i \in Positions(s) /\ ~ unkeyed_only(c, s, now, authorized)
  BY <1>1 DEF Considered
<1>3. /\ s.first_unacked \in 1 .. Len(E) + 1 /\ Len(E) \in Nat
      /\ \A h \in 1 .. s.first_unacked - 1 : Acked(E[h])
  BY DEF IndexOK, CursorOK
<1>4. i \in 1 .. Len(E) /\ i >= s.first_unacked
  BY <1>2, <1>3 DEF Positions
<1>5. j \in 1 .. Len(E) /\ j < i /\ j >= s.first_unacked
  <2>1. j \in 1 .. Len(E) /\ j < i
    BY <1>3, <1>4
  <2>2. j \notin 1 .. s.first_unacked - 1
    BY <1>3
  <2> QED
    BY <1>3, <2>1, <2>2
<1>6. j \in Considered(c, s, now, authorized)
  BY <1>2, <1>3, <1>5 DEF Considered, Positions
<1>7. j \in Predecessors(c, s, i, now, authorized)
  BY <1>5, <1>6 DEF Predecessors, Keyed
<1>8. ~HoldsSuccessors(c, s, j, now, authorized)
  BY <1>1, <1>7
<1>9. Deliverable(E[j], now) /\ ~Exhausted(c, authorized, E[j]) /\ ~c.push /\ ~ (E[j].attempt > 0)
  BY <1>8 DEF HoldsSuccessors
<1>10. E[j].attempt = 0
  BY <1>5, <1>9, EntryIs
<1>11. ASSUME NEW h \in Predecessors(c, s, j, now, authorized)
       PROVE  h \in Predecessors(c, s, i, now, authorized)
  <2>1. h \in Considered(c, s, now, authorized) /\ h < j /\ Key(s, h) = Key(s, j)
    BY <1>11 DEF Predecessors
  <2>2. h \in Nat
    BY <1>3, <2>1 DEF Considered, Positions
  <2>3. h < i
    BY <1>4, <1>5, <2>1, <2>2
  <2> QED
    BY <2>1, <2>3 DEF Predecessors, Keyed
<1>12. j \in Reached(c, s, now, authorized)
  BY <1>1, <1>6, <1>11 DEF Reached
<1>13. j \in Selectable(c, s, now, authorized)
  BY <1>9, <1>12 DEF Selectable
<1> QED
  BY <1>7, <1>9, <1>10, <1>13

(* The entries that a pull takes and those it reserves are deliverable, and *)
(* none is both.                                                            *)
LEMMA SelectionIs ==
    ASSUME NEW c, NEW s, NEW now, NEW authorized, NEW max, IndexOK(s), s.entries \in Seq(Entry)
    PROVE  /\ selected(c, s, now, authorized, max) \in SUBSET DOMAIN s.entries
           /\ forwarded(c, s, now, authorized, max) \in SUBSET DOMAIN s.entries
           /\ selected(c, s, now, authorized, max) \in SUBSET (1 .. Len(s.entries))
           /\ \A i \in selected(c, s, now, authorized, max) :
                 s.entries[i].state = "Available" /\ i \notin forwarded(c, s, now, authorized, max)
           /\ \A i \in forwarded(c, s, now, authorized, max) : s.entries[i].state = "Available"
<1>1. s.first_unacked \in 1 .. Len(s.entries) + 1 /\ Len(s.entries) \in Nat
      /\ DOMAIN s.entries = 1 .. Len(s.entries)
  BY DEF IndexOK, CursorOK
<1>2. Positions(s) \in SUBSET DOMAIN s.entries
  BY <1>1 DEF Positions
<1>3. Reached(c, s, now, authorized) \in SUBSET DOMAIN s.entries
  BY <1>2 DEF Reached, Considered
<1>4. Selectable(c, s, now, authorized) \in SUBSET DOMAIN s.entries
  BY <1>3 DEF Selectable
<1>5. \A i \in Selectable(c, s, now, authorized) :
        s.entries[i].state = "Available" /\ ~Exhausted(c, authorized, s.entries[i])
  BY DEF Selectable, Deliverable
<1>6. \A i \in forwarded(c, s, now, authorized, max) :
        /\ i \in Reached(c, s, now, authorized)
        /\ s.entries[i].state = "Available" /\ Exhausted(c, authorized, s.entries[i])
  BY DEF forwarded, Deliverable
<1>7. \A i \in selected(c, s, now, authorized, max) : i \in Selectable(c, s, now, authorized)
  BY DEF selected
<1> QED
  BY <1>1, <1>3, <1>4, <1>5, <1>6, <1>7

(* A keyed entry is reserved only as the first of its key that waits.       *)
LEMMA ForwardedAreFirst ==
    ASSUME NEW c, NEW s, NEW now, NEW authorized, NEW max, IndexOK(s), s.entries \in Seq(Entry),
           c.ordered, NEW i \in forwarded(c, s, now, authorized, max), Key(s, i) # NoKey,
           NEW j \in 1 .. i - 1, Key(s, j) = Key(s, i)
    PROVE  Acked(s.entries[j])
<1> SUFFICES ASSUME ~Acked(s.entries[j]) PROVE FALSE
  OBVIOUS
<1>1. /\ i \in Reached(c, s, now, authorized)
      /\ Predecessors(c, s, i, now, authorized) \cap Selectable(c, s, now, authorized) = {}
  BY DEF forwarded
<1>2. /\ j \in Selectable(c, s, now, authorized)
      /\ j \in Predecessors(c, s, i, now, authorized)
  BY <1>1, ReachedIs
<1> QED
  BY <1>1, <1>2

(* A keyed entry is taken before an unacknowledged one of its key only with *)
(* that one, when neither was delivered before and nobody is pushed to.     *)
LEMMA SelectedInOrder ==
    ASSUME NEW c, NEW s, NEW now, NEW authorized, NEW max \in Nat, IndexOK(s),
           s.entries \in Seq(Entry),
           c.ordered, NEW i \in selected(c, s, now, authorized, max), Key(s, i) # NoKey,
           NEW j \in 1 .. i - 1, Key(s, j) = Key(s, i), ~Acked(s.entries[j])
    PROVE  /\ j \in selected(c, s, now, authorized, max)
           /\ s.entries[j].attempt = 0 /\ ~ c.push
<1> DEFINE able == Selectable(c, s, now, authorized)
<1>1. i \in able /\ Before(able, i) < max
  BY DEF selected
<1>2. i \in Reached(c, s, now, authorized)
  BY <1>1 DEF Selectable
<1>3. j \in able /\ s.entries[j].attempt = 0 /\ ~ c.push
  BY <1>2, ReachedIs
<1>4. able \in SUBSET (1 .. Len(s.entries)) /\ Len(s.entries) \in Nat
  <2>1. s.first_unacked \in 1 .. Len(s.entries) + 1 /\ Len(s.entries) \in Nat
    BY DEF IndexOK, CursorOK
  <2> QED
    BY <2>1 DEF Selectable, Reached, Considered, Positions
<1>5. Before(able, j) < Before(able, i) /\ Before(able, j) \in Nat /\ Before(able, i) \in Nat
  <2>1. j < i
    BY <1>1, <1>4
  <2> HIDE DEF able
  <2> QED
    BY <1>1, <1>3, <1>4, <2>1, RankIs
<1>6. Before(able, j) < max
  BY <1>1, <1>5
<1> QED
  BY <1>3, <1>6 DEF selected

\* The pull response hands out the selected messages under the next ack ids.
HandedOut(led, n, next, after) ==
    [a \in DOMAIN led \cup (n .. next - 1) |->
        IF a \in DOMAIN led THEN led[a] ELSE after.entries[after.outstanding[a]].msg.id]

\* What a pull makes of the state s that it selects from.
PullTo(c, s, m, n, led, now, authorized, max, k, after) ==
    LET take == selected(c, s, now, authorized, max)
        out  == forwarded(c, s, now, authorized, max)
    IN  /\ SubOK(after, m, n + k, HandedOut(led, n, n + k, after), now)
        /\ k \in Nat /\ DOMAIN HandedOut(led, n, n + k, after) = 1 .. n + k - 1
        /\ Len(after.entries) = Len(s.entries)
        /\ \A i \in DOMAIN s.entries :
             /\ after.entries[i].msg = s.entries[i].msg
             /\ i \in take => /\ after.entries[i].state = "Outstanding" /\ after.entries[i].ack >= n
                              /\ after.entries[i].attempt = s.entries[i].attempt + 1
             /\ i \in out => after.entries[i].state = "ForwardPending"
             /\ i \in take \/ i \in out \/ after.entries[i] = s.entries[i]

(* A pull leases the selected entries under ack ids nobody has seen and     *)
(* reserves the exhausted ones; the other entries stay.                     *)
LEMMA PullOK ==
    ASSUME NEW c, NEW s, NEW m, NEW n \in Nat, n >= 1, NEW led, DOMAIN led = 1 .. n - 1,
           NEW now \in Nat, NEW authorized, NEW max, SubOK(s, m, n, led, now),
           NEW k, k = Cardinality(selected(c, s, now, authorized, max)),
           NEW after, after = pull_commit(c, s, now, authorized, max, n)
    PROVE  PullTo(c, s, m, n, led, now, authorized, max, k, after)
<1> DEFINE E == s.entries
           take == selected(c, s, now, authorized, max)
           out == forwarded(c, s, now, authorized, max)
           ackOf(i) == n + Before(take, i)
           leases == [a \in {ackOf(i) : i \in take} |-> CHOOSE i \in take : ackOf(i) = a]
           F == [i \in DOMAIN E |->
                   IF i \in take
                   THEN [E[i] EXCEPT !.state = "Outstanding", !.ack = ackOf(i),
                                     !.at = now + AckDeadline, !.attempt = @ + 1]
                   ELSE IF i \in out
                   THEN [E[i] EXCEPT !.state = "ForwardPending", !.at = 0] ELSE E[i]]
           index == [a \in DOMAIN s.outstanding \cup DOMAIN leases |->
                       IF a \in DOMAIN leases THEN leases[a] ELSE s.outstanding[a]]
           led2 == HandedOut(led, n, n + k, after)
<1>1. /\ LogOK(E, m, n) /\ LeaseOK(E, led, now) /\ IndexOK(s) /\ E \in Seq(Entry)
      /\ OutstandingOK(E, s.outstanding) /\ CursorOK(E, s.first_unacked)
      /\ DOMAIN E = 1 .. Len(E) /\ Len(E) \in Nat
  BY DEF SubOK, LogOK, IndexOK
<1>2. /\ take \in SUBSET DOMAIN E /\ out \in SUBSET DOMAIN E /\ take \in SUBSET (1 .. Len(E))
      /\ \A i \in take : E[i].state = "Available" /\ i \notin out
      /\ \A i \in out : E[i].state = "Available"
  BY <1>1, SelectionIs
<1>3. after = [entries |-> F, first_unacked |-> FirstUnacked(F, s.first_unacked),
               outstanding |-> index]
  <2>1. s = [entries |-> E, first_unacked |-> s.first_unacked, outstanding |-> s.outstanding]
    BY <1>1 DEF IndexOK
  <2>2. PICK q : q = [s EXCEPT !.entries = F, !.outstanding = index]
    OBVIOUS
  <2>3. after = advance_first_unacked(q)
    BY <2>2 DEF pull_commit
  <2>4. q = [entries |-> F, first_unacked |-> s.first_unacked, outstanding |-> index]
    <3> HIDE DEF F, index
    <3> QED
      BY <2>1, <2>2
  <2> HIDE DEF F, index
  <2> QED
    BY <2>3, <2>4, SubIs
<1>4. /\ k \in Nat
      /\ \A i \in take : ackOf(i) \in n .. n + k - 1
      /\ \A i, j \in take : ackOf(i) = ackOf(j) => i = j
      /\ \A a \in n .. n + k - 1 : \E i \in take : ackOf(i) = a
  <2>1. PICK T : T = take
    OBVIOUS
  <2>2. T \in SUBSET (1 .. Len(E)) /\ k = Cardinality(T)
    BY <1>2, <2>1
  <2>3. /\ k \in Nat
        /\ \A i : Before(T, i) \in Nat
        /\ \A i \in T : Before(T, i) < k
        /\ \A i, j \in T : Before(T, i) = Before(T, j) => i = j
        /\ \A h \in 0 .. k - 1 : \E i \in T : Before(T, i) = h
    <3>1. PICK N \in Nat : N = Len(E)
      BY <1>1
    <3>2. T \in SUBSET (1 .. N)
      BY <2>2, <3>1
    <3>3. /\ Cardinality(T) \in Nat
          /\ \A i : Before(T, i) \in Nat
          /\ \A i \in T : Before(T, i) < Cardinality(T)
          /\ \A i, j \in T : Before(T, i) = Before(T, j) => i = j
          /\ \A h \in 0 .. Cardinality(T) - 1 : \E i \in T : Before(T, i) = h
      BY <3>2, RankIs
    <3> QED
      BY <2>2, <3>3
  <2>4. \A i \in T : n + Before(T, i) \in n .. n + k - 1
    BY <2>3
  <2>5. \A i, j \in T : n + Before(T, i) = n + Before(T, j) => i = j
    BY <2>3
  <2>6. ASSUME NEW a \in n .. n + k - 1 PROVE \E i \in T : n + Before(T, i) = a
    <3>1. a - n \in 0 .. k - 1
      BY <2>3
    <3>2. PICK i \in T : Before(T, i) = a - n
      BY <2>3, <3>1
    <3> QED
      BY <3>2
  <2> HIDE DEF take
  <2> QED
    BY <2>1, <2>3, <2>4, <2>5, <2>6
<1> HIDE DEF ackOf, take, out
<1>5. /\ DOMAIN leases = n .. n + k - 1
      /\ \A i \in take : leases[ackOf(i)] = i
      /\ \A a \in n .. n + k - 1 : leases[a] \in take /\ ackOf(leases[a]) = a
  BY <1>4
<1>6. \A i \in take :
        /\ F[i] \in Entry /\ F[i].msg = E[i].msg /\ F[i].state = "Outstanding"
        /\ F[i].ack = ackOf(i) /\ F[i].at > now /\ F[i].attempt = E[i].attempt + 1
  <2> SUFFICES ASSUME NEW i \in take
               PROVE  /\ F[i] \in Entry /\ F[i].msg = E[i].msg /\ F[i].state = "Outstanding"
                      /\ F[i].ack = ackOf(i) /\ F[i].at > now
                      /\ F[i].attempt = E[i].attempt + 1
    OBVIOUS
  <2>1. i \in DOMAIN E /\ E[i] \in Entry /\ ackOf(i) \in Nat
    BY <1>1, <1>2, <1>4, EntryIs
  <2>2. now + AckDeadline \in Nat /\ now + AckDeadline > now
    BY DeadlineAssumption
  <2>3. F[i] = [E[i] EXCEPT !.state = "Outstanding", !.ack = ackOf(i),
                            !.at = now + AckDeadline, !.attempt = @ + 1]
    BY <2>1
  <2>4. PICK e : e = E[i]
    OBVIOUS
  <2>5. e \in Entry /\ e.attempt + 1 \in Nat
    BY <2>1, <2>4 DEF Entry
  <2>6. F[i] = [msg |-> e.msg, state |-> "Outstanding", at |-> now + AckDeadline,
                ack |-> ackOf(i), attempt |-> e.attempt + 1]
    BY <2>3, <2>4, <2>5 DEF Entry
  <2> HIDE DEF F
  <2>7. F[i] \in Entry
    BY <2>1, <2>2, <2>5, <2>6 DEF Entry, States
  <2> QED
    BY <2>2, <2>4, <2>6, <2>7
<1>7. \A i \in out :
        /\ F[i] \in Entry /\ F[i].msg = E[i].msg /\ F[i].state = "ForwardPending"
        /\ F[i].attempt = E[i].attempt
  <2> SUFFICES ASSUME NEW i \in out
               PROVE  /\ F[i] \in Entry /\ F[i].msg = E[i].msg /\ F[i].state = "ForwardPending"
                      /\ F[i].attempt = E[i].attempt
    OBVIOUS
  <2>1. i \in DOMAIN E /\ E[i] \in Entry /\ i \notin take
    BY <1>1, <1>2, EntryIs
  <2>2. F[i] = [E[i] EXCEPT !.state = "ForwardPending", !.at = 0]
    BY <2>1
  <2>3. PICK e : e = E[i]
    OBVIOUS
  <2>4. F[i] = [msg |-> e.msg, state |-> "ForwardPending", at |-> 0, ack |-> e.ack,
                attempt |-> e.attempt]
    BY <2>1, <2>2, <2>3 DEF Entry
  <2> HIDE DEF F
  <2>5. F[i] \in Entry
    BY <2>1, <2>3, <2>4 DEF Entry, States
  <2> QED
    BY <2>3, <2>4, <2>5
<1>8. \A i \in DOMAIN E : i \notin take /\ i \notin out => F[i] = E[i]
  OBVIOUS
<1>9. F = [i \in 1 .. Len(E) |-> F[i]]
  BY <1>1
<1> HIDE DEF F
<1>10. \A i \in DOMAIN E : F[i] \in Entry /\ F[i].msg = E[i].msg
  BY <1>1, <1>6, <1>7, <1>8, EntryIs
<1>11. F \in Seq(Entry) /\ Len(F) = Len(E) /\ DOMAIN F = DOMAIN E
  BY <1>1, <1>9, <1>10
<1>12. LogOK(F, m, n + k)
  <2>1. ASSUME NEW i \in DOMAIN E PROVE F[i].attempt < n + k
    <3>1. E[i].attempt \in Nat /\ E[i].attempt < n
      BY <1>1, EntryIs DEF LogOK
    <3>2. CASE i \in take
      <4>1. k >= 1
        BY <1>4, <3>2
      <4> QED
        BY <1>4, <1>6, <3>1, <3>2, <4>1
    <3>3. CASE i \notin take
      BY <1>4, <1>7, <1>8, <3>1, <3>3
    <3> QED
      BY <3>2, <3>3
  <2> QED
    BY <1>1, <1>10, <1>11, <2>1 DEF LogOK
<1>13. Leased(F) = take \cup Leased(E) /\ \A i \in Leased(E) : F[i] = E[i] /\ i \notin take
  BY <1>2, <1>6, <1>7, <1>8, <1>11 DEF Leased
<1>14. \A i \in Leased(E) : E[i].ack \in 1 .. n - 1 /\ led[E[i].ack] = E[i].msg.id /\ E[i].at > now
  BY <1>1 DEF LeaseOK
<1>15. OutstandingOK(F, index)
  <2>1. DOMAIN index = {E[i].ack : i \in Leased(E)} \cup n .. n + k - 1
    BY <1>1, <1>5 DEF OutstandingOK
  <2>2. {F[i].ack : i \in Leased(F)} = {E[i].ack : i \in Leased(E)} \cup n .. n + k - 1
    <3>1. \A i \in take : F[i].ack \in n .. n + k - 1
      BY <1>4, <1>6
    <3>2. \A a \in n .. n + k - 1 : \E i \in take : F[i].ack = a
      BY <1>4, <1>6
    <3>3. \A i \in Leased(E) : F[i].ack = E[i].ack
      BY <1>13
    <3> QED
      BY <1>13, <3>1, <3>2, <3>3
  <2>3. ASSUME NEW a \in DOMAIN index PROVE index[a] \in Leased(F) /\ F[index[a]].ack = a
    <3>1. CASE a \in n .. n + k - 1
      BY <1>5, <1>6, <1>13, <3>1
    <3>2. CASE a \notin n .. n + k - 1
      <4>1. index[a] = s.outstanding[a] /\ a \in DOMAIN s.outstanding
        BY <1>5, <2>1, <3>2
      <4>2. s.outstanding[a] \in Leased(E) /\ E[s.outstanding[a]].ack = a
        BY <1>1, <4>1 DEF OutstandingOK
      <4> QED
        BY <1>13, <4>1, <4>2
    <3> QED
      BY <3>1, <3>2
  <2>4. index = [a \in DOMAIN index |-> index[a]]
    OBVIOUS
  <2> HIDE DEF index
  <2> QED
    BY <2>1, <2>2, <2>3, <2>4 DEF OutstandingOK
<1>16. \A i \in take : index[ackOf(i)] = i
  BY <1>4, <1>5
<1> HIDE DEF index
<1>17. after.entries = F /\ after.outstanding = index
       /\ after.first_unacked = FirstUnacked(F, s.first_unacked)
  BY <1>3
<1>18. /\ DOMAIN led2 = 1 .. n + k - 1
       /\ \A a \in 1 .. n - 1 : led2[a] = led[a]
       /\ \A a \in n .. n + k - 1 : led2[a] = F[index[a]].msg.id
  BY <1>4, <1>17 DEF HandedOut
<1>19. LeaseOK(F, led2, now)
  <2> SUFFICES ASSUME NEW i \in Leased(F)
               PROVE  F[i].ack \in DOMAIN led2 /\ led2[F[i].ack] = F[i].msg.id /\ F[i].at > now
    BY DEF LeaseOK
  <2> HIDE DEF led2
  <2>1. CASE i \in take
    <3>1. F[i].ack = ackOf(i) /\ ackOf(i) \in n .. n + k - 1 /\ F[i].at > now
      BY <1>4, <1>6, <2>1
    <3>2. led2[ackOf(i)] = F[i].msg.id
      <4>1. index[ackOf(i)] = i
        BY <1>16, <2>1
      <4>2. led2[ackOf(i)] = F[index[ackOf(i)]].msg.id
        BY <1>18, <3>1
      <4> QED
        BY <4>1, <4>2
    <3>3. ackOf(i) \in DOMAIN led2
      BY <1>4, <1>18, <3>1
    <3> QED
      BY <3>1, <3>2, <3>3
  <2>2. CASE i \in Leased(E)
    <3>1. F[i] = E[i] /\ E[i].ack \in 1 .. n - 1
      BY <1>13, <1>14, <2>2
    <3>2. E[i].ack \in DOMAIN led2 /\ led2[E[i].ack] = led[E[i].ack]
      BY <1>4, <1>18, <3>1
    <3> QED
      BY <1>14, <2>2, <3>1, <3>2
  <2> QED
    BY <1>13, <2>1, <2>2
<1>20. CursorOK(F, after.first_unacked)
  <2>1. \A i \in DOMAIN E : Acked(E[i]) => F[i] = E[i]
    BY <1>2, <1>8 DEF Acked
  <2>2. s.first_unacked \in 1 .. Len(E) + 1
    BY <1>1 DEF CursorOK
  <2>3. \A i \in 1 .. s.first_unacked - 1 : i \in DOMAIN E /\ Acked(E[i])
    BY <1>1, <2>2 DEF CursorOK
  <2>4. CursorOK(F, s.first_unacked)
    BY <1>11, <2>1, <2>2, <2>3 DEF CursorOK
  <2> QED
    BY <1>11, <1>17, <2>4, FirstUnackedIs
<1>21. SubOK(after, m, n + k, led2, now)
  <2> HIDE DEF led2
  <2>1. after = [entries |-> after.entries, first_unacked |-> after.first_unacked,
                 outstanding |-> after.outstanding]
    BY <1>3, <1>17
  <2>2. IndexOK(after)
    BY <1>15, <1>17, <1>20, <2>1 DEF IndexOK
  <2> QED
    BY <1>12, <1>17, <1>19, <2>2 DEF SubOK
<1>22. ASSUME NEW i \in DOMAIN E
       PROVE  /\ F[i].msg = E[i].msg
              /\ i \in take => /\ F[i].state = "Outstanding" /\ F[i].ack >= n
                               /\ F[i].attempt = E[i].attempt + 1
              /\ i \in out => F[i].state = "ForwardPending"
              /\ i \in take \/ i \in out \/ F[i] = E[i]
  <2>1. i \in take => F[i].ack >= n
    BY <1>4, <1>6
  <2> QED
    BY <1>6, <1>7, <1>8, <1>10, <2>1
<1> QED
  BY <1>4, <1>11, <1>17, <1>18, <1>21, <1>22 DEF take, out, PullTo

-----------------------------------------------------------------------------
(* The seeks.                                                               *)

\* A snapshot holds the messages of a log, all different, and which of them wait.
SnapOK(snap, m) ==
    /\ snap = [created |-> snap.created, retained |-> snap.retained, unacked |-> snap.unacked,
               messages |-> snap.messages]
    /\ snap.messages \in Seq(Message)
    /\ \A i \in DOMAIN snap.messages : snap.messages[i].id <= m
    /\ \A i, j \in DOMAIN snap.messages : snap.messages[i].id = snap.messages[j].id => i = j
    /\ snap.retained = {snap.messages[i].id : i \in DOMAIN snap.messages}
    /\ snap.unacked \subseteq snap.retained

\* The messages of a log, all different.
DistinctIds(E, m) ==
    /\ \A i \in DOMAIN E : E[i].msg.id <= m
    /\ \A i, j \in DOMAIN E : E[i].msg.id = E[j].msg.id => i = j

(* A message made available as if it was never delivered.                   *)
LEMMA AvailableIs ==
    ASSUME NEW msg \in Message, NEW now \in Nat
    PROVE  /\ Available(msg, now, 0) \in Entry /\ Available(msg, now, 0).msg = msg
           /\ Available(msg, now, 0).state = "Available" /\ Available(msg, now, 0).attempt = 0
BY DEF Available, Entry, States

(* A log that a seek rewrote: every entry acknowledged, or as good as new.  *)
LEMMA SeekOK ==
    ASSUME NEW E \in Seq(Entry), NEW F, NEW m, NEW n \in Nat, n >= 1, NEW led, NEW now \in Nat,
           DistinctIds(E, m), F = [i \in DOMAIN E |-> F[i]],
           \A i \in DOMAIN E : \/ F[i] = MadeAcked(E[i]) /\ E[i].attempt < n
                               \/ F[i] = Available(E[i].msg, now, 0)
    PROVE  /\ SubOK(rebuild_indexes(F), m, n, led, now)
           /\ rebuild_indexes(F).entries = F
           /\ DOMAIN F = DOMAIN E
           /\ \A i \in DOMAIN E : F[i].msg = E[i].msg /\ F[i].state \in {"Acked", "Available"}
<1>1. \A i \in DOMAIN E : /\ F[i] \in Entry /\ F[i].msg = E[i].msg /\ F[i].attempt < n
                          /\ F[i].state \in {"Acked", "Available"}
  <2> SUFFICES ASSUME NEW i \in DOMAIN E
               PROVE  /\ F[i] \in Entry /\ F[i].msg = E[i].msg /\ F[i].attempt < n
                      /\ F[i].state \in {"Acked", "Available"}
    OBVIOUS
  <2>1. E[i] \in Entry /\ E[i].msg \in Message
    BY EntryIs
  <2>2. CASE F[i] = MadeAcked(E[i]) /\ E[i].attempt < n
    BY <2>1, <2>2, MadeIs
  <2>3. CASE F[i] = Available(E[i].msg, now, 0)
    BY <2>1, <2>3, AvailableIs
  <2> QED
    BY <2>2, <2>3
<1>2. DOMAIN E = 1 .. Len(E) /\ Len(E) \in Nat
  OBVIOUS
<1>3. F = [i \in 1 .. Len(E) |-> F[i]]
  BY <1>2
<1>4. F \in Seq(Entry) /\ DOMAIN F = DOMAIN E
  BY <1>1, <1>2, <1>3
<1>5. LogOK(F, m, n)
  BY <1>1, <1>4 DEF LogOK, DistinctIds
<1>6. LeaseOK(F, led, now)
  BY <1>1, <1>4 DEF LeaseOK, Leased
<1> QED
  BY <1>1, <1>4, <1>5, <1>6, RebuildOK

(* A log without a reserved entry.                                          *)
LEMMA NoneReserved ==
    ASSUME NEW c, NEW F, \A i \in DOMAIN F : F[i].state \in {"Acked", "Available"}
    PROVE  ReservedFirst(c, F)
BY DEF ReservedFirst

(* A seek to a time.                                                        *)
LEMMA SeekToTimeOK ==
    ASSUME NEW c, NEW s, NEW m, NEW n \in Nat, n >= 1, NEW led, NEW now \in Nat, NEW time,
           SubOK(s, m, n, led, now)
    PROVE  LET r == seek_to_time(s, time, now)
           IN  SubOK(r, m, n, led, now) /\ ReservedFirst(c, r.entries)
<1> DEFINE E == s.entries
           F == [i \in DOMAIN E |-> IF E[i].msg.time < time THEN MadeAcked(E[i])
                                    ELSE Available(E[i].msg, now, 0)]
           r == seek_to_time(s, time, now)
<1>1. E \in Seq(Entry) /\ DistinctIds(E, m) /\ \A i \in DOMAIN E : E[i].attempt < n
  BY DEF SubOK, LogOK, DistinctIds
<1>2. r = rebuild_indexes(F)
  BY DEF seek_to_time
<1>3. F = [i \in DOMAIN E |-> F[i]]
  OBVIOUS
<1>4. \A i \in DOMAIN E : \/ F[i] = MadeAcked(E[i]) /\ E[i].attempt < n
                          \/ F[i] = Available(E[i].msg, now, 0)
  BY <1>1
<1> HIDE DEF E, F, r
<1>5. /\ SubOK(r, m, n, led, now) /\ r.entries = F /\ DOMAIN F = DOMAIN E
      /\ \A i \in DOMAIN E : F[i].state \in {"Acked", "Available"}
  BY <1>1, <1>2, <1>3, <1>4, SeekOK
<1>6. ReservedFirst(c, F)
  BY <1>5, NoneReserved
<1> QED
  BY <1>5, <1>6 DEF r

(* Inserting a sequence into another.                                       *)
LEMMA SpliceIs ==
    ASSUME NEW K \in Seq(Entry), NEW B \in Seq(Entry), NEW at \in 1 .. Len(K) + 1
    PROVE  \E all : /\ all = SubSeq(K, 1, at - 1) \o B \o SubSeq(K, at, Len(K))
                    /\ all \in Seq(Entry) /\ Len(all) = Len(K) + Len(B)
                    /\ \A i \in 1 .. at - 1 : all[i] = K[i]
                    /\ \A i \in at .. at + Len(B) - 1 : all[i] = B[i - at + 1]
                    /\ \A i \in at + Len(B) .. Len(all) : all[i] = K[i - Len(B)]
<1> DEFINE A == SubSeq(K, 1, at - 1)
           C == SubSeq(K, at, Len(K))
<1>a. PICK all : all = A \o B \o C
  OBVIOUS
<1>1. Len(K) \in Nat /\ Len(B) \in Nat /\ at \in Nat /\ at >= 1
  OBVIOUS
<1>2. A \in Seq(Entry) /\ Len(A) = at - 1 /\ \A i \in 1 .. at - 1 : A[i] = K[i]
  BY <1>1
<1>3. C \in Seq(Entry) /\ Len(C) = Len(K) + 1 - at /\ \A i \in 1 .. Len(C) : C[i] = K[at + i - 1]
  BY <1>1
<1> HIDE DEF A, C
<1>8. PICK D : D = A \o B
  OBVIOUS
<1>9. /\ D \in Seq(Entry) /\ Len(D) = at - 1 + Len(B)
      /\ \A i \in 1 .. at - 1 : D[i] = A[i]
      /\ \A i \in at .. Len(D) : D[i] = B[i - at + 1]
  <2>1. D \in Seq(Entry) /\ Len(D) = Len(A) + Len(B)
    BY <1>2, <1>8, ConcatProperties
  <2>2. \A i \in 1 .. Len(A) + Len(B) : D[i] = IF i <= Len(A) THEN A[i] ELSE B[i - Len(A)]
    BY <1>2, <1>8, ConcatProperties
  <2>3. \A i \in at .. Len(D) : i - Len(A) = i - at + 1 /\ ~ (i <= Len(A))
    BY <1>1, <1>2
  <2> QED
    BY <1>1, <1>2, <2>1, <2>2, <2>3
<1>10. /\ all \in Seq(Entry) /\ Len(all) = Len(D) + Len(C)
       /\ \A i \in 1 .. Len(D) : all[i] = D[i]
       /\ \A i \in Len(D) + 1 .. Len(all) : all[i] = C[i - Len(D)]
  <2>1. all = D \o C
    BY <1>a, <1>8
  <2>2. all \in Seq(Entry) /\ Len(all) = Len(D) + Len(C)
    BY <1>3, <1>9, <2>1, ConcatProperties
  <2>3. \A i \in 1 .. Len(D) + Len(C) : all[i] = IF i <= Len(D) THEN D[i] ELSE C[i - Len(D)]
    BY <1>3, <1>9, <2>1, ConcatProperties
  <2>4. Len(D) \in Nat /\ Len(C) \in Nat
    BY <1>3, <1>9
  <2> QED
    BY <2>2, <2>3, <2>4
<1>4. all \in Seq(Entry) /\ Len(all) = Len(K) + Len(B)
  BY <1>1, <1>3, <1>9, <1>10
<1>5. ASSUME NEW i \in 1 .. at - 1 PROVE all[i] = K[i]
  <2>1. i \in 1 .. Len(D)
    BY <1>1, <1>9
  <2> QED
    BY <1>2, <1>9, <1>10, <2>1
<1>6. \A i \in at .. at + Len(B) - 1 : all[i] = B[i - at + 1]
  BY <1>1, <1>9, <1>10
<1>7. \A i \in at + Len(B) .. Len(all) : all[i] = K[i - Len(B)]
  <2> SUFFICES ASSUME NEW i \in at + Len(B) .. Len(all) PROVE all[i] = K[i - Len(B)]
    OBVIOUS
  <2>1. i \in Len(D) + 1 .. Len(all) /\ i - Len(D) \in 1 .. Len(C)
    BY <1>1, <1>3, <1>4, <1>9
  <2>2. at + (i - Len(D)) - 1 = i - Len(B)
    BY <1>1, <1>4, <1>9
  <2> QED
    BY <1>3, <1>10, <2>1, <2>2
<1> QED
  BY <1>a, <1>4, <1>5, <1>6, <1>7 DEF A, C

(* The messages that a seek to a snapshot has to restore: those of the      *)
(* snapshot that the log no longer holds, each once.                        *)
LEMMA MissingIs ==
    ASSUME NEW s, NEW snap, NEW m, SnapOK(snap, m)
    PROVE  LET M == missing_messages(s, snap)
           IN  /\ M \in Seq(Message)
               /\ \A i \in DOMAIN M : M[i].id <= m /\ M[i].id \notin Ids(s.entries)
               /\ \A i, j \in DOMAIN M : M[i].id = M[j].id => i = j
               /\ \A id \in snap.retained \ Ids(s.entries) : \E i \in DOMAIN M : M[i].id = id
<1>a. PICK log : log = snap.messages
  OBVIOUS
<1>b. PICK S : S = {i \in DOMAIN log : log[i].id \in snap.retained /\ log[i].id \notin Ids(s.entries)}
  OBVIOUS
<1>1. log \in Seq(Message) /\ S \in SUBSET DOMAIN log
  BY <1>a, <1>b DEF SnapOK
<1>2. PICK M : M = missing_messages(s, snap)
  OBVIOUS
<1>3. M = Retain(log, S)
  BY <1>a, <1>b, <1>2 DEF missing_messages
<1>4. PICK p \in [1 .. Len(M) -> S] :
        /\ M \in Seq(Message)
        /\ \A k \in 1 .. Len(M) : M[k] = log[p[k]]
        /\ \A h, k \in 1 .. Len(M) : h < k => p[h] < p[k]
        /\ \A h, k \in 1 .. Len(M) : p[h] = p[k] => h = k
        /\ \A i \in S : \E k \in 1 .. Len(M) : p[k] = i
  BY <1>1, <1>3, RetainIs
<1>5. DOMAIN M = 1 .. Len(M) /\ \A k \in DOMAIN M : p[k] \in S /\ M[k] = log[p[k]]
  BY <1>4
<1>6. \A k \in DOMAIN M : M[k].id <= m /\ M[k].id \notin Ids(s.entries)
  BY <1>a, <1>b, <1>5 DEF SnapOK
<1>7. \A h, k \in DOMAIN M : M[h].id = M[k].id => h = k
  BY <1>a, <1>b, <1>4, <1>5 DEF SnapOK
<1>8. ASSUME NEW id \in snap.retained, id \notin Ids(s.entries) PROVE \E i \in DOMAIN M : M[i].id = id
  <2>1. PICK i \in DOMAIN log : log[i].id = id
    BY <1>a, <1>8 DEF SnapOK
  <2>2. i \in S
    BY <1>b, <1>8, <2>1
  <2>3. PICK k \in 1 .. Len(M) : p[k] = i
    BY <1>4, <2>2
  <2> QED
    BY <1>5, <2>1, <2>3
<1> QED
  BY <1>2, <1>4, <1>6, <1>7, <1>8

(* Where they are inserted.                                                 *)
LEMMA InsertionIs ==
    ASSUME NEW K \in Seq(Entry), NEW snap
    PROVE  insertion_index(K, snap) \in 1 .. Len(K) + 1
<1> DEFINE after == {i \in DOMAIN K : Later(snap, K[i].msg)}
<1>1. DOMAIN K = 1 .. Len(K) /\ Len(K) \in Nat
  OBVIOUS
<1>2. CASE after = {}
  BY <1>1, <1>2 DEF insertion_index
<1>3. CASE after # {}
  <2>1. after \in SUBSET Nat
    BY <1>1
  <2>2. PICK h \in after : \A k \in after : h <= k
    <3> HIDE DEF after
    <3> QED
      BY <1>3, <2>1, LeastPosition
  <2>3. insertion_index(K, snap) \in after
    BY <1>3, <2>2 DEF insertion_index
  <2> QED
    BY <1>1, <2>3
<1> QED
  BY <1>2, <1>3

\* The log holds the message as if it was never delivered.
RestoredIn(F, id) ==
    \E i \in DOMAIN F : F[i].msg.id = id /\ F[i].state = "Available" /\ F[i].attempt = 0

(* A seek to a snapshot keeps the messages different, and where no entry is *)
(* reclaimed restores the whole backlog of the snapshot.                    *)
LEMMA SeekToSnapshotOK ==
    ASSUME NEW c, NEW s, NEW m, NEW n \in Nat, n >= 1, NEW led, NEW now \in Nat, NEW snap,
           SubOK(s, m, n, led, now), ReservedFirst(c, s.entries), SnapOK(snap, m)
    PROVE  LET r == seek_to_snapshot(c, s, snap, now)
           IN  /\ SubOK(r, m, n, led, now) /\ ReservedFirst(c, r.entries)
               /\ ~must_reclaim(c, s, snap) => \A id \in snap.unacked : RestoredIn(r.entries, id)
<1> DEFINE E == s.entries
           r == seek_to_snapshot(c, s, snap, now)
<1>1. LogOK(E, m, n) /\ E \in Seq(Entry)
  BY DEF SubOK, LogOK
<1>2. PICK K : K = IF must_reclaim(c, s, snap) THEN reclaim_acked_entries(s).entries ELSE E
  OBVIOUS
<1>3. /\ LogOK(K, m, n) /\ \A i \in DOMAIN K : \E j \in DOMAIN E : K[i] = E[j]
      /\ ~must_reclaim(c, s, snap) => K = E
  <2>1. CASE must_reclaim(c, s, snap)
    <3>1. /\ SubOK(reclaim_acked_entries(s), m, n, led, now)
          /\ \A i \in DOMAIN reclaim_acked_entries(s).entries :
               \E j \in DOMAIN E : reclaim_acked_entries(s).entries[i] = E[j]
      BY ReclaimOK
    <3> QED
      BY <1>2, <2>1, <3>1 DEF SubOK
  <2>2. CASE ~must_reclaim(c, s, snap)
    BY <1>1, <1>2, <2>2
  <2> QED
    BY <2>1, <2>2
<1>4. K \in Seq(Entry) /\ DOMAIN K = 1 .. Len(K) /\ Len(K) \in Nat
  BY <1>3 DEF LogOK
<1>5. PICK M : M = missing_messages(s, snap)
  OBVIOUS
<1>6. /\ M \in Seq(Message)
      /\ \A i \in DOMAIN M : M[i].id <= m /\ M[i].id \notin Ids(E)
      /\ \A i, j \in DOMAIN M : M[i].id = M[j].id => i = j
      /\ \A id \in snap.retained \ Ids(E) : \E i \in DOMAIN M : M[i].id = id
  BY <1>5, MissingIs
<1>7. PICK B : B = [i \in DOMAIN M |-> Available(M[i], now, 0)]
  OBVIOUS
<1>8. /\ B \in Seq(Entry) /\ Len(B) = Len(M) /\ DOMAIN B = DOMAIN M
      /\ DOMAIN B = 1 .. Len(B) /\ Len(B) \in Nat
      /\ \A i \in DOMAIN B : B[i].msg = M[i] /\ B[i].attempt = 0
  <2>1. \A i \in DOMAIN M : M[i] \in Message
    BY <1>6
  <2>2. \A i \in DOMAIN M : /\ B[i] \in Entry /\ B[i].msg = M[i] /\ B[i].attempt = 0
    BY <1>7, <2>1, AvailableIs
  <2>3. DOMAIN M = 1 .. Len(M) /\ Len(M) \in Nat
    BY <1>6
  <2>4. B = [i \in 1 .. Len(M) |-> B[i]]
    BY <1>7, <2>3
  <2> QED
    BY <2>2, <2>3, <2>4
<1>9. PICK at \in 1 .. Len(K) + 1 : at = insertion_index(K, snap)
  BY <1>4, InsertionIs
<1>10. PICK all : /\ all = SubSeq(K, 1, at - 1) \o B \o SubSeq(K, at, Len(K))
                  /\ all \in Seq(Entry) /\ Len(all) = Len(K) + Len(B)
                  /\ \A i \in 1 .. at - 1 : all[i] = K[i]
                  /\ \A i \in at .. at + Len(B) - 1 : all[i] = B[i - at + 1]
                  /\ \A i \in at + Len(B) .. Len(all) : all[i] = K[i - Len(B)]
  <2>1. K \in Seq(Entry) /\ B \in Seq(Entry) /\ at \in 1 .. Len(K) + 1
    BY <1>4, <1>8, <1>9
  <2> QED
    BY <2>1, SpliceIs
<1>11. /\ all \in Seq(Entry) /\ Len(all) = Len(K) + Len(B)
       /\ \A i \in 1 .. at - 1 : all[i] = K[i]
       /\ \A i \in at .. at + Len(B) - 1 : all[i] = B[i - at + 1]
       /\ \A i \in at + Len(B) .. Len(all) : all[i] = K[i - Len(B)]
  BY <1>10
<1> DEFINE F == [i \in DOMAIN all |-> IF Replayed(snap, all[i].msg)
                                      THEN Available(all[i].msg, now, 0) ELSE MadeAcked(all[i])]
<1>12. r = rebuild_indexes(F)
  BY <1>2, <1>5, <1>7, <1>9, <1>10 DEF seek_to_snapshot
\* Every entry comes from the kept log or from the snapshot, by its position.
<1>13. DOMAIN all = 1 .. Len(all) /\ at \in Nat /\ at >= 1 /\ at <= Len(K) + 1
  BY <1>4, <1>11
<1>14. \A i \in DOMAIN all :
         \/ i < at /\ i \in DOMAIN K /\ all[i] = K[i]
         \/ i >= at /\ i - at + 1 \in DOMAIN B /\ all[i] = B[i - at + 1]
         \/ i >= at + Len(B) /\ i - Len(B) \in DOMAIN K /\ all[i] = K[i - Len(B)]
  <2> SUFFICES ASSUME NEW i \in 1 .. Len(all)
               PROVE  \/ i < at /\ i \in DOMAIN K /\ all[i] = K[i]
                      \/ i >= at /\ i - at + 1 \in DOMAIN B /\ all[i] = B[i - at + 1]
                      \/ i >= at + Len(B) /\ i - Len(B) \in DOMAIN K /\ all[i] = K[i - Len(B)]
    BY <1>13
  <2>1. CASE i < at
    <3>1. i \in 1 .. at - 1 /\ i \in 1 .. Len(K)
      BY <1>4, <1>13, <2>1
    <3> QED
      BY <1>4, <1>11, <2>1, <3>1
  <2>2. CASE i >= at /\ i < at + Len(B)
    <3>1. i \in at .. at + Len(B) - 1 /\ i - at + 1 \in 1 .. Len(B)
      BY <1>8, <1>13, <2>2
    <3> QED
      BY <1>8, <1>11, <2>2, <3>1
  <2>3. CASE i >= at + Len(B)
    <3>1. i \in at + Len(B) .. Len(all) /\ i - Len(B) \in 1 .. Len(K)
      BY <1>4, <1>8, <1>11, <1>13, <2>3
    <3> QED
      BY <1>4, <1>11, <2>3, <3>1
  <2> QED
    BY <1>8, <1>13, <2>1, <2>2, <2>3
<1>15. /\ \A i \in DOMAIN K : K[i].msg.id \in Ids(E) /\ K[i].msg.id <= m /\ K[i].attempt < n
       /\ \A i, j \in DOMAIN K : K[i].msg.id = K[j].msg.id => i = j
  BY <1>3 DEF LogOK, Ids
<1>16. /\ \A i \in DOMAIN B : B[i].msg.id \notin Ids(E) /\ B[i].msg.id <= m /\ B[i].attempt < n
       /\ \A i, j \in DOMAIN B : B[i].msg.id = B[j].msg.id => i = j
  BY <1>6, <1>8
<1>17. DistinctIds(all, m) /\ \A i \in DOMAIN all : all[i].attempt < n
  <2>1. \A i \in DOMAIN all : all[i].msg.id <= m /\ all[i].attempt < n
    BY <1>14, <1>15, <1>16
  <2>2. ASSUME NEW i \in DOMAIN all, NEW j \in DOMAIN all, all[i].msg.id = all[j].msg.id
        PROVE  i = j
    <3>1. CASE i >= at /\ i - at + 1 \in DOMAIN B /\ all[i] = B[i - at + 1]
      <4>1. all[j].msg.id \notin Ids(E)
        BY <1>16, <2>2, <3>1
      <4>2. j >= at /\ j - at + 1 \in DOMAIN B /\ all[j] = B[j - at + 1]
        BY <1>14, <1>15, <4>1
      <4>3. i - at + 1 = j - at + 1
        BY <1>16, <2>2, <3>1, <4>2
      <4> QED
        BY <1>13, <4>3
    <3>2. CASE i < at /\ i \in DOMAIN K /\ all[i] = K[i]
      <4>1. all[j].msg.id \in Ids(E)
        BY <1>15, <2>2, <3>2
      <4>2. \/ j < at /\ j \in DOMAIN K /\ all[j] = K[j]
            \/ j >= at + Len(B) /\ j - Len(B) \in DOMAIN K /\ all[j] = K[j - Len(B)]
        BY <1>14, <1>16, <4>1
      <4>3. CASE j < at /\ j \in DOMAIN K /\ all[j] = K[j]
        BY <1>15, <2>2, <3>2, <4>3
      <4>4. CASE j >= at + Len(B) /\ j - Len(B) \in DOMAIN K /\ all[j] = K[j - Len(B)]
        <5>1. i = j - Len(B)
          BY <1>15, <2>2, <3>2, <4>4
        <5> QED
          BY <1>8, <1>13, <3>2, <4>4, <5>1
      <4> QED
        BY <4>2, <4>3, <4>4
    <3>3. CASE i >= at + Len(B) /\ i - Len(B) \in DOMAIN K /\ all[i] = K[i - Len(B)]
      <4>1. all[j].msg.id \in Ids(E)
        BY <1>15, <2>2, <3>3
      <4>2. \/ j < at /\ j \in DOMAIN K /\ all[j] = K[j]
            \/ j >= at + Len(B) /\ j - Len(B) \in DOMAIN K /\ all[j] = K[j - Len(B)]
        BY <1>14, <1>16, <4>1
      <4>3. CASE j < at /\ j \in DOMAIN K /\ all[j] = K[j]
        <5>1. j = i - Len(B)
          BY <1>15, <2>2, <3>3, <4>3
        <5> QED
          BY <1>8, <1>13, <3>3, <4>3, <5>1
      <4>4. CASE j >= at + Len(B) /\ j - Len(B) \in DOMAIN K /\ all[j] = K[j - Len(B)]
        <5>1. i - Len(B) = j - Len(B)
          BY <1>15, <2>2, <3>3, <4>4
        <5> QED
          BY <1>8, <1>13, <5>1
      <4> QED
        BY <4>2, <4>3, <4>4
    <3> QED
      BY <1>14, <3>1, <3>2, <3>3
  <2> QED
    BY <2>1, <2>2 DEF DistinctIds
<1>18. /\ F = [i \in DOMAIN all |-> F[i]]
       /\ \A i \in DOMAIN all : \/ F[i] = MadeAcked(all[i]) /\ all[i].attempt < n
                                \/ F[i] = Available(all[i].msg, now, 0)
  BY <1>17
<1>19. \A i \in DOMAIN all : all[i].msg.id \in snap.unacked => F[i] = Available(all[i].msg, now, 0)
  BY DEF Replayed
<1> HIDE DEF F, r
<1>20. /\ SubOK(r, m, n, led, now) /\ r.entries = F /\ DOMAIN F = DOMAIN all
       /\ \A i \in DOMAIN all : F[i].msg = all[i].msg /\ F[i].state \in {"Acked", "Available"}
  BY <1>11, <1>12, <1>17, <1>18, SeekOK
<1>21. ReservedFirst(c, F)
  BY <1>20, NoneReserved
<1>22. ASSUME ~must_reclaim(c, s, snap), NEW id \in snap.unacked
       PROVE  RestoredIn(F, id)
  <2>1. \E i \in DOMAIN all : all[i].msg.id = id
    <3>1. CASE id \in Ids(E)
      <4>1. PICK j \in DOMAIN K : K[j].msg.id = id
        BY <1>3, <1>22, <3>1 DEF Ids
      <4>2. CASE j < at
        <5>1. j \in 1 .. at - 1 /\ j \in DOMAIN all
          BY <1>4, <1>8, <1>11, <1>13, <4>1, <4>2
        <5> QED
          BY <1>11, <4>1, <5>1
      <4>3. CASE j >= at
        <5>1. j + Len(B) \in at + Len(B) .. Len(all) /\ (j + Len(B)) - Len(B) = j
          BY <1>4, <1>8, <1>11, <1>13, <4>1, <4>3
        <5>2. j + Len(B) \in DOMAIN all
          BY <1>8, <1>13, <5>1
        <5>3. all[j + Len(B)] = K[j]
          BY <1>11, <5>1
        <5> QED
          BY <4>1, <5>2, <5>3
      <4> QED
        BY <1>4, <1>13, <4>1, <4>2, <4>3
    <3>2. CASE id \notin Ids(E)
      <4>1. PICK j \in DOMAIN M : M[j].id = id
        BY <1>6, <1>22, <3>2 DEF SnapOK
      <4>2. j \in DOMAIN B /\ B[j].msg.id = id /\ j \in 1 .. Len(B)
        BY <1>8, <4>1
      <4>3. at + j - 1 \in at .. at + Len(B) - 1 /\ (at + j - 1) - at + 1 = j
        BY <1>8, <1>13, <4>2
      <4>4. at + j - 1 \in DOMAIN all /\ all[at + j - 1] = B[j]
        BY <1>4, <1>8, <1>11, <1>13, <4>3
      <4> QED
        BY <4>2, <4>4
    <3> QED
      BY <3>1, <3>2
  <2>2. PICK i \in DOMAIN all : all[i].msg.id = id
    BY <2>1
  <2>3. F[i] = Available(all[i].msg, now, 0) /\ all[i].msg \in Message
    BY <1>11, <1>19, <2>2, EntryIs
  <2>4. F[i].state = "Available" /\ F[i].attempt = 0 /\ F[i].msg = all[i].msg
    BY <2>3, AvailableIs
  <2> QED
    BY <1>20, <2>2, <2>4 DEF RestoredIn
<1> QED
  BY <1>20, <1>21, <1>22 DEF r

-----------------------------------------------------------------------------
(* The inductive invariant.                                                 *)

\* What TransferredIsDone says, of a log, the admitted messages and the gate.
DoneOK(E, done, g) ==
    /\ g.phase = "complete" =>
         \E i \in DOMAIN E : E[i].state = "ForwardPending" /\ E[i].msg.id = Head(g.queue)
    /\ \A i \in DOMAIN E : E[i].msg.id \in done /\ ~Acked(E[i]) =>
         g.phase = "complete" /\ Head(g.queue) = E[i].msg.id

PubSubInv ==
    /\ config \in Configurations
    /\ clock \in 0 .. MaxClock
    /\ message_counter \in 0 .. MaxMessages
    /\ next_ack \in 1 .. MaxAcks + 1
    /\ DOMAIN leased = 1 .. next_ack - 1
    /\ seeks \in Nat
    /\ SubOK(sub, message_counter, next_ack, leased, clock)
    /\ ReservedFirst(config, sub.entries)
    /\ snapshot = NoSnapshot \/ SnapOK(snapshot, message_counter)
    /\ gate = [queue |-> gate.queue, phase |-> gate.phase]
    /\ transferred \subseteq 1 .. message_counter
    /\ DoneOK(sub.entries, transferred, gate)

\* F differs from E only in entries that were not acknowledged, and reserves none.
Quiet(E, F) ==
    /\ Follows(E, F)
    /\ \A i \in DOMAIN E : F[i] = E[i] \/ (~Acked(E[i]) /\ F[i].state # "ForwardPending")

(* Such a step keeps reserved entries first.                                *)
LEMMA QuietReserved ==
    ASSUME NEW c, NEW E \in Seq(Entry), NEW F, Quiet(E, F), ReservedFirst(c, E)
    PROVE  ReservedFirst(c, F)
<1>1. F \in Seq(Entry) /\ DOMAIN F = DOMAIN E /\ DOMAIN E = 1 .. Len(E) /\ Len(E) \in Nat
  BY DEF Quiet, Follows
<1> SUFFICES ASSUME c.ordered, NEW j \in DOMAIN F, F[j].state = "ForwardPending",
                    NEW i \in 1 .. j - 1, F[j].msg.key # NoKey, F[i].msg.key = F[j].msg.key
             PROVE  Acked(F[i])
  BY DEF ReservedFirst
<1>2. F[j] = E[j] /\ j \in DOMAIN E /\ i \in DOMAIN E
  BY <1>1 DEF Quiet
<1>3. E[i].msg = F[i].msg
  BY <1>2 DEF Quiet, Follows
<1>4. Acked(E[i])
  BY <1>2, <1>3 DEF ReservedFirst
<1> QED
  BY <1>2, <1>4 DEF Quiet

(* It keeps the promise about transferred messages, while the gate either   *)
(* owes no completion or stays as it is and the reserved entries too.       *)
LEMMA QuietDone ==
    ASSUME NEW E \in Seq(Entry), NEW F, Quiet(E, F), NEW done, NEW g, NEW h, DoneOK(E, done, g),
           \/ g.phase # "complete" /\ h.phase # "complete"
           \/ h = g /\ \A i \in DOMAIN E : E[i].state = "ForwardPending" => F[i] = E[i]
    PROVE  DoneOK(F, done, h)
<1>1. F \in Seq(Entry) /\ DOMAIN F = DOMAIN E
  BY DEF Quiet, Follows
<1>2. \A i \in DOMAIN E : F[i].msg = E[i].msg /\ (Acked(E[i]) => Acked(F[i]))
  BY DEF Quiet, Follows
<1>3. CASE g.phase # "complete" /\ h.phase # "complete"
  BY <1>1, <1>2, <1>3 DEF DoneOK
<1>4. CASE h = g /\ \A i \in DOMAIN E : E[i].state = "ForwardPending" => F[i] = E[i]
  BY <1>1, <1>2, <1>4 DEF DoneOK
<1> QED
  BY <1>3, <1>4

\* What the body of NothingIsLost says of one step.
NoneLost ==
    \A id \in UnackedIds(sub.entries) :
        \/ id \in UnackedIds(sub'.entries)
        \/ gate.phase = "complete" /\ Head(gate.queue) = id
        \/ \E i \in Leased(sub.entries) : /\ sub.entries[i].msg.id = id
                                          /\ leased[sub.entries[i].ack] = id
                                          /\ sub' = acknowledge(sub, sub.entries[i].ack)

\* What the body of KeyOrder says of one step.
KeysKept ==
    config.ordered /\ Len(sub'.entries) = Len(sub.entries) =>
        \A j \in DOMAIN sub'.entries : \A i \in 1 .. j - 1 :
            LET earlier == sub'.entries[i]
                later   == sub'.entries[j]
            IN  /\ later.msg.key # NoKey /\ earlier.msg.key = later.msg.key
                /\ later.state = "Outstanding" /\ later.ack >= next_ack /\ ~Acked(earlier)
                => /\ earlier.state = "Outstanding" /\ earlier.ack >= next_ack
                   /\ earlier.attempt = 1 /\ ~config.push

(* The parts of the invariant in the forms the steps need.                  *)
LEMMA InvParts ==
    ASSUME PubSubInv
    PROVE  /\ sub.entries \in Seq(Entry)
           /\ clock \in Nat /\ message_counter \in Nat
           /\ next_ack \in Nat /\ next_ack >= 1 /\ next_ack \in 1 .. MaxAcks + 1
           /\ MaxAcks \in Nat /\ MaxClock \in Nat /\ MaxMessages \in Nat
           /\ config \in Configurations
           /\ SubOK(sub, message_counter, next_ack, leased, clock)
           /\ ReservedFirst(config, sub.entries)
           /\ DoneOK(sub.entries, transferred, gate)
BY InstanceAssumption DEF PubSubInv, SubOK, LogOK

(* A step that hands out no ack id keeps keys in order.                     *)
LEMMA NoLeaseKeysKept ==
    ASSUME PubSubInv, SubOK(sub', message_counter', next_ack', leased', clock'),
           leased' = leased
    PROVE  KeysKept
<1>1. \A j \in Leased(sub'.entries) : sub'.entries[j].ack \in 1 .. next_ack - 1
  BY DEF PubSubInv, SubOK, LeaseOK
<1>2. \A j \in DOMAIN sub'.entries : sub'.entries[j].state = "Outstanding" =>
        ~ (sub'.entries[j].ack >= next_ack)
  BY <1>1, InvParts DEF Leased
<1> QED
  BY <1>2 DEF KeysKept

(* A step that acknowledges nothing loses nothing.                          *)
LEMMA QuietLosesNothing ==
    ASSUME PubSubInv, Len(sub'.entries) = Len(sub.entries), sub'.entries \in Seq(Entry),
           \A i \in DOMAIN sub.entries : /\ sub'.entries[i].msg = sub.entries[i].msg
                                         /\ ~Acked(sub.entries[i]) => ~Acked(sub'.entries[i])
    PROVE  NoneLost
<1>1. DOMAIN sub'.entries = DOMAIN sub.entries
  BY InvParts
<1> QED
  BY <1>1 DEF NoneLost, UnackedIds, Unacked

-----------------------------------------------------------------------------
(* One lemma per action: the step keeps the invariant, loses no message and *)
(* keeps keys in order.                                                     *)

(* The initial state.                                                       *)
LEMMA InitOK == ASSUME Init PROVE PubSubInv
<1>1. sub.entries = <<>> /\ sub.first_unacked = 1 /\ sub.outstanding = [a \in {} |-> 0]
  BY DEF Init, EmptySub
<1>2. <<>> \in Seq(Entry) /\ DOMAIN <<>> = {} /\ Len(<<>>) = 0
  OBVIOUS
<1>3. LogOK(sub.entries, 0, 1) /\ Leased(sub.entries) = {}
  BY <1>1, <1>2 DEF LogOK, Leased
<1>4. OutstandingOK(sub.entries, sub.outstanding)
  BY <1>1, <1>3 DEF OutstandingOK
<1>5. CursorOK(sub.entries, sub.first_unacked)
  BY <1>1, <1>2 DEF CursorOK
<1>6. SubOK(sub, message_counter, next_ack, leased, clock)
  BY <1>1, <1>3, <1>4, <1>5 DEF SubOK, IndexOK, LeaseOK, Init, EmptySub
<1>7. ReservedFirst(config, sub.entries)
  BY <1>1, <1>2 DEF ReservedFirst
<1>8. DoneOK(sub.entries, transferred, gate) /\ gate = [queue |-> gate.queue, phase |-> gate.phase]
  BY <1>1, <1>2 DEF DoneOK, Init, Free
<1>9. DOMAIN leased = 1 .. next_ack - 1
  <2>1. DOMAIN leased = {} /\ next_ack = 1
    BY DEF Init
  <2>2. 1 .. 1 - 1 = {}
    OBVIOUS
  <2> QED
    BY <2>1, <2>2
<1>10. config \in Configurations
  BY DEF Init, Configurations
<1> QED
  BY <1>6, <1>7, <1>8, <1>9, <1>10, InstanceAssumption DEF PubSubInv, Init

(* Steps that leave the subscription, its leases and the clock alone.       *)
LEMMA SameSub ==
    ASSUME PubSubInv, UNCHANGED <<sub, clock, message_counter, next_ack, leased>>
    PROVE  /\ SubOK(sub', message_counter', next_ack', leased', clock')
           /\ NoneLost /\ KeysKept
<1>1. SubOK(sub', message_counter', next_ack', leased', clock')
  BY DEF PubSubInv
<1>2. KeysKept
  BY <1>1, NoLeaseKeysKept
<1>3. NoneLost
  BY DEF NoneLost
<1> QED
  BY <1>1, <1>2, <1>3

(* A queue of transfers owes no completion when it is taken over.           *)
LEMMA GateIs ==
    /\ \A E, S : /\ Transfers(E, S)
                      = [queue |-> Transfers(E, S).queue, phase |-> Transfers(E, S).phase]
                 /\ Transfers(E, S).phase # "complete"
    /\ NextTransfer = [queue |-> NextTransfer.queue, phase |-> NextTransfer.phase]
    /\ NextTransfer.phase # "complete"
    /\ Free.phase # "complete"
<1>1. \A E, S : /\ Transfers(E, S)
                     = [queue |-> Transfers(E, S).queue, phase |-> Transfers(E, S).phase]
                /\ Transfers(E, S).phase # "complete"
  <2> SUFFICES ASSUME NEW E, NEW S
               PROVE  /\ Transfers(E, S)
                           = [queue |-> Transfers(E, S).queue, phase |-> Transfers(E, S).phase]
                      /\ Transfers(E, S).phase # "complete"
    OBVIOUS
  <2>1. PICK q : q = Retain([i \in DOMAIN E |-> E[i].msg.id], S)
    OBVIOUS
  <2>2. Transfers(E, S) = IF S = {} THEN [queue |-> <<>>, phase |-> "free"]
                          ELSE [queue |-> q, phase |-> "prepare"]
    BY <2>1 DEF Transfers, Free
  <2> QED
    BY <2>2
<1>2. /\ NextTransfer = [queue |-> NextTransfer.queue, phase |-> NextTransfer.phase]
      /\ NextTransfer.phase # "complete"
  <2>1. PICK q : q = Tail(gate.queue)
    OBVIOUS
  <2>2. NextTransfer = IF Len(gate.queue) = 1 THEN [queue |-> <<>>, phase |-> "free"]
                       ELSE [queue |-> q, phase |-> "prepare"]
    BY <2>1 DEF NextTransfer, Free
  <2> QED
    BY <2>2
<1> QED
  BY <1>1, <1>2 DEF Free

(* A log taken as it is: another gate that owes no completion.              *)
LEMMA SameDone ==
    ASSUME NEW E, NEW done, NEW g, NEW h, DoneOK(E, done, g),
           g.phase # "complete", h.phase # "complete"
    PROVE  DoneOK(E, done, h)
BY DEF DoneOK

(* retry_pending_dead_letters.                                              *)
LEMMA RetryStep ==
    ASSUME PubSubInv, retry_pending_dead_letters
    PROVE  PubSubInv' /\ NoneLost /\ KeysKept
<1>1. SubOK(sub', message_counter', next_ack', leased', clock') /\ NoneLost /\ KeysKept
  BY SameSub DEF retry_pending_dead_letters
<1>2. /\ gate' = [queue |-> gate'.queue, phase |-> gate'.phase] /\ gate'.phase # "complete"
      /\ gate.phase # "complete"
  BY GateIs DEF retry_pending_dead_letters
<1>3. DoneOK(sub.entries, transferred, gate')
  BY <1>2, InvParts, SameDone
<1> QED
  BY <1>1, <1>2, <1>3 DEF PubSubInv, retry_pending_dead_letters

(* The destination does not take the message.                               *)
LEMMA DestinationFullStep ==
    ASSUME PubSubInv, DestinationFull
    PROVE  PubSubInv' /\ NoneLost /\ KeysKept
<1>1. SubOK(sub', message_counter', next_ack', leased', clock') /\ NoneLost /\ KeysKept
  BY SameSub DEF DestinationFull
<1>2. /\ gate' = [queue |-> gate'.queue, phase |-> gate'.phase] /\ gate'.phase # "complete"
      /\ gate.phase # "complete"
  BY GateIs DEF DestinationFull
<1>3. DoneOK(sub.entries, transferred, gate')
  BY <1>2, InvParts, SameDone
<1> QED
  BY <1>1, <1>2, <1>3 DEF PubSubInv, DestinationFull

(* The destination admits the message: it is still reserved at its source.  *)
LEMMA PublishedStep ==
    ASSUME PubSubInv, TransferPublished
    PROVE  PubSubInv' /\ NoneLost /\ KeysKept
<1>1. SubOK(sub', message_counter', next_ack', leased', clock') /\ NoneLost /\ KeysKept
  BY SameSub DEF TransferPublished
<1>2. PICK id, q : id = Head(gate.queue) /\ q = gate.queue
  OBVIOUS
<1>3. /\ gate' = [queue |-> q, phase |-> "complete"] /\ gate.phase = "prepare"
      /\ transferred' = transferred \cup {id} /\ sub' = sub
  BY <1>2 DEF TransferPublished, PubSubInv
<1>4. PICK i \in DOMAIN sub.entries :
        sub.entries[i].state = "ForwardPending" /\ sub.entries[i].msg.id = id
  BY <1>2 DEF TransferPublished, can_commit_dead_letter, Pending, pending_forwards
<1>5. gate'.queue = q /\ gate'.phase = "complete" /\ Head(gate'.queue) = id
  BY <1>2, <1>3
<1>6. \A j \in DOMAIN sub.entries : sub.entries[j].msg.id \in transferred => Acked(sub.entries[j])
  BY <1>3 DEF PubSubInv, DoneOK
<1>7. DoneOK(sub'.entries, transferred', gate')
  BY <1>3, <1>4, <1>5, <1>6 DEF DoneOK
<1>8. id \in 1 .. message_counter
  <2>1. sub.entries[i].msg \in Message /\ sub.entries[i].msg.id <= message_counter
    BY InvParts, EntryIs DEF SubOK, LogOK
  <2>2. sub.entries[i].msg.id \in 1 .. MaxMessages
    BY <2>1 DEF Message
  <2> QED
    BY <1>4, <2>1, <2>2, InvParts
<1>9. transferred' \subseteq 1 .. message_counter
  BY <1>3, <1>8 DEF PubSubInv
<1>10. gate' = [queue |-> gate'.queue, phase |-> gate'.phase]
  BY <1>3
<1> QED
  BY <1>1, <1>7, <1>9, <1>10 DEF PubSubInv, TransferPublished

(* Acknowledge: what turns acknowledged was handed out under this ack id.   *)
LEMMA AcknowledgeStep ==
    ASSUME PubSubInv, NEW ack, Acknowledge(ack)
    PROVE  PubSubInv' /\ NoneLost /\ KeysKept
<1> DEFINE E == sub.entries
           F == sub'.entries
<1>1. /\ SubOK(sub', message_counter, next_ack, leased, clock)
      /\ Follows(E, F)
      /\ \A i \in DOMAIN E : \/ F[i] = E[i]
                             \/ /\ E[i].state = "Outstanding" /\ E[i].ack = ack
                                /\ Acked(F[i])
  <2>1. sub' = acknowledge(sub, ack)
    BY DEF Acknowledge
  <2>2. /\ SubOK(sub, message_counter, next_ack, leased, clock)
        /\ next_ack \in Nat /\ clock \in Nat
    BY InvParts
  <2>3. SubOK(acknowledge(sub, ack), message_counter, next_ack, leased, clock)
    BY <2>2, AcknowledgeOK
  <2>4. Follows(sub.entries, acknowledge(sub, ack).entries)
    BY <2>2, AcknowledgeOK
  <2>5. \A i \in DOMAIN sub.entries :
           \/ acknowledge(sub, ack).entries[i] = sub.entries[i]
           \/ /\ sub.entries[i].state = "Outstanding" /\ sub.entries[i].ack = ack
              /\ Acked(acknowledge(sub, ack).entries[i])
    BY <2>2, AcknowledgeOK
  <2> QED
    BY <2>1, <2>3, <2>4, <2>5
<1>2. Quiet(E, F) /\ \A i \in DOMAIN E : E[i].state = "ForwardPending" => F[i] = E[i]
  BY <1>1 DEF Quiet, Acked
<1>3. ReservedFirst(config, F) /\ DoneOK(F, transferred, gate)
  BY <1>2, InvParts, QuietReserved, QuietDone
<1>4. PubSubInv'
  BY <1>1, <1>3 DEF PubSubInv, Acknowledge
<1>5. KeysKept
  BY <1>1, NoLeaseKeysKept DEF Acknowledge
<1>6. NoneLost
  <2> SUFFICES ASSUME NEW i \in DOMAIN E, ~Acked(E[i])
               PROVE  \/ E[i].msg.id \in UnackedIds(F)
                      \/ \E k \in Leased(E) : /\ E[k].msg.id = E[i].msg.id
                                              /\ leased[E[k].ack] = E[i].msg.id
                                              /\ sub' = acknowledge(sub, E[k].ack)
    BY DEF NoneLost, UnackedIds, Unacked
  <2>1. CASE F[i] = E[i]
    <3>1. i \in DOMAIN F
      BY <1>1, InvParts DEF Follows
    <3> QED
      BY <2>1, <3>1 DEF UnackedIds, Unacked
  <2>2. CASE E[i].state = "Outstanding" /\ E[i].ack = ack
    <3>1. i \in Leased(E)
      BY <2>2 DEF Leased
    <3>2. leased[E[i].ack] = E[i].msg.id
      BY <3>1, InvParts DEF SubOK, LeaseOK
    <3>3. sub' = acknowledge(sub, E[i].ack)
      BY <2>2 DEF Acknowledge
    <3> QED
      BY <3>1, <3>2, <3>3
  <2> QED
    BY <1>1, <2>1, <2>2
<1> QED
  BY <1>4, <1>5, <1>6

(* ModifyAckDeadline, a nack included.                                      *)
LEMMA ModifyStep ==
    ASSUME PubSubInv, NEW ack, NEW seconds \in Nat, ModifyAckDeadline(ack, seconds)
    PROVE  PubSubInv' /\ NoneLost /\ KeysKept
<1> DEFINE E == sub.entries
           F == sub'.entries
<1>1. /\ SubOK(sub', message_counter, next_ack, leased, clock)
      /\ Follows(E, F)
      /\ \A i \in DOMAIN E : \/ F[i] = E[i]
                             \/ /\ E[i].state = "Outstanding"
                                /\ F[i].state \in {"Outstanding", "Available"}
  <2>1. sub' = modify_ack_deadline(config, sub, ack, seconds, clock)
    BY DEF ModifyAckDeadline
  <2>2. /\ SubOK(sub, message_counter, next_ack, leased, clock)
        /\ config \in Configurations /\ next_ack \in 1 .. MaxAcks + 1 /\ clock \in Nat
    BY InvParts
  <2>3. LET r == modify_ack_deadline(config, sub, ack, seconds, clock)
        IN  /\ SubOK(r, message_counter, next_ack, leased, clock)
            /\ Follows(sub.entries, r.entries)
            /\ \A i \in DOMAIN sub.entries :
                 \/ r.entries[i] = sub.entries[i]
                 \/ /\ sub.entries[i].state = "Outstanding"
                    /\ r.entries[i].state \in {"Outstanding", "Available"}
    BY <2>2, ModifyOK
  <2> QED
    BY <2>1, <2>3
<1>2. Quiet(E, F) /\ \A i \in DOMAIN E : E[i].state = "ForwardPending" => F[i] = E[i]
  BY <1>1 DEF Quiet, Acked
<1>3. ReservedFirst(config, F) /\ DoneOK(F, transferred, gate)
  BY <1>2, InvParts, QuietReserved, QuietDone
<1>4. PubSubInv'
  BY <1>1, <1>3 DEF PubSubInv, ModifyAckDeadline
<1>5. KeysKept
  BY <1>1, NoLeaseKeysKept DEF ModifyAckDeadline
<1>6. NoneLost
  BY <1>1, QuietLosesNothing DEF Follows, Acked
<1> QED
  BY <1>4, <1>5, <1>6

(* The clock moves and the lapsed leases expire.                            *)
LEMMA ExpireStep ==
    ASSUME PubSubInv, expire_all
    PROVE  PubSubInv' /\ NoneLost /\ KeysKept
<1> DEFINE E == sub.entries
           F == sub'.entries
<1>1. /\ SubOK(sub', message_counter, next_ack, leased, clock + 1)
      /\ Follows(E, F)
      /\ \A i \in DOMAIN E : \/ F[i] = E[i]
                             \/ E[i].state = "Outstanding" /\ F[i].state = "Available"
  <2>a. PICK then \in Nat : then = clock + 1
    BY InvParts
  <2>1. sub' = expire_deadlines(config, sub, then)
    BY <2>a DEF expire_all
  <2>2. /\ SubOK(sub, message_counter, next_ack, leased, clock)
        /\ config \in Configurations /\ next_ack \in 1 .. MaxAcks + 1 /\ clock \in Nat
    BY InvParts
  <2>3. Expires(sub, expire_deadlines(config, sub, then), message_counter, next_ack, leased, then)
    BY <2>2, ExpireOK
  <2>4. Expires(sub, sub', message_counter, next_ack, leased, then)
    BY <2>1, <2>3
  <2> QED
    BY <2>a, <2>4 DEF Expires
<1>2. Quiet(E, F) /\ \A i \in DOMAIN E : E[i].state = "ForwardPending" => F[i] = E[i]
  BY <1>1 DEF Quiet, Acked
<1>3. ReservedFirst(config, F) /\ DoneOK(F, transferred, gate)
  BY <1>2, InvParts, QuietReserved, QuietDone
<1>4. clock' = clock + 1 /\ clock' \in 0 .. MaxClock
  BY InvParts DEF expire_all, PubSubInv
<1>5. PubSubInv'
  BY <1>1, <1>3, <1>4 DEF PubSubInv, expire_all
<1>6. KeysKept
  BY <1>1, NoLeaseKeysKept DEF expire_all
<1>7. NoneLost
  BY <1>1, QuietLosesNothing DEF Follows, Acked
<1> QED
  BY <1>5, <1>6, <1>7

(* A transfer whose reservation or authority is gone.                       *)
LEMMA RefusedStep ==
    ASSUME PubSubInv, TransferRefused
    PROVE  PubSubInv' /\ NoneLost /\ KeysKept
<1> DEFINE E == sub.entries
           F == sub'.entries
<1>1. /\ SubOK(sub', message_counter, next_ack, leased, clock)
      /\ Follows(E, F)
      /\ \A i \in DOMAIN E : \/ F[i] = E[i]
                             \/ E[i].state = "ForwardPending" /\ F[i].state = "Available"
  <2>1. sub' = resume_forward(sub, Head(gate.queue), clock)
    BY DEF TransferRefused
  <2>2. /\ SubOK(sub, message_counter, next_ack, leased, clock)
        /\ next_ack \in Nat /\ clock \in Nat
    BY InvParts
  <2>3. LET r == resume_forward(sub, Head(gate.queue), clock)
        IN  /\ SubOK(r, message_counter, next_ack, leased, clock)
            /\ Follows(sub.entries, r.entries)
            /\ \A i \in DOMAIN sub.entries :
                 \/ r.entries[i] = sub.entries[i]
                 \/ sub.entries[i].state = "ForwardPending" /\ r.entries[i].state = "Available"
    BY <2>2, ResumeOK
  <2> QED
    BY <2>1, <2>3
<1>2. Quiet(E, F)
  BY <1>1 DEF Quiet, Acked
<1>3. /\ gate' = [queue |-> gate'.queue, phase |-> gate'.phase] /\ gate'.phase # "complete"
      /\ gate.phase # "complete"
  BY GateIs DEF TransferRefused
<1>4. ReservedFirst(config, F) /\ DoneOK(F, transferred, gate')
  BY <1>2, <1>3, InvParts, QuietReserved, QuietDone
<1>5. PubSubInv'
  BY <1>1, <1>3, <1>4 DEF PubSubInv, TransferRefused
<1>6. KeysKept
  BY <1>1, NoLeaseKeysKept DEF TransferRefused
<1>7. NoneLost
  BY <1>1, QuietLosesNothing DEF Follows, Acked
<1> QED
  BY <1>5, <1>6, <1>7

(* The source completes a transfer that the destination admitted.           *)
LEMMA CompleteStep ==
    ASSUME PubSubInv, complete_dead_letter
    PROVE  PubSubInv' /\ NoneLost /\ KeysKept
<1> DEFINE E == sub.entries
           F == sub'.entries
<1>a. PICK id : id = Head(gate.queue)
  OBVIOUS
<1>1. /\ SubOK(sub', message_counter, next_ack, leased, clock)
      /\ Follows(E, F)
      /\ \A i \in DOMAIN E :
           \/ F[i] = E[i] /\ ~ (E[i].state = "ForwardPending" /\ E[i].msg.id = id)
           \/ /\ E[i].state = "ForwardPending" /\ E[i].msg.id = id
              /\ Acked(F[i])
  <2>1. sub' = complete_forward(sub, id)
    BY <1>a DEF complete_dead_letter
  <2>2. /\ SubOK(sub, message_counter, next_ack, leased, clock)
        /\ next_ack \in Nat /\ clock \in Nat
    BY InvParts
  <2>3. LET r == complete_forward(sub, id)
        IN  /\ SubOK(r, message_counter, next_ack, leased, clock)
            /\ Follows(sub.entries, r.entries)
            /\ \A i \in DOMAIN sub.entries :
                 \/ /\ r.entries[i] = sub.entries[i]
                    /\ ~ (sub.entries[i].state = "ForwardPending" /\ sub.entries[i].msg.id = id)
                 \/ /\ sub.entries[i].state = "ForwardPending" /\ sub.entries[i].msg.id = id
                    /\ Acked(r.entries[i])
    BY <2>2, CompleteOK
  <2> QED
    BY <2>1, <2>3
<1>2. Quiet(E, F)
  BY <1>1 DEF Quiet, Acked
<1>3. /\ gate' = [queue |-> gate'.queue, phase |-> gate'.phase] /\ gate'.phase # "complete"
      /\ gate.phase = "complete"
  BY GateIs DEF complete_dead_letter
<1>4. ReservedFirst(config, F)
  BY <1>2, InvParts, QuietReserved
<1>5. DOMAIN F = DOMAIN E
  BY <1>1, InvParts DEF Follows
<1>6. \A i \in DOMAIN E : E[i].msg.id \in transferred => Acked(F[i])
  <2> SUFFICES ASSUME NEW i \in DOMAIN E, E[i].msg.id \in transferred PROVE Acked(F[i])
    OBVIOUS
  <2>1. Acked(E[i]) \/ E[i].msg.id = id
    BY <1>a, InvParts DEF DoneOK
  <2>2. PICK j \in DOMAIN E : E[j].state = "ForwardPending" /\ E[j].msg.id = id
    BY <1>a, <1>3, InvParts DEF DoneOK
  <2>3. CASE E[i].msg.id = id
    <3>1. i = j
      BY <2>2, <2>3, InvParts DEF SubOK, LogOK
    <3> QED
      BY <1>1, <2>2, <3>1
  <2>4. CASE Acked(E[i])
    BY <1>1, <2>4 DEF Acked
  <2> QED
    BY <2>1, <2>3, <2>4
<1>7. DoneOK(F, transferred, gate')
  <2>1. \A i \in DOMAIN E : F[i].msg = E[i].msg
    BY <1>1 DEF Follows
  <2> QED
    BY <1>3, <1>5, <1>6, <2>1 DEF DoneOK
<1>8. PubSubInv'
  BY <1>1, <1>3, <1>4, <1>7 DEF PubSubInv, complete_dead_letter
<1>9. KeysKept
  BY <1>1, NoLeaseKeysKept DEF complete_dead_letter
<1>10. NoneLost
  <2> SUFFICES ASSUME NEW i \in DOMAIN E, ~Acked(E[i])
               PROVE  E[i].msg.id \in UnackedIds(F) \/ E[i].msg.id = id
    BY <1>a, <1>3 DEF NoneLost, UnackedIds, Unacked
  <2> QED
    BY <1>1, <1>5 DEF UnackedIds, Unacked
<1> QED
  BY <1>8, <1>9, <1>10

(* The state a pull selects from: no lease has lapsed unnoticed, and without *)
(* the authority to forward the reserved entries are given back.             *)
LEMMA PullBaseOK ==
    ASSUME PubSubInv, NEW b, b = PullBase
    PROVE  /\ SubOK(b, message_counter, next_ack, leased, clock)
           /\ Follows(sub.entries, b.entries)
           /\ Quiet(sub.entries, b.entries)
           /\ \A i \in DOMAIN sub.entries : ~Acked(sub.entries[i]) => ~Acked(b.entries[i])
           /\ ReservedFirst(config, b.entries)
           /\ Authorized \/ pending_forwards(sub) = {} => b = sub
<1>1. /\ SubOK(sub, message_counter, next_ack, leased, clock)
      /\ config \in Configurations /\ next_ack \in 1 .. MaxAcks + 1 /\ next_ack \in Nat
      /\ clock \in Nat
  BY InvParts
<1>2. \A i \in Leased(sub.entries) : sub.entries[i].at > clock
  BY <1>1 DEF SubOK, LeaseOK
<1>3. expire_deadlines(config, sub, clock) = sub
  <2>1. PICK then \in Nat : then = clock
    BY <1>1
  <2>2. PICK r : r = expire_deadlines(config, sub, then)
    OBVIOUS
  <2>3. Expires(sub, expire_deadlines(config, sub, then), message_counter, next_ack, leased, then)
    BY <1>1, ExpireOK
  <2>4. Expires(sub, r, message_counter, next_ack, leased, then)
    BY <2>2, <2>3
  <2>5. r = sub
    BY <1>2, <2>1, <2>4 DEF Expires
  <2> QED
    BY <2>1, <2>2, <2>5
<1>4. PICK authorized : authorized = Authorized
  OBVIOUS
<1>5. b = release_forwards(sub, authorized, clock)
  BY <1>3, <1>4 DEF PullBase
<1>6. Releases(sub, release_forwards(sub, authorized, clock), message_counter, next_ack, leased,
               clock, authorized)
  BY <1>1, ReleaseOK
<1>7. /\ SubOK(b, message_counter, next_ack, leased, clock)
      /\ Follows(sub.entries, b.entries)
      /\ \A i \in DOMAIN sub.entries :
           \/ b.entries[i] = sub.entries[i]
           \/ sub.entries[i].state = "ForwardPending" /\ b.entries[i].state = "Available"
      /\ authorized \/ pending_forwards(sub) = {} => b = sub
  <2>1. Releases(sub, b, message_counter, next_ack, leased, clock, authorized)
    BY <1>5, <1>6
  <2> QED
    BY <2>1 DEF Releases
<1>8. /\ Quiet(sub.entries, b.entries)
      /\ \A i \in DOMAIN sub.entries : ~Acked(sub.entries[i]) => ~Acked(b.entries[i])
  BY <1>7 DEF Quiet, Acked
<1>9. ReservedFirst(config, b.entries)
  BY <1>8, InvParts, QuietReserved
<1> QED
  BY <1>4, <1>7, <1>8, <1>9

(* A pull whose output does not fit.                                        *)
LEMMA PullRefusedStep ==
    ASSUME PubSubInv, NEW max, pull_refused(max)
    PROVE  PubSubInv' /\ NoneLost /\ KeysKept
<1> DEFINE E == sub.entries
           F == sub'.entries
<1>1. /\ SubOK(sub', message_counter, next_ack, leased, clock)
      /\ Follows(E, F) /\ Quiet(E, F) /\ ReservedFirst(config, F)
      /\ \A i \in DOMAIN E : ~Acked(E[i]) => ~Acked(F[i])
  <2>1. PICK b : b = PullBase
    OBVIOUS
  <2>2. sub' = b
    BY <2>1 DEF pull_refused
  <2> QED
    BY <2>1, <2>2, PullBaseOK
<1>2. gate.phase # "complete" /\ gate' = gate
  BY GateIs DEF pull_refused
<1>3. DoneOK(F, transferred, gate')
  BY <1>1, <1>2, InvParts, QuietDone
<1>4. PubSubInv'
  BY <1>1, <1>3 DEF PubSubInv, pull_refused
<1>5. KeysKept
  BY <1>1, NoLeaseKeysKept DEF pull_refused
<1>6. NoneLost
  BY <1>1, QuietLosesNothing DEF Follows
<1> QED
  BY <1>4, <1>5, <1>6

(* The service agent's grants change.                                       *)
LEMMA PolicyStep ==
    ASSUME PubSubInv, set_resource_policy
    PROVE  PubSubInv' /\ NoneLost /\ KeysKept
<1>1. SubOK(sub', message_counter', next_ack', leased', clock') /\ NoneLost /\ KeysKept
  BY SameSub DEF set_resource_policy
<1> QED
  BY <1>1 DEF PubSubInv, set_resource_policy

(* The dead-letter policy is removed.                                       *)
LEMMA ConfigStep ==
    ASSUME PubSubInv, replace_config
    PROVE  PubSubInv' /\ NoneLost /\ KeysKept
<1>1. SubOK(sub', message_counter', next_ack', leased', clock') /\ NoneLost /\ KeysKept
  BY SameSub DEF replace_config
<1>2. \A c \in Configurations : IsConfig(c)
  BY InstanceAssumption DEF Configurations, IsConfig, NoLimit
<1>3. config' = [config EXCEPT !.limit = NoLimit] /\ IsConfig(config)
  BY <1>2, InvParts DEF replace_config
<1>4. config'.ordered = config.ordered
  BY <1>3 DEF IsConfig
<1>5. config' \in Configurations
  <2>1. CASE config \in Configs
    BY <1>3, <2>1 DEF Configurations
  <2>2. CASE \E c \in Configs : config = [c EXCEPT !.limit = NoLimit]
    <3>1. PICK c \in Configs : config = [c EXCEPT !.limit = NoLimit]
      BY <2>2
    <3>2. config' = config
      BY <1>3, <3>1, InstanceAssumption DEF IsConfig
    <3> QED
      BY <3>2, InvParts
  <2> QED
    BY <2>1, <2>2, InvParts DEF Configurations
<1>6. ReservedFirst(config', sub.entries)
  BY <1>4, InvParts DEF ReservedFirst
<1> QED
  BY <1>1, <1>5, <1>6 DEF PubSubInv, replace_config

(* create_snapshot: the snapshot holds the messages of the log.             *)
LEMMA CaptureStep ==
    ASSUME PubSubInv, create_snapshot
    PROVE  PubSubInv' /\ NoneLost /\ KeysKept
<1>1. SubOK(sub', message_counter', next_ack', leased', clock') /\ NoneLost /\ KeysKept
  BY SameSub DEF create_snapshot
<1>2. PICK E : E = sub.entries
  OBVIOUS
<1>3. E \in Seq(Entry) /\ LogOK(E, message_counter, next_ack)
  BY <1>2, InvParts DEF SubOK
<1>4. PICK M : M = [i \in DOMAIN E |-> E[i].msg]
  OBVIOUS
<1>5. snapshot' = [created |-> clock, retained |-> Ids(E), unacked |-> UnackedIds(E), messages |-> M]
  BY <1>2, <1>4 DEF create_snapshot, capture
<1>6. M \in Seq(Message) /\ DOMAIN M = DOMAIN E /\ \A i \in DOMAIN E : M[i] = E[i].msg
  <2>1. DOMAIN E = 1 .. Len(E) /\ Len(E) \in Nat
    BY <1>3
  <2>2. \A i \in DOMAIN E : E[i].msg \in Message
    BY <1>3, EntryIs
  <2> QED
    BY <1>4, <2>1, <2>2
<1>7. /\ snapshot'.created = clock /\ snapshot'.retained = Ids(E)
      /\ snapshot'.unacked = UnackedIds(E) /\ snapshot'.messages = M
  BY <1>5
<1>8. Ids(E) = {M[i].id : i \in DOMAIN M} /\ UnackedIds(E) \subseteq Ids(E)
  BY <1>6 DEF Ids, UnackedIds, Unacked
<1>9. /\ \A i \in DOMAIN M : M[i].id <= message_counter
      /\ \A i, j \in DOMAIN M : M[i].id = M[j].id => i = j
  BY <1>3, <1>6 DEF LogOK
<1>10. SnapOK(snapshot', message_counter)
  BY <1>5, <1>6, <1>7, <1>8, <1>9 DEF SnapOK
<1> QED
  BY <1>1, <1>10 DEF PubSubInv, create_snapshot

(* Seeks wait for the gate and start the history of transfers afresh.       *)
LEMMA SoughtDone ==
    ASSUME NEW E, NEW g, g.phase # "complete"
    PROVE  DoneOK(E, {}, g)
BY DEF DoneOK

(* SeekToTime.                                                              *)
LEMMA SeekToTimeStep ==
    ASSUME PubSubInv, NEW time, SeekToTime(time)
    PROVE  PubSubInv' /\ seeks' # seeks
<1>1. /\ SubOK(sub, message_counter, next_ack, leased, clock)
      /\ next_ack \in Nat /\ next_ack >= 1 /\ clock \in Nat
  BY InvParts
<1>2. PICK c : c = config
  OBVIOUS
<1>3. LET r == seek_to_time(sub, time, clock)
      IN  SubOK(r, message_counter, next_ack, leased, clock) /\ ReservedFirst(c, r.entries)
  BY <1>1, SeekToTimeOK
<1>4. SubOK(sub', message_counter, next_ack, leased, clock) /\ ReservedFirst(config, sub'.entries)
  BY <1>2, <1>3 DEF SeekToTime
<1>5. gate' = gate /\ gate.phase # "complete" /\ transferred' = {}
  BY GateIs DEF SeekToTime, GateFree
<1>6. DoneOK(sub'.entries, {}, gate)
  BY <1>5, SoughtDone
<1>7. seeks' = seeks + 1 /\ seeks' \in Nat /\ seeks' # seeks
  BY DEF SeekToTime, PubSubInv
<1> QED
  BY <1>4, <1>5, <1>6, <1>7 DEF PubSubInv, SeekToTime

(* SeekToSnapshot: in room, everything the snapshot's backlog held is       *)
(* available as undelivered.                                                *)
LEMMA SeekToSnapshotStep ==
    ASSUME PubSubInv, SeekToSnapshot
    PROVE  /\ PubSubInv' /\ seeks' # seeks
           /\ ~must_reclaim(config, sub, snapshot) => \A id \in snapshot.unacked : Restored(id)
<1>1. /\ SubOK(sub, message_counter, next_ack, leased, clock)
      /\ next_ack \in Nat /\ next_ack >= 1 /\ clock \in Nat
      /\ ReservedFirst(config, sub.entries)
  BY InvParts
<1>2. SnapOK(snapshot, message_counter)
  BY DEF PubSubInv, SeekToSnapshot
<1>3. PICK r : r = seek_to_snapshot(config, sub, snapshot, clock)
  OBVIOUS
<1>4. /\ SubOK(sub', message_counter, next_ack, leased, clock)
      /\ ReservedFirst(config, sub'.entries)
      /\ ~must_reclaim(config, sub, snapshot) => \A id \in snapshot.unacked : Restored(id)
  <2>1. SubOK(r, message_counter, next_ack, leased, clock) /\ ReservedFirst(config, r.entries)
    BY <1>1, <1>2, <1>3, SeekToSnapshotOK
  <2>2. ASSUME ~must_reclaim(config, sub, snapshot), NEW id \in snapshot.unacked
        PROVE  RestoredIn(r.entries, id)
    BY <1>1, <1>2, <1>3, <2>2, SeekToSnapshotOK
  <2> QED
    BY <1>3, <2>1, <2>2 DEF SeekToSnapshot, Restored, RestoredIn
<1>5. gate' = gate /\ gate.phase # "complete" /\ transferred' = {}
  BY GateIs DEF SeekToSnapshot, GateFree
<1>6. DoneOK(sub'.entries, {}, gate)
  BY <1>5, SoughtDone
<1>7. seeks' = seeks + 1 /\ seeks' \in Nat /\ seeks' # seeks
  BY DEF SeekToSnapshot, PubSubInv
<1> QED
  BY <1>4, <1>5, <1>6, <1>7 DEF PubSubInv, SeekToSnapshot

(* A publication joins a live snapshot as its newest message.               *)
LEMMA JoinOK ==
    ASSUME NEW snap, NEW m \in Nat, SnapOK(snap, m), NEW msg \in Message, msg.id = m + 1
    PROVE  SnapOK(retain_snapshot_publication(snap, msg), m + 1)
<1>1. PICK L : L = snap.messages
  OBVIOUS
<1>2. L \in Seq(Message) /\ DOMAIN L = 1 .. Len(L) /\ Len(L) \in Nat
  BY <1>1 DEF SnapOK
<1>3. PICK M : M = Append(L, msg)
  OBVIOUS
<1>4. /\ M \in Seq(Message) /\ Len(M) = Len(L) + 1 /\ M[Len(L) + 1] = msg
      /\ \A i \in DOMAIN L : M[i] = L[i]
      /\ DOMAIN M = 1 .. Len(L) + 1
  BY <1>2, <1>3
<1>5. \A i \in DOMAIN M : i \in DOMAIN L \/ i = Len(L) + 1
  BY <1>2, <1>4
<1>6. \A i \in DOMAIN L : L[i].id \in Nat /\ L[i].id <= m
  <2>1. \A i \in DOMAIN L : L[i] \in Message
    BY <1>2
  <2>2. MaxMessages \in Nat
    BY InstanceAssumption
  <2> QED
    BY <1>1, <2>1, <2>2 DEF SnapOK, Message
<1>7. \A i \in DOMAIN M : M[i].id <= m + 1
  BY <1>4, <1>5, <1>6
<1>8. \A i, j \in DOMAIN M : M[i].id = M[j].id => i = j
  <2> SUFFICES ASSUME NEW i \in DOMAIN M, NEW j \in DOMAIN M, M[i].id = M[j].id PROVE i = j
    OBVIOUS
  <2>1. \A k \in DOMAIN L : M[k].id # m + 1
    BY <1>4, <1>6
  <2>2. CASE i \in DOMAIN L /\ j \in DOMAIN L
    BY <1>1, <1>4, <2>2 DEF SnapOK
  <2>3. CASE i = Len(L) + 1 \/ j = Len(L) + 1
    BY <1>4, <1>5, <2>1, <2>3
  <2> QED
    BY <1>5, <2>2, <2>3
<1>9. PICK r : r = retain_snapshot_publication(snap, msg)
  OBVIOUS
<1>10. r = [created |-> snap.created, retained |-> snap.retained \cup {msg.id},
            unacked |-> snap.unacked \cup {msg.id}, messages |-> M]
  BY <1>1, <1>3, <1>9 DEF SnapOK, retain_snapshot_publication
<1>11. /\ r.created = snap.created /\ r.retained = snap.retained \cup {msg.id}
       /\ r.unacked = snap.unacked \cup {msg.id} /\ r.messages = M
  BY <1>10
<1>12. snap.retained \cup {msg.id} = {M[i].id : i \in DOMAIN M}
  <2>1. snap.retained = {L[i].id : i \in DOMAIN L}
    BY <1>1 DEF SnapOK
  <2>2. Len(L) + 1 \in DOMAIN M /\ \A i \in DOMAIN L : i \in DOMAIN M
    BY <1>2, <1>4
  <2> QED
    BY <1>4, <1>5, <2>1, <2>2
<1>13. r.unacked \subseteq r.retained
  BY <1>11 DEF SnapOK
<1>14. r = [created |-> r.created, retained |-> r.retained, unacked |-> r.unacked,
            messages |-> r.messages]
  BY <1>10
<1>15. SnapOK(r, m + 1)
  <2>1. /\ r.messages \in Seq(Message)
        /\ \A i \in DOMAIN r.messages : r.messages[i].id <= m + 1
        /\ \A i, j \in DOMAIN r.messages : r.messages[i].id = r.messages[j].id => i = j
    BY <1>4, <1>7, <1>8, <1>11
  <2>2. r.retained = {r.messages[i].id : i \in DOMAIN r.messages}
    BY <1>11, <1>12
  <2> QED
    BY <1>13, <1>14, <2>1, <2>2 DEF SnapOK
<1> QED
  BY <1>9, <1>15

(* Publish: the reclaim that makes room keeps what is not acknowledged.     *)
LEMMA PublishStep ==
    ASSUME PubSubInv, NEW key \in Keys \cup {NoKey}, Publish(key)
    PROVE  PubSubInv' /\ NoneLost /\ KeysKept
<1> DEFINE E == sub.entries
           F == sub'.entries
<1>1. /\ SubOK(sub, message_counter, next_ack, leased, clock)
      /\ message_counter \in Nat /\ next_ack \in Nat /\ next_ack >= 1 /\ clock \in Nat
      /\ ReservedFirst(config, sub.entries)
  BY InvParts
<1>2. PICK msg : msg = [id |-> message_counter + 1, key |-> key, time |-> clock]
  OBVIOUS
<1>3. msg \in Message /\ msg.id = message_counter + 1
  <2>1. message_counter + 1 \in 1 .. MaxMessages /\ clock \in 0 .. MaxClock
    BY <1>1, InvParts DEF Publish, PubSubInv
  <2> QED
    BY <1>2, <2>1 DEF Message
<1>4. PICK r : r = enqueue(config, sub, msg, clock)
  OBVIOUS
<1>5. sub' = r
  BY <1>2, <1>4 DEF Publish
<1>6. LET q == enqueue(config, sub, msg, clock)
      IN  /\ SubOK(q, message_counter + 1, next_ack, leased, clock)
          /\ ReservedFirst(config, q.entries)
          /\ \A i \in DOMAIN q.entries :
               \/ q.entries[i].msg = msg
               \/ \E j \in DOMAIN sub.entries : q.entries[i] = sub.entries[j]
          /\ \A j \in DOMAIN sub.entries :
               ~Acked(sub.entries[j]) => \E i \in DOMAIN q.entries : q.entries[i] = sub.entries[j]
  BY <1>1, <1>3, EnqueueOK
<1>7. /\ SubOK(sub', message_counter + 1, next_ack, leased, clock)
      /\ ReservedFirst(config, F)
      /\ \A i \in DOMAIN F : F[i].msg = msg \/ \E j \in DOMAIN E : F[i] = E[j]
      /\ \A j \in DOMAIN E : ~Acked(E[j]) => \E i \in DOMAIN F : F[i] = E[j]
  BY <1>4, <1>5, <1>6
<1>8. gate' = gate /\ gate.phase # "complete" /\ transferred' = transferred
  BY DEF Publish
<1>9. DoneOK(F, transferred, gate)
  <2>1. \A j \in DOMAIN E : E[j].msg.id \in transferred => Acked(E[j])
    BY <1>1, <1>8, InvParts DEF DoneOK
  <2>2. msg.id \notin transferred
    <3>1. transferred \subseteq 1 .. message_counter
      BY DEF PubSubInv
    <3> QED
      BY <1>1, <1>3, <3>1
  <2> QED
    BY <1>7, <1>8, <2>1, <2>2 DEF DoneOK
<1>10. snapshot' = NoSnapshot \/ SnapOK(snapshot', message_counter + 1)
  <2>1. CASE snapshot = NoSnapshot
    BY <2>1 DEF Publish
  <2>2. CASE snapshot # NoSnapshot
    <3>1. SnapOK(snapshot, message_counter)
      BY <2>2 DEF PubSubInv
    <3>2. snapshot' = retain_snapshot_publication(snapshot, msg)
      BY <1>2, <2>2 DEF Publish
    <3> QED
      BY <1>1, <1>3, <3>1, <3>2, JoinOK
  <2> QED
    BY <2>1, <2>2
<1>11. /\ message_counter' = message_counter + 1 /\ message_counter' \in 0 .. MaxMessages
       /\ transferred' \subseteq 1 .. message_counter'
  BY <1>1, InvParts DEF Publish, PubSubInv
<1>12. PubSubInv'
  BY <1>7, <1>8, <1>9, <1>10, <1>11 DEF PubSubInv, Publish
<1>13. KeysKept
  BY <1>7, <1>11, NoLeaseKeysKept DEF Publish
<1>14. NoneLost
  <2> SUFFICES ASSUME NEW j \in DOMAIN E, ~Acked(E[j]) PROVE E[j].msg.id \in UnackedIds(F)
    BY DEF NoneLost, UnackedIds, Unacked
  <2>1. PICK i \in DOMAIN F : F[i] = E[j]
    BY <1>7
  <2> QED
    BY <2>1 DEF UnackedIds, Unacked
<1> QED
  BY <1>12, <1>13, <1>14

(* A pull: what it hands out, and what it reserves, keeps the order of keys. *)
LEMMA PullStep ==
    ASSUME PubSubInv, NEW max \in Nat, pull_with_dead_letters(max)
    PROVE  PubSubInv' /\ NoneLost /\ KeysKept
<1>1. PICK b : b = PullBase
  OBVIOUS
<1>2. PICK authorized : authorized = Authorized
  OBVIOUS
<1>3. PICK take, out : /\ take = selected(config, b, clock, authorized, max)
                       /\ out = forwarded(config, b, clock, authorized, max)
  OBVIOUS
<1>4. PICK k : k = Cardinality(take)
  OBVIOUS
<1>5. PICK after : after = pull_commit(config, b, clock, authorized, max, next_ack)
  OBVIOUS
<1>6. /\ sub' = after /\ next_ack' = next_ack + k
      /\ next_ack + k <= MaxAcks + 1
      /\ gate' = Transfers(after.entries, out)
      /\ leased' = HandedOut(leased, next_ack, next_ack + k, after)
  <2>1. /\ sub' = after /\ next_ack' = next_ack + k /\ next_ack + k <= MaxAcks + 1
        /\ gate' = Transfers(after.entries, out)
    BY <1>1, <1>2, <1>3, <1>4, <1>5 DEF pull_with_dead_letters
  <2>2. leased' = HandedOut(leased, next_ack, next_ack', after)
    BY <1>1, <1>2, <1>3, <1>5 DEF pull_with_dead_letters, HandedOut
  <2> QED
    BY <2>1, <2>2
<1>7. /\ SubOK(b, message_counter, next_ack, leased, clock)
      /\ Follows(sub.entries, b.entries)
      /\ Quiet(sub.entries, b.entries)
      /\ \A i \in DOMAIN sub.entries : ~Acked(sub.entries[i]) => ~Acked(b.entries[i])
      /\ ReservedFirst(config, b.entries)
  BY <1>1, PullBaseOK
<1>8. /\ next_ack \in Nat /\ next_ack >= 1 /\ DOMAIN leased = 1 .. next_ack - 1 /\ clock \in Nat
      /\ sub.entries \in Seq(Entry) /\ MaxAcks \in Nat
  BY InvParts DEF PubSubInv
<1> DEFINE E == b.entries
           F == after.entries
<1>a. PullTo(config, b, message_counter, next_ack, leased, clock, authorized, max, k, after)
  <2>1. k = Cardinality(selected(config, b, clock, authorized, max))
    BY <1>3, <1>4
  <2> QED
    BY <1>5, <1>7, <1>8, <2>1, PullOK
<1>9. /\ SubOK(after, message_counter, next_ack + k, leased', clock)
      /\ k \in Nat /\ DOMAIN leased' = 1 .. next_ack + k - 1
      /\ Len(F) = Len(E)
  BY <1>a, <1>6 DEF PullTo
<1>10. \A i \in DOMAIN E :
         /\ F[i].msg = E[i].msg
         /\ i \in take =>
              /\ F[i].state = "Outstanding" /\ F[i].ack >= next_ack
              /\ F[i].attempt = E[i].attempt + 1
         /\ i \in out => F[i].state = "ForwardPending"
         /\ i \in take \/ i \in out \/ F[i] = E[i]
  BY <1>a, <1>3 DEF PullTo
<1>11. /\ E \in Seq(Entry) /\ F \in Seq(Entry) /\ DOMAIN F = DOMAIN E
       /\ DOMAIN E = 1 .. Len(E) /\ Len(E) \in Nat /\ IndexOK(b)
       /\ DOMAIN sub.entries = DOMAIN E
  <2>1. E \in Seq(Entry) /\ F \in Seq(Entry) /\ IndexOK(b)
    BY <1>7, <1>9 DEF SubOK, LogOK
  <2>2. Len(E) = Len(sub.entries)
    BY <1>7 DEF Follows
  <2> QED
    BY <1>8, <1>9, <2>1, <2>2
<1>12. \A i \in take \cup out : E[i].state = "Available" /\ i \in DOMAIN E
  BY <1>3, <1>11, SelectionIs
<1>13. \A i \in DOMAIN E : Acked(E[i]) <=> Acked(F[i])
  BY <1>10, <1>12 DEF Acked
<1>14. \A i \in DOMAIN E : sub.entries[i].msg = F[i].msg /\ (Acked(sub.entries[i]) <=> Acked(F[i]))
  <2>1. \A i \in DOMAIN E : E[i].msg = sub.entries[i].msg /\ (Acked(sub.entries[i]) => Acked(E[i]))
    BY <1>7, <1>11 DEF Follows, Quiet
  <2> QED
    BY <1>7, <1>10, <1>11, <1>13, <2>1
<1>15. ReservedFirst(config, F)
  <2> SUFFICES ASSUME config.ordered, NEW j \in DOMAIN F, F[j].state = "ForwardPending",
                      NEW i \in 1 .. j - 1, F[j].msg.key # NoKey, F[i].msg.key = F[j].msg.key
               PROVE  Acked(F[i])
    BY DEF ReservedFirst
  <2>1. i \in DOMAIN E /\ j \in DOMAIN E
    BY <1>11
  <2>2. E[j].msg.key # NoKey /\ E[i].msg.key = E[j].msg.key
    BY <1>10, <2>1
  <2>3. CASE j \in out
    <3>1. Key(b, j) # NoKey /\ Key(b, i) = Key(b, j)
      BY <2>2 DEF Key
    <3>2. Acked(b.entries[i])
      BY <1>3, <1>11, <2>3, <3>1, ForwardedAreFirst
    <3> QED
      BY <1>13, <2>1, <3>2
  <2>4. CASE j \notin out
    <3>1. F[j] = E[j]
      BY <1>10, <2>1, <2>4
    <3>2. Acked(E[i])
      BY <1>7, <2>1, <2>2, <3>1 DEF ReservedFirst
    <3> QED
      BY <1>13, <2>1, <3>2
  <2> QED
    BY <2>3, <2>4
<1>16. /\ gate.phase # "complete" /\ gate'.phase # "complete"
       /\ gate' = [queue |-> gate'.queue, phase |-> gate'.phase]
  BY <1>6, GateIs DEF pull_with_dead_letters
<1>17. DoneOK(F, transferred, gate')
  <2>1. \A i \in DOMAIN sub.entries :
          sub.entries[i].msg.id \in transferred => Acked(sub.entries[i])
    BY <1>16, InvParts DEF DoneOK
  <2> QED
    BY <1>11, <1>14, <1>16, <2>1 DEF DoneOK
<1>18. next_ack' \in 1 .. MaxAcks + 1 /\ DOMAIN leased' = 1 .. next_ack' - 1
  BY <1>6, <1>8, <1>9
<1>19. SubOK(sub', message_counter, next_ack', leased', clock)
  BY <1>6, <1>9
<1>20. PubSubInv'
  BY <1>6, <1>15, <1>16, <1>17, <1>18, <1>19 DEF PubSubInv, pull_with_dead_letters
<1>21. NoneLost
  BY <1>6, <1>11, <1>14 DEF NoneLost, UnackedIds, Unacked
<1>22. KeysKept
  <2> SUFFICES ASSUME config.ordered, NEW j \in DOMAIN F, NEW i \in 1 .. j - 1,
                      F[j].msg.key # NoKey, F[i].msg.key = F[j].msg.key,
                      F[j].state = "Outstanding", F[j].ack >= next_ack, ~Acked(F[i])
               PROVE  /\ F[i].state = "Outstanding" /\ F[i].ack >= next_ack
                      /\ F[i].attempt = 1 /\ ~config.push
    BY <1>6 DEF KeysKept
  <2>1. i \in DOMAIN E /\ j \in DOMAIN E
    BY <1>11
  <2>2. j \in take
    <3>1. ASSUME F[j] = E[j] PROVE FALSE
      <4>1. j \in Leased(E)
        BY <2>1, <3>1 DEF Leased
      <4>2. E[j].ack \in 1 .. next_ack - 1
        BY <1>7, <1>8, <4>1 DEF SubOK, LeaseOK
      <4> QED
        BY <1>8, <3>1, <4>2
    <3> QED
      BY <1>10, <2>1, <3>1
  <2>3. Key(b, j) # NoKey /\ Key(b, i) = Key(b, j) /\ ~Acked(b.entries[i])
    BY <1>10, <1>13, <2>1 DEF Key
  <2>4. i \in take /\ b.entries[i].attempt = 0 /\ ~config.push
    BY <1>3, <1>11, <2>2, <2>3, SelectedInOrder
  <2> QED
    BY <1>10, <2>1, <2>4
<1> QED
  BY <1>20, <1>21, <1>22

(* A step that changes nothing.                                             *)
LEMMA StutterStep ==
    ASSUME PubSubInv, UNCHANGED vars
    PROVE  PubSubInv' /\ NoneLost /\ KeysKept
<1>1. SubOK(sub', message_counter', next_ack', leased', clock') /\ NoneLost /\ KeysKept
  BY SameSub DEF vars
<1> QED
  BY <1>1 DEF PubSubInv, vars

(* Every step keeps the invariant, and outside a seek loses no message and  *)
(* keeps keys in order.                                                     *)
LEMMA StepOK ==
    ASSUME PubSubInv, [Next]_vars
    PROVE  PubSubInv' /\ (seeks' = seeks => NoneLost /\ KeysKept)
<1>1. ASSUME NEW key \in KeysThatMatter, Publish(key) PROVE PubSubInv' /\ NoneLost /\ KeysKept
  <2>1. key \in Keys \cup {NoKey}
    BY <1>1 DEF KeysThatMatter
  <2> QED
    BY <1>1, <2>1, PublishStep
<1>2. ASSUME NEW max \in PullSizes, pull_with_dead_letters(max)
      PROVE  PubSubInv' /\ NoneLost /\ KeysKept
  <2>1. max \in Nat
    BY <1>2, InstanceAssumption
  <2> QED
    BY <1>2, <2>1, PullStep
<1>3. ASSUME NEW max \in PullSizes, pull_refused(max) PROVE PubSubInv' /\ NoneLost /\ KeysKept
  BY <1>3, PullRefusedStep
<1>4. ASSUME \/ retry_pending_dead_letters \/ TransferRefused \/ DestinationFull
             \/ TransferPublished \/ complete_dead_letter
      PROVE  PubSubInv' /\ NoneLost /\ KeysKept
  BY <1>4, RetryStep, RefusedStep, DestinationFullStep, PublishedStep, CompleteStep
<1>5. ASSUME NEW ack \in DOMAIN leased, Acknowledge(ack) PROVE PubSubInv' /\ NoneLost /\ KeysKept
  BY <1>5, AcknowledgeStep
<1>6. ASSUME NEW ack \in DOMAIN leased,
             ModifyAckDeadline(ack, 0) \/ ModifyAckDeadline(ack, AckDeadline + 1)
      PROVE  PubSubInv' /\ NoneLost /\ KeysKept
  <2>1. 0 \in Nat /\ AckDeadline + 1 \in Nat
    BY DeadlineAssumption
  <2> QED
    BY <1>6, <2>1, ModifyStep
<1>7. ASSUME expire_all PROVE PubSubInv' /\ NoneLost /\ KeysKept
  BY <1>7, ExpireStep
<1>8. ASSUME NEW time \in 0 .. MaxClock, SeekToTime(time) PROVE PubSubInv' /\ seeks' # seeks
  BY <1>8, SeekToTimeStep
<1>9. ASSUME SeekToSnapshot PROVE PubSubInv' /\ seeks' # seeks
  BY <1>9, SeekToSnapshotStep
<1>10. ASSUME create_snapshot \/ set_resource_policy \/ replace_config
       PROVE  PubSubInv' /\ NoneLost /\ KeysKept
  BY <1>10, CaptureStep, PolicyStep, ConfigStep
<1>11. ASSUME UNCHANGED vars PROVE PubSubInv' /\ NoneLost /\ KeysKept
  BY <1>11, StutterStep
<1> QED
  BY <1>1, <1>2, <1>3, <1>4, <1>5, <1>6, <1>7, <1>8, <1>9, <1>10, <1>11 DEF Next

-----------------------------------------------------------------------------
(* The theorems.                                                            *)

(* The inductive invariant holds throughout.                                *)
THEOREM PubSubInvHolds == Spec => []PubSubInv
<1>1. Init => PubSubInv
  BY InitOK
<1>2. PubSubInv /\ [Next]_vars => PubSubInv'
  BY StepOK
<1> QED
  BY <1>1, <1>2, PTL DEF Spec

(* An ack id is indexed exactly while its lease is open, at the message it  *)
(* was handed out for, and nothing behind the cursor waits, for every       *)
(* configuration and every sequence of pulls, seeks and reclaims.           *)
(* rebuild_indexes, expire_deadlines, acknowledge, pull_with_admission.     *)
THEOREM IndexesAlwaysAgree == Spec => []IndexesAgree
<1>1. PubSubInv => IndexesAgree
  <2> SUFFICES ASSUME PubSubInv PROVE IndexesAgree
    OBVIOUS
  <2>1. /\ OutstandingOK(sub.entries, sub.outstanding)
        /\ CursorOK(sub.entries, sub.first_unacked)
        /\ LeaseOK(sub.entries, leased, clock)
    BY DEF PubSubInv, SubOK, IndexOK
  <2>2. \A a \in DOMAIN sub.outstanding :
          LET i == sub.outstanding[a]
          IN  i \in Leased(sub.entries) /\ sub.entries[i].ack = a /\ sub.entries[i].msg.id = leased[a]
    BY <2>1 DEF OutstandingOK, LeaseOK
  <2> QED
    BY <2>1, <2>2 DEF IndexesAgree, OutstandingOK, CursorOK
<1> QED
  BY <1>1, PubSubInvHolds, PTL

(* A message the destination admitted is finished at its source, or is the  *)
(* one whose completion the holder of the gate still owes.                  *)
(* commit_dead_letter, lock_dead_letter.                                    *)
THEOREM TransfersAreFinal == Spec => []TransferredIsDone
<1>1. PubSubInv => TransferredIsDone
  <2> SUFFICES ASSUME PubSubInv PROVE TransferredIsDone
    OBVIOUS
  <2>1. DoneOK(sub.entries, transferred, gate)
    BY DEF PubSubInv
  <2> QED
    BY <2>1 DEF DoneOK, TransferredIsDone, Pending, pending_forwards
<1> QED
  BY <1>1, PubSubInvHolds, PTL

(* A keyed message is reserved for transfer only as the first message of    *)
(* its key that is not acknowledged.  pull_with_admission's emitted_keys.   *)
THEOREM TransfersKeepKeyOrder == Spec => []TransferKeepsKeyOrder
<1>1. PubSubInv => TransferKeepsKeyOrder
  <2> SUFFICES ASSUME PubSubInv PROVE TransferKeepsKeyOrder
    OBVIOUS
  <2>1. ReservedFirst(config, sub.entries)
    BY DEF PubSubInv
  <2> QED
    BY <2>1 DEF ReservedFirst, TransferKeepsKeyOrder, pending_forwards, Key
<1> QED
  BY <1>1, PubSubInvHolds, PTL

(* Outside a seek, a message that is not acknowledged stays in the log, and *)
(* turns acknowledged only by its own ack id or its published transfer.     *)
(* enqueue's reclaim, acknowledge, complete_forward.                        *)
THEOREM MessagesAreNotLost == Spec => NothingIsLost
<1>1. PubSubInv /\ [Next]_vars => (seeks' = seeks => NoneLost)
  BY StepOK
<1>2. (seeks' = seeks => NoneLost) <=>
      (seeks' = seeks =>
        \A id \in UnackedIds(sub.entries) :
            \/ id \in UnackedIds(sub'.entries)
            \/ gate.phase = "complete" /\ Head(gate.queue) = id
            \/ \E i \in Leased(sub.entries) : /\ sub.entries[i].msg.id = id
                                              /\ leased[sub.entries[i].ack] = id
                                              /\ sub' = acknowledge(sub, sub.entries[i].ack))
  BY DEF NoneLost
<1> QED
  BY <1>1, <1>2, PubSubInvHolds, PTL DEF Spec, NothingIsLost

(* A keyed message is handed out while an earlier message of its key waits  *)
(* only if both go out for the first time in the same response of a pulled  *)
(* subscription.  pull_with_admission's blocked_keys and emitted_keys.      *)
THEOREM KeysStayInOrder == Spec => KeyOrder
<1>1. PubSubInv /\ [Next]_vars => (seeks' = seeks => KeysKept)
  BY StepOK
<1>2. (seeks' = seeks => KeysKept) =>
      (config.ordered /\ seeks' = seeks /\ Len(sub'.entries) = Len(sub.entries) =>
        \A j \in DOMAIN sub'.entries : \A i \in 1 .. j - 1 :
            LET earlier == sub'.entries[i]
                later   == sub'.entries[j]
            IN  /\ later.msg.key # NoKey /\ earlier.msg.key = later.msg.key
                /\ later.state = "Outstanding" /\ later.ack >= next_ack /\ ~Acked(earlier)
                => /\ earlier.state = "Outstanding" /\ earlier.ack >= next_ack
                   /\ earlier.attempt = 1 /\ ~config.push)
  BY DEF KeysKept
<1> QED
  BY <1>1, <1>2, PubSubInvHolds, PTL DEF Spec, KeyOrder

(* Where the restored log fits, a seek makes the whole backlog of the       *)
(* snapshot available as undelivered.  seek_to_snapshot.                    *)
THEOREM SeeksRestoreInRoom == Spec => SeekRestoresBacklogInRoom
<1>1. PubSubInv /\ [Next]_vars =>
        (SeekToSnapshot /\ ~must_reclaim(config, sub, snapshot) =>
           \A id \in snapshot.unacked : Restored(id))
  BY SeekToSnapshotStep
<1> QED
  BY <1>1, PubSubInvHolds, PTL DEF Spec, SeekRestoresBacklogInRoom

-----------------------------------------------------------------------------
(* The dispatcher.                                                          *)

(* A set of positions has nothing before its least element, and the empty   *)
(* set has nothing before any.                                              *)
LEMMA NothingBefore ==
    /\ \A i : Before({}, i) = 0
    /\ \A S, i : (\A j \in S : ~ (j < i)) => Before(S, i) = 0
<1>1. \A S, i : (\A j \in S : ~ (j < i)) => {j \in S : j < i} = {}
  OBVIOUS
<1>2. Cardinality({}) = 0
  BY FS_EmptySet
<1>3. \A S, i : (\A j \in S : ~ (j < i)) => Before(S, i) = 0
  BY <1>1, <1>2 DEF Before
<1> QED
  BY <1>3

(* For a push subscription, what one pull would find exists exactly when    *)
(* some head of a key is deliverable.                                       *)
LEMMA HeadsAreFound ==
    ASSUME NEW c, NEW s, NEW now, NEW authorized, IndexOK(s), s.entries \in Seq(Entry), c.push
    PROVE  (\E i \in Heads(c, s) : Deliverable(s.entries[i], now))
             <=> selected(c, s, now, authorized, 1) \cup forwarded(c, s, now, authorized, 1) # {}
<1>1. PICK able : able = Selectable(c, s, now, authorized)
  OBVIOUS
<1>2. PICK only : only = unkeyed_only(c, s, now, authorized)
  OBVIOUS
<1>3. Positions(s) \subseteq Nat
  BY DEF IndexOK, CursorOK, Positions
<1>4. able \in SUBSET Positions(s)
  BY <1>1 DEF Selectable, Reached, Considered
<1>5. Considered(c, s, now, authorized)
        = {i \in Positions(s) : ~Acked(s.entries[i]) /\ (only => Key(s, i) = NoKey)}
  BY <1>2 DEF Considered
<1>6. ASSUME able # {} PROVE selected(c, s, now, authorized, 1) # {}
  <2>1. able \in SUBSET Nat
    BY <1>3, <1>4
  <2>2. PICK i \in able : \A k \in able : i <= k
    BY <1>6, <2>1, LeastPosition
  <2>3. \A k \in able : ~ (k < i)
    BY <2>1, <2>2
  <2>4. Before(able, i) = 0
    BY <2>3, NothingBefore
  <2>5. Before(able, i) < 1
    BY <2>4
  <2> QED
    BY <1>1, <2>2, <2>5 DEF selected
<1>7. ASSUME NEW i \in Heads(c, s), Deliverable(s.entries[i], now)
      PROVE  selected(c, s, now, authorized, 1) \cup forwarded(c, s, now, authorized, 1) # {}
  <2>1. i \in Positions(s) /\ ~Acked(s.entries[i])
    BY DEF Heads
  <2>2. CASE able # {}
    BY <1>6, <2>2
  <2>3. CASE able = {}
    <3>1. ~ only
      <4>1. ASSUME only PROVE FALSE
        <5>1. PICK h \in Positions(s) : /\ Key(s, h) = NoKey
                                        /\ Deliverable(s.entries[h], now)
                                        /\ ~Exhausted(c, authorized, s.entries[h])
          BY <1>2, <4>1 DEF unkeyed_only
        <5>2. ~Acked(s.entries[h])
          BY <5>1 DEF Deliverable, Acked
        <5>3. h \in Considered(c, s, now, authorized)
          BY <1>5, <5>1, <5>2
        <5>4. Predecessors(c, s, h, now, authorized) = {}
          BY <5>1 DEF Predecessors, Keyed
        <5>5. h \in able
          BY <1>1, <5>1, <5>3, <5>4 DEF Selectable, Reached
        <5> QED
          BY <2>3, <5>5
      <4> QED
        BY <4>1
    <3>2. i \in Considered(c, s, now, authorized)
      BY <1>5, <2>1, <3>1
    <3>3. Predecessors(c, s, i, now, authorized) = {}
      <4>1. \A j \in Considered(c, s, now, authorized) : j \in Positions(s) /\ ~Acked(s.entries[j])
        BY <1>5
      <4>2. Keyed(c, s, i) =>
              \A j \in Positions(s) : j < i /\ Key(s, j) = Key(s, i) => Acked(s.entries[j])
        BY <1>7 DEF Heads
      <4> QED
        BY <4>1, <4>2 DEF Predecessors
    <3>4. i \in Reached(c, s, now, authorized)
      BY <3>2, <3>3 DEF Reached
    <3>5. Exhausted(c, authorized, s.entries[i])
      BY <1>1, <1>7, <2>3, <3>4 DEF Selectable
    <3>6. Before(able, i) = 0 /\ 0 < 1
      BY <2>3, NothingBefore
    <3>7. i \in forwarded(c, s, now, authorized, 1)
      BY <1>1, <1>7, <3>3, <3>4, <3>5, <3>6 DEF forwarded
    <3> QED
      BY <3>7
  <2> QED
    BY <2>2, <2>3
<1>8. ASSUME NEW i \in selected(c, s, now, authorized, 1) \cup forwarded(c, s, now, authorized, 1)
      PROVE  i \in Heads(c, s) /\ Deliverable(s.entries[i], now)
  <2>1. i \in Reached(c, s, now, authorized) /\ Deliverable(s.entries[i], now)
    BY <1>8 DEF selected, forwarded, Selectable
  <2>2. i \in Considered(c, s, now, authorized)
    BY <2>1 DEF Reached
  <2>3. i \in Positions(s) /\ ~Acked(s.entries[i]) /\ (only => Key(s, i) = NoKey)
    BY <1>5, <2>2
  <2>4. ASSUME Keyed(c, s, i), NEW j \in Positions(s), j < i, Key(s, j) = Key(s, i),
               ~Acked(s.entries[j])
        PROVE  FALSE
    <3>1. ~ only
      BY <2>3, <2>4 DEF Keyed
    <3>2. j \in Considered(c, s, now, authorized)
      BY <1>5, <2>4, <3>1
    <3>3. j \in Predecessors(c, s, i, now, authorized)
      BY <2>4, <3>2 DEF Predecessors
    <3>4. ~HoldsSuccessors(c, s, j, now, authorized)
      BY <2>1, <3>3 DEF Reached
    <3> QED
      BY <3>4 DEF HoldsSuccessors
  <2> QED
    BY <2>1, <2>3, <2>4 DEF Heads
<1>9. ASSUME selected(c, s, now, authorized, 1) \cup forwarded(c, s, now, authorized, 1) # {}
      PROVE  \E i \in Heads(c, s) : Deliverable(s.entries[i], now)
  BY <1>8, <1>9
<1> QED
  BY <1>7, <1>9

(* The dispatcher's instant is the least one of the heads that wait.        *)
LEMMA NextInstantIs ==
    ASSUME NEW c, NEW s, NEW now \in Nat, IndexOK(s), s.entries \in Seq(Entry)
    PROVE  (next_available_at(c, s) # NoInstant /\ next_available_at(c, s) <= now)
             <=> \E i \in Heads(c, s) : Deliverable(s.entries[i], now)
<1>1. PICK W : W = {j \in Heads(c, s) : s.entries[j].state = "Available"}
  OBVIOUS
<1>2. PICK T : T = {s.entries[i].at : i \in W}
  OBVIOUS
<1>3. next_available_at(c, s)
        = IF T = {} THEN NoInstant ELSE CHOOSE t \in T : \A u \in T : t <= u
  BY <1>1, <1>2 DEF next_available_at
<1>4. \A i \in Heads(c, s) : i \in DOMAIN s.entries
  <2>1. s.first_unacked \in Nat /\ s.first_unacked >= 1
    BY DEF IndexOK, CursorOK
  <2>2. DOMAIN s.entries = 1 .. Len(s.entries) /\ Len(s.entries) \in Nat
    OBVIOUS
  <2> QED
    BY <2>1, <2>2 DEF Heads, Positions
<1>5. T \in SUBSET Nat
  <2>1. \A i \in W : s.entries[i].at \in Nat
    BY <1>1, <1>4, EntryIs
  <2> QED
    BY <1>2, <2>1
<1>6. (\E i \in Heads(c, s) : Deliverable(s.entries[i], now)) <=> \E t \in T : t <= now
  BY <1>1, <1>2 DEF Deliverable
<1>7. CASE T = {}
  BY <1>3, <1>6, <1>7
<1>8. CASE T # {}
  <2>1. PICK t \in T : \A u \in T : t <= u
    BY <1>5, <1>8, LeastPosition
  <2>2. PICK x : x = CHOOSE v \in T : \A u \in T : v <= u
    OBVIOUS
  <2>3. x \in T /\ \A u \in T : x <= u
    BY <2>1, <2>2
  <2>4. next_available_at(c, s) = x
    BY <1>3, <1>8, <2>2
  <2>5. x # NoInstant
    BY <1>5, <2>3 DEF NoInstant
  <2>6. x <= now <=> \E u \in T : u <= now
    BY <1>5, <2>3
  <2> QED
    BY <1>6, <2>4, <2>5, <2>6
<1> QED
  BY <1>7, <1>8

(* The push dispatcher never sleeps past work a pull would find and is      *)
(* never woken for nothing.  next_available_at, run_push_quantum.           *)
THEOREM DispatcherIsWokenForWork == Spec => []DispatcherIsNotMisled
<1>1. PubSubInv => DispatcherIsNotMisled
  <2> SUFFICES ASSUME PubSubInv, config.push, Authorized \/ pending_forwards(sub) = {}
               PROVE  (next_available_at(config, sub) # NoInstant
                        /\ next_available_at(config, sub) <= clock)
                      <=> selected(config, PullBase, clock, Authorized, 1)
                            \cup forwarded(config, PullBase, clock, Authorized, 1) # {}
    BY DEF DispatcherIsNotMisled
  <2>1. PICK b : b = PullBase
    OBVIOUS
  <2>2. b = sub
    BY <2>1, PullBaseOK
  <2>3. IndexOK(sub) /\ sub.entries \in Seq(Entry) /\ clock \in Nat
    BY InvParts DEF SubOK
  <2>4. PICK authorized : authorized = Authorized
    OBVIOUS
  <2>5. (\E i \in Heads(config, sub) : Deliverable(sub.entries[i], clock))
          <=> selected(config, sub, clock, authorized, 1)
                \cup forwarded(config, sub, clock, authorized, 1) # {}
    BY <2>3, HeadsAreFound
  <2>6. (next_available_at(config, sub) # NoInstant /\ next_available_at(config, sub) <= clock)
          <=> \E i \in Heads(config, sub) : Deliverable(sub.entries[i], clock)
    BY <2>3, NextInstantIs
  <2> QED
    BY <2>1, <2>2, <2>4, <2>5, <2>6
<1> QED
  BY <1>1, PubSubInvHolds, PTL

-----------------------------------------------------------------------------
(* The pull's loop.                                                         *)

\* f is what the loop has done before each of the first m positions.
IsLoop(s, now, max, only, m, f) ==
    f = [n \in 1 .. m |-> IF n <= s.first_unacked THEN Unvisited
                          ELSE Visited(s, now, max, only, n - 1, f[n - 1])]

(* The recursion of PullLoop has a solution.                                *)
LEMMA LoopExists ==
    ASSUME NEW s, NEW now, NEW max, NEW only, NEW N \in Nat, s.first_unacked \in Nat \ {0}
    PROVE  \E f : IsLoop(s, now, max, only, N, f)
<1> DEFINE S == {m \in 0 .. N : \E f : IsLoop(s, now, max, only, m, f)}
<1>1. 0 \in S
  <2>1. PICK f : f = [n \in 1 .. 0 |-> Unvisited]
    OBVIOUS
  <2>2. IsLoop(s, now, max, only, 0, f)
    BY <2>1 DEF IsLoop
  <2> QED
    BY <2>2
<1>2. ASSUME NEW m \in 1 .. N, m - 1 \in S PROVE m \in S
  <2>1. PICK p \in Nat : p = m - 1
    OBVIOUS
  <2>2. PICK f : IsLoop(s, now, max, only, p, f)
    BY <1>2, <2>1
  <2>3. PICK F \in Nat \ {0} : F = s.first_unacked
    OBVIOUS
  <2>4. \A n \in 1 .. p : f[n] = IF n <= F THEN Unvisited ELSE Visited(s, now, max, only, n - 1, f[n - 1])
    BY <2>2, <2>3 DEF IsLoop
  <2>5. PICK g : g = [n \in 1 .. m |-> IF n <= F THEN Unvisited ELSE Visited(s, now, max, only, n - 1, f[n - 1])]
    OBVIOUS
  <2>6. \A n \in 1 .. p : g[n] = f[n]
    BY <2>1, <2>4, <2>5
  <2>7. \A n \in 1 .. m : n > F => n - 1 \in 1 .. p
    BY <2>1, <2>3
  <2>8. \A n \in 1 .. m : n > F => g[n - 1] = f[n - 1]
    BY <2>6, <2>7
  <2>9. \A n \in 1 .. m : g[n] = IF n <= F THEN Unvisited ELSE Visited(s, now, max, only, n - 1, g[n - 1])
    BY <2>3, <2>5, <2>8
  <2>10. g = [n \in 1 .. m |-> IF n <= F THEN Unvisited ELSE Visited(s, now, max, only, n - 1, g[n - 1])]
    BY <2>5, <2>9
  <2>11. IsLoop(s, now, max, only, m, g)
    BY <2>3, <2>10 DEF IsLoop
  <2> QED
    BY <2>11
<1>3. \A m \in 0 .. N : m \in S
  <2> HIDE DEF S
  <2> QED
    BY <1>1, <1>2, StepByStep
<1> QED
  BY <1>3

LEMMA LoopIs ==
    ASSUME NEW s, NEW now, NEW max, Len(s.entries) \in Nat, s.first_unacked \in Nat \ {0}
    PROVE  \E f : /\ IsLoop(s, now, max, unkeyed_only(config, s, now, Authorized), Len(s.entries) + 1, f)
                  /\ PullLoop(s, now, max) = f[Len(s.entries) + 1]
<1>1. PICK N \in Nat : N = Len(s.entries) + 1
  OBVIOUS
<1>2. PICK only : only = unkeyed_only(config, s, now, Authorized)
  OBVIOUS
<1>3. PICK f : f = CHOOSE g : IsLoop(s, now, max, only, N, g)
  OBVIOUS
<1>4. \E g : IsLoop(s, now, max, only, N, g)
  BY LoopExists
<1>5. IsLoop(s, now, max, only, N, f)
  BY <1>3, <1>4
<1>6. PullLoop(s, now, max)
        = (CHOOSE g : g = [n \in 1 .. Len(s.entries) + 1 |->
              IF n <= s.first_unacked THEN Unvisited
              ELSE Visited(s, now, max, unkeyed_only(config, s, now, Authorized), n - 1, g[n - 1])])
          [Len(s.entries) + 1]
  BY DEF PullLoop
<1>7. PullLoop(s, now, max) = f[N]
  BY <1>1, <1>2, <1>3, <1>6 DEF IsLoop
<1> QED
  BY <1>1, <1>2, <1>5, <1>7

(* What a visit does.                                                       *)
IsVisit(w) ==
    w = [selected |-> w.selected, forwarded |-> w.forwarded, blocked |-> w.blocked, emitted |-> w.emitted]

LEMMA VisitPasses ==
    ASSUME NEW s, NEW now, NEW max, NEW only, NEW i, NEW w, PassedOver(s, max, only, i, w)
    PROVE  Visited(s, now, max, only, i, w) = w
BY DEF Visited

Acts(s, now, i, w, y) ==
    LET e == s.entries[i]
        k == Key(s, i)
        able == Deliverable(e, now) /\ ~Exhausted(config, Authorized, e)
        spent == Deliverable(e, now) /\ Exhausted(config, Authorized, e)
        ordered == Keyed(config, s, i)
    IN  /\ IsVisit(y)
        /\ y.selected = IF able THEN w.selected \cup {i} ELSE w.selected
        /\ y.forwarded = IF spent /\ ~(ordered /\ k \in w.emitted)
                         THEN w.forwarded \cup {i} ELSE w.forwarded
        /\ y.blocked = IF ordered /\ HoldsSuccessors(config, s, i, now, Authorized)
                       THEN w.blocked \cup {k} ELSE w.blocked
        /\ y.emitted = IF able /\ ordered THEN w.emitted \cup {k} ELSE w.emitted

LEMMA VisitActs ==
    ASSUME NEW s, NEW now, NEW max, NEW only, NEW i, NEW w, ~PassedOver(s, max, only, i, w), IsVisit(w),
           NEW y, y = Visited(s, now, max, only, i, w)
    PROVE  Acts(s, now, i, w, y)
<1>1. CASE ~Deliverable(s.entries[i], now)
  BY <1>1 DEF Acts, Visited, IsVisit, Keyed, HoldsSuccessors
<1>2. CASE Deliverable(s.entries[i], now) /\ Exhausted(config, Authorized, s.entries[i])
  <2>1. CASE Keyed(config, s, i) /\ Key(s, i) \in w.emitted
    BY <1>2, <2>1 DEF Acts, Visited, IsVisit, Keyed, HoldsSuccessors
  <2>2. CASE ~ (Keyed(config, s, i) /\ Key(s, i) \in w.emitted)
    BY <1>2, <2>2 DEF Acts, Visited, IsVisit, Keyed, HoldsSuccessors
  <2> QED
    BY <2>1, <2>2
<1>3. CASE Deliverable(s.entries[i], now) /\ ~Exhausted(config, Authorized, s.entries[i])
  <2>1. CASE config.push \/ s.entries[i].attempt > 0
    BY <1>3, <2>1 DEF Acts, Visited, IsVisit, Keyed, HoldsSuccessors
  <2>2. CASE ~ (config.push \/ s.entries[i].attempt > 0)
    BY <1>3, <2>2 DEF Acts, Visited, IsVisit, Keyed, HoldsSuccessors
  <2> QED
    BY <2>1, <2>2
<1> QED
  BY <1>1, <1>2, <1>3

(* One position further there is one more before it, if it belongs.         *)
LEMMA BeforeNext ==
    ASSUME NEW N \in Nat, NEW S \in SUBSET (1 .. N), NEW i \in Nat
    PROVE  /\ Before(S, i) \in Nat
           /\ Before(S, i + 1) = IF i \in S THEN Before(S, i) + 1 ELSE Before(S, i)
<1>1. PICK B : B = {j \in S : j < i}
  OBVIOUS
<1>2. IsFiniteSet(B) /\ Cardinality(B) \in Nat /\ i \notin B
  <2>1. B \in SUBSET (1 .. N)
    BY <1>1
  <2>2. ~ (i < i)
    OBVIOUS
  <2>3. i \notin B
    BY <1>1, <2>2
  <2> QED
    BY <2>1, <2>3, PositionsAreFinite
<1>3. Before(S, i) = Cardinality(B)
  BY <1>1 DEF Before
<1>4. \A j \in S : j < i + 1 <=> j < i \/ j = i
  OBVIOUS
<1>5. CASE i \in S
  <2>1. {j \in S : j < i + 1} = B \cup {i}
    BY <1>1, <1>4, <1>5
  <2>2. Cardinality(B \cup {i}) = Cardinality(B) + 1
    BY <1>2, FS_AddElement
  <2> QED
    BY <1>2, <1>3, <1>5, <2>1, <2>2 DEF Before
<1>6. CASE i \notin S
  <2>1. {j \in S : j < i + 1} = B
    BY <1>1, <1>4, <1>6
  <2> QED
    BY <1>2, <1>3, <1>6, <2>1 DEF Before
<1> QED
  BY <1>5, <1>6

\* The key is of an entry of C before position n that takes part in ordering.
Marked(s, C, n, k) == \E j \in C : j < n /\ Keyed(config, s, j) /\ Key(s, j) = k

Holding(s, now) ==
    {j \in Considered(config, s, now, Authorized) : HoldsSuccessors(config, s, j, now, Authorized)}

(* Before position n the loop has chosen the entries before n, and, while   *)
(* the batch has room, knows the keys held back and the keys emitted.       *)
LoopOK(s, now, max, n, w) ==
    LET able == Selectable(config, s, now, Authorized)
    IN  /\ IsVisit(w)
        /\ \A i : i \in w.selected <=> i \in selected(config, s, now, Authorized, max) /\ i < n
        /\ \A i : i \in w.forwarded <=> i \in forwarded(config, s, now, Authorized, max) /\ i < n
        /\ IsFiniteSet(w.selected)
        /\ Cardinality(w.selected) = IF Before(able, n) < max THEN Before(able, n) ELSE max
        /\ Before(able, n) < max =>
             /\ \A k : k \in w.blocked <=> Marked(s, Holding(s, now), n, k)
             /\ \A k : k \in w.emitted <=> Marked(s, able, n, k)

LEMMA LoopStarts ==
    ASSUME NEW s, NEW now, NEW max \in Nat \ {0}, NEW N \in Nat, N = Len(s.entries),
           s.first_unacked \in 1 .. N + 1
    PROVE  LoopOK(s, now, max, s.first_unacked, Unvisited)
<1>1. PICK F \in Nat : F = s.first_unacked
  OBVIOUS
<1>2. \A i \in Considered(config, s, now, Authorized) : ~ (i < F)
  BY <1>1 DEF Considered, Positions
<1>3. PICK able : able = Selectable(config, s, now, Authorized)
  OBVIOUS
<1>4. \A i \in able : ~ (i < F)
  BY <1>2, <1>3 DEF Selectable, Reached
<1>5. Before(able, F) = 0
  BY <1>4, NothingBefore
<1>6. \A i \in Holding(s, now) : ~ (i < F)
  BY <1>2 DEF Holding
<1>7. \A i \in selected(config, s, now, Authorized, max) : ~ (i < F)
  BY <1>3, <1>4 DEF selected
<1>8. \A i \in forwarded(config, s, now, Authorized, max) : ~ (i < F)
  BY <1>2 DEF forwarded, Reached
<1>9. IsFiniteSet({}) /\ Cardinality({}) = 0
  BY FS_EmptySet
<1>10. (\A k : ~Marked(s, able, F, k)) /\ (\A k : ~Marked(s, Holding(s, now), F, k))
  BY <1>4, <1>6 DEF Marked
<1> QED
  BY <1>1, <1>3, <1>5, <1>7, <1>8, <1>9, <1>10 DEF LoopOK, Unvisited, IsVisit

(* One position further.                                                    *)
LEMMA MarkedNext ==
    ASSUME NEW s, NEW C, NEW i \in Nat, \A j \in C : j \in Nat, NEW k
    PROVE  Marked(s, C, i + 1, k)
             <=> Marked(s, C, i, k) \/ (i \in C /\ Keyed(config, s, i) /\ Key(s, i) = k)
<1>1. \A j \in C : j < i + 1 <=> j < i \/ j = i
  OBVIOUS
<1> QED
  BY <1>1 DEF Marked

(* A full batch takes nothing more.                                         *)
LEMMA LoopFull ==
    ASSUME NEW s, NEW now, NEW max \in Nat \ {0}, NEW N \in Nat, N = Len(s.entries),
           s.first_unacked \in 1 .. N + 1, NEW i \in Positions(s), NEW w, LoopOK(s, now, max, i, w),
           NEW only, NEW able, able = Selectable(config, s, now, Authorized), ~ (Before(able, i) < max)
    PROVE  LoopOK(s, now, max, i + 1, Visited(s, now, max, only, i, w))
<1>0. i \in Nat /\ able \in SUBSET (1 .. N)
  BY DEF Positions, Selectable, Reached, Considered
<1>1. Before(able, i) \in Nat /\ Before(able, i + 1) = IF i \in able THEN Before(able, i) + 1 ELSE Before(able, i)
  BY <1>0, BeforeNext
<1>2. ~ (Before(able, i + 1) < max)
  BY <1>1
<1>3. Cardinality(w.selected) = max
  BY DEF LoopOK
<1>4. Visited(s, now, max, only, i, w) = w
  BY <1>3, VisitPasses DEF PassedOver
<1>5. \A j \in selected(config, s, now, Authorized, max) : j \in 1 .. N /\ j # i
  BY <1>0 DEF selected
<1>6. \A j \in forwarded(config, s, now, Authorized, max) : j \in 1 .. N /\ j # i
  BY DEF forwarded, Reached, Considered, Positions
<1>7. \A j \in 1 .. N : j # i => (j < i + 1 <=> j < i)
  BY <1>0
<1>8. \A j : j \in w.selected <=> j \in selected(config, s, now, Authorized, max) /\ j < i + 1
  BY <1>5, <1>7 DEF LoopOK
<1>9. \A j : j \in w.forwarded <=> j \in forwarded(config, s, now, Authorized, max) /\ j < i + 1
  BY <1>6, <1>7 DEF LoopOK
<1> QED
  BY <1>2, <1>3, <1>4, <1>8, <1>9 DEF LoopOK

(* What the loop knows of an entry when it comes to it.                     *)
LEMMA VisitKnows ==
    ASSUME NEW s, NEW now, NEW max \in Nat \ {0}, NEW N \in Nat, N = Len(s.entries),
           s.first_unacked \in 1 .. N + 1, NEW i \in Positions(s), NEW w, LoopOK(s, now, max, i, w),
           NEW only, only = unkeyed_only(config, s, now, Authorized),
           NEW able, able = Selectable(config, s, now, Authorized), Before(able, i) < max
    PROVE  /\ ~PassedOver(s, max, only, i, w) <=> i \in Reached(config, s, now, Authorized)
           /\ i \in Considered(config, s, now, Authorized) /\ i \notin Reached(config, s, now, Authorized) =>
                Keyed(config, s, i) /\ Key(s, i) \in w.blocked
           /\ Keyed(config, s, i) /\ Key(s, i) \in w.emitted
                <=> Predecessors(config, s, i, now, Authorized) \cap able # {}
<1>1. PICK C : C = Considered(config, s, now, Authorized)
  OBVIOUS
<1>2. i \in C <=> ~Acked(s.entries[i]) /\ ~ (only /\ Key(s, i) # NoKey)
  BY <1>1 DEF Considered
<1>3. Cardinality(w.selected) = Before(able, i)
  BY DEF LoopOK
<1>4. Before(able, i) \in Nat /\ i \in Nat
  <2>1. i \in Nat /\ able \in SUBSET (1 .. N)
    BY DEF Positions, Selectable, Reached, Considered
  <2> QED
    BY <2>1, BeforeNext
<1>5. ~ (Cardinality(w.selected) >= max)
  BY <1>3, <1>4
<1>6. Keyed(config, s, i) /\ Key(s, i) \in w.blocked
        <=> Keyed(config, s, i) /\ \E j \in C : /\ j < i /\ Key(s, j) = Key(s, i)
                                                /\ HoldsSuccessors(config, s, j, now, Authorized)
  <2>1. Key(s, i) \in w.blocked <=> Marked(s, Holding(s, now), i, Key(s, i))
    BY DEF LoopOK
  <2> QED
    BY <1>1, <2>1 DEF Marked, Holding, Keyed
<1>7. i \in C => (i \in Reached(config, s, now, Authorized)
                    <=> ~ (Keyed(config, s, i) /\ Key(s, i) \in w.blocked))
  BY <1>1, <1>6 DEF Reached, Predecessors
<1>8. i \in Reached(config, s, now, Authorized) => i \in C
  BY <1>1 DEF Reached
<1>9. PassedOver(s, max, only, i, w)
        <=> i \notin C \/ (Keyed(config, s, i) /\ Key(s, i) \in w.blocked)
  BY <1>2, <1>5 DEF PassedOver, Keyed
<1>10. Keyed(config, s, i) /\ Key(s, i) \in w.emitted
         <=> Predecessors(config, s, i, now, Authorized) \cap able # {}
  <2>1. Key(s, i) \in w.emitted <=> Marked(s, able, i, Key(s, i))
    BY DEF LoopOK
  <2>2. \A j \in able : j \in C
    BY <1>1 DEF Selectable, Reached
  <2> QED
    BY <1>1, <2>1, <2>2 DEF Marked, Predecessors, Keyed
<1> QED
  BY <1>1, <1>7, <1>8, <1>9, <1>10

(* While the batch has room, the loop chooses as the selection does.        *)
LEMMA LoopRoom ==
    ASSUME NEW s, NEW now, NEW max \in Nat \ {0}, NEW N \in Nat, N = Len(s.entries),
           s.first_unacked \in 1 .. N + 1, NEW i \in Positions(s), NEW w, LoopOK(s, now, max, i, w),
           NEW only, only = unkeyed_only(config, s, now, Authorized),
           NEW able, able = Selectable(config, s, now, Authorized), Before(able, i) < max
    PROVE  LoopOK(s, now, max, i + 1, Visited(s, now, max, only, i, w))
<1>1. PICK y : y = Visited(s, now, max, only, i, w)
  OBVIOUS
<1>2. PICK R, C : R = Reached(config, s, now, Authorized) /\ C = Considered(config, s, now, Authorized)
  OBVIOUS
<1>3. PICK e, k, H : e = s.entries[i] /\ k = Key(s, i) /\ H = Holding(s, now)
  OBVIOUS
<1>4. PICK out : out = forwarded(config, s, now, Authorized, max)
  OBVIOUS
<1>5. PICK take : take = selected(config, s, now, Authorized, max)
  OBVIOUS
<1>6. /\ ~PassedOver(s, max, only, i, w) <=> i \in R
      /\ i \in C /\ i \notin R => Keyed(config, s, i) /\ k \in w.blocked
      /\ Keyed(config, s, i) /\ k \in w.emitted
           <=> Predecessors(config, s, i, now, Authorized) \cap able # {}
  BY <1>2, <1>3, VisitKnows
<1>7. i \in able <=> i \in R /\ Deliverable(e, now) /\ ~Exhausted(config, Authorized, e)
  BY <1>2, <1>3 DEF Selectable
<1>8. i \in take <=> i \in able
  BY <1>5 DEF selected
<1>9. i \in out <=> /\ i \in R /\ Deliverable(e, now) /\ Exhausted(config, Authorized, e)
                    /\ ~ (Keyed(config, s, i) /\ k \in w.emitted)
  BY <1>2, <1>3, <1>4, <1>6 DEF forwarded
<1>10. i \in H <=> i \in C /\ HoldsSuccessors(config, s, i, now, Authorized)
  BY <1>2, <1>3 DEF Holding
<1>11. IsVisit(w)
  BY DEF LoopOK
<1>12. /\ IsVisit(y)
       /\ y.selected = IF i \in able THEN w.selected \cup {i} ELSE w.selected
       /\ y.forwarded = IF i \in out THEN w.forwarded \cup {i} ELSE w.forwarded
       /\ y.blocked = IF i \in R /\ i \in H /\ Keyed(config, s, i) THEN w.blocked \cup {k} ELSE w.blocked
       /\ y.emitted = IF i \in able /\ Keyed(config, s, i) THEN w.emitted \cup {k} ELSE w.emitted
  <2>1. CASE i \notin R
    BY <1>1, <1>6, <1>7, <1>9, <1>11, <2>1, VisitPasses
  <2>2. CASE i \in R
    <3>1. i \in C
      BY <1>2, <2>2 DEF Reached
    <3>2. /\ IsVisit(y)
          /\ y.selected = IF Deliverable(e, now) /\ ~Exhausted(config, Authorized, e)
                          THEN w.selected \cup {i} ELSE w.selected
          /\ y.forwarded = IF Deliverable(e, now) /\ Exhausted(config, Authorized, e)
                                 /\ ~(Keyed(config, s, i) /\ k \in w.emitted)
                           THEN w.forwarded \cup {i} ELSE w.forwarded
          /\ y.blocked = IF Keyed(config, s, i) /\ HoldsSuccessors(config, s, i, now, Authorized)
                         THEN w.blocked \cup {k} ELSE w.blocked
          /\ y.emitted = IF Deliverable(e, now) /\ ~Exhausted(config, Authorized, e) /\ Keyed(config, s, i)
                         THEN w.emitted \cup {k} ELSE w.emitted
      <4>1. ~PassedOver(s, max, only, i, w)
        BY <1>6, <2>2
      <4>2. Acts(s, now, i, w, y)
        BY <1>1, <1>11, <4>1, VisitActs
      <4> QED
        BY <1>3, <4>2 DEF Acts
    <3> QED
      BY <1>7, <1>9, <1>10, <2>2, <3>1, <3>2
  <2> QED
    BY <2>1, <2>2
<1>13. i \in Nat /\ able \in SUBSET (1 .. N)
  BY DEF Positions, Selectable, Reached, Considered
<1>14. /\ \A j \in able : j \in Nat
       /\ \A j \in H : j \in Nat
       /\ \A j \in take : j \in Nat
       /\ \A j \in out : j \in Nat
  <2>1. \A j \in C : j \in Nat
    BY <1>2 DEF Considered, Positions
  <2>2. \A j \in H : j \in C
    BY <1>2, <1>3 DEF Holding
  <2>3. \A j \in able : j \in C
    BY <1>2 DEF Selectable, Reached
  <2>4. \A j \in take : j \in able
    BY <1>5 DEF selected
  <2>5. \A j \in out : j \in C
    BY <1>2, <1>4 DEF forwarded, Reached
  <2> QED
    BY <2>1, <2>2, <2>3, <2>4, <2>5
<1>15. \A j \in Nat : j < i + 1 <=> j < i \/ j = i
  BY <1>13
<1>16. \A j : j \in y.selected <=> j \in take /\ j < i + 1
  <2>1. \A j : j \in w.selected <=> j \in take /\ j < i
    BY <1>5 DEF LoopOK
  <2>2. \A j : j \in y.selected <=> j \in w.selected \/ (j = i /\ i \in take)
    BY <1>8, <1>12
  <2> QED
    BY <1>14, <1>15, <2>1, <2>2
<1>17. \A j : j \in y.forwarded <=> j \in out /\ j < i + 1
  <2>1. \A j : j \in w.forwarded <=> j \in out /\ j < i
    BY <1>4 DEF LoopOK
  <2>2. \A j : j \in y.forwarded <=> j \in w.forwarded \/ (j = i /\ i \in out)
    BY <1>12
  <2> QED
    BY <1>14, <1>15, <2>1, <2>2
<1>18. \A l : l \in y.blocked <=> Marked(s, H, i + 1, l)
  <2>1. \A l : l \in w.blocked <=> Marked(s, H, i, l)
    BY <1>3 DEF LoopOK
  <2>2. \A l : Marked(s, H, i + 1, l) <=> Marked(s, H, i, l) \/ (i \in H /\ Keyed(config, s, i) /\ k = l)
    BY <1>3, <1>13, <1>14, MarkedNext
  <2>3. i \in H /\ i \notin R => k \in w.blocked
    BY <1>6, <1>10
  <2>4. \A l : l \in y.blocked <=> l \in w.blocked \/ (i \in H /\ Keyed(config, s, i) /\ k = l)
    BY <1>12, <2>3
  <2> QED
    BY <2>1, <2>2, <2>4
<1>19. \A l : l \in y.emitted <=> Marked(s, able, i + 1, l)
  <2>1. \A l : l \in w.emitted <=> Marked(s, able, i, l)
    BY DEF LoopOK
  <2>2. \A l : Marked(s, able, i + 1, l) <=> Marked(s, able, i, l) \/ (i \in able /\ Keyed(config, s, i) /\ k = l)
    BY <1>3, <1>13, <1>14, MarkedNext
  <2>4. \A l : l \in y.emitted <=> l \in w.emitted \/ (i \in able /\ Keyed(config, s, i) /\ k = l)
    BY <1>12
  <2> QED
    BY <2>1, <2>2, <2>4
<1>20. /\ IsFiniteSet(y.selected)
       /\ Cardinality(y.selected) = IF Before(able, i + 1) < max THEN Before(able, i + 1) ELSE max
  <2>1. PICK b \in Nat : b = Before(able, i)
    BY <1>13, BeforeNext
  <2>2. Before(able, i + 1) = IF i \in able THEN b + 1 ELSE b
    BY <1>13, <2>1, BeforeNext
  <2>3. IsFiniteSet(w.selected) /\ Cardinality(w.selected) = b /\ i \notin w.selected /\ b < max
    <3>1. ~ (i < i)
      BY <1>13
    <3> QED
      BY <2>1, <3>1 DEF LoopOK
  <2>4. CASE i \in able
    <3>1. y.selected = w.selected \cup {i}
      BY <1>12, <2>4
    <3>2. IsFiniteSet(w.selected \cup {i}) /\ Cardinality(w.selected \cup {i}) = b + 1
      BY <2>3, FS_AddElement
    <3>3. b + 1 = IF b + 1 < max THEN b + 1 ELSE max
      BY <2>3
    <3> QED
      BY <2>2, <2>4, <3>1, <3>2, <3>3
  <2>5. CASE i \notin able
    BY <1>12, <2>2, <2>3, <2>5
  <2> QED
    BY <2>4, <2>5
<1>21. LoopOK(s, now, max, i + 1, y)
  BY <1>3, <1>4, <1>5, <1>12, <1>16, <1>17, <1>18, <1>19, <1>20 DEF LoopOK
<1> QED
  BY <1>1, <1>21

(* The loop chooses what the selection does.                                *)
LEMMA LoopChooses ==
    ASSUME NEW s, NEW now, NEW max \in Nat \ {0}, NEW N \in Nat, N = Len(s.entries),
           s.first_unacked \in 1 .. N + 1
    PROVE  LoopOK(s, now, max, N + 1, PullLoop(s, now, max))
<1>1. PICK only : only = unkeyed_only(config, s, now, Authorized)
  OBVIOUS
<1>2. PICK able : able = Selectable(config, s, now, Authorized)
  OBVIOUS
<1>3. PICK F \in 1 .. N + 1 : F = s.first_unacked
  OBVIOUS
<1>4. PICK f : IsLoop(s, now, max, only, N + 1, f) /\ PullLoop(s, now, max) = f[N + 1]
  BY <1>1, LoopIs
<1>5. /\ f[F] = Unvisited
      /\ \A n \in 1 .. N + 1 : n > F => f[n] = Visited(s, now, max, only, n - 1, f[n - 1])
  BY <1>3, <1>4 DEF IsLoop
<1> DEFINE S == {m \in 0 .. N + 1 - F : LoopOK(s, now, max, F + m, f[F + m])}
<1>6. 0 \in S
  <2>1. LoopOK(s, now, max, F, Unvisited)
    BY <1>3, LoopStarts
  <2>2. F + 0 = F /\ 0 \in 0 .. N + 1 - F
    OBVIOUS
  <2> QED
    BY <1>5, <2>1, <2>2
<1>7. ASSUME NEW m \in 1 .. N + 1 - F, m - 1 \in S PROVE m \in S
  <2>1. PICK i \in Nat : i = F + (m - 1)
    OBVIOUS
  <2>2. LoopOK(s, now, max, i, f[i])
    BY <1>7, <2>1
  <2>3. i \in F .. N /\ F + m = i + 1 /\ (i + 1) - 1 = i /\ i + 1 \in 1 .. N + 1 /\ i + 1 > F
    BY <2>1
  <2>4. i \in Positions(s)
    BY <1>3, <2>3 DEF Positions
  <2>5. f[i + 1] = Visited(s, now, max, only, i, f[i])
    BY <1>5, <2>3
  <2>6. LoopOK(s, now, max, i + 1, Visited(s, now, max, only, i, f[i]))
    <3>1. CASE Before(able, i) < max
      BY <1>1, <1>2, <2>2, <2>4, <3>1, LoopRoom
    <3>2. CASE ~ (Before(able, i) < max)
      BY <1>1, <1>2, <2>2, <2>4, <3>2, LoopFull
    <3> QED
      BY <3>1, <3>2
  <2>7. LoopOK(s, now, max, F + m, f[F + m])
    BY <2>3, <2>5, <2>6
  <2> QED
    BY <2>7
<1>8. \A m \in 0 .. N + 1 - F : m \in S
  <2>1. N + 1 - F \in Nat
    BY <1>3
  <2> HIDE DEF S
  <2> QED
    BY <1>6, <1>7, <2>1, StepByStep
<1>9. N + 1 - F \in S
  <2>1. N + 1 - F \in 0 .. N + 1 - F
    BY <1>3
  <2> HIDE DEF S
  <2> QED
    BY <1>8, <2>1
<1>10. LoopOK(s, now, max, F + (N + 1 - F), f[F + (N + 1 - F)])
  BY <1>9
<1>11. F + (N + 1 - F) = N + 1
  BY <1>3
<1> QED
  BY <1>4, <1>10, <1>11

(* A pull takes and reserves what the loop over the log would: the closed   *)
(* form of the selection is faithful to pull_with_admission in every        *)
(* reachable state and for every batch size.                                *)
THEOREM SelectionAgreesWithTheLoop == Spec => []SelectionIsTheLoop
<1>1. PubSubInv => SelectionIsTheLoop
  <2> SUFFICES ASSUME PubSubInv, NEW max \in PullSizes
               PROVE  /\ PullLoop(PullBase, clock, max).selected
                           = selected(config, PullBase, clock, Authorized, max)
                      /\ PullLoop(PullBase, clock, max).forwarded
                           = forwarded(config, PullBase, clock, Authorized, max)
    BY DEF SelectionIsTheLoop
  <2>1. PICK b : b = PullBase
    OBVIOUS
  <2>2. IndexOK(b)
    BY <2>1, PullBaseOK DEF SubOK
  <2>3. PICK N \in Nat : N = Len(b.entries) /\ b.first_unacked \in 1 .. N + 1
    BY <2>2 DEF IndexOK, CursorOK
  <2>4. max \in Nat \ {0}
    BY InstanceAssumption
  <2>5. PICK w : w = PullLoop(b, clock, max)
    OBVIOUS
  <2>6. LoopOK(b, clock, max, N + 1, w)
    BY <2>3, <2>4, <2>5, LoopChooses
  <2>7. PICK take, out : /\ take = selected(config, b, clock, Authorized, max)
                         /\ out = forwarded(config, b, clock, Authorized, max)
    OBVIOUS
  <2>8. \A i \in Positions(b) : i < N + 1
    BY <2>3 DEF Positions
  <2>9. (\A i \in take : i < N + 1) /\ (\A i \in out : i < N + 1)
    BY <2>7, <2>8 DEF selected, forwarded, Selectable, Reached, Considered
  <2>10. w.selected = take /\ w.forwarded = out
    BY <2>6, <2>7, <2>9 DEF LoopOK
  <2> QED
    BY <2>1, <2>5, <2>7, <2>10
<1> QED
  BY <1>1, PubSubInvHolds, PTL
===============================================================================
