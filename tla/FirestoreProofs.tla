--------------------------- MODULE FirestoreProofs ---------------------------
(***************************************************************************)
(* FirestoreTransactions for every number of documents, transactions and    *)
(* requests: the bookkeeping of the store agrees with its transactions, its *)
(* history is exact, its clients see a serial store, and only the younger   *)
(* of a deadlock is sacrificed.                                             *)
(*                                                                          *)
(* Every operation of the store is shown to keep StoreInv and, of the       *)
(* transactions it does not serve, to leave at most what Ages allows: they  *)
(* may be ended or forgotten and keep their snapshot.  The steps of the     *)
(* clients then follow by composing operations.                             *)
(***************************************************************************)
EXTENDS FirestoreTransactions, FiniteSetTheorems, WellFoundedInduction, TLAPS

-----------------------------------------------------------------------------
(* Least numbers, and induction over them.                                  *)

(* Every nonempty set of naturals has a least element.                      *)
LEMMA LeastNatural ==
    ASSUME NEW S \in SUBSET Nat, S # {}
    PROVE  \E m \in S : \A k \in S : m <= k
<1> DEFINE R == OpToRel(<, Nat)
<1>1. IsWellFoundedOn(R, Nat)
  BY NatLessThanWellFounded
<1>2. \A k, m \in Nat : k < m => <<k, m>> \in R
  BY DEF OpToRel
<1> HIDE DEF R
<1>3. PICK m \in S : \A k \in S : ~ (<<k, m>> \in R)
  BY <1>1, WFMin
<1>4. \A k \in S : ~ (k < m)
  BY <1>2, <1>3
<1>5. \A k \in S : m <= k
  BY <1>4
<1> QED
  BY <1>5

(* What holds of zero and of each successor holds of every natural.         *)
LEMMA Induction ==
    ASSUME NEW S, 0 \in S, \A n \in Nat : n \in S => n + 1 \in S
    PROVE  \A n \in Nat : n \in S
<1> DEFINE T == {n \in Nat : n \notin S}
<1>1. T \in SUBSET Nat
  OBVIOUS
<1>2. ASSUME T # {} PROVE FALSE
  <2>1. PICK m \in T : \A k \in T : m <= k
    <3> HIDE DEF T
    <3> QED
      BY <1>1, <1>2, LeastNatural
  <2>2. m # 0 /\ m - 1 \in Nat
    BY <2>1
  <2>3. m - 1 \notin T
    BY <2>1, <2>2
  <2>4. (m - 1) + 1 \in S
    BY <2>2, <2>3
  <2> QED
    BY <2>1, <2>2, <2>4
<1> QED
  BY <1>2

(* A nonempty set of naturals with a bound has a greatest element.          *)
LEMMA GreatestNatural ==
    ASSUME NEW S \in SUBSET Nat, S # {}, NEW n \in Nat, \A k \in S : k <= n
    PROVE  \E m \in S : \A k \in S : k <= m
<1> DEFINE T == {n - k : k \in S}
<1>1. T \in SUBSET Nat /\ T # {}
  <2>1. \A k \in S : k \in Nat /\ k <= n
    OBVIOUS
  <2>2. \A k \in S : n - k \in Nat
    BY <2>1
  <2>3. PICK k : k \in S
    OBVIOUS
  <2>4. n - k \in T
    BY <2>3
  <2>5. T \in SUBSET Nat
    BY <2>2
  <2> QED
    BY <2>4, <2>5
<1>2. PICK m \in T : \A k \in T : m <= k
  <2> HIDE DEF T
  <2> QED
    BY <1>1, LeastNatural
<1>3. PICK k \in S : m = n - k
  BY <1>2
<1>4. \A j \in S : n - k <= n - j
  BY <1>2, <1>3
<1> QED
  BY <1>4

(* What Max and Min of the library choose.                                  *)
LEMMA MaxIs ==
    ASSUME NEW S, NEW m \in S, S \subseteq Int, \A k \in S : k <= m
    PROVE  Max(S) = m
<1>1. Max(S) \in S /\ \A k \in S : Max(S) >= k
  <2>1. \E x \in S : \A y \in S : x >= y
    <3>1. \A y \in S : m >= y
      OBVIOUS
    <3> QED
      BY <3>1
  <2> QED
    BY <2>1 DEF Max
<1>2. Max(S) \in Int /\ m \in Int /\ Max(S) >= m /\ Max(S) <= m
  BY <1>1
<1> QED
  BY <1>2

LEMMA MinIs ==
    ASSUME NEW S, NEW m \in S, S \subseteq Int, \A k \in S : m <= k
    PROVE  Min(S) = m
<1>1. Min(S) \in S /\ \A k \in S : Min(S) <= k
  <2>1. \E x \in S : \A y \in S : x =< y
    BY SMT
  <2> QED
    BY <2>1 DEF Min
<1>2. Min(S) \in Int /\ m \in Int /\ Min(S) >= m /\ Min(S) <= m
  BY <1>1
<1> QED
  BY <1>2

(* The greatest number of a bounded set of naturals.                        *)
LEMMA MaxBounded ==
    ASSUME NEW S \in SUBSET Nat, S # {}, NEW n \in Nat, \A k \in S : k <= n
    PROVE  Max(S) \in S /\ Max(S) \in Nat /\ Max(S) <= n /\ \A k \in S : k <= Max(S)
<1>1. PICK m \in S : \A k \in S : k <= m
  BY GreatestNatural
<1>a. S \subseteq Int
  OBVIOUS
<1>2. Max(S) = m
  BY <1>a, <1>1, MaxIs
<1> QED
  BY <1>1, <1>2

LEMMA MinNatural ==
    ASSUME NEW S \in SUBSET Nat, S # {}
    PROVE  Min(S) \in S /\ Min(S) \in Nat /\ \A k \in S : Min(S) <= k
<1>1. PICK m \in S : \A k \in S : m <= k
  BY LeastNatural
<1>a. S \subseteq Int
  OBVIOUS
<1>2. Min(S) = m
  BY <1>a, <1>1, MinIs
<1> QED
  BY <1>1, <1>2

(* Of two numbers.                                                          *)
LEMMA MinMaxPair ==
    ASSUME NEW a \in Nat, NEW b \in Nat
    PROVE  /\ Min({a, b}) = IF a <= b THEN a ELSE b
           /\ Max({a, b}) = IF a <= b THEN b ELSE a
<1>1. CASE a <= b
  <2>1. Min({a, b}) = a
    BY <1>1, MinIs
  <2>2. Max({a, b}) = b
    BY <1>1, MaxIs
  <2> QED
    BY <1>1, <2>1, <2>2
<1>2. CASE ~ (a <= b)
  <2>1. Min({a, b}) = b
    BY <1>2, MinIs
  <2>2. Max({a, b}) = a
    BY <1>2, MaxIs
  <2> QED
    BY <1>2, <2>1, <2>2
<1> QED
  BY <1>1, <1>2

-----------------------------------------------------------------------------
(* The bytes of a set of transactions: the fold of the library chooses a    *)
(* function by its recursive equation.  It exists, and the order in which   *)
(* the elements are taken does not matter.                                  *)

Pick(T) == CHOOSE x \in T : TRUE

\* g sums up the bytes of every subset of T.
IsSum(txs, T, g) ==
    g = [s \in SUBSET T |-> IF s = {} THEN 0 ELSE txs[Pick(s)].bytes + g[s \ {Pick(s)}]]

LEMMA PickIs ==
    ASSUME NEW T, T # {}
    PROVE  Pick(T) \in T
BY DEF Pick

LEMMA SmallerSet ==
    ASSUME NEW T, IsFiniteSet(T), NEW x \in T, NEW n \in Nat, Cardinality(T) = n + 1
    PROVE  IsFiniteSet(T \ {x}) /\ Cardinality(T \ {x}) = n
BY FS_RemoveElement

LEMMA SumExists ==
    ASSUME NEW txs, NEW T, IsFiniteSet(T)
    PROVE  \E g : IsSum(txs, T, g)
<1> DEFINE Body(g, s) == IF s = {} THEN 0 ELSE txs[Pick(s)].bytes + g[s \ {Pick(s)}]
           Good(n) == \E g : /\ g = [s \in SUBSET T |-> g[s]]
                             /\ \A s \in SUBSET T : Cardinality(s) <= n => g[s] = Body(g, s)
           S == {n \in Nat : Good(n)}
<1>1. \A s \in SUBSET T : IsFiniteSet(s) /\ Cardinality(s) \in Nat
  BY FS_Subset, FS_CardinalityType
<1>2. 0 \in S
  <2>1. \A s \in SUBSET T : Cardinality(s) <= 0 => s = {}
    BY <1>1, FS_EmptySet
  <2>2. PICK g : g = [s \in SUBSET T |-> 0]
    OBVIOUS
  <2>3. \A s \in SUBSET T : Cardinality(s) <= 0 => g[s] = Body(g, s)
    BY <2>1, <2>2
  <2>4. g = [s \in SUBSET T |-> g[s]]
    BY <2>2
  <2>5. Good(0)
    BY <2>3, <2>4
  <2> QED
    BY <2>5
<1>3. ASSUME NEW n \in Nat, n \in S PROVE n + 1 \in S
  <2>1. PICK g : /\ g = [s \in SUBSET T |-> g[s]]
                 /\ \A s \in SUBSET T : Cardinality(s) <= n => g[s] = Body(g, s)
    BY <1>3
  <2>2. PICK h : h = [s \in SUBSET T |-> Body(g, s)]
    OBVIOUS
  <2>3. \A s \in SUBSET T : Cardinality(s) <= n + 1 => h[s] = Body(h, s)
    <3> SUFFICES ASSUME NEW s \in SUBSET T, Cardinality(s) <= n + 1, s # {}
                 PROVE  g[s \ {Pick(s)}] = h[s \ {Pick(s)}]
      BY <2>2
    <3>1. Pick(s) \in s
      BY PickIs
    <3>2. PICK u \in SUBSET T : u = s \ {Pick(s)}
      OBVIOUS
    <3>3. Cardinality(u) <= n
      <4>1. Cardinality(s) \in Nat /\ Cardinality(u) = Cardinality(s) - 1
        BY <1>1, <3>1, <3>2, FS_RemoveElement
      <4> QED
        BY <4>1
    <3>4. g[u] = Body(g, u)
      BY <2>1, <3>3
    <3>5. h[u] = Body(g, u)
      BY <2>2
    <3> QED
      BY <3>2, <3>4, <3>5
  <2>4. h = [s \in SUBSET T |-> h[s]]
    BY <2>2
  <2>5. Good(n + 1)
    BY <2>3, <2>4
  <2> HIDE DEF Good
  <2> QED
    BY <2>5
<1>4. \A n \in Nat : n \in S
  <2> HIDE DEF S
  <2> QED
    BY <1>2, <1>3, Induction
<1>5. Cardinality(T) \in Nat
  BY FS_CardinalityType
<1>6. PICK g : /\ g = [s \in SUBSET T |-> g[s]]
               /\ \A s \in SUBSET T : Cardinality(s) <= Cardinality(T) => g[s] = Body(g, s)
  BY <1>4, <1>5
<1>7. \A s \in SUBSET T : g[s] = Body(g, s)
  BY <1>6, FS_Subset
<1>8. g = [s \in SUBSET T |-> Body(g, s)]
  BY <1>6, <1>7
<1>9. IsSum(txs, T, g)
  BY <1>8 DEF IsSum
<1> QED
  BY <1>9

(* Two sums agree on the sets whose transactions have the same bytes.       *)
LEMMA SumsAgree ==
    ASSUME NEW txs, NEW tys, NEW T, NEW U, NEW g, NEW h, IsSum(txs, T, g), IsSum(tys, U, h),
           NEW W, W \subseteq T, W \subseteq U, IsFiniteSet(W),
           \A x \in W : txs[x].bytes = tys[x].bytes
    PROVE  g[W] = h[W]
<1> DEFINE S == {n \in Nat : \A s \in SUBSET W : Cardinality(s) = n => g[s] = h[s]}
<1>1. \A s \in SUBSET W : IsFiniteSet(s) /\ Cardinality(s) \in Nat
  BY FS_Subset, FS_CardinalityType
<1>2. \A s \in SUBSET W :
        /\ g[s] = IF s = {} THEN 0 ELSE txs[Pick(s)].bytes + g[s \ {Pick(s)}]
        /\ h[s] = IF s = {} THEN 0 ELSE tys[Pick(s)].bytes + h[s \ {Pick(s)}]
  BY DEF IsSum
<1>3. 0 \in S
  <2>1. \A s \in SUBSET W : Cardinality(s) = 0 => s = {}
    BY <1>1, FS_EmptySet
  <2> QED
    BY <1>2, <2>1
<1>4. ASSUME NEW n \in Nat, n \in S PROVE n + 1 \in S
  <2> SUFFICES ASSUME NEW s \in SUBSET W, Cardinality(s) = n + 1
               PROVE  g[s] = h[s]
    OBVIOUS
  <2>1. s # {}
    BY FS_EmptySet
  <2>2. Pick(s) \in s
    BY <2>1, PickIs
  <2>3. PICK u \in SUBSET W : u = s \ {Pick(s)}
    OBVIOUS
  <2>4. Cardinality(u) = n
    BY <1>1, <2>2, <2>3, SmallerSet
  <2>5. g[u] = h[u]
    BY <1>4, <2>4
  <2>6. txs[Pick(s)].bytes = tys[Pick(s)].bytes
    BY <2>2
  <2> QED
    BY <1>2, <2>1, <2>3, <2>5, <2>6
<1>5. \A n \in Nat : n \in S
  <2> HIDE DEF S
  <2> QED
    BY <1>3, <1>4, Induction
<1> QED
  BY <1>1, <1>5

LEMMA BytesIs ==
    ASSUME NEW txs, NEW T, IsFiniteSet(T), NEW g, IsSum(txs, T, g)
    PROVE  BytesOf(txs, T) = g[T]
<1>1. PICK h : h = CHOOSE f : IsSum(txs, T, f)
  OBVIOUS
<1>2. IsSum(txs, T, h)
  BY <1>1
<1>3. BytesOf(txs, T) = h[T]
  <2>1. BytesOf(txs, T) =
          (CHOOSE f : f = [s \in SUBSET T |-> IF s = {} THEN 0
              ELSE txs[CHOOSE x \in s : TRUE].bytes + f[s \ {CHOOSE x \in s : TRUE}]])[T]
    BY DEF BytesOf, MapThenSumSet, MapThenFoldSet
  <2> QED
    BY <1>1, <2>1 DEF IsSum, Pick
<1> QED
  BY <1>2, <1>3, SumsAgree

LEMMA BytesEmpty ==
    ASSUME NEW txs
    PROVE  BytesOf(txs, {}) = 0
<1>1. IsFiniteSet({})
  BY FS_EmptySet
<1>2. PICK g : IsSum(txs, {}, g)
  BY <1>1, SumExists
<1>3. g[{}] = 0
  BY <1>2 DEF IsSum
<1> QED
  BY <1>1, <1>2, <1>3, BytesIs

LEMMA BytesPick ==
    ASSUME NEW txs, NEW T, IsFiniteSet(T), T # {}
    PROVE  BytesOf(txs, T) = txs[Pick(T)].bytes + BytesOf(txs, T \ {Pick(T)})
<1>1. PICK g : IsSum(txs, T, g)
  BY SumExists
<1>2. PICK U : U = T \ {Pick(T)}
  OBVIOUS
<1>3. IsFiniteSet(U) /\ U \subseteq T
  BY <1>2, FS_RemoveElement
<1>4. PICK h : IsSum(txs, U, h)
  BY <1>3, SumExists
<1>5. g[U] = h[U]
  BY <1>1, <1>3, <1>4, SumsAgree
<1>6. g[T] = txs[Pick(T)].bytes + g[U]
  BY <1>1, <1>2 DEF IsSum
<1>7. BytesOf(txs, T) = g[T] /\ BytesOf(txs, U) = h[U]
  BY <1>1, <1>3, <1>4, BytesIs
<1> QED
  BY <1>2, <1>5, <1>6, <1>7

(* The sum depends on the bytes of its transactions only.                   *)
LEMMA BytesSame ==
    ASSUME NEW txs, NEW tys, NEW T, IsFiniteSet(T), \A x \in T : txs[x].bytes = tys[x].bytes
    PROVE  BytesOf(txs, T) = BytesOf(tys, T)
<1>1. PICK g : IsSum(txs, T, g)
  BY SumExists
<1>2. PICK h : IsSum(tys, T, h)
  BY SumExists
<1>3. g[T] = h[T]
  BY <1>1, <1>2, SumsAgree
<1>4. BytesOf(txs, T) = g[T] /\ BytesOf(tys, T) = h[T]
  BY <1>1, <1>2, BytesIs
<1> QED
  BY <1>3, <1>4

(* It is a natural number.                                                  *)
LEMMA BytesNatural ==
    ASSUME NEW txs, NEW T, IsFiniteSet(T), \A x \in T : txs[x].bytes \in Nat
    PROVE  BytesOf(txs, T) \in Nat
<1> DEFINE S == {n \in Nat : \A s \in SUBSET T : Cardinality(s) = n => BytesOf(txs, s) \in Nat}
<1>1. \A s \in SUBSET T : IsFiniteSet(s) /\ Cardinality(s) \in Nat
  BY FS_Subset, FS_CardinalityType
<1>2. 0 \in S
  <2>1. \A s \in SUBSET T : Cardinality(s) = 0 => s = {}
    BY <1>1, FS_EmptySet
  <2> QED
    BY <2>1, BytesEmpty
<1>3. ASSUME NEW n \in Nat, n \in S PROVE n + 1 \in S
  <2> SUFFICES ASSUME NEW s \in SUBSET T, Cardinality(s) = n + 1
               PROVE  BytesOf(txs, s) \in Nat
    OBVIOUS
  <2>1. s # {}
    BY FS_EmptySet
  <2>2. PICK x \in s : x = Pick(s)
    BY <2>1, PickIs
  <2>3. Cardinality(s \ {x}) = n
    BY <1>1, <2>2, SmallerSet
  <2>4. BytesOf(txs, s \ {x}) \in Nat
    BY <1>3, <2>3
  <2>5. BytesOf(txs, s) = txs[x].bytes + BytesOf(txs, s \ {x})
    BY <1>1, <2>1, <2>2, BytesPick
  <2> QED
    BY <2>4, <2>5
<1>4. \A n \in Nat : n \in S
  <2> HIDE DEF S
  <2> QED
    BY <1>2, <1>3, Induction
<1> QED
  BY <1>1, <1>4

(* Any element may be taken first.                                          *)
LEMMA BytesTake ==
    ASSUME NEW txs, NEW T, IsFiniteSet(T), \A x \in T : txs[x].bytes \in Nat, NEW y \in T
    PROVE  BytesOf(txs, T) = txs[y].bytes + BytesOf(txs, T \ {y})
<1> DEFINE S == {n \in Nat : \A s \in SUBSET T : Cardinality(s) = n =>
                     \A x \in s : BytesOf(txs, s) = txs[x].bytes + BytesOf(txs, s \ {x})}
<1>1. \A s \in SUBSET T : IsFiniteSet(s) /\ Cardinality(s) \in Nat
  BY FS_Subset, FS_CardinalityType
<1>2. 0 \in S
  <2>1. \A s \in SUBSET T : Cardinality(s) = 0 => s = {}
    BY <1>1, FS_EmptySet
  <2> QED
    BY <2>1
<1>3. ASSUME NEW n \in Nat, n \in S PROVE n + 1 \in S
  <2> SUFFICES ASSUME NEW s \in SUBSET T, Cardinality(s) = n + 1, NEW x \in s
               PROVE  BytesOf(txs, s) = txs[x].bytes + BytesOf(txs, s \ {x})
    OBVIOUS
  <2>1. s # {}
    OBVIOUS
  <2>2. PICK p \in s : p = Pick(s)
    BY <2>1, PickIs
  <2>3. BytesOf(txs, s) = txs[p].bytes + BytesOf(txs, s \ {p})
    BY <1>1, <2>1, <2>2, BytesPick
  <2>4. CASE p = x
    BY <2>3, <2>4
  <2>5. CASE p # x
    <3>1. PICK u \in SUBSET T : u = s \ {p}
      OBVIOUS
    <3>2. PICK v \in SUBSET T : v = s \ {x}
      OBVIOUS
    <3>3. Cardinality(u) = n /\ Cardinality(v) = n
      BY <1>1, <3>1, <3>2, SmallerSet
    <3>4. x \in u /\ p \in v /\ u \ {x} = v \ {p}
      BY <2>5, <3>1, <3>2
    <3>5. /\ BytesOf(txs, u) = txs[x].bytes + BytesOf(txs, u \ {x})
          /\ BytesOf(txs, v) = txs[p].bytes + BytesOf(txs, v \ {p})
      BY <1>3, <3>3, <3>4
    <3>6. BytesOf(txs, u \ {x}) \in Nat
      <4>1. u \ {x} \in SUBSET T
        OBVIOUS
      <4> QED
        BY <1>1, <4>1, BytesNatural
    <3>7. txs[x].bytes \in Nat /\ txs[p].bytes \in Nat
      OBVIOUS
    <3> QED
      <4>1. PICK i \in Nat, j \in Nat, k \in Nat :
              i = txs[x].bytes /\ j = txs[p].bytes /\ k = BytesOf(txs, u \ {x})
        BY <3>6, <3>7
      <4>2. BytesOf(txs, s) = j + (i + k) /\ BytesOf(txs, v) = j + k
        BY <2>3, <3>1, <3>4, <3>5, <4>1
      <4> QED
        BY <3>2, <4>1, <4>2
  <2> QED
    BY <2>4, <2>5
<1>4. \A n \in Nat : n \in S
  <2> HIDE DEF S
  <2> QED
    BY <1>2, <1>3, Induction
<1> QED
  BY <1>1, <1>4

(* A set and the rest.                                                      *)
LEMMA BytesRest ==
    ASSUME NEW txs, NEW T, IsFiniteSet(T), \A x \in T : txs[x].bytes \in Nat,
           NEW U \in SUBSET T
    PROVE  BytesOf(txs, T) = BytesOf(txs, U) + BytesOf(txs, T \ U)
<1> DEFINE S == {n \in Nat : \A s \in SUBSET T : Cardinality(s) = n =>
                     BytesOf(txs, T) = BytesOf(txs, s) + BytesOf(txs, T \ s)}
<1>1. \A s \in SUBSET T : /\ IsFiniteSet(s) /\ Cardinality(s) \in Nat
                          /\ \A x \in s : txs[x].bytes \in Nat
  BY FS_Subset, FS_CardinalityType
<1>2. \A s \in SUBSET T : BytesOf(txs, s) \in Nat
  BY <1>1, BytesNatural
<1>3. 0 \in S
  <2>1. \A s \in SUBSET T : Cardinality(s) = 0 => s = {}
    BY <1>1, FS_EmptySet
  <2>2. BytesOf(txs, T) = 0 + BytesOf(txs, T)
    BY <1>2
  <2>3. T \ {} = T
    OBVIOUS
  <2> QED
    BY <2>1, <2>2, <2>3, BytesEmpty
<1>4. ASSUME NEW n \in Nat, n \in S PROVE n + 1 \in S
  <2> SUFFICES ASSUME NEW s \in SUBSET T, Cardinality(s) = n + 1
               PROVE  BytesOf(txs, T) = BytesOf(txs, s) + BytesOf(txs, T \ s)
    OBVIOUS
  <2>1. s # {}
    BY FS_EmptySet
  <2>2. PICK x : x \in s
    BY <2>1
  <2>3. PICK u \in SUBSET T : u = s \ {x}
    OBVIOUS
  <2>4. PICK v \in SUBSET T : v = T \ u
    OBVIOUS
  <2>5. Cardinality(u) = n /\ x \in v /\ v \ {x} = T \ s
    BY <1>1, <2>2, <2>3, <2>4, SmallerSet
  <2>6. BytesOf(txs, T) = BytesOf(txs, u) + BytesOf(txs, v)
    BY <1>4, <2>4, <2>5
  <2>7. BytesOf(txs, v) = txs[x].bytes + BytesOf(txs, v \ {x})
    BY <1>1, <2>5, BytesTake
  <2>8. BytesOf(txs, s) = txs[x].bytes + BytesOf(txs, u)
    BY <1>1, <2>2, <2>3, BytesTake
  <2>9. BytesOf(txs, u) \in Nat /\ BytesOf(txs, T \ s) \in Nat /\ txs[x].bytes \in Nat
    <3>1. T \ s \in SUBSET T
      OBVIOUS
    <3> QED
      BY <1>1, <1>2, <2>2, <3>1
  <2>10. PICK i \in Nat, j \in Nat, k \in Nat :
           i = txs[x].bytes /\ j = BytesOf(txs, u) /\ k = BytesOf(txs, T \ s)
    BY <2>9
  <2>11. BytesOf(txs, T) = j + (i + k) /\ BytesOf(txs, s) = i + j
    BY <2>5, <2>6, <2>7, <2>8, <2>10
  <2> QED
    BY <2>10, <2>11
<1>5. \A n \in Nat : n \in S
  <2> HIDE DEF S
  <2> QED
    BY <1>3, <1>4, Induction
<1> QED
  BY <1>1, <1>5

-----------------------------------------------------------------------------
(* active_transaction_versions: how many of A read at each version.         *)

Counts(txs, A) ==
    [v \in {txs[t].read_version : t \in A} |-> Cardinality({t \in A : txs[t].read_version = v})]

LEMMA CountsSame ==
    ASSUME NEW txs, NEW tys, NEW A, \A t \in A : txs[t].read_version = tys[t].read_version
    PROVE  Counts(txs, A) = Counts(tys, A)
<1>1. {txs[t].read_version : t \in A} = {tys[t].read_version : t \in A}
  OBVIOUS
<1>2. \A v : {t \in A : txs[t].read_version = v} = {t \in A : tys[t].read_version = v}
  OBVIOUS
<1> QED
  BY <1>1, <1>2 DEF Counts

LEMMA CountsLess ==
    ASSUME NEW txs, NEW A, IsFiniteSet(A), NEW gone \in SUBSET A
    PROVE  decrement_version_count(Counts(txs, A), txs, gone) = Counts(txs, A \ gone)
<1> DEFINE c == Counts(txs, A)
           at(B, v) == {t \in B : txs[t].read_version = v}
           left(v) == c[v] - Cardinality(at(gone, v))
<1>1. \A v \in DOMAIN c : c[v] = Cardinality(at(A, v))
  BY DEF Counts
<1>2. \A v : /\ IsFiniteSet(at(A, v)) /\ IsFiniteSet(at(gone, v)) /\ IsFiniteSet(at(A \ gone, v))
             /\ Cardinality(at(A, v)) \in Nat /\ Cardinality(at(gone, v)) \in Nat
             /\ Cardinality(at(A \ gone, v)) = Cardinality(at(A, v)) - Cardinality(at(gone, v))
  <2> TAKE v
  <2>1. PICK a : a = at(A, v)
    OBVIOUS
  <2>2. PICK g : g = at(gone, v)
    OBVIOUS
  <2>3. a \subseteq A /\ g \subseteq A /\ g \subseteq a /\ at(A \ gone, v) = a \ g
    BY <2>1, <2>2
  <2>4. IsFiniteSet(a) /\ IsFiniteSet(g) /\ Cardinality(a) \in Nat /\ Cardinality(g) \in Nat
    BY <2>3, FS_Subset, FS_CardinalityType
  <2>5. a \cap g = g
    BY <2>3
  <2>6. IsFiniteSet(a \ g) /\ Cardinality(a \ g) = Cardinality(a) - Cardinality(g)
    BY <2>4, <2>5, FS_Difference
  <2> QED
    BY <2>1, <2>2, <2>3, <2>4, <2>6
<1>3. \A v \in DOMAIN c : left(v) = Cardinality(at(A \ gone, v))
  BY <1>1, <1>2
<1>4. \A v : v \in DOMAIN c <=> \E t \in A : txs[t].read_version = v
  BY DEF Counts
<1>5. \A v \in DOMAIN c : left(v) > 0 <=> \E t \in A \ gone : txs[t].read_version = v
  <2> TAKE v \in DOMAIN c
  <2>1. Cardinality(at(A \ gone, v)) = 0 <=> at(A \ gone, v) = {}
    BY <1>2, FS_EmptySet
  <2>2. Cardinality(at(A \ gone, v)) \in Nat
    BY <1>2, FS_CardinalityType
  <2>3. left(v) > 0 <=> at(A \ gone, v) # {}
    BY <1>3, <2>1, <2>2
  <2> QED
    BY <2>3
<1>6. {v \in DOMAIN c : left(v) > 0} = {txs[t].read_version : t \in A \ gone}
  BY <1>4, <1>5
<1>7. decrement_version_count(c, txs, gone) = [v \in {x \in DOMAIN c : left(x) > 0} |-> left(v)]
  BY DEF decrement_version_count
<1> HIDE DEF c, left, at
<1>8. [v \in {x \in DOMAIN c : left(x) > 0} |-> left(v)]
        = [v \in {x \in DOMAIN c : left(x) > 0} |-> Cardinality(at(A \ gone, v))]
  BY <1>3
<1> QED
  BY <1>6, <1>7, <1>8 DEF c, at, Counts

LEMMA CountsMore ==
    ASSUME NEW txs, NEW A, IsFiniteSet(A), NEW x, x \notin A
    PROVE  increment_version_count(Counts(txs, A), txs[x].read_version) = Counts(txs, A \cup {x})
<1> DEFINE c == Counts(txs, A)
           w == txs[x].read_version
           at(B, v) == {t \in B : txs[t].read_version = v}
           more(v) == (IF v \in DOMAIN c THEN c[v] ELSE 0) + (IF v = w THEN 1 ELSE 0)
<1>1. \A v : v \in DOMAIN c <=> \E t \in A : txs[t].read_version = v
  BY DEF Counts
<1>2. \A v \in DOMAIN c : c[v] = Cardinality(at(A, v))
  BY DEF Counts
<1>3. \A v : more(v) = Cardinality(at(A \cup {x}, v))
  <2> TAKE v
  <2>1. PICK a : a = at(A, v)
    OBVIOUS
  <2>2. a \subseteq A /\ x \notin a
    BY <2>1
  <2>3. IsFiniteSet(a) /\ Cardinality(a) \in Nat
    BY <2>2, FS_Subset, FS_CardinalityType
  <2>4. (IF v \in DOMAIN c THEN c[v] ELSE 0) = Cardinality(a)
    <3>1. CASE v \in DOMAIN c
      BY <1>2, <2>1, <3>1
    <3>2. CASE v \notin DOMAIN c
      <4>1. a = {}
        BY <1>1, <2>1, <3>2
      <4> QED
        BY <3>2, <4>1, FS_EmptySet
    <3> QED
      BY <3>1, <3>2
  <2>5. CASE v = w
    <3>1. at(A \cup {x}, v) = a \cup {x}
      BY <2>1, <2>5
    <3>2. Cardinality(a \cup {x}) = Cardinality(a) + 1
      BY <2>2, <2>3, FS_AddElement
    <3> QED
      BY <2>4, <2>5, <3>1, <3>2
  <2>6. CASE v # w
    <3>1. at(A \cup {x}, v) = a
      BY <2>1, <2>6
    <3>2. PICK k \in Nat : k = Cardinality(a)
      BY <2>3
    <3>3. more(v) = k + 0
      BY <2>4, <2>6, <3>2
    <3>4. k + 0 = k
      OBVIOUS
    <3> HIDE DEF more, at
    <3> QED
      BY <3>1, <3>2, <3>3, <3>4
  <2> QED
    BY <2>5, <2>6
<1>4. DOMAIN c \cup {w} = {txs[t].read_version : t \in A \cup {x}}
  BY <1>1
<1>5. increment_version_count(c, w) = [v \in DOMAIN c \cup {w} |-> more(v)]
  BY DEF increment_version_count
<1> HIDE DEF c, w, more, at
<1>6. [v \in DOMAIN c \cup {w} |-> more(v)] = [v \in DOMAIN c \cup {w} |-> Cardinality(at(A \cup {x}, v))]
  BY <1>3
<1> QED
  BY <1>4, <1>5, <1>6 DEF c, w, at, Counts

(* The lowest n of a set of candidates are n, or all of them.               *)
LEMMA LowestIs ==
    ASSUME NEW C \in SUBSET Ids, NEW n \in Int
    PROVE  /\ Lowest(C, n) \subseteq C
           /\ Lowest(C, n) # C => Cardinality(Lowest(C, n)) >= n
<1>1. Lowest(C, n) \subseteq C
  BY DEF Lowest
<1>2. ASSUME Lowest(C, n) # C PROVE Cardinality(Lowest(C, n)) >= n
  <2>1. C \ Lowest(C, n) \in SUBSET Nat /\ C \ Lowest(C, n) # {}
    BY <1>1, <1>2, StoreAssumption
  <2>2. PICK t \in C \ Lowest(C, n) : \A u \in C \ Lowest(C, n) : t <= u
    BY <2>1, LeastNatural
  <2>3. PICK B : B = {x \in C : x < t}
    OBVIOUS
  <2>4. \A x \in B : x \in Lowest(C, n)
    <3> SUFFICES ASSUME NEW x \in B, x \notin Lowest(C, n) PROVE FALSE
      OBVIOUS
    <3>1. x \in C /\ x < t /\ t <= x /\ x \in Nat /\ t \in Nat
      BY <2>2, <2>3, StoreAssumption
    <3> QED
      BY <3>1
  <2>5. IsFiniteSet(Lowest(C, n)) /\ IsFiniteSet(B)
    BY <1>1, <2>3, StoreAssumption, FS_Subset
  <2>6. Cardinality(B) <= Cardinality(Lowest(C, n))
    BY <2>4, <2>5, FS_Subset
  <2>7. ~ (Cardinality(B) < n)
    BY <2>2, <2>3 DEF Lowest
  <2>8. Cardinality(B) \in Nat /\ Cardinality(Lowest(C, n)) \in Nat
    BY <2>5, FS_CardinalityType
  <2> QED
    BY <2>6, <2>7, <2>8
<1> QED
  BY <1>1, <1>2

-----------------------------------------------------------------------------
(* The store: the shape of its records.                                     *)

StoreFields ==
    {"scope", "max_versions_per_path", "history", "version", "next_transaction", "transactions",
     "active_count", "releases", "active_deadlines", "active_versions", "active_read_write", "ledger",
     "finished", "evictable", "finished_deadlines", "last_commit_time", "commit_times",
     "compaction_floor", "capacity_floor"}

IsStore(s) == s = [f \in StoreFields |-> s[f]]

TransactionFields ==
    {"state", "read_only", "read_version", "started_at", "last_activity", "read_set", "queries",
     "bytes", "waits", "deadlock_victim", "snapshot_pending", "lifetime_expired", "has_read",
     "retried_while_live"}

TransactionStates == RetryableStates \cup {"Unknown", "Active", "Retried"}

\* A transaction.  What is over holds nothing of the ledger.
IsTransaction(x) ==
    /\ x = [f \in TransactionFields |-> x[f]]
    /\ x.state \in TransactionStates
    /\ {x.read_only, x.snapshot_pending, x.lifetime_expired, x.retried_while_live} \subseteq BOOLEAN
    /\ {x.read_version, x.started_at, x.last_activity, x.bytes} \subseteq Nat
    /\ x.state # "Active" => x.bytes = 0
    /\ x.state = "Active" => ~x.lifetime_expired

Transactions(s) ==
    /\ s.transactions = [t \in Ids |-> s.transactions[t]]
    /\ \A t \in Ids : IsTransaction(s.transactions[t])
    /\ s.next_transaction \in Nat
    /\ \A t \in Ids : t > s.next_transaction => s.transactions[t] = NoTransaction

ActiveOf(s) == {t \in Ids : s.transactions[t].state = "Active"}
EndedOf(s) == {t \in Ids : s.transactions[t].state \notin {"Active", "Unknown"}}
EvictableOf(s) == {t \in EndedOf(s) : s.transactions[t].state # "Finished"}

\* The deadlines of transactions, as the indexes keep them.
DeadlineOf(s) == [t \in Ids |-> transaction_deadline(s, s.transactions[t])]
LapseOf(s) == [t \in Ids |-> finished_lineage_deadline(s, s.transactions[t])]
Pairs(f, A) == {<<f[t], t>> : t \in A}

\* The indexes beside the transactions, field by field.
Book(s) ==
    /\ s.active_count = Cardinality(ActiveOf(s))
    /\ s.active_read_write = {t \in ActiveOf(s) : ~s.transactions[t].read_only}
    /\ s.active_deadlines = Pairs(DeadlineOf(s), ActiveOf(s))
    /\ s.active_versions = Counts(s.transactions, ActiveOf(s))
    /\ s.ledger = BytesOf(s.transactions, ActiveOf(s))
    /\ s.finished = EndedOf(s)
    /\ s.finished_deadlines = Pairs(LapseOf(s), EndedOf(s))
    /\ s.evictable = IF s.scope = "Production" THEN EvictableOf(s) ELSE {}

\* What is over is within its bound, or is what eviction may not take.
Bounded(s) ==
    Cardinality(EndedOf(s)) <= MaxFinished \/ (s.scope = "Production" /\ EvictableOf(s) = {})

\* The history answers for every version from the floor on with the documents p of then.
AnyValue == Values \cup {Absent}

IsEntry(s, p, d, e) ==
    /\ e = [version |-> e.version, value |-> e.value]
    /\ e.version \in 1 .. s.version
    /\ e.value = p[e.version + 1][d]

Answers(s, p, v) == \A d \in Docs : get_at(s, d, v).value = p[v + 1][d]

History(s, p) ==
    /\ s.version \in Nat
    /\ p \in Seq([Docs -> AnyValue]) /\ Len(p) = s.version + 1
    /\ s.history = [d \in Docs |-> s.history[d]]
    /\ \A d \in Docs : \A e \in s.history[d] : IsEntry(s, p, d, e)
    /\ s.compaction_floor \in 0 .. s.version /\ s.capacity_floor \in 0 .. s.version
    /\ \A c \in s.commit_times : c[1] \in s.compaction_floor .. s.version
    /\ \A v \in s.compaction_floor .. s.version : Answers(s, p, v)
    /\ s.max_versions_per_path \in Nat \ {0}

\* Where the snapshots of transactions are.
SnapshotsKept(s) ==
    /\ \A t \in Ids : s.transactions[t].state # "Unknown" => s.transactions[t].read_version <= s.version
    /\ \A t \in ActiveOf(s) :
          \/ s.transactions[t].read_version >= s.compaction_floor
          \/ s.transactions[t].read_version < s.capacity_floor

Core(s) == IsStore(s) /\ s.scope \in Scopes /\ Transactions(s) /\ Book(s)

StoreInv(s, p) == Core(s) /\ Bounded(s) /\ History(s, p) /\ SnapshotsKept(s)

-----------------------------------------------------------------------------
(* What the clients were shown.                                             *)

\* A read with the transaction's token may be served.
Readable(x) == x.state = "Active" \/ (x.state = "Retried" /\ x.retried_while_live)

\* What a transaction retained of its reads, and its snapshot.
ReadsAgree(x, p) ==
    \A r \in x.read_set :
        /\ r[1] \in Docs /\ r[2] \in 0 .. x.read_version
        /\ p[x.read_version + 1][r[1]] = IF r[2] = None THEN Absent ELSE p[r[2] + 1][r[1]]

RowsAgree(rows, q, state, p) ==
    /\ {r[1] : r \in rows} = {d \in Docs : Passes(q, state[d])}
    /\ \A r \in rows : r[2] + 1 \in DOMAIN p /\ p[r[2] + 1][r[1]] = state[r[1]]

QueriesAgree(x, p) ==
    \A e \in x.queries :
        /\ e = [query |-> e.query, rows |-> e.rows, complete |-> e.complete]
        /\ RowsAgree(e.rows, e.query, p[x.read_version + 1], p)

\* Every observation is retained, to be compared at the commit.
Retained(x, observations) ==
    \A o \in observations :
        /\ o[1] = "document" => o[2] \in ReadPaths(x)
        /\ o[1] = "query" => \E e \in x.queries : e.complete /\ e.query = o[2]

\* A snapshot that is still to be taken has shown nothing.
ViewOf(x, p, observations) ==
    /\ Readable(x) =>
          /\ x.snapshot_pending => observations = {}
          /\ Serial!AllHold(observations, p[x.read_version + 1])
    /\ x.state = "Active" /\ ~x.read_only =>
          /\ x.snapshot_pending => x.read_set = {} /\ x.queries = {}
          /\ ReadsAgree(x, p) /\ QueriesAgree(x, p) /\ Retained(x, observations)

Views(s, p, shown, done) ==
    /\ shown = [t \in Ids |-> shown[t]]
    /\ \A t \in Ids : \A o \in shown[t] : o[1] \in {"document", "query"}
    /\ done \subseteq Ids
    /\ \A t \in done : t <= s.next_transaction /\ ~Readable(s.transactions[t])
    /\ \A t \in Ids : t > s.next_transaction => shown[t] = {}
    /\ \A t \in Ids : ViewOf(s.transactions[t], p, shown[t])

-----------------------------------------------------------------------------
(* What an operation does to the transactions it only ends.                 *)

\* y is what is left of the transaction x: it may be forgotten or over, and keeps its snapshot.
Ages(x, y) ==
    /\ y.waits \subseteq x.waits
    /\ y.deadlock_victim => x.deadlock_victim
    /\ y.state # "Unknown" =>
          /\ x.state # "Unknown"
          /\ y.read_only = x.read_only /\ y.read_version = x.read_version
          /\ y.started_at = x.started_at /\ y.snapshot_pending = x.snapshot_pending
    /\ y.state = "Active" => x.state = "Active" /\ y.read_set = x.read_set /\ y.queries = x.queries
    /\ Readable(y) => Readable(x)

SameHistory(s, r) ==
    /\ r.scope = s.scope /\ r.max_versions_per_path = s.max_versions_per_path
    /\ r.history = s.history /\ r.version = s.version
    /\ r.last_commit_time = s.last_commit_time /\ r.commit_times = s.commit_times
    /\ r.compaction_floor = s.compaction_floor /\ r.capacity_floor = s.capacity_floor

Follows(s, r) ==
    /\ r.scope = s.scope /\ r.version = s.version /\ r.next_transaction = s.next_transaction
    /\ \A t \in Ids : Ages(s.transactions[t], r.transactions[t])

-----------------------------------------------------------------------------
(* The commit requests.                                                     *)

RequestFields ==
    {"phase", "kind", "own", "writes", "marker", "contended", "released", "live", "expired",
     "answer", "applied"}

IsRequest(q) ==
    /\ q = [f \in RequestFields |-> q[f]]
    /\ q.phase \in {"idle", "answered"} => ~q.live
    /\ q.phase = "idle" => ~q.contended
    /\ q.phase \notin {"idle", "answered"} =>
          q.writes \in Batches /\ (q.own = None \/ q.own \in Ids)

RequestInv ==
    /\ req = [r \in Requests |-> req[r]]
    /\ \A r \in Requests : IsRequest(req[r])

\* A transaction waits with the requests that commit it.
Waits(s) ==
    \A t \in Ids : \A w \in s.transactions[t].waits :
        /\ w.owner \in Requests /\ req[w.owner].phase # "idle"
        /\ req[w.owner].live => req[w.owner].own = t /\ req[w.owner].writes = w.writes

FirestoreInv ==
    /\ config \in Configs /\ now \in Nat
    /\ StoreInv(store, past) /\ Views(store, past, seen, committed)
    /\ RequestInv /\ Waits(store)

-----------------------------------------------------------------------------
(* Deadline indexes as sets of pairs.                                       *)
LEMMA PairsLess ==
    ASSUME NEW f, NEW A, NEW B
    PROVE  Pairs(f, A) \ Pairs(f, B) = Pairs(f, A \ B)
BY DEF Pairs

LEMMA PairsMore ==
    ASSUME NEW f, NEW A, NEW B
    PROVE  Pairs(f, A) \cup Pairs(f, B) = Pairs(f, A \cup B)
BY DEF Pairs

LEMMA PairsSame ==
    ASSUME NEW f, NEW g, NEW A, \A t \in A : f[t] = g[t]
    PROVE  Pairs(f, A) = Pairs(g, A)
BY DEF Pairs

LEMMA PairsOf ==
    ASSUME NEW f, NEW t
    PROVE  Pairs(f, {t}) = {<<f[t], t>>}
BY DEF Pairs

(* The ids and the sets of them are finite.                                 *)
LEMMA IdsFinite ==
    ASSUME NEW A \in SUBSET Ids
    PROVE  IsFiniteSet(A) /\ Cardinality(A) \in Nat
BY StoreAssumption, FS_Subset, FS_CardinalityType

LEMMA FewerIds ==
    ASSUME NEW A \in SUBSET Ids, NEW B \in SUBSET A
    PROVE  /\ Cardinality(A \ B) = Cardinality(A) - Cardinality(B)
           /\ Cardinality(B) <= Cardinality(A)
           /\ Cardinality(A) \in Nat /\ Cardinality(B) \in Nat /\ Cardinality(A \ B) \in Nat
<1>1. IsFiniteSet(A) /\ IsFiniteSet(B) /\ Cardinality(A) \in Nat /\ Cardinality(B) \in Nat
  BY IdsFinite
<1>2. A \cap B = B
  OBVIOUS
<1>3. IsFiniteSet(A \ B) /\ Cardinality(A \ B) = Cardinality(A) - Cardinality(B)
  BY <1>1, <1>2, FS_Difference
<1>4. Cardinality(B) <= Cardinality(A)
  BY <1>1, FS_Subset
<1>5. Cardinality(A \ B) \in Nat
  BY <1>3, FS_CardinalityType
<1> QED
  BY <1>1, <1>3, <1>4, <1>5

(* The relations between a store and what an operation makes of it.         *)
LEMMA AgesItself ==
    ASSUME NEW x
    PROVE  Ages(x, x)
BY DEF Ages

LEMMA AgesFurther ==
    ASSUME NEW x, NEW y, NEW z, Ages(x, y), Ages(y, z)
    PROVE  Ages(x, z)
BY DEF Ages

(* What is forgotten.                                                       *)
LEMMA AgesToNothing ==
    ASSUME NEW x
    PROVE  Ages(x, NoTransaction)
BY DEF Ages, NoTransaction, Readable

LEMMA NothingIs ==
    /\ IsTransaction(NoTransaction) /\ NoTransaction.state = "Unknown" /\ NoTransaction.bytes = 0
    /\ NoTransaction.read_version = 0 /\ ~NoTransaction.lifetime_expired
    /\ NoTransaction.waits = {} /\ NoTransaction.deadlock_victim = FALSE
BY DEF NoTransaction, IsTransaction, TransactionFields, TransactionStates, RetryableStates

LEMMA FollowsItself ==
    ASSUME NEW s
    PROVE  Follows(s, s) /\ SameHistory(s, s)
BY AgesItself DEF Follows, SameHistory

LEMMA FollowsFurther ==
    ASSUME NEW s, NEW r, NEW u, Follows(s, r), Follows(r, u)
    PROVE  Follows(s, u)
BY AgesFurther DEF Follows

LEMMA SameFurther ==
    ASSUME NEW s, NEW r, NEW u, SameHistory(s, r), SameHistory(r, u)
    PROVE  SameHistory(s, u)
BY DEF SameHistory

(* The deadlines of a transaction.                                          *)
LEMMA DeadlineIs ==
    ASSUME NEW s, NEW x, {x.started_at, x.last_activity} \subseteq Nat
    PROVE  /\ transaction_lineage_deadline(x) \in Nat
           /\ transaction_deadline(s, x) \in Nat
           /\ transaction_deadline(s, x) <= transaction_lineage_deadline(x)
           /\ finished_lineage_deadline(s, x) \in Nat
<1> DEFINE a == transaction_lineage_deadline(x)
           b == x.last_activity + Idle + (IF s.scope = "Production" THEN IdleAllowance ELSE 0)
<1>1. a \in Nat /\ b \in Nat
  BY StoreAssumption DEF transaction_lineage_deadline
<1>2. finished_lineage_deadline(s, x) \in Nat
  BY <1>1, StoreAssumption DEF finished_lineage_deadline
<1>3. transaction_deadline(s, x) = Min({a, b})
  BY DEF transaction_deadline
<1> HIDE DEF a, b
<1>4. Min({a, b}) \in Nat /\ Min({a, b}) <= a
  BY <1>1, MinMaxPair
<1> QED
  BY <1>1, <1>2, <1>3, <1>4 DEF a

LEMMA DeadlineSame ==
    ASSUME NEW s, NEW r, r.scope = s.scope, NEW x, NEW y,
           y.started_at = x.started_at, y.last_activity = x.last_activity
    PROVE  transaction_deadline(r, y) = transaction_deadline(s, x)
BY DEF transaction_deadline, transaction_lineage_deadline

LEMMA LapseSame ==
    ASSUME NEW s, NEW r, r.scope = s.scope, NEW x
    PROVE  finished_lineage_deadline(r, x) = finished_lineage_deadline(s, x)
BY DEF finished_lineage_deadline

(* The lists of active and of ended transactions.                           *)
LEMMA ListsAre ==
    ASSUME NEW s
    PROVE  /\ ActiveOf(s) \in SUBSET Ids /\ EndedOf(s) \in SUBSET Ids
           /\ EvictableOf(s) \subseteq EndedOf(s) /\ ActiveOf(s) \cap EndedOf(s) = {}
           /\ IsFiniteSet(ActiveOf(s)) /\ IsFiniteSet(EndedOf(s))
<1>1. ActiveOf(s) \in SUBSET Ids /\ EndedOf(s) \in SUBSET Ids
  BY DEF ActiveOf, EndedOf
<1>2. EvictableOf(s) \subseteq EndedOf(s) /\ ActiveOf(s) \cap EndedOf(s) = {}
  BY DEF ActiveOf, EndedOf, EvictableOf
<1> QED
  BY <1>1, <1>2, IdsFinite

(* The indexes over active transactions stay when these do not change.      *)
LEMMA ActivesSame ==
    ASSUME NEW s, NEW r, r.scope = s.scope, ActiveOf(r) = ActiveOf(s),
           \A t \in ActiveOf(s) :
              /\ r.transactions[t].read_only = s.transactions[t].read_only
              /\ r.transactions[t].read_version = s.transactions[t].read_version
              /\ r.transactions[t].started_at = s.transactions[t].started_at
              /\ r.transactions[t].last_activity = s.transactions[t].last_activity
              /\ r.transactions[t].bytes = s.transactions[t].bytes
    PROVE  /\ {t \in ActiveOf(r) : ~r.transactions[t].read_only}
                 = {t \in ActiveOf(s) : ~s.transactions[t].read_only}
           /\ Pairs(DeadlineOf(r), ActiveOf(r)) = Pairs(DeadlineOf(s), ActiveOf(s))
           /\ Counts(r.transactions, ActiveOf(r)) = Counts(s.transactions, ActiveOf(s))
           /\ BytesOf(r.transactions, ActiveOf(r)) = BytesOf(s.transactions, ActiveOf(s))
<1>1. \A t \in ActiveOf(s) : DeadlineOf(r)[t] = DeadlineOf(s)[t]
  BY ListsAre, DeadlineSame DEF DeadlineOf
<1>2. Pairs(DeadlineOf(r), ActiveOf(r)) = Pairs(DeadlineOf(s), ActiveOf(s))
  BY <1>1, PairsSame
<1>3. Counts(r.transactions, ActiveOf(r)) = Counts(s.transactions, ActiveOf(s))
  BY CountsSame
<1>4. BytesOf(r.transactions, ActiveOf(r)) = BytesOf(s.transactions, ActiveOf(s))
  BY BytesSame, ListsAre
<1> QED
  BY <1>2, <1>3, <1>4

-----------------------------------------------------------------------------
(* Forgetting finished transactions.                                        *)
Leaves(s, gone, pairs) == [LeaveLineage(s, gone) EXCEPT !.finished_deadlines = @ \ pairs]

Left(s, gone, pairs, r) ==
    /\ r.next_transaction = s.next_transaction /\ r.releases = s.releases
    /\ r.active_count = s.active_count /\ r.active_deadlines = s.active_deadlines
    /\ r.active_versions = s.active_versions /\ r.active_read_write = s.active_read_write
    /\ r.ledger = s.ledger
    /\ r.finished = s.finished \ gone /\ r.evictable = s.evictable \ gone
    /\ r.finished_deadlines = s.finished_deadlines \ pairs
    /\ r.transactions = [t \in Ids |-> IF t \in gone /\ ~Active(s, t) THEN NoTransaction
                                       ELSE s.transactions[t]]

LEMMA LeavesIs ==
    ASSUME NEW s, IsStore(s), NEW gone, NEW pairs, NEW r, r = Leaves(s, gone, pairs)
    PROVE  IsStore(r) /\ SameHistory(s, r) /\ Left(s, gone, pairs, r)
BY DEF Leaves, LeaveLineage, Left, IsStore, StoreFields, SameHistory

LEMMA Forgets ==
    ASSUME NEW s, Core(s), NEW gone, gone \subseteq EndedOf(s),
           NEW pairs, pairs = Pairs(LapseOf(s), gone), NEW r, r = Leaves(s, gone, pairs)
    PROVE  /\ Core(r) /\ Follows(s, r) /\ SameHistory(s, r) /\ r.releases = s.releases
           /\ EndedOf(r) = EndedOf(s) \ gone /\ EvictableOf(r) = EvictableOf(s) \ gone
           /\ ActiveOf(r) = ActiveOf(s)
           /\ \A t \in ActiveOf(s) : r.transactions[t] = s.transactions[t]
<1>0. IsStore(r) /\ SameHistory(s, r) /\ Left(s, gone, pairs, r)
  BY LeavesIs DEF Core
<1>1. \A t \in Ids : r.transactions[t] = IF t \in gone THEN NoTransaction ELSE s.transactions[t]
  BY <1>0, ListsAre DEF EndedOf, Active, Left
<1>2. /\ EndedOf(r) = EndedOf(s) \ gone /\ EvictableOf(r) = EvictableOf(s) \ gone
      /\ ActiveOf(r) = ActiveOf(s)
  BY <1>1, NothingIs DEF EndedOf, EvictableOf, ActiveOf
<1>3. \A t \in ActiveOf(s) : r.transactions[t] = s.transactions[t]
  BY <1>1 DEF EndedOf, ActiveOf
<1>4. r.scope = s.scope /\ r.version = s.version
  BY <1>0 DEF SameHistory
<1>5. Follows(s, r)
  BY <1>0, <1>1, <1>4, AgesItself, AgesToNothing DEF Follows, Left
<1>6. Transactions(r)
  BY <1>0, <1>1, NothingIs DEF Core, Transactions, Left
<1>7. r.finished_deadlines = Pairs(LapseOf(r), EndedOf(r))
  <2>1. \A t \in EndedOf(s) \ gone : LapseOf(s)[t] = LapseOf(r)[t]
    BY <1>1, <1>4, LapseSame DEF LapseOf, EndedOf
  <2>2. r.finished_deadlines = Pairs(LapseOf(s), EndedOf(s) \ gone)
    BY <1>0, PairsLess DEF Core, Book, Left
  <2> QED
    BY <1>2, <2>1, <2>2, PairsSame
<1>8. Book(r)
  BY <1>0, <1>2, <1>3, <1>4, <1>7, ActivesSame DEF Core, Book, Left
<1> QED
  BY <1>0, <1>2, <1>3, <1>4, <1>5, <1>6, <1>8 DEF Core, Left

(* evict_finished_transactions brings the lineage within its bound.         *)
LEMMA EvictIs ==
    ASSUME NEW s, Core(s), NEW r, r = evict_finished_transactions(s)
    PROVE  /\ Core(r) /\ Bounded(r) /\ Follows(s, r) /\ SameHistory(s, r)
           /\ r.releases = s.releases
           /\ ActiveOf(r) = ActiveOf(s)
           /\ \A t \in ActiveOf(s) : r.transactions[t] = s.transactions[t]
<1> DEFINE n == Cardinality(s.finished) - MaxFinished
           C == EvictionCandidates(s)
<1>1. C = (IF s.scope = "Production" THEN EvictableOf(s) ELSE EndedOf(s)) /\ s.finished = EndedOf(s)
  BY DEF Core, Book, EvictionCandidates
<1>2. C \subseteq EndedOf(s) /\ C \in SUBSET Ids
  BY <1>1, ListsAre
<1>3. Cardinality(EndedOf(s)) \in Nat /\ MaxFinished \in Nat
  BY ListsAre, FS_CardinalityType, StoreAssumption
<1>4. PICK gone : gone = Lowest(C, n)
  OBVIOUS
<1>5. gone \subseteq C /\ (gone # C => Cardinality(gone) >= n)
  <2>1. n \in Int
    BY <1>1, <1>3
  <2> HIDE DEF n, C
  <2> QED
    BY <1>2, <1>4, <2>1, LowestIs
<1>6. PICK pairs : pairs = {<<finished_lineage_deadline(s, s.transactions[t]), t>> : t \in gone}
  OBVIOUS
<1>7. pairs = Pairs(LapseOf(s), gone)
  BY <1>2, <1>5, <1>6 DEF Pairs, LapseOf
<1>8. r = Leaves(s, gone, pairs)
  BY <1>4, <1>6 DEF evict_finished_transactions, Evict, Leaves
<1> HIDE DEF n, C
<1>10. gone \subseteq EndedOf(s)
  BY <1>2, <1>5
<1>12. /\ Core(r) /\ Follows(s, r) /\ SameHistory(s, r) /\ r.releases = s.releases
       /\ EndedOf(r) = EndedOf(s) \ gone /\ EvictableOf(r) = EvictableOf(s) \ gone
       /\ ActiveOf(r) = ActiveOf(s)
       /\ \A t \in ActiveOf(s) : r.transactions[t] = s.transactions[t]
  BY <1>7, <1>8, <1>10, Forgets
<1>13. Bounded(r)
  <2>0. r.scope = s.scope
    BY <1>12 DEF Follows
  <2>1. CASE gone # C
    <3>1. /\ Cardinality(EndedOf(r)) = Cardinality(EndedOf(s)) - Cardinality(gone)
          /\ Cardinality(gone) \in Nat
      BY <1>10, <1>12, ListsAre, FewerIds
    <3>2. Cardinality(gone) >= Cardinality(EndedOf(s)) - MaxFinished
      BY <1>1, <1>5, <2>1 DEF n
    <3>3. Cardinality(EndedOf(r)) <= MaxFinished
      BY <1>3, <3>1, <3>2
    <3> QED
      BY <3>3 DEF Bounded
  <2>2. CASE gone = C /\ s.scope = "Production"
    <3>1. EvictableOf(r) = {}
      BY <1>1, <1>12, <2>2
    <3> QED
      BY <2>0, <2>2, <3>1 DEF Bounded
  <2>3. CASE gone = C /\ s.scope # "Production"
    <3>1. EndedOf(r) = {}
      BY <1>1, <1>12, <2>3
    <3>2. Cardinality(EndedOf(r)) <= MaxFinished
      BY <1>3, <3>1, FS_EmptySet
    <3> QED
      BY <3>2 DEF Bounded
  <2> QED
    BY <2>1, <2>2, <2>3
<1> QED
  BY <1>12, <1>13

-----------------------------------------------------------------------------
(* forget_elapsed_finished_transactions: what is over for long is forgotten. *)
LEMMA ForgetIs ==
    ASSUME NEW s, Core(s), NEW at, NEW r, r = forget_elapsed_finished_transactions(s, at)
    PROVE  /\ Core(r) /\ Bounded(r) /\ Follows(s, r) /\ SameHistory(s, r)
           /\ r.releases = s.releases
           /\ ActiveOf(r) = ActiveOf(s)
           /\ \A t \in ActiveOf(s) : r.transactions[t] = s.transactions[t]
<1>1. PICK pairs : pairs = {p \in s.finished_deadlines : p[1] <= at}
  OBVIOUS
<1>2. PICK gone : gone = {p[2] : p \in pairs}
  OBVIOUS
<1>3. PICK u : u = Leaves(s, gone, pairs)
  OBVIOUS
<1>4. r = evict_finished_transactions(u)
  BY <1>1, <1>2, <1>3 DEF forget_elapsed_finished_transactions, Forgotten, Leaves
<1>5. s.finished_deadlines = Pairs(LapseOf(s), EndedOf(s))
  BY DEF Core, Book
<1>6. gone \subseteq EndedOf(s)
  BY <1>1, <1>2, <1>5 DEF Pairs
<1>7. pairs = Pairs(LapseOf(s), gone)
  BY <1>1, <1>2, <1>5 DEF Pairs
<1>8. /\ Core(u) /\ Follows(s, u) /\ SameHistory(s, u) /\ u.releases = s.releases
      /\ ActiveOf(u) = ActiveOf(s)
      /\ \A t \in ActiveOf(s) : u.transactions[t] = s.transactions[t]
  BY <1>3, <1>6, <1>7, Forgets
<1>9. /\ Core(r) /\ Bounded(r) /\ Follows(u, r) /\ SameHistory(u, r)
      /\ r.releases = u.releases
      /\ ActiveOf(r) = ActiveOf(u)
      /\ \A t \in ActiveOf(u) : r.transactions[t] = u.transactions[t]
  BY <1>4, <1>8, EvictIs
<1> QED
  BY <1>8, <1>9, FollowsFurther, SameFurther

-----------------------------------------------------------------------------
(* Ending active transactions.                                              *)

\* What ends of the active transactions `gone`, and nothing else.
Fewer(s, gone, r) ==
    /\ r.next_transaction = s.next_transaction
    /\ r.active_count = saturating_sub(s.active_count, Cardinality(gone))
    /\ r.active_deadlines = s.active_deadlines \ Pairs(DeadlineOf(s), gone)
    /\ r.active_versions = decrement_version_count(s.active_versions, s.transactions, gone)
    /\ r.active_read_write = s.active_read_write \ gone
    /\ r.ledger = saturating_sub(s.ledger, BytesOf(s.transactions, gone))
    /\ ActiveOf(r) = ActiveOf(s) \ gone
    /\ \A t \in ActiveOf(r) : r.transactions[t] = s.transactions[t]

(* The indexes over active transactions when some of them end.              *)
LEMMA FewerActives ==
    ASSUME NEW s, Core(s), NEW gone, gone \subseteq ActiveOf(s),
           NEW r, r.scope = s.scope, Fewer(s, gone, r)
    PROVE  /\ r.active_count = Cardinality(ActiveOf(r))
           /\ r.active_read_write = {t \in ActiveOf(r) : ~r.transactions[t].read_only}
           /\ r.active_deadlines = Pairs(DeadlineOf(r), ActiveOf(r))
           /\ r.active_versions = Counts(r.transactions, ActiveOf(r))
           /\ r.ledger = BytesOf(r.transactions, ActiveOf(r))
<1>0. PICK A \in SUBSET Ids : A = ActiveOf(s) /\ IsFiniteSet(A)
  BY ListsAre
<1>1. r.active_count = Cardinality(ActiveOf(r))
  <2>1. /\ Cardinality(A \ gone) = Cardinality(A) - Cardinality(gone)
        /\ Cardinality(gone) <= Cardinality(A)
        /\ Cardinality(A) \in Nat /\ Cardinality(gone) \in Nat
    BY <1>0, FewerIds
  <2>2. r.active_count = saturating_sub(Cardinality(A), Cardinality(gone))
    BY <1>0 DEF Fewer, Core, Book
  <2>3. r.active_count = Cardinality(A) - Cardinality(gone)
    BY <2>1, <2>2 DEF saturating_sub
  <2> QED
    BY <1>0, <2>1, <2>3 DEF Fewer
<1>2. r.active_read_write = {t \in ActiveOf(r) : ~r.transactions[t].read_only}
  BY DEF Fewer, Core, Book
<1>3. r.active_deadlines = Pairs(DeadlineOf(r), ActiveOf(r))
  <2>0. r.active_deadlines = Pairs(DeadlineOf(s), A) \ Pairs(DeadlineOf(s), gone)
    BY <1>0 DEF Fewer, Core, Book
  <2>1. r.active_deadlines = Pairs(DeadlineOf(s), A \ gone)
    BY <2>0, PairsLess
  <2>2. \A t \in A \ gone : DeadlineOf(r)[t] = DeadlineOf(s)[t]
    BY <1>0, DeadlineSame DEF DeadlineOf, Fewer
  <2> QED
    BY <1>0, <2>1, <2>2, PairsSame DEF Fewer
<1>4. r.active_versions = Counts(r.transactions, ActiveOf(r))
  <2>1. r.active_versions = Counts(s.transactions, A \ gone)
    BY <1>0, CountsLess DEF Fewer, Core, Book
  <2> QED
    BY <1>0, <2>1, CountsSame DEF Fewer
<1>5. r.ledger = BytesOf(r.transactions, ActiveOf(r))
  <2>1. \A t \in A : s.transactions[t].bytes \in Nat
    BY <1>0 DEF Core, Transactions, IsTransaction
  <2>2. BytesOf(s.transactions, A) = BytesOf(s.transactions, gone) + BytesOf(s.transactions, A \ gone)
    BY <1>0, <2>1, BytesRest
  <2>3. IsFiniteSet(gone) /\ IsFiniteSet(A \ gone)
    BY <1>0, IdsFinite
  <2>4. BytesOf(s.transactions, gone) \in Nat /\ BytesOf(s.transactions, A \ gone) \in Nat
    BY <1>0, <2>1, <2>3, BytesNatural
  <2>5. r.ledger = saturating_sub(BytesOf(s.transactions, A), BytesOf(s.transactions, gone))
    BY <1>0 DEF Fewer, Core, Book
  <2>6. PICK i \in Nat, j \in Nat : /\ i = BytesOf(s.transactions, gone)
                                    /\ j = BytesOf(s.transactions, A \ gone)
    BY <2>4
  <2>7. r.ledger = j
    BY <2>2, <2>5, <2>6 DEF saturating_sub
  <2>8. BytesOf(s.transactions, A \ gone) = BytesOf(r.transactions, A \ gone)
    BY <1>0, <2>3, BytesSame DEF Fewer
  <2> QED
    BY <1>0, <2>6, <2>7, <2>8 DEF Fewer
<1> QED
  BY <1>1, <1>2, <1>3, <1>4, <1>5

\* The states end_active_transaction leaves; production finishes only what it prunes.
EndState(s, state) ==
    \/ state \in {"RolledBack", "RetryableAborted", "Committed", "CommitRefused"}
    \/ state = "Finished" /\ s.scope = "OfficialEmulator"

EndedAs(s, t, state) ==
    [s.transactions[t] EXCEPT !.state = state, !.waits = {}, !.bytes = 0,
                              !.read_set = {}, !.queries = {}]

LEMMA EndedAsIs ==
    ASSUME NEW s, NEW t, IsTransaction(s.transactions[t]), s.transactions[t].state = "Active",
           NEW state, EndState(s, state),
           NEW y, y = EndedAs(s, t, state)
    PROVE  /\ IsTransaction(y) /\ y.state = state /\ Ages(s.transactions[t], y)
           /\ finished_lineage_deadline(s, y) = transaction_lineage_deadline(s.transactions[t])
<1> DEFINE x == s.transactions[t]
<1>1. /\ y = [f \in TransactionFields |-> y[f]]
      /\ y.state = state /\ y.waits = {} /\ y.bytes = 0 /\ y.read_set = {} /\ y.queries = {}
      /\ y.read_only = x.read_only /\ y.read_version = x.read_version
      /\ y.started_at = x.started_at /\ y.last_activity = x.last_activity
      /\ y.deadlock_victim = x.deadlock_victim /\ y.snapshot_pending = x.snapshot_pending
      /\ y.lifetime_expired = x.lifetime_expired /\ y.has_read = x.has_read
      /\ y.retried_while_live = x.retried_while_live
  BY DEF EndedAs, IsTransaction, TransactionFields
<1>2. state \in TransactionStates /\ state \notin {"Active", "Unknown", "Retried"}
  BY DEF EndState, TransactionStates, RetryableStates
<1>3. IsTransaction(y)
  BY <1>1, <1>2 DEF IsTransaction
<1>4. Ages(x, y)
  BY <1>1, <1>2 DEF Ages, Readable
<1>5. ~y.lifetime_expired
  BY <1>1 DEF IsTransaction
<1>6. finished_lineage_deadline(s, y) = transaction_lineage_deadline(y) + 0
  BY <1>1, <1>5 DEF finished_lineage_deadline, EndState
<1>7. transaction_lineage_deadline(y) = transaction_lineage_deadline(x) /\ transaction_lineage_deadline(x) \in Nat
  BY <1>1, DeadlineIs DEF transaction_lineage_deadline, IsTransaction
<1> QED
  BY <1>1, <1>3, <1>4, <1>6, <1>7

Ends(s, ending, state, r) ==
    /\ r.next_transaction = s.next_transaction
    /\ r.active_count = saturating_sub(s.active_count, Cardinality(ending))
    /\ r.releases = s.releases + Cardinality(ending)
    /\ r.active_deadlines =
          s.active_deadlines \ {<<transaction_deadline(s, s.transactions[t]), t>> : t \in ending}
    /\ r.active_versions = decrement_version_count(s.active_versions, s.transactions, ending)
    /\ r.active_read_write = s.active_read_write \ ending
    /\ r.ledger = saturating_sub(s.ledger, BytesOf(s.transactions, ending))
    /\ r.transactions = [t \in Ids |-> IF t \in ending THEN EndedAs(s, t, state) ELSE s.transactions[t]]
    /\ r.finished_deadlines = s.finished_deadlines \cup
          {<<transaction_lineage_deadline(s.transactions[t]), t>> : t \in ending}
    /\ r.finished = s.finished \cup ending
    /\ r.evictable = IF s.scope = "Production" /\ state # "Finished" THEN s.evictable \cup ending
                     ELSE s.evictable \ ending

LEMMA EndedFields ==
    ASSUME NEW s, IsStore(s), NEW ending, NEW state, NEW r, r = Ended(s, ending, state)
    PROVE  IsStore(r) /\ SameHistory(s, r) /\ Ends(s, ending, state, r)
BY DEF Ended, Ends, EndedAs, IsStore, StoreFields, SameHistory

(* Ended: the indexes agree again; what ends is remembered.                 *)
LEMMA EndedIs ==
    ASSUME NEW s, Core(s), NEW ending, ending \subseteq ActiveOf(s),
           NEW state, EndState(s, state),
           NEW r, r = Ended(s, ending, state)
    PROVE  /\ Core(r) /\ Follows(s, r) /\ SameHistory(s, r)
           /\ ActiveOf(r) = ActiveOf(s) \ ending
           /\ \A t \in Ids \ ending : r.transactions[t] = s.transactions[t]
           /\ \A t \in ending : r.transactions[t] = EndedAs(s, t, state)
<1>1. IsStore(r) /\ SameHistory(s, r) /\ Ends(s, ending, state, r)
  BY EndedFields DEF Core
<1>2. ending \in SUBSET Ids /\ \A t \in ending : s.transactions[t].state = "Active"
  BY ListsAre DEF ActiveOf
<1>3. /\ \A t \in Ids \ ending : r.transactions[t] = s.transactions[t]
      /\ \A t \in ending : r.transactions[t] = EndedAs(s, t, state)
  BY <1>1, <1>2 DEF Ends
<1>4. \A t \in Ids : IsTransaction(s.transactions[t])
  BY DEF Core, Transactions
<1>5. \A t \in ending :
        /\ IsTransaction(r.transactions[t]) /\ r.transactions[t].state = state
        /\ Ages(s.transactions[t], r.transactions[t])
        /\ finished_lineage_deadline(s, r.transactions[t]) = transaction_lineage_deadline(s.transactions[t])
  <2> TAKE t \in ending
  <2>1. PICK y : y = EndedAs(s, t, state)
    OBVIOUS
  <2> QED
    BY <1>2, <1>3, <1>4, <2>1, EndedAsIs
<1>6. state \notin {"Active", "Unknown"}
  BY DEF EndState
<1>7. ActiveOf(r) = ActiveOf(s) \ ending /\ EndedOf(r) = EndedOf(s) \cup ending
  BY <1>2, <1>3, <1>5, <1>6 DEF ActiveOf, EndedOf
<1>8. r.scope = s.scope /\ r.version = s.version
  BY <1>1 DEF SameHistory
<1>9. Follows(s, r)
  <2>1. \A t \in Ids : Ages(s.transactions[t], r.transactions[t])
    BY <1>3, <1>5, AgesItself
  <2> QED
    BY <1>1, <1>8, <2>1 DEF Follows, Ends
<1>10. Transactions(r)
  <2>1. \A t \in Ids : IsTransaction(r.transactions[t])
    BY <1>3, <1>4, <1>5
  <2>2. r.transactions = [t \in Ids |-> r.transactions[t]] /\ r.next_transaction = s.next_transaction
    BY <1>1 DEF Ends
  <2>3. \A t \in Ids : t > r.next_transaction => r.transactions[t] = NoTransaction
    BY <1>2, <1>3, <2>2, NothingIs DEF Core, Transactions
  <2> QED
    BY <2>1, <2>2, <2>3 DEF Core, Transactions
<1>11. Fewer(s, ending, r)
  <2>1. {<<transaction_deadline(s, s.transactions[t]), t>> : t \in ending} = Pairs(DeadlineOf(s), ending)
    BY <1>2 DEF Pairs, DeadlineOf
  <2>2. \A t \in ActiveOf(r) : r.transactions[t] = s.transactions[t]
    BY <1>3, <1>7, ListsAre
  <2> QED
    BY <1>1, <1>7, <2>1, <2>2 DEF Ends, Fewer
<1>12. r.finished = EndedOf(r)
  BY <1>1, <1>7 DEF Ends, Core, Book
<1>13. r.finished_deadlines = Pairs(LapseOf(r), EndedOf(r))
  <2>1. \A t \in EndedOf(s) : LapseOf(r)[t] = LapseOf(s)[t]
    BY <1>2, <1>3, <1>8, LapseSame DEF LapseOf, EndedOf
  <2>2. \A t \in ending : LapseOf(r)[t] = transaction_lineage_deadline(s.transactions[t])
    BY <1>2, <1>5, <1>8, LapseSame DEF LapseOf
  <2>3. {<<transaction_lineage_deadline(s.transactions[t]), t>> : t \in ending} = Pairs(LapseOf(r), ending)
    BY <2>2 DEF Pairs
  <2>4. Pairs(LapseOf(r), EndedOf(s)) = Pairs(LapseOf(s), EndedOf(s))
    BY <2>1, PairsSame
  <2>5. r.finished_deadlines = Pairs(LapseOf(r), EndedOf(s)) \cup Pairs(LapseOf(r), ending)
    BY <1>1, <2>3, <2>4 DEF Ends, Core, Book
  <2> QED
    BY <1>7, <2>5, PairsMore
<1>14. r.evictable = IF r.scope = "Production" THEN EvictableOf(r) ELSE {}
  <2>1. CASE s.scope = "Production"
    <3>1. state # "Finished"
      BY <2>1 DEF EndState
    <3>2. EvictableOf(r) = EvictableOf(s) \cup ending
      BY <1>2, <1>3, <1>5, <1>7, <3>1 DEF EvictableOf, EndedOf
    <3> QED
      BY <1>1, <1>8, <2>1, <3>1, <3>2 DEF Ends, Core, Book
  <2>2. CASE s.scope # "Production"
    BY <1>1, <1>8, <2>2 DEF Ends, Core, Book
  <2> QED
    BY <2>1, <2>2
<1>15. Book(r)
  <2>1. /\ r.active_count = Cardinality(ActiveOf(r))
        /\ r.active_read_write = {t \in ActiveOf(r) : ~r.transactions[t].read_only}
        /\ r.active_deadlines = Pairs(DeadlineOf(r), ActiveOf(r))
        /\ r.active_versions = Counts(r.transactions, ActiveOf(r))
        /\ r.ledger = BytesOf(r.transactions, ActiveOf(r))
    BY <1>8, <1>11, FewerActives
  <2> QED
    BY <1>12, <1>13, <1>14, <2>1 DEF Book
<1> QED
  BY <1>1, <1>3, <1>7, <1>8, <1>9, <1>10, <1>15 DEF Core

(* end_active_transaction, of one or of several at once.                    *)
LEMMA EndActiveIs ==
    ASSUME NEW s, Core(s), NEW ending, ending \subseteq ActiveOf(s),
           NEW state, EndState(s, state),
           NEW r, r = EndActive(s, ending, state)
    PROVE  /\ Core(r) /\ Bounded(r) /\ Follows(s, r) /\ SameHistory(s, r)
           /\ ActiveOf(r) = ActiveOf(s) \ ending
           /\ \A t \in ActiveOf(s) \ ending : r.transactions[t] = s.transactions[t]
           /\ \A t \in ending : Ages(EndedAs(s, t, state), r.transactions[t])
<1>1. PICK u : u = Ended(s, ending, state)
  OBVIOUS
<1>2. r = evict_finished_transactions(u)
  BY <1>1 DEF EndActive
<1>3. /\ Core(u) /\ Follows(s, u) /\ SameHistory(s, u)
      /\ ActiveOf(u) = ActiveOf(s) \ ending
      /\ \A t \in Ids \ ending : u.transactions[t] = s.transactions[t]
      /\ \A t \in ending : u.transactions[t] = EndedAs(s, t, state)
  BY <1>1, EndedIs
<1>4. /\ Core(r) /\ Bounded(r) /\ Follows(u, r) /\ SameHistory(u, r)
      /\ ActiveOf(r) = ActiveOf(u)
      /\ \A t \in ActiveOf(u) : r.transactions[t] = u.transactions[t]
  BY <1>2, <1>3, EvictIs
<1>5. \A t \in ActiveOf(s) \ ending : r.transactions[t] = s.transactions[t]
  BY <1>3, <1>4, ListsAre
<1>6. \A t \in ending : Ages(EndedAs(s, t, state), r.transactions[t])
  BY <1>3, <1>4, ListsAre DEF Follows
<1> QED
  BY <1>3, <1>4, <1>5, <1>6, FollowsFurther, SameFurther

-----------------------------------------------------------------------------
(* Pruning.                                                                 *)

LEMMA ExpiredIs ==
    ASSUME NEW s, NEW x, IsTransaction(x), x.state = "Active", NEW y, y = Expired(s, x)
    PROVE  IsTransaction(y) /\ y.state = "Finished" /\ Ages(x, y)
<1> DEFINE late == transaction_deadline(s, x) = transaction_lineage_deadline(x)
<1>1. /\ y = [f \in TransactionFields |-> y[f]]
      /\ y.state = "Finished" /\ y.waits = x.waits /\ y.bytes = 0 /\ y.read_set = {} /\ y.queries = {}
      /\ y.read_only = x.read_only /\ y.read_version = x.read_version
      /\ y.started_at = x.started_at /\ y.last_activity = x.last_activity
      /\ y.deadlock_victim = x.deadlock_victim /\ y.snapshot_pending = x.snapshot_pending
      /\ y.has_read = x.has_read
      /\ y.retried_while_live = x.retried_while_live
  BY DEF Expired, IsTransaction, TransactionFields
<1>2. y.lifetime_expired \in BOOLEAN
  BY DEF Expired, IsTransaction, TransactionFields
<1>3. IsTransaction(y)
  BY <1>1, <1>2 DEF IsTransaction, TransactionStates, RetryableStates
<1>4. Ages(x, y)
  BY <1>1 DEF Ages, Readable
<1> QED
  BY <1>1, <1>3, <1>4

Prunes(s, elapsed, due, r) ==
    /\ r.next_transaction = s.next_transaction
    /\ r.active_count = saturating_sub(s.active_count, Cardinality(due))
    /\ r.active_deadlines = s.active_deadlines \ elapsed
    /\ r.active_versions = decrement_version_count(s.active_versions, s.transactions, due)
    /\ r.active_read_write = s.active_read_write \ due
    /\ r.ledger = saturating_sub(s.ledger, BytesOf(s.transactions, due))
    /\ r.transactions = [t \in Ids |-> IF t \in due THEN Expired(s, s.transactions[t])
                                       ELSE s.transactions[t]]
    /\ r.finished_deadlines = s.finished_deadlines \cup
          {<<finished_lineage_deadline(s, Expired(s, s.transactions[t])), t>> : t \in due}
    /\ r.finished = s.finished \cup due
    /\ r.evictable = s.evictable

LEMMA PrunedFields ==
    ASSUME NEW s, IsStore(s), NEW elapsed, NEW due, NEW r, r = Pruned(s, elapsed, due)
    PROVE  IsStore(r) /\ SameHistory(s, r) /\ Prunes(s, elapsed, due, r)
BY DEF Pruned, Prunes, IsStore, StoreFields, SameHistory

LEMMA PrunedIs ==
    ASSUME NEW s, Core(s), NEW due, due \subseteq ActiveOf(s),
           NEW elapsed, elapsed = Pairs(DeadlineOf(s), due),
           NEW r, r = Pruned(s, elapsed, due)
    PROVE  /\ Core(r) /\ Follows(s, r) /\ SameHistory(s, r)
           /\ ActiveOf(r) = ActiveOf(s) \ due
           /\ \A t \in ActiveOf(r) : r.transactions[t] = s.transactions[t]
<1>1. IsStore(r) /\ SameHistory(s, r) /\ Prunes(s, elapsed, due, r)
  BY PrunedFields DEF Core
<1>2. due \in SUBSET Ids /\ \A t \in due : s.transactions[t].state = "Active"
  BY ListsAre DEF ActiveOf
<1>3. /\ \A t \in Ids \ due : r.transactions[t] = s.transactions[t]
      /\ \A t \in due : r.transactions[t] = Expired(s, s.transactions[t])
  BY <1>1, <1>2 DEF Prunes
<1>4. \A t \in Ids : IsTransaction(s.transactions[t])
  BY DEF Core, Transactions
<1>5. \A t \in due :
        /\ IsTransaction(r.transactions[t]) /\ r.transactions[t].state = "Finished"
        /\ Ages(s.transactions[t], r.transactions[t])
  <2> TAKE t \in due
  <2>1. PICK x, y : x = s.transactions[t] /\ y = Expired(s, x)
    OBVIOUS
  <2>2. IsTransaction(x) /\ x.state = "Active"
    BY <1>2, <1>4, <2>1
  <2>3. IsTransaction(y) /\ y.state = "Finished" /\ Ages(x, y)
    BY <2>1, <2>2, ExpiredIs
  <2> QED
    BY <1>3, <2>1, <2>3
<1>7. ActiveOf(r) = ActiveOf(s) \ due /\ EndedOf(r) = EndedOf(s) \cup due /\ EvictableOf(r) = EvictableOf(s)
  <2>1. ActiveOf(r) = ActiveOf(s) \ due /\ EndedOf(r) = EndedOf(s) \cup due
    BY <1>2, <1>3, <1>5 DEF ActiveOf, EndedOf
  <2> QED
    BY <1>2, <1>3, <1>5, <2>1 DEF EvictableOf, EndedOf
<1>8. r.scope = s.scope /\ r.version = s.version
  BY <1>1 DEF SameHistory
<1>9. Follows(s, r)
  <2>1. \A t \in Ids : Ages(s.transactions[t], r.transactions[t])
    BY <1>3, <1>5, AgesItself
  <2> QED
    BY <1>1, <1>8, <2>1 DEF Follows, Prunes
<1>10. Transactions(r)
  <2>1. \A t \in Ids : IsTransaction(r.transactions[t])
    BY <1>3, <1>4, <1>5
  <2>2. r.transactions = [t \in Ids |-> r.transactions[t]] /\ r.next_transaction = s.next_transaction
    BY <1>1 DEF Prunes
  <2>3. \A t \in Ids : t > r.next_transaction => r.transactions[t] = NoTransaction
    BY <1>2, <1>3, <2>2, NothingIs DEF Core, Transactions
  <2> QED
    BY <2>1, <2>2, <2>3 DEF Core, Transactions
<1>11. \A t \in ActiveOf(r) : r.transactions[t] = s.transactions[t]
  BY <1>3, <1>7, ListsAre
<1>12. Fewer(s, due, r)
  BY <1>1, <1>7, <1>11 DEF Prunes, Fewer
<1>13. r.finished_deadlines = Pairs(LapseOf(r), EndedOf(r))
  <2>1. \A t \in EndedOf(s) : LapseOf(r)[t] = LapseOf(s)[t]
    BY <1>2, <1>3, <1>8, LapseSame DEF LapseOf, EndedOf
  <2>2. \A t \in due : LapseOf(r)[t] = finished_lineage_deadline(s, Expired(s, s.transactions[t]))
    BY <1>2, <1>3, <1>8, LapseSame DEF LapseOf
  <2>3. {<<finished_lineage_deadline(s, Expired(s, s.transactions[t])), t>> : t \in due}
          = Pairs(LapseOf(r), due)
    BY <2>2 DEF Pairs
  <2>4. Pairs(LapseOf(r), EndedOf(s)) = Pairs(LapseOf(s), EndedOf(s))
    BY <2>1, PairsSame
  <2>5. r.finished_deadlines = Pairs(LapseOf(r), EndedOf(s)) \cup Pairs(LapseOf(r), due)
    BY <1>1, <2>3, <2>4 DEF Prunes, Core, Book
  <2> QED
    BY <1>7, <2>5, PairsMore
<1>15. Book(r)
  <2>1. /\ r.active_count = Cardinality(ActiveOf(r))
        /\ r.active_read_write = {t \in ActiveOf(r) : ~r.transactions[t].read_only}
        /\ r.active_deadlines = Pairs(DeadlineOf(r), ActiveOf(r))
        /\ r.active_versions = Counts(r.transactions, ActiveOf(r))
        /\ r.ledger = BytesOf(r.transactions, ActiveOf(r))
    BY <1>8, <1>12, FewerActives
  <2>2. r.finished = EndedOf(r) /\ r.evictable = IF r.scope = "Production" THEN EvictableOf(r) ELSE {}
    BY <1>1, <1>7, <1>8 DEF Prunes, Core, Book
  <2> QED
    BY <1>13, <2>1, <2>2 DEF Book
<1> QED
  BY <1>1, <1>7, <1>8, <1>9, <1>10, <1>11, <1>15 DEF Core

\* No active transaction is past its deadline.
Fresh(s, at) == \A t \in ActiveOf(s) : transaction_deadline(s, s.transactions[t]) > at

(* prune_transactions: the indexes agree, the lineage is bounded, and only  *)
(* transactions past their deadline are ended.                              *)
LEMMA PruneIs ==
    ASSUME NEW s, Core(s), NEW at \in Nat, NEW r, r = prune_transactions(s, at)
    PROVE  /\ Core(r) /\ Bounded(r) /\ Follows(s, r) /\ SameHistory(s, r)
           /\ ActiveOf(r) = {t \in ActiveOf(s) : transaction_deadline(s, s.transactions[t]) > at}
           /\ \A t \in ActiveOf(r) : r.transactions[t] = s.transactions[t]
           /\ Fresh(r, at)
<1>1. PICK elapsed : elapsed = {p \in s.active_deadlines : p[1] <= at}
  OBVIOUS
<1>2. PICK due : due = {p[2] : p \in {x \in elapsed : Current(s, x)}}
  OBVIOUS
<1>3. PICK u : u = Pruned(s, elapsed, due)
  OBVIOUS
<1>4. r = forget_elapsed_finished_transactions(u, at)
  BY <1>1, <1>2, <1>3 DEF prune_transactions, PrunedElapsed
<1>5. s.active_deadlines = Pairs(DeadlineOf(s), ActiveOf(s))
  BY DEF Core, Book
<1>6. \A t \in ActiveOf(s) : /\ t \in Ids /\ Active(s, t)
                             /\ DeadlineOf(s)[t] = transaction_deadline(s, s.transactions[t])
                             /\ DeadlineOf(s)[t] \in Nat
  <2> TAKE t \in ActiveOf(s)
  <2>1. t \in Ids /\ s.transactions[t].state = "Active"
    BY DEF ActiveOf
  <2>2. IsTransaction(s.transactions[t])
    BY <2>1 DEF Core, Transactions
  <2>3. transaction_deadline(s, s.transactions[t]) \in Nat
    BY <2>2, DeadlineIs DEF IsTransaction
  <2> QED
    BY <2>1, <2>3 DEF DeadlineOf, Active
<1>7. \A x \in elapsed : Current(s, x) /\ x[2] \in ActiveOf(s) /\ x = <<DeadlineOf(s)[x[2]], x[2]>>
                         /\ DeadlineOf(s)[x[2]] <= at
  BY <1>1, <1>5, <1>6 DEF Pairs, Current
<1>8. due \subseteq ActiveOf(s) /\ \A t \in due : DeadlineOf(s)[t] <= at
  BY <1>2, <1>7
<1>9. \A t \in ActiveOf(s) : DeadlineOf(s)[t] <= at => <<DeadlineOf(s)[t], t>> \in elapsed
  BY <1>1, <1>5 DEF Pairs
<1>10. elapsed = Pairs(DeadlineOf(s), due)
  <2>1. \A x \in elapsed : x \in Pairs(DeadlineOf(s), due)
    BY <1>2, <1>7 DEF Pairs
  <2>2. \A x \in Pairs(DeadlineOf(s), due) : x \in elapsed
    BY <1>8, <1>9 DEF Pairs
  <2> QED
    BY <2>1, <2>2
<1>11. \A t \in ActiveOf(s) : DeadlineOf(s)[t] <= at => t \in due
  BY <1>2, <1>7, <1>9
<1>12. /\ Core(u) /\ Follows(s, u) /\ SameHistory(s, u)
       /\ ActiveOf(u) = ActiveOf(s) \ due
       /\ \A t \in ActiveOf(u) : u.transactions[t] = s.transactions[t]
  BY <1>3, <1>8, <1>10, PrunedIs
<1>13. /\ Core(r) /\ Bounded(r) /\ Follows(u, r) /\ SameHistory(u, r)
       /\ ActiveOf(r) = ActiveOf(u)
       /\ \A t \in ActiveOf(u) : r.transactions[t] = u.transactions[t]
  BY <1>4, <1>12, ForgetIs
<1>14. Follows(s, r) /\ SameHistory(s, r)
  BY <1>12, <1>13, FollowsFurther, SameFurther
<1>15. ActiveOf(r) = {t \in ActiveOf(s) : transaction_deadline(s, s.transactions[t]) > at}
  <2>1. \A t \in ActiveOf(s) : t \in due <=> ~ (DeadlineOf(s)[t] > at)
    BY <1>6, <1>8, <1>11
  <2> QED
    BY <1>6, <1>12, <1>13, <2>1
<1>16. \A t \in ActiveOf(r) : r.transactions[t] = s.transactions[t]
  BY <1>12, <1>13
<1>17. Fresh(r, at)
  <2>1. r.scope = s.scope
    BY <1>14 DEF Follows
  <2>2. \A t \in ActiveOf(r) :
          transaction_deadline(r, r.transactions[t]) = transaction_deadline(s, s.transactions[t])
    BY <1>16, <2>1, DeadlineSame
  <2> QED
    BY <1>15, <2>2 DEF Fresh
<1> QED
  BY <1>13, <1>14, <1>15, <1>16, <1>17

-----------------------------------------------------------------------------
(* Changes to transactions that no index shows.                             *)

EndedState(state) == state \notin {"Active", "Unknown"}

Unindexed(x, y) ==
    /\ IsTransaction(y)
    /\ \/ y.state = x.state
       \/ EndedState(x.state) /\ EndedState(y.state) /\ "Finished" \notin {x.state, y.state}
    /\ y.started_at = x.started_at /\ y.lifetime_expired = x.lifetime_expired
    /\ x.state = "Active" => /\ y.read_only = x.read_only /\ y.read_version = x.read_version
                             /\ y.last_activity = x.last_activity /\ y.bytes = x.bytes

WithTransactions(s, txs) == [s EXCEPT !.transactions = txs]

LEMMA WithFields ==
    ASSUME NEW s, IsStore(s), NEW txs, NEW r, r = WithTransactions(s, txs)
    PROVE  /\ IsStore(r) /\ SameHistory(s, r) /\ r.transactions = txs
           /\ r.next_transaction = s.next_transaction
           /\ r.active_count = s.active_count /\ r.active_deadlines = s.active_deadlines
           /\ r.active_versions = s.active_versions /\ r.active_read_write = s.active_read_write
           /\ r.ledger = s.ledger /\ r.finished = s.finished /\ r.evictable = s.evictable
           /\ r.finished_deadlines = s.finished_deadlines
BY DEF WithTransactions, IsStore, StoreFields, SameHistory

LEMMA UnindexedIs ==
    ASSUME NEW s, Core(s), NEW txs, txs = [t \in Ids |-> txs[t]],
           \A t \in Ids : Unindexed(s.transactions[t], txs[t]),
           \A t \in Ids : t > s.next_transaction => txs[t] = NoTransaction,
           NEW r, r = WithTransactions(s, txs)
    PROVE  /\ Core(r) /\ SameHistory(s, r) /\ (Bounded(s) => Bounded(r))
           /\ ActiveOf(r) = ActiveOf(s) /\ r.transactions = txs
           /\ r.next_transaction = s.next_transaction
<1>1. /\ IsStore(r) /\ SameHistory(s, r) /\ r.transactions = txs
      /\ r.next_transaction = s.next_transaction
      /\ r.active_count = s.active_count /\ r.active_deadlines = s.active_deadlines
      /\ r.active_versions = s.active_versions /\ r.active_read_write = s.active_read_write
      /\ r.ledger = s.ledger /\ r.finished = s.finished /\ r.evictable = s.evictable
      /\ r.finished_deadlines = s.finished_deadlines
  BY WithFields DEF Core
<1>2. r.scope = s.scope
  BY <1>1 DEF SameHistory
<1>3. ActiveOf(r) = ActiveOf(s) /\ EndedOf(r) = EndedOf(s)
  BY <1>1 DEF ActiveOf, EndedOf, Unindexed, EndedState
<1>4. EvictableOf(r) = EvictableOf(s)
  BY <1>1, <1>3 DEF EndedOf, EvictableOf, Unindexed
<1>5. Transactions(r)
  BY <1>1 DEF Core, Transactions, Unindexed
<1>6. \A t \in ActiveOf(s) :
         /\ r.transactions[t].read_only = s.transactions[t].read_only
         /\ r.transactions[t].read_version = s.transactions[t].read_version
         /\ r.transactions[t].started_at = s.transactions[t].started_at
         /\ r.transactions[t].last_activity = s.transactions[t].last_activity
         /\ r.transactions[t].bytes = s.transactions[t].bytes
  BY <1>1 DEF Unindexed, ActiveOf
<1>7. Pairs(LapseOf(r), EndedOf(r)) = Pairs(LapseOf(s), EndedOf(s))
  <2>1. \A t \in EndedOf(s) : LapseOf(r)[t] = LapseOf(s)[t]
    <3> TAKE t \in EndedOf(s)
    <3>1. t \in Ids /\ Unindexed(s.transactions[t], r.transactions[t])
      BY <1>1 DEF EndedOf
    <3>2. finished_lineage_deadline(r, r.transactions[t]) = finished_lineage_deadline(s, s.transactions[t])
      BY <1>2, <3>1 DEF Unindexed, finished_lineage_deadline, transaction_lineage_deadline
    <3> QED
      BY <3>1, <3>2 DEF LapseOf
  <2> QED
    BY <1>3, <2>1, PairsSame
<1>8. /\ {t \in ActiveOf(r) : ~r.transactions[t].read_only}
            = {t \in ActiveOf(s) : ~s.transactions[t].read_only}
      /\ Pairs(DeadlineOf(r), ActiveOf(r)) = Pairs(DeadlineOf(s), ActiveOf(s))
      /\ Counts(r.transactions, ActiveOf(r)) = Counts(s.transactions, ActiveOf(s))
      /\ BytesOf(r.transactions, ActiveOf(r)) = BytesOf(s.transactions, ActiveOf(s))
  BY <1>2, <1>3, <1>6, ActivesSame
<1>9. Book(r)
  BY <1>1, <1>2, <1>3, <1>4, <1>7, <1>8 DEF Core, Book
<1>10. Bounded(s) => Bounded(r)
  BY <1>2, <1>3, <1>4 DEF Bounded
<1> QED
  BY <1>1, <1>2, <1>3, <1>5, <1>9, <1>10 DEF Core

-----------------------------------------------------------------------------
(* An expired transaction that is kept for its own bound.                   *)

LEMMA KeptIs ==
    ASSUME NEW x, IsTransaction(x), x.state # "Active",
           NEW y, y = [x EXCEPT !.lifetime_expired = TRUE]
    PROVE  IsTransaction(y) /\ y.state = x.state /\ Ages(x, y)
<1>1. /\ y = [f \in TransactionFields |-> y[f]]
      /\ y.state = x.state /\ y.waits = x.waits /\ y.bytes = x.bytes
      /\ y.read_set = x.read_set /\ y.queries = x.queries
      /\ y.read_only = x.read_only /\ y.read_version = x.read_version
      /\ y.started_at = x.started_at /\ y.last_activity = x.last_activity
      /\ y.deadlock_victim = x.deadlock_victim /\ y.snapshot_pending = x.snapshot_pending
      /\ y.has_read = x.has_read /\ y.lifetime_expired = TRUE
      /\ y.retried_while_live = x.retried_while_live
  BY DEF IsTransaction, TransactionFields
<1>2. IsTransaction(y)
  BY <1>1 DEF IsTransaction
<1> QED
  BY <1>1, <1>2 DEF Ages, Readable

LEMMA KeepIs ==
    ASSUME NEW s, Core(s), Bounded(s), NEW t \in Ids, t \notin ActiveOf(s), NEW deadline,
           NEW r, r = keep_lifetime_expired_transaction(s, t, deadline)
    PROVE  /\ Core(r) /\ Bounded(r) /\ Follows(s, r) /\ SameHistory(s, r)
           /\ ActiveOf(r) = ActiveOf(s)
           /\ \A u \in ActiveOf(s) : r.transactions[u] = s.transactions[u]
<1> DEFINE x == s.transactions[t]
           plain == <<finished_lineage_deadline(s, x), t>>
<1>1. CASE r = s
  BY <1>1, FollowsItself
<1>2. CASE r # s
  <2>1. PICK y : y = [x EXCEPT !.lifetime_expired = TRUE]
    OBVIOUS
  <2>2. PICK lapse : lapse = <<finished_lineage_deadline(s, y), t>>
    OBVIOUS
  <2>3. x.state # "Unknown" /\ t \in EndedOf(s)
    BY <1>2 DEF keep_lifetime_expired_transaction, EndedOf, ActiveOf
  <2>4. r = [s EXCEPT !.transactions[t] = y,
                      !.finished_deadlines = IF plain \in @ THEN (@ \ {plain}) \cup {lapse} ELSE @]
    BY <1>2, <2>1, <2>2 DEF keep_lifetime_expired_transaction
  <2>5. /\ IsStore(r) /\ SameHistory(s, r)
        /\ r.next_transaction = s.next_transaction
        /\ r.active_count = s.active_count /\ r.active_deadlines = s.active_deadlines
        /\ r.active_versions = s.active_versions /\ r.active_read_write = s.active_read_write
        /\ r.ledger = s.ledger /\ r.finished = s.finished /\ r.evictable = s.evictable
        /\ r.finished_deadlines = (IF plain \in s.finished_deadlines
                                   THEN (s.finished_deadlines \ {plain}) \cup {lapse}
                                   ELSE s.finished_deadlines)
        /\ r.transactions = [s.transactions EXCEPT ![t] = y]
    <3> HIDE DEF x, plain
    <3> QED
      BY <2>4 DEF Core, IsStore, StoreFields, SameHistory
  <2>6. IsTransaction(y) /\ y.state = x.state /\ Ages(x, y)
    <3>1. IsTransaction(x) /\ x.state # "Active"
      BY DEF ActiveOf, Core, Transactions
    <3> QED
      BY <2>1, <3>1, KeptIs
  <2>7. /\ r.transactions[t] = y /\ \A u \in Ids \ {t} : r.transactions[u] = s.transactions[u]
        /\ r.transactions = [u \in Ids |-> r.transactions[u]]
    BY <2>5 DEF Core, Transactions
  <2>8. ActiveOf(r) = ActiveOf(s) /\ EndedOf(r) = EndedOf(s)
    BY <2>6, <2>7 DEF ActiveOf, EndedOf
  <2>9. EvictableOf(r) = EvictableOf(s)
    BY <2>6, <2>7, <2>8 DEF EvictableOf, EndedOf
  <2>10. r.scope = s.scope /\ r.version = s.version
    BY <2>5 DEF SameHistory
  <2>11. Follows(s, r)
    BY <2>5, <2>6, <2>7, <2>10, AgesItself DEF Follows
  <2>12. Transactions(r)
    <3>1. \A u \in Ids : u > r.next_transaction => r.transactions[u] = NoTransaction
      BY <2>3, <2>5, <2>7, NothingIs DEF Core, Transactions
    <3>2. \A u \in Ids : IsTransaction(r.transactions[u])
      BY <2>6, <2>7 DEF Core, Transactions
    <3> QED
      BY <2>5, <2>7, <3>1, <3>2 DEF Core, Transactions
  <2>13. r.finished_deadlines = Pairs(LapseOf(r), EndedOf(r))
    <3>1. PICK E : E = EndedOf(s)
      OBVIOUS
    <3>2. s.finished_deadlines = Pairs(LapseOf(s), E)
      BY <3>1 DEF Core, Book
    <3>3. \A u \in E \ {t} : LapseOf(r)[u] = LapseOf(s)[u]
      BY <2>7, <2>10, <3>1, LapseSame DEF LapseOf, EndedOf
    <3>4. Pairs(LapseOf(s), {t}) = {plain} /\ Pairs(LapseOf(r), {t}) = {lapse}
      BY <2>2, <2>7, <2>10, PairsOf, LapseSame DEF LapseOf
    <3>5. plain \in s.finished_deadlines
      BY <2>3, <3>1, <3>2 DEF Pairs, LapseOf
    <3>6. r.finished_deadlines = (Pairs(LapseOf(s), E) \ Pairs(LapseOf(s), {t})) \cup Pairs(LapseOf(r), {t})
      BY <2>5, <3>2, <3>4, <3>5
    <3>7. Pairs(LapseOf(s), E) \ Pairs(LapseOf(s), {t}) = Pairs(LapseOf(r), E \ {t})
      BY <3>3, PairsLess, PairsSame
    <3>8. (E \ {t}) \cup {t} = E
      BY <2>3, <3>1
    <3> QED
      BY <2>8, <3>1, <3>6, <3>7, <3>8, PairsMore
  <2>14. \A u \in ActiveOf(s) : r.transactions[u] = s.transactions[u]
    BY <2>7, ListsAre
  <2>15. /\ {u \in ActiveOf(r) : ~r.transactions[u].read_only}
              = {u \in ActiveOf(s) : ~s.transactions[u].read_only}
         /\ Pairs(DeadlineOf(r), ActiveOf(r)) = Pairs(DeadlineOf(s), ActiveOf(s))
         /\ Counts(r.transactions, ActiveOf(r)) = Counts(s.transactions, ActiveOf(s))
         /\ BytesOf(r.transactions, ActiveOf(r)) = BytesOf(s.transactions, ActiveOf(s))
    BY <2>8, <2>10, <2>14, ActivesSame
  <2>16. Book(r)
    BY <2>5, <2>8, <2>9, <2>10, <2>13, <2>15 DEF Core, Book
  <2>17. Bounded(r)
    BY <2>8, <2>9, <2>10 DEF Bounded
  <2> QED
    BY <2>5, <2>8, <2>10, <2>11, <2>12, <2>14, <2>16, <2>17 DEF Core
<1> QED
  BY <1>1, <1>2

-----------------------------------------------------------------------------
(* Forgetting a transaction that was never handed out.                      *)

Abandons(s, t, r) ==
    /\ r.next_transaction = s.next_transaction
    /\ r.active_deadlines = s.active_deadlines \ {<<transaction_deadline(s, s.transactions[t]), t>>}
    /\ r.active_read_write = s.active_read_write \ {t}
    /\ r.active_count = (IF Active(s, t) THEN saturating_sub(s.active_count, 1) ELSE s.active_count)
    /\ r.active_versions = (IF Active(s, t)
                            THEN decrement_version_count(s.active_versions, s.transactions, {t})
                            ELSE s.active_versions)
    /\ r.ledger = saturating_sub(s.ledger, s.transactions[t].bytes)
    /\ r.finished = s.finished \ {t} /\ r.evictable = s.evictable \ {t}
    /\ r.finished_deadlines =
          s.finished_deadlines \ {<<finished_lineage_deadline(s, s.transactions[t]), t>>}
    /\ r.transactions = [s.transactions EXCEPT ![t] = NoTransaction]

LEMMA AbandonFields ==
    ASSUME NEW s, IsStore(s), NEW t, NEW r, r = abandon_transaction(s, t)
    PROVE  IsStore(r) /\ SameHistory(s, r) /\ Abandons(s, t, r)
BY DEF abandon_transaction, Abandons, IsStore, StoreFields, SameHistory

LEMMA AbandonIs ==
    ASSUME NEW s, Core(s), Bounded(s), NEW t \in Ids, NEW r, r = abandon_transaction(s, t)
    PROVE  /\ Core(r) /\ Bounded(r) /\ Follows(s, r) /\ SameHistory(s, r)
           /\ r.transactions[t] = NoTransaction
<1>1. IsStore(r) /\ SameHistory(s, r) /\ Abandons(s, t, r)
  BY AbandonFields DEF Core
<1>2. /\ r.transactions = [u \in Ids |-> r.transactions[u]]
      /\ r.transactions[t] = NoTransaction
      /\ \A u \in Ids \ {t} : r.transactions[u] = s.transactions[u]
  BY <1>1 DEF Abandons, Core, Transactions
<1>3. /\ ActiveOf(r) = ActiveOf(s) \ {t} /\ EndedOf(r) = EndedOf(s) \ {t}
      /\ EvictableOf(r) = EvictableOf(s) \ {t}
  BY <1>2, NothingIs DEF ActiveOf, EndedOf, EvictableOf
<1>4. r.scope = s.scope /\ r.version = s.version
  BY <1>1 DEF SameHistory
<1>5. Follows(s, r)
  BY <1>1, <1>2, <1>4, AgesItself, AgesToNothing DEF Follows, Abandons
<1>6. Transactions(r)
  BY <1>1, <1>2, NothingIs DEF Core, Transactions, Abandons
<1>7. \A u \in ActiveOf(r) : r.transactions[u] = s.transactions[u]
  BY <1>2, <1>3, ListsAre
<1>8. IsTransaction(s.transactions[t])
  BY DEF Core, Transactions
<1>9. /\ r.active_count = Cardinality(ActiveOf(r))
      /\ r.active_read_write = {u \in ActiveOf(r) : ~r.transactions[u].read_only}
      /\ r.active_deadlines = Pairs(DeadlineOf(r), ActiveOf(r))
      /\ r.active_versions = Counts(r.transactions, ActiveOf(r))
      /\ r.ledger = BytesOf(r.transactions, ActiveOf(r))
  <2>0. Pairs(DeadlineOf(s), {t}) = {<<transaction_deadline(s, s.transactions[t]), t>>}
    BY PairsOf DEF DeadlineOf
  <2>1. CASE t \in ActiveOf(s)
    <3>1. Active(s, t)
      BY <2>1 DEF ActiveOf, Active
    <3>2. Cardinality({t}) = 1
      BY FS_Singleton
    <3>3. BytesOf(s.transactions, {t}) = s.transactions[t].bytes
      <4>1. s.transactions[t].bytes \in Nat /\ IsFiniteSet({t})
        BY <1>8, FS_Singleton DEF IsTransaction
      <4>2. BytesOf(s.transactions, {t}) = s.transactions[t].bytes + BytesOf(s.transactions, {t} \ {t})
        BY <4>1, BytesTake
      <4>3. {t} \ {t} = {}
        OBVIOUS
      <4>4. BytesOf(s.transactions, {}) = 0
        BY BytesEmpty
      <4> QED
        BY <4>1, <4>2, <4>3, <4>4
    <3>4. Fewer(s, {t}, r)
      BY <1>1, <1>3, <1>7, <2>0, <3>1, <3>2, <3>3 DEF Abandons, Fewer
    <3>5. {t} \subseteq ActiveOf(s)
      BY <2>1
    <3> QED
      BY <1>4, <3>4, <3>5, FewerActives
  <2>2. CASE t \notin ActiveOf(s)
    <3>1. ~Active(s, t) /\ s.transactions[t].bytes = 0 /\ ActiveOf(r) = ActiveOf(s)
      BY <1>3, <1>8, <2>2 DEF ActiveOf, Active, IsTransaction
    <3>2. /\ {u \in ActiveOf(r) : ~r.transactions[u].read_only}
                = {u \in ActiveOf(s) : ~s.transactions[u].read_only}
          /\ Pairs(DeadlineOf(r), ActiveOf(r)) = Pairs(DeadlineOf(s), ActiveOf(s))
          /\ Counts(r.transactions, ActiveOf(r)) = Counts(s.transactions, ActiveOf(s))
          /\ BytesOf(r.transactions, ActiveOf(r)) = BytesOf(s.transactions, ActiveOf(s))
      BY <1>4, <1>7, <3>1, ActivesSame
    <3>3. s.ledger \in Nat
      <4>1. \A u \in ActiveOf(s) : s.transactions[u].bytes \in Nat
        BY ListsAre DEF Core, Transactions, IsTransaction
      <4> QED
        BY <4>1, ListsAre, BytesNatural DEF Core, Book
    <3>4. r.ledger = s.ledger
      BY <1>1, <3>1, <3>3 DEF Abandons, saturating_sub
    <3>5. r.active_deadlines = s.active_deadlines
      <4>1. r.active_deadlines = Pairs(DeadlineOf(s), ActiveOf(s)) \ Pairs(DeadlineOf(s), {t})
        BY <1>1, <2>0 DEF Abandons, Core, Book
      <4>2. ActiveOf(s) \ {t} = ActiveOf(s)
        BY <2>2
      <4> QED
        BY <4>1, <4>2, PairsLess DEF Core, Book
    <3>6. r.active_read_write = s.active_read_write
      BY <1>1, <2>2 DEF Abandons, Core, Book
    <3> QED
      BY <1>1, <3>1, <3>2, <3>4, <3>5, <3>6 DEF Abandons, Core, Book
  <2> QED
    BY <2>1, <2>2
<1>10. r.finished_deadlines = Pairs(LapseOf(r), EndedOf(r))
  <2>1. r.finished_deadlines = Pairs(LapseOf(s), EndedOf(s)) \ Pairs(LapseOf(s), {t})
    BY <1>1, PairsOf DEF Abandons, Core, Book, LapseOf
  <2>2. \A u \in EndedOf(s) \ {t} : LapseOf(s)[u] = LapseOf(r)[u]
    BY <1>2, <1>4, LapseSame DEF LapseOf, EndedOf
  <2> QED
    BY <1>3, <2>1, <2>2, PairsLess, PairsSame
<1>11. Book(r)
  <2>1. r.finished = EndedOf(r) /\ r.evictable = IF r.scope = "Production" THEN EvictableOf(r) ELSE {}
    BY <1>1, <1>3, <1>4 DEF Abandons, Core, Book
  <2> QED
    BY <1>9, <1>10, <2>1 DEF Book
<1>12. Bounded(r)
  <2>1. CASE Cardinality(EndedOf(s)) <= MaxFinished
    <3>1. Cardinality(EndedOf(r)) <= Cardinality(EndedOf(s))
      BY <1>3, ListsAre, FS_Subset
    <3>2. Cardinality(EndedOf(r)) \in Nat /\ Cardinality(EndedOf(s)) \in Nat /\ MaxFinished \in Nat
      BY ListsAre, IdsFinite, StoreAssumption
    <3> QED
      BY <2>1, <3>1, <3>2 DEF Bounded
  <2>2. CASE s.scope = "Production" /\ EvictableOf(s) = {}
    BY <1>3, <1>4, <2>2 DEF Bounded
  <2> QED
    BY <2>1, <2>2 DEF Bounded
<1> QED
  BY <1>1, <1>2, <1>4, <1>5, <1>6, <1>11, <1>12 DEF Core

-----------------------------------------------------------------------------
(* Beginning a transaction.                                                 *)

Inserted(s, t, x) ==
    [s EXCEPT
        !.next_transaction = t,
        !.active_deadlines = @ \cup {<<transaction_deadline(s, x), t>>},
        !.active_versions = increment_version_count(@, x.read_version),
        !.active_count = @ + 1,
        !.active_read_write = IF x.read_only THEN @ ELSE @ \cup {t},
        !.transactions[t] = x]

Inserts(s, t, x, r) ==
    /\ r.next_transaction = t
    /\ r.active_deadlines = s.active_deadlines \cup {<<transaction_deadline(s, x), t>>}
    /\ r.active_versions = increment_version_count(s.active_versions, x.read_version)
    /\ r.active_count = s.active_count + 1
    /\ r.active_read_write = (IF x.read_only THEN s.active_read_write ELSE s.active_read_write \cup {t})
    /\ r.ledger = s.ledger /\ r.finished = s.finished /\ r.evictable = s.evictable
    /\ r.finished_deadlines = s.finished_deadlines
    /\ r.transactions = [s.transactions EXCEPT ![t] = x]

LEMMA InsertFields ==
    ASSUME NEW s, IsStore(s), NEW t, NEW x, NEW r, r = Inserted(s, t, x)
    PROVE  IsStore(r) /\ SameHistory(s, r) /\ Inserts(s, t, x, r)
BY DEF Inserted, Inserts, IsStore, StoreFields, SameHistory

(* The next id is unused, and so is every id above it.                      *)
UnusedFrom(s, t) ==
    /\ t \in Nat /\ s.transactions[t] = NoTransaction
    /\ \A u \in Ids : u > t => u # t /\ s.transactions[u] = NoTransaction

LEMMA NextIsUnused ==
    ASSUME NEW s, Core(s), NEW t \in Ids, t = s.next_transaction + 1
    PROVE  UnusedFrom(s, t)
<1>1. PICK n \in Nat : n = s.next_transaction
  BY DEF Core, Transactions
<1>2. \A u \in Ids : u > n => s.transactions[u] = NoTransaction
  BY <1>1 DEF Core, Transactions
<1>3. t = n + 1 /\ t > n
  BY <1>1
<1>4. \A u \in Ids : u > t => u > n /\ u # t
  BY <1>3, StoreAssumption
<1> QED
  BY <1>1, <1>2, <1>3, <1>4 DEF UnusedFrom

LEMMA InsertAt ==
    ASSUME NEW s, Core(s), NEW t \in Ids, UnusedFrom(s, t),
           NEW x, IsTransaction(x), x.state = "Active", x.bytes = 0,
           NEW r, r = Inserted(s, t, x)
    PROVE  /\ Core(r) /\ SameHistory(s, r) /\ (Bounded(s) => Bounded(r))
           /\ r.next_transaction = t /\ r.transactions[t] = x
           /\ \A u \in Ids \ {t} : r.transactions[u] = s.transactions[u]
<1>1. IsStore(r) /\ SameHistory(s, r) /\ Inserts(s, t, x, r)
  BY InsertFields DEF Core
<1>2. /\ r.transactions = [u \in Ids |-> r.transactions[u]]
      /\ r.transactions[t] = x
      /\ \A u \in Ids \ {t} : r.transactions[u] = s.transactions[u]
  <2>1. Transactions(s)
    BY DEF Core
  <2>2. r.transactions = [s.transactions EXCEPT ![t] = x]
    BY <1>1 DEF Inserts
  <2> QED
    BY <2>1, <2>2 DEF Transactions
<1>3. s.transactions[t] = NoTransaction
  BY DEF UnusedFrom
<1>4. /\ ActiveOf(r) = ActiveOf(s) \cup {t} /\ t \notin ActiveOf(s)
      /\ EndedOf(r) = EndedOf(s) /\ t \notin EndedOf(s)
  <2>1. r.transactions[t].state = "Active" /\ s.transactions[t].state = "Unknown"
    BY <1>2, <1>3, NothingIs
  <2>2. t \notin ActiveOf(s) /\ t \notin EndedOf(s)
    BY <2>1 DEF ActiveOf, EndedOf
  <2>3. ActiveOf(r) = ActiveOf(s) \cup {t}
    <3>1. \A u \in Ids : u \in ActiveOf(r) <=> u \in ActiveOf(s) \/ u = t
      BY <1>2, <2>1 DEF ActiveOf
    <3> QED
      BY <3>1, ListsAre
  <2>4. EndedOf(r) = EndedOf(s)
    <3>1. \A u \in Ids : u \in EndedOf(r) <=> u \in EndedOf(s)
      BY <1>2, <2>1, <2>2 DEF EndedOf
    <3> QED
      BY <3>1, ListsAre
  <2> QED
    BY <2>2, <2>3, <2>4
<1>5. EvictableOf(r) = EvictableOf(s)
  BY <1>2, <1>4 DEF EvictableOf, EndedOf
<1>6. r.scope = s.scope
  BY <1>1 DEF SameHistory
<1>7. Transactions(r)
  <2>1. t \in Nat /\ \A u \in Ids : u > t => r.transactions[u] = NoTransaction
    BY <1>2 DEF UnusedFrom
  <2>2. \A u \in Ids : IsTransaction(r.transactions[u])
    BY <1>2 DEF Core, Transactions
  <2>3. r.next_transaction = t
    BY <1>1 DEF Inserts
  <2> QED
    BY <1>2, <2>1, <2>2, <2>3 DEF Transactions
<1>8. PICK A : A = ActiveOf(s)
  OBVIOUS
<1>9. \A u \in A : u \in Ids \ {t}
  BY <1>4, <1>8, ListsAre
<1>10. r.active_deadlines = Pairs(DeadlineOf(r), ActiveOf(r))
  <2>1. \A u \in A : DeadlineOf(r)[u] = DeadlineOf(s)[u]
    BY <1>2, <1>6, <1>9, DeadlineSame DEF DeadlineOf
  <2>2. Pairs(DeadlineOf(r), {t}) = {<<transaction_deadline(s, x), t>>}
    BY <1>2, <1>6, PairsOf, DeadlineSame DEF DeadlineOf
  <2>3. Pairs(DeadlineOf(r), A) = Pairs(DeadlineOf(s), A)
    BY <2>1, PairsSame
  <2>4. r.active_deadlines = Pairs(DeadlineOf(r), A) \cup Pairs(DeadlineOf(r), {t})
    BY <1>1, <1>8, <2>2, <2>3 DEF Inserts, Core, Book
  <2>5. ActiveOf(r) = A \cup {t}
    BY <1>4, <1>8
  <2>6. Pairs(DeadlineOf(r), A) \cup Pairs(DeadlineOf(r), {t}) = Pairs(DeadlineOf(r), A \cup {t})
    BY PairsMore
  <2> QED
    BY <2>4, <2>5, <2>6
<1>11. r.active_versions = Counts(r.transactions, ActiveOf(r))
  <2>1. Counts(s.transactions, A) = Counts(r.transactions, A)
    BY <1>2, <1>9, CountsSame
  <2>2. r.active_versions = increment_version_count(Counts(r.transactions, A), r.transactions[t].read_version)
    BY <1>1, <1>2, <1>8, <2>1 DEF Inserts, Core, Book
  <2> QED
    BY <1>4, <1>8, <2>2, CountsMore, ListsAre
<1>12. r.active_count = Cardinality(ActiveOf(r))
  <2>1. IsFiniteSet(A) /\ t \notin A
    BY <1>4, <1>8, ListsAre
  <2>2. Cardinality(A \cup {t}) = Cardinality(A) + 1
    BY <2>1, FS_AddElement
  <2>3. r.active_count = s.active_count + 1 /\ s.active_count = Cardinality(A)
    BY <1>1, <1>8 DEF Inserts, Core, Book
  <2> QED
    BY <1>4, <1>8, <2>2, <2>3
<1>13. r.active_read_write = {u \in ActiveOf(r) : ~r.transactions[u].read_only}
  BY <1>1, <1>2, <1>4, <1>8, <1>9 DEF Inserts, Core, Book
<1>14. r.ledger = BytesOf(r.transactions, ActiveOf(r))
  <2>1. PICK B : B = A \cup {t}
    OBVIOUS
  <2>2. IsFiniteSet(A) /\ IsFiniteSet(B)
    BY <1>4, <1>8, <2>1, ListsAre
  <2>3. \A u \in B : r.transactions[u].bytes \in Nat
    BY <1>7, <1>9, <2>1 DEF Transactions, IsTransaction
  <2>4. BytesOf(r.transactions, B) = r.transactions[t].bytes + BytesOf(r.transactions, B \ {t})
    BY <2>1, <2>2, <2>3, BytesTake
  <2>5. B \ {t} = A
    BY <1>4, <1>8, <2>1
  <2>6. BytesOf(r.transactions, A) = BytesOf(s.transactions, A)
    <3>1. \A u \in A : r.transactions[u].bytes = s.transactions[u].bytes
      BY <1>2, <1>9
    <3> QED
      BY <2>2, <3>1, BytesSame
  <2>7. BytesOf(r.transactions, A) \in Nat
    BY <2>1, <2>2, <2>3, BytesNatural
  <2>8. BytesOf(r.transactions, B) = BytesOf(r.transactions, A)
    <3>1. r.transactions[t].bytes = 0
      BY <1>2
    <3>2. PICK a, b : a = BytesOf(r.transactions, A) /\ b = BytesOf(r.transactions, B)
      OBVIOUS
    <3>3. a \in Nat /\ b = 0 + a
      BY <2>4, <2>5, <2>7, <3>1, <3>2
    <3>4. b = a
      BY <3>3
    <3> QED
      BY <3>2, <3>4
  <2> QED
    BY <1>1, <1>4, <1>8, <2>1, <2>6, <2>8 DEF Inserts, Core, Book
<1>15. r.finished_deadlines = Pairs(LapseOf(r), EndedOf(r))
  <2>1. \A u \in EndedOf(s) : LapseOf(r)[u] = LapseOf(s)[u]
    BY <1>2, <1>4, <1>6, LapseSame DEF LapseOf, EndedOf
  <2> QED
    BY <1>1, <1>4, <2>1, PairsSame DEF Inserts, Core, Book
<1>16. Book(r)
  BY <1>1, <1>4, <1>5, <1>6, <1>10, <1>11, <1>12, <1>13, <1>14, <1>15 DEF Inserts, Core, Book
<1>17. Bounded(s) => Bounded(r)
  BY <1>4, <1>5, <1>6 DEF Bounded
<1> QED
  BY <1>1, <1>2, <1>3, <1>6, <1>7, <1>16, <1>17 DEF Core, Inserts

LEMMA InsertIs ==
    ASSUME NEW s, Core(s), NEW t \in Ids, t = s.next_transaction + 1,
           NEW x, IsTransaction(x), x.state = "Active", x.bytes = 0,
           NEW r, r = Inserted(s, t, x)
    PROVE  /\ Core(r) /\ SameHistory(s, r) /\ (Bounded(s) => Bounded(r))
           /\ r.next_transaction = t /\ r.transactions[t] = x
           /\ \A u \in Ids \ {t} : r.transactions[u] = s.transactions[u]
           /\ s.transactions[t] = NoTransaction
<1>1. UnusedFrom(s, t)
  BY NextIsUnused
<1> QED
  BY <1>1, InsertAt DEF UnusedFrom

-----------------------------------------------------------------------------
(* One transaction changes where no index shows it.                         *)
WithOne(s, t, y) == WithTransactions(s, [s.transactions EXCEPT ![t] = y])

LEMMA UnindexedItself ==
    ASSUME NEW x, IsTransaction(x)
    PROVE  Unindexed(x, x)
BY DEF Unindexed

LEMMA UnindexedOne ==
    ASSUME NEW s, Core(s), NEW t \in Ids, NEW y, Unindexed(s.transactions[t], y),
           s.transactions[t] = NoTransaction => y = NoTransaction,
           NEW r, r = WithOne(s, t, y)
    PROVE  /\ Core(r) /\ SameHistory(s, r) /\ (Bounded(s) => Bounded(r))
           /\ ActiveOf(r) = ActiveOf(s) /\ r.next_transaction = s.next_transaction
           /\ r.transactions[t] = y
           /\ \A u \in Ids \ {t} : r.transactions[u] = s.transactions[u]
<1>1. PICK txs : txs = [s.transactions EXCEPT ![t] = y]
  OBVIOUS
<1>2. /\ txs = [u \in Ids |-> txs[u]] /\ txs[t] = y
      /\ \A u \in Ids \ {t} : txs[u] = s.transactions[u]
  BY <1>1 DEF Core, Transactions
<1>3. \A u \in Ids : Unindexed(s.transactions[u], txs[u])
  BY <1>2, UnindexedItself DEF Core, Transactions
<1>4. \A u \in Ids : u > s.next_transaction => txs[u] = NoTransaction
  BY <1>2 DEF Core, Transactions
<1>5. r = WithTransactions(s, txs)
  BY <1>1 DEF WithOne
<1>6. /\ Core(r) /\ SameHistory(s, r) /\ (Bounded(s) => Bounded(r))
      /\ ActiveOf(r) = ActiveOf(s) /\ r.transactions = txs
      /\ r.next_transaction = s.next_transaction
  BY <1>2, <1>3, <1>4, <1>5, UnindexedIs
<1> QED
  BY <1>2, <1>6

-----------------------------------------------------------------------------
(* The use of a transaction: its deadline and its snapshot move.            *)

Uses(s, t, x, y, r) ==
    /\ r.next_transaction = s.next_transaction
    /\ r.active_deadlines = (s.active_deadlines \ {<<transaction_deadline(s, x), t>>})
                            \cup {<<transaction_deadline(s, y), t>>}
    /\ r.active_versions =
          (IF y.read_version = x.read_version THEN s.active_versions
           ELSE increment_version_count(decrement_version_count(s.active_versions, s.transactions, {t}),
                                        y.read_version))
    /\ r.active_count = s.active_count /\ r.active_read_write = s.active_read_write
    /\ r.ledger = s.ledger /\ r.finished = s.finished /\ r.evictable = s.evictable
    /\ r.finished_deadlines = s.finished_deadlines
    /\ r.transactions = [s.transactions EXCEPT ![t] = y]

LEMMA UseFields ==
    ASSUME NEW s, IsStore(s), NEW t, NEW x, NEW y, NEW r, r = Use(s, t, x, y)
    PROVE  IsStore(r) /\ SameHistory(s, r) /\ Uses(s, t, x, y, r)
BY DEF Use, Uses, IsStore, StoreFields, SameHistory

LEMMA UseIs ==
    ASSUME NEW s, Core(s), NEW t \in ActiveOf(s), NEW y, IsTransaction(y), y.state = "Active",
           y.read_only = s.transactions[t].read_only, y.bytes = s.transactions[t].bytes,
           NEW r, r = Use(s, t, s.transactions[t], y)
    PROVE  /\ Core(r) /\ SameHistory(s, r) /\ (Bounded(s) => Bounded(r))
           /\ ActiveOf(r) = ActiveOf(s) /\ r.next_transaction = s.next_transaction
           /\ r.transactions[t] = y
           /\ \A u \in Ids \ {t} : r.transactions[u] = s.transactions[u]
<1>0. PICK x : x = s.transactions[t]
  OBVIOUS
<1>1. IsStore(r) /\ SameHistory(s, r) /\ Uses(s, t, x, y, r)
  BY <1>0, UseFields DEF Core
<1>2. t \in Ids /\ x.state = "Active" /\ IsTransaction(x)
  BY <1>0 DEF ActiveOf, Core, Transactions
<1>3. /\ r.transactions = [u \in Ids |-> r.transactions[u]]
      /\ r.transactions[t] = y
      /\ \A u \in Ids \ {t} : r.transactions[u] = s.transactions[u]
  BY <1>1, <1>2 DEF Uses, Core, Transactions
<1>4. \A u \in Ids : r.transactions[u].state = s.transactions[u].state
  BY <1>0, <1>2, <1>3
<1>5. ActiveOf(r) = ActiveOf(s) /\ EndedOf(r) = EndedOf(s)
  BY <1>4 DEF ActiveOf, EndedOf
<1>6. EvictableOf(r) = EvictableOf(s)
  BY <1>4, <1>5 DEF EvictableOf, EndedOf
<1>7. r.scope = s.scope
  BY <1>1 DEF SameHistory
<1>8. Transactions(r)
  <2>1. \A u \in Ids : u > r.next_transaction => r.transactions[u] = NoTransaction
    BY <1>0, <1>1, <1>2, <1>3, NothingIs DEF Core, Transactions, Uses
  <2> QED
    BY <1>1, <1>3, <2>1 DEF Core, Transactions, Uses
<1>9. PICK A : A = ActiveOf(s)
  OBVIOUS
<1>10. (A \ {t}) \cup {t} = A /\ IsFiniteSet(A) /\ IsFiniteSet(A \ {t}) /\ \A u \in A : u \in Ids
  BY <1>9, ListsAre, IdsFinite
<1>11. r.active_deadlines = Pairs(DeadlineOf(r), ActiveOf(r))
  <2>1. \A u \in A \ {t} : DeadlineOf(r)[u] = DeadlineOf(s)[u]
    BY <1>3, <1>7, <1>10, DeadlineSame DEF DeadlineOf
  <2>2. /\ Pairs(DeadlineOf(r), {t}) = {<<transaction_deadline(s, y), t>>}
        /\ Pairs(DeadlineOf(s), {t}) = {<<transaction_deadline(s, x), t>>}
    BY <1>0, <1>2, <1>3, <1>7, PairsOf, DeadlineSame DEF DeadlineOf
  <2>3. Pairs(DeadlineOf(r), A \ {t}) = Pairs(DeadlineOf(s), A \ {t})
    BY <2>1, PairsSame
  <2>4. Pairs(DeadlineOf(s), A) \ Pairs(DeadlineOf(s), {t}) = Pairs(DeadlineOf(s), A \ {t})
    <3>1. PICK T, D : T = {t} /\ D = DeadlineOf(s)
      OBVIOUS
    <3>2. Pairs(D, A) \ Pairs(D, T) = Pairs(D, A \ T)
      BY DEF Pairs
    <3> QED
      BY <3>1, <3>2
  <2>5. Pairs(DeadlineOf(r), A \ {t}) \cup Pairs(DeadlineOf(r), {t}) = Pairs(DeadlineOf(r), (A \ {t}) \cup {t})
    BY PairsMore
  <2>6. r.active_deadlines = (Pairs(DeadlineOf(s), A) \ Pairs(DeadlineOf(s), {t})) \cup Pairs(DeadlineOf(r), {t})
    BY <1>1, <1>9, <2>2 DEF Uses, Core, Book
  <2> QED
    BY <1>5, <1>9, <1>10, <2>3, <2>4, <2>5, <2>6
<1>12. r.active_versions = Counts(r.transactions, ActiveOf(r))
  <2>1. CASE y.read_version = x.read_version
    <3>1. \A u \in A : r.transactions[u].read_version = s.transactions[u].read_version
      BY <1>0, <1>3, <1>10, <2>1
    <3>2. Counts(r.transactions, A) = Counts(s.transactions, A)
      BY <3>1, CountsSame
    <3> QED
      BY <1>1, <1>5, <1>9, <2>1, <3>2 DEF Uses, Core, Book
  <2>2. CASE y.read_version # x.read_version
    <3>1. decrement_version_count(Counts(s.transactions, A), s.transactions, {t}) = Counts(s.transactions, A \ {t})
      BY <1>9, <1>10, CountsLess
    <3>2. Counts(s.transactions, A \ {t}) = Counts(r.transactions, A \ {t})
      BY <1>3, <1>10, CountsSame
    <3>3. increment_version_count(Counts(r.transactions, A \ {t}), r.transactions[t].read_version)
            = Counts(r.transactions, (A \ {t}) \cup {t})
      BY <1>10, CountsMore
    <3>4. r.active_versions
            = increment_version_count(decrement_version_count(s.active_versions, s.transactions, {t}),
                                      y.read_version)
      BY <1>1, <2>2 DEF Uses
    <3>5. s.active_versions = Counts(s.transactions, A)
      BY <1>9 DEF Core, Book
    <3>6. y.read_version = r.transactions[t].read_version
      BY <1>3
    <3> QED
      BY <1>5, <1>9, <1>10, <3>1, <3>2, <3>3, <3>4, <3>5, <3>6
  <2> QED
    BY <2>1, <2>2
<1>13. r.active_read_write = {u \in ActiveOf(r) : ~r.transactions[u].read_only}
  <2>1. \A u \in A : r.transactions[u].read_only = s.transactions[u].read_only
    BY <1>3, <1>10
  <2> QED
    BY <1>1, <1>5, <1>9, <2>1 DEF Uses, Core, Book
<1>14. r.ledger = BytesOf(r.transactions, ActiveOf(r))
  <2>1. \A u \in A : r.transactions[u].bytes = s.transactions[u].bytes
    BY <1>3, <1>10
  <2>2. BytesOf(r.transactions, A) = BytesOf(s.transactions, A)
    BY <1>10, <2>1, BytesSame
  <2> QED
    BY <1>1, <1>5, <1>9, <2>2 DEF Uses, Core, Book
<1>15. r.finished_deadlines = Pairs(LapseOf(r), EndedOf(r))
  <2>1. \A u \in EndedOf(s) : LapseOf(r)[u] = LapseOf(s)[u]
    BY <1>0, <1>2, <1>3, <1>7, LapseSame DEF LapseOf, EndedOf
  <2> QED
    BY <1>1, <1>5, <2>1, PairsSame DEF Uses, Core, Book
<1>16. Book(r)
  BY <1>1, <1>5, <1>6, <1>7, <1>11, <1>12, <1>13, <1>14, <1>15 DEF Uses, Core, Book
<1>17. Bounded(s) => Bounded(r)
  BY <1>5, <1>6, <1>7 DEF Bounded
<1> QED
  BY <1>1, <1>3, <1>5, <1>7, <1>8, <1>16, <1>17 DEF Core, Uses

-----------------------------------------------------------------------------
(* What a read charges to the ledger.                                       *)

RetainedAs(x, bytes, read_set, queries) ==
    [x EXCEPT !.bytes = @ + bytes, !.read_set = @ \cup read_set, !.queries = queries]

Charged(s, t, bytes, read_set, queries) ==
    [s EXCEPT !.ledger = @ + bytes,
              !.transactions[t].bytes = @ + bytes,
              !.transactions[t].read_set = @ \cup read_set,
              !.transactions[t].queries = queries]

LEMMA RetainedAsIs ==
    ASSUME NEW x, IsTransaction(x), x.state = "Active", NEW bytes \in Nat, NEW read_set, NEW queries,
           NEW y, y = RetainedAs(x, bytes, read_set, queries)
    PROVE  /\ IsTransaction(y) /\ y.state = "Active" /\ y.bytes = x.bytes + bytes
           /\ y.read_set = x.read_set \cup read_set /\ y.queries = queries
           /\ y.read_only = x.read_only /\ y.read_version = x.read_version
           /\ y.started_at = x.started_at /\ y.last_activity = x.last_activity
           /\ y.waits = x.waits /\ y.deadlock_victim = x.deadlock_victim
           /\ y.snapshot_pending = x.snapshot_pending
<1>1. /\ y = [f \in TransactionFields |-> y[f]]
      /\ y.state = "Active" /\ y.bytes = x.bytes + bytes
      /\ y.read_set = x.read_set \cup read_set /\ y.queries = queries
      /\ y.read_only = x.read_only /\ y.read_version = x.read_version
      /\ y.started_at = x.started_at /\ y.last_activity = x.last_activity
      /\ y.waits = x.waits /\ y.deadlock_victim = x.deadlock_victim
      /\ y.snapshot_pending = x.snapshot_pending
      /\ y.lifetime_expired = x.lifetime_expired /\ y.retried_while_live = x.retried_while_live
  BY DEF RetainedAs, IsTransaction, TransactionFields
<1>2. y.bytes \in Nat
  BY <1>1 DEF IsTransaction
<1> QED
  BY <1>1, <1>2 DEF IsTransaction

LEMMA ChargedFields ==
    ASSUME NEW s, IsStore(s), Transactions(s), NEW t \in Ids, NEW bytes, NEW read_set, NEW queries,
           NEW r, r = Charged(s, t, bytes, read_set, queries)
    PROVE  /\ IsStore(r) /\ SameHistory(s, r)
           /\ r.next_transaction = s.next_transaction
           /\ r.active_deadlines = s.active_deadlines /\ r.active_versions = s.active_versions
           /\ r.active_count = s.active_count /\ r.active_read_write = s.active_read_write
           /\ r.finished = s.finished /\ r.evictable = s.evictable
           /\ r.finished_deadlines = s.finished_deadlines
           /\ r.ledger = s.ledger + bytes
           /\ r.transactions = [s.transactions EXCEPT ![t] =
                                  RetainedAs(s.transactions[t], bytes, read_set, queries)]
<1>1. /\ IsStore(r) /\ SameHistory(s, r)
      /\ r.next_transaction = s.next_transaction
      /\ r.active_deadlines = s.active_deadlines /\ r.active_versions = s.active_versions
      /\ r.active_count = s.active_count /\ r.active_read_write = s.active_read_write
      /\ r.finished = s.finished /\ r.evictable = s.evictable
      /\ r.finished_deadlines = s.finished_deadlines
      /\ r.ledger = s.ledger + bytes
  <2>1. PICK u : u = [s EXCEPT !.ledger = @ + bytes]
    OBVIOUS
  <2>2. \E f : r = [u EXCEPT !.transactions = f]
    <3>1. \E f, g, h : r = [[[u EXCEPT !.transactions = f] EXCEPT !.transactions = g] EXCEPT !.transactions = h]
      BY <2>1 DEF Charged
    <3>2. PICK f, g, h : r = [[[u EXCEPT !.transactions = f] EXCEPT !.transactions = g] EXCEPT !.transactions = h]
      BY <3>1
    <3>3. IsStore(u)
      BY <2>1 DEF IsStore, StoreFields
    <3>4. r = [u EXCEPT !.transactions = h]
      BY <3>2, <3>3 DEF IsStore, StoreFields
    <3> QED
      BY <3>4
  <2>3. PICK f : r = [u EXCEPT !.transactions = f]
    BY <2>2
  <2> QED
    BY <2>1, <2>3 DEF IsStore, StoreFields, SameHistory
<1>2. r.transactions = [s.transactions EXCEPT ![t] =
                           RetainedAs(s.transactions[t], bytes, read_set, queries)]
  BY DEF Charged, IsStore, StoreFields, RetainedAs, Transactions, IsTransaction, TransactionFields
<1> QED
  BY <1>1, <1>2

LEMMA ChargedIs ==
    ASSUME NEW s, Core(s), NEW t \in ActiveOf(s), NEW bytes \in Nat, NEW read_set, NEW queries,
           NEW y, y = RetainedAs(s.transactions[t], bytes, read_set, queries),
           NEW r, r = Charged(s, t, bytes, read_set, queries)
    PROVE  /\ Core(r) /\ SameHistory(s, r) /\ (Bounded(s) => Bounded(r))
           /\ ActiveOf(r) = ActiveOf(s) /\ r.next_transaction = s.next_transaction
           /\ r.transactions[t] = y
           /\ \A u \in Ids \ {t} : r.transactions[u] = s.transactions[u]
<1>0. PICK x : x = s.transactions[t]
  OBVIOUS
<1>1. t \in Ids /\ x.state = "Active" /\ IsTransaction(x) /\ x.bytes \in Nat
  BY <1>0 DEF ActiveOf, Core, Transactions, IsTransaction
<1>2. /\ IsStore(r) /\ SameHistory(s, r)
      /\ r.next_transaction = s.next_transaction
      /\ r.active_deadlines = s.active_deadlines /\ r.active_versions = s.active_versions
      /\ r.active_count = s.active_count /\ r.active_read_write = s.active_read_write
      /\ r.finished = s.finished /\ r.evictable = s.evictable
      /\ r.finished_deadlines = s.finished_deadlines
      /\ r.ledger = s.ledger + bytes
      /\ r.transactions = [s.transactions EXCEPT ![t] = y]
  BY <1>1, ChargedFields DEF Core
<1>3. /\ r.transactions = [u \in Ids |-> r.transactions[u]]
      /\ r.transactions[t] = y
      /\ \A u \in Ids \ {t} : r.transactions[u] = s.transactions[u]
  BY <1>1, <1>2 DEF Core, Transactions
<1>4. /\ IsTransaction(y) /\ y.state = "Active" /\ y.bytes = x.bytes + bytes
      /\ y.read_only = x.read_only /\ y.read_version = x.read_version
      /\ y.started_at = x.started_at /\ y.last_activity = x.last_activity
  BY <1>0, <1>1, RetainedAsIs
<1>5. \A u \in Ids : r.transactions[u].state = s.transactions[u].state
  BY <1>0, <1>1, <1>3, <1>4
<1>6. ActiveOf(r) = ActiveOf(s) /\ EndedOf(r) = EndedOf(s)
  BY <1>5 DEF ActiveOf, EndedOf
<1>7. EvictableOf(r) = EvictableOf(s)
  BY <1>5, <1>6 DEF EvictableOf, EndedOf
<1>8. r.scope = s.scope
  BY <1>2 DEF SameHistory
<1>9. Transactions(r)
  <2>1. \A u \in Ids : u > r.next_transaction => r.transactions[u] = NoTransaction
    BY <1>0, <1>1, <1>2, <1>3, NothingIs DEF Core, Transactions
  <2> QED
    BY <1>2, <1>3, <1>4, <2>1 DEF Core, Transactions
<1>10. PICK A : A = ActiveOf(s)
  OBVIOUS
<1>11. t \in A /\ IsFiniteSet(A) /\ IsFiniteSet(A \ {t}) /\ \A u \in A : u \in Ids
  BY <1>10, ListsAre, IdsFinite
<1>12. \A u \in A : /\ r.transactions[u].read_only = s.transactions[u].read_only
                    /\ r.transactions[u].read_version = s.transactions[u].read_version
                    /\ r.transactions[u].started_at = s.transactions[u].started_at
                    /\ r.transactions[u].last_activity = s.transactions[u].last_activity
  BY <1>0, <1>3, <1>4, <1>11
<1>13. Pairs(DeadlineOf(r), A) = Pairs(DeadlineOf(s), A)
  <2>1. \A u \in A : DeadlineOf(r)[u] = DeadlineOf(s)[u]
    BY <1>8, <1>11, <1>12, DeadlineSame DEF DeadlineOf
  <2> QED
    BY <2>1, PairsSame
<1>14. Counts(r.transactions, A) = Counts(s.transactions, A)
  BY <1>12, CountsSame
<1>15. {u \in A : ~r.transactions[u].read_only} = {u \in A : ~s.transactions[u].read_only}
  BY <1>12
<1>16. r.ledger = BytesOf(r.transactions, A)
  <2>1. /\ \A u \in A : s.transactions[u].bytes \in Nat
        /\ \A u \in A : r.transactions[u].bytes \in Nat
    BY <1>9, <1>11 DEF Core, Transactions, IsTransaction
  <2>2. BytesOf(s.transactions, A) = x.bytes + BytesOf(s.transactions, A \ {t})
    BY <1>0, <1>11, <2>1, BytesTake
  <2>3. BytesOf(r.transactions, A) = y.bytes + BytesOf(r.transactions, A \ {t})
    BY <1>3, <1>11, <2>1, BytesTake
  <2>4. \A u \in A \ {t} : s.transactions[u].bytes = r.transactions[u].bytes
    BY <1>3, <1>11
  <2>5. BytesOf(s.transactions, A \ {t}) = BytesOf(r.transactions, A \ {t})
    BY <1>11, <2>4, BytesSame
  <2>6. BytesOf(s.transactions, A \ {t}) \in Nat
    BY <1>11, <2>1, BytesNatural
  <2>7. s.ledger = BytesOf(s.transactions, A)
    BY <1>10 DEF Core, Book
  <2>8. PICK i \in Nat, j \in Nat : i = x.bytes /\ j = BytesOf(s.transactions, A \ {t})
    BY <1>1, <2>6
  <2>9. r.ledger = (i + j) + bytes /\ BytesOf(r.transactions, A) = (i + bytes) + j
    BY <1>2, <1>4, <2>2, <2>3, <2>5, <2>7, <2>8
  <2> QED
    BY <2>8, <2>9
<1>17. r.finished_deadlines = Pairs(LapseOf(r), EndedOf(r))
  <2>1. \A u \in EndedOf(s) : LapseOf(r)[u] = LapseOf(s)[u]
    BY <1>0, <1>1, <1>3, <1>8, LapseSame DEF LapseOf, EndedOf
  <2> QED
    BY <1>2, <1>6, <2>1, PairsSame DEF Core, Book
<1>18. Book(r)
  BY <1>2, <1>6, <1>7, <1>8, <1>10, <1>13, <1>14, <1>15, <1>16, <1>17 DEF Core, Book
<1>19. Bounded(s) => Bounded(r)
  BY <1>6, <1>7, <1>8 DEF Bounded
<1> QED
  BY <1>2, <1>3, <1>6, <1>8, <1>9, <1>18, <1>19 DEF Core

-----------------------------------------------------------------------------
(* The document history.                                                    *)

\* Entries of document d up to version n, with the values p gives them.
Entries(E, p, d, n) ==
    \A e \in E : /\ e = [version |-> e.version, value |-> e.value]
                 /\ e.version \in 1 .. n /\ e.value = p[e.version + 1][d]

LEMMA NewestIs ==
    ASSUME NEW E, NEW p, NEW d, NEW n \in Nat, Entries(E, p, d, n), E # {}
    PROVE  Newest(E) \in E /\ \A f \in E : f.version <= Newest(E).version
<1>1. PICK V : V = {e.version : e \in E}
  OBVIOUS
<1>2. V \in SUBSET Nat /\ V # {} /\ \A k \in V : k <= n
  BY <1>1 DEF Entries
<1>3. PICK m \in V : \A k \in V : k <= m
  BY <1>2, GreatestNatural
<1>4. \E e \in E : \A f \in E : f.version <= e.version
  BY <1>1, <1>3
<1> QED
  BY <1>4 DEF Newest

(* The newest entry is the one with the greatest version.                   *)
LEMMA NewestUnique ==
    ASSUME NEW E, NEW p, NEW d, NEW n \in Nat, Entries(E, p, d, n), NEW e \in E,
           \A f \in E : f.version <= e.version
    PROVE  Newest(E) = e
<1>1. Newest(E) \in E /\ \A f \in E : f.version <= Newest(E).version
  BY NewestIs
<1>2. PICK m \in E : m = Newest(E)
  BY <1>1
<1>3. m.version = e.version
  BY <1>1, <1>2 DEF Entries
<1>4. /\ m = [version |-> m.version, value |-> m.value] /\ m.value = p[m.version + 1][d]
      /\ e = [version |-> e.version, value |-> e.value] /\ e.value = p[e.version + 1][d]
  BY DEF Entries
<1>5. m = e
  BY <1>3, <1>4
<1> QED
  BY <1>2, <1>5

LEMMA FewerEntries ==
    ASSUME NEW E, NEW p, NEW d, NEW n, Entries(E, p, d, n), NEW F, F \subseteq E
    PROVE  Entries(F, p, d, n)
BY DEF Entries

(* Cutting at a floor keeps what every version from the floor on shows.     *)
LEMMA CutKeeps ==
    ASSUME NEW E, NEW p, NEW d, NEW n \in Nat, Entries(E, p, d, n),
           NEW floor \in Nat, NEW v \in Nat, floor <= v
    PROVE  Newest({e \in Cut(E, floor) : e.version <= v}).value = Newest({e \in E : e.version <= v}).value
<1>1. PICK Nf : Nf = {e \in E : e.version <= floor}
  OBVIOUS
<1>2. PICK Nv : Nv = {e \in E : e.version <= v}
  OBVIOUS
<1>3. PICK K : K = {e \in E : e.version > floor \/ e = Newest(Nf)}
  OBVIOUS
<1>4. Cut(E, floor) = IF \A e \in K : e.value = Absent /\ e.version <= floor THEN {} ELSE K
  BY <1>1, <1>3 DEF Cut
<1>5. \A e \in E : e.version \in Nat
  BY DEF Entries
<1>6. Nf \subseteq Nv /\ Nv \subseteq E /\ Entries(Nv, p, d, n) /\ Entries(Nf, p, d, n)
  BY <1>1, <1>2, <1>5, FewerEntries
<1>7. CASE Nv = {}
  <2>1. {e \in Cut(E, floor) : e.version <= v} = {}
    BY <1>2, <1>3, <1>4, <1>7
  <2> QED
    BY <1>2, <1>7, <2>1
<1>8. CASE Nv # {} /\ Newest(Nv).version > floor
  <2>1. PICK m \in Nv : m = Newest(Nv) /\ \A f \in Nv : f.version <= m.version
    BY <1>6, <1>8, NewestIs
  <2>2. m \in K /\ ~ (m.version <= floor)
    BY <1>2, <1>3, <1>5, <1>8, <2>1
  <2>3. Cut(E, floor) = K
    BY <1>4, <2>2
  <2>4. PICK L : L = {e \in K : e.version <= v}
    OBVIOUS
  <2>5. m \in L /\ L \subseteq Nv
    BY <1>2, <1>3, <2>1, <2>2, <2>4
  <2>6. Entries(L, p, d, n)
    BY <1>6, <2>5, FewerEntries
  <2>7. Newest(L) = m
    BY <2>1, <2>5, <2>6, NewestUnique
  <2> QED
    BY <1>2, <2>1, <2>3, <2>4, <2>7
<1>9. CASE Nv # {} /\ ~ (Newest(Nv).version > floor)
  <2>1. PICK m \in Nv : m = Newest(Nv) /\ \A f \in Nv : f.version <= m.version
    BY <1>6, <1>9, NewestIs
  <2>2. m.version <= floor
    BY <1>5, <1>6, <1>9, <2>1
  <2>3. \A f \in Nv : f.version <= floor
    BY <1>5, <1>6, <2>1, <2>2
  <2>4. Nf = Nv
    BY <1>1, <1>2, <1>6, <2>3
  <2>5. {e \in K : e.version <= v} = {m}
    <3>1. \A e \in K : e.version <= v => e = m
      BY <1>2, <1>3, <1>5, <2>1, <2>3, <2>4
    <3>2. m \in K /\ m.version <= v
      BY <1>2, <1>3, <2>1, <2>4
    <3> QED
      BY <3>1, <3>2
  <2>6. CASE Cut(E, floor) = K
    <3>1. Entries({m}, p, d, n)
      BY <1>6, <2>1, FewerEntries
    <3>2. Newest({m}) = m
      <4>1. \A f \in {m} : f.version <= m.version
        BY <2>1
      <4> QED
        BY <3>1, <4>1, NewestUnique
    <3> QED
      BY <1>2, <2>1, <2>5, <2>6, <3>2
  <2>7. CASE Cut(E, floor) = {} /\ \A e \in K : e.value = Absent /\ e.version <= floor
    <3>1. m.value = Absent
      BY <2>5, <2>7
    <3>2. {e \in Cut(E, floor) : e.version <= v} = {}
      BY <2>7
    <3>3. Newest({e \in Cut(E, floor) : e.version <= v}).value = Absent
      BY <3>2 DEF Newest, NoDocument
    <3> QED
      BY <1>2, <2>1, <3>1, <3>3
  <2> QED
    BY <1>4, <2>6, <2>7
<1> QED
  BY <1>7, <1>8, <1>9

LEMMA CutEntries ==
    ASSUME NEW E, NEW p, NEW d, NEW n, Entries(E, p, d, n), NEW floor
    PROVE  Entries(Cut(E, floor), p, d, n)
<1>1. Cut(E, floor) \subseteq E
  BY DEF Cut
<1> QED
  BY <1>1, FewerEntries

LEMMA HistorySame ==
    ASSUME NEW s, NEW r, SameHistory(s, r), NEW p, History(s, p)
    PROVE  History(r, p)
BY DEF SameHistory, History, IsEntry, Answers, get_at

LEMMA HistoryEntries ==
    ASSUME NEW s, NEW p, History(s, p), NEW d \in Docs
    PROVE  Entries(s.history[d], p, d, s.version)
BY DEF History, IsEntry, Entries

(* The newest entries are the documents of the last version.                *)
LEMMA GetIs ==
    ASSUME NEW s, NEW p, History(s, p), NEW d \in Docs
    PROVE  /\ get(s, d) = get_at(s, d, s.version)
           /\ get(s, d).value = p[s.version + 1][d]
<1>1. \A e \in s.history[d] : e.version <= s.version
  BY DEF History, IsEntry
<1>2. {e \in s.history[d] : e.version <= s.version} = s.history[d]
  BY <1>1
<1>3. get(s, d) = get_at(s, d, s.version)
  BY <1>2 DEF get, get_at
<1>4. s.version \in s.compaction_floor .. s.version
  BY DEF History
<1>5. get_at(s, d, s.version).value = p[s.version + 1][d]
  BY <1>4 DEF History, Answers
<1> QED
  BY <1>3, <1>5

LEMMA DocumentsAre ==
    ASSUME NEW s, NEW p, History(s, p)
    PROVE  Documents(s) = p[s.version + 1] /\ p[s.version + 1] \in [Docs -> AnyValue]
<1>1. p[s.version + 1] \in [Docs -> AnyValue]
  BY DEF History
<1>2. \A d \in Docs : get(s, d).value = p[s.version + 1][d]
  BY GetIs
<1> QED
  BY <1>1, <1>2 DEF Documents

-----------------------------------------------------------------------------
(* Compaction.                                                              *)

LEMMA CutOffFields ==
    ASSUME NEW s, IsStore(s), NEW floor, ~ (floor <= s.compaction_floor), NEW r, r = CutOff(s, floor)
    PROVE  /\ IsStore(r)
           /\ r.scope = s.scope /\ r.max_versions_per_path = s.max_versions_per_path
           /\ r.version = s.version /\ r.next_transaction = s.next_transaction
           /\ r.transactions = s.transactions /\ r.active_count = s.active_count
           /\ r.releases = s.releases
           /\ r.active_deadlines = s.active_deadlines /\ r.active_versions = s.active_versions
           /\ r.active_read_write = s.active_read_write /\ r.ledger = s.ledger
           /\ r.finished = s.finished /\ r.evictable = s.evictable
           /\ r.finished_deadlines = s.finished_deadlines
           /\ r.last_commit_time = s.last_commit_time /\ r.capacity_floor = s.capacity_floor
           /\ r.compaction_floor = floor
           /\ r.commit_times = {c \in s.commit_times : c[1] >= floor}
           /\ r.history = [d \in Docs |-> Cut(s.history[d], floor)]
BY DEF CutOff, IsStore, StoreFields

(* The indexes do not depend on the history.                                *)
LEMMA CoreSame ==
    ASSUME NEW s, Core(s), NEW r, IsStore(r), r.scope = s.scope,
           r.next_transaction = s.next_transaction,
           r.transactions = s.transactions, r.active_count = s.active_count,
           r.active_deadlines = s.active_deadlines, r.active_versions = s.active_versions,
           r.active_read_write = s.active_read_write, r.ledger = s.ledger,
           r.finished = s.finished, r.evictable = s.evictable,
           r.finished_deadlines = s.finished_deadlines
    PROVE  /\ Core(r) /\ (Bounded(s) => Bounded(r)) /\ ActiveOf(r) = ActiveOf(s)
           /\ \A at : Fresh(s, at) => Fresh(r, at)
<1>1. ActiveOf(r) = ActiveOf(s) /\ EndedOf(r) = EndedOf(s)
  BY DEF ActiveOf, EndedOf
<1>2. EvictableOf(r) = EvictableOf(s)
  BY <1>1 DEF EvictableOf
<1>3. \A x : /\ transaction_deadline(r, x) = transaction_deadline(s, x)
             /\ finished_lineage_deadline(r, x) = finished_lineage_deadline(s, x)
  BY DeadlineSame, LapseSame
<1>4. DeadlineOf(r) = DeadlineOf(s) /\ LapseOf(r) = LapseOf(s)
  BY <1>3 DEF DeadlineOf, LapseOf
<1>5. Book(r) /\ Transactions(r)
  BY <1>1, <1>2, <1>4 DEF Core, Book, Transactions
<1>6. \A at : Fresh(s, at) => Fresh(r, at)
  BY <1>1, <1>3 DEF Fresh
<1> QED
  BY <1>1, <1>2, <1>5, <1>6 DEF Core, Bounded

LEMMA CutOffHistory ==
    ASSUME NEW s, NEW p, History(s, p), NEW floor \in 0 .. s.version, floor > s.compaction_floor,
           NEW r, r.version = s.version, r.compaction_floor = floor,
           r.max_versions_per_path = s.max_versions_per_path, r.capacity_floor = s.capacity_floor,
           r.commit_times = {c \in s.commit_times : c[1] >= floor},
           r.history = [d \in Docs |-> Cut(s.history[d], floor)]
    PROVE  History(r, p)
<1>1. \A d \in Docs : \A e \in r.history[d] : IsEntry(r, p, d, e)
  <2> TAKE d \in Docs
  <2>1. Entries(Cut(s.history[d], floor), p, d, s.version)
    BY HistoryEntries, CutEntries
  <2>2. r.history[d] = Cut(s.history[d], floor)
    OBVIOUS
  <2> QED
    BY <2>1, <2>2 DEF IsEntry, Entries
<1>2. \A v \in r.compaction_floor .. r.version : Answers(r, p, v)
  <2> SUFFICES ASSUME NEW v \in floor .. s.version, NEW d \in Docs
               PROVE  get_at(r, d, v).value = p[v + 1][d]
    BY DEF Answers
  <2>1. v \in s.compaction_floor .. s.version /\ v \in Nat /\ floor \in Nat /\ s.version \in Nat
    BY DEF History
  <2>2. get_at(s, d, v).value = p[v + 1][d]
    BY <2>1 DEF History, Answers
  <2>3. PICK E : E = s.history[d] /\ Entries(E, p, d, s.version)
    BY HistoryEntries
  <2>4. Newest({e \in Cut(E, floor) : e.version <= v}).value = Newest({e \in E : e.version <= v}).value
    BY <2>1, <2>3, CutKeeps
  <2> QED
    BY <2>2, <2>3, <2>4 DEF get_at
<1>3. \A c \in r.commit_times : c[1] \in r.compaction_floor .. r.version
  BY DEF History
<1> QED
  BY <1>1, <1>2, <1>3 DEF History

(* The floor stays below the last version and spares the snapshots that the *)
(* per-path capacity has not given up.                                      *)
LEMMA FloorIs ==
    ASSUME NEW s, Core(s), NEW p, History(s, p), NEW at, NEW floor, floor = retention_floor(s, at)
    PROVE  /\ floor \in 0 .. s.version
           /\ \A t \in ActiveOf(s) : \/ s.transactions[t].read_version >= floor
                                     \/ s.transactions[t].read_version < s.capacity_floor
<1>1. /\ s.version \in Nat /\ s.capacity_floor \in Nat /\ s.capacity_floor <= s.version
      /\ s.compaction_floor \in Nat /\ s.compaction_floor <= s.version
  BY DEF History
<1>2. PICK va : va = version_at(s, at - ReadWindow)
  OBVIOUS
<1>3. va \in Nat /\ va <= s.version
  <2>1. PICK V : V = {c[1] : c \in {c \in s.commit_times : c[2] <= at - ReadWindow}}
    OBVIOUS
  <2>2. V \in SUBSET Nat /\ \A k \in V : k <= s.version
    BY <1>1, <2>1 DEF History
  <2>3. va = IF V = {} THEN s.compaction_floor ELSE Max(V)
    BY <1>2, <2>1 DEF version_at
  <2>4. V # {} => Max(V) \in Nat /\ Max(V) <= s.version
    BY <1>1, <2>2, MaxBounded
  <2> QED
    BY <1>1, <2>3, <2>4
<1>4. PICK wanted : wanted = Max({va, s.capacity_floor})
  OBVIOUS
<1>5. wanted \in Nat /\ wanted <= s.version
  BY <1>1, <1>3, <1>4, MinMaxPair
<1>6. PICK D : D = DOMAIN s.active_versions
  OBVIOUS
<1>7. D = {s.transactions[t].read_version : t \in ActiveOf(s)}
  BY <1>6 DEF Core, Book, Counts
<1>8. D \in SUBSET Nat
  BY <1>7, ListsAre DEF Core, Transactions, IsTransaction
<1>9. PICK pinned : pinned = IF D = {} THEN wanted ELSE Min({wanted} \cup D)
  OBVIOUS
<1>10. pinned \in Nat /\ \A k \in D : pinned <= k
  <2>1. Min({wanted} \cup D) \in Nat /\ \A k \in {wanted} \cup D : Min({wanted} \cup D) <= k
    BY <1>5, <1>8, MinNatural
  <2> QED
    BY <1>5, <1>9, <2>1
<1>11. floor = Min({Max({pinned, s.capacity_floor}), s.version})
  BY <1>2, <1>4, <1>6, <1>9 DEF retention_floor
<1>12. PICK top : top = Max({pinned, s.capacity_floor})
  OBVIOUS
<1>13. top \in Nat /\ (top = pinned \/ top = s.capacity_floor)
  BY <1>1, <1>10, <1>12, MinMaxPair
<1>14. floor \in Nat /\ floor <= top /\ floor <= s.version
  BY <1>1, <1>11, <1>12, <1>13, MinMaxPair
<1>15. \A t \in ActiveOf(s) : \/ s.transactions[t].read_version >= floor
                               \/ s.transactions[t].read_version < s.capacity_floor
  <2> TAKE t \in ActiveOf(s)
  <2>1. PICK v \in D : v = s.transactions[t].read_version
    BY <1>7
  <2>2. v \in Nat /\ pinned <= v
    BY <1>8, <1>10
  <2>3. v >= floor \/ v < s.capacity_floor
    BY <1>1, <1>10, <1>13, <1>14, <2>2
  <2> QED
    BY <2>1, <2>3
<1> QED
  BY <1>1, <1>14, <1>15

\* The store changes in its history and keeps every transaction.
LEMMA FollowsSame ==
    ASSUME NEW s, NEW r, r.scope = s.scope, r.version = s.version,
           r.next_transaction = s.next_transaction, r.transactions = s.transactions
    PROVE  Follows(s, r)
BY AgesItself DEF Follows

LEMMA CompactPrunedIs ==
    ASSUME NEW s, NEW p, StoreInv(s, p), NEW at, NEW r, r = CompactPruned(s, at)
    PROVE  /\ StoreInv(r, p) /\ Follows(s, r)
           /\ ActiveOf(r) = ActiveOf(s) /\ r.transactions = s.transactions
           /\ \A m : Fresh(s, m) => Fresh(r, m)
<1>1. PICK floor : floor = retention_floor(s, at)
  OBVIOUS
<1>2. /\ floor \in 0 .. s.version
      /\ \A t \in ActiveOf(s) : \/ s.transactions[t].read_version >= floor
                                \/ s.transactions[t].read_version < s.capacity_floor
  BY <1>1, FloorIs DEF StoreInv
<1>3. r = CutOff(s, floor)
  BY <1>1 DEF CompactPruned
<1>4. CASE floor <= s.compaction_floor
  <2>1. r = s
    BY <1>3, <1>4 DEF CutOff
  <2> QED
    BY <2>1, FollowsItself
<1>5. CASE ~ (floor <= s.compaction_floor)
  <2>1. /\ IsStore(r)
        /\ r.scope = s.scope /\ r.max_versions_per_path = s.max_versions_per_path
        /\ r.version = s.version /\ r.next_transaction = s.next_transaction
        /\ r.transactions = s.transactions /\ r.active_count = s.active_count
        /\ r.active_deadlines = s.active_deadlines /\ r.active_versions = s.active_versions
        /\ r.active_read_write = s.active_read_write /\ r.ledger = s.ledger
        /\ r.finished = s.finished /\ r.evictable = s.evictable
        /\ r.finished_deadlines = s.finished_deadlines
        /\ r.last_commit_time = s.last_commit_time /\ r.capacity_floor = s.capacity_floor
        /\ r.compaction_floor = floor
        /\ r.commit_times = {c \in s.commit_times : c[1] >= floor}
        /\ r.history = [d \in Docs |-> Cut(s.history[d], floor)]
    BY <1>3, <1>5, CutOffFields DEF StoreInv, Core
  <2>2. /\ Core(r) /\ Bounded(r) /\ ActiveOf(r) = ActiveOf(s)
        /\ \A m : Fresh(s, m) => Fresh(r, m)
    BY <2>1, CoreSame DEF StoreInv
  <2>3. History(r, p)
    <3>1. s.compaction_floor \in Nat /\ History(s, p)
      BY DEF StoreInv, History
    <3>2. floor > s.compaction_floor
      BY <1>2, <1>5, <3>1
    <3> QED
      BY <1>2, <2>1, <3>1, <3>2, CutOffHistory
  <2>4. SnapshotsKept(r)
    BY <1>2, <2>1, <2>2 DEF StoreInv, SnapshotsKept
  <2>5. Follows(s, r)
    BY <2>1, FollowsSame
  <2> QED
    BY <2>1, <2>2, <2>3, <2>4, <2>5 DEF StoreInv
<1> QED
  BY <1>4, <1>5

(* What only ends transactions keeps the store's invariant.                 *)
LEMMA Carried ==
    ASSUME NEW s, NEW p, StoreInv(s, p), NEW r, Core(r), Bounded(r), Follows(s, r), SameHistory(s, r)
    PROVE  StoreInv(r, p)
<1>1. History(r, p)
  BY HistorySame DEF StoreInv
<1>2. SnapshotsKept(r)
  <2>1. \A t \in Ids : Ages(s.transactions[t], r.transactions[t])
    BY DEF Follows
  <2>3. r.version = s.version /\ r.compaction_floor = s.compaction_floor /\ r.capacity_floor = s.capacity_floor
    BY DEF SameHistory
  <2> QED
    BY <2>1, <2>3 DEF StoreInv, SnapshotsKept, ActiveOf, Ages
<1> QED
  BY <1>1, <1>2 DEF StoreInv

LEMMA PruneStore ==
    ASSUME NEW s, NEW p, StoreInv(s, p), NEW at \in Nat, NEW r, r = prune_transactions(s, at)
    PROVE  /\ StoreInv(r, p) /\ Follows(s, r) /\ SameHistory(s, r) /\ Fresh(r, at)
           /\ ActiveOf(r) = {t \in ActiveOf(s) : transaction_deadline(s, s.transactions[t]) > at}
           /\ \A t \in ActiveOf(r) : r.transactions[t] = s.transactions[t]
<1>1. /\ Core(r) /\ Bounded(r) /\ Follows(s, r) /\ SameHistory(s, r) /\ Fresh(r, at)
      /\ ActiveOf(r) = {t \in ActiveOf(s) : transaction_deadline(s, s.transactions[t]) > at}
      /\ \A t \in ActiveOf(r) : r.transactions[t] = s.transactions[t]
  BY PruneIs DEF StoreInv
<1> QED
  BY <1>1, Carried

LEMMA EndActiveStore ==
    ASSUME NEW s, NEW p, StoreInv(s, p), NEW ending, ending \subseteq ActiveOf(s),
           NEW state, EndState(s, state), NEW r, r = EndActive(s, ending, state)
    PROVE  /\ StoreInv(r, p) /\ Follows(s, r) /\ SameHistory(s, r)
           /\ ActiveOf(r) = ActiveOf(s) \ ending
           /\ \A t \in ActiveOf(s) \ ending : r.transactions[t] = s.transactions[t]
           /\ \A t \in ending : Ages(EndedAs(s, t, state), r.transactions[t])
<1>1. /\ Core(r) /\ Bounded(r) /\ Follows(s, r) /\ SameHistory(s, r)
      /\ ActiveOf(r) = ActiveOf(s) \ ending
      /\ \A t \in ActiveOf(s) \ ending : r.transactions[t] = s.transactions[t]
      /\ \A t \in ending : Ages(EndedAs(s, t, state), r.transactions[t])
  BY EndActiveIs DEF StoreInv
<1> QED
  BY <1>1, Carried

LEMMA CompactStore ==
    ASSUME NEW s, NEW p, StoreInv(s, p), NEW at \in Nat, NEW r, r = compact(s, at)
    PROVE  StoreInv(r, p) /\ Follows(s, r)
<1>1. PICK u : u = prune_transactions(s, at)
  OBVIOUS
<1>2. StoreInv(u, p) /\ Follows(s, u)
  BY <1>1, PruneStore
<1>3. r = CompactPruned(u, at)
  BY <1>1 DEF compact
<1>4. StoreInv(r, p) /\ Follows(u, r)
  BY <1>2, <1>3, CompactPrunedIs
<1> QED
  BY <1>2, <1>4, FollowsFurther

(* A request finds the transaction past its deadline.                       *)
LEMMA EndExpiredStore ==
    ASSUME NEW s, NEW p, StoreInv(s, p), NEW t \in ActiveOf(s), s.scope = "OfficialEmulator",
           NEW deadline, NEW at \in Nat, NEW r, r = EndExpired(s, t, deadline, at)
    PROVE  StoreInv(r, p) /\ Follows(s, r)
<1>1. PICK u : u = EndActive(s, {t}, "Finished")
  OBVIOUS
<1>2. PICK v : v = keep_lifetime_expired_transaction(u, t, deadline)
  OBVIOUS
<1>3. r = compact(v, at)
  BY <1>1, <1>2 DEF EndExpired
<1>4. EndState(s, "Finished") /\ {t} \subseteq ActiveOf(s) /\ t \in Ids
  BY ListsAre DEF EndState
<1>5. StoreInv(u, p) /\ Follows(s, u) /\ t \notin ActiveOf(u)
  BY <1>1, <1>4, EndActiveStore
<1>6. Core(v) /\ Bounded(v) /\ Follows(u, v) /\ SameHistory(u, v)
  BY <1>2, <1>4, <1>5, KeepIs DEF StoreInv
<1>7. StoreInv(v, p)
  BY <1>5, <1>6, Carried
<1>8. StoreInv(r, p) /\ Follows(v, r)
  BY <1>3, <1>7, CompactStore
<1> QED
  BY <1>5, <1>6, <1>8, FollowsFurther

-----------------------------------------------------------------------------
(* What the clients were shown, and who waits.                              *)

\* Nobody starts to wait and nobody is sacrificed.
Calm(s, r) ==
    \A t \in Ids : /\ r.transactions[t].waits \subseteq s.transactions[t].waits
                   /\ r.transactions[t].deadlock_victim => s.transactions[t].deadlock_victim

FollowsBut(s, r, t) ==
    /\ r.scope = s.scope /\ r.version = s.version /\ r.next_transaction = s.next_transaction
    /\ \A u \in Ids \ {t} : Ages(s.transactions[u], r.transactions[u])

LEMMA CalmItself ==
    ASSUME NEW s
    PROVE  Calm(s, s)
BY DEF Calm

LEMMA CalmFurther ==
    ASSUME NEW s, NEW r, NEW u, Calm(s, r), Calm(r, u)
    PROVE  Calm(s, u)
BY DEF Calm

LEMMA FollowsCalm ==
    ASSUME NEW s, NEW r, Follows(s, r)
    PROVE  Calm(s, r) /\ \A t : FollowsBut(s, r, t)
BY DEF Follows, FollowsBut, Calm, Ages

LEMMA FollowsButFurther ==
    ASSUME NEW s, NEW r, NEW u, NEW t, FollowsBut(s, r, t), FollowsBut(r, u, t)
    PROVE  FollowsBut(s, u, t)
BY AgesFurther DEF FollowsBut

LEMMA ViewAges ==
    ASSUME NEW x, NEW y, Ages(x, y), NEW p, NEW o, ViewOf(x, p, o)
    PROVE  ViewOf(y, p, o)
<1>1. Readable(y) => /\ Readable(x) /\ y.read_version = x.read_version
                     /\ y.snapshot_pending = x.snapshot_pending
  BY DEF Ages, Readable
<1>2. y.state = "Active" => /\ x.state = "Active" /\ y.read_set = x.read_set /\ y.queries = x.queries
                            /\ y.read_only = x.read_only /\ y.read_version = x.read_version
                            /\ y.snapshot_pending = x.snapshot_pending
  BY DEF Ages
<1>3. Readable(y) => /\ y.snapshot_pending => o = {}
                     /\ Serial!AllHold(o, p[y.read_version + 1])
  BY <1>1 DEF ViewOf
<1>4. y.state = "Active" /\ ~y.read_only =>
          /\ y.snapshot_pending => y.read_set = {} /\ y.queries = {}
          /\ ReadsAgree(y, p) /\ QueriesAgree(y, p) /\ Retained(y, o)
  BY <1>2 DEF ViewOf, ReadsAgree, QueriesAgree, Retained, ReadPaths
<1> QED
  BY <1>3, <1>4 DEF ViewOf

LEMMA ViewsFollow ==
    ASSUME NEW s, NEW r, Follows(s, r), NEW p, NEW shown, NEW done, Views(s, p, shown, done)
    PROVE  Views(r, p, shown, done)
<1>1. \A t \in Ids : ViewOf(r.transactions[t], p, shown[t])
  BY ViewAges DEF Follows, Views
<1>2. \A t \in done : t <= r.next_transaction /\ ~Readable(r.transactions[t])
  BY DEF Follows, Views, Ages
<1> QED
  BY <1>1, <1>2 DEF Follows, Views

LEMMA ViewsBut ==
    ASSUME NEW s, NEW r, NEW t \in Ids, FollowsBut(s, r, t), NEW p, NEW shown, NEW done,
           Views(s, p, shown, done),
           NEW o, ViewOf(r.transactions[t], p, o), \A x \in o : x[1] \in {"document", "query"},
           t \in done => ~Readable(r.transactions[t]),
           t > s.next_transaction => o = {},
           NEW also, also = [shown EXCEPT ![t] = o]
    PROVE  Views(r, p, also, done)
<1>1. /\ also = [u \in Ids |-> also[u]] /\ also[t] = o
      /\ \A u \in Ids \ {t} : also[u] = shown[u]
  BY DEF Views
<1>2. \A u \in Ids : ViewOf(r.transactions[u], p, also[u])
  BY <1>1, ViewAges DEF FollowsBut, Views
<1>3. \A u \in done : u <= r.next_transaction /\ ~Readable(r.transactions[u])
  BY DEF FollowsBut, Views, Ages
<1>4. \A u \in Ids : u > r.next_transaction => also[u] = {}
  BY <1>1 DEF FollowsBut, Views
<1>5. \A u \in Ids : \A x \in also[u] : x[1] \in {"document", "query"}
  BY <1>1 DEF Views
<1> QED
  BY <1>1, <1>2, <1>3, <1>4, <1>5 DEF Views

-----------------------------------------------------------------------------
(* Beginning a transaction.                                                 *)

NewOne(read_only, v, at) ==
    [NoTransaction EXCEPT !.state = "Active", !.read_only = read_only,
                          !.read_version = v, !.started_at = at, !.last_activity = at]

\* A transaction nobody has used.
Unused(x) ==
    /\ x.state = "Active" /\ x.read_set = {} /\ x.queries = {} /\ x.waits = {}
    /\ x.deadlock_victim = FALSE

Flag(b) == b \in BOOLEAN

LEMMA NewOneIs ==
    ASSUME NEW read_only, Flag(read_only), NEW v \in Nat, NEW at \in Nat,
           NEW x, x = NewOne(read_only, v, at)
    PROVE  /\ IsTransaction(x) /\ Unused(x) /\ x.bytes = 0
           /\ x.read_version = v
<1>1. /\ x = [f \in TransactionFields |-> x[f]]
      /\ x.state = "Active" /\ x.read_only = read_only /\ x.read_version = v
      /\ x.started_at = at /\ x.last_activity = at /\ x.read_set = {} /\ x.queries = {}
      /\ x.bytes = 0 /\ x.waits = {} /\ x.deadlock_victim = FALSE /\ x.snapshot_pending = FALSE
      /\ x.lifetime_expired = FALSE /\ x.retried_while_live = FALSE
  BY DEF NewOne, NoTransaction, TransactionFields
<1>2. {x.read_only, x.snapshot_pending, x.lifetime_expired, x.retried_while_live} \subseteq BOOLEAN
  BY <1>1, Zenon DEF Flag
<1>3. {x.read_version, x.started_at, x.last_activity, x.bytes} \subseteq Nat
  BY <1>1
<1>4. ~x.lifetime_expired /\ x.state \in TransactionStates /\ x.state = "Active"
  BY <1>1 DEF TransactionStates
<1>5. IsTransaction(x)
  BY <1>1, <1>2, <1>3, <1>4 DEF IsTransaction
<1> QED
  BY <1>1, <1>5 DEF Unused

\* r has one transaction more than s, if the begin was not refused.
Begins(s, p, b) ==
    /\ StoreInv(b.s, p) /\ Calm(s, b.s) /\ b.s.scope = s.scope /\ b.s.version = s.version
    /\ b.id = None => Follows(s, b.s)
    /\ b.id # None =>
          /\ b.id \in Ids /\ b.id = s.next_transaction + 1 /\ b.s.next_transaction = b.id
          /\ Unused(b.s.transactions[b.id])
          /\ \A u \in Ids \ {b.id} : Ages(s.transactions[u], b.s.transactions[u])

IsBegun(b) == b = [s |-> b.s, id |-> b.id]

LEMMA InsertStore ==
    ASSUME NEW s, NEW p, StoreInv(s, p), NEW at \in Nat, s.next_transaction + 1 \in Ids,
           NEW read_only, Flag(read_only), NEW v \in Nat, s.compaction_floor <= v, v <= s.version,
           NEW b, b = insert_transaction(s, read_only, v, at)
    PROVE  Begins(s, p, b) /\ IsBegun(b)
<1>1. PICK u : u = prune_transactions(s, at)
  OBVIOUS
<1>2. StoreInv(u, p) /\ Follows(s, u) /\ SameHistory(s, u)
  BY <1>1, PruneStore
<1>3. PICK x : x = NewOne(read_only, v, at)
  OBVIOUS
<1>4. PICK t \in Ids : t = s.next_transaction + 1
  OBVIOUS
<1>5. b = InsertPruned(u, t, x)
  BY <1>1, <1>3, <1>4 DEF insert_transaction, NewOne
<1>6. CASE u.active_count >= MaxActive
  <2>1. b.s = u /\ b.id = None /\ IsBegun(b)
    BY <1>5, <1>6 DEF InsertPruned, begun, IsBegun
  <2> QED
    BY <1>2, <2>1, FollowsCalm DEF Begins, Follows
<1>7. CASE ~ (u.active_count >= MaxActive)
  <2>1. PICK r : r = Inserted(u, t, x)
    OBVIOUS
  <2>2. b.s = r /\ b.id = t /\ IsBegun(b)
    BY <1>5, <1>7, <2>1 DEF InsertPruned, begun, Inserted, IsBegun
  <2>3. /\ IsTransaction(x) /\ Unused(x) /\ x.bytes = 0 /\ x.read_version = v
    BY <1>3, NewOneIs
  <2>4. t = u.next_transaction + 1
    BY <1>2, <1>4 DEF Follows
  <2>5. /\ Core(r) /\ SameHistory(u, r) /\ Bounded(r)
        /\ r.next_transaction = t /\ r.transactions[t] = x
        /\ \A w \in Ids \ {t} : r.transactions[w] = u.transactions[w]
        /\ u.transactions[t] = NoTransaction
    BY <1>2, <2>1, <2>3, <2>4, InsertIs DEF StoreInv, Unused
  <2>6. History(r, p)
    BY <1>2, <2>5, HistorySame DEF StoreInv
  <2>7. /\ r.version = s.version /\ r.scope = s.scope /\ r.compaction_floor = s.compaction_floor
        /\ r.version = u.version /\ r.compaction_floor = u.compaction_floor /\ r.capacity_floor = u.capacity_floor
    BY <1>2, <2>5 DEF SameHistory
  <2>8. SnapshotsKept(r)
    BY <1>2, <2>3, <2>5, <2>7 DEF StoreInv, SnapshotsKept, ActiveOf
  <2>9. \A w \in Ids \ {t} : Ages(s.transactions[w], r.transactions[w])
    BY <1>2, <2>5 DEF Follows
  <2>10. Calm(s, r)
    BY <2>3, <2>5, <2>9 DEF Calm, Unused, Ages
  <2>11. t # None
    BY StoreAssumption DEF None
  <2> QED
    BY <1>4, <2>2, <2>3, <2>5, <2>6, <2>7, <2>8, <2>9, <2>10, <2>11 DEF Begins, StoreInv
<1> QED
  BY <1>6, <1>7

-----------------------------------------------------------------------------
LEMMA BeginsAfter ==
    ASSUME NEW s, NEW r, Follows(s, r), NEW p, NEW b, Begins(r, p, b)
    PROVE  Begins(s, p, b)
<1>1. Calm(s, b.s)
  BY FollowsCalm, CalmFurther DEF Begins
<1>2. b.id = None => Follows(s, b.s)
  BY FollowsFurther DEF Begins
<1>3. b.id # None => \A u \in Ids \ {b.id} : Ages(s.transactions[u], b.s.transactions[u])
  BY AgesFurther DEF Begins, Follows
<1> QED
  BY <1>1, <1>2, <1>3 DEF Begins, Follows

(* The flags of a new transaction.                                          *)
LEMMA BeginsWith ==
    ASSUME NEW s, NEW p, NEW b, Begins(s, p, b), NEW t, t = b.id, t # None,
           NEW y, Unindexed(b.s.transactions[t], y), Unused(y),
           NEW c, c = [s |-> WithOne(b.s, t, y), id |-> t]
    PROVE  Begins(s, p, c) /\ IsBegun(c)
<1>1. PICK u : u = b.s
  OBVIOUS
<1>2. PICK r : r = WithOne(u, t, y)
  OBVIOUS
<1>3. c.s = r /\ c.id = t /\ IsBegun(c)
  BY <1>1, <1>2 DEF IsBegun
<1>4. /\ t \in Ids /\ StoreInv(u, p) /\ Calm(s, u) /\ u.scope = s.scope /\ u.version = s.version
      /\ t = s.next_transaction + 1 /\ u.next_transaction = t /\ Unused(u.transactions[t])
      /\ \A w \in Ids \ {t} : Ages(s.transactions[w], u.transactions[w])
  BY <1>1 DEF Begins
<1>5. u.transactions[t] # NoTransaction
  BY <1>4, NothingIs DEF Unused
<1>6. /\ Core(r) /\ SameHistory(u, r) /\ Bounded(r)
      /\ ActiveOf(r) = ActiveOf(u) /\ r.next_transaction = u.next_transaction
      /\ r.transactions[t] = y
      /\ \A w \in Ids \ {t} : r.transactions[w] = u.transactions[w]
  BY <1>1, <1>2, <1>4, <1>5, UnindexedOne DEF StoreInv
<1>7. History(r, p)
  BY <1>4, <1>6, HistorySame DEF StoreInv
<1>8. \A w \in Ids : r.transactions[w].state = u.transactions[w].state
                     /\ r.transactions[w].read_version = u.transactions[w].read_version
  BY <1>1, <1>4, <1>6 DEF Unused, Unindexed
<1>9. SnapshotsKept(r)
  BY <1>4, <1>6, <1>8, ListsAre DEF StoreInv, SnapshotsKept, SameHistory
<1>10. r.scope = s.scope /\ r.version = s.version
  BY <1>4, <1>6 DEF SameHistory
<1>11. Calm(s, r)
  BY <1>4, <1>6 DEF Calm, Unused
<1> QED
  BY <1>3, <1>4, <1>6, <1>7, <1>9, <1>10, <1>11 DEF Begins, StoreInv

LEMMA BegunFlag ==
    ASSUME NEW x, IsTransaction(x), Unused(x), NEW y,
           y = [x EXCEPT !.has_read = TRUE] \/ y = [x EXCEPT !.snapshot_pending = TRUE]
           \/ y = [x EXCEPT !.snapshot_pending = FALSE]
    PROVE  Unindexed(x, y) /\ Unused(y)
<1>1. /\ y = [f \in TransactionFields |-> y[f]]
      /\ y.state = x.state /\ y.waits = x.waits /\ y.bytes = x.bytes
      /\ y.read_set = x.read_set /\ y.queries = x.queries
      /\ y.read_only = x.read_only /\ y.read_version = x.read_version
      /\ y.started_at = x.started_at /\ y.last_activity = x.last_activity
      /\ y.deadlock_victim = x.deadlock_victim /\ y.lifetime_expired = x.lifetime_expired
      /\ y.retried_while_live = x.retried_while_live
  BY DEF IsTransaction, TransactionFields
<1>2. y.snapshot_pending \in BOOLEAN
  BY DEF IsTransaction, TransactionFields
<1>3. IsTransaction(y)
  BY <1>1, <1>2 DEF IsTransaction
<1> QED
  BY <1>1, <1>3 DEF Unindexed, Unused

LEMMA HasReadBegins ==
    ASSUME NEW s, NEW p, NEW b, Begins(s, p, b), IsBegun(b), NEW c, c = HasRead(b)
    PROVE  Begins(s, p, c) /\ IsBegun(c)
<1>1. CASE b.id = None
  BY <1>1 DEF HasRead
<1>2. CASE b.id # None
  <2>1. PICK t \in Ids : t = b.id
    BY <1>2 DEF Begins
  <2>2. PICK y : y = [b.s.transactions[t] EXCEPT !.has_read = TRUE]
    OBVIOUS
  <2>3. c = [s |-> WithOne(b.s, t, y), id |-> t]
    BY <1>2, <2>1, <2>2 DEF HasRead, IsBegun, WithOne, WithTransactions
  <2>4. IsTransaction(b.s.transactions[t]) /\ Unused(b.s.transactions[t])
    BY <1>2, <2>1 DEF Begins, StoreInv, Core, Transactions
  <2>5. Unindexed(b.s.transactions[t], y) /\ Unused(y)
    BY <2>2, <2>4, BegunFlag
  <2> QED
    BY <1>2, <2>1, <2>3, <2>5, BeginsWith
<1> QED
  BY <1>1, <1>2

LEMMA PendingBegins ==
    ASSUME NEW s, NEW p, NEW b, Begins(s, p, b), IsBegun(b), NEW pending,
           pending = TRUE \/ pending = FALSE, NEW c, c = Pending(b, pending)
    PROVE  Begins(s, p, c) /\ IsBegun(c)
<1>1. CASE b.id = None
  BY <1>1 DEF Pending
<1>2. CASE b.id # None
  <2>1. PICK t \in Ids : t = b.id
    BY <1>2 DEF Begins
  <2>2. PICK y : y = [b.s.transactions[t] EXCEPT !.snapshot_pending = pending]
    OBVIOUS
  <2>3. c = [s |-> WithOne(b.s, t, y), id |-> t]
    BY <1>2, <2>1, <2>2 DEF Pending, IsBegun, WithOne, WithTransactions
  <2>4. IsTransaction(b.s.transactions[t]) /\ Unused(b.s.transactions[t])
    BY <1>2, <2>1 DEF Begins, StoreInv, Core, Transactions
  <2>5. Unindexed(b.s.transactions[t], y) /\ Unused(y)
    BY <2>2, <2>4, BegunFlag
  <2> QED
    BY <1>2, <2>1, <2>3, <2>5, BeginsWith
<1> QED
  BY <1>1, <1>2

(* A begin at the present version.                                          *)
LEMMA PresentVersion ==
    ASSUME NEW s, NEW p, StoreInv(s, p)
    PROVE  s.version \in Nat /\ s.compaction_floor <= s.version /\ s.version <= s.version
BY DEF StoreInv, History

LEMMA BeginPendingStore ==
    ASSUME NEW s, NEW p, StoreInv(s, p), NEW at \in Nat, s.next_transaction + 1 \in Ids,
           NEW read_only, read_only = TRUE \/ read_only = FALSE,
           NEW pending, pending = TRUE \/ pending = FALSE,
           NEW b, b = begin_pending(s, read_only, pending, at)
    PROVE  Begins(s, p, b) /\ IsBegun(b)
<1>1. PICK c : c = insert_transaction(s, read_only, s.version, at)
  OBVIOUS
<1>2. PICK v : v = s.version
  OBVIOUS
<1>3. v \in Nat /\ s.compaction_floor <= v /\ v <= s.version
  BY <1>2, PresentVersion
<1>4. Flag(read_only)
  BY DEF Flag
<1>5. Begins(s, p, c) /\ IsBegun(c)
  BY <1>1, <1>2, <1>3, <1>4, InsertStore
<1>6. b = Pending(c, pending)
  BY <1>1 DEF begin_pending
<1> QED
  BY <1>5, <1>6, PendingBegins

LEMMA BeginTransactionStore ==
    ASSUME NEW s, NEW p, StoreInv(s, p), NEW at \in Nat, s.next_transaction + 1 \in Ids,
           NEW read_only, read_only = TRUE \/ read_only = FALSE,
           NEW b, b = begin_transaction(s, read_only, at)
    PROVE  Begins(s, p, b) /\ IsBegun(b)
<1>1. PICK c : c = insert_transaction(s, read_only, s.version, at)
  OBVIOUS
<1>2. PICK v : v = s.version
  OBVIOUS
<1>3. v \in Nat /\ s.compaction_floor <= v /\ v <= s.version
  BY <1>2, PresentVersion
<1>4. Flag(read_only)
  BY DEF Flag
<1>5. Begins(s, p, c) /\ IsBegun(c)
  BY <1>1, <1>2, <1>3, <1>4, InsertStore
<1>6. b = HasRead(c)
  BY <1>1 DEF begin_transaction
<1> QED
  BY <1>5, <1>6, HasReadBegins

LEMMA RefusedBegins ==
    ASSUME NEW s, NEW p, NEW r, StoreInv(r, p), Follows(s, r), NEW b, b = begun(r, None)
    PROVE  Begins(s, p, b) /\ IsBegun(b)
<1>1. b.s = r /\ b.id = None /\ IsBegun(b)
  BY DEF begun, IsBegun
<1> QED
  BY <1>1, FollowsCalm DEF Begins, Follows

LEMMA BeginAtStore ==
    ASSUME NEW s, NEW p, StoreInv(s, p), NEW at \in Nat, s.next_transaction + 1 \in Ids,
           NEW time, NEW b, b = begin_transaction_at(s, time, at)
    PROVE  Begins(s, p, b) /\ IsBegun(b)
<1>1. CASE ~version_at_retained(s, time)
  <2>1. b = begun(s, None)
    BY <1>1 DEF begin_transaction_at
  <2> QED
    BY <2>1, FollowsItself, RefusedBegins
<1>2. CASE version_at_retained(s, time)
  <2>1. PICK v : v = version_at(s, time)
    OBVIOUS
  <2>2. b = insert_transaction(s, TRUE, v, at)
    BY <1>2, <2>1 DEF begin_transaction_at
  <2>3. v \in Nat /\ s.compaction_floor <= v /\ v <= s.version
    <3>1. PICK V : V = {c[1] : c \in {c \in s.commit_times : c[2] <= time}}
      OBVIOUS
    <3>2. s.version \in Nat /\ s.compaction_floor \in Nat /\ s.compaction_floor <= s.version
      BY DEF StoreInv, History
    <3>3. V \in SUBSET Nat /\ \A k \in V : k <= s.version /\ s.compaction_floor <= k
      BY <3>1, <3>2 DEF StoreInv, History
    <3>4. v = IF V = {} THEN s.compaction_floor ELSE Max(V)
      BY <2>1, <3>1 DEF version_at
    <3>5. V # {} => Max(V) \in V /\ Max(V) \in Nat
      BY <3>2, <3>3, MaxBounded
    <3> QED
      BY <3>2, <3>3, <3>4, <3>5
  <2>4. PICK yes : yes = TRUE
    OBVIOUS
  <2>5. Flag(yes)
    BY <2>4 DEF Flag
  <2>6. b = insert_transaction(s, yes, v, at)
    BY <2>2, <2>4
  <2> QED
    BY <2>3, <2>5, <2>6, InsertStore
<1> QED
  BY <1>1, <1>2

-----------------------------------------------------------------------------
(* Retrying an attempt: the one named is over and may answer reads once     *)
(* more if it was live.                                                     *)
Off(b) == b = FALSE

RetriedAs(x, live) == [[x EXCEPT !.state = "Retried"] EXCEPT !.retried_while_live = live]

LEMMA RetriedAsIs ==
    ASSUME NEW x, IsTransaction(x), x.state \in RetryableStates, x.state # "Finished",
           NEW live, Flag(live), NEW y, y = RetriedAs(x, live)
    PROVE  /\ Unindexed(x, y) /\ y.state = "Retried"
           /\ y.read_only = x.read_only /\ y.read_version = x.read_version
           /\ y.started_at = x.started_at /\ y.snapshot_pending = x.snapshot_pending
           /\ y.waits = x.waits /\ y.deadlock_victim = x.deadlock_victim
           /\ Off(live) => ~Readable(y)
<1>1. /\ y = [f \in TransactionFields |-> y[f]]
      /\ y.state = "Retried" /\ y.waits = x.waits /\ y.bytes = x.bytes
      /\ y.read_set = x.read_set /\ y.queries = x.queries
      /\ y.read_only = x.read_only /\ y.read_version = x.read_version
      /\ y.started_at = x.started_at /\ y.last_activity = x.last_activity
      /\ y.deadlock_victim = x.deadlock_victim /\ y.lifetime_expired = x.lifetime_expired
      /\ y.snapshot_pending = x.snapshot_pending
  BY DEF RetriedAs, IsTransaction, TransactionFields
<1>2. y.retried_while_live = live
  BY DEF RetriedAs, IsTransaction, TransactionFields
<1>3. x.state \notin {"Active", "Unknown", "Retried"} /\ y.state \in TransactionStates
  BY <1>1 DEF RetryableStates, TransactionStates
<1>4. y.retried_while_live \in BOOLEAN
  BY <1>2 DEF Flag
<1>5. IsTransaction(y)
  BY <1>1, <1>3, <1>4 DEF IsTransaction
<1>6. Unindexed(x, y)
  BY <1>1, <1>3, <1>5 DEF Unindexed, EndedState
<1>7. Off(live) => ~Readable(y)
  BY <1>1, <1>2 DEF Readable, Off
<1> QED
  BY <1>1, <1>6, <1>7

\* The attempt u's transaction t named is over in w.
Superseded(u, w, t, live) ==
    /\ Follows(u, w) /\ t \notin ActiveOf(w)
    /\ Off(live) \/ u.transactions[t].state = "Active"

LEMMA RetriedStore ==
    ASSUME NEW u, NEW w, NEW p, StoreInv(w, p), NEW t \in Ids,
           NEW live, Flag(live), Superseded(u, w, t, live),
           w.transactions[t].state \in RetryableStates, w.transactions[t].state # "Finished",
           NEW r, r = WithOne(w, t, RetriedAs(w.transactions[t], live))
    PROVE  StoreInv(r, p) /\ Follows(u, r)
<1>1. PICK x, y : x = w.transactions[t] /\ y = RetriedAs(x, live)
  OBVIOUS
<1>2. IsTransaction(x) /\ x.state # "Unknown" /\ x.state # "Active"
  BY <1>1 DEF StoreInv, Core, Transactions, RetryableStates
<1>3. /\ Unindexed(x, y) /\ y.state = "Retried"
      /\ y.read_only = x.read_only /\ y.read_version = x.read_version
      /\ y.started_at = x.started_at /\ y.snapshot_pending = x.snapshot_pending
      /\ y.waits = x.waits /\ y.deadlock_victim = x.deadlock_victim
      /\ Off(live) => ~Readable(y)
  BY <1>1, <1>2, RetriedAsIs
<1>4. x # NoTransaction
  BY <1>2, NothingIs
<1>5. /\ Core(r) /\ SameHistory(w, r) /\ Bounded(r)
      /\ ActiveOf(r) = ActiveOf(w) /\ r.next_transaction = w.next_transaction
      /\ r.transactions[t] = y
      /\ \A v \in Ids \ {t} : r.transactions[v] = w.transactions[v]
  BY <1>1, <1>3, <1>4, UnindexedOne DEF StoreInv
<1>6. History(r, p)
  BY <1>5, HistorySame DEF StoreInv
<1>7. SnapshotsKept(r)
  <2>1. r.version = w.version /\ r.compaction_floor = w.compaction_floor /\ r.capacity_floor = w.capacity_floor
    BY <1>5 DEF SameHistory
  <2>2. \A v \in Ids : r.transactions[v].read_version = w.transactions[v].read_version
    BY <1>1, <1>3, <1>5
  <2>3. \A v \in Ids : r.transactions[v].state # "Unknown" => w.transactions[v].state # "Unknown"
    BY <1>1, <1>2, <1>5
  <2> QED
    BY <1>5, <2>1, <2>2, <2>3, ListsAre DEF StoreInv, SnapshotsKept
<1>8. Ages(u.transactions[t], y)
  <2>1. Ages(u.transactions[t], x)
    BY <1>1 DEF Superseded, Follows
  <2>2. Readable(y) => Readable(u.transactions[t])
    BY <1>3 DEF Superseded, Readable
  <2> QED
    BY <1>2, <1>3, <2>1, <2>2 DEF Ages
<1>9. Follows(u, r)
  BY <1>5, <1>8 DEF Follows, Superseded, SameHistory
<1> QED
  BY <1>5, <1>6, <1>7, <1>9 DEF StoreInv

LEMMA RetryEndedStore ==
    ASSUME NEW u, NEW w, NEW p, StoreInv(w, p), NEW t \in Ids,
           NEW live, Flag(live), Superseded(u, w, t, live),
           NEW at \in Nat, u.next_transaction + 1 \in Ids,
           NEW b, b = RetryEnded(w, t, live, at)
    PROVE  Begins(u, p, b) /\ IsBegun(b)
<1>0. Follows(u, w) /\ w.next_transaction = u.next_transaction
  BY DEF Superseded, Follows
<1>1. CASE w.transactions[t].state \notin RetryableStates \/ w.active_count >= MaxActive
  <2>1. b = begun(w, None)
    BY <1>1 DEF RetryEnded
  <2> QED
    BY <1>0, <2>1, RefusedBegins
<1>2. CASE w.transactions[t].state \in RetryableStates /\ ~ (w.active_count >= MaxActive)
  <2>1. PICK r : r = IF w.transactions[t].state = "Finished" THEN w
                     ELSE WithOne(w, t, RetriedAs(w.transactions[t], live))
    OBVIOUS
  <2>2. StoreInv(r, p) /\ Follows(u, r)
    <3>1. CASE w.transactions[t].state = "Finished"
      BY <1>0, <2>1, <3>1
    <3>2. CASE w.transactions[t].state # "Finished"
      BY <1>2, <2>1, <3>2, RetriedStore
    <3> QED
      BY <3>1, <3>2
  <2>3. PICK no, yes : no = FALSE /\ yes = TRUE
    OBVIOUS
  <2>4. b = begin_pending(r, no, yes, at)
    <3>1. [w EXCEPT !.transactions[t].state = "Retried", !.transactions[t].retried_while_live = live]
            = WithOne(w, t, RetriedAs(w.transactions[t], live))
      BY DEF WithOne, WithTransactions, RetriedAs, StoreInv, Core, IsStore, StoreFields, Transactions
    <3>2. b = begin_pending(IF w.transactions[t].state = "Finished" THEN w
                            ELSE WithOne(w, t, RetriedAs(w.transactions[t], live)), FALSE, TRUE, at)
      BY <1>2, <3>1 DEF RetryEnded
    <3> QED
      BY <2>1, <2>3, <3>2
  <2>5. r.next_transaction + 1 \in Ids
    BY <2>2 DEF Follows
  <2>6. Begins(r, p, b) /\ IsBegun(b)
    BY <2>2, <2>3, <2>4, <2>5, BeginPendingStore
  <2> QED
    BY <2>2, <2>6, BeginsAfter
<1> QED
  BY <1>1, <1>2

LEMMA RetryStore ==
    ASSUME NEW s, NEW p, StoreInv(s, p), NEW t \in Ids, NEW at \in Nat, s.next_transaction + 1 \in Ids,
           NEW b, b = retry_transaction(s, t, at)
    PROVE  Begins(s, p, b) /\ IsBegun(b)
<1>1. PICK u : u = prune_transactions(s, at)
  OBVIOUS
<1>2. StoreInv(u, p) /\ Follows(s, u)
  BY <1>1, PruneStore
<1>3. b = RetryPruned(u, t, at)
  BY <1>1 DEF retry_transaction
<1>4. u.next_transaction + 1 \in Ids
  BY <1>2 DEF Follows
<1>5. Begins(u, p, b) /\ IsBegun(b)
  <2>1. CASE u.transactions[t].state = "Unknown" \/ u.transactions[t].read_only
    <3>1. b = begun(u, None)
      BY <1>3, <2>1 DEF RetryPruned
    <3> QED
      BY <1>2, <3>1, FollowsItself, RefusedBegins
  <2>2. CASE ~ (u.transactions[t].state = "Unknown" \/ u.transactions[t].read_only) /\ t \in ActiveOf(u)
    <3>1. Active(u, t) = TRUE /\ u.transactions[t].state = "Active"
      BY <2>2 DEF ActiveOf, Active
    <3>2. PICK w : w = EndActive(u, {t}, "RolledBack")
      OBVIOUS
    <3>a. PICK live : live = TRUE
      OBVIOUS
    <3>b. Flag(live)
      BY <3>a DEF Flag
    <3>3. b = RetryEnded(w, t, live, at)
      BY <1>3, <2>2, <3>1, <3>2, <3>a DEF RetryPruned
    <3>4. EndState(u, "RolledBack") /\ {t} \subseteq ActiveOf(u)
      BY <2>2 DEF EndState
    <3>5. StoreInv(w, p) /\ Follows(u, w) /\ t \notin ActiveOf(w)
      BY <1>2, <3>2, <3>4, EndActiveStore
    <3>6. Superseded(u, w, t, live)
      BY <3>1, <3>5 DEF Superseded
    <3> QED
      BY <1>4, <3>b, <3>3, <3>5, <3>6, RetryEndedStore
  <2>3. CASE ~ (u.transactions[t].state = "Unknown" \/ u.transactions[t].read_only) /\ t \notin ActiveOf(u)
    <3>1. Active(u, t) = FALSE
      BY <2>3 DEF ActiveOf, Active
    <3>2. PICK live : live = FALSE
      OBVIOUS
    <3>3. b = RetryEnded(u, t, live, at)
      BY <1>3, <2>3, <3>1, <3>2 DEF RetryPruned
    <3>4. Superseded(u, u, t, live)
      BY <2>3, <3>2, FollowsItself DEF Superseded, Off
    <3>5. Flag(live)
      BY <3>2 DEF Flag
    <3> QED
      BY <1>2, <1>4, <3>3, <3>4, <3>5, RetryEndedStore
  <2> QED
    BY <2>1, <2>2, <2>3
<1> QED
  BY <1>2, <1>5, BeginsAfter

-----------------------------------------------------------------------------
(* Touching a transaction: its snapshot is taken.                           *)

\* y is the transaction x with its snapshot taken, at version v if it was pending.
Taken(x, y, v) ==
    /\ y.state = x.state /\ y.read_only = x.read_only /\ y.started_at = x.started_at
    /\ y.read_set = x.read_set /\ y.queries = x.queries /\ y.bytes = x.bytes
    /\ y.waits = x.waits /\ y.deadlock_victim = x.deadlock_victim
    /\ y.lifetime_expired = x.lifetime_expired /\ y.retried_while_live = x.retried_while_live
    /\ y.snapshot_pending = FALSE
    /\ y.read_version = IF x.snapshot_pending THEN v ELSE x.read_version

UsedAs(s, x, at) == [[Pin(s, x) EXCEPT !.last_activity = at] EXCEPT !.has_read = TRUE]

LEMMA PinIs ==
    ASSUME NEW s, s.version \in Nat, NEW x, IsTransaction(x), NEW y, y = Pin(s, x)
    PROVE  IsTransaction(y) /\ Taken(x, y, s.version) /\ y.last_activity = x.last_activity
<1>1. CASE x.snapshot_pending
  <2>1. y = [x EXCEPT !.snapshot_pending = FALSE, !.read_version = s.version]
    BY <1>1 DEF Pin
  <2>2. y = [f \in TransactionFields |-> y[f]] /\ y.last_activity = x.last_activity
    BY <2>1 DEF IsTransaction, TransactionFields
  <2>3. Taken(x, y, s.version)
    BY <1>1, <2>1 DEF Taken, IsTransaction, TransactionFields
  <2>4. y.read_version \in Nat
    BY <1>1, <2>3 DEF Taken
  <2>5. IsTransaction(y)
    BY <2>2, <2>3, <2>4 DEF IsTransaction, Taken
  <2> QED
    BY <2>2, <2>3, <2>5
<1>2. CASE ~x.snapshot_pending
  <2>1. y = x
    BY <1>2 DEF Pin
  <2>2. x.snapshot_pending = FALSE
    BY <1>2 DEF IsTransaction
  <2> QED
    BY <1>2, <2>1, <2>2 DEF Taken
<1> QED
  BY <1>1, <1>2

LEMMA UsedAsIs ==
    ASSUME NEW s, s.version \in Nat, NEW x, IsTransaction(x), NEW at \in Nat, NEW y, y = UsedAs(s, x, at)
    PROVE  IsTransaction(y) /\ Taken(x, y, s.version)
<1>1. PICK z : z = Pin(s, x)
  OBVIOUS
<1>2. IsTransaction(z) /\ Taken(x, z, s.version)
  BY <1>1, PinIs
<1>3. /\ y = [f \in TransactionFields |-> y[f]]
      /\ y.state = z.state /\ y.waits = z.waits /\ y.bytes = z.bytes
      /\ y.read_set = z.read_set /\ y.queries = z.queries
      /\ y.read_only = z.read_only /\ y.read_version = z.read_version
      /\ y.started_at = z.started_at /\ y.last_activity = at
      /\ y.deadlock_victim = z.deadlock_victim /\ y.lifetime_expired = z.lifetime_expired
      /\ y.snapshot_pending = z.snapshot_pending /\ y.retried_while_live = z.retried_while_live
  BY <1>1, <1>2 DEF UsedAs, IsTransaction, TransactionFields
<1>4. IsTransaction(y)
  BY <1>2, <1>3 DEF IsTransaction
<1> QED
  BY <1>2, <1>3, <1>4 DEF Taken

LEMMA ViewTaken ==
    ASSUME NEW x, NEW y, NEW v, Taken(x, y, v), NEW p, NEW o, ViewOf(x, p, o)
    PROVE  ViewOf(y, p, o)
<1>1. Readable(y) => Readable(x)
  BY DEF Taken, Readable
<1>2. ~x.snapshot_pending => y.read_version = x.read_version
  BY DEF Taken
<1>3. Readable(y) => Serial!AllHold(o, p[y.read_version + 1])
  <2>1. CASE x.snapshot_pending
    BY <1>1, <2>1 DEF ViewOf, Serial!AllHold
  <2>2. CASE ~x.snapshot_pending
    BY <1>1, <1>2, <2>2 DEF ViewOf
  <2> QED
    BY <2>1, <2>2
<1>4. y.state = "Active" /\ ~y.read_only => ReadsAgree(y, p) /\ QueriesAgree(y, p) /\ Retained(y, o)
  <2>1. CASE x.snapshot_pending
    BY <2>1 DEF ViewOf, Taken, ReadsAgree, QueriesAgree, Retained, Readable
  <2>2. CASE ~x.snapshot_pending
    BY <1>2, <2>2 DEF ViewOf, Taken, ReadsAgree, QueriesAgree, Retained, ReadPaths
  <2> QED
    BY <2>1, <2>2
<1>5. ~y.snapshot_pending
  BY DEF Taken
<1> QED
  BY <1>3, <1>4, <1>5 DEF ViewOf

\* A read of the transaction may be answered: its snapshot is taken and retained.
Servable(s, t) ==
    /\ Readable(s.transactions[t]) /\ ~s.transactions[t].snapshot_pending
    /\ s.transactions[t].read_version \in s.compaction_floor .. s.version

(* One transaction has its snapshot taken and nothing else changes.         *)
LEMMA TakenStore ==
    ASSUME NEW s, NEW p, StoreInv(s, p), NEW t \in Ids, NEW shown, NEW done, Views(s, p, shown, done),
           NEW r, Core(r), Bounded(r), SameHistory(s, r), ActiveOf(r) = ActiveOf(s),
           r.next_transaction = s.next_transaction,
           \A u \in Ids \ {t} : r.transactions[u] = s.transactions[u],
           Taken(s.transactions[t], r.transactions[t], s.version), Readable(s.transactions[t]),
           s.transactions[t].read_version >= s.compaction_floor
    PROVE  /\ StoreInv(r, p) /\ Views(r, p, shown, done) /\ Calm(s, r) /\ FollowsBut(s, r, t)
           /\ Servable(r, t)
<1>0. PICK x, y : x = s.transactions[t] /\ y = r.transactions[t]
  OBVIOUS
<1>1. History(r, p)
  BY HistorySame DEF StoreInv
<1>2. /\ r.version = s.version /\ r.compaction_floor = s.compaction_floor
      /\ r.capacity_floor = s.capacity_floor /\ r.scope = s.scope
  BY DEF SameHistory
<1>3. /\ s.version \in Nat /\ s.compaction_floor \in Nat /\ s.compaction_floor <= s.version
      /\ x.read_version \in Nat /\ x.read_version <= s.version /\ x.state # "Unknown"
  <2>1. s.version \in Nat /\ s.compaction_floor \in Nat /\ s.compaction_floor <= s.version
    BY DEF StoreInv, History
  <2>2. x.state # "Unknown"
    BY <1>0 DEF Readable
  <2>3. IsTransaction(x)
    BY <1>0 DEF StoreInv, Core, Transactions
  <2>4. x.read_version \in Nat
    BY <2>3 DEF IsTransaction
  <2>5. x.read_version <= s.version
    BY <1>0, <2>2 DEF StoreInv, SnapshotsKept
  <2> QED
    BY <2>1, <2>2, <2>4, <2>5
<1>4. y.read_version \in s.compaction_floor .. s.version /\ y.state = x.state
  BY <1>0, <1>3 DEF Taken
<1>5. SnapshotsKept(r)
  BY <1>0, <1>2, <1>4, ListsAre DEF StoreInv, SnapshotsKept
<1>6. FollowsBut(s, r, t)
  BY <1>2, AgesItself DEF FollowsBut
<1>7. Calm(s, r)
  BY <1>0 DEF Calm, Taken
<1>8. ViewOf(y, p, shown[t])
  BY <1>0, ViewTaken DEF Views
<1>9. Readable(y) /\ Readable(x)
  BY <1>0 DEF Taken, Readable
<1>10. Views(r, p, shown, done)
  <2>1. \A u \in Ids : ViewOf(r.transactions[u], p, shown[u])
    BY <1>0, <1>8 DEF Views
  <2>2. \A u \in done : u <= r.next_transaction /\ ~Readable(r.transactions[u])
    BY <1>0, <1>9 DEF Views
  <2> QED
    BY <2>1, <2>2 DEF Views
<1>11. ~y.snapshot_pending
  BY <1>0 DEF Taken
<1>12. Servable(r, t)
  BY <1>0, <1>2, <1>4, <1>9, <1>11 DEF Servable
<1> QED
  BY <1>1, <1>5, <1>6, <1>7, <1>10, <1>12 DEF StoreInv

\* What a read operation leaves for the transactions it does not name.
Undisturbed(s, p, shown, done, t, r) ==
    StoreInv(r, p) /\ Views(r, p, shown, done) /\ Calm(s, r) /\ FollowsBut(s, r, t)

IsOutcome(o) == o = [s |-> o.s, answer |-> o.answer]

LEMMA UndisturbedFollows ==
    ASSUME NEW s, NEW p, NEW shown, NEW done, NEW t, Views(s, p, shown, done),
           NEW r, StoreInv(r, p), Follows(s, r)
    PROVE  Undisturbed(s, p, shown, done, t, r)
BY ViewsFollow, FollowsCalm DEF Undisturbed

LEMMA UndisturbedFurther ==
    ASSUME NEW s, NEW p, NEW shown, NEW done, NEW t, NEW r, NEW u,
           Undisturbed(s, p, shown, done, t, r), Undisturbed(r, p, shown, done, t, u)
    PROVE  Undisturbed(s, p, shown, done, t, u)
BY CalmFurther, FollowsButFurther DEF Undisturbed

LEMMA TouchStoreIs ==
    ASSUME NEW s, NEW p, StoreInv(s, p), NEW t \in Ids, NEW at \in Nat,
           NEW shown, NEW done, Views(s, p, shown, done),
           s.scope = "Production" => Fresh(s, at),
           NEW o, o = TouchStore(s, t, at)
    PROVE  /\ Undisturbed(s, p, shown, done, t, o.s)
           /\ o.answer = "ok" => Servable(o.s, t)
<1>0. PICK x : x = s.transactions[t]
  OBVIOUS
<1>1. o = TouchPruned(s, t, x, at)
  BY <1>0 DEF TouchStore
<1>2. IsTransaction(x) /\ s.version \in Nat
  BY <1>0 DEF StoreInv, Core, Transactions, History
<1>3. CASE serves_retried_read(s, t)
  <2>1. PICK y : y = Pin(s, x)
    OBVIOUS
  <2>2. PICK r : r = WithOne(s, t, y)
    OBVIOUS
  <2>3. o.s = r
    BY <1>1, <1>3, <2>1, <2>2 DEF TouchPruned, Outcome, WithOne, WithTransactions
  <2>4. IsTransaction(y) /\ Taken(x, y, s.version)
    BY <1>2, <2>1, PinIs
  <2>5. x.state = "Retried" /\ Readable(x) /\ x.read_version >= s.compaction_floor
    BY <1>0, <1>3 DEF serves_retried_read, Readable
  <2>6. Unindexed(x, y) /\ x # NoTransaction
    BY <2>4, <2>5, NothingIs DEF Unindexed, Taken
  <2>7. /\ Core(r) /\ SameHistory(s, r) /\ Bounded(r)
        /\ ActiveOf(r) = ActiveOf(s) /\ r.next_transaction = s.next_transaction
        /\ r.transactions[t] = y
        /\ \A u \in Ids \ {t} : r.transactions[u] = s.transactions[u]
    BY <1>0, <2>2, <2>6, UnindexedOne DEF StoreInv
  <2>8. Taken(s.transactions[t], r.transactions[t], s.version)
    BY <1>0, <2>4, <2>7
  <2>9. StoreInv(r, p) /\ Views(r, p, shown, done) /\ Calm(s, r) /\ FollowsBut(s, r, t) /\ Servable(r, t)
    BY <1>0, <2>5, <2>7, <2>8, TakenStore
  <2> QED
    BY <2>3, <2>9 DEF Undisturbed
<1>4. CASE ~serves_retried_read(s, t) /\ ~Usable(s, t)
  <2>1. o.s = s /\ o.answer = "error"
    BY <1>1, <1>4 DEF TouchPruned, Outcome
  <2> QED
    BY <2>1, FollowsItself, UndisturbedFollows
<1>5. CASE ~serves_retried_read(s, t) /\ Usable(s, t) /\ at >= transaction_deadline(s, x)
  <2>0. PICK deadline : deadline = transaction_deadline(s, x)
    OBVIOUS
  <2>1. o.s = EndExpired(s, t, deadline, at) /\ o.answer = "error"
    BY <1>1, <1>5, <2>0 DEF TouchPruned, Outcome
  <2>2. t \in ActiveOf(s)
    BY <1>5 DEF Usable, Active, ActiveOf
  <2>3. s.scope = "OfficialEmulator"
    <3>1. transaction_deadline(s, x) \in Nat
      BY <1>2, DeadlineIs DEF IsTransaction
    <3>2. ~Fresh(s, at)
      BY <1>0, <1>5, <2>2, <3>1 DEF Fresh
    <3> QED
      BY <3>2 DEF StoreInv, Core, Scopes
  <2>4. PICK r : r = o.s
    OBVIOUS
  <2>5. StoreInv(r, p) /\ Follows(s, r)
    BY <2>1, <2>2, <2>3, <2>4, EndExpiredStore
  <2> QED
    BY <2>1, <2>4, <2>5, UndisturbedFollows
<1>6. CASE ~serves_retried_read(s, t) /\ Usable(s, t) /\ ~ (at >= transaction_deadline(s, x))
  <2>1. PICK y : y = UsedAs(s, x, at)
    OBVIOUS
  <2>2. PICK r : r = Use(s, t, x, y)
    OBVIOUS
  <2>3. o.s = r
    BY <1>1, <1>6, <2>1, <2>2 DEF TouchPruned, Outcome, UsedAs
  <2>4. IsTransaction(y) /\ Taken(x, y, s.version)
    BY <1>2, <2>1, UsedAsIs
  <2>5. t \in ActiveOf(s) /\ x.state = "Active" /\ Readable(x) /\ x.read_version >= s.compaction_floor
    BY <1>0, <1>6 DEF Usable, Active, ActiveOf, Readable
  <2>6. y.state = "Active" /\ y.read_only = x.read_only /\ y.bytes = x.bytes
    BY <2>4, <2>5 DEF Taken
  <2>7. /\ Core(r) /\ SameHistory(s, r) /\ Bounded(r)
        /\ ActiveOf(r) = ActiveOf(s) /\ r.next_transaction = s.next_transaction
        /\ r.transactions[t] = y
        /\ \A u \in Ids \ {t} : r.transactions[u] = s.transactions[u]
    BY <1>0, <2>2, <2>4, <2>5, <2>6, UseIs DEF StoreInv
  <2>8. Taken(s.transactions[t], r.transactions[t], s.version)
    BY <1>0, <2>4, <2>7
  <2>9. StoreInv(r, p) /\ Views(r, p, shown, done) /\ Calm(s, r) /\ FollowsBut(s, r, t) /\ Servable(r, t)
    BY <1>0, <2>5, <2>7, <2>8, TakenStore
  <2> QED
    BY <2>3, <2>9 DEF Undisturbed
<1> QED
  BY <1>3, <1>4, <1>5, <1>6

-----------------------------------------------------------------------------
(* touch_transaction: under Production what has expired is pruned first.    *)
LEMMA TouchTransactionIs ==
    ASSUME NEW s, NEW p, StoreInv(s, p), NEW t \in Ids, NEW at \in Nat,
           NEW shown, NEW done, Views(s, p, shown, done),
           NEW o, o = touch_transaction(s, t, at)
    PROVE  /\ Undisturbed(s, p, shown, done, t, o.s)
           /\ o.answer = "ok" => Servable(o.s, t)
<1>1. PICK u : u = prune_transactions(s, at)
  OBVIOUS
<1>2. StoreInv(u, p) /\ Follows(s, u) /\ Fresh(u, at)
  BY <1>1, PruneStore
<1>3. PICK r : r = PrunedForProduction(s, u, at)
  OBVIOUS
<1>4. StoreInv(r, p) /\ Follows(s, r) /\ (r.scope = "Production" => Fresh(r, at))
  <2>1. CASE s.scope = "Production" /\ u # s
    <3>1. r = CompactPruned(u, at)
      BY <1>3, <2>1 DEF PrunedForProduction
    <3>2. StoreInv(r, p) /\ Follows(u, r) /\ Fresh(r, at)
      BY <1>2, <3>1, CompactPrunedIs
    <3> QED
      BY <1>2, <3>2, FollowsFurther
  <2>2. CASE ~ (s.scope = "Production" /\ u # s)
    <3>1. r = s
      BY <1>3, <2>2 DEF PrunedForProduction
    <3>2. s.scope = "Production" => Fresh(s, at)
      BY <1>2, <2>2
    <3> QED
      BY <3>1, <3>2, FollowsItself
  <2> QED
    BY <2>1, <2>2
<1>5. Undisturbed(s, p, shown, done, t, r)
  BY <1>4, UndisturbedFollows
<1>6. o = TouchStore(r, t, at)
  BY <1>1, <1>3 DEF touch_transaction
<1>7. Views(r, p, shown, done)
  BY <1>5 DEF Undisturbed
<1>8. /\ Undisturbed(r, p, shown, done, t, o.s)
      /\ o.answer = "ok" => Servable(o.s, t)
  BY <1>4, <1>6, <1>7, TouchStoreIs
<1> QED
  BY <1>5, <1>8, UndisturbedFurther

-----------------------------------------------------------------------------
(* Reading in a transaction.                                                *)

\* What a read leaves: its observations belong to the state of the transaction's snapshot.
Served(s, p, shown, done, t, o, observations) ==
    /\ StoreInv(o.s, p) /\ Calm(s, o.s) /\ FollowsBut(s, o.s, t)
    /\ o.answer # "ok" => Views(o.s, p, shown, done)
    /\ o.answer = "ok" =>
          /\ Views(o.s, p, [shown EXCEPT ![t] = shown[t] \cup observations], done)
          /\ t \notin done
          /\ \E i \in DOMAIN p : Serial!AllHold(shown[t] \cup observations, p[i])

LEMMA ServedFurther ==
    ASSUME NEW s, NEW p, NEW shown, NEW done, NEW t, NEW r, Undisturbed(s, p, shown, done, t, r),
           NEW o, NEW observations, Served(r, p, shown, done, t, o, observations)
    PROVE  Served(s, p, shown, done, t, o, observations)
BY CalmFurther, FollowsButFurther DEF Served, Undisturbed

\* y is the transaction x with more retained.
Grows(x, y) ==
    /\ y.state = x.state /\ y.read_only = x.read_only /\ y.read_version = x.read_version
    /\ y.snapshot_pending = x.snapshot_pending
    /\ Readable(y)
    /\ x.read_set \subseteq y.read_set
    /\ \A e \in x.queries : e.complete => e \in y.queries
    /\ y.waits = x.waits /\ y.deadlock_victim = x.deadlock_victim

LEMMA ViewGrows ==
    ASSUME NEW x, NEW y, Grows(x, y), Readable(x),
           NEW p, NEW o, ViewOf(x, p, o), NEW more, Serial!AllHold(more, p[x.read_version + 1]),
           x.snapshot_pending => more = {},
           y.state = "Active" /\ ~y.read_only =>
              ~x.snapshot_pending /\ ReadsAgree(y, p) /\ QueriesAgree(y, p) /\ Retained(y, more)
    PROVE  ViewOf(y, p, o \cup more) /\ Serial!AllHold(o \cup more, p[x.read_version + 1])
<1>1. Serial!AllHold(o, p[x.read_version + 1])
  BY DEF ViewOf
<1>2. Serial!AllHold(o \cup more, p[x.read_version + 1])
  BY <1>1 DEF Serial!AllHold
<1>3. y.read_version = x.read_version /\ (y.snapshot_pending => x.snapshot_pending)
  BY DEF Grows
<1>4. y.state = "Active" /\ ~y.read_only => Retained(y, o)
  <2>1. y.state = "Active" /\ ~y.read_only => Retained(x, o)
    BY DEF Grows, ViewOf
  <2>2. ReadPaths(x) \subseteq ReadPaths(y) /\ \A e \in x.queries : e.complete => e \in y.queries
    BY DEF Grows, ReadPaths
  <2> QED
    BY <2>1, <2>2 DEF Retained
<1>5. y.state = "Active" /\ ~y.read_only => Retained(y, o \cup more)
  BY <1>4 DEF Retained
<1>6. y.snapshot_pending => o \cup more = {}
  BY <1>3 DEF ViewOf
<1> QED
  BY <1>2, <1>3, <1>5, <1>6 DEF ViewOf

LEMMA ReadableIsIssued ==
    ASSUME NEW s, NEW p, StoreInv(s, p), NEW t \in Ids, Readable(s.transactions[t])
    PROVE  /\ t <= s.next_transaction /\ s.transactions[t].read_version + 1 \in DOMAIN p
           /\ s.transactions[t].read_version \in Nat
<1>1. IsTransaction(s.transactions[t]) /\ s.next_transaction \in Nat /\ t \in Nat
  BY StoreAssumption DEF StoreInv, Core, Transactions
<1>2. s.transactions[t].state # "Unknown"
  BY DEF Readable
<1>3. t <= s.next_transaction
  BY <1>1, <1>2, NothingIs DEF StoreInv, Core, Transactions
<1>4. s.transactions[t].read_version \in Nat
  BY <1>1 DEF IsTransaction
<1>5. s.transactions[t].read_version <= s.version
  BY <1>2 DEF StoreInv, SnapshotsKept
<1>6. s.version \in Nat /\ p \in Seq([Docs -> AnyValue]) /\ Len(p) = s.version + 1
  BY DEF StoreInv, History
<1> QED
  BY <1>3, <1>4, <1>5, <1>6

(* A read that retains what it shows.                                       *)
LEMMA ServedMore ==
    ASSUME NEW s, NEW p, StoreInv(s, p), NEW t \in Ids, NEW shown, NEW done, Views(s, p, shown, done),
           NEW o, o.answer = "ok", StoreInv(o.s, p), FollowsBut(s, o.s, t),
           Calm(s, o.s),
           NEW x, x = s.transactions[t], NEW y, y = o.s.transactions[t], Readable(x), Grows(x, y),
           NEW more, Serial!AllHold(more, p[x.read_version + 1]),
           \A m \in more : m[1] \in {"document", "query"},
           x.snapshot_pending => more = {},
           y.state = "Active" /\ ~y.read_only =>
              ~x.snapshot_pending /\ ReadsAgree(y, p) /\ QueriesAgree(y, p) /\ Retained(y, more)
    PROVE  Served(s, p, shown, done, t, o, more)
<1>1. ViewOf(x, p, shown[t]) /\ Readable(x)
  BY DEF Views
<1>2. PICK all : all = shown[t] \cup more
  OBVIOUS
<1>3. ViewOf(y, p, all) /\ Serial!AllHold(all, p[x.read_version + 1])
  BY <1>1, <1>2, ViewGrows
<1>4. \A m \in all : m[1] \in {"document", "query"}
  BY <1>2 DEF Views
<1>5. t \notin done
  BY <1>1 DEF Views
<1>6. t <= s.next_transaction /\ x.read_version + 1 \in DOMAIN p /\ s.next_transaction \in Nat /\ t \in Nat
  BY <1>1, ReadableIsIssued, StoreAssumption DEF StoreInv, Core, Transactions
<1>7. PICK also : also = [shown EXCEPT ![t] = all]
  OBVIOUS
<1>8. Views(o.s, p, also, done)
  <2>1. PICK r : r = o.s
    OBVIOUS
  <2>2. t \in done => ~Readable(r.transactions[t])
    BY <1>5
  <2>3. t > s.next_transaction => all = {}
    BY <1>6
  <2>4. ViewOf(r.transactions[t], p, all) /\ FollowsBut(s, r, t)
    BY <1>3, <2>1
  <2>5. Views(r, p, also, done)
    BY <1>4, <1>7, <2>2, <2>3, <2>4, ViewsBut
  <2> QED
    BY <2>1, <2>5
<1> QED
  BY <1>2, <1>3, <1>5, <1>6, <1>7, <1>8 DEF Served

LEMMA ServedGrows ==
    ASSUME NEW s, NEW p, StoreInv(s, p), NEW t \in Ids, NEW shown, NEW done, Views(s, p, shown, done),
           Servable(s, t), NEW o, o.answer = "ok", StoreInv(o.s, p), FollowsBut(s, o.s, t),
           Calm(s, o.s),
           NEW x, x = s.transactions[t], NEW y, y = o.s.transactions[t], Grows(x, y),
           NEW more, Serial!AllHold(more, p[x.read_version + 1]),
           \A m \in more : m[1] \in {"document", "query"},
           y.state = "Active" /\ ~y.read_only =>
              ReadsAgree(y, p) /\ QueriesAgree(y, p) /\ Retained(y, more)
    PROVE  Served(s, p, shown, done, t, o, more)
<1>1. Readable(x) /\ ~x.snapshot_pending
  BY DEF Servable
<1> QED
  BY <1>1, ServedMore

(* A read that is refused.                                                  *)
LEMMA ServedNot ==
    ASSUME NEW s, NEW p, NEW t \in Ids, NEW shown, NEW done, Views(s, p, shown, done),
           NEW o, o.answer # "ok", StoreInv(o.s, p), Follows(s, o.s), NEW more
    PROVE  Served(s, p, shown, done, t, o, more)
BY ViewsFollow, FollowsCalm DEF Served

(* What is over after a read.                                               *)
LEMMA ServedAfter ==
    ASSUME NEW s, NEW p, NEW t \in Ids, NEW shown, NEW done, NEW o, NEW more,
           Served(s, p, shown, done, t, o, more),
           NEW r, StoreInv(r.s, p), Follows(o.s, r.s), r.answer = o.answer
    PROVE  Served(s, p, shown, done, t, r, more)
BY ViewsFollow, FollowsCalm, CalmFurther, FollowsButFurther DEF Served

\* What a charge to the ledger does.
Charges(s, p, t, y, o) ==
    \/ o.answer # "ok" /\ StoreInv(o.s, p) /\ Follows(s, o.s)
    \/ /\ o.answer = "ok" /\ StoreInv(o.s, p) /\ FollowsBut(s, o.s, t) /\ Calm(s, o.s)
       /\ o.s.transactions[t] = y

LEMMA RetainIs ==
    ASSUME NEW s, NEW p, StoreInv(s, p), NEW t \in ActiveOf(s), NEW bytes \in Nat,
           NEW read_set, NEW queries,
           NEW y, y = RetainedAs(s.transactions[t], bytes, read_set, queries),
           NEW o, o = Retain(s, t, bytes, read_set, queries)
    PROVE  Charges(s, p, t, y, o)
<1>1. PICK x : x = s.transactions[t]
  OBVIOUS
<1>2. CASE x.bytes + bytes > MaxLedger \/ s.ledger + bytes > MaxActiveLedger
  <2>1. PICK r : r = EndActive(s, {t}, "RetryableAborted")
    OBVIOUS
  <2>2. o.s = r /\ o.answer # "ok"
    BY <1>1, <1>2, <2>1 DEF Retain, Outcome
  <2>3. PICK ending, state : ending = {t} /\ state = "RetryableAborted"
    OBVIOUS
  <2>4. EndState(s, state) /\ ending \subseteq ActiveOf(s)
    BY <2>3 DEF EndState
  <2>5. StoreInv(r, p) /\ Follows(s, r)
    BY <2>1, <2>3, <2>4, EndActiveStore
  <2> QED
    BY <2>2, <2>5 DEF Charges
<1>3. CASE ~ (x.bytes + bytes > MaxLedger \/ s.ledger + bytes > MaxActiveLedger)
  <2>1. PICK r : r = Charged(s, t, bytes, read_set, queries)
    OBVIOUS
  <2>2. o.s = r /\ o.answer = "ok"
    BY <1>1, <1>3, <2>1 DEF Retain, Outcome, Charged
  <2>3. /\ Core(r) /\ SameHistory(s, r) /\ Bounded(r)
        /\ ActiveOf(r) = ActiveOf(s) /\ r.next_transaction = s.next_transaction
        /\ r.transactions[t] = y
        /\ \A u \in Ids \ {t} : r.transactions[u] = s.transactions[u]
    BY <2>1, ChargedIs DEF StoreInv
  <2>4. t \in Ids /\ IsTransaction(x) /\ x.state = "Active"
    BY <1>1 DEF ActiveOf, StoreInv, Core, Transactions
  <2>5. /\ y.state = "Active" /\ y.read_version = x.read_version
        /\ y.waits = x.waits /\ y.deadlock_victim = x.deadlock_victim
    BY <1>1, <2>4, RetainedAsIs
  <2>6. r.version = s.version /\ r.compaction_floor = s.compaction_floor /\ r.capacity_floor = s.capacity_floor
        /\ r.scope = s.scope
    BY <2>3 DEF SameHistory
  <2>7. \A u \in Ids : r.transactions[u].state = s.transactions[u].state
                       /\ r.transactions[u].read_version = s.transactions[u].read_version
    BY <1>1, <2>3, <2>4, <2>5
  <2>8. SnapshotsKept(r)
    BY <2>3, <2>6, <2>7, ListsAre DEF StoreInv, SnapshotsKept
  <2>9. StoreInv(r, p)
    BY <2>3, <2>8, HistorySame DEF StoreInv
  <2>10. FollowsBut(s, r, t)
    BY <2>3, <2>6, AgesItself DEF FollowsBut
  <2>11. Calm(s, r)
    BY <1>1, <2>3, <2>5 DEF Calm
  <2> QED
    BY <2>2, <2>3, <2>9, <2>10, <2>11 DEF Charges
<1> QED
  BY <1>2, <1>3

-----------------------------------------------------------------------------
(* What a retained version shows of a document.                             *)
LEMMA EntryIs ==
    ASSUME NEW s, NEW p, History(s, p), NEW d \in Docs, NEW v \in s.compaction_floor .. s.version,
           NEW e, e = get_at(s, d, v)
    PROVE  /\ e.value = p[v + 1][d]
           /\ e.value # Absent =>
                 e.version \in 1 .. v /\ e.version + 1 \in DOMAIN p /\ p[e.version + 1][d] = e.value
<1>1. e.value = p[v + 1][d]
  BY DEF History, Answers
<1>2. s.version \in Nat /\ v \in Nat /\ v <= s.version /\ s.compaction_floor \in Nat
  BY DEF History
<1>3. PICK E : E = {f \in s.history[d] : f.version <= v}
  OBVIOUS
<1>4. Entries(s.history[d], p, d, s.version)
  BY HistoryEntries
<1>5. Entries(E, p, d, s.version)
  BY <1>3, <1>4, FewerEntries
<1>6. E = {} => e.value = Absent
  BY <1>3 DEF get_at, Newest, NoDocument
<1>7. E # {} => e \in E
  BY <1>2, <1>3, <1>5, NewestIs DEF get_at
<1>8. e \in E => e.version \in 1 .. s.version /\ e.value = p[e.version + 1][d]
  BY <1>5 DEF Entries
<1>9. Len(p) = s.version + 1 /\ p \in Seq([Docs -> AnyValue])
  BY DEF History
<1> QED
  BY <1>1, <1>2, <1>3, <1>6, <1>7, <1>8, <1>9

\* The read agrees with the state of the snapshot v.
ReadAgrees(read, v, p) ==
    /\ read[1] \in Docs /\ read[2] \in 0 .. v
    /\ p[v + 1][read[1]] = IF read[2] = None THEN Absent ELSE p[read[2] + 1][read[1]]

LEMMA ObservedAgrees ==
    ASSUME NEW s, NEW p, History(s, p), NEW d \in Docs, NEW v \in s.compaction_floor .. s.version,
           NEW e, e = get_at(s, d, v), NEW read, read = <<d, Observed(e)>>
    PROVE  ReadAgrees(read, v, p)
<1>1. /\ e.value = p[v + 1][d]
      /\ e.value # Absent => e.version \in 1 .. v /\ p[e.version + 1][d] = e.value
  BY EntryIs
<1>2. v \in Nat
  BY DEF History
<1>3. CASE e.value = Absent
  <2>1. Observed(e) = 0
    BY <1>3 DEF Observed, None
  <2>2. read[1] = d /\ read[2] = 0
    BY <2>1
  <2>3. p[v + 1][read[1]] = Absent
    BY <1>1, <1>3, <2>2
  <2>4. read[2] = None
    BY <2>2 DEF None
  <2>5. read[1] \in Docs /\ read[2] \in 0 .. v
    BY <1>2, <2>2
  <2> QED
    BY <2>3, <2>4, <2>5 DEF ReadAgrees
<1>4. CASE e.value # Absent
  BY <1>1, <1>2, <1>4 DEF Observed, ReadAgrees, None
<1> QED
  BY <1>3, <1>4

LEMMA ReadsMore ==
    ASSUME NEW x, NEW y, y.read_version = x.read_version, NEW p, ReadsAgree(x, p),
           NEW more, y.read_set = x.read_set \cup more,
           \A read \in more : ReadAgrees(read, x.read_version, p)
    PROVE  ReadsAgree(y, p)
BY DEF ReadsAgree, ReadAgrees

LEMMA QueriesSame ==
    ASSUME NEW x, NEW y, y.read_version = x.read_version, NEW p, QueriesAgree(x, p),
           y.queries = x.queries
    PROVE  QueriesAgree(y, p)
BY DEF QueriesAgree

LEMMA GrowsItself ==
    ASSUME NEW x, Readable(x)
    PROVE  Grows(x, x)
BY DEF Grows

LEMMA RetainedGrows ==
    ASSUME NEW x, IsTransaction(x), x.state = "Active", NEW bytes \in Nat, NEW read_set, NEW queries,
           \A e \in x.queries : e.complete => e \in queries,
           NEW y, y = RetainedAs(x, bytes, read_set, queries)
    PROVE  Grows(x, y)
<1>1. /\ IsTransaction(y) /\ y.state = "Active" /\ y.bytes = x.bytes + bytes
      /\ y.read_set = x.read_set \cup read_set /\ y.queries = queries
      /\ y.read_only = x.read_only /\ y.read_version = x.read_version
      /\ y.waits = x.waits /\ y.deadlock_victim = x.deadlock_victim
      /\ y.snapshot_pending = x.snapshot_pending
  BY RetainedAsIs
<1> QED
  BY <1>1 DEF Grows, Readable

LEMMA ServableVersion ==
    ASSUME NEW s, NEW p, StoreInv(s, p), NEW t \in Ids, Servable(s, t)
    PROVE  /\ s.transactions[t].read_version \in s.compaction_floor .. s.version
           /\ IsTransaction(s.transactions[t]) /\ Readable(s.transactions[t])
BY DEF Servable, StoreInv, Core, Transactions

\* A transaction whose reads are retained.
Keeps(x) == x.state = "Active" /\ ~x.read_only

LEMMA KeptView ==
    ASSUME NEW s, NEW p, NEW shown, NEW done, Views(s, p, shown, done), NEW t \in Ids,
           NEW x, x = s.transactions[t], Keeps(x)
    PROVE  ReadsAgree(x, p) /\ QueriesAgree(x, p)
BY DEF Views, ViewOf, Keeps

(* What an observation says of a state.                                     *)
LEMMA DocumentHolds ==
    ASSUME NEW state, NEW d, NEW value, state[d] = value
    PROVE  Serial!Holds(<<"document", d, value>>, state)
<1>1. PICK o : o = <<"document", d, value>>
  OBVIOUS
<1>2. o[1] = "document" /\ o[2] = d /\ o[3] = value
  BY <1>1
<1>3. Serial!Holds(o, state)
  BY <1>2 DEF Serial!Holds
<1> QED
  BY <1>1, <1>3

LEMMA RowsHold ==
    ASSUME NEW state, NEW q, NEW rows, {d \in Docs : Passes(q, state[d])} = {r[1] : r \in rows},
           \A r \in rows : state[r[1]] = r[2]
    PROVE  Serial!Holds(<<"query", q, rows>>, state)
<1>1. PICK o : o = <<"query", q, rows>>
  OBVIOUS
<1>2. o[1] = "query" /\ o[2] = q /\ o[3] = rows
  BY <1>1
<1>3. Serial!Holds(o, state)
  BY <1>2 DEF Serial!Holds
<1> QED
  BY <1>1, <1>3

(* A document read in a transaction.                                        *)
LEMMA GetServed ==
    ASSUME NEW s, NEW p, StoreInv(s, p), NEW t \in Ids, NEW shown, NEW done, Views(s, p, shown, done),
           Servable(s, t), NEW d \in Docs,
           NEW o, o = get_in_transaction(s, t, d),
           NEW more, more = {ShownDocument(s, t, d)}
    PROVE  Served(s, p, shown, done, t, o, more)
<1>1. PICK x, v : x = s.transactions[t] /\ v = x.read_version
  OBVIOUS
<1>2. v \in s.compaction_floor .. s.version /\ IsTransaction(x) /\ Readable(x)
  BY <1>1, ServableVersion
<1>3. PICK e : e = get_at(s, d, v)
  OBVIOUS
<1>4. e.value = p[v + 1][d]
  BY <1>2, <1>3, EntryIs DEF StoreInv
<1>5. more = {<<"document", d, e.value>>}
  BY <1>1, <1>3 DEF ShownDocument
<1>6. Serial!AllHold(more, p[x.read_version + 1]) /\ \A m \in more : m[1] \in {"document", "query"}
  <2>1. Serial!Holds(<<"document", d, e.value>>, p[v + 1])
    BY <1>4, DocumentHolds
  <2>2. \A m \in more : m = <<"document", d, e.value>> /\ m[1] = "document"
    BY <1>5
  <2> QED
    BY <1>1, <2>1, <2>2 DEF Serial!AllHold
<1>7. o = record_transaction_read(s, t, d, e)
  BY <1>1, <1>3 DEF get_in_transaction
<1>8. ASSUME o.s = s, o.answer = "ok", ~Keeps(x)
      PROVE  Served(s, p, shown, done, t, o, more)
  <2>1. Grows(x, x)
    BY <1>2, GrowsItself
  <2>2. Calm(s, s) /\ FollowsBut(s, s, t)
    BY FollowsItself, FollowsCalm
  <2>3. x.state = "Active" /\ ~x.read_only => ReadsAgree(x, p) /\ QueriesAgree(x, p) /\ Retained(x, more)
    BY <1>8 DEF Keeps
  <2> QED
    BY <1>1, <1>6, <1>8, <2>1, <2>2, <2>3, ServedGrows
<1>9. CASE serves_retried_read(s, t)
  <2>1. o.s = s /\ o.answer = "ok"
    BY <1>7, <1>9 DEF record_transaction_read, Outcome
  <2>2. ~Keeps(x)
    BY <1>1, <1>9 DEF serves_retried_read, Keeps
  <2> QED
    BY <1>8, <2>1, <2>2
<1>10. CASE ~serves_retried_read(s, t) /\ ~Usable(s, t)
  <2>1. o.s = s /\ o.answer = "error"
    BY <1>7, <1>10 DEF record_transaction_read, Outcome
  <2> QED
    BY <2>1, FollowsItself, ServedNot
<1>11. CASE ~serves_retried_read(s, t) /\ Usable(s, t) /\ x.read_only
  <2>1. o.s = s /\ o.answer = "ok"
    BY <1>1, <1>7, <1>11 DEF record_transaction_read, Outcome
  <2> QED
    BY <1>8, <1>11, <2>1 DEF Keeps
<1>12. CASE ~serves_retried_read(s, t) /\ Usable(s, t) /\ ~x.read_only
  <2>1. PICK bytes \in Nat : bytes = IF d \in ReadPaths(x) THEN 0 ELSE 1
    OBVIOUS
  <2>2. PICK reads : reads = {<<d, Observed(e)>>}
    OBVIOUS
  <2>3. o = Retain(s, t, bytes, reads, x.queries)
    BY <1>1, <1>7, <1>12, <2>1, <2>2 DEF record_transaction_read
  <2>4. PICK y : y = RetainedAs(x, bytes, reads, x.queries)
    OBVIOUS
  <2>5. t \in ActiveOf(s) /\ x.state = "Active" /\ Keeps(x)
    BY <1>1, <1>12 DEF Usable, Active, ActiveOf, Keeps
  <2>6. Charges(s, p, t, y, o)
    BY <1>1, <2>1, <2>3, <2>4, <2>5, RetainIs
  <2>7. CASE o.answer # "ok" /\ StoreInv(o.s, p) /\ Follows(s, o.s)
    BY <2>7, ServedNot
  <2>8. CASE /\ o.answer = "ok" /\ StoreInv(o.s, p) /\ FollowsBut(s, o.s, t) /\ Calm(s, o.s)
             /\ o.s.transactions[t] = y
    <3>1. Grows(x, y)
      BY <1>2, <2>1, <2>4, <2>5, RetainedGrows
    <3>2. y.read_set = x.read_set \cup reads /\ y.queries = x.queries /\ y.read_version = x.read_version
      BY <1>2, <2>1, <2>4, <2>5, RetainedAsIs
    <3>3. ReadsAgree(x, p) /\ QueriesAgree(x, p)
      BY <1>1, <2>5, KeptView
    <3>4. \A read \in reads : ReadAgrees(read, x.read_version, p)
      BY <1>1, <1>2, <1>3, <2>2, ObservedAgrees DEF StoreInv
    <3>5. ReadsAgree(y, p)
      BY <3>2, <3>3, <3>4, ReadsMore
    <3>6. QueriesAgree(y, p)
      BY <3>2, <3>3, QueriesSame
    <3>7. Retained(y, more)
      <4>1. <<d, Observed(e)>> \in y.read_set
        BY <2>2, <3>2
      <4>2. d \in ReadPaths(y)
        BY <4>1 DEF ReadPaths
      <4> QED
        BY <1>5, <4>2 DEF Retained
    <3> QED
      BY <1>1, <1>6, <2>8, <3>1, <3>5, <3>6, <3>7, ServedGrows
  <2> QED
    BY <2>6, <2>7, <2>8 DEF Charges
<1> QED
  BY <1>9, <1>10, <1>11, <1>12

-----------------------------------------------------------------------------
(* The rows of a query at a retained version.                               *)
LEMMA RowsAre ==
    ASSUME NEW s, NEW p, History(s, p), NEW v \in s.compaction_floor .. s.version, NEW q,
           NEW rows, rows = run_query(s, q, v)
    PROVE  /\ RowsAgree(rows, q, p[v + 1], p)
           /\ \A r \in rows : ReadAgrees(r, v, p)
           /\ IsFiniteSet(rows)
<1>1. PICK D : D = {x \in Docs : Passes(q, get_at(s, x, v).value)}
  OBVIOUS
<1>2. rows = {<<d, get_at(s, d, v).version>> : d \in D}
  BY <1>1 DEF run_query
<1>3. \A d \in Docs : get_at(s, d, v).value = p[v + 1][d]
  BY EntryIs
<1>4. D = {d \in Docs : Passes(q, p[v + 1][d])}
  BY <1>1, <1>3
<1>5. {r[1] : r \in rows} = D
  <2>1. \A r \in rows : r[1] \in D
    BY <1>2
  <2>2. \A d \in D : \E r \in rows : r[1] = d
    <3> TAKE d \in D
    <3>1. <<d, get_at(s, d, v).version>> \in rows
      BY <1>2
    <3> QED
      BY <3>1
  <2> QED
    BY <2>1, <2>2
<1>6. ASSUME NEW r \in rows
      PROVE  /\ r[2] + 1 \in DOMAIN p /\ p[r[2] + 1][r[1]] = p[v + 1][r[1]]
             /\ ReadAgrees(r, v, p)
  <2>1. PICK d \in D : r = <<d, get_at(s, d, v).version>>
    BY <1>2
  <2>2. PICK e : e = get_at(s, d, v)
    OBVIOUS
  <2>3. d \in Docs /\ e.value # Absent
    BY <1>1, <2>1, <2>2 DEF Passes
  <2>4. /\ e.value = p[v + 1][d]
        /\ e.version \in 1 .. v /\ e.version + 1 \in DOMAIN p /\ p[e.version + 1][d] = e.value
    BY <2>2, <2>3, EntryIs
  <2>5. r[1] = d /\ r[2] = e.version
    BY <2>1, <2>2
  <2>6. Observed(e) = e.version
    BY <2>3 DEF Observed
  <2>7. r = <<d, Observed(e)>>
    BY <2>1, <2>2, <2>6
  <2>8. ReadAgrees(r, v, p)
    BY <2>2, <2>3, <2>7, ObservedAgrees
  <2> QED
    BY <2>4, <2>5, <2>8
<1>7. IsFiniteSet(rows)
  <2>1. IsFiniteSet(D)
    BY <1>1, StoreAssumption, FS_Subset
  <2>2. PICK f : f = [d \in D |-> <<d, get_at(s, d, v).version>>]
    OBVIOUS
  <2>3. f \in Surjection(D, rows)
    BY <1>2, <2>2 DEF Surjection
  <2> QED
    BY <2>1, <2>3, FS_Surjection
<1> QED
  BY <1>4, <1>5, <1>6, <1>7 DEF RowsAgree

\* The entry of a query agrees with the state of the snapshot v.
QueryAgrees(e, v, p) ==
    /\ e = [query |-> e.query, rows |-> e.rows, complete |-> e.complete]
    /\ RowsAgree(e.rows, e.query, p[v + 1], p)

LEMMA QueriesMore ==
    ASSUME NEW x, NEW y, y.read_version = x.read_version, NEW p, QueriesAgree(x, p),
           NEW e, y.queries \subseteq x.queries \cup {e}, QueryAgrees(e, x.read_version, p)
    PROVE  QueriesAgree(y, p)
BY DEF QueriesAgree, QueryAgrees

\* What a query shows, in the words of the observations.
RowsShown(D, state) == {<<d, state[d]>> : d \in D}
QueryShown(q, D, state, complete) ==
    RowDocuments(RowsShown(D, state)) \cup
        (IF complete THEN {<<"query", q, RowsShown(D, state)>>} ELSE {})

LEMMA QueryShownHolds ==
    ASSUME NEW q, NEW state, NEW D, D = {d \in Docs : Passes(q, state[d])}, NEW complete,
           NEW more, more = QueryShown(q, D, state, complete)
    PROVE  /\ \A m \in more : Serial!Holds(m, state)
           /\ \A m \in more : m[1] \in {"document", "query"}
           /\ \A m \in more : m[1] = "document" => m[2] \in D
           /\ \A m \in more : m[1] = "query" => m[2] = q /\ complete
<1>1. PICK R : R = RowsShown(D, state)
  OBVIOUS
<1>2. \A m \in more : \/ \E d \in D : m = <<"document", d, state[d]>>
                      \/ complete /\ m = <<"query", q, R>>
  BY <1>1 DEF QueryShown, RowDocuments, RowsShown
<1>3. \A d \in D : Serial!Holds(<<"document", d, state[d]>>, state)
  BY DocumentHolds
<1>4. Serial!Holds(<<"query", q, R>>, state)
  <2>1. \A r \in R : r[1] \in D /\ state[r[1]] = r[2]
    BY <1>1 DEF RowsShown
  <2>2. \A d \in D : \E r \in R : r[1] = d
    <3> TAKE d \in D
    <3>1. <<d, state[d]>> \in R
      BY <1>1 DEF RowsShown
    <3> QED
      BY <3>1
  <2>3. {r[1] : r \in R} = D
    BY <2>1, <2>2
  <2> QED
    BY <2>1, <2>3, RowsHold
<1>5. \A m \in more : Serial!Holds(m, state)
  BY <1>2, <1>3, <1>4
<1>6. \A m \in more : \/ \E d \in D : m[1] = "document" /\ m[2] = d
                      \/ complete /\ m[1] = "query" /\ m[2] = q
  BY <1>2
<1> QED
  BY <1>5, <1>6

(* A query in a transaction.                                                *)
LEMMA QueryServed ==
    ASSUME NEW s, NEW p, StoreInv(s, p), NEW t \in Ids, NEW shown, NEW done, Views(s, p, shown, done),
           Servable(s, t), NEW q, NEW complete, Flag(complete),
           NEW o, o = record_transaction_query_observation(s, t, q, complete),
           NEW D, D = {d \in Docs : Passes(q, p[s.transactions[t].read_version + 1][d])},
           NEW more, more = QueryShown(q, D, p[s.transactions[t].read_version + 1], complete)
    PROVE  Served(s, p, shown, done, t, o, more)
<1>1. PICK x, v : x = s.transactions[t] /\ v = x.read_version
  OBVIOUS
<1>2. v \in s.compaction_floor .. s.version /\ IsTransaction(x) /\ Readable(x)
  BY <1>1, ServableVersion
<1>3. PICK rows : rows = IF x.read_only THEN {} ELSE run_query(s, q, v)
  OBVIOUS
<1>4. IsFiniteSet(rows) /\ \A r \in rows : ReadAgrees(r, v, p)
  <2>1. PICK all : all = run_query(s, q, v)
    OBVIOUS
  <2>2. IsFiniteSet(all) /\ \A r \in all : ReadAgrees(r, v, p)
    BY <1>2, <2>1, RowsAre DEF StoreInv
  <2>3. rows = {} \/ rows = all
    BY <1>3, <2>1
  <2> QED
    BY <2>2, <2>3, FS_EmptySet
<1>5. PICK new : new = {r \in rows : r[1] \notin ReadPaths(x)}
  OBVIOUS
<1>6. IsFiniteSet(new) /\ Cardinality(new) \in Nat
  BY <1>4, <1>5, FS_Subset, FS_CardinalityType
<1>7. PICK bytes \in Nat : bytes = 1 + Cardinality(new)
  BY <1>6
<1>8. PICK e : e = [query |-> q, rows |-> rows, complete |-> complete]
  OBVIOUS
<1>9. o = IF ~Usable(s, t) THEN Outcome(s, "error")
          ELSE Retain(s, t, bytes, rows, x.queries \cup {e})
  BY <1>1, <1>3, <1>5, <1>7, <1>8 DEF record_transaction_query_observation
<1>10. CASE ~Usable(s, t)
  <2>1. o.s = s /\ o.answer # "ok"
    BY <1>9, <1>10 DEF Outcome
  <2> QED
    BY <2>1, FollowsItself, ServedNot
<1>11. CASE Usable(s, t)
  <2>1. PICK queries : queries = x.queries \cup {e}
    OBVIOUS
  <2>2. PICK y : y = RetainedAs(x, bytes, rows, queries)
    OBVIOUS
  <2>3. t \in ActiveOf(s) /\ x.state = "Active"
    BY <1>1, <1>11 DEF Usable, Active, ActiveOf
  <2>4. o = Retain(s, t, bytes, rows, queries)
    BY <1>9, <1>11, <2>1
  <2>5. Charges(s, p, t, y, o)
    BY <1>1, <2>2, <2>3, <2>4, RetainIs
  <2>6. CASE o.answer # "ok" /\ StoreInv(o.s, p) /\ Follows(s, o.s)
    BY <2>6, ServedNot
  <2>7. CASE /\ o.answer = "ok" /\ StoreInv(o.s, p) /\ FollowsBut(s, o.s, t) /\ Calm(s, o.s)
             /\ o.s.transactions[t] = y
    <3>1. \A f \in x.queries : f.complete => f \in queries
      BY <2>1
    <3>2. Grows(x, y)
      BY <1>2, <2>2, <2>3, <3>1, RetainedGrows
    <3>3. /\ y.read_set = x.read_set \cup rows /\ y.queries = queries
          /\ y.read_version = x.read_version /\ y.read_only = x.read_only
      BY <1>2, <2>2, <2>3, RetainedAsIs
    <3>4. PICK state : state = p[v + 1]
      OBVIOUS
    <3>5. /\ Serial!AllHold(more, p[x.read_version + 1])
          /\ \A m \in more : m[1] \in {"document", "query"}
          /\ \A m \in more : m[1] = "document" => m[2] \in D
          /\ \A m \in more : m[1] = "query" => m[2] = q /\ complete
      <4>1. more = QueryShown(q, D, state, complete) /\ D = {d \in Docs : Passes(q, state[d])}
        BY <1>1, <3>4
      <4>2. Serial!AllHold(more, state)
        <5>1. \A m \in more : Serial!Holds(m, state)
          BY <4>1, QueryShownHolds
        <5> QED
          BY <5>1 DEF Serial!AllHold
      <4>3. \A m \in more : m[1] \in {"document", "query"} /\ (m[1] = "document" => m[2] \in D)
        BY <4>1, QueryShownHolds
      <4>4. \A m \in more : m[1] = "query" => m[2] = q /\ complete
        BY <4>1, QueryShownHolds
      <4> QED
        BY <1>1, <3>4, <4>2, <4>3, <4>4
    <3>6. ASSUME y.state = "Active" /\ ~y.read_only
          PROVE  ReadsAgree(y, p) /\ QueriesAgree(y, p) /\ Retained(y, more)
      <4>1. Keeps(x) /\ ~x.read_only
        BY <2>3, <3>3, <3>6 DEF Keeps
      <4>2. ReadsAgree(x, p) /\ QueriesAgree(x, p)
        BY <1>1, <4>1, KeptView
      <4>3. ReadsAgree(y, p)
        BY <1>1, <1>4, <3>3, <4>2, ReadsMore
      <4>4. rows = run_query(s, q, v)
        BY <1>3, <4>1
      <4>5. RowsAgree(rows, q, p[v + 1], p)
        BY <1>2, <4>4, RowsAre DEF StoreInv
      <4>6. QueryAgrees(e, v, p)
        BY <1>8, <4>5 DEF QueryAgrees
      <4>7. QueriesAgree(y, p)
        BY <1>1, <2>1, <3>3, <4>2, <4>6, QueriesMore
      <4>8. \A d \in D : d \in ReadPaths(y)
        <5>1. {r[1] : r \in rows} = D
          BY <1>1, <4>5 DEF RowsAgree
        <5> QED
          BY <3>3, <5>1 DEF ReadPaths
      <4>9. complete => e \in y.queries /\ e.complete /\ e.query = q
        BY <1>8, <2>1, <3>3
      <4>10. Retained(y, more)
        BY <3>5, <4>8, <4>9 DEF Retained
      <4> QED
        BY <4>3, <4>7, <4>10
    <3> QED
      BY <1>1, <2>7, <3>2, <3>5, <3>6, ServedGrows
  <2> QED
    BY <2>5, <2>6, <2>7 DEF Charges
<1> QED
  BY <1>10, <1>11

-----------------------------------------------------------------------------
(* The end of a query's stream, and the compaction that follows it.         *)
RowsThen(rows, p) == {<<r[1], p[r[2] + 1][r[1]]>> : r \in rows}

LEMMA RowsThenHold ==
    ASSUME NEW p, NEW q, NEW rows, NEW state, RowsAgree(rows, q, state, p)
    PROVE  Serial!Holds(<<"query", q, RowsThen(rows, p)>>, state)
<1>1. PICK R : R = RowsThen(rows, p)
  OBVIOUS
<1>2. {r[1] : r \in rows} = {d \in Docs : Passes(q, state[d])}
  BY DEF RowsAgree
<1>3. \A r \in rows : <<r[1], p[r[2] + 1][r[1]]>> \in R
  BY <1>1 DEF RowsThen
<1>4. \A m \in R : \E r \in rows : m[1] = r[1] /\ m[2] = p[r[2] + 1][r[1]]
  BY <1>1 DEF RowsThen
<1>5. \A m \in R : state[m[1]] = m[2]
  BY <1>4 DEF RowsAgree
<1>6. {m[1] : m \in R} = {r[1] : r \in rows}
  <2>1. \A m \in R : m[1] \in {r[1] : r \in rows}
    BY <1>4
  <2>2. \A r \in rows : r[1] \in {m[1] : m \in R}
    <3> TAKE r \in rows
    <3>1. PICK m \in R : m = <<r[1], p[r[2] + 1][r[1]]>>
      BY <1>3
    <3>2. m[1] = r[1]
      BY <3>1
    <3> QED
      BY <3>2
  <2> QED
    BY <2>1, <2>2
<1> QED
  BY <1>1, <1>2, <1>5, <1>6, RowsHold

FinishedAs(x, entry) ==
    [x EXCEPT !.queries = (@ \ {entry}) \cup {[entry EXCEPT !.complete = TRUE]}]

LEMMA FinishedAsIs ==
    ASSUME NEW x, IsTransaction(x), NEW entry, NEW y, y = FinishedAs(x, entry)
    PROVE  /\ Unindexed(x, y)
           /\ y.queries = (x.queries \ {entry}) \cup {[entry EXCEPT !.complete = TRUE]}
           /\ y.read_set = x.read_set /\ y.state = x.state /\ y.read_only = x.read_only
           /\ y.read_version = x.read_version /\ y.snapshot_pending = x.snapshot_pending
           /\ y.waits = x.waits /\ y.deadlock_victim = x.deadlock_victim
<1>1. /\ y = [f \in TransactionFields |-> y[f]]
      /\ y.state = x.state /\ y.waits = x.waits /\ y.bytes = x.bytes
      /\ y.read_set = x.read_set
      /\ y.queries = (x.queries \ {entry}) \cup {[entry EXCEPT !.complete = TRUE]}
      /\ y.read_only = x.read_only /\ y.read_version = x.read_version
      /\ y.started_at = x.started_at /\ y.last_activity = x.last_activity
      /\ y.deadlock_victim = x.deadlock_victim /\ y.lifetime_expired = x.lifetime_expired
      /\ y.snapshot_pending = x.snapshot_pending /\ y.retried_while_live = x.retried_while_live
  BY DEF FinishedAs, IsTransaction, TransactionFields
<1>2. IsTransaction(y)
  BY <1>1 DEF IsTransaction
<1> QED
  BY <1>1, <1>2 DEF Unindexed

FinishShown(x, entry, p) ==
    IF x.read_only THEN {} ELSE {<<"query", entry.query, RowsThen(entry.rows, p)>>}

LEMMA FinishServed ==
    ASSUME NEW s, NEW p, StoreInv(s, p), NEW t \in Ids, NEW shown, NEW done, Views(s, p, shown, done),
           NEW entry, entry \in s.transactions[t].queries, ~entry.complete,
           NEW o, o = finish_transaction_query_execution(s, t, entry),
           NEW more, more = FinishShown(s.transactions[t], entry, p)
    PROVE  Served(s, p, shown, done, t, o, more)
<1>0. PICK x : x = s.transactions[t]
  OBVIOUS
<1>1. CASE ~Usable(s, t)
  <2>1. o.s = s /\ o.answer # "ok"
    BY <1>1 DEF finish_transaction_query_execution, Outcome
  <2> QED
    BY <2>1, FollowsItself, ServedNot
<1>2. CASE Usable(s, t)
  <2>1. PICK y : y = FinishedAs(x, entry)
    OBVIOUS
  <2>2. PICK r : r = WithOne(s, t, y)
    OBVIOUS
  <2>3. o.s = r /\ o.answer = "ok"
    BY <1>0, <1>2, <2>1, <2>2
       DEF finish_transaction_query_execution, Outcome, WithOne, WithTransactions, FinishedAs
  <2>4. IsTransaction(x) /\ x.state = "Active" /\ Readable(x)
    BY <1>0, <1>2 DEF Usable, Active, Readable, StoreInv, Core, Transactions
  <2>5. PICK e : e = [entry EXCEPT !.complete = TRUE]
    OBVIOUS
  <2>6. /\ Unindexed(x, y)
        /\ y.queries = (x.queries \ {entry}) \cup {e}
        /\ y.read_set = x.read_set /\ y.state = x.state /\ y.read_only = x.read_only
        /\ y.read_version = x.read_version /\ y.snapshot_pending = x.snapshot_pending
        /\ y.waits = x.waits /\ y.deadlock_victim = x.deadlock_victim
    BY <2>1, <2>4, <2>5, FinishedAsIs
  <2>7. x # NoTransaction
    BY <2>4, NothingIs
  <2>8. /\ Core(r) /\ SameHistory(s, r) /\ Bounded(r)
        /\ ActiveOf(r) = ActiveOf(s) /\ r.next_transaction = s.next_transaction
        /\ r.transactions[t] = y
        /\ \A u \in Ids \ {t} : r.transactions[u] = s.transactions[u]
    BY <1>0, <2>2, <2>6, <2>7, UnindexedOne DEF StoreInv
  <2>9. r.version = s.version /\ r.compaction_floor = s.compaction_floor /\ r.capacity_floor = s.capacity_floor
        /\ r.scope = s.scope
    BY <2>8 DEF SameHistory
  <2>10. \A u \in Ids : r.transactions[u].state = s.transactions[u].state
                        /\ r.transactions[u].read_version = s.transactions[u].read_version
    BY <1>0, <2>6, <2>8
  <2>11. SnapshotsKept(r)
    BY <2>8, <2>9, <2>10, ListsAre DEF StoreInv, SnapshotsKept
  <2>12. StoreInv(r, p)
    BY <2>8, <2>11, HistorySame DEF StoreInv
  <2>13. FollowsBut(s, r, t)
    BY <2>8, <2>9, AgesItself DEF FollowsBut
  <2>14. Calm(s, r)
    BY <1>0, <2>6, <2>8 DEF Calm
  <2>15. Grows(x, y)
    BY <2>4, <2>6 DEF Grows, Readable
  <2>16. CASE x.read_only
    <3>1. more = {}
      BY <1>0, <2>16 DEF FinishShown
    <3>2. Serial!AllHold(more, p[x.read_version + 1])
      BY <3>1 DEF Serial!AllHold
    <3>3. y.state = "Active" /\ ~y.read_only =>
              ~x.snapshot_pending /\ ReadsAgree(y, p) /\ QueriesAgree(y, p) /\ Retained(y, more)
      BY <2>6, <2>16
    <3>4. (x.snapshot_pending => more = {}) /\ \A m \in more : m[1] \in {"document", "query"}
      BY <3>1
    <3> QED
      BY <1>0, <2>3, <2>4, <2>8, <2>12, <2>13, <2>14, <2>15, <3>2, <3>3, <3>4, ServedMore
  <2>17. CASE ~x.read_only
    <3>1. PICK m : m = <<"query", entry.query, RowsThen(entry.rows, p)>>
      OBVIOUS
    <3>2. more = {m} /\ m[1] = "query" /\ m[2] = entry.query
      BY <1>0, <2>17, <3>1 DEF FinishShown
    <3>3. Keeps(x)
      BY <2>4, <2>17 DEF Keeps
    <3>4. ReadsAgree(x, p) /\ QueriesAgree(x, p)
      BY <1>0, <3>3, KeptView
    <3>5. ~x.snapshot_pending
      BY <1>0, <3>3 DEF Views, ViewOf, Keeps
    <3>6. PICK v : v = x.read_version
      OBVIOUS
    <3>7. QueryAgrees(entry, v, p)
      BY <1>0, <3>4, <3>6 DEF QueriesAgree, QueryAgrees
    <3>8. e = [query |-> entry.query, rows |-> entry.rows, complete |-> TRUE]
      BY <2>5, <3>7 DEF QueryAgrees
    <3>9. QueryAgrees(e, v, p)
      BY <3>7, <3>8 DEF QueryAgrees
    <3>10. QueriesAgree(y, p)
      BY <2>6, <3>4, <3>6, <3>9, QueriesMore
    <3>11. ReadsAgree(y, p)
      BY <2>6, <3>4 DEF ReadsAgree
    <3>12. Retained(y, more)
      <4>1. e \in y.queries /\ e.complete /\ e.query = entry.query
        BY <2>6, <3>8
      <4> QED
        BY <3>2, <4>1 DEF Retained
    <3>13. Serial!Holds(m, p[v + 1])
      BY <3>1, <3>7, RowsThenHold DEF QueryAgrees
    <3>14. Serial!AllHold(more, p[x.read_version + 1])
      BY <3>2, <3>6, <3>13 DEF Serial!AllHold
    <3>15. \A k \in more : k[1] \in {"document", "query"}
      BY <3>2
    <3> QED
      BY <1>0, <2>3, <2>4, <2>8, <2>12, <2>13, <2>14, <2>15, <3>5, <3>10, <3>11, <3>12,
         <3>14, <3>15, ServedMore
  <2> QED
    BY <2>16, <2>17
<1> QED
  BY <1>1, <1>2

-----------------------------------------------------------------------------
(* A new transaction has been shown nothing.                                *)
LEMMA BeginViews ==
    ASSUME NEW s, NEW p, StoreInv(s, p), NEW shown, NEW done, Views(s, p, shown, done),
           NEW b, Begins(s, p, b)
    PROVE  Views(b.s, p, shown, done)
<1>1. CASE b.id = None
  BY <1>1, ViewsFollow DEF Begins
<1>2. CASE b.id # None
  <2>1. PICK t : t = b.id
    OBVIOUS
  <2>2. PICK r : r = b.s
    OBVIOUS
  <2>3. /\ t \in Ids /\ t = s.next_transaction + 1 /\ r.next_transaction = t
        /\ Unused(r.transactions[t])
        /\ \A u \in Ids \ {t} : Ages(s.transactions[u], r.transactions[u])
    BY <1>2, <2>1, <2>2 DEF Begins
  <2>4. s.next_transaction \in Nat /\ Ids \subseteq Nat
    BY StoreAssumption DEF StoreInv, Core, Transactions
  <2>5. shown[t] = {}
    BY <2>3, <2>4 DEF Views
  <2>6. ViewOf(r.transactions[t], p, shown[t])
    BY <2>3, <2>5 DEF ViewOf, Unused, ReadsAgree, QueriesAgree, Retained, Serial!AllHold
  <2>7. \A u \in Ids : ViewOf(r.transactions[u], p, shown[u])
    BY <2>3, <2>6, ViewAges DEF Views
  <2>8. \A u \in done : u <= r.next_transaction /\ ~Readable(r.transactions[u])
    <3> TAKE u \in done
    <3>1. u \in Ids /\ u <= s.next_transaction /\ ~Readable(s.transactions[u])
      BY DEF Views
    <3>2. u # t /\ u <= r.next_transaction
      BY <2>3, <2>4, <3>1
    <3> QED
      BY <2>3, <3>1, <3>2 DEF Ages
  <2>9. \A u \in Ids : u > r.next_transaction => shown[u] = {}
    BY <2>3, <2>4 DEF Views
  <2>10. Views(r, p, shown, done)
    BY <2>7, <2>8, <2>9 DEF Views
  <2> QED
    BY <2>2, <2>10
<1> QED
  BY <1>1, <1>2

\* What an operation on t does to the rest.
Quiet(s, p, t, r) == StoreInv(r, p) /\ Calm(s, r) /\ FollowsBut(s, r, t)

LEMMA QuietFollows ==
    ASSUME NEW s, NEW p, NEW t, NEW r, StoreInv(r, p), Follows(s, r)
    PROVE  Quiet(s, p, t, r)
BY FollowsCalm DEF Quiet

LEMMA QuietFurther ==
    ASSUME NEW s, NEW p, NEW t, NEW r, NEW u, Quiet(s, p, t, r), Quiet(r, p, t, u)
    PROVE  Quiet(s, p, t, u)
BY CalmFurther, FollowsButFurther DEF Quiet

LEMMA GetQuiet ==
    ASSUME NEW s, NEW p, StoreInv(s, p), NEW t \in Ids, NEW d, NEW o, o = get_in_transaction(s, t, d)
    PROVE  Quiet(s, p, t, o.s)
<1>1. PICK x : x = s.transactions[t]
  OBVIOUS
<1>2. PICK e : e = get_at(s, d, x.read_version)
  OBVIOUS
<1>3. o = record_transaction_read(s, t, d, e)
  BY <1>1, <1>2 DEF get_in_transaction
<1>4. PICK bytes \in Nat : bytes = IF d \in ReadPaths(x) THEN 0 ELSE 1
  OBVIOUS
<1>5. PICK reads : reads = {<<d, Observed(e)>>}
  OBVIOUS
<1>6. o.s = s \/ (t \in ActiveOf(s) /\ o = Retain(s, t, bytes, reads, x.queries))
  BY <1>1, <1>3, <1>4, <1>5 DEF record_transaction_read, Outcome, Usable, Active, ActiveOf
<1>7. CASE o.s = s
  BY <1>7, FollowsItself, QuietFollows
<1>8. CASE t \in ActiveOf(s) /\ o = Retain(s, t, bytes, reads, x.queries)
  <2>1. PICK queries, y : queries = x.queries /\ y = RetainedAs(x, bytes, reads, queries)
    OBVIOUS
  <2>2. Charges(s, p, t, y, o)
    BY <1>1, <1>8, <2>1, RetainIs
  <2> QED
    BY <2>2, QuietFollows DEF Charges, Quiet
<1> QED
  BY <1>6, <1>7, <1>8

(* A refused read takes its new transaction with it.                        *)
LEMMA AbandonStore ==
    ASSUME NEW s, NEW p, NEW t \in Ids, NEW shown, NEW done, Views(s, p, shown, done),
           NEW g, Quiet(s, p, t, g), NEW r, r = abandon_transaction(g, t)
    PROVE  Undisturbed(s, p, shown, done, t, r)
<1>1. /\ Core(r) /\ Bounded(r) /\ Follows(g, r) /\ SameHistory(g, r)
      /\ r.transactions[t] = NoTransaction
  BY AbandonIs DEF Quiet, StoreInv
<1>2. StoreInv(r, p)
  BY <1>1, Carried DEF Quiet
<1>3. Quiet(g, p, t, r)
  BY <1>1, <1>2, QuietFollows
<1>4. Quiet(s, p, t, r)
  BY <1>3, QuietFurther
<1>5. ~Readable(NoTransaction) /\ NoTransaction.state # "Active"
  BY DEF Readable, NoTransaction
<1>6. PICK o : o = shown[t]
  OBVIOUS
<1>7. ViewOf(r.transactions[t], p, o)
  BY <1>1, <1>5 DEF ViewOf
<1>8. shown = [shown EXCEPT ![t] = o]
  BY <1>6 DEF Views
<1>9. \A m \in o : m[1] \in {"document", "query"}
  BY <1>6 DEF Views
<1>10. t > s.next_transaction => o = {}
  BY <1>6 DEF Views
<1>11. t \in done => ~Readable(r.transactions[t])
  BY <1>1, <1>5
<1>12. FollowsBut(s, r, t)
  BY <1>4 DEF Quiet
<1>13. Views(r, p, shown, done)
  BY <1>7, <1>8, <1>9, <1>10, <1>11, <1>12, ViewsBut
<1> QED
  BY <1>4, <1>13 DEF Undisturbed, Quiet

-----------------------------------------------------------------------------
(* Rolling back.                                                            *)

LEMMA RollbackStore ==
    ASSUME NEW s, NEW p, StoreInv(s, p), NEW t \in Ids, NEW at \in Nat,
           NEW o, o = rollback_at(s, t, at)
    PROVE  StoreInv(o.s, p) /\ Follows(s, o.s)
<1>1. PICK u : u = IF s.scope # "Production" THEN s
                   ELSE IF Active(s, t) /\ at >= transaction_lineage_deadline(s.transactions[t])
                   THEN prune_transactions(s, at)
                   ELSE forget_elapsed_finished_transactions(s, at)
  OBVIOUS
<1>2. StoreInv(u, p) /\ Follows(s, u)
  <2>1. CASE u = s
    BY <2>1, FollowsItself
  <2>2. CASE u = prune_transactions(s, at)
    BY <2>2, PruneStore
  <2>3. CASE u = forget_elapsed_finished_transactions(s, at)
    <3>1. Core(u) /\ Bounded(u) /\ Follows(s, u) /\ SameHistory(s, u)
      BY <2>3, ForgetIs DEF StoreInv
    <3> QED
      BY <3>1, Carried
  <2> QED
    BY <1>1, <2>1, <2>2, <2>3
<1>3. o = RollbackRemembered(u, t, at)
  BY <1>1 DEF rollback_at
<1>4. PICK w : w = EndActive(u, {t}, "RolledBack")
  OBVIOUS
<1>5. o.s = u \/ (t \in ActiveOf(u) /\ o.s = w)
  BY <1>3, <1>4 DEF RollbackRemembered, rollback, Outcome, Usable, Active, ActiveOf
<1>6. CASE o.s = u
  BY <1>2, <1>6
<1>7. CASE t \in ActiveOf(u) /\ o.s = w
  <2>1. PICK ending, state : ending = {t} /\ state = "RolledBack"
    OBVIOUS
  <2>2. EndState(u, state) /\ ending \subseteq ActiveOf(u)
    BY <1>7, <2>1 DEF EndState
  <2>3. StoreInv(w, p) /\ Follows(u, w)
    BY <1>2, <1>4, <2>1, <2>2, EndActiveStore
  <2> QED
    BY <1>2, <1>7, <2>3, FollowsFurther
<1> QED
  BY <1>5, <1>6, <1>7

(* The compaction after what ended well.                                    *)
LEMMA CompactedStore ==
    ASSUME NEW o, NEW p, StoreInv(o.s, p), now \in Nat, NEW r, r = Compacted(o)
    PROVE  StoreInv(r.s, p) /\ Follows(o.s, r.s) /\ r.answer = o.answer
<1>1. CASE o.answer = "ok"
  <2>1. PICK u, w : u = o.s /\ w = compact(u, now)
    OBVIOUS
  <2>2. StoreInv(w, p) /\ Follows(u, w)
    BY <2>1, CompactStore
  <2>3. r.s = w /\ r.answer = "ok"
    BY <1>1, <2>1 DEF Compacted, Outcome
  <2> QED
    BY <1>1, <2>1, <2>2, <2>3
<1>2. CASE o.answer # "ok"
  <2>1. r = o
    BY <1>2 DEF Compacted
  <2> QED
    BY <2>1, FollowsItself
<1> QED
  BY <1>1, <1>2

-----------------------------------------------------------------------------
(* Committing: what an attempt does to the transactions.                    *)

\* Ages, for one that may be sacrificed or start to wait.
Wanes(x, y) ==
    /\ y.state # "Unknown" =>
          /\ x.state # "Unknown"
          /\ y.read_only = x.read_only /\ y.read_version = x.read_version
          /\ y.started_at = x.started_at /\ y.snapshot_pending = x.snapshot_pending
    /\ y.state = "Active" => x.state = "Active" /\ y.read_set = x.read_set /\ y.queries = x.queries
    /\ Readable(y) => Readable(x)

Endures(s, r) ==
    /\ r.scope = s.scope /\ r.version = s.version /\ r.next_transaction = s.next_transaction
    /\ \A t \in Ids : Wanes(s.transactions[t], r.transactions[t])

LEMMA WanesItself ==
    ASSUME NEW x
    PROVE  Wanes(x, x)
BY DEF Wanes

LEMMA WanesFurther ==
    ASSUME NEW x, NEW y, NEW z, Wanes(x, y), Wanes(y, z)
    PROVE  Wanes(x, z)
BY DEF Wanes

LEMMA EnduresFurther ==
    ASSUME NEW s, NEW r, NEW u, Endures(s, r), Endures(r, u)
    PROVE  Endures(s, u)
BY WanesFurther DEF Endures

LEMMA FollowsEndures ==
    ASSUME NEW s, NEW r, Follows(s, r)
    PROVE  Endures(s, r)
BY DEF Follows, Endures, Ages, Wanes

LEMMA ViewWanes ==
    ASSUME NEW x, NEW y, Wanes(x, y), NEW p, NEW o, ViewOf(x, p, o)
    PROVE  ViewOf(y, p, o)
<1>1. Readable(y) => /\ Readable(x) /\ y.read_version = x.read_version
                     /\ y.snapshot_pending = x.snapshot_pending
  BY DEF Wanes, Readable
<1>2. y.state = "Active" => /\ x.state = "Active" /\ y.read_set = x.read_set /\ y.queries = x.queries
                            /\ y.read_only = x.read_only /\ y.read_version = x.read_version
                            /\ y.snapshot_pending = x.snapshot_pending
  BY DEF Wanes
<1>3. Readable(y) => /\ y.snapshot_pending => o = {}
                     /\ Serial!AllHold(o, p[y.read_version + 1])
  BY <1>1 DEF ViewOf
<1>4. y.state = "Active" /\ ~y.read_only =>
          /\ y.snapshot_pending => y.read_set = {} /\ y.queries = {}
          /\ ReadsAgree(y, p) /\ QueriesAgree(y, p) /\ Retained(y, o)
  BY <1>2 DEF ViewOf, ReadsAgree, QueriesAgree, Retained, ReadPaths
<1> QED
  BY <1>3, <1>4 DEF ViewOf

LEMMA ViewsEndure ==
    ASSUME NEW s, NEW r, Endures(s, r), NEW p, NEW shown, NEW done, Views(s, p, shown, done)
    PROVE  Views(r, p, shown, done)
<1>1. \A t \in Ids : ViewOf(r.transactions[t], p, shown[t])
  BY ViewWanes DEF Endures, Views
<1>2. \A t \in done : t <= r.next_transaction /\ ~Readable(r.transactions[t])
  BY DEF Endures, Views, Wanes
<1> QED
  BY <1>1, <1>2 DEF Endures, Views

LEMMA SnapshotsEndure ==
    ASSUME NEW s, NEW p, StoreInv(s, p), NEW r, Core(r), Bounded(r), Endures(s, r), SameHistory(s, r)
    PROVE  StoreInv(r, p)
<1>1. History(r, p)
  BY HistorySame DEF StoreInv
<1>2. r.version = s.version /\ r.compaction_floor = s.compaction_floor /\ r.capacity_floor = s.capacity_floor
  BY DEF SameHistory
<1>3. \A t \in Ids : r.transactions[t].state # "Unknown" =>
          s.transactions[t].state # "Unknown"
          /\ r.transactions[t].read_version = s.transactions[t].read_version
  BY DEF Endures, Wanes
<1>4. \A t \in ActiveOf(r) : t \in ActiveOf(s) /\ r.transactions[t].read_version = s.transactions[t].read_version
  BY <1>3 DEF ActiveOf, Endures, Wanes
<1>5. SnapshotsKept(r)
  BY <1>2, <1>3, <1>4 DEF StoreInv, SnapshotsKept
<1> QED
  BY <1>1, <1>5 DEF StoreInv

(* The transaction that commits is usable and not late.                     *)
Ready(s, t, at) ==
    /\ t \in ActiveOf(s) /\ transaction_deadline(s, s.transactions[t]) > at
    /\ s.transactions[t].read_version >= s.compaction_floor

\* It writes nothing it may not, and what it read is as it was.
Sound(s, t, writes) ==
    /\ s.transactions[t].read_only => DOMAIN writes = {}
    /\ ~s.transactions[t].read_only => ~transaction_conflicted(s, t)

LEMMA ValidateIs ==
    ASSUME NEW s, NEW p, StoreInv(s, p), NEW t \in Ids, NEW writes, NEW at \in Nat,
           NEW o, o = validate_transaction_commit(s, t, writes, at)
    PROVE  /\ StoreInv(o.s, p) /\ Follows(s, o.s)
           /\ o.answer \in {"ok", "error"}
           /\ o.answer = "ok" =>
                 SameHistory(s, o.s) /\ Ready(o.s, t, at) /\ Sound(o.s, t, writes)
<1>1. PICK u : u = IF s.scope = "Production" THEN prune_transactions(s, at) ELSE s
  OBVIOUS
<1>2. /\ StoreInv(u, p) /\ Follows(s, u) /\ SameHistory(s, u)
      /\ (u.scope = "Production" => Fresh(u, at))
  <2>1. CASE s.scope = "Production"
    BY <1>1, <2>1, PruneStore
  <2>2. CASE s.scope # "Production"
    <3>1. u = s
      BY <1>1, <2>2
    <3> QED
      BY <2>2, <3>1, FollowsItself
  <2> QED
    BY <2>1, <2>2
<1>3. PICK x : x = u.transactions[t]
  OBVIOUS
<1>4. o = ValidatePruned(u, t, x, writes, at)
  BY <1>1, <1>3 DEF validate_transaction_commit, ValidateStore
<1>5. IsTransaction(x)
  BY <1>2, <1>3 DEF StoreInv, Core, Transactions
<1>6. PICK deadline : deadline = transaction_deadline(u, x)
  OBVIOUS
<1>7. deadline \in Nat
  BY <1>5, <1>6, DeadlineIs DEF IsTransaction
<1>8. CASE ~Usable(u, t)
  <2>1. o.s = u /\ o.answer = "error"
    BY <1>4, <1>8 DEF ValidatePruned, Outcome
  <2> QED
    BY <1>2, <2>1
<1>9. ASSUME Usable(u, t)
      PROVE  t \in ActiveOf(u) /\ x.read_version >= u.compaction_floor
  BY <1>3, <1>9 DEF Usable, Active, ActiveOf
<1>10. ASSUME Usable(u, t), NEW state, EndState(u, state), o.s = EndActive(u, {t}, state), o.answer = "error"
       PROVE  /\ StoreInv(o.s, p) /\ Follows(s, o.s)
              /\ o.answer \in {"ok", "error"} /\ o.answer # "ok"
  <2>1. PICK ending, w : ending = {t} /\ w = o.s
    OBVIOUS
  <2>2. ending \subseteq ActiveOf(u)
    BY <1>9, <1>10, <2>1
  <2>3. StoreInv(w, p) /\ Follows(u, w)
    BY <1>2, <1>10, <2>1, <2>2, EndActiveStore
  <2> QED
    BY <1>2, <1>10, <2>1, <2>3, FollowsFurther
<1>11. CASE Usable(u, t) /\ at >= deadline
  <2>1. o.s = EndExpired(u, t, deadline, at) /\ o.answer = "error"
    BY <1>4, <1>6, <1>11 DEF ValidatePruned, Outcome
  <2>2. t \in ActiveOf(u)
    BY <1>9, <1>11
  <2>3. ~Fresh(u, at)
    BY <1>3, <1>6, <1>7, <1>11, <2>2 DEF Fresh
  <2>4. u.scope = "OfficialEmulator"
    BY <1>2, <2>3 DEF StoreInv, Core, Scopes
  <2>5. PICK w : w = o.s
    OBVIOUS
  <2>6. StoreInv(w, p) /\ Follows(u, w)
    BY <1>2, <2>1, <2>2, <2>4, <2>5, EndExpiredStore
  <2> QED
    BY <1>2, <2>1, <2>5, <2>6, FollowsFurther
<1>12. CASE Usable(u, t) /\ ~ (at >= deadline) /\ x.read_only /\ DOMAIN writes # {}
  <2>1. /\ o.answer = "error"
        /\ o.s = u \/ o.s = EndActive(u, {t}, "CommitRefused")
    BY <1>4, <1>6, <1>12 DEF ValidatePruned, Outcome
  <2>2. PICK state : state = "CommitRefused"
    OBVIOUS
  <2>3. EndState(u, state)
    BY <2>2 DEF EndState
  <2> QED
    BY <1>2, <1>10, <1>12, <2>1, <2>2, <2>3
<1>13. CASE /\ Usable(u, t) /\ ~ (at >= deadline) /\ ~ (x.read_only /\ DOMAIN writes # {})
            /\ ~x.read_only /\ transaction_conflicted(u, t)
  <2>1. o.answer = "error" /\ o.s = EndActive(u, {t}, "RetryableAborted")
    BY <1>4, <1>6, <1>13 DEF ValidatePruned, Outcome
  <2>2. PICK state : state = "RetryableAborted"
    OBVIOUS
  <2>3. EndState(u, state)
    BY <2>2 DEF EndState
  <2> QED
    BY <1>10, <1>13, <2>1, <2>2, <2>3
<1>14. CASE /\ Usable(u, t) /\ ~ (at >= deadline) /\ ~ (x.read_only /\ DOMAIN writes # {})
            /\ ~ (~x.read_only /\ transaction_conflicted(u, t))
  <2>1. o.answer = "ok" /\ o.s = u
    BY <1>4, <1>6, <1>14 DEF ValidatePruned, Outcome
  <2>2. Ready(u, t, at)
    BY <1>3, <1>6, <1>7, <1>9, <1>14 DEF Ready
  <2>3. Sound(u, t, writes)
    BY <1>3, <1>14 DEF Sound
  <2> QED
    BY <1>2, <2>1, <2>2, <2>3
<1> QED
  BY <1>8, <1>11, <1>12, <1>13, <1>14

-----------------------------------------------------------------------------
(* A transaction that waits, or no longer.                                  *)
Rewaited(x, waits) == [x EXCEPT !.waits = waits]

LEMMA RewaitedIs ==
    ASSUME NEW x, IsTransaction(x), NEW waits, NEW y, y = Rewaited(x, waits)
    PROVE  /\ Unindexed(x, y) /\ y.waits = waits /\ y.state = x.state
           /\ y.read_only = x.read_only /\ y.read_version = x.read_version
           /\ y.started_at = x.started_at /\ y.last_activity = x.last_activity
           /\ y.read_set = x.read_set /\ y.queries = x.queries
           /\ y.deadlock_victim = x.deadlock_victim
           /\ Wanes(x, y) /\ (waits \subseteq x.waits => Ages(x, y))
<1>1. /\ y = [f \in TransactionFields |-> y[f]]
      /\ y.state = x.state /\ y.waits = waits /\ y.bytes = x.bytes
      /\ y.read_set = x.read_set /\ y.queries = x.queries
      /\ y.read_only = x.read_only /\ y.read_version = x.read_version
      /\ y.started_at = x.started_at /\ y.last_activity = x.last_activity
      /\ y.deadlock_victim = x.deadlock_victim /\ y.lifetime_expired = x.lifetime_expired
      /\ y.snapshot_pending = x.snapshot_pending /\ y.retried_while_live = x.retried_while_live
  BY DEF Rewaited, IsTransaction, TransactionFields
<1>2. IsTransaction(y)
  BY <1>1 DEF IsTransaction
<1>3. Unindexed(x, y)
  BY <1>1, <1>2 DEF Unindexed
<1>4. Wanes(x, y)
  BY <1>1 DEF Wanes, Readable
<1>5. waits \subseteq x.waits => Ages(x, y)
  BY <1>1 DEF Ages, Readable
<1> QED
  BY <1>1, <1>3, <1>4, <1>5

LEMMA RewaitedStore ==
    ASSUME NEW s, NEW p, StoreInv(s, p), NEW t \in ActiveOf(s), NEW waits,
           NEW y, y = Rewaited(s.transactions[t], waits), NEW r, r = WithOne(s, t, y)
    PROVE  /\ StoreInv(r, p) /\ Endures(s, r) /\ SameHistory(s, r) /\ ActiveOf(r) = ActiveOf(s)
           /\ r.transactions[t] = y
           /\ \A u \in Ids \ {t} : r.transactions[u] = s.transactions[u]
           /\ transaction_deadline(r, y) = transaction_deadline(s, s.transactions[t])
           /\ waits \subseteq s.transactions[t].waits => Follows(s, r)
<1>0. t \in Ids
  BY DEF ActiveOf
<1>1. PICK x : x = s.transactions[t] /\ y = Rewaited(x, waits)
  OBVIOUS
<1>2. IsTransaction(x) /\ x.state = "Active"
  BY <1>0, <1>1 DEF ActiveOf, StoreInv, Core, Transactions
<1>3. /\ Unindexed(x, y) /\ y.waits = waits /\ y.state = x.state
      /\ y.read_only = x.read_only /\ y.read_version = x.read_version
      /\ y.started_at = x.started_at /\ y.last_activity = x.last_activity
      /\ y.deadlock_victim = x.deadlock_victim
      /\ Wanes(x, y) /\ (waits \subseteq x.waits => Ages(x, y))
  BY <1>1, <1>2, RewaitedIs
<1>4. x # NoTransaction
  BY <1>2, NothingIs
<1>5. /\ Core(r) /\ SameHistory(s, r) /\ Bounded(r)
      /\ ActiveOf(r) = ActiveOf(s) /\ r.next_transaction = s.next_transaction
      /\ r.transactions[t] = y
      /\ \A u \in Ids \ {t} : r.transactions[u] = s.transactions[u]
  BY <1>0, <1>1, <1>3, <1>4, UnindexedOne DEF StoreInv
<1>6. r.scope = s.scope /\ r.version = s.version
  BY <1>5 DEF SameHistory
<1>7. Endures(s, r)
  BY <1>0, <1>1, <1>3, <1>5, <1>6, WanesItself DEF Endures
<1>8. StoreInv(r, p)
  BY <1>5, <1>7, SnapshotsEndure
<1>9. waits \subseteq x.waits => Follows(s, r)
  BY <1>0, <1>1, <1>3, <1>5, <1>6, AgesItself DEF Follows
<1>10. transaction_deadline(r, y) = transaction_deadline(s, x)
  BY <1>3, <1>6, DeadlineSame
<1> QED
  BY <1>1, <1>3, <1>5, <1>7, <1>8, <1>9, <1>10

(* A transaction sacrificed to a deadlock.                                  *)
MarkedAs(x, t, T) == [x EXCEPT !.deadlock_victim = @ \/ t \in T]

LEMMA MarkedAsIs ==
    ASSUME NEW x, IsTransaction(x), NEW t, NEW T, NEW y, y = MarkedAs(x, t, T)
    PROVE  /\ Unindexed(x, y) /\ y.waits = x.waits /\ y.state = x.state
           /\ (y.deadlock_victim => x.deadlock_victim \/ t \in T)
           /\ Wanes(x, y)
<1>1. /\ y = [f \in TransactionFields |-> y[f]]
      /\ y.state = x.state /\ y.waits = x.waits /\ y.bytes = x.bytes
      /\ y.read_set = x.read_set /\ y.queries = x.queries
      /\ y.read_only = x.read_only /\ y.read_version = x.read_version
      /\ y.started_at = x.started_at /\ y.last_activity = x.last_activity
      /\ y.lifetime_expired = x.lifetime_expired
      /\ y.snapshot_pending = x.snapshot_pending /\ y.retried_while_live = x.retried_while_live
  BY DEF MarkedAs, IsTransaction, TransactionFields
<1>2. y.deadlock_victim = (x.deadlock_victim \/ t \in T)
  BY DEF MarkedAs, IsTransaction, TransactionFields
<1>3. IsTransaction(y)
  BY <1>1 DEF IsTransaction
<1>4. Unindexed(x, y)
  BY <1>1, <1>3 DEF Unindexed
<1>5. Wanes(x, y)
  BY <1>1 DEF Wanes, Readable
<1> QED
  BY <1>1, <1>2, <1>4, <1>5

LEMMA SameMark ==
    ASSUME NEW x, x = [f \in TransactionFields |-> x[f]], NEW v, x.deadlock_victim = v
    PROVE  [x EXCEPT !.deadlock_victim = v] = x
BY DEF TransactionFields

LEMMA NothingUnmarked ==
    ASSUME NEW t, NEW T, t \notin T
    PROVE  MarkedAs(NoTransaction, t, T) = NoTransaction
<1>1. (NoTransaction.deadlock_victim \/ t \in T) = FALSE
  BY DEF NoTransaction
<1>2. MarkedAs(NoTransaction, t, T) = [NoTransaction EXCEPT !.deadlock_victim = FALSE]
  BY <1>1, Zenon DEF MarkedAs
<1>3. [NoTransaction EXCEPT !.deadlock_victim = FALSE] = NoTransaction
  <2>1. PICK x, v : x = NoTransaction /\ v = FALSE
    OBVIOUS
  <2>2. x = [f \in TransactionFields |-> x[f]] /\ x.deadlock_victim = v
    BY <2>1, NothingIs DEF IsTransaction
  <2>3. [x EXCEPT !.deadlock_victim = v] = x
    BY <2>2, SameMark
  <2> QED
    BY <2>1, <2>3, Zenon
<1> QED
  BY <1>2, <1>3

LEMMA VictimsStore ==
    ASSUME NEW s, NEW p, StoreInv(s, p), NEW T, T \subseteq ActiveOf(s), NEW r, r = Victims(s, T)
    PROVE  /\ StoreInv(r, p) /\ Endures(s, r) /\ SameHistory(s, r) /\ ActiveOf(r) = ActiveOf(s) \ T
           /\ \A t \in Ids : r.transactions[t].waits \subseteq s.transactions[t].waits
           /\ \A t \in Ids : r.transactions[t].deadlock_victim => s.transactions[t].deadlock_victim \/ t \in T
<1>1. PICK txs : txs = [t \in Ids |-> MarkedAs(s.transactions[t], t, T)]
  OBVIOUS
<1>2. PICK u : u = WithTransactions(s, txs)
  OBVIOUS
<1>3. r = EndActive(u, T, "RetryableAborted")
  BY <1>1, <1>2 DEF Victims, WithTransactions, MarkedAs
<1>4. \A t \in Ids : txs[t] = MarkedAs(s.transactions[t], t, T) /\ IsTransaction(s.transactions[t])
  BY <1>1 DEF StoreInv, Core, Transactions
<1>5. \A t \in Ids : /\ Unindexed(s.transactions[t], txs[t]) /\ txs[t].waits = s.transactions[t].waits
                     /\ (txs[t].deadlock_victim => s.transactions[t].deadlock_victim \/ t \in T)
                     /\ Wanes(s.transactions[t], txs[t])
  BY <1>4, MarkedAsIs
<1>6. \A t \in Ids : t > s.next_transaction => txs[t] = NoTransaction
  <2> SUFFICES ASSUME NEW t \in Ids, t > s.next_transaction PROVE txs[t] = NoTransaction
    OBVIOUS
  <2>1. s.transactions[t] = NoTransaction
    BY DEF StoreInv, Core, Transactions
  <2>2. t \notin T
    BY <2>1, NothingIs DEF ActiveOf
  <2> QED
    BY <1>4, <2>1, <2>2, NothingUnmarked
<1>7. txs = [t \in Ids |-> txs[t]]
  BY <1>1
<1>8. /\ Core(u) /\ SameHistory(s, u) /\ Bounded(u)
      /\ ActiveOf(u) = ActiveOf(s) /\ u.transactions = txs
      /\ u.next_transaction = s.next_transaction
  BY <1>2, <1>5, <1>6, <1>7, UnindexedIs DEF StoreInv
<1>9. Endures(s, u)
  BY <1>5, <1>8 DEF Endures, SameHistory
<1>10. StoreInv(u, p)
  BY <1>8, <1>9, SnapshotsEndure
<1>11. PICK state : state = "RetryableAborted"
  OBVIOUS
<1>12. EndState(u, state) /\ T \subseteq ActiveOf(u)
  BY <1>8, <1>11 DEF EndState
<1>13. StoreInv(r, p) /\ Follows(u, r) /\ SameHistory(u, r) /\ ActiveOf(r) = ActiveOf(u) \ T
  BY <1>3, <1>10, <1>11, <1>12, EndActiveStore
<1>14. Endures(s, r) /\ SameHistory(s, r)
  BY <1>8, <1>9, <1>13, FollowsEndures, EnduresFurther, SameFurther
<1>15. \A t \in Ids : /\ r.transactions[t].waits \subseteq u.transactions[t].waits
                      /\ (r.transactions[t].deadlock_victim => u.transactions[t].deadlock_victim)
  BY <1>13 DEF Follows, Ages
<1> QED
  BY <1>5, <1>8, <1>13, <1>14, <1>15

-----------------------------------------------------------------------------
(* Locks.                                                                   *)

LEMMA LocksSame ==
    ASSUME NEW s, NEW r, SameHistory(s, r), NEW x, NEW y, y.read_set = x.read_set, y.queries = x.queries,
           NEW writes, holder_locks_writes(r, y, writes)
    PROVE  holder_locks_writes(s, x, writes)
<1>1. \A d : get(r, d) = get(s, d)
  BY DEF get, SameHistory
<1>2. \A q, d, w : range_covers_document(r, q, d, w) => range_covers_document(s, q, d, w)
  BY <1>1 DEF range_covers_document
<1> QED
  BY <1>2 DEF holder_locks_writes, ReadPaths

(* Pruning only takes locks away.                                           *)
LEMMA FewerLocks ==
    ASSUME NEW s, Core(s), NEW r, Core(r), Follows(s, r), SameHistory(s, r), NEW own, NEW writes
    PROVE  /\ lock_holders(r, own, writes) \subseteq lock_holders(s, own, writes)
           /\ lock_holders(r, own, writes) \subseteq ActiveOf(r) \ {own}
<1> SUFFICES ASSUME NEW h \in lock_holders(r, own, writes)
             PROVE  h \in lock_holders(s, own, writes) /\ h \in ActiveOf(r) \ {own}
  OBVIOUS
<1>1. /\ h # own /\ Usable(r, h) /\ ~r.transactions[h].read_only
      /\ holder_locks_writes(r, r.transactions[h], writes)
  BY DEF lock_holders
<1>2. h \in Ids /\ r.transactions[h].state = "Active" /\ h \in ActiveOf(r)
  BY <1>1 DEF Usable, Active, ActiveOf
<1>3. /\ s.transactions[h].state = "Active"
      /\ r.transactions[h].read_set = s.transactions[h].read_set
      /\ r.transactions[h].queries = s.transactions[h].queries
      /\ r.transactions[h].read_only = s.transactions[h].read_only
      /\ r.transactions[h].read_version = s.transactions[h].read_version
  BY <1>2 DEF Follows, Ages
<1>4. holder_locks_writes(s, s.transactions[h], writes)
  BY <1>1, <1>3, LocksSame
<1>5. Usable(s, h)
  BY <1>1, <1>2, <1>3 DEF Usable, Active, SameHistory
<1>6. h \in s.active_read_write
  BY <1>1, <1>2, <1>3 DEF Core, Book, ActiveOf
<1> QED
  BY <1>1, <1>2, <1>3, <1>4, <1>5, <1>6 DEF lock_holders

-----------------------------------------------------------------------------
\* Who waits after an attempt: nobody new but the owner of the request.
NewWaits(s, r, own, owner, writes, live) ==
    \A t \in Ids : \A w \in r.transactions[t].waits :
        \/ w \in s.transactions[t].waits
        \/ t = own /\ owner \in live /\ w = [owner |-> owner, writes |-> writes]

\* h and own are in a deadlock.
Deadlocked(s, h, own, writes, live) ==
    /\ own \in Ids /\ Usable(s, own) /\ h \in Ids
    /\ h \in lock_holders(s, own, writes) /\ WaitsOn(s, h, own, live)

\* The younger of a deadlock.
YoungerOf(s, t, own, writes, live) ==
    \E h \in Ids : /\ Deadlocked(s, h, own, writes, live)
                   /\ \/ t = own /\ Older(s, h, own)
                      \/ t = h /\ Older(s, own, h)

Sacrifices(s, r, own, writes, live) ==
    \A t \in Ids : r.transactions[t].deadlock_victim =>
        s.transactions[t].deadlock_victim \/ YoungerOf(s, t, own, writes, live)

(* A deadlock after the pruning is one before it.                           *)
LEMMA DeadlockedBefore ==
    ASSUME NEW s, Core(s), NEW r, Core(r), Follows(s, r), SameHistory(s, r),
           NEW h, NEW own, NEW writes, NEW live, Deadlocked(r, h, own, writes, live)
    PROVE  /\ Deadlocked(s, h, own, writes, live)
           /\ Older(r, h, own) => Older(s, h, own)
           /\ Older(r, own, h) => Older(s, own, h)
           /\ Older(s, h, own) \/ Older(s, own, h)
           /\ (Older(s, h, own) => Older(r, h, own))
<1>1. h \in lock_holders(s, own, writes) /\ h \in ActiveOf(r) /\ h # own
  BY FewerLocks DEF Deadlocked
<1>2. own \in Ids /\ h \in Ids /\ r.transactions[own].state = "Active" /\ r.transactions[h].state = "Active"
  BY <1>1 DEF Deadlocked, Usable, Active, ActiveOf
<1>3. /\ s.transactions[own].state = "Active"
      /\ r.transactions[own].read_set = s.transactions[own].read_set
      /\ r.transactions[own].queries = s.transactions[own].queries
      /\ r.transactions[own].read_version = s.transactions[own].read_version
      /\ r.transactions[own].started_at = s.transactions[own].started_at
      /\ r.transactions[h].started_at = s.transactions[h].started_at
      /\ r.transactions[h].waits \subseteq s.transactions[h].waits
  BY <1>2 DEF Follows, Ages
<1>4. Usable(s, own)
  BY <1>2, <1>3 DEF Deadlocked, Usable, Active, SameHistory
<1>5. PICK w \in r.transactions[h].waits :
          w.owner \in live /\ holder_locks_writes(r, r.transactions[own], w.writes)
  BY DEF Deadlocked, WaitsOn
<1>6. holder_locks_writes(s, s.transactions[own], w.writes)
  BY <1>3, <1>5, LocksSame
<1>7. WaitsOn(s, h, own, live)
  BY <1>3, <1>5, <1>6 DEF WaitsOn
<1>8. /\ s.transactions[own].started_at \in Nat /\ s.transactions[h].started_at \in Nat
      /\ own \in Nat /\ h \in Nat
  <2>1. IsTransaction(s.transactions[own]) /\ IsTransaction(s.transactions[h])
    BY <1>2 DEF Core, Transactions
  <2> QED
    BY <1>2, <2>1, StoreAssumption DEF IsTransaction
<1>9. Older(s, h, own) \/ Older(s, own, h)
  BY <1>1, <1>8 DEF Older
<1>10. /\ Older(r, h, own) => Older(s, h, own)
       /\ Older(r, own, h) => Older(s, own, h)
       /\ Older(s, h, own) => Older(r, h, own)
  BY <1>3 DEF Older
<1> QED
  BY <1>1, <1>2, <1>4, <1>7, <1>9, <1>10 DEF Deadlocked

\* What the look at the locks leaves.
Contended(s, p, own, owner, writes, live, o) ==
    /\ StoreInv(o.s, p) /\ Endures(s, o.s) /\ SameHistory(s, o.s)
    /\ o.answer = "ok" /\ own # None => own \in ActiveOf(o.s)
    /\ NewWaits(s, o.s, own, owner, writes, live)
    /\ Sacrifices(s, o.s, own, writes, live)

LEMMA ContendedFollows ==
    ASSUME NEW s, NEW p, NEW own, NEW owner, NEW writes, NEW live, NEW o,
           StoreInv(o.s, p), Follows(s, o.s), SameHistory(s, o.s),
           o.answer = "ok" /\ own # None => own \in ActiveOf(o.s)
    PROVE  Contended(s, p, own, owner, writes, live, o)
<1>1. NewWaits(s, o.s, own, owner, writes, live) /\ Sacrifices(s, o.s, own, writes, live)
  BY DEF Follows, Ages, NewWaits, Sacrifices
<1> QED
  BY <1>1, FollowsEndures DEF Contended

(* The locks in the way, in a pruned store r.                               *)
LEMMA ContendIs ==
    ASSUME NEW s, NEW p, StoreInv(s, p), NEW r, StoreInv(r, p), Follows(s, r), SameHistory(s, r),
           NEW own, own # None => own \in ActiveOf(r), NEW owner, NEW writes, NEW live,
           NEW o, o = ContendPruned(r, writes, own, owner, live)
    PROVE  Contended(s, p, own, owner, writes, live, o)
<1>1. PICK holders : holders = lock_holders(r, own, writes)
  OBVIOUS
<1>2. PICK cycle : cycle = {h \in holders : own # None /\ WaitsOn(r, h, own, live)}
  OBVIOUS
<1>3. o = Contend(r, holders, cycle, writes, own, owner, live)
  BY <1>1, <1>2 DEF ContendPruned, ContendHolders
<1>4. Core(r) /\ Core(s) /\ Follows(r, r) /\ SameHistory(r, r)
  BY FollowsItself DEF StoreInv
<1>5. holders \subseteq ActiveOf(r) \ {own}
  BY <1>1, <1>4, FewerLocks
<1>6. ASSUME o.s = r
      PROVE  Contended(s, p, own, owner, writes, live, o)
  BY <1>6, ContendedFollows
<1>7. CASE holders = {} \/ own = None \/ ~Usable(r, own)
  <2>1. o.s = r
    BY <1>3, <1>7 DEF Contend, Outcome
  <2> QED
    BY <1>6, <2>1
<1>8. ASSUME own # None, Usable(r, own), NEW h \in cycle
      PROVE  Deadlocked(r, h, own, writes, live)
  <2>1. own \in Ids /\ h \in Ids /\ h \in holders
    BY <1>2, <1>5, <1>8 DEF Usable, Active, ActiveOf
  <2> QED
    BY <1>1, <1>2, <1>8, <2>1 DEF Deadlocked
<1>9. \A t \in Ids : /\ r.transactions[t].waits \subseteq s.transactions[t].waits
                     /\ (r.transactions[t].deadlock_victim => s.transactions[t].deadlock_victim)
  BY DEF Follows, Ages
<1>10. CASE holders # {} /\ own # None /\ Usable(r, own) /\ \E h \in cycle : Older(r, h, own)
  <2>1. PICK T, v : T = {own} /\ v = Victims(r, T)
    OBVIOUS
  <2>2. o.s = v /\ o.answer # "ok"
    BY <1>3, <1>10, <2>1 DEF Contend, Outcome
  <2>3. T \subseteq ActiveOf(r)
    BY <1>10, <2>1
  <2>4. /\ StoreInv(v, p) /\ Endures(r, v) /\ SameHistory(r, v)
        /\ \A t \in Ids : v.transactions[t].waits \subseteq r.transactions[t].waits
        /\ \A t \in Ids : v.transactions[t].deadlock_victim => r.transactions[t].deadlock_victim \/ t \in T
    BY <2>1, <2>3, VictimsStore
  <2>5. Endures(s, v) /\ SameHistory(s, v)
    BY <2>4, FollowsEndures, EnduresFurther, SameFurther
  <2>6. PICK h \in cycle : Older(r, h, own)
    BY <1>10
  <2>7. Deadlocked(s, h, own, writes, live) /\ Older(s, h, own)
    BY <1>4, <1>8, <1>10, <2>6, DeadlockedBefore
  <2>8. h \in Ids
    BY <2>7 DEF Deadlocked
  <2>9. YoungerOf(s, own, own, writes, live)
    BY <2>7, <2>8 DEF YoungerOf
  <2>10. Sacrifices(s, v, own, writes, live)
    BY <1>9, <2>1, <2>4, <2>9 DEF Sacrifices
  <2>11. NewWaits(s, v, own, owner, writes, live)
    BY <1>9, <2>4 DEF NewWaits
  <2> QED
    BY <2>2, <2>4, <2>5, <2>10, <2>11 DEF Contended
<1>11. CASE holders # {} /\ own # None /\ Usable(r, own) /\ ~ \E h \in cycle : Older(r, h, own)
  <2>1. PICK v : v = Victims(r, cycle)
    OBVIOUS
  <2>2. cycle \subseteq ActiveOf(r) /\ own \notin cycle
    BY <1>2, <1>5
  <2>3. /\ StoreInv(v, p) /\ Endures(r, v) /\ SameHistory(r, v) /\ ActiveOf(v) = ActiveOf(r) \ cycle
        /\ \A t \in Ids : v.transactions[t].waits \subseteq r.transactions[t].waits
        /\ \A t \in Ids : v.transactions[t].deadlock_victim => r.transactions[t].deadlock_victim \/ t \in cycle
    BY <2>1, <2>2, VictimsStore
  <2>4. Endures(s, v) /\ SameHistory(s, v)
    BY <2>3, FollowsEndures, EnduresFurther, SameFurther
  <2>5. own \in ActiveOf(v)
    BY <1>11, <2>2, <2>3
  <2>6. \A h \in cycle : YoungerOf(s, h, own, writes, live)
    <3> TAKE h \in cycle
    <3>1. Deadlocked(r, h, own, writes, live) /\ ~Older(r, h, own)
      BY <1>8, <1>11
    <3>2. Deadlocked(s, h, own, writes, live) /\ Older(s, own, h)
      BY <1>4, <3>1, DeadlockedBefore
    <3>3. h \in Ids
      BY <3>2 DEF Deadlocked
    <3> QED
      BY <3>2, <3>3 DEF YoungerOf
  <2>7. Sacrifices(s, v, own, writes, live)
    BY <1>9, <2>3, <2>6 DEF Sacrifices
  <2>8. CASE holders \subseteq cycle
    <3>1. o.s = v
      BY <1>3, <1>11, <2>1, <2>8 DEF Contend, Outcome
    <3>2. NewWaits(s, v, own, owner, writes, live)
      BY <1>9, <2>3 DEF NewWaits
    <3> QED
      BY <2>3, <2>4, <2>5, <2>7, <3>1, <3>2 DEF Contended
  <2>9. CASE ~ (holders \subseteq cycle)
    <3>1. PICK old, waits : old = v.transactions[own].waits /\ waits = insert_wait(old, owner, writes, live)
      OBVIOUS
    <3>2. PICK y, w : y = Rewaited(v.transactions[own], waits) /\ w = WithOne(v, own, y)
      OBVIOUS
    <3>3. o.s = w /\ o.answer # "ok"
      BY <1>3, <1>11, <2>1, <2>9, <3>1, <3>2
         DEF Contend, Outcome, WithOne, WithTransactions, Rewaited
    <3>4. /\ StoreInv(w, p) /\ Endures(v, w) /\ SameHistory(v, w)
          /\ w.transactions[own].waits = waits
          /\ w.transactions[own].deadlock_victim => v.transactions[own].deadlock_victim
          /\ \A t \in Ids \ {own} : w.transactions[t] = v.transactions[t]
      <4>1. StoreInv(v, p)
        BY <2>3
      <4>2. PICK k \in ActiveOf(v) : k = own
        BY <2>5
      <4>3. y = Rewaited(v.transactions[k], waits) /\ w = WithOne(v, k, y)
        BY <3>2, <4>2
      <4>4. StoreInv(w, p) /\ Endures(v, w) /\ SameHistory(v, w)
        BY <4>1, <4>3, RewaitedStore
      <4>5. k \in Ids /\ IsTransaction(v.transactions[k]) /\ v.transactions[k].state = "Active" /\ Core(v)
        BY <4>1 DEF StoreInv, Core, Transactions, ActiveOf
      <4>6. Unindexed(v.transactions[k], y) /\ y.waits = waits
            /\ y.deadlock_victim = v.transactions[k].deadlock_victim
        BY <4>3, <4>5, RewaitedIs
      <4>7. v.transactions[k] # NoTransaction
        BY <4>5, NothingIs
      <4>8. w.transactions[k] = y /\ \A t \in Ids \ {k} : w.transactions[t] = v.transactions[t]
        BY <4>3, <4>5, <4>6, <4>7, UnindexedOne
      <4> QED
        BY <4>2, <4>4, <4>6, <4>8
    <3>5. Endures(s, w) /\ SameHistory(s, w)
      BY <2>4, <3>4, EnduresFurther, SameFurther
    <3>6. \A k \in waits : \/ k \in old
                           \/ owner \in live /\ k = [owner |-> owner, writes |-> writes]
      BY <3>1 DEF insert_wait, remove_wait
    <3>7. NewWaits(s, w, own, owner, writes, live)
      BY <1>9, <2>3, <3>1, <3>4, <3>6 DEF NewWaits
    <3>8. Sacrifices(s, w, own, writes, live)
      BY <2>7, <3>4 DEF Sacrifices
    <3> QED
      BY <3>3, <3>4, <3>5, <3>7, <3>8 DEF Contended
  <2> QED
    BY <2>8, <2>9
<1> QED
  BY <1>7, <1>10, <1>11

-----------------------------------------------------------------------------
LEMMA StopWaitingIs ==
    ASSUME NEW s, NEW p, StoreInv(s, p), NEW own, NEW at, own # None => Ready(s, own, at),
           NEW owner, NEW live, NEW u, u = StopWaiting(s, own, owner, live)
    PROVE  /\ StoreInv(u, p) /\ Follows(s, u) /\ SameHistory(s, u)
           /\ own # None => /\ own \in ActiveOf(u)
                            /\ transaction_deadline(u, u.transactions[own]) > at
<1>1. CASE own = None
  <2>1. u = s
    BY <1>1 DEF StopWaiting
  <2> QED
    BY <1>1, <2>1, FollowsItself
<1>2. CASE own # None
  <2>1. PICK t \in ActiveOf(s) : t = own
    BY <1>2 DEF Ready
  <2>2. PICK x, waits : x = s.transactions[t] /\ waits = remove_wait(x.waits, owner, live)
    OBVIOUS
  <2>3. PICK y, r : y = Rewaited(x, waits) /\ r = WithOne(s, t, y)
    OBVIOUS
  <2>4. u = r
    BY <1>2, <2>1, <2>2, <2>3 DEF StopWaiting, Rewaited, WithOne, WithTransactions
  <2>5. waits \subseteq s.transactions[t].waits
    BY <2>2 DEF remove_wait
  <2>6. StoreInv(r, p) /\ SameHistory(s, r) /\ Follows(s, r)
    <3>1. y = Rewaited(s.transactions[t], waits) /\ r = WithOne(s, t, y)
      BY <2>2, <2>3
    <3>2. StoreInv(r, p) /\ SameHistory(s, r)
      BY <3>1, RewaitedStore
    <3>3. Follows(s, r)
      BY <2>5, <3>1, RewaitedStore
    <3> QED
      BY <3>2, <3>3
  <2>8. t \in Ids /\ IsTransaction(x) /\ x.state = "Active" /\ Core(s)
    BY <2>2 DEF StoreInv, Core, Transactions, ActiveOf
  <2>9. /\ Unindexed(x, y) /\ y.started_at = x.started_at /\ y.last_activity = x.last_activity
    BY <2>3, <2>8, RewaitedIs
  <2>10. x # NoTransaction
    BY <2>8, NothingIs
  <2>11. r.transactions[t] = y /\ ActiveOf(r) = ActiveOf(s)
    BY <2>2, <2>3, <2>8, <2>9, <2>10, UnindexedOne
  <2>12. r.scope = s.scope
    BY <2>6 DEF SameHistory
  <2>13. transaction_deadline(r, y) = transaction_deadline(s, x)
    BY <2>9, <2>12, DeadlineSame
  <2>14. transaction_deadline(s, x) > at
    BY <1>2, <2>1, <2>2 DEF Ready
  <2> QED
    BY <2>1, <2>4, <2>6, <2>11, <2>13, <2>14
<1> QED
  BY <1>1, <1>2

LEMMA ContentionIs ==
    ASSUME NEW s, NEW p, StoreInv(s, p), NEW own, NEW at \in Nat, own # None => Ready(s, own, at),
           NEW owner, NEW writes, NEW live,
           NEW o, o = check_contention(s, writes, own, owner, live, at)
    PROVE  Contended(s, p, own, owner, writes, live, o)
<1>1. PICK u : u = StopWaiting(s, own, owner, live)
  OBVIOUS
<1>2. /\ StoreInv(u, p) /\ Follows(s, u) /\ SameHistory(s, u)
      /\ own # None => /\ own \in ActiveOf(u)
                       /\ transaction_deadline(u, u.transactions[own]) > at
  BY <1>1, StopWaitingIs
<1>3. CASE DOMAIN writes = {}
  <2>1. o.s = u
    BY <1>1, <1>3 DEF check_contention, Outcome
  <2> QED
    BY <1>2, <2>1, ContendedFollows
<1>4. CASE DOMAIN writes # {}
  <2>1. PICK r : r = prune_transactions(u, at)
    OBVIOUS
  <2>2. o = ContendPruned(r, writes, own, owner, live)
    BY <1>1, <1>4, <2>1 DEF check_contention
  <2>3. /\ StoreInv(r, p) /\ Follows(u, r) /\ SameHistory(u, r)
        /\ ActiveOf(r) = {t \in ActiveOf(u) : transaction_deadline(u, u.transactions[t]) > at}
    BY <1>2, <2>1, PruneStore
  <2>4. own # None => own \in ActiveOf(r)
    BY <1>2, <2>3
  <2>5. Follows(s, r) /\ SameHistory(s, r)
    BY <1>2, <2>3, FollowsFurther, SameFurther
  <2> QED
    BY <2>2, <2>3, <2>4, <2>5, ContendIs
<1> QED
  BY <1>3, <1>4

-----------------------------------------------------------------------------
(* Serializability: what a transaction without a conflict was shown is true *)
(* of the present state.                                                    *)

LEMMA ReadStillHolds ==
    ASSUME NEW s, NEW p, History(s, p), NEW v, NEW read, ReadAgrees(read, v, p),
           Observed(get(s, read[1])) = read[2]
    PROVE  p[s.version + 1][read[1]] = p[v + 1][read[1]]
<1>1. PICK d \in Docs : d = read[1]
  BY DEF ReadAgrees
<1>2. PICK e : e = get(s, d)
  OBVIOUS
<1>3. e = get_at(s, d, s.version) /\ e.value = p[s.version + 1][d]
  BY <1>2, GetIs
<1>4. s.version \in s.compaction_floor .. s.version
  BY DEF History
<1>5. e.value # Absent => e.version \in 1 .. s.version /\ p[e.version + 1][d] = e.value
  BY <1>3, <1>4, EntryIs
<1>6. Observed(e) = read[2]
  BY <1>1, <1>2
<1>7. CASE e.value = Absent
  <2>1. read[2] = None
    BY <1>6, <1>7 DEF Observed
  <2>2. p[v + 1][d] = Absent
    BY <1>1, <2>1 DEF ReadAgrees
  <2> QED
    BY <1>1, <1>3, <1>7, <2>2
<1>8. CASE e.value # Absent
  <2>1. read[2] = e.version
    BY <1>6, <1>8 DEF Observed
  <2>2. s.version \in Nat
    BY DEF History
  <2>3. read[2] # None
    BY <1>5, <1>8, <2>1, <2>2 DEF None
  <2>4. p[v + 1][d] = p[read[2] + 1][d]
    BY <1>1, <2>3 DEF ReadAgrees
  <2> QED
    BY <1>1, <1>3, <1>5, <1>8, <2>1, <2>4
<1> QED
  BY <1>7, <1>8

LEMMA HoldsStill ==
    ASSUME NEW s, NEW p, History(s, p), NEW x, ReadsAgree(x, p), QueriesAgree(x, p),
           \A r \in x.read_set : Observed(get(s, r[1])) = r[2],
           \A e \in x.queries : e.complete => run_query(s, e.query, s.version) = e.rows,
           NEW o, o[1] \in {"document", "query"}, Retained(x, {o}),
           Serial!Holds(o, p[x.read_version + 1])
    PROVE  Serial!Holds(o, p[s.version + 1])
<1>1. PICK v, then, present : v = x.read_version /\ then = p[v + 1] /\ present = p[s.version + 1]
  OBVIOUS
<1>2. CASE o[1] = "document"
  <2>1. o[2] \in ReadPaths(x)
    BY <1>2 DEF Retained
  <2>2. PICK read \in x.read_set : read[1] = o[2]
    BY <2>1 DEF ReadPaths
  <2>3. ReadAgrees(read, v, p)
    BY <1>1 DEF ReadsAgree, ReadAgrees
  <2>4. present[o[2]] = then[o[2]]
    BY <1>1, <2>2, <2>3, ReadStillHolds
  <2>5. then[o[2]] = o[3]
    BY <1>1, <1>2 DEF Serial!Holds
  <2> QED
    BY <1>1, <1>2, <2>4, <2>5 DEF Serial!Holds
<1>3. CASE o[1] = "query"
  <2>1. PICK e \in x.queries : e.complete /\ e.query = o[2]
    BY <1>3 DEF Retained
  <2>2. PICK q, rows : q = e.query /\ rows = e.rows
    OBVIOUS
  <2>3. RowsAgree(rows, q, then, p)
    BY <1>1, <2>2 DEF QueriesAgree
  <2>4. rows = run_query(s, q, s.version)
    BY <2>1, <2>2
  <2>5. s.version \in s.compaction_floor .. s.version
    BY DEF History
  <2>6. RowsAgree(rows, q, present, p)
    BY <1>1, <2>4, <2>5, RowsAre
  <2>7. {d \in Docs : Passes(q, then[d])} = {d \in Docs : Passes(q, present[d])}
    BY <2>3, <2>6 DEF RowsAgree
  <2>8. /\ {d \in Docs : Passes(q, then[d])} = {r[1] : r \in o[3]}
        /\ \A r \in o[3] : then[r[1]] = r[2]
    BY <1>1, <1>3, <2>1, <2>2 DEF Serial!Holds
  <2>9. ASSUME NEW r \in o[3]
        PROVE  present[r[1]] = r[2]
    <3>1. r[1] \in {k[1] : k \in rows}
      BY <2>3, <2>8 DEF RowsAgree
    <3>2. PICK k \in rows : k[1] = r[1]
      BY <3>1
    <3>3. p[k[2] + 1][k[1]] = then[k[1]] /\ p[k[2] + 1][k[1]] = present[k[1]]
      BY <2>3, <2>6 DEF RowsAgree
    <3> QED
      BY <2>8, <3>2, <3>3
  <2>10. {d \in Docs : Passes(o[2], present[d])} = {r[1] : r \in o[3]}
    BY <2>1, <2>2, <2>7, <2>8
  <2>11. Serial!Holds(o, present)
    BY <1>3, <2>9, <2>10 DEF Serial!Holds
  <2> QED
    BY <1>1, <2>11
<1> QED
  BY <1>2, <1>3

LEMMA SerialNow ==
    ASSUME NEW s, NEW p, StoreInv(s, p), NEW shown, NEW done, Views(s, p, shown, done),
           NEW t \in ActiveOf(s), ~s.transactions[t].read_only, ~transaction_conflicted(s, t)
    PROVE  Serial!AllHold(shown[t], p[s.version + 1]) /\ t \notin done
<1>1. PICK x : x = s.transactions[t]
  OBVIOUS
<1>2. t \in Ids /\ x.state = "Active" /\ Readable(x) /\ ~x.read_only
  BY <1>1 DEF ActiveOf, Readable
<1>3. ViewOf(x, p, shown[t])
  BY <1>1, <1>2 DEF Views
<1>4. /\ ReadsAgree(x, p) /\ QueriesAgree(x, p) /\ Retained(x, shown[t])
      /\ Serial!AllHold(shown[t], p[x.read_version + 1])
  BY <1>2, <1>3 DEF ViewOf
<1>5. /\ \A r \in x.read_set : Observed(get(s, r[1])) = r[2]
      /\ \A e \in x.queries : e.complete => run_query(s, e.query, s.version) = e.rows
  BY <1>1 DEF transaction_conflicted
<1>6. ASSUME NEW o \in shown[t]
      PROVE  Serial!Holds(o, p[s.version + 1])
  <2>1. o[1] \in {"document", "query"}
    BY <1>2 DEF Views
  <2>2. Retained(x, {o})
    BY <1>4 DEF Retained
  <2>3. Serial!Holds(o, p[x.read_version + 1])
    BY <1>4 DEF Serial!AllHold
  <2>4. History(s, p)
    BY DEF StoreInv
  <2> QED
    BY <1>4, <1>5, <2>1, <2>2, <2>3, <2>4, HoldsStill
<1>7. t \notin done
  BY <1>1, <1>2 DEF Views
<1> QED
  BY <1>6, <1>7 DEF Serial!AllHold

-----------------------------------------------------------------------------
(* Publication.                                                             *)

(* The capacity of a path gives up old versions only.                       *)
LEMMA PressureIs ==
    ASSUME NEW E, NEW p, NEW d, NEW n \in Nat, Entries(E, p, d, n), E # {},
           NEW keep \in Nat \ {0}, NEW floor \in 0 .. n,
           NEW k, k = record_capacity_pressure(E, keep, floor)
    PROVE  k \in floor .. n
<1>1. PICK kept : kept = {e \in E : Cardinality({f \in E : f.version > e.version}) < keep}
  OBVIOUS
<1>2. PICK V : V = {e.version : e \in kept}
  OBVIOUS
<1>3. k = IF Cardinality(E) <= keep THEN floor ELSE Max({floor, Min(V)})
  BY <1>1, <1>2 DEF record_capacity_pressure
<1>4. V \in SUBSET Nat /\ \A v \in V : v <= n
  <2>1. \A e \in E : e.version \in 1 .. n
    BY DEF Entries
  <2>2. \A v \in V : \E e \in E : v = e.version
    BY <1>1, <1>2
  <2> QED
    BY <2>1, <2>2
<1>5. V # {}
  <2>1. PICK e \in E : \A f \in E : f.version <= e.version
    BY NewestIs
  <2>2. \A f \in E : f.version \in Nat
    BY DEF Entries
  <2>3. {f \in E : f.version > e.version} = {}
    BY <2>1, <2>2
  <2>4. Cardinality({f \in E : f.version > e.version}) = 0
    BY <2>3, FS_EmptySet
  <2>5. e \in kept
    BY <1>1, <2>4
  <2> QED
    BY <1>2, <2>5
<1>6. PICK m : m = Min(V)
  OBVIOUS
<1>7. m \in Nat /\ m <= n
  BY <1>4, <1>5, <1>6, MinNatural
<1>8. floor \in Nat /\ floor <= n
  OBVIOUS
<1>9. Max({floor, m}) = IF floor <= m THEN m ELSE floor
  BY <1>7, <1>8, MinMaxPair
<1> QED
  BY <1>3, <1>6, <1>7, <1>8, <1>9

\* The history r has after the documents of a commit are added.
Adds(s, r, changed, doc, time) ==
    /\ r.version = s.version + 1
    /\ r.compaction_floor = s.compaction_floor
    /\ r.max_versions_per_path = s.max_versions_per_path
    /\ r.commit_times = s.commit_times \cup {<<s.version + 1, time>>}
    /\ r.history = [d \in Docs |-> IF d \in changed
                                   THEN s.history[d] \cup {[version |-> s.version + 1, value |-> doc[d]]}
                                   ELSE s.history[d]]
    /\ r.capacity_floor = Max({record_capacity_pressure(r.history[d], s.max_versions_per_path,
                                                        s.capacity_floor) : d \in changed})

\* q is the past p and one state more, of version n + 1.
Longer(p, q, n, doc) ==
    /\ q \in Seq([Docs -> AnyValue]) /\ Len(q) = n + 2
    /\ q[n + 2] = doc
    /\ \A i \in 1 .. n + 1 : q[i] = p[i]
    /\ DOMAIN p = 1 .. n + 1 /\ DOMAIN q = 1 .. n + 2

LEMMA LongerPast ==
    ASSUME NEW n \in Nat, NEW p \in Seq([Docs -> AnyValue]), Len(p) = n + 1,
           NEW doc \in [Docs -> AnyValue], NEW q, q = Append(p, doc)
    PROVE  Longer(p, q, n, doc)
BY DEF Longer

LEMMA AddedEntries ==
    ASSUME NEW s, NEW n, n = s.version, NEW p, History(s, p), NEW doc, NEW q, Longer(p, q, n, doc),
           NEW r, NEW changed, NEW time, Adds(s, r, changed, doc, time), NEW d \in Docs
    PROVE  /\ Entries(r.history[d], q, d, n + 1)
           /\ \A e \in r.history[d] : e.version <= n => e \in s.history[d]
           /\ s.history[d] \subseteq r.history[d]
           /\ d \notin changed => r.history[d] = s.history[d]
           /\ d \in changed => [version |-> n + 1, value |-> doc[d]] \in r.history[d]
<1>1. PICK new : new = [version |-> n + 1, value |-> doc[d]]
  OBVIOUS
<1>2. n \in Nat /\ Entries(s.history[d], p, d, n)
  BY <1>1, HistoryEntries DEF History
<1>3. r.history[d] = IF d \in changed THEN s.history[d] \cup {new} ELSE s.history[d]
  BY <1>1 DEF Adds
<1>4. /\ q[n + 2] = doc /\ \A i \in 1 .. n + 1 : q[i] = p[i]
  BY DEF Longer
<1>5. new = [version |-> new.version, value |-> new.value] /\ new.version = n + 1 /\ new.value = doc[d]
  BY <1>1
<1>6. \A e \in s.history[d] : /\ e = [version |-> e.version, value |-> e.value]
                              /\ e.version \in 1 .. n + 1 /\ e.value = q[e.version + 1][d]
                              /\ e.version <= n
  BY <1>2, <1>4 DEF Entries
<1>7. new.version \in 1 .. n + 1 /\ new.value = q[new.version + 1][d] /\ ~ (new.version <= n)
  <2>1. new.version + 1 = n + 2
    BY <1>2, <1>5
  <2> QED
    BY <1>2, <1>4, <1>5, <2>1
<1>8. Entries(r.history[d], q, d, n + 1)
  BY <1>3, <1>5, <1>6, <1>7 DEF Entries
<1> QED
  BY <1>1, <1>3, <1>7, <1>8

LEMMA AddedAnswers ==
    ASSUME NEW s, NEW n, n = s.version, NEW p, History(s, p), NEW doc, NEW q, Longer(p, q, n, doc),
           NEW r, NEW changed, NEW time, Adds(s, r, changed, doc, time),
           \A d \in Docs \ changed : doc[d] = p[s.version + 1][d],
           NEW v \in s.compaction_floor .. n + 1, NEW d \in Docs
    PROVE  get_at(r, d, v).value = q[v + 1][d]
<1>1. PICK new : new = [version |-> n + 1, value |-> doc[d]]
  OBVIOUS
<1>2. n \in Nat /\ s.compaction_floor \in Nat /\ v \in Nat /\ s.compaction_floor <= n
  BY <1>1 DEF History
<1>3. PICK E, F : E = r.history[d] /\ F = s.history[d]
  OBVIOUS
<1>4. /\ Entries(E, q, d, n + 1)
      /\ \A e \in E : e.version <= n => e \in F
      /\ F \subseteq E /\ (d \notin changed => E = F) /\ (d \in changed => new \in E)
  BY <1>1, <1>3, AddedEntries
<1>5. Entries(F, p, d, n)
  BY <1>1, <1>3, HistoryEntries
<1>6. q[n + 2] = doc /\ \A i \in 1 .. n + 1 : q[i] = p[i]
  BY DEF Longer
<1>7. CASE v <= n
  <2>1. {e \in E : e.version <= v} = {e \in F : e.version <= v}
    <3>1. \A e \in E : e.version \in Nat
      BY <1>4 DEF Entries
    <3> QED
      BY <1>2, <1>4, <1>7, <3>1
  <2>2. get_at(r, d, v) = get_at(s, d, v)
    BY <1>3, <2>1 DEF get_at
  <2>3. v \in s.compaction_floor .. s.version
    BY <1>1, <1>2, <1>7
  <2>4. get_at(s, d, v).value = p[v + 1][d]
    BY <2>3, EntryIs
  <2>5. v + 1 \in 1 .. n + 1
    BY <1>2, <1>7
  <2> QED
    BY <1>6, <2>2, <2>4, <2>5
<1>8. CASE v = n + 1
  <2>1. \A e \in E : e.version <= v
    BY <1>4, <1>8 DEF Entries
  <2>2. {e \in E : e.version <= v} = E
    BY <2>1
  <2>3. get_at(r, d, v) = Newest(E)
    BY <1>3, <2>2 DEF get_at
  <2>4. q[v + 1][d] = doc[d]
    <3>1. v + 1 = n + 2
      BY <1>2, <1>8
    <3> QED
      BY <1>6, <3>1
  <2>5. CASE d \in changed
    <3>1. new \in E /\ new.version = n + 1 /\ new.value = doc[d]
      BY <1>1, <1>4, <2>5
    <3>2. \A f \in E : f.version <= new.version
      BY <1>8, <2>1, <3>1
    <3>3. n + 1 \in Nat
      BY <1>2
    <3>4. Newest(E) = new
      BY <1>4, <3>1, <3>2, <3>3, NewestUnique
    <3> QED
      BY <2>3, <2>4, <3>1, <3>4
  <2>6. CASE d \notin changed
    <3>1. get_at(r, d, v) = get(s, d)
      BY <1>3, <1>4, <2>3, <2>6 DEF get
    <3>2. get(s, d).value = p[s.version + 1][d]
      BY GetIs
    <3> QED
      BY <2>4, <2>6, <3>1, <3>2
  <2> QED
    BY <2>5, <2>6
<1> QED
  BY <1>1, <1>2, <1>7, <1>8

LEMMA AddedHistory ==
    ASSUME NEW s, NEW n, n = s.version, NEW p, History(s, p), NEW doc, NEW q, Longer(p, q, n, doc),
           NEW r, NEW changed, changed \subseteq Docs, changed # {}, NEW time,
           Adds(s, r, changed, doc, time),
           \A d \in Docs \ changed : doc[d] = p[s.version + 1][d]
    PROVE  History(r, q) /\ s.capacity_floor <= r.capacity_floor
<1>2. /\ n \in Nat /\ n + 1 \in Nat /\ r.version = n + 1
      /\ r.compaction_floor = s.compaction_floor /\ s.compaction_floor \in 0 .. n
      /\ s.capacity_floor \in 0 .. n
      /\ r.max_versions_per_path = s.max_versions_per_path /\ s.max_versions_per_path \in Nat \ {0}
  BY DEF History, Adds
<1>3. q \in Seq([Docs -> AnyValue]) /\ Len(q) = r.version + 1
  BY <1>2 DEF Longer
<1>4. r.history = [d \in Docs |-> r.history[d]]
  BY DEF Adds
<1>5. \A d \in Docs : Entries(r.history[d], q, d, n + 1)
  BY AddedEntries
<1>6. \A d \in Docs : \A e \in r.history[d] : IsEntry(r, q, d, e)
  BY <1>2, <1>5 DEF Entries, IsEntry
<1>7. \A c \in r.commit_times : c[1] \in r.compaction_floor .. r.version
  <2>1. \A c \in s.commit_times : c[1] \in s.compaction_floor .. n
    BY DEF History
  <2>2. \A c \in r.commit_times : c \in s.commit_times \/ c[1] = n + 1
    BY DEF Adds
  <2> QED
    BY <1>2, <2>1, <2>2
<1>8. \A v \in r.compaction_floor .. r.version : Answers(r, q, v)
  <2>1. \A v \in s.compaction_floor .. n + 1 : \A d \in Docs : get_at(r, d, v).value = q[v + 1][d]
    BY AddedAnswers
  <2> QED
    BY <1>2, <2>1 DEF Answers
<1>9. PICK S : S = {record_capacity_pressure(r.history[d], s.max_versions_per_path, s.capacity_floor) :
                      d \in changed}
  OBVIOUS
<1>10. \A k \in S : k \in s.capacity_floor .. n + 1
  <2> TAKE k \in S
  <2>1. PICK d \in changed :
           k = record_capacity_pressure(r.history[d], s.max_versions_per_path, s.capacity_floor)
    BY <1>9
  <2>2. PICK E : E = r.history[d]
    OBVIOUS
  <2>3. d \in Docs /\ Entries(E, q, d, n + 1)
    BY <1>5, <2>2
  <2>4. E # {}
    BY <2>1, <2>2, <2>3, AddedEntries
  <2>5. s.capacity_floor \in 0 .. n + 1
    BY <1>2
  <2> QED
    BY <1>2, <2>1, <2>2, <2>3, <2>4, <2>5, PressureIs
<1>11. S # {} /\ S \in SUBSET Nat /\ \A k \in S : k <= n + 1
  BY <1>2, <1>9, <1>10
<1>12. r.capacity_floor = Max(S)
  BY <1>9 DEF Adds
<1>13. Max(S) \in S
  BY <1>2, <1>11, MaxBounded
<1>14. r.capacity_floor \in 0 .. r.version /\ s.capacity_floor <= r.capacity_floor
  BY <1>2, <1>10, <1>12, <1>13
<1> QED
  BY <1>2, <1>3, <1>4, <1>6, <1>7, <1>8, <1>14 DEF History

-----------------------------------------------------------------------------
(* The documents a commit leaves.                                           *)
LEMMA AppliedIs ==
    ASSUME NEW w \in Batches \cup Seeds, NEW d \in DOMAIN w, NEW value \in AnyValue
    PROVE  d \in Docs /\ Applied(w[d], value) \in AnyValue
<1>1. d \in Docs /\ w[d].to \in Values \cup {Absent, Increment}
  BY BatchAssumption
<1>2. Incremented(value) \in Values
  BY TransformAssumption DEF AnyValue
<1> QED
  BY <1>1, <1>2 DEF Applied, AnyValue

LEMMA ChangedIs ==
    ASSUME NEW s, NEW p, History(s, p), NEW w \in Batches \cup Seeds,
           NEW changed, changed = Changed(s, w), NEW doc, doc = Serial!Result(w, p[s.version + 1])
    PROVE  /\ doc \in [Docs -> AnyValue] /\ changed \subseteq Docs
           /\ \A d \in changed : doc[d] = Applied(w[d], get(s, d).value)
           /\ \A d \in Docs \ changed : doc[d] = p[s.version + 1][d]
           /\ changed = {} => doc = p[s.version + 1]
           /\ changed # {} => doc # p[s.version + 1]
<1>1. PICK state : state = p[s.version + 1]
  OBVIOUS
<1>2. state \in [Docs -> AnyValue]
  BY <1>1, DocumentsAre
<1>3. \A d \in Docs : get(s, d).value = state[d]
  BY <1>1, GetIs
<1>4. \A d \in DOMAIN w : d \in Docs /\ Applied(w[d], state[d]) \in AnyValue
  <2> TAKE d \in DOMAIN w
  <2>1. d \in Docs
    BY BatchAssumption
  <2>2. PICK value : value = state[d]
    OBVIOUS
  <2>3. value \in AnyValue
    BY <1>2, <2>1, <2>2
  <2> QED
    BY <2>2, <2>3, AppliedIs
<1>5. doc = [d \in Docs |-> IF d \in DOMAIN w THEN Applied(w[d], state[d]) ELSE state[d]]
  BY <1>1 DEF Serial!Result
<1>6. doc \in [Docs -> AnyValue]
  BY <1>2, <1>4, <1>5
<1>7. \A d : d \in changed <=> d \in DOMAIN w /\ Applied(w[d], get(s, d).value) # get(s, d).value
  BY DEF Changed
<1>8. \A d \in changed : d \in DOMAIN w /\ d \in Docs /\ Applied(w[d], state[d]) # state[d]
  BY <1>3, <1>4, <1>7
<1>9. \A d \in changed : doc[d] = Applied(w[d], get(s, d).value) /\ doc[d] # state[d]
  BY <1>3, <1>5, <1>8
<1>10. \A d \in Docs \ changed : doc[d] = state[d]
  BY <1>3, <1>5, <1>7
<1>11. changed = {} => doc = state
  BY <1>2, <1>6, <1>10
<1>12. changed # {} => doc # state
  BY <1>9
<1> QED
  BY <1>1, <1>6, <1>8, <1>9, <1>10, <1>11, <1>12

\* What publication leaves alone.
Unmoved(s, r) ==
    /\ r.scope = s.scope /\ r.next_transaction = s.next_transaction
    /\ r.transactions = s.transactions /\ r.active_count = s.active_count
    /\ r.active_deadlines = s.active_deadlines /\ r.active_versions = s.active_versions
    /\ r.active_read_write = s.active_read_write /\ r.ledger = s.ledger
    /\ r.finished = s.finished /\ r.evictable = s.evictable
    /\ r.finished_deadlines = s.finished_deadlines

Timeless(s, r) ==
    /\ r.history = s.history /\ r.version = s.version /\ r.commit_times = s.commit_times
    /\ r.compaction_floor = s.compaction_floor /\ r.capacity_floor = s.capacity_floor
    /\ r.max_versions_per_path = s.max_versions_per_path

LEMMA PublishFields ==
    ASSUME NEW s, IsStore(s), NEW changed, NEW history, NEW time, changed # {},
           NEW floor, floor = Max({record_capacity_pressure(history[d], s.max_versions_per_path,
                                                            s.capacity_floor) : d \in changed}),
           NEW r, r = PublishHistory(s, changed, history, time)
    PROVE  /\ IsStore(r) /\ Unmoved(s, r)
           /\ r.version = s.version + 1
           /\ r.compaction_floor = s.compaction_floor
           /\ r.max_versions_per_path = s.max_versions_per_path
           /\ r.commit_times = s.commit_times \cup {<<s.version + 1, time>>}
           /\ r.history = history
           /\ r.capacity_floor = floor
<1>2. r = [s EXCEPT !.version = s.version + 1,
                    !.commit_times = s.commit_times \cup {<<s.version + 1, time>>},
                    !.history = history,
                    !.capacity_floor = floor]
  BY DEF PublishHistory
<1>3. PICK n, c : n = s.version + 1 /\ c = s.commit_times \cup {<<s.version + 1, time>>}
  OBVIOUS
<1>4. r = [s EXCEPT !.version = n, !.commit_times = c, !.history = history, !.capacity_floor = floor]
  BY <1>2, <1>3
<1>5. /\ IsStore(r) /\ Unmoved(s, r) /\ r.version = n /\ r.commit_times = c /\ r.history = history
      /\ r.capacity_floor = floor /\ r.compaction_floor = s.compaction_floor
      /\ r.max_versions_per_path = s.max_versions_per_path
  BY <1>4 DEF IsStore, StoreFields, Unmoved
<1> QED
  BY <1>3, <1>5

LEMMA StampFields ==
    ASSUME NEW s, IsStore(s), NEW time, NEW r, r = [s EXCEPT !.last_commit_time = time]
    PROVE  IsStore(r) /\ Unmoved(s, r) /\ Timeless(s, r)
BY DEF IsStore, StoreFields, Unmoved, Timeless

-----------------------------------------------------------------------------
\* The past q goes on from the past p.
Extends(p, q) == \A i \in DOMAIN p : i \in DOMAIN q /\ q[i] = p[i]

\* The past after a commit that leaves the documents doc.
PastAfter(p, changed, doc) == IF changed = {} THEN p ELSE Append(p, doc)

LEMMA StampedUnchanged ==
    ASSUME NEW s, NEW p, StoreInv(s, p), NEW r, IsStore(r), Unmoved(s, r), Timeless(s, r)
    PROVE  StoreInv(r, p)
<1>1. Core(s) /\ Bounded(s) /\ History(s, p) /\ SnapshotsKept(s)
  BY DEF StoreInv
<1>2. Core(r) /\ Bounded(r) /\ ActiveOf(r) = ActiveOf(s)
  BY <1>1, CoreSame DEF Unmoved
<1>3. \A d, v : get_at(r, d, v) = get_at(s, d, v)
  BY DEF get_at, Timeless
<1>4. \A v : Answers(s, p, v) => Answers(r, p, v)
  BY <1>3 DEF Answers
<1>5. \A d, e : IsEntry(s, p, d, e) => IsEntry(r, p, d, e)
  BY DEF IsEntry, Timeless
<1>6. History(r, p)
  BY <1>1, <1>4, <1>5 DEF History, Timeless
<1>7. SnapshotsKept(r)
  BY <1>1, <1>2 DEF SnapshotsKept, Timeless, Unmoved
<1> QED
  BY <1>1, <1>2, <1>6, <1>7 DEF StoreInv

LEMMA StampedChanged ==
    ASSUME NEW s, NEW n, n = s.version, NEW p, StoreInv(s, p),
           NEW doc, NEW q, Longer(p, q, n, doc),
           NEW r, IsStore(r), Unmoved(s, r),
           NEW changed, changed \subseteq Docs, changed # {}, NEW time,
           Adds(s, r, changed, doc, time),
           \A d \in Docs \ changed : doc[d] = p[s.version + 1][d]
    PROVE  StoreInv(r, q)
<1>1. Core(s) /\ Bounded(s) /\ History(s, p) /\ SnapshotsKept(s)
  BY DEF StoreInv
<1>2. Core(r) /\ Bounded(r) /\ ActiveOf(r) = ActiveOf(s)
  BY <1>1, CoreSame DEF Unmoved
<1>3. History(r, q) /\ s.capacity_floor <= r.capacity_floor
  BY <1>1, AddedHistory
<1>4. /\ s.capacity_floor \in Nat /\ r.capacity_floor \in Nat /\ s.version \in Nat
      /\ r.compaction_floor = s.compaction_floor /\ r.version = s.version + 1
  BY <1>1, <1>3 DEF History, Adds
<1>5. \A t \in Ids : s.transactions[t].read_version \in Nat
  BY <1>1 DEF Core, Transactions, IsTransaction
<1>6. r.transactions = s.transactions
  BY DEF Unmoved
<1>7. \A t \in Ids : s.transactions[t].state # "Unknown" => s.transactions[t].read_version <= r.version
  BY <1>1, <1>4, <1>5 DEF SnapshotsKept
<1>8. \A t \in ActiveOf(s) : \/ s.transactions[t].read_version >= r.compaction_floor
                             \/ s.transactions[t].read_version < r.capacity_floor
  <2> TAKE t \in ActiveOf(s)
  <2>1. t \in Ids /\ s.transactions[t].read_version \in Nat
    BY <1>5 DEF ActiveOf
  <2>2. \/ s.transactions[t].read_version >= s.compaction_floor
        \/ s.transactions[t].read_version < s.capacity_floor
    BY <1>1 DEF SnapshotsKept
  <2> QED
    BY <1>3, <1>4, <2>1, <2>2
<1>9. SnapshotsKept(r)
  BY <1>2, <1>6, <1>7, <1>8 DEF SnapshotsKept
<1> QED
  BY <1>2, <1>3, <1>9 DEF StoreInv

(* Publication: the store, with the state the commit leaves as the last of the past. *)
LEMMA StampedStore ==
    ASSUME NEW s, NEW p, StoreInv(s, p), NEW w \in Batches \cup Seeds,
           NEW changed, changed = Changed(s, w), NEW doc, doc = Serial!Result(w, p[s.version + 1]),
           NEW q, q = PastAfter(p, changed, doc), NEW t, NEW time,
           NEW r, r = Stamped(s, w, t, time)
    PROVE  /\ StoreInv(r, q) /\ Unmoved(s, r)
           /\ Extends(p, q) /\ q[r.version + 1] = doc
<1>1. PICK n : n = s.version
  OBVIOUS
<1>2. Core(s) /\ History(s, p) /\ IsStore(s) /\ n \in Nat
      /\ p \in Seq([Docs -> AnyValue]) /\ Len(p) = n + 1
  BY <1>1 DEF StoreInv, Core, History
<1>3. /\ doc \in [Docs -> AnyValue] /\ changed \subseteq Docs
      /\ \A d \in changed : doc[d] = Applied(w[d], get(s, d).value)
      /\ \A d \in Docs \ changed : doc[d] = p[s.version + 1][d]
      /\ changed = {} => doc = p[s.version + 1]
  BY <1>2, ChangedIs
<1>4. PICK stamp : stamp = IF t # None /\ DOMAIN w = {} /\ s.transactions[t].has_read
                           THEN Publish(s, w, changed, time).last_commit_time ELSE time
  OBVIOUS
<1>5. PICK u : u = Publish(s, w, changed, time)
  OBVIOUS
<1>6. r = [u EXCEPT !.last_commit_time = stamp]
  BY <1>4, <1>5 DEF Stamped
<1>7. CASE changed = {}
  <2>1. u = s
    BY <1>5, <1>7 DEF Publish, PublishHistory
  <2>2. IsStore(r) /\ Unmoved(s, r) /\ Timeless(s, r)
    BY <1>2, <1>6, <2>1, StampFields
  <2>3. StoreInv(r, p)
    BY <2>2, StampedUnchanged
  <2>4. q = p
    BY <1>7 DEF PastAfter
  <2>5. r.version = s.version
    BY <2>2 DEF Timeless
  <2> QED
    BY <1>3, <1>7, <2>2, <2>3, <2>4, <2>5 DEF Extends
<1>8. CASE changed # {}
  <2>1. PICK history : history = [d \in Docs |-> IF d \in changed THEN s.history[d] \cup {Entry(s, w, d)}
                                                 ELSE s.history[d]]
    OBVIOUS
  <2>2. u = PublishHistory(s, changed, history, time)
    BY <1>5, <2>1 DEF Publish
  <2>20. PICK floor : floor = Max({record_capacity_pressure(history[d], s.max_versions_per_path,
                                                            s.capacity_floor) : d \in changed})
    OBVIOUS
  <2>3. /\ IsStore(u) /\ Unmoved(s, u)
        /\ u.version = s.version + 1
        /\ u.compaction_floor = s.compaction_floor
        /\ u.max_versions_per_path = s.max_versions_per_path
        /\ u.commit_times = s.commit_times \cup {<<s.version + 1, time>>}
        /\ u.history = history
        /\ u.capacity_floor = floor
    BY <1>2, <1>8, <2>2, <2>20, PublishFields
  <2>4. IsStore(r) /\ Unmoved(u, r) /\ Timeless(u, r)
    BY <1>6, <2>3, StampFields
  <2>5. Unmoved(s, r)
    BY <2>3, <2>4 DEF Unmoved
  <2>6. history = [d \in Docs |-> IF d \in changed
                                  THEN s.history[d] \cup {[version |-> s.version + 1, value |-> doc[d]]}
                                  ELSE s.history[d]]
    BY <1>3, <2>1 DEF Entry
  <2>7. Adds(s, r, changed, doc, time)
    <3>1. r.history = history /\ r.version = s.version + 1 /\ r.compaction_floor = s.compaction_floor
          /\ r.max_versions_per_path = s.max_versions_per_path
          /\ r.commit_times = s.commit_times \cup {<<s.version + 1, time>>}
          /\ r.capacity_floor = u.capacity_floor
      BY <2>3, <2>4 DEF Timeless
    <3>2. r.capacity_floor = Max({record_capacity_pressure(r.history[d], s.max_versions_per_path,
                                                           s.capacity_floor) : d \in changed})
      BY <2>3, <2>20, <3>1
    <3> QED
      BY <2>6, <3>1, <3>2 DEF Adds
  <2>8. q = Append(p, doc)
    BY <1>8 DEF PastAfter
  <2>9. Longer(p, q, n, doc)
    BY <1>2, <1>3, <2>8, LongerPast
  <2>10. StoreInv(r, q)
    BY <1>1, <1>3, <1>8, <2>4, <2>5, <2>7, <2>9, StampedChanged
  <2>11. r.version + 1 = n + 2
    BY <1>1, <1>2, <2>7 DEF Adds
  <2>12. Extends(p, q)
    BY <1>2, <2>9 DEF Longer, Extends
  <2> QED
    BY <2>5, <2>9, <2>10, <2>11, <2>12 DEF Longer
<1> QED
  BY <1>7, <1>8

-----------------------------------------------------------------------------
(* What was shown stays true of the longer past.                            *)

LEMMA ViewLonger ==
    ASSUME NEW x, NEW p, NEW q, Extends(p, q), NEW n \in Nat, DOMAIN p = 1 .. n + 1,
           x.read_version \in Nat, x.state # "Unknown" => x.read_version <= n,
           NEW o, ViewOf(x, p, o)
    PROVE  ViewOf(x, q, o)
<1>1. CASE x.state = "Unknown"
  BY <1>1 DEF ViewOf, Readable
<1>2. CASE x.state # "Unknown"
  <2>1. \A v \in 0 .. x.read_version : v + 1 \in DOMAIN p
    BY <1>2
  <2>2. q[x.read_version + 1] = p[x.read_version + 1]
    BY <1>2, <2>1 DEF Extends
  <2>3. ReadsAgree(x, p) => ReadsAgree(x, q)
    BY <2>1, <2>2 DEF ReadsAgree, Extends, None
  <2>4. \A rows, filter, state : RowsAgree(rows, filter, state, p) => RowsAgree(rows, filter, state, q)
    BY DEF RowsAgree, Extends
  <2>5. QueriesAgree(x, p) => QueriesAgree(x, q)
    BY <2>2, <2>4 DEF QueriesAgree
  <2> QED
    BY <2>2, <2>3, <2>5 DEF ViewOf
<1> QED
  BY <1>1, <1>2

LEMMA ViewsLonger ==
    ASSUME NEW s, NEW p, StoreInv(s, p), NEW q, Extends(p, q), NEW r, Unmoved(s, r),
           NEW shown, NEW done, Views(s, p, shown, done)
    PROVE  Views(r, q, shown, done)
<1>1. PICK n : n = s.version
  OBVIOUS
<1>2. n \in Nat /\ DOMAIN p = 1 .. n + 1
  BY <1>1 DEF StoreInv, History
<1>3. \A t \in Ids : /\ s.transactions[t].read_version \in Nat
                     /\ s.transactions[t].state # "Unknown" => s.transactions[t].read_version <= n
  BY <1>1 DEF StoreInv, Core, Transactions, IsTransaction, SnapshotsKept
<1>4. \A t \in Ids : ViewOf(s.transactions[t], q, shown[t])
  <2> TAKE t \in Ids
  <2>1. ViewOf(s.transactions[t], p, shown[t])
    BY DEF Views
  <2> QED
    BY <1>2, <1>3, <2>1, ViewLonger
<1> QED
  BY <1>4 DEF Views, Unmoved

-----------------------------------------------------------------------------
(* An attempt at a commit.                                                  *)

\* What an attempt does to the waits and the victims.
Marks(s, r, own, owner, writes, live) ==
    NewWaits(s, r, own, owner, writes, live) /\ Sacrifices(s, r, own, writes, live)

LEMMA MarksCalm ==
    ASSUME NEW s, NEW r, Calm(s, r), NEW own, NEW owner, NEW writes, NEW live
    PROVE  Marks(s, r, own, owner, writes, live)
BY DEF Marks, NewWaits, Sacrifices, Calm

LEMMA MarksLater ==
    ASSUME NEW s, NEW u, NEW own, NEW owner, NEW writes, NEW live, Marks(s, u, own, owner, writes, live),
           NEW r, Calm(u, r)
    PROVE  Marks(s, r, own, owner, writes, live)
<1>1. NewWaits(s, r, own, owner, writes, live)
  BY DEF Marks, NewWaits, Calm
<1>2. Sacrifices(s, r, own, writes, live)
  BY DEF Marks, Sacrifices, Calm
<1> QED
  BY <1>1, <1>2 DEF Marks

LEMMA YoungerBefore ==
    ASSUME NEW s, Core(s), NEW r, Core(r), Follows(s, r), SameHistory(s, r),
           NEW t, NEW own, NEW writes, NEW live, YoungerOf(r, t, own, writes, live)
    PROVE  YoungerOf(s, t, own, writes, live)
<1>1. PICK h \in Ids : /\ Deadlocked(r, h, own, writes, live)
                       /\ \/ t = own /\ Older(r, h, own)
                          \/ t = h /\ Older(r, own, h)
  BY DEF YoungerOf
<1>2. Deadlocked(s, h, own, writes, live) /\ (Older(r, h, own) => Older(s, h, own))
      /\ (Older(r, own, h) => Older(s, own, h))
  BY <1>1, DeadlockedBefore
<1> QED
  BY <1>1, <1>2 DEF YoungerOf

LEMMA MarksBefore ==
    ASSUME NEW s, Core(s), NEW r, Core(r), Follows(s, r), SameHistory(s, r),
           NEW own, NEW owner, NEW writes, NEW live, NEW u, Marks(r, u, own, owner, writes, live)
    PROVE  Marks(s, u, own, owner, writes, live)
<1>1. Calm(s, r)
  BY FollowsCalm
<1>2. NewWaits(s, u, own, owner, writes, live)
  BY <1>1 DEF Marks, NewWaits, Calm
<1>3. Sacrifices(s, u, own, writes, live)
  BY <1>1, YoungerBefore DEF Marks, Sacrifices, Calm
<1> QED
  BY <1>2, <1>3 DEF Marks

\* The store u is free of the locks in the way of a commit.
Unlocked(s, p, shown, done, own, owner, writes, live, u) ==
    /\ StoreInv(u, p) /\ Views(u, p, shown, done) /\ SameHistory(s, u)
    /\ u.next_transaction = s.next_transaction
    /\ Marks(s, u, own, owner, writes, live)

\* An attempt that applies nothing.
Unapplied(s, p, shown, done, own, owner, writes, live, r) ==
    /\ StoreInv(r, p) /\ Views(r, p, shown, done) /\ r.version = s.version
    /\ Marks(s, r, own, owner, writes, live)

LEMMA UnappliedFollows ==
    ASSUME NEW s, NEW p, NEW shown, NEW done, Views(s, p, shown, done), NEW own, NEW owner, NEW writes,
           NEW live, NEW r, StoreInv(r, p), Follows(s, r)
    PROVE  Unapplied(s, p, shown, done, own, owner, writes, live, r)
<1>1. Views(r, p, shown, done)
  BY ViewsFollow
<1>2. Marks(s, r, own, owner, writes, live)
  BY FollowsCalm, MarksCalm
<1> QED
  BY <1>1, <1>2 DEF Unapplied, Follows

LEMMA UnappliedUnlocked ==
    ASSUME NEW s, NEW p, NEW shown, NEW done, NEW own, NEW owner, NEW writes, NEW live,
           NEW u, Unlocked(s, p, shown, done, own, owner, writes, live, u),
           NEW r, StoreInv(r, p), Follows(u, r)
    PROVE  Unapplied(s, p, shown, done, own, owner, writes, live, r)
<1>1. Views(r, p, shown, done)
  BY ViewsFollow DEF Unlocked
<1>2. Marks(s, r, own, owner, writes, live)
  BY FollowsCalm, MarksLater DEF Unlocked
<1> QED
  BY <1>1, <1>2 DEF Unapplied, Follows, Unlocked, SameHistory

LEMMA UnlockedIs ==
    ASSUME NEW s, NEW p, StoreInv(s, p), NEW shown, NEW done, Views(s, p, shown, done),
           NEW v, StoreInv(v, p), Follows(s, v), SameHistory(s, v),
           NEW own, NEW owner, NEW writes, NEW live, NEW o, Contended(v, p, own, owner, writes, live, o),
           NEW u, u = o.s
    PROVE  /\ Unlocked(s, p, shown, done, own, owner, writes, live, u)
           /\ o.answer = "ok" /\ own # None => own \in ActiveOf(u)
<1>1. Core(s) /\ Core(v)
  BY DEF StoreInv
<1>2. StoreInv(u, p) /\ Endures(v, u) /\ SameHistory(v, u) /\ Marks(v, u, own, owner, writes, live)
      /\ (o.answer = "ok" /\ own # None => own \in ActiveOf(u))
  BY DEF Contended, Marks
<1>3. Marks(s, u, own, owner, writes, live)
  BY <1>1, <1>2, MarksBefore
<1>4. Views(v, p, shown, done)
  BY ViewsFollow
<1>5. Views(u, p, shown, done)
  BY <1>2, <1>4, ViewsEndure
<1>6. SameHistory(s, u)
  BY <1>2, SameFurther
<1>7. u.next_transaction = s.next_transaction
  BY <1>2 DEF Endures, Follows
<1> QED
  BY <1>2, <1>3, <1>5, <1>6, <1>7 DEF Unlocked

\* The transaction a commit makes one of the committed.
Committer(s, own) == IF own # None /\ ~s.transactions[own].read_only THEN {own} ELSE {}

\* An attempt that applies the writes; q is the past after it.
Applies(s, p, shown, done, own, w, q, doc, r) ==
    /\ StoreInv(r, q) /\ Views(r, q, shown, done \cup Committer(s, own))
    /\ q[r.version + 1] = doc
    /\ \A d \in DOMAIN w : check_precondition(w[d], p[s.version + 1][d])
    /\ own \in Committer(s, own) => own \notin done /\ Serial!AllHold(shown[own], p[s.version + 1])

LEMMA ChangedSame ==
    ASSUME NEW s, NEW u, SameHistory(s, u), NEW w
    PROVE  Changed(u, w) = Changed(s, w) /\ \A d : get(u, d) = get(s, d)
<1>1. \A d : get(u, d) = get(s, d)
  BY DEF get, SameHistory
<1> QED
  BY <1>1 DEF Changed

LEMMA ViewsDone ==
    ASSUME NEW s, NEW p, NEW shown, NEW done, Views(s, p, shown, done),
           NEW also, also \subseteq Ids,
           \A t \in also : t <= s.next_transaction /\ ~Readable(s.transactions[t])
    PROVE  Views(s, p, shown, done \cup also)
BY DEF Views

-----------------------------------------------------------------------------
(* The transaction a commit ends is read no more.                           *)
LEMMA FinishStore ==
    ASSUME NEW s, NEW p, StoreInv(s, p), NEW own, own # None => own \in ActiveOf(s), NEW at \in Nat,
           NEW f, f = Finish(s, own), NEW r, r = compact(f, at)
    PROVE  /\ StoreInv(r, p) /\ Follows(s, r)
           /\ own # None => own \in Ids /\ own <= r.next_transaction /\ ~Readable(r.transactions[own])
<1>1. CASE own = None
  <2>1. f = s
    BY <1>1 DEF Finish
  <2> QED
    BY <1>1, <2>1, CompactStore
<1>2. CASE own # None
  <2>1. f = EndActive(s, {own}, "Committed")
    BY <1>2 DEF Finish
  <2>2. EndState(s, "Committed") /\ {own} \subseteq ActiveOf(s)
    BY <1>2 DEF EndState
  <2>3. StoreInv(f, p) /\ Follows(s, f) /\ Ages(EndedAs(s, own, "Committed"), f.transactions[own])
    BY <2>1, <2>2, EndActiveStore
  <2>4. StoreInv(r, p) /\ Follows(f, r)
    BY <2>3, CompactStore
  <2>5. Follows(s, r)
    BY <2>3, <2>4, FollowsFurther
  <2>6. own \in Ids /\ s.transactions[own].state = "Active"
    BY <1>2 DEF ActiveOf
  <2>7. PICK y : y = EndedAs(s, own, "Committed")
    OBVIOUS
  <2>8. IsTransaction(s.transactions[own])
    BY <2>6 DEF StoreInv, Core, Transactions
  <2>9. y.state = "Committed"
    BY <2>2, <2>6, <2>7, <2>8, EndedAsIs
  <2>10. ~Readable(y)
    BY <2>9 DEF Readable
  <2>11. Readable(r.transactions[own]) => Readable(f.transactions[own])
    BY <2>4, <2>6 DEF Follows, Ages
  <2>12. Readable(f.transactions[own]) => Readable(y)
    BY <2>3, <2>7 DEF Ages
  <2>13. own <= s.next_transaction
    <3>1. s.transactions[own] # NoTransaction
      BY <2>6, NothingIs
    <3>2. own \in Nat /\ s.next_transaction \in Nat
      BY <2>6, StoreAssumption DEF StoreInv, Core, Transactions
    <3>3. ~ (own > s.next_transaction)
      BY <2>6, <3>1 DEF StoreInv, Core, Transactions
    <3> QED
      BY <3>2, <3>3
  <2>14. r.next_transaction = s.next_transaction
    BY <2>5 DEF Follows
  <2> QED
    BY <1>2, <2>4, <2>5, <2>6, <2>10, <2>11, <2>12, <2>13, <2>14
<1> QED
  BY <1>1, <1>2

\* The store r a commit leaves.
Published(s, shown, done, own, owner, w, live, q, doc, r) ==
    /\ StoreInv(r, q) /\ Views(r, q, shown, done \cup Committer(s, own))
    /\ q[r.version + 1] = doc
    /\ Marks(s, r, own, owner, w, live)

(* What a commit found free of locks does once it is admitted.              *)
LEMMA AppliedStore ==
    ASSUME NEW s, NEW p, NEW shown, NEW done, NEW own, NEW owner, NEW w \in Batches \cup Seeds, NEW live,
           NEW u, Unlocked(s, p, shown, done, own, owner, w, live, u),
           own # None => own \in ActiveOf(u), NEW at \in Nat, NEW time,
           NEW changed, changed = Changed(s, w), NEW doc, doc = Serial!Result(w, p[s.version + 1]),
           NEW q, q = PastAfter(p, changed, doc),
           NEW r, r = compact(Finish(Stamped(u, w, own, time), own), at)
    PROVE  Published(s, shown, done, own, owner, w, live, q, doc, r)
<1>1. /\ StoreInv(u, p) /\ Views(u, p, shown, done) /\ SameHistory(s, u)
      /\ Marks(s, u, own, owner, w, live)
  BY DEF Unlocked
<1>2. PICK st : st = Stamped(u, w, own, time)
  OBVIOUS
<1>3. PICK f : f = Finish(st, own)
  OBVIOUS
<1>4. changed = Changed(u, w) /\ doc = Serial!Result(w, p[u.version + 1])
  <2>1. u.version = s.version
    BY <1>1 DEF SameHistory
  <2> QED
    BY <1>1, <2>1, ChangedSame
<1>5. StoreInv(st, q) /\ Unmoved(u, st) /\ Extends(p, q) /\ q[st.version + 1] = doc
  BY <1>1, <1>2, <1>4, StampedStore
<1>6. Views(st, q, shown, done)
  BY <1>1, <1>5, ViewsLonger
<1>7. st.transactions = u.transactions
  BY <1>5 DEF Unmoved
<1>8. own # None => own \in ActiveOf(st)
  BY <1>7 DEF ActiveOf
<1>9. r = compact(f, at)
  BY <1>2, <1>3
<1>10. /\ StoreInv(r, q) /\ Follows(st, r)
       /\ own # None => own \in Ids /\ own <= r.next_transaction /\ ~Readable(r.transactions[own])
  BY <1>3, <1>5, <1>8, <1>9, FinishStore
<1>11. Views(r, q, shown, done)
  BY <1>6, <1>10, ViewsFollow
<1>12. PICK also : also = Committer(s, own)
  OBVIOUS
<1>13. also \subseteq Ids /\ \A t \in also : t <= r.next_transaction /\ ~Readable(r.transactions[t])
  BY <1>10, <1>12 DEF Committer
<1>14. Views(r, q, shown, done \cup also)
  BY <1>11, <1>13, ViewsDone
<1>15. q[r.version + 1] = doc
  <2>1. r.version = st.version
    BY <1>10 DEF Follows
  <2> QED
    BY <1>5, <2>1
<1>16. Calm(u, st)
  BY <1>7 DEF Calm
<1>17. Calm(u, r)
  BY <1>10, <1>16, FollowsCalm, CalmFurther
<1>18. Marks(s, r, own, owner, w, live)
  BY <1>1, <1>17, MarksLater
<1> QED
  BY <1>10, <1>12, <1>14, <1>15, <1>18 DEF Published

(* A commit past the locks: refused by a precondition or by the admission, or applied. *)
LEMMA CommitFreeStore ==
    ASSUME NEW s, NEW p, NEW shown, NEW done, NEW own, NEW owner, NEW w \in Batches \cup Seeds, NEW live,
           NEW free, NEW u, u = free.s, Unlocked(s, p, shown, done, own, owner, w, live, u),
           free.answer = "ok" /\ own # None => own \in ActiveOf(u), NEW at \in Nat, NEW admitted,
           NEW changed, changed = Changed(s, w), NEW doc, doc = Serial!Result(w, p[s.version + 1]),
           NEW q, q = PastAfter(p, changed, doc),
           own \in Committer(s, own) =>
              own \notin done /\ Serial!AllHold(shown[own], p[s.version + 1]),
           NEW o, o = CommitFree(free, u, w, own, admitted, at)
    PROVE  /\ o.answer # "ok" => Unapplied(s, p, shown, done, own, owner, w, live, o.s)
           /\ o.answer = "ok" => /\ Applies(s, p, shown, done, own, w, q, doc, o.s)
                                 /\ Marks(s, o.s, own, owner, w, live)
<1>1. StoreInv(u, p) /\ SameHistory(s, u)
  BY DEF Unlocked
<1>2. Follows(u, u)
  BY FollowsItself
<1>3. CASE free.answer # "ok"
  <2>1. o = free
    BY <1>3 DEF CommitFree
  <2>2. Unapplied(s, p, shown, done, own, owner, w, live, u)
    BY <1>1, <1>2, UnappliedUnlocked
  <2> QED
    BY <1>3, <2>1, <2>2
<1>4. CASE free.answer = "ok" /\ \E d \in DOMAIN w : ~check_precondition(w[d], get(u, d).value)
  <2>1. PICK r : r = IF own = None THEN u ELSE EndActive(u, {own}, "CommitRefused")
    OBVIOUS
  <2>2. o = Outcome(r, "error")
    BY <1>4, <2>1 DEF CommitFree
  <2>3. o.s = r /\ o.answer = "error"
    BY <2>2 DEF Outcome
  <2>4. StoreInv(r, p) /\ Follows(u, r)
    <3>1. CASE own = None
      BY <1>1, <1>2, <2>1, <3>1
    <3>2. CASE own # None
      <4>1. {own} \subseteq ActiveOf(u) /\ EndState(u, "CommitRefused")
        BY <1>4, <3>2 DEF EndState
      <4>2. r = EndActive(u, {own}, "CommitRefused")
        BY <2>1, <3>2
      <4> QED
        BY <1>1, <4>1, <4>2, EndActiveStore
    <3> QED
      BY <3>1, <3>2
  <2>5. Unapplied(s, p, shown, done, own, owner, w, live, r)
    BY <2>4, UnappliedUnlocked
  <2> QED
    BY <2>3, <2>5
<1>5. CASE free.answer = "ok" /\ (\A d \in DOMAIN w : check_precondition(w[d], get(u, d).value)) /\ ~admitted
  <2>1. o = Outcome(u, "error")
    BY <1>5 DEF CommitFree
  <2>2. o.s = u /\ o.answer = "error"
    BY <2>1 DEF Outcome
  <2>3. Unapplied(s, p, shown, done, own, owner, w, live, u)
    BY <1>1, <1>2, UnappliedUnlocked
  <2> QED
    BY <2>2, <2>3
<1>6. CASE free.answer = "ok" /\ (\A d \in DOMAIN w : check_precondition(w[d], get(u, d).value)) /\ admitted
  <2>1. PICK time : time = next_commit_time(u, at)
    OBVIOUS
  <2>2. PICK r : r = compact(Finish(Stamped(u, w, own, time), own), at)
    OBVIOUS
  <2>3. o = Outcome(r, "ok")
    BY <1>6, <2>1, <2>2 DEF CommitFree
  <2>4. o.s = r /\ o.answer = "ok"
    BY <2>3 DEF Outcome
  <2>5. own # None => own \in ActiveOf(u)
    BY <1>6
  <2>6. Published(s, shown, done, own, owner, w, live, q, doc, r)
    BY <2>2, <2>5, AppliedStore
  <2>7. \A d \in DOMAIN w : check_precondition(w[d], p[s.version + 1][d])
    <3> TAKE d \in DOMAIN w
    <3>1. d \in Docs /\ u.version = s.version /\ History(u, p)
      BY <1>1, BatchAssumption DEF SameHistory, StoreInv
    <3>2. get(u, d).value = p[s.version + 1][d]
      BY <3>1, GetIs
    <3> QED
      BY <1>6, <3>2
  <2>8. Applies(s, p, shown, done, own, w, q, doc, r)
    BY <2>6, <2>7 DEF Applies, Published
  <2> QED
    BY <2>4, <2>6, <2>8 DEF Published
<1> QED
  BY <1>3, <1>4, <1>5, <1>6

-----------------------------------------------------------------------------
\* Only the commit of a read-write transaction sacrifices anyone.
Rightful(s, r, own) ==
    \A t \in Ids : r.transactions[t].deadlock_victim /\ ~s.transactions[t].deadlock_victim =>
        own \in Ids /\ ~s.transactions[own].read_only

(* A read-only transaction has no writes, and meets no locks.               *)
LEMMA SoundIsRightful ==
    ASSUME NEW s, NEW u, Follows(s, u), NEW own, NEW w, NEW at,
           own # None => Ready(u, own, at) /\ Sound(u, own, w),
           NEW owner, NEW live, NEW r, Marks(s, r, own, owner, w, live)
    PROVE  Rightful(s, r, own)
<1> SUFFICES ASSUME NEW t \in Ids, r.transactions[t].deadlock_victim, ~s.transactions[t].deadlock_victim
             PROVE  own \in Ids /\ ~s.transactions[own].read_only
  BY DEF Rightful
<1>1. YoungerOf(s, t, own, w, live)
  BY DEF Marks, Sacrifices
<1>2. PICK h \in Ids : Deadlocked(s, h, own, w, live)
  BY <1>1 DEF YoungerOf
<1>3. own \in Ids /\ own # None /\ h \in lock_holders(s, own, w)
  BY <1>2, StoreAssumption DEF Deadlocked, None
<1>4. DOMAIN w # {}
  BY <1>3 DEF lock_holders, holder_locks_writes
<1>5. ~u.transactions[own].read_only /\ u.transactions[own].state = "Active"
  BY <1>3, <1>4 DEF Sound, Ready, ActiveOf
<1>6. u.transactions[own].read_only = s.transactions[own].read_only
  BY <1>3, <1>5 DEF Follows, Ages
<1> QED
  BY <1>3, <1>5, <1>6

LEMMA CalmIsRightful ==
    ASSUME NEW s, NEW r, Calm(s, r), NEW own
    PROVE  Rightful(s, r, own)
BY DEF Rightful, Calm

\* What one attempt at a commit does.
Commits(s, p, shown, done, own, owner, w, live, q, doc, o) ==
    /\ o.answer # "ok" => Unapplied(s, p, shown, done, own, owner, w, live, o.s)
    /\ o.answer = "ok" => Applies(s, p, shown, done, own, w, q, doc, o.s)
    /\ Marks(s, o.s, own, owner, w, live)
    /\ Rightful(s, o.s, own)

LEMMA ValidatedIs ==
    ASSUME NEW s, NEW p, StoreInv(s, p), NEW own, own = None \/ own \in Ids, NEW w, NEW at \in Nat,
           NEW v, v = IF own = None THEN Outcome(s, "ok") ELSE validate_transaction_commit(s, own, w, at)
    PROVE  /\ StoreInv(v.s, p) /\ Follows(s, v.s)
           /\ v.answer = "ok" => SameHistory(s, v.s)
           /\ v.answer = "ok" /\ own # None => Ready(v.s, own, at) /\ Sound(v.s, own, w)
<1>1. CASE own = None
  <2>1. v.s = s /\ v.answer = "ok"
    BY <1>1 DEF Outcome
  <2> QED
    BY <1>1, <2>1, FollowsItself
<1>2. CASE own # None
  <2>1. v = validate_transaction_commit(s, own, w, at) /\ own \in Ids
    BY <1>2
  <2> QED
    BY <2>1, ValidateIs
<1> QED
  BY <1>1, <1>2

(* Everything the transaction was shown is still true when it commits.      *)
LEMMA CommitterIsSerial ==
    ASSUME NEW s, NEW p, StoreInv(s, p), NEW shown, NEW done, Views(s, p, shown, done),
           NEW u, StoreInv(u, p), Follows(s, u), SameHistory(s, u), NEW own, NEW w, NEW at,
           own # None => Ready(u, own, at) /\ Sound(u, own, w), own \in Committer(s, own)
    PROVE  own \notin done /\ Serial!AllHold(shown[own], p[s.version + 1])
<1>1. own # None /\ ~s.transactions[own].read_only
  BY DEF Committer
<1>2. own \in ActiveOf(u) /\ own \in Ids /\ u.transactions[own].state = "Active"
  BY <1>1 DEF Ready, ActiveOf
<1>3. u.transactions[own].read_only = s.transactions[own].read_only
  BY <1>2 DEF Follows, Ages
<1>4. ~u.transactions[own].read_only
  BY <1>1, <1>3
<1>5. ~transaction_conflicted(u, own)
  BY <1>1, <1>4 DEF Sound
<1>6. Views(u, p, shown, done)
  BY ViewsFollow
<1>7. Serial!AllHold(shown[own], p[u.version + 1]) /\ own \notin done
  BY <1>2, <1>4, <1>5, <1>6, SerialNow
<1>8. u.version = s.version
  BY DEF SameHistory
<1> QED
  BY <1>7, <1>8

LEMMA CommitStore ==
    ASSUME NEW s, NEW p, StoreInv(s, p), NEW shown, NEW done, Views(s, p, shown, done),
           NEW own, own = None \/ own \in Ids, NEW owner, NEW w \in Batches \cup Seeds, NEW live,
           NEW at \in Nat, NEW admitted,
           NEW changed, changed = Changed(s, w), NEW doc, doc = Serial!Result(w, p[s.version + 1]),
           NEW q, q = PastAfter(p, changed, doc),
           NEW o, o = commit_with_history_admission_owned(s, w, own, owner, live, admitted, at)
    PROVE  Commits(s, p, shown, done, own, owner, w, live, q, doc, o)
<1>1. PICK v : v = IF own = None THEN Outcome(s, "ok") ELSE validate_transaction_commit(s, own, w, at)
  OBVIOUS
<1>2. /\ StoreInv(v.s, p) /\ Follows(s, v.s)
      /\ v.answer = "ok" => SameHistory(s, v.s)
      /\ v.answer = "ok" /\ own # None => Ready(v.s, own, at) /\ Sound(v.s, own, w)
  BY <1>1, ValidatedIs
<1>3. o = CommitValid(v, w, own, owner, live, admitted, at)
  BY <1>1 DEF commit_with_history_admission_owned
<1>4. CASE v.answer # "ok"
  <2>1. o = v
    BY <1>3, <1>4 DEF CommitValid
  <2>2. Unapplied(s, p, shown, done, own, owner, w, live, v.s)
    BY <1>2, UnappliedFollows
  <2>3. Rightful(s, v.s, own)
    BY <1>2, FollowsCalm, CalmIsRightful
  <2> QED
    BY <1>4, <2>1, <2>2, <2>3 DEF Commits, Unapplied
<1>5. CASE v.answer = "ok"
  <2>1. PICK free : free = check_contention(v.s, w, own, owner, live, at)
    OBVIOUS
  <2>2. PICK u : u = free.s
    OBVIOUS
  <2>3. o = CommitFree(free, u, w, own, admitted, at)
    BY <1>3, <1>5, <2>1, <2>2 DEF CommitValid, CommitContended
  <2>4. PICK x : x = v.s
    OBVIOUS
  <2>5. StoreInv(x, p) /\ Follows(s, x) /\ SameHistory(s, x)
        /\ (own # None => Ready(x, own, at) /\ Sound(x, own, w))
    BY <1>2, <1>5, <2>4
  <2>6. own # None => Ready(x, own, at)
    BY <2>5
  <2>7. free = check_contention(x, w, own, owner, live, at)
    BY <2>1, <2>4
  <2>8. Contended(x, p, own, owner, w, live, free)
    BY <2>5, <2>6, <2>7, ContentionIs
  <2>9. /\ Unlocked(s, p, shown, done, own, owner, w, live, u)
        /\ free.answer = "ok" /\ own # None => own \in ActiveOf(u)
    BY <2>2, <2>5, <2>8, UnlockedIs
  <2>10. own \in Committer(s, own) =>
            own \notin done /\ Serial!AllHold(shown[own], p[s.version + 1])
    BY <2>5, CommitterIsSerial
  <2>11. /\ o.answer # "ok" => Unapplied(s, p, shown, done, own, owner, w, live, o.s)
         /\ o.answer = "ok" => /\ Applies(s, p, shown, done, own, w, q, doc, o.s)
                               /\ Marks(s, o.s, own, owner, w, live)
    BY <2>2, <2>3, <2>9, <2>10, CommitFreeStore
  <2>12. Marks(s, o.s, own, owner, w, live)
    BY <2>11 DEF Unapplied
  <2>13. Rightful(s, o.s, own)
    BY <2>5, <2>12, SoundIsRightful
  <2> QED
    BY <2>11, <2>12, <2>13 DEF Commits
<1> QED
  BY <1>4, <1>5

-----------------------------------------------------------------------------
(* The beginning.                                                           *)

LEMMA EmptyStoreIs ==
    ASSUME NEW scope \in Scopes, NEW max \in Nat \ {0}, NEW s, s = EmptyStore(scope, max),
           NEW p, p = <<[d \in Docs |-> Absent]>>
    PROVE  StoreInv(s, p)
<1>1. /\ IsStore(s) /\ s.scope = scope /\ s.max_versions_per_path = max
      /\ s.history = [d \in Docs |-> {}] /\ s.version = 0 /\ s.next_transaction = 0
      /\ s.transactions = [t \in Ids |-> NoTransaction] /\ s.active_count = 0
      /\ s.active_deadlines = {} /\ s.active_versions = <<>> /\ s.active_read_write = {}
      /\ s.ledger = 0 /\ s.finished = {} /\ s.evictable = {} /\ s.finished_deadlines = {}
      /\ s.commit_times = {} /\ s.compaction_floor = 0 /\ s.capacity_floor = 0
  BY DEF EmptyStore, IsStore, StoreFields
<1>2. \A t \in Ids : s.transactions[t] = NoTransaction
  BY <1>1
<1>3. ActiveOf(s) = {} /\ EndedOf(s) = {} /\ EvictableOf(s) = {}
  BY <1>2, NothingIs DEF ActiveOf, EndedOf, EvictableOf
<1>4. Transactions(s)
  BY <1>1, <1>2, NothingIs DEF Transactions
<1>5. Counts(s.transactions, {}) = <<>>
  BY DEF Counts
<1>6. Book(s)
  BY <1>1, <1>3, <1>5, FS_EmptySet, BytesEmpty DEF Book, Pairs
<1>7. Core(s)
  BY <1>1, <1>4, <1>6 DEF Core
<1>8. Bounded(s)
  BY <1>3, FS_EmptySet, StoreAssumption DEF Bounded
<1>9. p \in Seq([Docs -> AnyValue]) /\ Len(p) = 1 /\ p[1] = [d \in Docs |-> Absent]
  BY DEF AnyValue
<1>10. \A d \in Docs : get_at(s, d, 0).value = Absent
  <2> TAKE d \in Docs
  <2>1. {e \in s.history[d] : e.version <= 0} = {}
    BY <1>1
  <2> QED
    BY <2>1 DEF get_at, Newest, NoDocument
<1>11. Answers(s, p, 0)
  BY <1>9, <1>10 DEF Answers
<1>12. History(s, p)
  BY <1>1, <1>9, <1>11 DEF History
<1>13. SnapshotsKept(s)
  BY <1>2, <1>3, NothingIs DEF SnapshotsKept
<1> QED
  BY <1>7, <1>8, <1>12, <1>13 DEF StoreInv

LEMMA EmptyViews ==
    ASSUME NEW s, \A t \in Ids : s.transactions[t] = NoTransaction, NEW p,
           NEW shown, shown = [t \in Ids |-> {}]
    PROVE  Views(s, p, shown, {})
<1>1. \A t \in Ids : ViewOf(s.transactions[t], p, shown[t])
  BY NothingIs DEF ViewOf, Readable
<1> QED
  BY <1>1 DEF Views

-----------------------------------------------------------------------------
LEMMA NoRequestIs ==
    /\ IsRequest(NoRequest) /\ ~NoRequest.live
    /\ NoRequest = [f \in RequestFields |-> NoRequest[f]]
BY DEF IsRequest, NoRequest, RequestFields

LEMMA ConfigIs ==
    ASSUME NEW c \in Configs
    PROVE  /\ c.scope \in Scopes /\ c.max_versions \in Nat \ {0}
           /\ c.ids \in Nat /\ 1 .. c.ids \subseteq Ids
           /\ c.requests \in Nat /\ 1 .. c.requests \subseteq Requests
           /\ c.batches \subseteq Batches
BY RequestAssumption

\* The documents of a database nothing was ever committed to.
Blank == [d \in Docs |-> Absent]

LEMMA AppendOne ==
    ASSUME NEW x, NEW y, NEW q, q = Append(<<x>>, y)
    PROVE  q = <<x, y>> /\ Len(q) = 2
<1>1. PICK S : S = {x, y}
  OBVIOUS
<1>2. x \in S /\ y \in S
  BY <1>1
<1>3. <<x>> \in Seq(S) /\ Len(<<x>>) = 1
  BY <1>2
<1>4. q \in Seq(S) /\ Len(q) = 2 /\ q[1] = x /\ q[2] = y
  BY <1>2, <1>3
<1>5. PICK z : z = <<x, y>>
  OBVIOUS
<1>6. z \in Seq(S) /\ Len(z) = 2 /\ z[1] = x /\ z[2] = y
  BY <1>2, <1>5
<1>7. \A i \in 1 .. 2 : q[i] = z[i]
  <2>1. \A i \in 1 .. 2 : i = 1 \/ i = 2
    OBVIOUS
  <2> QED
    BY <1>4, <1>6, <2>1
<1>8. q = z
  <2>1. q = [i \in 1 .. 2 |-> q[i]] /\ z = [i \in 1 .. 2 |-> z[i]]
    BY <1>4, <1>6
  <2> QED
    BY <1>7, <2>1
<1> QED
  BY <1>4, <1>5, <1>8

(* The store a run starts with.                                             *)
LEMMA SeededStore ==
    ASSUME NEW c \in Configs, NEW seed \in Seeds, NEW s, s = Seeded(c, seed),
           NEW p, p = IF s.version = 0 THEN <<Documents(s)>> ELSE <<Blank, Documents(s)>>,
           NEW shown, shown = [t \in Ids |-> {}]
    PROVE  /\ StoreInv(s, p) /\ Views(s, p, shown, {})
           /\ \A t \in Ids : s.transactions[t].waits = {}
<1>1. PICK e : e = EmptyStore(c.scope, c.max_versions)
  OBVIOUS
<1>2. PICK b : b = <<Blank>>
  OBVIOUS
<1>3. StoreInv(e, b)
  BY <1>1, <1>2, ConfigIs, EmptyStoreIs DEF Blank
<1>4. e.version = 0 /\ e.transactions = [t \in Ids |-> NoTransaction]
  BY <1>1 DEF EmptyStore
<1>5. \A t \in Ids : e.transactions[t] = NoTransaction
  BY <1>4
<1>6. Views(e, b, shown, {})
  BY <1>5, EmptyViews
<1>7. PICK o : o = commit_with_history_admission_owned(e, seed, None, 0, {}, TRUE, 0)
  OBVIOUS
<1>8. s = o.s
  BY <1>1, <1>7 DEF Seeded
<1>9. PICK changed, doc : changed = Changed(e, seed) /\ doc = Serial!Result(seed, b[e.version + 1])
  OBVIOUS
<1>10. PICK q : q = PastAfter(b, changed, doc)
  OBVIOUS
<1>11. Commits(e, b, shown, {}, None, 0, seed, {}, q, doc, o)
  BY <1>3, <1>6, <1>7, <1>9, <1>10, CommitStore
<1>12. \A t \in Ids : s.transactions[t].waits = {}
  <2>1. Marks(e, s, None, 0, seed, {})
    BY <1>8, <1>11 DEF Commits
  <2>2. \A t \in Ids : e.transactions[t].waits = {}
    BY <1>5, NothingIs
  <2> QED
    BY <2>1, <2>2 DEF Marks, NewWaits
<1>13. CASE o.answer # "ok"
  <2>1. StoreInv(s, b) /\ Views(s, b, shown, {}) /\ s.version = 0
    BY <1>4, <1>8, <1>11, <1>13 DEF Commits, Unapplied
  <2>2. Documents(s) = b[1]
    BY <2>1, DocumentsAre DEF StoreInv
  <2>3. p = b
    BY <1>2, <2>1, <2>2
  <2> QED
    BY <1>12, <2>1, <2>3
<1>14. CASE o.answer = "ok"
  <2>1. /\ StoreInv(s, q) /\ Views(s, q, shown, {} \cup Committer(e, None)) /\ q[s.version + 1] = doc
    BY <1>8, <1>11, <1>14 DEF Commits, Applies
  <2>2. {} \cup Committer(e, None) = {}
    BY DEF Committer
  <2>3. Views(s, q, shown, {})
    BY <2>1, <2>2
  <2>4. s.version \in Nat /\ Len(q) = s.version + 1 /\ Documents(s) = doc
    BY <2>1, DocumentsAre DEF StoreInv, History
  <2>5. CASE changed = {}
    <3>1. q = <<Blank>>
      BY <1>2, <1>10, <2>5 DEF PastAfter
    <3>2. s.version = 0
      BY <2>4, <3>1
    <3>3. q = <<Documents(s)>>
      BY <2>1, <2>4, <3>1, <3>2
    <3> QED
      BY <1>12, <2>1, <2>3, <3>2, <3>3
  <2>6. CASE changed # {}
    <3>1. q = Append(<<Blank>>, doc)
      BY <1>2, <1>10, <2>6 DEF PastAfter
    <3>2. q = <<Blank, doc>> /\ Len(q) = 2
      BY <3>1, AppendOne
    <3>3. s.version # 0
      BY <2>4, <3>2
    <3> QED
      BY <1>12, <2>1, <2>3, <2>4, <3>2, <3>3
  <2> QED
    BY <2>5, <2>6
<1> QED
  BY <1>13, <1>14

LEMMA InitInv ==
    ASSUME Init
    PROVE  FirestoreInv
<1>1. config \in Configs /\ now = 0 /\ committed = {} /\ seen = [t \in Ids |-> {}]
  BY DEF Init
<1>2. PICK seed \in Seeds : store = Seeded(config, seed)
  BY DEF Init
<1>3. past = IF store.version = 0 THEN <<Documents(store)>> ELSE <<Blank, Documents(store)>>
  BY DEF Init, Blank
<1>4. /\ StoreInv(store, past) /\ Views(store, past, seen, {})
      /\ \A t \in Ids : store.transactions[t].waits = {}
  BY <1>1, <1>2, <1>3, SeededStore
<1>5. Waits(store)
  BY <1>4 DEF Waits
<1>6. RequestInv
  BY NoRequestIs DEF Init, RequestInv
<1> QED
  BY <1>1, <1>4, <1>5, <1>6 DEF FirestoreInv

-----------------------------------------------------------------------------
(* Requests.                                                                *)

\* y is what is left of the request x in flight.
KeepsOn(x, y) ==
    /\ IsRequest(y) /\ y.phase # "idle"
    /\ y.live => x.live /\ y.own = x.own /\ y.writes = x.writes

\* The request z is x in flight, some of its flags aside.
Onward(x, z) ==
    /\ z = [f \in RequestFields |-> z[f]]
    /\ z.own = x.own /\ z.writes = x.writes /\ (z.live => x.live)

InFlight(x) == IsRequest(x) /\ x.phase \notin {"idle", "answered"}

LEMMA OnwardItself ==
    ASSUME NEW x, IsRequest(x)
    PROVE  Onward(x, x)
BY DEF Onward, IsRequest

LEMMA OnwardFlag ==
    ASSUME NEW x, NEW z, Onward(x, z), NEW v, NEW y,
           \/ y = [z EXCEPT !.applied = v] \/ y = [z EXCEPT !.released = v]
           \/ y = [z EXCEPT !.contended = v] \/ y = [z EXCEPT !.expired = v]
           \/ y = [z EXCEPT !.marker = v] \/ y = [z EXCEPT !.answer = v]
           \/ y = [z EXCEPT !.phase = v] \/ y = [z EXCEPT !.live = FALSE]
    PROVE  Onward(x, y)
BY DEF Onward, RequestFields

LEMMA OnwardKeeps ==
    ASSUME NEW x, InFlight(x), NEW z, Onward(x, z), z.phase \in {"trying", "refused", "leased", "waiting"}
    PROVE  KeepsOn(x, z)
BY DEF Onward, KeepsOn, InFlight, IsRequest

LEMMA AnsweredKeeps ==
    ASSUME NEW x, NEW z, NEW answer, NEW y, y = Answered(z, answer)
    PROVE  KeepsOn(x, y)
<1>1. y = [f \in RequestFields |-> y[f]] /\ y.phase = "answered" /\ y.live = FALSE
  BY DEF Answered, NoRequest, RequestFields
<1> QED
  BY <1>1 DEF KeepsOn, IsRequest

LEMMA PhaseIs ==
    ASSUME NEW z, z = [f \in RequestFields |-> z[f]], NEW v, NEW y, y = [z EXCEPT !.phase = v]
    PROVE  y.phase = v
BY DEF RequestFields

LEMMA ReturnedKeeps ==
    ASSUME NEW x, InFlight(x), NEW z, Onward(x, z), NEW answer, NEW y, y = Returned(z, answer)
    PROVE  KeepsOn(x, y)
<1>1. CASE y = Answered(z, answer)
  BY <1>1, AnsweredKeeps
<1>2. CASE y = [z EXCEPT !.phase = "waiting", !.answer = answer]
  <2>1. PICK w : w = [z EXCEPT !.phase = "waiting"]
    OBVIOUS
  <2>2. y = [w EXCEPT !.answer = answer]
    BY <1>2, <2>1
  <2>3. Onward(x, w)
    BY <2>1, OnwardFlag
  <2>4. Onward(x, y)
    BY <2>2, <2>3, OnwardFlag
  <2>5. y.phase = "waiting"
    BY <1>2 DEF Onward, RequestFields
  <2> QED
    BY <2>4, <2>5, OnwardKeeps
<1> QED
  BY <1>1, <1>2 DEF Returned

(* A step of one request leaves the requests and the waits in order.        *)
LEMMA RequestStep ==
    ASSUME RequestInv, Waits(store), NEW r \in Requests, req[r].phase # "idle",
           NEW y, KeepsOn(req[r], y), req' = [req EXCEPT ![r] = y],
           NewWaits(store, store', req[r].own, r, req[r].writes, Live)
    PROVE  RequestInv' /\ Waits(store)'
<1>1. req'[r] = y /\ \A q \in Requests \ {r} : req'[q] = req[q]
  BY DEF RequestInv
<1>2. RequestInv'
  <2>1. req' = [q \in Requests |-> req'[q]]
    BY DEF RequestInv
  <2>2. \A q \in Requests : IsRequest(req'[q])
    BY <1>1 DEF RequestInv, KeepsOn
  <2> QED
    BY <2>1, <2>2 DEF RequestInv
<1>3. \A q \in Requests : /\ req'[q].live => req[q].live /\ req'[q].own = req[q].own
                                             /\ req'[q].writes = req[q].writes
                          /\ req[q].phase # "idle" => req'[q].phase # "idle"
  BY <1>1 DEF KeepsOn
<1>4. Waits(store)'
  <2> SUFFICES ASSUME NEW t \in Ids, NEW w \in store'.transactions[t].waits
               PROVE  /\ w.owner \in Requests /\ req'[w.owner].phase # "idle"
                      /\ req'[w.owner].live => req'[w.owner].own = t /\ req'[w.owner].writes = w.writes
    BY DEF Waits
  <2>1. CASE w \in store.transactions[t].waits
    <3>1. /\ w.owner \in Requests /\ req[w.owner].phase # "idle"
          /\ req[w.owner].live => req[w.owner].own = t /\ req[w.owner].writes = w.writes
      BY <2>1 DEF Waits
    <3> QED
      BY <1>3, <3>1
  <2>2. CASE t = req[r].own /\ w = [owner |-> r, writes |-> req[r].writes]
    <3>1. w.owner = r /\ w.writes = req[r].writes
      BY <2>2
    <3> QED
      BY <1>3, <2>2, <3>1
  <2> QED
    BY <2>1, <2>2 DEF NewWaits
<1> QED
  BY <1>2, <1>4

LEMMA WaitsCalm ==
    ASSUME RequestInv, Waits(store), req' = req, Calm(store, store')
    PROVE  RequestInv' /\ Waits(store)'
BY DEF RequestInv, Waits, Calm

LEMMA StartStep ==
    ASSUME RequestInv, Waits(store), store' = store, NEW r \in Requests, req[r].phase = "idle",
           NEW y, IsRequest(y), y.phase # "idle", req' = [req EXCEPT ![r] = y]
    PROVE  RequestInv' /\ Waits(store)'
<1>1. req'[r] = y /\ \A q \in Requests \ {r} : req'[q] = req[q]
  BY DEF RequestInv
<1>2. RequestInv'
  <2>1. req' = [q \in Requests |-> req'[q]]
    BY DEF RequestInv
  <2>2. \A q \in Requests : IsRequest(req'[q])
    BY <1>1 DEF RequestInv
  <2> QED
    BY <2>1, <2>2 DEF RequestInv
<1>3. Waits(store)'
  <2> SUFFICES ASSUME NEW t \in Ids, NEW w \in store'.transactions[t].waits
               PROVE  /\ w.owner \in Requests /\ req'[w.owner].phase # "idle"
                      /\ req'[w.owner].live => req'[w.owner].own = t /\ req'[w.owner].writes = w.writes
    BY DEF Waits
  <2>1. /\ w.owner \in Requests /\ req[w.owner].phase # "idle"
        /\ req[w.owner].live => req[w.owner].own = t /\ req[w.owner].writes = w.writes
    BY DEF Waits
  <2>2. w.owner # r
    BY <2>1
  <2> QED
    BY <1>1, <2>1, <2>2
<1> QED
  BY <1>2, <1>3

-----------------------------------------------------------------------------
(* What every step keeps.                                                   *)

\* A step of the serial store, or none.
SerialStep == [Serial!Next]_(Serial!vars)

\* The transactions sacrificed by a step are the younger of a deadlock.
VictimStep ==
    \A t \in Ids :
        store'.transactions[t].deadlock_victim /\ ~store.transactions[t].deadlock_victim =>
            \E r, q \in Requests :
                /\ req[r].own = t /\ Blocks(req[q].own, r)
                /\ req[q].own \in Ids /\ Blocks(t, q)
                /\ Older(store, req[q].own, t)
                /\ \/ req[r].phase = "trying" /\ req[q].live
                   \/ req[q].phase = "trying" /\ req[r].live

StepKeeps == FirestoreInv' /\ SerialStep /\ VictimStep

LEMMA SameDocuments ==
    ASSUME NEW s, NEW p, StoreInv(s, p), NEW r, StoreInv(r, p)
    PROVE  Documents(r) = Documents(s)
<1>1. s.version \in Nat /\ Len(p) = s.version + 1 /\ r.version \in Nat /\ Len(p) = r.version + 1
  BY DEF StoreInv, History
<1>2. r.version = s.version
  BY <1>1
<1>3. Documents(s) = p[s.version + 1] /\ Documents(r) = p[r.version + 1]
  BY DocumentsAre DEF StoreInv
<1> QED
  BY <1>2, <1>3

LEMMA CalmVictims ==
    ASSUME Calm(store, store')
    PROVE  VictimStep
BY DEF VictimStep, Calm

LEMMA QuietStep ==
    ASSUME FirestoreInv, config' = config, now' \in Nat, past' = past, seen' = seen,
           committed' = committed, StoreInv(store', past), Views(store', past, seen, committed),
           Calm(store, store'), RequestInv', Waits(store)'
    PROVE  StepKeeps
<1>1. StoreInv(store, past)
  BY DEF FirestoreInv
<1>2. Documents(store') = Documents(store)
  BY <1>1, SameDocuments
<1>3. SerialStep
  BY <1>2 DEF SerialStep, Serial!vars
<1>4. VictimStep
  BY CalmVictims
<1>5. FirestoreInv'
  BY DEF FirestoreInv
<1> QED
  BY <1>3, <1>4, <1>5 DEF StepKeeps

LEMMA ServedStep ==
    ASSUME FirestoreInv, config' = config, now' = now, past' = past, committed' = committed, req' = req,
           NEW s, Calm(store, s),
           NEW t \in Ids, NEW o, NEW more, Served(s, past, seen, committed, t, o, more),
           store' = o.s, seen' = IF o.answer = "ok" THEN [seen EXCEPT ![t] = seen[t] \cup more] ELSE seen
    PROVE  StepKeeps
<1>1. /\ config \in Configs /\ now \in Nat
      /\ StoreInv(store, past) /\ Views(store, past, seen, committed)
      /\ RequestInv /\ Waits(store)
  BY DEF FirestoreInv
<1>2. StoreInv(store', past) /\ Calm(store, store')
  <2>1. StoreInv(store', past) /\ Calm(s, store')
    BY DEF Served
  <2> QED
    BY <2>1, CalmFurther
<1>3. RequestInv' /\ Waits(store)'
  BY <1>1, <1>2, WaitsCalm
<1>4. CASE o.answer # "ok"
  <2>1. Views(store', past, seen, committed) /\ seen' = seen
    BY <1>4 DEF Served
  <2> QED
    BY <1>1, <1>2, <1>3, <2>1, QuietStep
<1>5. CASE o.answer = "ok"
  <2>1. /\ Views(store', past, seen', committed) /\ t \notin committed
        /\ \E i \in DOMAIN past : Serial!AllHold(seen[t] \cup more, past[i])
    BY <1>5 DEF Served
  <2>2. seen = [u \in Ids |-> seen[u]]
    BY <1>1 DEF Views
  <2>3. seen'[t] = seen[t] \cup more /\ \A u \in Ids \ {t} : seen'[u] = seen[u]
    BY <1>5, <2>2
  <2>4. Documents(store') = Documents(store)
    BY <1>1, <1>2, SameDocuments
  <2>5. Serial!Observe(t)
    BY <2>1, <2>3, <2>4 DEF Serial!Observe
  <2>6. SerialStep
    BY <2>5 DEF SerialStep, Serial!Next
  <2>7. VictimStep
    BY <1>2, CalmVictims
  <2>8. FirestoreInv'
    BY <1>1, <1>2, <1>3, <2>1 DEF FirestoreInv
  <2> QED
    BY <2>6, <2>7, <2>8 DEF StepKeeps
<1> QED
  BY <1>4, <1>5

-----------------------------------------------------------------------------
(* The steps that begin, read and end.                                      *)

LEMMA InvParts ==
    ASSUME FirestoreInv
    PROVE  /\ config \in Configs /\ now \in Nat
           /\ StoreInv(store, past) /\ Views(store, past, seen, committed)
           /\ RequestInv /\ Waits(store)
BY DEF FirestoreInv

LEMMA RoomIs ==
    ASSUME FirestoreInv, Room
    PROVE  store.next_transaction + 1 \in Ids
<1>1. store.next_transaction \in Nat
  BY InvParts DEF StoreInv, Core, Transactions
<1>2. config.ids \in Nat /\ 1 .. config.ids \subseteq Ids
  BY InvParts, ConfigIs
<1>3. store.next_transaction + 1 \in 1 .. config.ids
  BY <1>1, <1>2 DEF Room
<1> QED
  BY <1>2, <1>3

\* Nothing but the store changes.
OnlyStore == /\ config' = config /\ now' = now /\ past' = past /\ seen' = seen
             /\ committed' = committed /\ req' = req

LEMMA CalmStep ==
    ASSUME FirestoreInv, OnlyStore, StoreInv(store', past), Views(store', past, seen, committed),
           Calm(store, store')
    PROVE  StepKeeps
<1>1. RequestInv' /\ Waits(store)'
  BY InvParts, WaitsCalm DEF OnlyStore
<1> QED
  BY <1>1, InvParts, QuietStep DEF OnlyStore

LEMMA FollowsStep ==
    ASSUME FirestoreInv, OnlyStore, StoreInv(store', past), Follows(store, store')
    PROVE  StepKeeps
<1>1. Views(store', past, seen, committed)
  BY InvParts, ViewsFollow
<1> QED
  BY <1>1, FollowsCalm, CalmStep

LEMMA BegunStep ==
    ASSUME FirestoreInv, NEW b, Begins(store, past, b), Begun(b)
    PROVE  StepKeeps
<1>1. OnlyStore /\ store' = b.s
  BY DEF Begun, Operated, OnlyStore
<1>2. Views(b.s, past, seen, committed)
  BY InvParts, BeginViews
<1>3. StoreInv(b.s, past) /\ Calm(store, b.s)
  BY DEF Begins
<1> QED
  BY <1>1, <1>2, <1>3, CalmStep

LEMMA BeginSteps ==
    ASSUME FirestoreInv, Room, BeginReadWrite \/ BeginReadOnly \/ \E at \in 0 .. now : BeginAt(at)
    PROVE  StepKeeps
<1>1. store.next_transaction + 1 \in Ids
  BY RoomIs
<1>2. CASE BeginReadWrite
  <2>1. PICK b : b = begin_pending(store, FALSE, TRUE, now)
    OBVIOUS
  <2>2. Begun(b)
    BY <1>2, <2>1 DEF BeginReadWrite, begin_read_write_transaction
  <2>3. Begins(store, past, b)
    BY <1>1, <2>1, InvParts, BeginPendingStore
  <2> QED
    BY <2>2, <2>3, BegunStep
<1>3. CASE BeginReadOnly
  <2>1. PICK pending \in BOOLEAN : pending = (store.scope = "Production")
    OBVIOUS
  <2>2. PICK b : b = begin_pending(store, TRUE, pending, now)
    OBVIOUS
  <2>3. Begun(b)
    BY <1>3, <2>1, <2>2 DEF BeginReadOnly, begin_read_only_transaction
  <2>4. pending = TRUE \/ pending = FALSE
    OBVIOUS
  <2>5. Begins(store, past, b)
    BY <1>1, <2>2, <2>4, InvParts, BeginPendingStore
  <2> QED
    BY <2>3, <2>5, BegunStep
<1>4. ASSUME NEW at \in 0 .. now, BeginAt(at) PROVE StepKeeps
  <2>1. PICK b : b = begin_transaction_at(store, at, now)
    OBVIOUS
  <2>2. Begun(b)
    BY <1>4, <2>1 DEF BeginAt
  <2>3. Begins(store, past, b)
    BY <1>1, <2>1, InvParts, BeginAtStore
  <2> QED
    BY <2>2, <2>3, BegunStep
<1> QED
  BY <1>2, <1>3, <1>4

LEMMA RetryStep ==
    ASSUME FirestoreInv, Room, NEW t \in Ids, Retry(t)
    PROVE  StepKeeps
<1>1. PICK b : b = retry_transaction(store, t, now)
  OBVIOUS
<1>2. Begun(b)
  BY <1>1 DEF Retry
<1>3. Begins(store, past, b)
  BY <1>1, RoomIs, InvParts, RetryStore
<1> QED
  BY <1>2, <1>3, BegunStep

(* A step that shows nothing more.                                          *)
LEMMA NothingShown ==
    ASSUME FirestoreInv, NEW t \in Ids, NEW o, Shown(t, o, {})
    PROVE  OnlyStore /\ store' = o.s
<1>1. seen = [u \in Ids |-> seen[u]]
  BY InvParts DEF Views
<1>2. seen' = IF o.answer = "ok" THEN [seen EXCEPT ![t] = seen[t] \cup {}] ELSE seen
  BY DEF Shown, Operated
<1>3. [seen EXCEPT ![t] = seen[t] \cup {}] = seen
  BY <1>1
<1>4. seen' = seen
  BY <1>2, <1>3
<1> QED
  BY <1>4 DEF Shown, Operated, OnlyStore

LEMMA ShownStep ==
    ASSUME FirestoreInv, NEW s, Calm(store, s), NEW t \in Ids, NEW o, NEW more,
           Served(s, past, seen, committed, t, o, more), Shown(t, o, more)
    PROVE  StepKeeps
<1>1. /\ store' = o.s
      /\ seen' = IF o.answer = "ok" THEN [seen EXCEPT ![t] = seen[t] \cup more] ELSE seen
      /\ config' = config /\ now' = now /\ past' = past /\ committed' = committed /\ req' = req
  BY DEF Shown, Operated
<1> QED
  BY <1>1, ServedStep

LEMMA UndisturbedStep ==
    ASSUME FirestoreInv, OnlyStore, NEW s, Calm(store, s), NEW t,
           Undisturbed(s, past, seen, committed, t, store')
    PROVE  StepKeeps
<1>1. StoreInv(store', past) /\ Views(store', past, seen, committed) /\ Calm(s, store')
  BY DEF Undisturbed
<1> QED
  BY <1>1, CalmFurther, CalmStep

LEMMA ReadStep ==
    ASSUME FirestoreInv, NEW t \in Ids, NEW d \in Docs, NEW allowed, Read(t, d, allowed)
    PROVE  StepKeeps
<1>1. PICK o : o = touch_transaction(store, t, now)
  OBVIOUS
<1>2. ReadTouched(t, o, d, allowed)
  BY <1>1 DEF Read
<1>3. Undisturbed(store, past, seen, committed, t, o.s) /\ (o.answer = "ok" => Servable(o.s, t))
  BY <1>1, InvParts, TouchTransactionIs
<1>4. CASE o.answer = "ok" /\ allowed
  <2>1. PICK g, more : g = get_in_transaction(o.s, t, d) /\ more = {ShownDocument(o.s, t, d)}
    OBVIOUS
  <2>2. Shown(t, g, more)
    BY <1>2, <1>4, <2>1 DEF ReadTouched
  <2>3. StoreInv(o.s, past) /\ Views(o.s, past, seen, committed) /\ Servable(o.s, t)
    BY <1>3, <1>4 DEF Undisturbed
  <2>4. Served(o.s, past, seen, committed, t, g, more)
    BY <2>1, <2>3, GetServed
  <2>5. Calm(store, o.s)
    BY <1>3 DEF Undisturbed
  <2> QED
    BY <2>2, <2>4, <2>5, ShownStep
<1>5. CASE ~(o.answer = "ok" /\ allowed)
  <2>1. Shown(t, o, {})
    BY <1>2, <1>5 DEF ReadTouched
  <2>2. OnlyStore /\ store' = o.s
    BY <2>1, NothingShown
  <2> QED
    BY <1>3, <2>2, CalmItself, UndisturbedStep
<1> QED
  BY <1>4, <1>5

-----------------------------------------------------------------------------
LEMMA ShownRowsAre ==
    ASSUME NEW s, NEW p, History(s, p), NEW t, NEW v, v = s.transactions[t].read_version,
           v \in s.compaction_floor .. s.version, NEW q,
           NEW D, D = {d \in Docs : Passes(q, p[v + 1][d])}
    PROVE  ShownRows(s, t, q) = RowsShown(D, p[v + 1])
<1>1. \A d \in Docs : get_at(s, d, v).value = p[v + 1][d]
  BY EntryIs
<1>2. D = {d \in Docs : Passes(q, get_at(s, d, v).value)}
  BY <1>1
<1>3. ShownRows(s, t, q) = {<<d, get_at(s, d, v).value>> : d \in {x \in Docs : Passes(q, get_at(s, x, v).value)}}
  BY DEF ShownRows
<1>4. ShownRows(s, t, q) = {<<d, get_at(s, d, v).value>> : d \in D}
  BY <1>2, <1>3
<1>5. \A d \in D : get_at(s, d, v).value = p[v + 1][d]
  BY <1>1
<1>6. {<<d, get_at(s, d, v).value>> : d \in D} = {<<d, p[v + 1][d]>> : d \in D}
  BY <1>5
<1> QED
  BY <1>4, <1>6 DEF RowsShown

LEMMA QueryStep ==
    ASSUME FirestoreInv, NEW t \in Ids, NEW q, NEW complete \in BOOLEAN, RunQuery(t, q, complete)
    PROVE  StepKeeps
<1>1. PICK o : o = touch_transaction(store, t, now)
  OBVIOUS
<1>2. QueryTouched(t, o, q, complete)
  BY <1>1 DEF RunQuery
<1>3. Undisturbed(store, past, seen, committed, t, o.s) /\ (o.answer = "ok" => Servable(o.s, t))
  BY <1>1, InvParts, TouchTransactionIs
<1>4. CASE o.answer = "ok"
  <2>1. PICK s : s = o.s
    OBVIOUS
  <2>2. StoreInv(s, past) /\ Views(s, past, seen, committed) /\ Servable(s, t) /\ Calm(store, s)
    BY <1>3, <1>4, <2>1 DEF Undisturbed
  <2>3. PICK v : v = s.transactions[t].read_version
    OBVIOUS
  <2>4. v \in s.compaction_floor .. s.version /\ History(s, past)
    BY <2>2, <2>3, ServableVersion DEF StoreInv
  <2>5. PICK D : D = {d \in Docs : Passes(q, past[v + 1][d])}
    OBVIOUS
  <2>6. PICK rows : rows = RowsShown(D, past[v + 1])
    OBVIOUS
  <2>7. ShownRows(s, t, q) = rows
    BY <2>3, <2>4, <2>5, <2>6, ShownRowsAre
  <2>8. PICK more : more = QueryShown(q, D, past[v + 1], complete)
    OBVIOUS
  <2>9. more = RowDocuments(rows) \cup (IF complete THEN {<<"query", q, rows>>} ELSE {})
    BY <2>6, <2>8 DEF QueryShown
  <2>10. PICK g : g = record_transaction_query_observation(s, t, q, complete)
    OBVIOUS
  <2>11. Shown(t, g, RowDocuments(ShownRows(s, t, q)) \cup
                        (IF complete THEN {<<"query", q, ShownRows(s, t, q)>>} ELSE {}))
    BY <1>2, <1>4, <2>1, <2>10 DEF QueryTouched
  <2>12. Shown(t, g, more)
    BY <2>7, <2>9, <2>11
  <2>13. Served(s, past, seen, committed, t, g, more)
    <3>1. D = {d \in Docs : Passes(q, past[s.transactions[t].read_version + 1][d])}
      BY <2>3, <2>5
    <3>2. more = QueryShown(q, D, past[s.transactions[t].read_version + 1], complete)
      BY <2>3, <2>8
    <3>3. Flag(complete)
      BY DEF Flag
    <3> QED
      BY <2>2, <2>10, <3>1, <3>2, <3>3, QueryServed
  <2> QED
    BY <2>2, <2>12, <2>13, ShownStep
<1>5. CASE o.answer # "ok"
  <2>1. Shown(t, o, {})
    BY <1>2, <1>5 DEF QueryTouched
  <2>2. OnlyStore /\ store' = o.s
    BY <2>1, NothingShown
  <2> QED
    BY <1>3, <2>2, CalmItself, UndisturbedStep
<1> QED
  BY <1>4, <1>5

LEMMA FinishStep ==
    ASSUME FirestoreInv, NEW t \in Ids, FinishQuery(t)
    PROVE  StepKeeps
<1>1. PICK entry \in {e \in store.transactions[t].queries : ~e.complete} :
         Shown(t, Compacted(finish_transaction_query_execution(store, t, entry)),
               IF store.transactions[t].read_only THEN {}
               ELSE {<<"query", entry.query, {<<r[1], past[r[2] + 1][r[1]]>> : r \in entry.rows}>>})
  BY DEF FinishQuery
<1>2. PICK o : o = finish_transaction_query_execution(store, t, entry)
  OBVIOUS
<1>3. PICK more : more = FinishShown(store.transactions[t], entry, past)
  OBVIOUS
<1>4. PICK c : c = Compacted(o)
  OBVIOUS
<1>5. Shown(t, c, more)
  BY <1>1, <1>2, <1>3, <1>4 DEF FinishShown, RowsThen
<1>6. entry \in store.transactions[t].queries /\ ~entry.complete
  BY <1>1
<1>7. Served(store, past, seen, committed, t, o, more)
  BY <1>2, <1>3, <1>6, InvParts, FinishServed
<1>8. StoreInv(o.s, past)
  BY <1>7 DEF Served
<1>9. StoreInv(c.s, past) /\ Follows(o.s, c.s) /\ c.answer = o.answer
  BY <1>4, <1>8, InvParts, CompactedStore
<1>10. Served(store, past, seen, committed, t, c, more)
  BY <1>7, <1>9, ServedAfter
<1> QED
  BY <1>5, <1>10, CalmItself, ShownStep

(* A read that begins its transaction.                                      *)
LEMMA ReadInNewStep ==
    ASSUME FirestoreInv, NEW b, Begins(store, past, b), NEW d \in Docs, NEW allowed,
           ReadInNewTransaction(b, d, allowed)
    PROVE  StepKeeps
<1>1. CASE b.id = None
  <2>1. Begun(b)
    BY <1>1 DEF ReadInNewTransaction
  <2> QED
    BY <2>1, BegunStep
<1>2. CASE b.id # None
  <2>1. PICK t, s : t = b.id /\ s = b.s
    OBVIOUS
  <2>2. t \in Ids /\ StoreInv(s, past) /\ Calm(store, s)
    BY <1>2, <2>1 DEF Begins
  <2>3. Views(s, past, seen, committed)
    BY <2>1, InvParts, BeginViews
  <2>4. PICK o : o = touch_transaction(s, t, now)
    OBVIOUS
  <2>5. Undisturbed(s, past, seen, committed, t, o.s) /\ (o.answer = "ok" => Servable(o.s, t))
    BY <2>2, <2>3, <2>4, InvParts, TouchTransactionIs
  <2>6. PICK u : u = o.s
    OBVIOUS
  <2>7. StoreInv(u, past) /\ Views(u, past, seen, committed) /\ Calm(s, u) /\ FollowsBut(s, u, t)
    BY <2>5, <2>6 DEF Undisturbed
  <2>8. PICK g : g = get_in_transaction(u, t, d)
    OBVIOUS
  <2>9. ReadBegun(t, o, g, d, allowed)
    BY <1>2, <2>1, <2>4, <2>6, <2>8 DEF ReadInNewTransaction, TouchBegun
  <2>10. CASE o.answer = "ok" /\ allowed /\ g.answer = "ok"
    <3>1. PICK more : more = {ShownDocument(u, t, d)}
      OBVIOUS
    <3>2. Shown(t, g, more)
      BY <2>6, <2>9, <2>10, <3>1 DEF ReadBegun
    <3>3. Servable(u, t)
      BY <2>5, <2>6, <2>10
    <3>4. Served(u, past, seen, committed, t, g, more)
      BY <2>2, <2>7, <2>8, <3>1, <3>3, GetServed
    <3>5. Calm(store, u)
      BY <2>2, <2>7, CalmFurther
    <3> QED
      BY <2>2, <3>2, <3>4, <3>5, ShownStep
  <2>11. CASE ~(o.answer = "ok" /\ allowed /\ g.answer = "ok")
    <3>1. PICK x : x = IF allowed THEN g.s ELSE u
      OBVIOUS
    <3>2. PICK r : r = abandon_transaction(x, t)
      OBVIOUS
    <3>3. PICK c : c = Outcome(r, "error")
      OBVIOUS
    <3>4. Shown(t, c, {})
      BY <2>6, <2>9, <2>11, <3>1, <3>2, <3>3 DEF ReadBegun
    <3>5. OnlyStore /\ store' = c.s
      BY <2>2, <3>4, NothingShown
    <3>6. store' = r
      BY <3>3, <3>5 DEF Outcome
    <3>7. Quiet(s, past, t, u)
      BY <2>7 DEF Quiet
    <3>8. Quiet(u, past, t, g.s)
      BY <2>2, <2>7, <2>8, GetQuiet
    <3>9. Quiet(s, past, t, g.s)
      BY <3>7, <3>8, QuietFurther
    <3>10. Quiet(s, past, t, x)
      BY <3>1, <3>7, <3>9
    <3>11. Undisturbed(s, past, seen, committed, t, r)
      BY <2>2, <2>3, <3>2, <3>10, AbandonStore
    <3> QED
      BY <2>2, <3>5, <3>6, <3>11, UndisturbedStep
  <2> QED
    BY <2>10, <2>11
<1> QED
  BY <1>1, <1>2

LEMMA NewTransactionStep ==
    ASSUME FirestoreInv, Room, NEW d \in Docs, NEW read_only \in BOOLEAN, NEW allowed,
           NewTransaction(read_only, d, allowed)
    PROVE  StepKeeps
<1>1. PICK b : b = begin_transaction(store, read_only, now)
  OBVIOUS
<1>2. ReadInNewTransaction(b, d, allowed)
  BY <1>1 DEF NewTransaction
<1>3. read_only = TRUE \/ read_only = FALSE
  OBVIOUS
<1>4. Begins(store, past, b)
  BY <1>1, <1>3, RoomIs, InvParts, BeginTransactionStore
<1> QED
  BY <1>2, <1>4, ReadInNewStep

LEMMA RetryReadStep ==
    ASSUME FirestoreInv, Room, NEW t \in Ids, NEW d \in Docs, NEW allowed, RetryWithRead(t, d, allowed)
    PROVE  StepKeeps
<1>1. PICK b : b = retry_transaction(store, t, now)
  OBVIOUS
<1>2. ReadInNewTransaction(b, d, allowed)
  BY <1>1 DEF RetryWithRead
<1>3. Begins(store, past, b)
  BY <1>1, RoomIs, InvParts, RetryStore
<1> QED
  BY <1>2, <1>3, ReadInNewStep

LEMMA RollbackStep ==
    ASSUME FirestoreInv, NEW t \in Ids, Rollback(t)
    PROVE  StepKeeps
<1>1. PICK o : o = rollback_at(store, t, now)
  OBVIOUS
<1>2. PICK c : c = Compacted(o)
  OBVIOUS
<1>3. OnlyStore /\ store' = c.s
  BY <1>1, <1>2 DEF Rollback, RolledBack, Operated, OnlyStore
<1>4. StoreInv(o.s, past) /\ Follows(store, o.s)
  BY <1>1, InvParts, RollbackStore
<1>5. StoreInv(c.s, past) /\ Follows(o.s, c.s)
  BY <1>2, <1>4, InvParts, CompactedStore
<1>6. Follows(store, c.s)
  BY <1>4, <1>5, FollowsFurther
<1> QED
  BY <1>3, <1>5, <1>6, FollowsStep

LEMMA TickStep ==
    ASSUME FirestoreInv, Tick
    PROVE  StepKeeps
<1>1. /\ store' = store /\ config' = config /\ past' = past /\ seen' = seen
      /\ committed' = committed /\ req' = req /\ now' \in Nat
  BY InvParts DEF Tick
<1>2. Calm(store, store')
  BY <1>1, CalmItself
<1>3. RequestInv' /\ Waits(store)'
  BY <1>1, <1>2, InvParts, WaitsCalm
<1>4. StoreInv(store', past) /\ Views(store', past, seen, committed)
  BY <1>1, InvParts
<1> QED
  BY <1>1, <1>2, <1>3, <1>4, QuietStep

LEMMA MoveClockStep ==
    ASSUME FirestoreInv, MoveClock
    PROVE  StepKeeps
<1>1. /\ store' = compact(store, now + 1) /\ config' = config /\ past' = past /\ seen' = seen
      /\ committed' = committed /\ req' = req /\ now' \in Nat
  BY InvParts DEF MoveClock
<1>2. StoreInv(store', past) /\ Follows(store, store')
  BY <1>1, InvParts, CompactStore
<1>3. Calm(store, store') /\ Views(store', past, seen, committed)
  BY <1>2, InvParts, FollowsCalm, ViewsFollow
<1>4. RequestInv' /\ Waits(store)'
  BY <1>1, <1>3, InvParts, WaitsCalm
<1> QED
  BY <1>1, <1>2, <1>3, <1>4, QuietStep

-----------------------------------------------------------------------------
(* The steps of a commit request.                                           *)

OnlyRequest == /\ store' = store /\ config' = config /\ now' = now /\ past' = past /\ seen' = seen
               /\ committed' = committed

LEMMA BlocksIs ==
    ASSUME NEW s, Core(s), NEW own \in Ids, NEW h \in Ids, NEW writes, NEW live,
           Deadlocked(s, h, own, writes, live), ~s.transactions[own].read_only,
           NEW w, holder_locks_writes(s, s.transactions[own], w)
    PROVE  own \in lock_holders(s, h, w)
<1>1. Usable(s, own) /\ h \in lock_holders(s, own, writes)
  BY DEF Deadlocked
<1>2. h # own
  BY <1>1 DEF lock_holders
<1>3. own \in ActiveOf(s)
  BY <1>1 DEF Usable, Active, ActiveOf
<1>4. own \in s.active_read_write
  BY <1>3 DEF Core, Book
<1> QED
  BY <1>1, <1>2, <1>4 DEF lock_holders

LEMMA VictimsAre ==
    ASSUME FirestoreInv, NEW r \in Requests, req[r].phase = "trying",
           Marks(store, store', req[r].own, r, req[r].writes, Live),
           Rightful(store, store', req[r].own)
    PROVE  VictimStep
<1> SUFFICES ASSUME NEW t \in Ids, store'.transactions[t].deadlock_victim,
                    ~store.transactions[t].deadlock_victim
             PROVE  \E k, q \in Requests :
                       /\ req[k].own = t /\ Blocks(req[q].own, k)
                       /\ req[q].own \in Ids /\ Blocks(t, q)
                       /\ Older(store, req[q].own, t)
                       /\ \/ req[k].phase = "trying" /\ req[q].live
                          \/ req[q].phase = "trying" /\ req[k].live
  BY DEF VictimStep
<1>1. PICK own, writes : own = req[r].own /\ writes = req[r].writes
  OBVIOUS
<1>2. YoungerOf(store, t, own, writes, Live)
  BY <1>1 DEF Marks, Sacrifices
<1>3. own \in Ids /\ ~store.transactions[own].read_only
  BY <1>1 DEF Rightful
<1>4. PICK h \in Ids : /\ Deadlocked(store, h, own, writes, Live)
                       /\ \/ t = own /\ Older(store, h, own)
                          \/ t = h /\ Older(store, own, h)
  BY <1>2 DEF YoungerOf
<1>5. h \in lock_holders(store, own, writes) /\ WaitsOn(store, h, own, Live)
  BY <1>4 DEF Deadlocked
<1>6. PICK w \in store.transactions[h].waits :
         w.owner \in Live /\ holder_locks_writes(store, store.transactions[own], w.writes)
  BY <1>5 DEF WaitsOn
<1>7. PICK k : k = w.owner
  OBVIOUS
<1>8. k \in Requests /\ req[k].live /\ req[k].own = h /\ req[k].writes = w.writes
  BY <1>6, <1>7, InvParts DEF Waits, Live
<1>9. Core(store)
  BY InvParts DEF StoreInv
<1>10. own \in lock_holders(store, h, w.writes)
  BY <1>3, <1>4, <1>6, <1>9, BlocksIs
<1>11. Blocks(h, r) /\ Blocks(own, k)
  BY <1>1, <1>5, <1>8, <1>10 DEF Blocks
<1>12. CASE t = own /\ Older(store, h, own)
  BY <1>1, <1>3, <1>8, <1>11, <1>12
<1>13. CASE t = h /\ Older(store, own, h)
  BY <1>1, <1>3, <1>8, <1>11, <1>13
<1> QED
  BY <1>4, <1>12, <1>13

\* Everything a commit request keeps.
LEMMA RequestOnlyStep ==
    ASSUME FirestoreInv, OnlyRequest, NEW r \in Requests, req[r].phase # "idle",
           NEW y, KeepsOn(req[r], y), req' = [req EXCEPT ![r] = y]
    PROVE  StepKeeps
<1>1. Calm(store, store')
  BY CalmItself DEF OnlyRequest
<1>2. NewWaits(store, store', req[r].own, r, req[r].writes, Live)
  BY <1>1, MarksCalm DEF Marks
<1>3. RequestInv' /\ Waits(store)'
  BY <1>2, InvParts, RequestStep
<1>4. StoreInv(store', past) /\ Views(store', past, seen, committed)
  BY InvParts DEF OnlyRequest
<1> QED
  BY <1>1, <1>3, <1>4, InvParts, QuietStep DEF OnlyRequest

LEMMA RequestIs ==
    ASSUME FirestoreInv, NEW r \in Requests, req[r].phase \in {"trying", "refused", "leased", "waiting"}
    PROVE  InFlight(req[r]) /\ Onward(req[r], req[r]) /\ req[r].phase # "idle"
<1>1. IsRequest(req[r])
  BY InvParts DEF RequestInv
<1> QED
  BY <1>1, OnwardItself DEF InFlight

LEMMA StartRequestStep ==
    ASSUME FirestoreInv, NEW r \in Requests, NEW kind, NEW own \in Ids \cup {None},
           NEW writes \in Batches, Start(r, kind, own, writes)
    PROVE  StepKeeps
<1>1. PICK y : y = [NoRequest EXCEPT
                  !.phase = "trying", !.kind = kind, !.own = own, !.writes = writes,
                  !.marker = Marker(kind), !.live = TRUE]
  OBVIOUS
<1>2. req[r].phase = "idle" /\ req' = [req EXCEPT ![r] = y] /\ OnlyRequest
  BY <1>1 DEF Start, OnlyRequest
<1>3. IsRequest(y) /\ y.phase # "idle"
  BY <1>1 DEF IsRequest, NoRequest, RequestFields
<1>4. RequestInv' /\ Waits(store)'
  BY <1>2, <1>3, InvParts, StartStep DEF OnlyRequest
<1>5. Calm(store, store') /\ StoreInv(store', past) /\ Views(store', past, seen, committed)
  BY <1>2, InvParts, CalmItself DEF OnlyRequest
<1> QED
  BY <1>2, <1>4, <1>5, InvParts, QuietStep DEF OnlyRequest

-----------------------------------------------------------------------------
(* The step of the serial store a commit takes.                             *)
LEMMA CommitIsSerial ==
    ASSUME FirestoreInv, NEW own, own = None \/ own \in Ids, NEW w \in Batches,
           NEW changed, changed = Changed(store, w),
           NEW doc, doc = Serial!Result(w, past[store.version + 1]),
           NEW q, q = PastAfter(past, changed, doc),
           Applies(store, past, seen, committed, own, w, q, doc, store'),
           past' = q, seen' = seen, committed' = committed \cup Committer(store, own)
    PROVE  SerialStep
<1>1. StoreInv(store, past) /\ History(store, past)
  BY InvParts DEF StoreInv
<1>2. PICK state : state = past[store.version + 1]
  OBVIOUS
<1>3. Documents(store) = state
  BY <1>1, <1>2, DocumentsAre
<1>4. Documents(store') = doc
  <2>1. StoreInv(store', q) /\ q[store'.version + 1] = doc
    BY DEF Applies
  <2>2. History(store', q)
    BY <2>1 DEF StoreInv
  <2> QED
    BY <2>1, <2>2, DocumentsAre
<1>5. w \in Batches \cup Seeds
  OBVIOUS
<1>6. (changed = {} => doc = state) /\ (changed # {} => doc # state)
  BY <1>1, <1>2, <1>5, ChangedIs
<1>7. past' = IF doc = state THEN past ELSE Append(past, doc)
  BY <1>6 DEF PastAfter
<1>8. \A d \in DOMAIN w : check_precondition(w[d], state[d])
  BY <1>2 DEF Applies
<1>9. doc = Serial!Result(w, state)
  BY <1>2
<1>10. Serial!Apply(w)
  BY <1>3, <1>4, <1>7, <1>8, <1>9 DEF Serial!Apply
<1>11. CASE own \in Committer(store, own)
  <2>1. own \in Ids /\ committed' = committed \cup {own}
    BY <1>11 DEF Committer
  <2>2. own \notin committed /\ Serial!AllHold(seen[own], state)
    BY <1>2, <1>11 DEF Applies
  <2>3. Serial!Commit(own, w)
    BY <1>3, <1>10, <2>1, <2>2 DEF Serial!Commit
  <2> QED
    BY <2>1, <2>3 DEF SerialStep, Serial!Next
<1>12. CASE own \notin Committer(store, own)
  <2>1. committed' = committed
    BY <1>12 DEF Committer
  <2>2. Serial!Write(w)
    BY <1>10, <2>1 DEF Serial!Write
  <2> QED
    BY <2>2 DEF SerialStep, Serial!Next
<1> QED
  BY <1>11, <1>12

LEMMA AttemptStep ==
    ASSUME FirestoreInv, NEW r \in Requests, NEW admitted, Attempt(r, admitted)
    PROVE  StepKeeps
<1>1. PICK x : x = req[r]
  OBVIOUS
<1>2. x.phase = "trying"
  BY <1>1 DEF Attempt
<1>3. InFlight(x) /\ Onward(x, x) /\ x.phase # "idle"
  BY <1>1, <1>2, RequestIs
<1>4. PICK own, w : own = x.own /\ w = x.writes
  OBVIOUS
<1>5. w \in Batches /\ w \in Batches \cup Seeds /\ (own = None \/ own \in Ids)
  BY <1>3, <1>4 DEF InFlight, IsRequest
<1>6. PICK c : c = commit_with_history_admission_owned(store, w, own, r, Live, admitted, now)
  OBVIOUS
<1>7. Attempted(r, x, c)
  BY <1>1, <1>4, <1>6 DEF Attempt
<1>8. PICK changed, doc : changed = Changed(store, w) /\ doc = Serial!Result(w, past[store.version + 1])
  OBVIOUS
<1>9. PICK q : q = PastAfter(past, changed, doc)
  OBVIOUS
<1>10. Commits(store, past, seen, committed, own, r, w, Live, q, doc, c)
  BY <1>5, <1>6, <1>8, <1>9, InvParts, CommitStore
<1>11. PICK y : y = IF c.answer \in {"contention", "victim"}
                    THEN [x EXCEPT !.phase = "refused", !.answer = c.answer]
                    ELSE Returned([x EXCEPT !.applied = @ + (IF c.answer = "ok" THEN 1 ELSE 0)], c.answer)
  OBVIOUS
<1>12. KeepsOn(x, y)
  <2>1. CASE c.answer \in {"contention", "victim"}
    <3>1. PICK z : z = [x EXCEPT !.phase = "refused"]
      OBVIOUS
    <3>2. y = [z EXCEPT !.answer = c.answer]
      BY <1>11, <2>1, <3>1
    <3>3. Onward(x, z)
      BY <1>3, <3>1, OnwardFlag
    <3>4. Onward(x, y)
      BY <3>2, <3>3, OnwardFlag
    <3>5. y.phase = "refused"
      BY <1>3, <3>1, <3>2 DEF Onward, RequestFields
    <3> QED
      BY <1>3, <3>4, <3>5, OnwardKeeps
  <2>2. CASE c.answer \notin {"contention", "victim"}
    <3>1. PICK n : n = x.applied + (IF c.answer = "ok" THEN 1 ELSE 0)
      OBVIOUS
    <3>2. PICK z : z = [x EXCEPT !.applied = n]
      OBVIOUS
    <3>3. y = Returned(z, c.answer)
      BY <1>11, <2>2, <3>1, <3>2
    <3>4. Onward(x, z)
      BY <1>3, <3>2, OnwardFlag
    <3> QED
      BY <1>3, <3>3, <3>4, ReturnedKeeps
  <2> QED
    BY <2>1, <2>2
<1>13. /\ store' = c.s /\ req' = [req EXCEPT ![r] = y]
       /\ now' = now /\ config' = config /\ seen' = seen
       /\ past' = IF c.answer = "ok" /\ changed # {} THEN Append(past, Documents(c.s)) ELSE past
       /\ committed' = IF c.answer = "ok" /\ own # None /\ ~store.transactions[own].read_only
                       THEN committed \cup {own} ELSE committed
  BY <1>4, <1>7, <1>8, <1>11 DEF Attempted, Operated
<1>14. Marks(store, store', own, r, w, Live) /\ Rightful(store, store', own)
  BY <1>10, <1>13 DEF Commits
<1>15. RequestInv' /\ Waits(store)'
  <2>1. NewWaits(store, store', req[r].own, r, req[r].writes, Live)
    BY <1>1, <1>4, <1>14 DEF Marks
  <2>2. KeepsOn(req[r], y) /\ req[r].phase # "idle"
    BY <1>1, <1>3, <1>12
  <2> QED
    BY <1>13, <2>1, <2>2, InvParts, RequestStep
<1>16. VictimStep
  <2>1. Marks(store, store', req[r].own, r, req[r].writes, Live) /\ Rightful(store, store', req[r].own)
        /\ req[r].phase = "trying"
    BY <1>1, <1>2, <1>4, <1>14
  <2> QED
    BY <2>1, VictimsAre
<1>17. CASE c.answer # "ok"
  <2>1. StoreInv(store', past) /\ Views(store', past, seen, committed)
    BY <1>10, <1>13, <1>17 DEF Commits, Unapplied
  <2>2. past' = past /\ committed' = committed
    BY <1>13, <1>17
  <2>3. Documents(store') = Documents(store)
    BY <2>1, InvParts, SameDocuments
  <2>4. SerialStep
    BY <1>13, <2>2, <2>3 DEF SerialStep, Serial!vars
  <2>5. FirestoreInv'
    BY <1>13, <1>15, <2>1, <2>2, InvParts DEF FirestoreInv
  <2> QED
    BY <1>16, <2>4, <2>5 DEF StepKeeps
<1>18. CASE c.answer = "ok"
  <2>1. Applies(store, past, seen, committed, own, w, q, doc, store')
    BY <1>10, <1>13, <1>18 DEF Commits
  <2>2. StoreInv(store', q) /\ q[store'.version + 1] = doc
        /\ Views(store', q, seen, committed \cup Committer(store, own))
    BY <2>1 DEF Applies
  <2>3. Documents(c.s) = doc
    BY <1>13, <2>2, DocumentsAre DEF StoreInv
  <2>4. past' = q
    BY <1>9, <1>13, <1>18, <2>3 DEF PastAfter
  <2>5. committed' = committed \cup Committer(store, own)
    BY <1>13, <1>18 DEF Committer
  <2>6. SerialStep
    BY <1>5, <1>8, <1>9, <1>13, <2>1, <2>4, <2>5, CommitIsSerial
  <2>7. FirestoreInv'
    BY <1>13, <1>15, <2>2, <2>4, <2>5, InvParts DEF FirestoreInv
  <2> QED
    BY <1>16, <2>6, <2>7 DEF StepKeeps
<1> QED
  BY <1>17, <1>18

-----------------------------------------------------------------------------
(* The holders a lease gives up are active, and are only ended.             *)
LEMMA LeaseStep ==
    ASSUME FirestoreInv, NEW r \in Requests, NEW idle, ExpireLeases(r, idle)
    PROVE  StepKeeps
<1>1. PICK x : x = req[r]
  OBVIOUS
<1>2. x.phase = "refused"
  BY <1>1 DEF ExpireLeases
<1>3. InFlight(x) /\ Onward(x, x) /\ x.phase # "idle"
  BY <1>1, <1>2, RequestIs
<1>4. PICK rel : rel = [x EXCEPT !.released = idle # {}]
  OBVIOUS
<1>5. Onward(x, rel)
  BY <1>3, <1>4, OnwardFlag
<1>6. PICK y : y = IF x.answer = "victim" THEN Returned(x, "victim")
              ELSE IF x.kind = "grpc" THEN [rel EXCEPT !.phase = "leased"]
              ELSE IF idle # {} THEN [rel EXCEPT !.phase = "trying", !.contended = TRUE]
              ELSE Returned([rel EXCEPT !.contended = TRUE], "contention")
  OBVIOUS
<1>7. /\ req' = [req EXCEPT ![r] = y]
      /\ idle \subseteq lock_holders(store, x.own, x.writes)
      /\ store' = IF idle = {} THEN store ELSE EndActive(store, idle, "RolledBack")
      /\ now' = now /\ config' = config /\ past' = past /\ seen' = seen /\ committed' = committed
  BY <1>1, <1>4, <1>6 DEF ExpireLeases, Operated
<1>8. KeepsOn(x, y)
  <2>1. CASE y = Returned(x, "victim")
    BY <1>3, <2>1, ReturnedKeeps
  <2>2. CASE y = [rel EXCEPT !.phase = "leased"]
    <3>1. Onward(x, y)
      BY <1>5, <2>2, OnwardFlag
    <3>2. y.phase = "leased"
      BY <1>5, <2>2 DEF Onward, RequestFields
    <3> QED
      BY <1>3, <3>1, <3>2, OnwardKeeps
  <2>3. CASE y = [rel EXCEPT !.phase = "trying", !.contended = TRUE]
    <3>1. PICK z : z = [rel EXCEPT !.phase = "trying"]
      OBVIOUS
    <3>2. Onward(x, z)
      BY <1>5, <3>1, OnwardFlag
    <3>3. y = [z EXCEPT !.contended = TRUE]
      BY <2>3, <3>1
    <3>4. Onward(x, y)
      BY <3>2, <3>3, OnwardFlag
    <3>5. y.phase = "trying"
      BY <1>5, <2>3 DEF Onward, RequestFields
    <3> QED
      BY <1>3, <3>4, <3>5, OnwardKeeps
  <2>4. CASE y = Returned([rel EXCEPT !.contended = TRUE], "contention")
    <3>1. PICK z : z = [rel EXCEPT !.contended = TRUE]
      OBVIOUS
    <3>2. Onward(x, z)
      BY <1>5, <3>1, OnwardFlag
    <3>3. y = Returned(z, "contention")
      BY <2>4, <3>1
    <3> QED
      BY <1>3, <3>2, <3>3, ReturnedKeeps
  <2> QED
    BY <1>6, <2>1, <2>2, <2>3, <2>4
<1>9. Core(store)
  BY InvParts DEF StoreInv
<1>10. idle \subseteq ActiveOf(store)
  <2>1. lock_holders(store, x.own, x.writes) \subseteq ActiveOf(store) \ {x.own}
    BY <1>9, FollowsItself, FewerLocks
  <2> QED
    BY <1>7, <2>1
<1>11. StoreInv(store', past) /\ Follows(store, store')
  <2>1. CASE idle = {}
    BY <1>7, <2>1, InvParts, FollowsItself
  <2>2. CASE idle # {}
    <3>1. store' = EndActive(store, idle, "RolledBack") /\ EndState(store, "RolledBack")
      BY <1>7, <2>2 DEF EndState
    <3> QED
      BY <1>10, <3>1, InvParts, EndActiveStore
  <2> QED
    BY <2>1, <2>2
<1>12. Views(store', past, seen, committed) /\ Calm(store, store')
  BY <1>11, InvParts, ViewsFollow, FollowsCalm
<1>13. NewWaits(store, store', req[r].own, r, req[r].writes, Live)
  BY <1>12, MarksCalm DEF Marks
<1>14. KeepsOn(req[r], y) /\ req[r].phase # "idle"
  BY <1>1, <1>3, <1>8
<1>15. RequestInv' /\ Waits(store)'
  BY <1>7, <1>13, <1>14, InvParts, RequestStep
<1> QED
  BY <1>7, <1>11, <1>12, <1>15, InvParts, QuietStep

(* A request that goes on or is answered.                                   *)
LEMMA GoesOn ==
    ASSUME FirestoreInv, OnlyRequest, NEW r \in Requests, NEW x, x = req[r],
           x.phase \in {"trying", "refused", "leased", "waiting"},
           NEW y, req' = [req EXCEPT ![r] = y],
           \/ \E answer : y = Answered(x, answer)
           \/ Onward(x, y) /\ y.phase \in {"trying", "refused", "leased", "waiting"}
    PROVE  StepKeeps
<1>1. InFlight(x) /\ x.phase # "idle"
  BY RequestIs
<1>2. KeepsOn(x, y)
  BY <1>1, AnsweredKeeps, OnwardKeeps
<1>3. KeepsOn(req[r], y) /\ req[r].phase # "idle"
  BY <1>1, <1>2
<1> QED
  BY <1>3, RequestOnlyStep

LEMMA ShouldWaitStep ==
    ASSUME FirestoreInv, NEW r \in Requests, ShouldWait(r)
    PROVE  StepKeeps
<1>1. PICK x : x = req[r]
  OBVIOUS
<1>2. PICK ret, wait : /\ ret = [x EXCEPT !.phase = "trying", !.marker = Marker(x.kind)]
                       /\ wait = [x EXCEPT !.phase = "waiting"]
  OBVIOUS
<1>3. PICK y : y = IF x.expired \/ (x.own # None /\ ~Active(store, x.own)) THEN Answered(x, "contention")
                   ELSE IF x.released THEN ret ELSE wait
  OBVIOUS
<1>4. x.phase = "leased" /\ req' = [req EXCEPT ![r] = y] /\ OnlyRequest
  BY <1>1, <1>2, <1>3 DEF ShouldWait, OnlyRequest
<1>5. Onward(x, x)
  BY <1>1, <1>4, RequestIs
<1>6. Onward(x, ret) /\ ret.phase = "trying"
  <2>1. PICK z : z = [x EXCEPT !.phase = "trying"]
    OBVIOUS
  <2>2. ret = [z EXCEPT !.marker = Marker(x.kind)]
    BY <1>2, <2>1
  <2>3. Onward(x, z)
    BY <1>5, <2>1, OnwardFlag
  <2>4. Onward(x, ret)
    BY <2>2, <2>3, OnwardFlag
  <2> QED
    BY <1>2, <1>5, <2>4 DEF Onward, RequestFields
<1>7. Onward(x, wait) /\ wait.phase = "waiting"
  <2>1. Onward(x, wait)
    BY <1>2, <1>5, OnwardFlag
  <2> QED
    BY <1>2, <1>5, <2>1 DEF Onward, RequestFields
<1>8. \/ \E answer : y = Answered(x, answer)
      \/ Onward(x, y) /\ y.phase \in {"trying", "refused", "leased", "waiting"}
  BY <1>3, <1>6, <1>7
<1> QED
  BY <1>1, <1>4, <1>8, GoesOn

LEMMA WakeStep ==
    ASSUME FirestoreInv, NEW r \in Requests, Wake(r)
    PROVE  StepKeeps
<1>1. PICK x : x = req[r]
  OBVIOUS
<1>2. PICK ret : ret = [x EXCEPT !.phase = "trying", !.marker = Marker(x.kind), !.contended = FALSE]
  OBVIOUS
<1>3. /\ x.phase = "waiting" /\ OnlyRequest
      /\ req' = [req EXCEPT ![r] = ret] \/ req' = [req EXCEPT ![r] = Answered(x, x.answer)]
  BY <1>1, <1>2 DEF Wake, OnlyRequest
<1>4. Onward(x, x)
  BY <1>1, <1>3, RequestIs
<1>5. Onward(x, ret) /\ ret.phase = "trying"
  <2>1. PICK z : z = [x EXCEPT !.phase = "trying"]
    OBVIOUS
  <2>2. PICK m : m = [z EXCEPT !.marker = Marker(x.kind)]
    OBVIOUS
  <2>3. ret = [m EXCEPT !.contended = FALSE]
    BY <1>2, <2>1, <2>2
  <2>4. Onward(x, z)
    BY <1>4, <2>1, OnwardFlag
  <2>5. Onward(x, m)
    BY <2>2, <2>4, OnwardFlag
  <2>6. Onward(x, ret)
    BY <2>3, <2>5, OnwardFlag
  <2> QED
    BY <1>2, <1>4, <2>6 DEF Onward, RequestFields
<1>6. CASE req' = [req EXCEPT ![r] = ret]
  BY <1>1, <1>3, <1>5, <1>6, GoesOn
<1>7. CASE req' = [req EXCEPT ![r] = Answered(x, x.answer)]
  <2>1. PICK y : y = Answered(x, x.answer)
    OBVIOUS
  <2>2. req' = [req EXCEPT ![r] = y] /\ \E answer : y = Answered(x, answer)
    BY <1>7, <2>1
  <2> QED
    BY <1>1, <1>3, <2>2, GoesOn
<1> QED
  BY <1>3, <1>6, <1>7

LEMMA TurnedAwayStep ==
    ASSUME FirestoreInv, NEW r \in Requests, TurnedAway(r)
    PROVE  StepKeeps
<1>1. PICK x : x = req[r]
  OBVIOUS
<1>2. PICK y : y = Answered(x, "turned away")
  OBVIOUS
<1>3. x.phase = "waiting" /\ OnlyRequest /\ req' = [req EXCEPT ![r] = y]
  BY <1>1, <1>2 DEF TurnedAway, OnlyRequest
<1>4. \E answer : y = Answered(x, answer)
  BY <1>2
<1> QED
  BY <1>1, <1>3, <1>4, GoesOn

-----------------------------------------------------------------------------
LEMMA DeadlineStep ==
    ASSUME FirestoreInv, NEW r \in Requests, DeadlinePasses(r)
    PROVE  StepKeeps
<1>1. PICK x : x = req[r]
  OBVIOUS
<1>2. PICK y : y = [x EXCEPT !.expired = TRUE]
  OBVIOUS
<1>3. OnlyRequest /\ (x.phase \in {"leased", "waiting", "refused"} \/ x.contended)
  BY <1>1 DEF DeadlinePasses, OnlyRequest
<1>4. IsRequest(x)
  BY <1>1, InvParts DEF RequestInv
<1>5. req' = [req EXCEPT ![r] = y]
  BY <1>1, <1>2 DEF DeadlinePasses
<1>6. x.phase # "idle"
  BY <1>3, <1>4 DEF IsRequest
<1>7. /\ y = [f \in RequestFields |-> y[f]] /\ y.phase = x.phase /\ y.live = x.live
      /\ y.own = x.own /\ y.writes = x.writes
  BY <1>2, <1>4 DEF IsRequest, RequestFields
<1>8. KeepsOn(x, y)
  BY <1>4, <1>6, <1>7 DEF KeepsOn, IsRequest
<1>9. KeepsOn(req[r], y) /\ req[r].phase # "idle"
  BY <1>1, <1>6, <1>8
<1> QED
  BY <1>3, <1>5, <1>9, RequestOnlyStep

LEMMA CancelStep ==
    ASSUME FirestoreInv, NEW r \in Requests, Cancel(r)
    PROVE  StepKeeps
<1>1. PICK x : x = req[r]
  OBVIOUS
<1>2. OnlyRequest /\ x.phase \in {"waiting", "trying", "refused"}
  BY <1>1 DEF Cancel, OnlyRequest
<1>3. PICK y : y = IF x.phase = "waiting" THEN Answered(x, "cancelled") ELSE [x EXCEPT !.live = FALSE]
  OBVIOUS
<1>4. req' = [req EXCEPT ![r] = y]
  BY <1>1, <1>3 DEF Cancel
<1>5. CASE x.phase = "waiting"
  <2>1. y = Answered(x, "cancelled")
    BY <1>3, <1>5
  <2> QED
    BY <1>1, <1>2, <1>4, <2>1, GoesOn
<1>6. CASE x.phase # "waiting"
  <2>1. y = [x EXCEPT !.live = FALSE]
    BY <1>3, <1>6
  <2>2. Onward(x, x)
    BY <1>1, <1>2, RequestIs
  <2>3. Onward(x, y)
    BY <2>1, <2>2, OnwardFlag
  <2>4. y.phase = x.phase
    BY <2>1, <2>2 DEF Onward, RequestFields
  <2> QED
    BY <1>1, <1>2, <1>4, <2>3, <2>4, GoesOn
<1> QED
  BY <1>5, <1>6

-----------------------------------------------------------------------------
(* Every step.                                                              *)

LEMMA NextKeeps ==
    ASSUME FirestoreInv, Next
    PROVE  StepKeeps
<1>1. CASE Do("begin") /\ Room /\ BeginReadWrite
  BY <1>1, BeginSteps
<1>2. CASE Do("read only") /\ Room /\ (BeginReadOnly \/ \E at \in 0 .. now : BeginAt(at))
  BY <1>2, BeginSteps
<1>3. CASE Do("new transaction") /\ Room /\ \E d \in Docs, ro, allowed \in BOOLEAN :
              NewTransaction(ro, d, allowed)
  BY <1>3, NewTransactionStep
<1>4. CASE Do("retry") /\ Room /\ \E t \in Ids :
              Retry(t) \/ \E d \in Docs, allowed \in BOOLEAN : RetryWithRead(t, d, allowed)
  BY <1>4, RetryStep, RetryReadStep
<1>5. CASE \E t \in Ids, d \in Docs, allowed \in BOOLEAN :
              Do(IF allowed THEN "read" ELSE "denied") /\ Read(t, d, allowed)
  BY <1>5, ReadStep
<1>6. CASE Do("query") /\ \E t \in Ids :
              \/ \E q \in Filters \cup {Unfiltered}, complete \in BOOLEAN : RunQuery(t, q, complete)
              \/ FinishQuery(t)
  BY <1>6, QueryStep, FinishStep
<1>7. CASE Do("rollback") /\ \E t \in Ids : Rollback(t)
  BY <1>7, RollbackStep
<1>8. CASE Tick
  BY <1>8, TickStep
<1>10. CASE MoveClock
  BY <1>10, MoveClockStep
<1>9. ASSUME NEW r \in 1 .. config.requests,
             \/ \E kind \in config.kinds, own \in Ids \cup {None}, writes \in config.batches :
                   Start(r, kind, own, writes)
             \/ \E admitted \in {TRUE} \cup {~Do("refuse")} : Attempt(r, admitted)
             \/ \E idle \in {{}} \cup (IF Do("lease") THEN SUBSET Ids ELSE {}) : ExpireLeases(r, idle)
             \/ ShouldWait(r)
             \/ Wake(r)
             \/ Do("cancel") /\ (TurnedAway(r) \/ DeadlinePasses(r) \/ Cancel(r))
      PROVE  StepKeeps
  <2>1. r \in Requests /\ config.batches \subseteq Batches
    BY InvParts, ConfigIs
  <2>2. ASSUME NEW kind \in config.kinds, NEW own \in Ids \cup {None}, NEW writes \in config.batches,
               Start(r, kind, own, writes)
        PROVE  StepKeeps
    <3>1. writes \in Batches
      BY <2>1
    <3> QED
      BY <2>1, <2>2, <3>1, StartRequestStep
  <2>3. ASSUME NEW admitted, Attempt(r, admitted) PROVE StepKeeps
    BY <2>1, <2>3, AttemptStep
  <2>4. ASSUME NEW idle, ExpireLeases(r, idle) PROVE StepKeeps
    BY <2>1, <2>4, LeaseStep
  <2>5. CASE ShouldWait(r)
    BY <2>1, <2>5, ShouldWaitStep
  <2>6. CASE Wake(r)
    BY <2>1, <2>6, WakeStep
  <2>7. CASE TurnedAway(r)
    BY <2>1, <2>7, TurnedAwayStep
  <2>8. CASE DeadlinePasses(r)
    BY <2>1, <2>8, DeadlineStep
  <2>9. CASE Cancel(r)
    BY <2>1, <2>9, CancelStep
  <2> QED
    BY <1>9, <2>2, <2>3, <2>4, <2>5, <2>6, <2>7, <2>8, <2>9
<1> QED
  BY <1>1, <1>2, <1>3, <1>4, <1>5, <1>6, <1>7, <1>8, <1>9, <1>10 DEF Next

LEMMA StutterKeeps ==
    ASSUME FirestoreInv, UNCHANGED vars
    PROVE  StepKeeps
<1>1. OnlyStore /\ store' = store
  BY DEF vars, OnlyStore
<1> QED
  BY <1>1, InvParts, FollowsItself, FollowsStep

LEMMA InitSerial ==
    ASSUME Init
    PROVE  Serial!Init
<1>1. StoreInv(store, past)
  BY InitInv, InvParts
<1>2. Documents(store) \in [Docs -> Values \cup {Absent}]
  BY <1>1, DocumentsAre DEF StoreInv, AnyValue
<1>3. past \in {<<[d \in Docs |-> Absent], Documents(store)>>, <<Documents(store)>>}
  BY DEF Init
<1> QED
  BY <1>2, <1>3 DEF Init, Serial!Init

-----------------------------------------------------------------------------
(* The theorems.                                                            *)

\* The inductive invariant: the indexes beside the transactions, the history against the past,
\* the snapshots that are kept, what every transaction retained of what it was shown, and the
\* waits of the commit requests.
THEOREM FirestoreInvHolds == Spec => []FirestoreInv
<1>1. Init => FirestoreInv
  BY InitInv
<1>2. FirestoreInv /\ [Next]_vars => FirestoreInv'
  BY NextKeeps, StutterKeeps DEF StepKeeps
<1> QED
  BY <1>1, <1>2, PTL DEF Spec

\* Whatever clients do, the indexes of the store say what its transactions say: counts, locks,
\* deadlines, versions, the ledger and the remembered lineage.
THEOREM FirestoreBookkeepingAgrees == Spec => []BookkeepingAgrees
<1>1. FirestoreInv => BookkeepingAgrees
  <2> SUFFICES ASSUME FirestoreInv PROVE BookkeepingAgrees
    OBVIOUS
  <2>1. Core(store) /\ Bounded(store) /\ Book(store)
    BY InvParts DEF StoreInv, Core
  <2>2. PICK A, E, F : A = ActiveOf(store) /\ E = EndedOf(store) /\ F = EvictableOf(store)
    OBVIOUS
  <2>3. A = {t \in Ids : Active(store, t)} /\ A \subseteq Ids
    BY <2>2 DEF Active, ActiveOf
  <2>4. E = {t \in Ids : store.transactions[t].state \notin {"Active", "Unknown"}} /\ E \subseteq Ids
    BY <2>2 DEF EndedOf
  <2>5. F = {t \in E : store.transactions[t].state # "Finished"}
    BY <2>2 DEF EvictableOf
  <2>6. /\ store.active_count = Cardinality(A)
        /\ store.active_read_write = {t \in A : ~store.transactions[t].read_only}
        /\ store.ledger = BytesOf(store.transactions, A)
        /\ store.finished = E
        /\ store.evictable = IF store.scope = "Production" THEN F ELSE {}
    BY <2>1, <2>2 DEF Book
  <2>7. store.active_deadlines = {<<transaction_deadline(store, store.transactions[t]), t>> : t \in A}
    <3>1. \A t \in A : DeadlineOf(store)[t] = transaction_deadline(store, store.transactions[t])
      BY <2>3 DEF DeadlineOf
    <3>2. store.active_deadlines = {<<DeadlineOf(store)[t], t>> : t \in A}
      BY <2>1, <2>2 DEF Book, Pairs
    <3> QED
      BY <3>1, <3>2
  <2>8. store.finished_deadlines = {<<finished_lineage_deadline(store, store.transactions[t]), t>> : t \in E}
    <3>1. \A t \in E : LapseOf(store)[t] = finished_lineage_deadline(store, store.transactions[t])
      BY <2>4 DEF LapseOf
    <3>2. store.finished_deadlines = {<<LapseOf(store)[t], t>> : t \in E}
      BY <2>1, <2>2 DEF Book, Pairs
    <3> QED
      BY <3>1, <3>2
  <2>9. store.active_versions = [v \in {store.transactions[t].read_version : t \in A} |->
                                   Cardinality({t \in A : store.transactions[t].read_version = v})]
    BY <2>1, <2>2 DEF Book, Counts
  <2>10. Cardinality(E) <= MaxFinished \/ (store.scope = "Production" /\ F = {})
    BY <2>1, <2>2 DEF Bounded
  <2> QED
    BY <2>3, <2>4, <2>5, <2>6, <2>7, <2>8, <2>9, <2>10, Zenon DEF BookkeepingAgrees
<1> QED
  BY <1>1, FirestoreInvHolds, PTL

\* Compaction and publication keep every retained version readable as it was, and only the
\* capacity of a path takes the snapshot of an active transaction away.
THEOREM FirestoreHistoryIsExact == Spec => []HistoryIsExact
<1>1. FirestoreInv => HistoryIsExact
  <2> SUFFICES ASSUME FirestoreInv PROVE HistoryIsExact
    OBVIOUS
  <2>1. History(store, past) /\ SnapshotsKept(store)
    BY InvParts DEF StoreInv
  <2>2. Len(past) = store.version + 1 /\ store.version \in Nat /\ past \in Seq([Docs -> AnyValue])
        /\ store.compaction_floor \in Nat
    BY <2>1 DEF History
  <2>3. ASSUME NEW v \in store.compaction_floor .. store.version
        PROVE  [d \in Docs |-> get_at(store, d, v).value] = past[v + 1]
    <3>1. past[v + 1] \in [Docs -> AnyValue]
      BY <2>2
    <3>2. \A d \in Docs : get_at(store, d, v).value = past[v + 1][d]
      BY <2>1, <2>3, EntryIs
    <3> QED
      BY <3>1, <3>2
  <2>4. \A t \in Ids : Active(store, t) =>
           \/ store.transactions[t].read_version >= store.compaction_floor
           \/ store.transactions[t].read_version < store.capacity_floor
    BY <2>1 DEF SnapshotsKept, Active, ActiveOf
  <2> QED
    BY <2>2, <2>3, <2>4 DEF HistoryIsExact
<1> QED
  BY <1>1, FirestoreInvHolds, PTL

\* The store, its locks, its validation at the commit and its compaction implement the serial
\* store: one commit at a time, on what the transaction was shown, and one snapshot for every
\* transaction.
THEOREM FirestoreIsSerial == Spec => IsSerial
<1>1. Init => Serial!Init
  BY InitSerial
<1>2. FirestoreInv /\ [Next]_vars => [Serial!Next]_(Serial!vars)
  BY NextKeeps, StutterKeeps DEF StepKeeps, SerialStep
<1> QED
  BY <1>1, <1>2, FirestoreInvHolds, PTL DEF Spec, IsSerial, Serial!Spec

\* A transaction is sacrificed only to break a deadlock with the wanted commit of an older one.
THEOREM FirestoreVictimsAreYounger == Spec => VictimsAreYounger
<1>1. FirestoreInv /\ [Next]_vars => VictimStep
  BY NextKeeps, StutterKeeps DEF StepKeeps
<1>2. VictimStep =>
         \A t \in Ids :
            store'.transactions[t].deadlock_victim /\ ~store.transactions[t].deadlock_victim =>
              \E r, q \in Requests :
                  /\ req[r].own = t /\ Blocks(req[q].own, r)
                  /\ req[q].own \in Ids /\ Blocks(t, q)
                  /\ Older(store, req[q].own, t)
                  /\ \/ req[r].phase = "trying" /\ req[q].live
                     \/ req[q].phase = "trying" /\ req[r].live
  BY DEF VictimStep
<1> QED
  BY <1>1, <1>2, FirestoreInvHolds, PTL DEF Spec, VictimsAreYounger
=============================================================================
