------------------------------ MODULE SumsProofs ------------------------------
(***************************************************************************)
(* Lemmas on the filtered lists and the sums of Filters, for any list, set *)
(* of places and finite function: what the other proof modules need of     *)
(* them, by induction over a set of numbers or of sets (UpTo, OneLess).    *)
(***************************************************************************)
EXTENDS Filters, SequenceTheorems, FiniteSetTheorems, WellFoundedInduction, TLAPS

\* A set of numbers has a least one.
LEMMA NatLeast == ASSUME NEW T \in SUBSET Nat, T # {} PROVE \E x \in T : \A y \in T : x <= y
<1>1. PICK x \in T : \A y \in T : ~(<<y, x>> \in OpToRel(<, Nat))
  BY WFMin, NatLessThanWellFounded, Zenon
<1>2. ASSUME NEW y \in T PROVE x <= y
  <2>1. x \in Nat /\ y \in Nat
    OBVIOUS
  <2>2. ~(y < x)
    BY <1>1, <2>1 DEF OpToRel
  <2>3. QED
    BY <2>1, <2>2
<1>3. QED
  BY <1>2

\* Induction up to n, for a set of numbers in place of a predicate.
LEMMA UpTo ==
  ASSUME NEW n \in Nat, NEW P, 0 \in P, \A b \in 0..(n - 1) : b \in P => b + 1 \in P
  PROVE  \A b \in 0..n : b \in P
<1> DEFINE T == {b \in 0..n : b \notin P}
<1> SUFFICES ASSUME T # {} PROVE FALSE
  OBVIOUS
<1>1. PICK x \in T : \A y \in T : x <= y
  <2>1. T \in SUBSET Nat
    OBVIOUS
  <2> HIDE DEF T
  <2>2. QED
    BY <2>1, NatLeast
<1>2. x \in 0..n /\ x \notin P /\ x # 0 /\ x - 1 \in 0..(n - 1)
  <2>1. x \in 0..n /\ x \notin P
    BY <1>1
  <2>2. QED
    BY <2>1
<1>3. x - 1 \in P
  <2>1. x - 1 \in 0..n /\ ~(x <= x - 1)
    BY <1>2
  <2>2. x - 1 \notin T
    BY <1>1, <2>1
  <2>3. QED
    BY <2>1, <2>2
<1>4. QED
  BY <1>2, <1>3

\* One step of the loop, as a condition on the function that has its results.
Looks(F, s, n, K) ==
  F = [b \in 0..n |-> IF b = 0 THEN <<>> ELSE IF b \in K THEN Append(F[b - 1], s[b]) ELSE F[b - 1]]

\* The loop has results.
LEMMA LoopRuns == ASSUME NEW n \in Nat, NEW s, NEW K PROVE \E F : Looks(F, s, n, K)
<1> DEFINE P == {m \in 0..n : \E F : Looks(F, s, m, K)}
<1>1. 0 \in P
  <2> DEFINE F == [b \in 0..0 |-> <<>>]
  <2>1. Looks(F, s, 0, K)
    BY DEF Looks
  <2> HIDE DEF F
  <2>2. QED
    BY <2>1
<1>2. ASSUME NEW m \in 0..(n - 1), m \in P PROVE m + 1 \in P
  <2>1. PICK F : Looks(F, s, m, K)
    BY <1>2
  <2> DEFINE H == [b \in 0..(m + 1) |-> IF b = m + 1 THEN IF b \in K THEN Append(F[b - 1], s[b]) ELSE F[b - 1] ELSE F[b]]
  <2>2. ASSUME NEW b \in 0..(m + 1)
        PROVE  H[b] = IF b = 0 THEN <<>> ELSE IF b \in K THEN Append(H[b - 1], s[b]) ELSE H[b - 1]
    <3>1. CASE b = m + 1
      BY <3>1
    <3>2. CASE b = 0
      BY <3>2, <2>1 DEF Looks
    <3>3. CASE b # 0 /\ b # m + 1
      <4>1. b \in 0..m /\ b - 1 \in 0..m /\ b - 1 \in 0..(m + 1) /\ b - 1 # m + 1
        BY <3>3
      <4>2. H[b] = F[b] /\ H[b - 1] = F[b - 1]
        BY <3>3, <4>1
      <4>3. F[b] = IF b \in K THEN Append(F[b - 1], s[b]) ELSE F[b - 1]
        BY <2>1, <3>3, <4>1 DEF Looks
      <4>4. QED
        BY <3>3, <4>2, <4>3
    <3>4. QED
      BY <3>1, <3>2, <3>3
  <2>3. Looks(H, s, m + 1, K)
    BY <2>2 DEF Looks
  <2>4. m + 1 \in 0..n
    OBVIOUS
  <2> HIDE DEF H
  <2>5. QED
    BY <2>3, <2>4
<1> HIDE DEF P
<1>3. n \in P
  <2>1. \A b \in 0..n : b \in P
    BY <1>1, <1>2, UpTo
  <2>2. QED
    BY <2>1
<1>4. QED
  BY <1>3 DEF P

\* The places that there are.
Among(n, K) == {b \in 1..n : b \in K}
\* r has the elements of s at the places K, all of them and in their order.
Picks(r, s, K) ==
  \E f \in [1..Len(r) -> K] :
    /\ \A k \in 1..Len(r) : r[k] = s[f[k]]
    /\ \A j, k \in 1..Len(r) : j < k => f[j] < f[k]
    /\ \A b \in K : \E k \in 1..Len(r) : f[k] = b

LEMMA LoopPicks ==
  ASSUME NEW S, NEW n \in Nat, NEW s \in [1..n -> S], NEW K, NEW F, Looks(F, s, n, K)
  PROVE  F[n] \in Seq(S) /\ Picks(F[n], s, Among(n, K))
<1> DEFINE Upto(m) == Among(m, K)
           P == {m \in 0..n : F[m] \in Seq(S) /\ Picks(F[m], s, Upto(m))}
<1>1. 0 \in P
  <2>1. F[0] = <<>> /\ Len(<<>>) = 0
    BY DEF Looks
  <2>2. Upto(0) = {}
    BY DEF Among
  <2> DEFINE f == [k \in 1..0 |-> k]
  <2>3. f \in [1..0 -> {}]
    OBVIOUS
  <2>4. Picks(<<>>, s, {})
    BY <2>1, <2>3 DEF Picks
  <2>5. <<>> \in Seq(S) /\ 0 \in 0..n
    OBVIOUS
  <2> HIDE DEF Upto
  <2>6. QED
    BY <2>1, <2>2, <2>4, <2>5
<1>2. ASSUME NEW m \in 0..(n - 1), m \in P PROVE m + 1 \in P
  <2>1. F[m] \in Seq(S) /\ Picks(F[m], s, Upto(m)) /\ m + 1 \in 1..n
    BY <1>2
  <2>2. m + 1 \in 0..n /\ m + 1 # 0 /\ (m + 1) - 1 = m
    OBVIOUS
  <2>3. F[m + 1] = IF m + 1 \in K THEN Append(F[m], s[m + 1]) ELSE F[m]
    BY <2>2 DEF Looks
  <2>4. CASE m + 1 \notin K
    <3>1. \A b : b \in 1..(m + 1) /\ b \in K <=> b \in 1..m /\ b \in K
      BY <2>4
    <3>2. Upto(m + 1) = Upto(m)
      BY <3>1 DEF Among
    <3> HIDE DEF Upto
    <3>3. QED
      BY <2>1, <2>2, <2>3, <2>4, <3>2
  <2>5. CASE m + 1 \in K
    <3>1. F[m + 1] = Append(F[m], s[m + 1]) /\ s[m + 1] \in S
      BY <2>1, <2>3, <2>5
    <3> DEFINE r == F[m]
               q == F[m + 1]
    <3>2. PICK f \in [1..Len(r) -> Upto(m)] :
            /\ \A k \in 1..Len(r) : r[k] = s[f[k]]
            /\ \A j, k \in 1..Len(r) : j < k => f[j] < f[k]
            /\ \A b \in Upto(m) : \E k \in 1..Len(r) : f[k] = b
      BY <2>1 DEF Picks
    <3>3. Len(r) \in Nat /\ q \in Seq(S) /\ Len(q) = Len(r) + 1 /\ q[Len(r) + 1] = s[m + 1] /\ \A k \in 1..Len(r) : q[k] = r[k]
      <4> HIDE DEF Upto, P
      <4>1. r \in Seq(S) /\ q = Append(r, s[m + 1]) /\ s[m + 1] \in S
        BY <2>1, <3>1
      <4> HIDE DEF r, q
      <4>2. QED
        BY <4>1, AppendProperties, LenProperties
    <3> DEFINE g == [k \in 1..Len(q) |-> IF k = Len(r) + 1 THEN m + 1 ELSE f[k]]
    <3> HIDE DEF q, r
    <3>4. g \in [1..Len(q) -> Upto(m + 1)]
      BY <3>2, <3>3, <2>5 DEF Among
    <3>5. \A k \in 1..Len(q) : q[k] = s[g[k]]
      BY <3>2, <3>3
    <3>6. \A j, k \in 1..Len(q) : j < k => g[j] < g[k]
      <4> SUFFICES ASSUME NEW j \in 1..Len(q), NEW k \in 1..Len(q), j < k PROVE g[j] < g[k]
        OBVIOUS
      <4>1. j \in 1..Len(r) /\ j # Len(r) + 1
        BY <3>3
      <4>2. g[j] = f[j] /\ f[j] \in Upto(m)
        BY <4>1, <3>3
      <4>3. f[j] < m + 1
        BY <4>2 DEF Among
      <4>4. CASE k = Len(r) + 1
        BY <4>2, <4>3, <4>4
      <4>5. CASE k # Len(r) + 1
        <5>1. k \in 1..Len(q) /\ Len(q) = Len(r) + 1 /\ Len(r) \in Nat
          BY <3>3
        <5> HIDE DEF g
        <5>2. k \in 1..Len(r)
          BY <4>5, <5>1
        <5>3. g[k] = f[k]
          BY <4>5, <5>1 DEF g
        <5>4. QED
          BY <3>2, <4>1, <4>2, <5>2, <5>3
      <4>6. QED
        BY <4>4, <4>5
    <3>7. \A b \in Upto(m + 1) : \E k \in 1..Len(q) : g[k] = b
      BY <3>2, <3>3 DEF Among
    <3>8. Picks(q, s, Upto(m + 1))
      BY <3>4, <3>5, <3>6, <3>7 DEF Picks
    <3> HIDE DEF Upto
    <3>9. QED
      BY <3>3, <3>8, <2>2 DEF q
  <2>6. QED
    BY <2>4, <2>5
<1> HIDE DEF P
<1>3. n \in P
  <2>1. \A b \in 0..n : b \in P
    BY <1>1, <1>2, UpTo
  <2>2. QED
    BY <2>1
<1>4. QED
  BY <1>3 DEF P

LEMMA PlacesPick ==
  ASSUME NEW S, NEW s \in Seq(S), NEW K
  PROVE  Places(s, K) \in Seq(S) /\ Picks(Places(s, K), s, Among(Len(s), K))
<1> DEFINE n == Len(s)
           F == CHOOSE G : Looks(G, s, n, K)
<1>1. n \in Nat /\ s \in [1..n -> S]
  BY LenProperties
<1>2. Looks(F, s, n, K)
  <2> HIDE DEF n
  <2>1. \E G : Looks(G, s, n, K)
    BY <1>1, LoopRuns
  <2>2. QED
    BY <2>1
<1>3. Places(s, K) = F[n]
  BY DEF Places, Looks
<1> HIDE DEF F, n
<1>4. F[n] \in Seq(S) /\ Picks(F[n], s, Among(n, K))
  BY <1>1, <1>2, LoopPicks
<1>5. QED
  BY <1>3, <1>4 DEF n

\* Each element that is kept is there, and nothing else.
LEMMA PlacesRange ==
  ASSUME NEW S, NEW s \in Seq(S), NEW K
  PROVE  /\ Places(s, K) \in Seq(S)
         /\ {Places(s, K)[k] : k \in 1..Len(Places(s, K))} = {s[b] : b \in Among(Len(s), K)}
<1> DEFINE r == Places(s, K)
           Q == Among(Len(s), K)
<1>1. r \in Seq(S) /\ Picks(r, s, Q)
  BY PlacesPick
<1> HIDE DEF r, Q
<1>2. PICK f \in [1..Len(r) -> Q] : (\A k \in 1..Len(r) : r[k] = s[f[k]]) /\ \A b \in Q : \E k \in 1..Len(r) : f[k] = b
  BY <1>1 DEF Picks
<1>3. {r[k] : k \in 1..Len(r)} = {s[b] : b \in Q}
  <2>1. ASSUME NEW k \in 1..Len(r) PROVE \E b \in Q : r[k] = s[b]
    BY <1>2
  <2>2. ASSUME NEW b \in Q PROVE \E k \in 1..Len(r) : s[b] = r[k]
    BY <1>2
  <2>3. {r[k] : k \in 1..Len(r)} \subseteq {s[b] : b \in Q}
    BY <2>1
  <2>4. {s[b] : b \in Q} \subseteq {r[k] : k \in 1..Len(r)}
    BY <2>2
  <2>5. QED
    BY <2>3, <2>4
<1>4. QED
  BY <1>1, <1>3 DEF r, Q

\* Places that were kept, of a list whose elements have an id of their own.
LEMMA PlacesIn ==
  ASSUME NEW S, NEW s \in Seq(S), NEW K
  PROVE  /\ Places(s, K) \in Seq(S)
         /\ \A p \in DOMAIN Places(s, K) : \E q \in DOMAIN s : q \in K /\ Places(s, K)[p] = s[q]
         /\ \A q \in DOMAIN s : q \in K => \E p \in DOMAIN Places(s, K) : Places(s, K)[p] = s[q]
         /\ (\A p, q \in DOMAIN s : s[p] = s[q] => p = q) =>
              \A p, q \in DOMAIN Places(s, K) : Places(s, K)[p] = Places(s, K)[q] => p = q
<1> DEFINE r == Places(s, K)
           Q == Among(Len(s), K)
<1>1. r \in Seq(S) /\ Picks(r, s, Q) /\ DOMAIN s = 1..Len(s)
  BY PlacesPick, LenProperties
<1> HIDE DEF r
<1>2. DOMAIN r = 1..Len(r) /\ Len(r) \in Nat
  BY <1>1, LenProperties
<1>3. PICK f \in [1..Len(r) -> Q] : /\ \A p \in 1..Len(r) : r[p] = s[f[p]]
                                    /\ \A p, q \in 1..Len(r) : p < q => f[p] < f[q]
                                    /\ \A q \in Q : \E p \in 1..Len(r) : f[p] = q
  BY <1>1 DEF Picks
<1>4. \A p \in DOMAIN r : f[p] \in DOMAIN s /\ f[p] \in K /\ r[p] = s[f[p]]
  BY <1>1, <1>2, <1>3 DEF Among
<1>5. \A q \in DOMAIN s : q \in K => \E p \in DOMAIN r : r[p] = s[q]
  BY <1>1, <1>2, <1>3 DEF Among
<1>6. ASSUME \A p, q \in DOMAIN s : s[p] = s[q] => p = q, NEW p \in DOMAIN r, NEW q \in DOMAIN r, r[p] = r[q] PROVE p = q
  <2>1. f[p] = f[q] /\ f[p] \in Nat /\ p \in Nat /\ q \in Nat
    BY <1>1, <1>2, <1>4, <1>6
  <2>2. ~(p < q) /\ ~(q < p)
    BY <1>2, <1>3, <2>1
  <2>3. QED
    BY <2>1, <2>2
<1>7. QED
  BY <1>1, <1>4, <1>5, <1>6 DEF r

\* There are no more than there were.
LEMMA PlacesLen ==
  ASSUME NEW S, NEW s \in Seq(S), NEW K
  PROVE  Len(Places(s, K)) \in Nat /\ Len(Places(s, K)) <= Len(s)
<1> DEFINE r == Places(s, K)
           Q == Among(Len(s), K)
<1>1. r \in Seq(S) /\ Picks(r, s, Q)
  BY PlacesPick
<1> HIDE DEF r
<1>2. Len(r) \in Nat /\ Len(s) \in Nat
  BY <1>1, LenProperties
<1>3. PICK f \in [1..Len(r) -> Q] : \A p, q \in 1..Len(r) : p < q => f[p] < f[q]
  BY <1>1 DEF Picks
<1> DEFINE P == {n \in 0..Len(r) : n # 0 => n <= f[n]}
<1>4. \A n \in 0..(Len(r) - 1) : n \in P => n + 1 \in P
  <2> SUFFICES ASSUME NEW n \in 0..(Len(r) - 1), n \in P PROVE n + 1 <= f[n + 1]
    BY <1>2
  <2>1. n + 1 \in 1..Len(r) /\ f[n + 1] \in Nat /\ f[n + 1] >= 1
    BY <1>2, <1>3 DEF Among
  <2>2. CASE n = 0
    BY <2>1, <2>2
  <2>3. CASE n # 0
    <3>1. n \in 1..Len(r) /\ n < n + 1 /\ n <= f[n] /\ f[n] \in Nat
      BY <1>2, <1>3, <2>3 DEF Among
    <3>2. f[n] < f[n + 1]
      BY <1>3, <2>1, <3>1
    <3>3. QED
      BY <2>1, <3>1, <3>2
  <2>4. QED
    BY <2>2, <2>3
<1>5. 0 \in P
  BY <1>2
<1> HIDE DEF P
<1>6. \A n \in 0..Len(r) : n \in P
  BY <1>2, <1>4, <1>5, UpTo
<1>7. Len(r) # 0 => Len(r) <= f[Len(r)] /\ f[Len(r)] \in 1..Len(s)
  BY <1>2, <1>3, <1>6 DEF P, Among
<1>8. QED
  BY <1>2, <1>7 DEF r

-------------------------------------------------------------------------------
\* Sums.  S has the sum of f over each part of D.
Sums(S, f, D) == S = [T \in SUBSET D |-> IF T = {} THEN 0 ELSE LET x == CHOOSE x \in T : TRUE IN f[x] + S[T \ {x}]]
SumsTo(S, f, D, n) ==
  \A T \in SUBSET D : Cardinality(T) <= n => S[T] = IF T = {} THEN 0 ELSE LET x == CHOOSE x \in T : TRUE IN f[x] + S[T \ {x}]

\* A part that is not empty, and what is left of it without one element.
LEMMA OneLess ==
  ASSUME NEW D, IsFiniteSet(D), NEW T \in SUBSET D
  PROVE  /\ IsFiniteSet(T) /\ Cardinality(T) \in 0..Cardinality(D)
         /\ T # {} => (CHOOSE x \in T : TRUE) \in T
         /\ \A x \in T : T \ {x} \in SUBSET D /\ Cardinality(T \ {x}) = Cardinality(T) - 1 /\ Cardinality(T) # 0
         /\ T = {} <=> Cardinality(T) = 0
<1>1. IsFiniteSet(T) /\ Cardinality(T) <= Cardinality(D) /\ Cardinality(T) \in Nat /\ Cardinality(D) \in Nat
  BY FS_Subset, FS_CardinalityType
<1>2. T = {} <=> Cardinality(T) = 0
  BY <1>1, FS_EmptySet
<1>3. ASSUME NEW x \in T PROVE Cardinality(T \ {x}) = Cardinality(T) - 1
  BY <1>1, FS_RemoveElement
<1>4. QED
  BY <1>1, <1>2, <1>3

\* There is such a function, of a finite set.
LEMMA SumsRun == ASSUME NEW D, IsFiniteSet(D), NEW f PROVE \E S : Sums(S, f, D)
<1> DEFINE n == Cardinality(D)
           P == {m \in 0..n : \E S : S = [T \in SUBSET D |-> S[T]] /\ SumsTo(S, f, D, m)}
<1>0. n \in Nat
  BY FS_CardinalityType
<1>1. 0 \in P
  <2> DEFINE S == [T \in SUBSET D |-> 0]
  <2>1. ASSUME NEW T \in SUBSET D, Cardinality(T) <= 0 PROVE T = {}
    BY <2>1, OneLess
  <2>2. S = [T \in SUBSET D |-> S[T]] /\ SumsTo(S, f, D, 0)
    BY <2>1 DEF SumsTo
  <2> HIDE DEF S
  <2>3. QED
    BY <1>0, <2>2
<1>2. ASSUME NEW m \in 0..(n - 1), m \in P PROVE m + 1 \in P
  <2>1. PICK S : S = [T \in SUBSET D |-> S[T]] /\ SumsTo(S, f, D, m)
    BY <1>2
  <2> DEFINE pick(T) == CHOOSE x \in T : TRUE
             H == [T \in SUBSET D |-> IF Cardinality(T) = m + 1 THEN f[pick(T)] + S[T \ {pick(T)}] ELSE S[T]]
  <2>2. ASSUME NEW T \in SUBSET D, Cardinality(T) <= m + 1 PROVE H[T] = IF T = {} THEN 0 ELSE f[pick(T)] + H[T \ {pick(T)}]
    <3>1. CASE Cardinality(T) = m + 1
      <4>1. T # {} /\ pick(T) \in T
        BY <3>1, OneLess
      <4>2. T \ {pick(T)} \in SUBSET D /\ Cardinality(T \ {pick(T)}) # m + 1
        BY <3>1, <4>1, OneLess
      <4>3. H[T \ {pick(T)}] = S[T \ {pick(T)}]
        BY <4>2
      <4>4. QED
        BY <3>1, <4>1, <4>3
    <3>2. CASE Cardinality(T) # m + 1
      <4>1. Cardinality(T) <= m /\ Cardinality(T) \in Nat
        BY <2>2, <3>2, OneLess
      <4>2. H[T] = S[T] /\ S[T] = IF T = {} THEN 0 ELSE f[pick(T)] + S[T \ {pick(T)}]
        BY <2>1, <3>2, <4>1 DEF SumsTo
      <4>3. T # {} => H[T \ {pick(T)}] = S[T \ {pick(T)}]
        <5> HAVE T # {}
        <5>1. pick(T) \in T
          OBVIOUS
        <5>2. T \ {pick(T)} \in SUBSET D /\ Cardinality(T \ {pick(T)}) # m + 1
          BY <4>1, <5>1, OneLess
        <5>3. QED
          BY <5>2
      <4>4. QED
        BY <4>2, <4>3
    <3>3. QED
      BY <3>1, <3>2
  <2>a. H = [T \in SUBSET D |-> H[T]]
    OBVIOUS
  <2> HIDE DEF H
  <2>3. H = [T \in SUBSET D |-> H[T]] /\ SumsTo(H, f, D, m + 1)
    BY <2>2, <2>a DEF SumsTo
  <2>4. m + 1 \in 0..n
    BY <1>0
  <2>5. QED
    BY <2>3, <2>4
<1>3. n \in P
  <2> HIDE DEF P, n
  <2>1. \A m \in 0..n : m \in P
    BY <1>0, <1>1, <1>2, UpTo
  <2>2. QED
    BY <1>0, <2>1
<1>4. PICK S : S = [T \in SUBSET D |-> S[T]] /\ SumsTo(S, f, D, n)
  BY <1>3
<1>5. \A T \in SUBSET D : Cardinality(T) <= n
  BY OneLess
<1>6. Sums(S, f, D)
  BY <1>4, <1>5 DEF Sums, SumsTo
<1>7. QED
  BY <1>6

LEMMA TotalIs == ASSUME NEW f, IsFiniteSet(DOMAIN f) PROVE \E S : Sums(S, f, DOMAIN f) /\ Total(f) = S[DOMAIN f]
<1> DEFINE S == CHOOSE S : Sums(S, f, DOMAIN f)
<1>1. Sums(S, f, DOMAIN f)
  BY SumsRun
<1>2. Total(f) = S[DOMAIN f]
  BY DEF Total, Sums
<1>3. QED
  BY <1>1, <1>2

\* A sum is a number, and any element may be taken first.
LEMMA SumsAny ==
  ASSUME NEW D, IsFiniteSet(D), NEW f \in [D -> Int], NEW S, Sums(S, f, D)
  PROVE  \A T \in SUBSET D : S[T] \in Int /\ \A x \in T : S[T] = f[x] + S[T \ {x}]
<1> DEFINE n == Cardinality(D)
           Fine(T) == S[T] \in Int /\ \A x \in T : S[T] = f[x] + S[T \ {x}]
           P == {m \in 0..n : \A T \in SUBSET D : Cardinality(T) <= m => Fine(T)}
<1>0. n \in Nat
  BY FS_CardinalityType
<1>1. 0 \in P
  <2>1. ASSUME NEW T \in SUBSET D, Cardinality(T) <= 0 PROVE Fine(T)
    <3>1. T = {}
      BY <2>1, OneLess
    <3>2. QED
      BY <3>1 DEF Sums
  <2>2. QED
    BY <1>0, <2>1
<1>2. ASSUME NEW m \in 0..(n - 1), m \in P PROVE m + 1 \in P
  <2>1. ASSUME NEW T \in SUBSET D, Cardinality(T) = m + 1 PROVE Fine(T)
    <3> DEFINE c == CHOOSE x \in T : TRUE
    <3>1. T # {} /\ c \in T /\ S[T] = f[c] + S[T \ {c}]
      <4>1. T # {} /\ c \in T
        BY <2>1, OneLess
      <4>2. QED
        BY <4>1 DEF Sums
    <3> HIDE DEF c
    <3>2. ASSUME NEW y \in T PROVE T \ {y} \in SUBSET D /\ Cardinality(T \ {y}) = m /\ Fine(T \ {y})
      <4>1. T \ {y} \in SUBSET D /\ Cardinality(T \ {y}) = m
        BY <2>1, OneLess
      <4>2. m <= m
        OBVIOUS
      <4> HIDE DEF Fine
      <4>3. QED
        BY <1>2, <4>1, <4>2
    <3>3. S[T] \in Int
      <4>1. S[T \ {c}] \in Int /\ f[c] \in Int
        BY <3>1, <3>2
      <4>2. QED
        BY <3>1, <4>1
    <3>4. ASSUME NEW x \in T PROVE S[T] = f[x] + S[T \ {x}]
      <4>1. CASE x = c
        BY <3>1, <4>1
      <4>2. CASE x # c
        <5>1. S[T \ {c}] = f[x] + S[(T \ {c}) \ {x}]
          BY <3>1, <3>2, <4>2
        <5>2. S[T \ {x}] = f[c] + S[(T \ {x}) \ {c}]
          BY <3>1, <3>2, <4>2
        <5>3. (T \ {c}) \ {x} = (T \ {x}) \ {c}
          OBVIOUS
        <5>4. (T \ {c}) \ {x} \in SUBSET D /\ Cardinality((T \ {c}) \ {x}) <= m
          <6> DEFINE U == T \ {c}
          <6>1. U \in SUBSET D /\ Cardinality(U) = m /\ x \in U
            BY <3>1, <3>2, <4>2
          <6> HIDE DEF U
          <6>2. U \ {x} \in SUBSET D /\ Cardinality(U \ {x}) = Cardinality(U) - 1
            BY <6>1, OneLess
          <6>3. U \ {x} \in SUBSET D /\ Cardinality(U \ {x}) <= m
            BY <6>1, <6>2
          <6>4. QED
            BY <6>3 DEF U
        <5>5. S[(T \ {c}) \ {x}] \in Int
          BY <1>2, <5>4
        <5>6. f[c] \in Int /\ f[x] \in Int
          BY <3>1
        <5> DEFINE z == S[(T \ {c}) \ {x}]
        <5>7. S[T] = f[c] + (f[x] + z) /\ S[T \ {x}] = f[c] + z /\ z \in Int
          BY <3>1, <5>1, <5>2, <5>3, <5>5
        <5> HIDE DEF z
        <5>8. QED
          BY <5>6, <5>7
      <4>3. QED
        BY <4>1, <4>2
    <3>5. QED
      BY <3>3, <3>4
  <2>2. ASSUME NEW T \in SUBSET D, Cardinality(T) <= m + 1 PROVE Fine(T)
    <3>1. Cardinality(T) \in Nat
      BY OneLess
    <3>2. Cardinality(T) <= m \/ Cardinality(T) = m + 1
      BY <2>2, <3>1
    <3> HIDE DEF Fine
    <3>3. QED
      BY <1>2, <2>1, <3>2
  <2> HIDE DEF Fine
  <2>3. QED
    BY <1>0, <2>2
<1>3. n \in P
  <2> HIDE DEF P, n
  <2>1. \A m \in 0..n : m \in P
    BY <1>0, <1>1, <1>2, UpTo
  <2>2. QED
    BY <1>0, <2>1
<1>4. \A T \in SUBSET D : Cardinality(T) <= n
  BY OneLess
<1>5. QED
  BY <1>3, <1>4

\* Functions that agree have the same sums.
LEMMA SumsAlike ==
  ASSUME NEW D, IsFiniteSet(D), NEW f, NEW S, Sums(S, f, D),
         NEW E \in SUBSET D, NEW g, NEW R, Sums(R, g, E), \A x \in E : f[x] = g[x]
  PROVE  S[E] = R[E]
<1> DEFINE n == Cardinality(E)
           P == {m \in 0..n : \A T \in SUBSET E : Cardinality(T) = m => S[T] = R[T]}
<1>0. n \in Nat /\ IsFiniteSet(E)
  BY FS_CardinalityType, FS_Subset
<1>1. 0 \in P
  <2>1. ASSUME NEW T \in SUBSET E, Cardinality(T) = 0 PROVE S[T] = R[T]
    <3>1. T = {} /\ T \in SUBSET D
      BY <1>0, <2>1, OneLess
    <3>2. QED
      BY <3>1 DEF Sums
  <2>2. QED
    BY <1>0, <2>1
<1>2. ASSUME NEW m \in 0..(n - 1), m \in P PROVE m + 1 \in P
  <2>1. ASSUME NEW T \in SUBSET E, Cardinality(T) = m + 1 PROVE S[T] = R[T]
    <3> DEFINE c == CHOOSE x \in T : TRUE
    <3>1. T # {} /\ c \in T /\ T \in SUBSET D
      BY <1>0, <2>1, OneLess
    <3>2. S[T] = f[c] + S[T \ {c}] /\ R[T] = g[c] + R[T \ {c}]
      BY <3>1 DEF Sums
    <3> HIDE DEF c
    <3>3. T \ {c} \in SUBSET E /\ Cardinality(T \ {c}) = m
      <4>1. T \ {c} \in SUBSET E /\ Cardinality(T \ {c}) = Cardinality(T) - 1
        BY <1>0, <3>1, OneLess
      <4>2. QED
        BY <2>1, <4>1
    <3>4. QED
      BY <1>2, <3>1, <3>2, <3>3
  <2>2. QED
    BY <1>0, <2>1
<1>3. n \in P
  <2> HIDE DEF P, n
  <2>1. \A m \in 0..n : m \in P
    BY <1>0, <1>1, <1>2, UpTo
  <2>2. QED
    BY <1>0, <2>1
<1>4. QED
  BY <1>3

\* The sum of figures: a number, none of nothing, and of one more figure that much more.
LEMMA TotalSums ==
  ASSUME NEW f, IsFiniteSet(DOMAIN f), \A y \in DOMAIN f : f[y] \in Int
  PROVE  /\ Total(f) \in Int
         /\ DOMAIN f = {} => Total(f) = 0
         /\ \A x \in DOMAIN f : \A g : DOMAIN g = DOMAIN f \ {x} /\ (\A y \in DOMAIN g : g[y] = f[y]) => Total(f) = f[x] + Total(g)
<1> DEFINE D == DOMAIN f
<1>1. PICK S : Sums(S, f, D) /\ Total(f) = S[D]
  BY TotalIs
<1> DEFINE h == [y \in D |-> f[y]]
<1>2. h \in [D -> Int] /\ Sums(S, h, D)
  <2>1. h \in [D -> Int] /\ \A y \in D : h[y] = f[y]
    OBVIOUS
  <2> HIDE DEF h
  <2>2. S = [T \in SUBSET D |-> IF T = {} THEN 0 ELSE LET x == CHOOSE x \in T : TRUE IN h[x] + S[T \ {x}]]
    <3>1. S = [T \in SUBSET D |-> IF T = {} THEN 0 ELSE LET x == CHOOSE x \in T : TRUE IN f[x] + S[T \ {x}]]
      BY <1>1 DEF Sums
    <3>2. ASSUME NEW T \in SUBSET D, T # {} PROVE (CHOOSE x \in T : TRUE) \in D
      BY <3>2
    <3>3. QED
      BY <2>1, <3>1, <3>2
  <2>3. QED
    BY <2>1, <2>2 DEF Sums
<1>3. \A x \in D : h[x] = f[x]
  OBVIOUS
<1> HIDE DEF h
<1>4. S[D] \in Int /\ \A x \in D : S[D] = f[x] + S[D \ {x}]
  <2>1. \A T \in SUBSET D : S[T] \in Int /\ \A x \in T : S[T] = h[x] + S[T \ {x}]
    BY <1>2, SumsAny
  <2>2. QED
    BY <1>3, <2>1
<1>5. ASSUME D = {} PROVE S[D] = 0
  BY <1>1, <1>5 DEF Sums
<1>6. ASSUME NEW x \in D, NEW g, DOMAIN g = D \ {x}, \A y \in DOMAIN g : g[y] = f[y] PROVE S[D \ {x}] = Total(g)
  <2> DEFINE E == DOMAIN g
  <2>1. IsFiniteSet(E) /\ E \in SUBSET D
    BY <1>6, FS_Subset
  <2>2. PICK R : Sums(R, g, E) /\ Total(g) = R[E]
    BY <2>1, TotalIs
  <2>3. \A y \in E : f[y] = g[y]
    BY <1>6
  <2> HIDE DEF D, E
  <2>4. S[E] = R[E]
    BY <1>1, <2>1, <2>2, <2>3, SumsAlike DEF D
  <2>5. QED
    BY <1>6, <2>2, <2>4 DEF E
<1>7. QED
  BY <1>1, <1>4, <1>5, <1>6

LEMMA TotalInt == ASSUME NEW f, IsFiniteSet(DOMAIN f), \A y \in DOMAIN f : f[y] \in Int PROVE Total(f) \in Int
BY TotalSums

LEMMA TotalNone == ASSUME NEW f, DOMAIN f = {} PROVE Total(f) = 0
BY TotalSums, FS_EmptySet

LEMMA TotalWithout ==
  ASSUME NEW f, IsFiniteSet(DOMAIN f), \A y \in DOMAIN f : f[y] \in Int,
         NEW x \in DOMAIN f, NEW g, DOMAIN g = DOMAIN f \ {x}, \A y \in DOMAIN g : g[y] = f[y]
  PROVE  Total(f) = f[x] + Total(g)
<1>1. \A a \in DOMAIN f : \A h : DOMAIN h = DOMAIN f \ {a} /\ (\A y \in DOMAIN h : h[y] = f[y]) => Total(f) = f[a] + Total(h)
  BY TotalSums, Zenon
<1>2. QED
  BY <1>1, Zenon

\* One figure changes.
LEMMA TotalChanged ==
  ASSUME NEW f, IsFiniteSet(DOMAIN f), \A y \in DOMAIN f : f[y] \in Int, NEW x \in DOMAIN f,
         NEW g, DOMAIN g = DOMAIN f, g[x] \in Int, \A y \in DOMAIN f : y # x => g[y] = f[y]
  PROVE  Total(g) = Total(f) - f[x] + g[x]
<1> DEFINE h == [y \in DOMAIN f \ {x} |-> f[y]]
<1>1. DOMAIN h = DOMAIN f \ {x} /\ \A y \in DOMAIN h : h[y] = f[y] /\ h[y] = g[y] /\ h[y] \in Int
  OBVIOUS
<1>2. IsFiniteSet(DOMAIN h)
  BY <1>1, FS_Subset
<1> HIDE DEF h
<1>3. Total(h) \in Int
  BY <1>1, <1>2, TotalInt
<1>4. Total(f) = f[x] + Total(h)
  BY <1>1, TotalWithout
<1>5. Total(g) = g[x] + Total(h)
  <2>1. \A y \in DOMAIN g : g[y] \in Int
    OBVIOUS
  <2>2. QED
    BY <1>1, <2>1, TotalWithout
<1>6. QED
  BY <1>3, <1>4, <1>5

\* Figures that are all alike but one: nothing else counts.
LEMMA TotalZero ==
  ASSUME NEW f, IsFiniteSet(DOMAIN f), \A y \in DOMAIN f : f[y] = 0
  PROVE  Total(f) = 0
<1>1. PICK S : Sums(S, f, DOMAIN f) /\ Total(f) = S[DOMAIN f]
  BY TotalIs
<1> DEFINE D == DOMAIN f
           n == Cardinality(D)
           P == {m \in 0..n : \A T \in SUBSET D : Cardinality(T) = m => S[T] = 0}
<1>2. n \in Nat
  BY FS_CardinalityType
<1>3. 0 \in P
  <2>1. ASSUME NEW T \in SUBSET D, Cardinality(T) = 0 PROVE S[T] = 0
    <3>1. T = {}
      BY <2>1, OneLess
    <3>2. QED
      BY <1>1, <3>1 DEF Sums
  <2>2. QED
    BY <1>2, <2>1
<1>4. ASSUME NEW m \in 0..(n - 1), m \in P PROVE m + 1 \in P
  <2>1. ASSUME NEW T \in SUBSET D, Cardinality(T) = m + 1 PROVE S[T] = 0
    <3> DEFINE c == CHOOSE x \in T : TRUE
    <3>1. T # {} /\ c \in T
      BY <2>1, OneLess
    <3>2. S[T] = f[c] + S[T \ {c}]
      BY <1>1, <3>1 DEF Sums
    <3> HIDE DEF c
    <3>3. T \ {c} \in SUBSET D /\ Cardinality(T \ {c}) = m
      BY <2>1, <3>1, OneLess
    <3>4. QED
      BY <1>4, <3>1, <3>2, <3>3
  <2>2. QED
    BY <1>2, <2>1
<1>5. n \in P
  <2> HIDE DEF P, n
  <2>1. \A m \in 0..n : m \in P
    BY <1>2, <1>3, <1>4, UpTo
  <2>2. QED
    BY <1>2, <2>1
<1>6. QED
  BY <1>1, <1>5
===============================================================================
