---------------------------- MODULE DualCoreProofs ----------------------------
(***************************************************************************)
(* Proofs about run_speculative_slot (DualCore), for any number of cells,   *)
(* any limits and any slots.  First the operators: filter, sort, the heap   *)
(* of refine_candidates_with and the merge of two of them.  Then the        *)
(* inductive invariant DInv, one lemma per action, and what follows.        *)
(***************************************************************************)
EXTENDS DualCore, FiniteSetTheorems, WellFoundedInduction, TLAPS

(* A set of naturals has a least element.                                   *)
LEMMA LeastNat ==
  ASSUME NEW T, T \subseteq Nat, T # {}
  PROVE  \E n \in T : \A k \in T : n <= k
<1>1. \E x \in T : \A y \in T : ~(<<y, x>> \in OpToRel(<, Nat))
  BY NatLessThanWellFounded, WFMin
<1>2. PICK x \in T : \A y \in T : ~(<<y, x>> \in OpToRel(<, Nat))
  BY <1>1
<1>3. \A y \in T : ~(y < x)
  BY <1>2 DEF OpToRel
<1> QED BY <1>3

(* Induction over the naturals, for a set.                                  *)
LEMMA NatInd ==
  ASSUME NEW S, 0 \in S, \A n \in Nat : n \in S => n + 1 \in S
  PROVE  Nat \subseteq S
<1>1. SUFFICES ASSUME Nat \ S # {} PROVE FALSE
  OBVIOUS
<1>2. PICK n \in Nat \ S : \A k \in Nat \ S : n <= k
  BY <1>1, LeastNat
<1>3. n # 0
  OBVIOUS
<1>4. n - 1 \in Nat /\ n - 1 < n
  BY <1>3
<1>5. n - 1 \in S
  BY <1>2, <1>4
<1> QED BY <1>4, <1>5

(* Iterator::filter, one element at a time.                                 *)
LEMMA KeptUnfold ==
  ASSUME NEW T, NEW s \in Seq(T), NEW I
  PROVE  \E f : /\ f = [n \in 0..Len(s) |-> IF n = 0 THEN <<>>
                          ELSE IF n \in I THEN Append(f[n - 1], s[n]) ELSE f[n - 1]]
                /\ Kept(s, I) = f[Len(s)]
<1> DEFINE Is(f, k) == f = [n \in 0..k |-> IF n = 0 THEN <<>>
                          ELSE IF n \in I THEN Append(f[n - 1], s[n]) ELSE f[n - 1]]
<1> DEFINE Has(k) == \E f : Is(f, k)
<1> DEFINE S == {k \in Nat : Has(k)}
<1>1. Has(0)
  <2>1. Is([n \in 0..0 |-> <<>>], 0)
    OBVIOUS
  <2> QED BY <2>1
<1>2. ASSUME NEW k \in Nat, Has(k) PROVE Has(k + 1)
  <2>1. PICK f : Is(f, k)
    BY <1>2
  <2> DEFINE g == [n \in 0..(k + 1) |-> IF n = k + 1
                    THEN IF n \in I THEN Append(f[k], s[n]) ELSE f[k] ELSE f[n]]
  <2>2. \A n \in 0..k : f[n] = IF n = 0 THEN <<>>
                          ELSE IF n \in I THEN Append(f[n - 1], s[n]) ELSE f[n - 1]
    BY <2>1
  <2>3. \A n \in 0..(k + 1) : g[n] = IF n = 0 THEN <<>>
                          ELSE IF n \in I THEN Append(g[n - 1], s[n]) ELSE g[n - 1]
    BY <2>2
  <2>4. Is(g, k + 1)
    BY <2>3
  <2> QED BY <2>4
<1>3. Has(Len(s))
  <2> HIDE DEF Has
  <2>1. 0 \in S /\ \A k \in Nat : k \in S => k + 1 \in S
    BY <1>1, <1>2
  <2> HIDE DEF S
  <2>2. Nat \subseteq S
    BY <2>1, NatInd
  <2>3. Len(s) \in S
    BY <2>2
  <2> QED BY <2>3 DEF S
<1> DEFINE f == CHOOSE f : Is(f, Len(s))
<1>4. Is(f, Len(s))
  BY <1>3
<1>5. Kept(s, I) = f[Len(s)]
  BY DEF Kept
<1> QED BY <1>4, <1>5

(* What a filter keeps are elements of the sequence at kept positions.      *)
LEMMA KeptType ==
  ASSUME NEW T, NEW s \in Seq(T), NEW I
  PROVE  /\ Kept(s, I) \in Seq(T) /\ Len(Kept(s, I)) <= Len(s)
         /\ \A i \in 1..Len(Kept(s, I)) : \E j \in 1..Len(s) : j \in I /\ Kept(s, I)[i] = s[j]
         /\ \A j \in 1..Len(s) : j \in I => \E i \in 1..Len(Kept(s, I)) : Kept(s, I)[i] = s[j]
<1>1. PICK f : /\ f = [n \in 0..Len(s) |-> IF n = 0 THEN <<>>
                          ELSE IF n \in I THEN Append(f[n - 1], s[n]) ELSE f[n - 1]]
               /\ Kept(s, I) = f[Len(s)]
  BY KeptUnfold
<1> DEFINE Good(n) == /\ f[n] \in Seq(T) /\ Len(f[n]) <= n
                      /\ \A i \in 1..Len(f[n]) : \E j \in 1..n : j \in I /\ f[n][i] = s[j]
                      /\ \A j \in 1..n : j \in I => \E i \in 1..Len(f[n]) : f[n][i] = s[j]
<1> DEFINE S == {n \in Nat : n <= Len(s) => Good(n)}
<1>2. Good(0)
  <2>1. f[0] = <<>>
    BY <1>1
  <2> QED BY <2>1
<1>3. ASSUME NEW n \in Nat, Good(n), n + 1 <= Len(s) PROVE Good(n + 1)
  <2>1. n \in Nat /\ n + 1 <= Len(s)
    BY <1>3
  <2>2. Good(n)
    BY <1>3
  <2>3. f[n + 1] = IF n + 1 \in I THEN Append(f[n], s[n + 1]) ELSE f[n]
    <3>1. n + 1 \in 0..Len(s) /\ n + 1 # 0 /\ (n + 1) - 1 = n
      BY <2>1
    <3> QED BY <1>1, <3>1
  <2>4. s[n + 1] \in T
    BY <2>1
  <2>5. CASE n + 1 \in I
    <3>1. f[n + 1] \in Seq(T) /\ Len(f[n + 1]) = Len(f[n]) + 1
      BY <2>2, <2>3, <2>4, <2>5
    <3>2. f[n + 1][Len(f[n]) + 1] = s[n + 1] /\ \A i \in 1..Len(f[n]) : f[n + 1][i] = f[n][i]
      BY <2>2, <2>3, <2>4, <2>5
    <3>3. \A i \in 1..Len(f[n + 1]) : \E j \in 1..(n + 1) : j \in I /\ f[n + 1][i] = s[j]
      <4>1. Len(f[n]) \in Nat
        BY <2>2
      <4>2. ASSUME NEW i \in 1..Len(f[n + 1]) PROVE \E j \in 1..(n + 1) : j \in I /\ f[n + 1][i] = s[j]
        <5>1. CASE i = Len(f[n]) + 1
          BY <5>1, <3>2, <2>5
        <5>2. CASE i # Len(f[n]) + 1
          <6>1. i \in 1..Len(f[n])
            BY <5>2, <3>1, <4>1
          <6>2. PICK j \in 1..n : j \in I /\ f[n][i] = s[j]
            BY <6>1, <2>2
          <6> QED BY <6>1, <6>2, <3>2
        <5> QED BY <5>1, <5>2
      <4> QED BY <4>2
    <3>4. \A j \in 1..(n + 1) : j \in I => \E i \in 1..Len(f[n + 1]) : f[n + 1][i] = s[j]
      <4>1. Len(f[n]) \in Nat
        BY <2>2
      <4>2. ASSUME NEW j \in 1..(n + 1), j \in I PROVE \E i \in 1..Len(f[n + 1]) : f[n + 1][i] = s[j]
        <5>1. CASE j = n + 1
          BY <5>1, <3>1, <3>2, <4>1
        <5>2. CASE j # n + 1
          <6>1. PICK i \in 1..Len(f[n]) : f[n][i] = s[j]
            BY <5>2, <2>2, <4>2
          <6> QED BY <6>1, <3>1, <3>2, <4>1
        <5> QED BY <5>1, <5>2
      <4> QED BY <4>2
    <3> QED BY <3>1, <3>3, <3>4, <2>2
  <2>6. CASE n + 1 \notin I
    BY <2>2, <2>3, <2>6
  <2> QED BY <2>5, <2>6
<1>4. Good(Len(s))
  <2> HIDE DEF Good
  <2>1. \A n \in Nat : n \in S => n + 1 \in S
    BY <1>3
  <2>2. 0 \in S
    BY <1>2
  <2>3. Nat \subseteq S
    BY <2>2, <2>1, NatInd
  <2> QED BY <2>3
<1>5. Kept(s, I) = f[Len(s)]
  BY <1>1
<1> DEFINE g == f[Len(s)]
<1>6. /\ g \in Seq(T) /\ Len(g) <= Len(s)
      /\ \A i \in 1..Len(g) : \E j \in 1..Len(s) : j \in I /\ g[i] = s[j]
      /\ \A j \in 1..Len(s) : j \in I => \E i \in 1..Len(g) : g[i] = s[j]
  BY <1>4
<1> HIDE DEF g
<1> QED BY <1>5, <1>6 DEF g

(* Elements and length of a sequence.                                       *)
LEMMA SeqElement ==
  ASSUME NEW T, NEW s \in Seq(T)
  PROVE  Len(s) \in Nat /\ DOMAIN s = 1..Len(s) /\ \A i \in 1..Len(s) : s[i] \in T
  OBVIOUS

(* 1..n has n elements.                                                     *)
LEMMA UpTo ==
  ASSUME NEW n \in Nat PROVE IsFiniteSet(1..n) /\ Cardinality(1..n) = n
  BY FS_Interval

(* sort_by's places: between 1 and the length, and ordered as the keys are, *)
(* equals by their position.                                                *)
LEMMA PlaceBijective ==
  ASSUME NEW T, NEW s \in Seq(T), NEW key, \A x \in T : key[x] \in Int
  PROVE  /\ \A i \in 1..Len(s) : Place(s, key, i) \in 1..Len(s)
         /\ \A i, j \in 1..Len(s) :
              key[s[i]] > key[s[j]] \/ (key[s[i]] = key[s[j]] /\ i < j)
                => Place(s, key, i) < Place(s, key, j)
         /\ \A r \in 1..Len(s) : \E i \in 1..Len(s) : Place(s, key, i) = r
<1> DEFINE n == Len(s)
           Up(i) == {j \in DOMAIN s : key[s[j]] > key[s[i]] \/ (key[s[j]] = key[s[i]] /\ j <= i)}
<1>1. n \in Nat /\ DOMAIN s = 1..n /\ \A i \in 1..n : key[s[i]] \in Int
  OBVIOUS
<1>2. ASSUME NEW i PROVE Place(s, key, i) = Cardinality(Up(i))
  BY DEF Place
<1>3. IsFiniteSet(1..n) /\ Cardinality(1..n) = n
  BY <1>1, UpTo
<1>4. \A i \in 1..n : IsFiniteSet(Up(i)) /\ Cardinality(Up(i)) \in 1..n
  <2>1. TAKE i \in 1..n
  <2>2. Up(i) \in SUBSET (1..n) /\ i \in Up(i)
    BY <1>1
  <2>3. IsFiniteSet(Up(i)) /\ Cardinality(Up(i)) <= n /\ Cardinality(Up(i)) \in Nat
    BY <2>2, <1>3, FS_Subset, FS_CardinalityType
  <2>4. Cardinality(Up(i)) # 0
    BY <2>2, <2>3, FS_EmptySet
  <2> QED BY <2>3, <2>4, <1>1
<1>5. ASSUME NEW i \in 1..n, NEW j \in 1..n,
             key[s[i]] > key[s[j]] \/ (key[s[i]] = key[s[j]] /\ i < j)
      PROVE  Cardinality(Up(i)) < Cardinality(Up(j))
  <2>1. Up(i) \subseteq Up(j)
    BY <1>1, <1>5
  <2>2. j \in Up(j) /\ j \notin Up(i)
    BY <1>1, <1>5
  <2>3. Cardinality(Up(i)) <= Cardinality(Up(j)) /\ Cardinality(Up(i)) # Cardinality(Up(j))
    <3>1. IsFiniteSet(Up(j)) /\ Up(i) \in SUBSET Up(j) /\ Up(j) # Up(i)
      BY <1>4, <2>1, <2>2
    <3> HIDE DEF Up
    <3> QED BY <3>1, FS_Subset
  <2>4. Cardinality(Up(i)) \in 1..n /\ Cardinality(Up(j)) \in 1..n
    <3> HIDE DEF Up
    <3> QED BY <1>4
  <2> QED BY <2>3, <2>4
<1> HIDE DEF Up
<1>6. \A r \in 1..n : \E i \in 1..n : Cardinality(Up(i)) = r
  <2> DEFINE f == [i \in 1..n |-> Cardinality(Up(i))]
  <2>1. f \in [1..n -> 1..n]
    BY <1>4
  <2>2. \A i, j \in 1..n : f[i] = f[j] => i = j
    <3>1. SUFFICES ASSUME NEW i \in 1..n, NEW j \in 1..n, i # j PROVE f[i] # f[j]
      OBVIOUS
    <3>2. \/ key[s[i]] > key[s[j]] \/ (key[s[i]] = key[s[j]] /\ i < j)
          \/ key[s[j]] > key[s[i]] \/ (key[s[j]] = key[s[i]] /\ j < i)
      BY <1>1, <3>1
    <3>3. f[i] < f[j] \/ f[j] < f[i]
      BY <3>2, <1>5
    <3>4. f[i] \in Int /\ f[j] \in Int
      BY <2>1
    <3> QED BY <3>3, <3>4
  <2>3. f \in Injection(1..n, 1..n)
    BY <2>1, <2>2 DEF Injection, IsInjective
  <2>4. f \in Surjection(1..n, 1..n)
    BY <2>3, <1>3, FS_Injection
  <2> QED BY <2>4 DEF Surjection
<1> QED BY <1>2, <1>4, <1>5, <1>6

(* Sorting gives a sequence of the same length and of the same elements.    *)
LEMMA RankedType ==
  ASSUME NEW T, NEW s \in Seq(T), NEW key, \A x \in T : key[x] \in Int
  PROVE  /\ Ranked(s, key) \in Seq(T) /\ Len(Ranked(s, key)) = Len(s)
         /\ \A r \in 1..Len(s) : \E i \in 1..Len(s) :
              Place(s, key, i) = r /\ Ranked(s, key)[r] = s[i]
         /\ \A i \in 1..Len(s) : Ranked(s, key)[Place(s, key, i)] = s[i]
<1>1. Len(s) \in Nat /\ DOMAIN s = 1..Len(s) /\ \A i \in 1..Len(s) : s[i] \in T
  OBVIOUS
<1> DEFINE At(r) == CHOOSE i \in 1..Len(s) : Place(s, key, i) = r
<1>2. \A r \in 1..Len(s) : At(r) \in 1..Len(s) /\ Place(s, key, At(r)) = r
  BY PlaceBijective
<1>3. Ranked(s, key) = [r \in 1..Len(s) |-> s[At(r)]]
  BY <1>1 DEF Ranked
<1> HIDE DEF At
<1>4. Ranked(s, key) \in Seq(T) /\ Len(Ranked(s, key)) = Len(s)
  BY <1>1, <1>2, <1>3
<1>5. ASSUME NEW i \in 1..Len(s) PROVE Ranked(s, key)[Place(s, key, i)] = s[i]
  <2>1. Place(s, key, i) \in 1..Len(s)
    BY PlaceBijective
  <2>2. At(Place(s, key, i)) \in 1..Len(s) /\ Place(s, key, At(Place(s, key, i))) = Place(s, key, i)
    BY <2>1, <1>2
  <2>3. ASSUME NEW j \in 1..Len(s), j # i PROVE Place(s, key, j) # Place(s, key, i)
    <3>1. key[s[i]] \in Int /\ key[s[j]] \in Int /\ i \in Int /\ j \in Int
      BY <1>1
    <3>4. \/ key[s[i]] > key[s[j]] \/ (key[s[i]] = key[s[j]] /\ i < j)
          \/ key[s[j]] > key[s[i]] \/ (key[s[j]] = key[s[i]] /\ j < i)
      BY <3>1, <2>3
    <3>2. Place(s, key, i) < Place(s, key, j) \/ Place(s, key, j) < Place(s, key, i)
      BY <3>4, PlaceBijective
    <3>3. Place(s, key, i) \in 1..Len(s) /\ Place(s, key, j) \in 1..Len(s)
      BY PlaceBijective
    <3> QED BY <3>2, <3>3
  <2>4. At(Place(s, key, i)) = i
    BY <2>2, <2>3
  <2> QED BY <2>1, <2>4, <1>3
<1> QED BY <1>2, <1>3, <1>4, <1>5

(* A heap that is not empty has a weakest member.                           *)
LEMMA WeakestExists ==
  ASSUME NEW s \in Seq(DOMAIN scen.q), s # <<>>, scen.q \in [DOMAIN scen.q -> Nat]
  PROVE  /\ Weakest(s) \in 1..Len(s)
         /\ \A j \in 1..Len(s) : scen.q[s[Weakest(s)]] <= scen.q[s[j]]
<1>1. Len(s) \in Nat /\ Len(s) # 0 /\ DOMAIN s = 1..Len(s) /\ \A i \in 1..Len(s) : scen.q[s[i]] \in Nat
  OBVIOUS
<1> DEFINE Q == {scen.q[s[i]] : i \in 1..Len(s)}
<1>2. PICK v \in Q : \A w \in Q : v <= w
  <2>1. Q \subseteq Nat
    BY <1>1
  <2>2. scen.q[s[1]] \in Q
    BY <1>1
  <2> HIDE DEF Q
  <2> QED BY <2>1, <2>2, LeastNat
<1> DEFINE I == {i \in 1..Len(s) : scen.q[s[i]] = v}
<1>3. PICK i \in I : \A j \in I : i <= j
  <2>1. I \subseteq Nat /\ I # {}
    BY <1>1
  <2> HIDE DEF I
  <2> QED BY <2>1, LeastNat
<1> DEFINE Is(k) == \A j \in DOMAIN s \ {k} :
                scen.q[s[k]] < scen.q[s[j]] \/ (scen.q[s[k]] = scen.q[s[j]] /\ k < j)
<1>4. Is(i)
  <2>1. SUFFICES ASSUME NEW j \in 1..Len(s), j # i
        PROVE scen.q[s[i]] < scen.q[s[j]] \/ (scen.q[s[i]] = scen.q[s[j]] /\ i < j)
    BY <1>1
  <2>2. scen.q[s[j]] \in Q /\ v <= scen.q[s[j]]
    BY <1>2
  <2>3. CASE scen.q[s[j]] = v
    BY <2>1, <2>3, <1>3
  <2>4. CASE scen.q[s[j]] # v
    BY <2>2, <2>4, <1>1
  <2> QED BY <2>3, <2>4
<1>5. i \in DOMAIN s
  BY <1>1
<1>6. Weakest(s) \in DOMAIN s /\ Is(Weakest(s))
  <2>1. Weakest(s) = CHOOSE k \in DOMAIN s : Is(k)
    BY DEF Weakest
  <2> HIDE DEF Is
  <2> QED BY <1>4, <1>5, <2>1
<1>7. ASSUME NEW j \in 1..Len(s) PROVE scen.q[s[Weakest(s)]] <= scen.q[s[j]]
  <2> DEFINE w == Weakest(s)
  <2>1. w \in 1..Len(s) /\ scen.q[s[w]] \in Nat /\ scen.q[s[j]] \in Nat
    BY <1>1, <1>6
  <2>2. j # w => scen.q[s[w]] < scen.q[s[j]] \/ scen.q[s[w]] = scen.q[s[j]]
    BY <1>1, <1>6
  <2> HIDE DEF w
  <2> QED BY <2>1, <2>2 DEF w
<1> QED BY <1>1, <1>6, <1>7

(* Dropping one member leaves all the others.                               *)
LEMMA RemoveAtProps ==
  ASSUME NEW T, NEW s \in Seq(T), NEW w \in 1..Len(s)
  PROVE  /\ RemoveAt(s, w) \in Seq(T) /\ Len(RemoveAt(s, w)) = Len(s) - 1
         /\ \A i \in 1..(Len(s) - 1) : RemoveAt(s, w)[i] = IF i < w THEN s[i] ELSE s[i + 1]
<1> DEFINE a == SubSeq(s, 1, w - 1)
           b == SubSeq(s, w + 1, Len(s))
<1>1. a \in Seq(T) /\ Len(a) = w - 1 /\ \A i \in 1..(w - 1) : a[i] = s[i]
  OBVIOUS
<1>2. b \in Seq(T) /\ Len(b) = Len(s) - w /\ \A i \in 1..(Len(s) - w) : b[i] = s[i + w]
  <2>1. Len(s) \in Nat /\ w + 1 \in Int /\ \A i \in (w + 1)..Len(s) : s[i] \in T
    OBVIOUS
  <2>2. b \in Seq(T) /\ Len(b) = Len(s) - w
    BY <2>1
  <2>3. ASSUME NEW i \in 1..(Len(s) - w) PROVE b[i] = s[i + w]
    <3>1. b[i] = s[(w + 1) + i - 1] /\ (w + 1) + i - 1 = i + w
      BY <2>1
    <3> QED BY <3>1
  <2> QED BY <2>2, <2>3
<1>3. RemoveAt(s, w) = a \o b
  BY DEF RemoveAt
<1> HIDE DEF a, b
<1>4. Len(a) \in Nat /\ Len(b) \in Nat /\ Len(s) \in Nat
  BY <1>1, <1>2
<1>7. a \in Seq(T) /\ b \in Seq(T)
  BY <1>1, <1>2
<1>5. a \o b \in Seq(T) /\ Len(a \o b) = Len(a) + Len(b)
  BY <1>7
<1>6. ASSUME NEW i \in 1..(Len(s) - 1) PROVE (a \o b)[i] = IF i < w THEN s[i] ELSE s[i + 1]
  <2>1. (a \o b)[i] = IF i <= Len(a) THEN a[i] ELSE b[i - Len(a)]
    BY <1>1, <1>2, <1>4
  <2>2. CASE i < w
    BY <2>1, <2>2, <1>1
  <2>3. CASE ~(i < w)
    <3>1. i - Len(a) \in 1..(Len(s) - w) /\ (i - Len(a)) + w = i + 1
      BY <2>3, <1>1, <1>4
    <3>2. b[i - Len(a)] = s[i + 1]
      BY <3>1, <1>2
    <3>3. ~(i <= Len(a))
      BY <2>3, <1>1, <1>4
    <3> QED BY <2>1, <2>3, <3>2, <3>3
  <2> QED BY <2>2, <2>3
<1> QED BY <1>1, <1>2, <1>3, <1>4, <1>5, <1>6

(* x is in s; x is no stronger than any of the k in s.                      *)
Holds(s, x) == \E i \in 1..Len(s) : s[i] = x
Beaten(s, k, x) == Len(s) = k /\ \A i \in 1..Len(s) : scen.q[x] <= scen.q[s[i]]

(* refine_candidates_with, one push: whatever was in the heap or is pushed  *)
(* now is in it afterwards, or is beaten by all of a full heap.             *)
LEMMA PushKeepsBest ==
  ASSUME NEW h \in Seq(DOMAIN scen.q), NEW p \in DOMAIN scen.q, NEW k \in Nat,
         Len(h) <= k, scen.q \in [DOMAIN scen.q -> Nat]
  PROVE  /\ Push(k, h, p) \in Seq(DOMAIN scen.q)
         /\ Len(Push(k, h, p)) = IF Len(h) < k THEN Len(h) + 1 ELSE k
         /\ Holds(Push(k, h, p), p) \/ Beaten(Push(k, h, p), k, p)
         /\ \A x \in DOMAIN scen.q : Holds(h, x) \/ Beaten(h, k, x)
                => Holds(Push(k, h, p), x) \/ Beaten(Push(k, h, p), k, x)
<1> DEFINE P == DOMAIN scen.q
           w == Weakest(h)
           g == Push(k, h, p)
<1>1. Len(h) \in Nat /\ \A i \in 1..Len(h) : scen.q[h[i]] \in Nat
  OBVIOUS
<1>2. CASE Len(h) < k
  <2>1. g = Append(h, p)
    BY <1>2 DEF Push
  <2>2. g \in Seq(P) /\ Len(g) = Len(h) + 1 /\ g[Len(h) + 1] = p /\ \A i \in 1..Len(h) : g[i] = h[i]
    BY <2>1
  <2>3. \A x \in P : ~Beaten(h, k, x)
    BY <1>2, <1>1 DEF Beaten
  <2>4. Holds(g, p) /\ \A x \in P : Holds(h, x) => Holds(g, x)
    BY <2>2, <1>1 DEF Holds
  <2> QED BY <2>2, <2>3, <2>4, <1>2
<1>3. CASE Len(h) = k /\ k > 0 /\ scen.q[p] > scen.q[h[w]]
  <2>1. w \in 1..Len(h) /\ \A j \in 1..Len(h) : scen.q[h[w]] <= scen.q[h[j]]
    BY <1>3, <1>1, WeakestExists
  <2> DEFINE r == RemoveAt(h, w)
  <2>2. g = Append(r, p)
    BY <1>3, <1>1 DEF Push
  <2> HIDE DEF w
  <2>3. /\ r \in Seq(P) /\ Len(r) = Len(h) - 1
        /\ \A i \in 1..(Len(h) - 1) : r[i] = IF i < w THEN h[i] ELSE h[i + 1]
    BY <2>1, RemoveAtProps
  <2> HIDE DEF r
  <2>4. g \in Seq(P) /\ Len(g) = k /\ g[k] = p /\ \A i \in 1..(k - 1) : g[i] = r[i]
    BY <2>2, <2>3, <1>1, <1>3
  <2>5. Holds(g, p)
    BY <2>4, <1>3 DEF Holds
  <2>6. \A i \in 1..k : scen.q[h[w]] <= scen.q[g[i]]
    <3>1. TAKE i \in 1..k
    <3>2. CASE i = k
      BY <3>2, <2>4, <1>3, <2>1, <1>1
    <3>3. CASE i # k
      <4>1. i \in 1..(k - 1) /\ i \in 1..Len(h) /\ i + 1 \in 1..Len(h)
        BY <3>3, <1>3
      <4>2. g[i] = h[i] \/ g[i] = h[i + 1]
        BY <4>1, <2>3, <2>4, <1>3
      <4> QED BY <4>1, <4>2, <2>1
    <3> QED BY <3>2, <3>3
  <2>7. ASSUME NEW x \in P, Holds(h, x) PROVE Holds(g, x) \/ Beaten(g, k, x)
    <3>1. PICK i \in 1..Len(h) : h[i] = x
      BY <2>7 DEF Holds
    <3>2. CASE i = w
      BY <3>1, <3>2, <2>4, <2>6 DEF Beaten
    <3>3. CASE i < w
      <4>1. i \in 1..(k - 1) /\ g[i] = x
        BY <3>1, <3>3, <2>1, <2>3, <2>4, <1>3
      <4> QED BY <4>1, <2>4 DEF Holds
    <3>4. CASE i > w
      <4>1. i - 1 \in 1..(k - 1) /\ g[i - 1] = x
        BY <3>1, <3>4, <2>1, <2>3, <2>4, <1>3
      <4>2. i - 1 \in 1..Len(g)
        BY <4>1, <2>4
      <4> QED BY <4>1, <4>2 DEF Holds
    <3> QED BY <3>2, <3>3, <3>4, <2>1
  <2>8. ASSUME NEW x \in P, Beaten(h, k, x) PROVE Beaten(g, k, x)
    <3>1. scen.q[x] <= scen.q[h[w]] /\ scen.q[x] \in Nat /\ scen.q[h[w]] \in Nat
      BY <2>8, <2>1, <1>1 DEF Beaten
    <3>2. \A i \in 1..k : scen.q[g[i]] \in Nat
      BY <2>4
    <3>3. ASSUME NEW i \in 1..k PROVE scen.q[x] <= scen.q[g[i]]
      <4>1. scen.q[h[w]] <= scen.q[g[i]] /\ scen.q[g[i]] \in Nat
        BY <2>6, <3>2
      <4> QED BY <3>1, <4>1
    <3> QED BY <3>3, <2>4 DEF Beaten
  <2> QED BY <2>4, <2>5, <2>7, <2>8, <1>3
<1>4. CASE Len(h) = k /\ ~(k > 0 /\ scen.q[p] > scen.q[h[w]])
  <2>1. g = h
    BY <1>4, <1>1 DEF Push
  <2>2. Beaten(h, k, p)
    <3>1. CASE k = 0
      BY <3>1, <1>4 DEF Beaten
    <3>2. CASE k > 0
      <4>1. w \in 1..Len(h) /\ \A j \in 1..Len(h) : scen.q[h[w]] <= scen.q[h[j]]
        <5>1. Len(h) # 0
          BY <1>4, <3>2
        <5>2. h # <<>>
          BY <5>1
        <5> QED BY <5>2, WeakestExists
      <4>2. scen.q[p] <= scen.q[h[w]] /\ scen.q[p] \in Nat /\ scen.q[h[w]] \in Nat
        BY <1>4, <3>2, <4>1, <1>1
      <4> HIDE DEF w
      <4> QED BY <4>1, <4>2, <1>1, <1>4 DEF Beaten
    <3> QED BY <3>1, <3>2
  <2> HIDE DEF w
  <2> QED BY <2>1, <2>2, <1>1, <1>4
<1> HIDE DEF w
<1> QED BY <1>1, <1>2, <1>3, <1>4

(* The heap, one candidate at a time.                                       *)
LEMMA HeapUnfold ==
  ASSUME NEW s \in Seq(DOMAIN scen.q), NEW k
  PROVE  \E f : /\ f = [n \in 0..Len(s) |-> IF n = 0 THEN <<>> ELSE Push(k, f[n - 1], s[n])]
                /\ Heap(s, k) = f[Len(s)]
<1> DEFINE Is(f, l) == f = [n \in 0..l |-> IF n = 0 THEN <<>> ELSE Push(k, f[n - 1], s[n])]
           Has(l) == \E f : Is(f, l)
           S == {l \in Nat : Has(l)}
<1>1. Has(0)
  <2>1. Is([n \in 0..0 |-> <<>>], 0)
    OBVIOUS
  <2> QED BY <2>1
<1>2. ASSUME NEW l \in Nat, Has(l) PROVE Has(l + 1)
  <2>1. PICK f : Is(f, l)
    BY <1>2
  <2> DEFINE g == [n \in 0..(l + 1) |-> IF n = l + 1 THEN Push(k, f[l], s[n]) ELSE f[n]]
  <2>2. \A n \in 0..l : f[n] = IF n = 0 THEN <<>> ELSE Push(k, f[n - 1], s[n])
    BY <2>1
  <2>3. \A n \in 0..(l + 1) : g[n] = IF n = 0 THEN <<>> ELSE Push(k, g[n - 1], s[n])
    BY <2>2
  <2>4. Is(g, l + 1)
    BY <2>3
  <2> QED BY <2>4
<1>3. Has(Len(s))
  <2> HIDE DEF Has
  <2>1. 0 \in S /\ \A l \in Nat : l \in S => l + 1 \in S
    BY <1>1, <1>2
  <2> HIDE DEF S
  <2>2. Nat \subseteq S
    BY <2>1, NatInd
  <2>3. Len(s) \in S
    BY <2>2
  <2> QED BY <2>3 DEF S
<1> DEFINE f == CHOOSE f : Is(f, Len(s))
<1>4. Is(f, Len(s))
  BY <1>3
<1>5. Heap(s, k) = f[Len(s)]
  BY DEF Heap
<1> QED BY <1>4, <1>5

(* The whole loop: every candidate is in the heap or beaten by all of a     *)
(* full one.                                                                *)
LEMMA HeapKeepsBest ==
  ASSUME NEW s \in Seq(DOMAIN scen.q), NEW k \in Nat, scen.q \in [DOMAIN scen.q -> Nat]
  PROVE  /\ Heap(s, k) \in Seq(DOMAIN scen.q) /\ Len(Heap(s, k)) = Least(Len(s), k)
         /\ \A j \in 1..Len(s) : Holds(Heap(s, k), s[j]) \/ Beaten(Heap(s, k), k, s[j])
<1> DEFINE P == DOMAIN scen.q
<1>1. PICK f : /\ f = [n \in 0..Len(s) |-> IF n = 0 THEN <<>> ELSE Push(k, f[n - 1], s[n])]
               /\ Heap(s, k) = f[Len(s)]
  BY HeapUnfold
<1> DEFINE Good(n) == /\ f[n] \in Seq(P) /\ Len(f[n]) = Least(n, k)
                      /\ \A j \in 1..n : Holds(f[n], s[j]) \/ Beaten(f[n], k, s[j])
           S == {n \in Nat : n <= Len(s) => Good(n)}
<1>2. Good(0)
  <2>1. f[0] = <<>>
    BY <1>1
  <2>2. Len(f[0]) = Least(0, k)
    BY <2>1 DEF Least
  <2> QED BY <2>1, <2>2
<1>3. ASSUME NEW n \in Nat, Good(n), n + 1 <= Len(s) PROVE Good(n + 1)
  <2>1. f[n + 1] = Push(k, f[n], s[n + 1])
    <3>1. n + 1 \in 0..Len(s) /\ n + 1 # 0 /\ (n + 1) - 1 = n
      BY <1>3
    <3> QED BY <1>1, <3>1
  <2>2. s[n + 1] \in P /\ \A j \in 1..n : s[j] \in P
    BY <1>3
  <2>3. f[n] \in Seq(P) /\ Len(f[n]) <= k /\ Len(f[n]) = Least(n, k)
    BY <1>3 DEF Least
  <2> DEFINE g == Push(k, f[n], s[n + 1])
  <2>4. /\ g \in Seq(P) /\ Len(g) = IF Len(f[n]) < k THEN Len(f[n]) + 1 ELSE k
        /\ Holds(g, s[n + 1]) \/ Beaten(g, k, s[n + 1])
        /\ \A x \in P : Holds(f[n], x) \/ Beaten(f[n], k, x) => Holds(g, x) \/ Beaten(g, k, x)
    BY <2>2, <2>3, PushKeepsBest
  <2> HIDE DEF g
  <2>5. Len(g) = Least(n + 1, k)
    BY <2>3, <2>4 DEF Least
  <2>6. ASSUME NEW j \in 1..(n + 1) PROVE Holds(g, s[j]) \/ Beaten(g, k, s[j])
    <3>1. CASE j = n + 1
      BY <3>1, <2>4
    <3>2. CASE j \in 1..n
      BY <3>2, <2>2, <2>4, <1>3
    <3> QED BY <3>1, <3>2
  <2>7. f[n + 1] = g
    BY <2>1 DEF g
  <2> QED BY <2>4, <2>5, <2>6, <2>7
<1>4. Good(Len(s))
  <2> HIDE DEF Good
  <2>1. \A n \in Nat : n \in S => n + 1 \in S
    BY <1>3
  <2>2. 0 \in S
    BY <1>2
  <2>3. Nat \subseteq S
    BY <2>2, <2>1, NatInd
  <2> QED BY <2>3
<1>5. Heap(s, k) = f[Len(s)]
  BY <1>1
<1> QED BY <1>4, <1>5

(* Sorting loses nothing.                                                   *)
LEMMA RankedHolds ==
  ASSUME NEW s \in Seq(DOMAIN scen.q), scen.q \in [DOMAIN scen.q -> Nat]
  PROVE  /\ Ranked(s, scen.q) \in Seq(DOMAIN scen.q) /\ Len(Ranked(s, scen.q)) = Len(s)
         /\ \A x : Holds(s, x) => Holds(Ranked(s, scen.q), x)
         /\ \A x, k : Beaten(s, k, x) => Beaten(Ranked(s, scen.q), k, x)
<1> DEFINE r == Ranked(s, scen.q)
<1>1. \A x \in DOMAIN scen.q : scen.q[x] \in Int
  OBVIOUS
<1>2. /\ r \in Seq(DOMAIN scen.q) /\ Len(r) = Len(s)
      /\ \A n \in 1..Len(s) : \E i \in 1..Len(s) : r[n] = s[i]
      /\ \A i \in 1..Len(s) : r[Place(s, scen.q, i)] = s[i]
  <2> DEFINE key == scen.q
             D == DOMAIN scen.q
  <2>1. s \in Seq(D) /\ \A x \in D : key[x] \in Int
    BY <1>1
  <2> HIDE DEF key, D
  <2>2. /\ Ranked(s, key) \in Seq(D) /\ Len(Ranked(s, key)) = Len(s)
        /\ \A n \in 1..Len(s) : \E i \in 1..Len(s) :
             Place(s, key, i) = n /\ Ranked(s, key)[n] = s[i]
        /\ \A i \in 1..Len(s) : Ranked(s, key)[Place(s, key, i)] = s[i]
    BY <2>1, RankedType
  <2> QED BY <2>2 DEF key, D
<1>3. \A i \in 1..Len(s) : Place(s, scen.q, i) \in 1..Len(s)
  BY <1>1, PlaceBijective
<1>4. \A x : Holds(s, x) => Holds(r, x)
  BY <1>2, <1>3 DEF Holds
<1>5. \A x, k : Beaten(s, k, x) => Beaten(r, k, x)
  BY <1>2 DEF Beaten
<1> QED BY <1>2, <1>4, <1>5

(* refine_candidates_with: the k best of its candidates.                    *)
LEMMA RefineKeepsBest ==
  ASSUME NEW s \in Seq(DOMAIN scen.q), NEW k \in Nat, scen.q \in [DOMAIN scen.q -> Nat]
  PROVE  /\ refine_candidates(s, k) \in Seq(DOMAIN scen.q)
         /\ Len(refine_candidates(s, k)) = Least(Len(s), k)
         /\ \A j \in 1..Len(s) : \/ Holds(refine_candidates(s, k), s[j])
                                 \/ Beaten(refine_candidates(s, k), k, s[j])
<1>1. refine_candidates(s, k) = Ranked(Heap(s, k), scen.q)
  BY DEF refine_candidates
<1>2. /\ Heap(s, k) \in Seq(DOMAIN scen.q) /\ Len(Heap(s, k)) = Least(Len(s), k)
      /\ \A j \in 1..Len(s) : Holds(Heap(s, k), s[j]) \/ Beaten(Heap(s, k), k, s[j])
  BY HeapKeepsBest
<1> QED BY <1>1, <1>2, RankedHolds

(* truncate.                                                                *)
LEMMA CutType ==
  ASSUME NEW T, NEW s \in Seq(T), NEW k \in Nat
  PROVE  /\ Cut(s, k) \in Seq(T) /\ Len(Cut(s, k)) = Least(k, Len(s))
         /\ \A i \in 1..Least(k, Len(s)) : Cut(s, k)[i] = s[i]
<1>1. Least(k, Len(s)) \in 0..Len(s)
  BY DEF Least
<1> QED BY <1>1 DEF Cut

(* No two elements are sorted to one place.                                 *)
LEMMA PlaceInjective ==
  ASSUME NEW T, NEW s \in Seq(T), NEW key, \A x \in T : key[x] \in Int,
         NEW i \in 1..Len(s), NEW j \in 1..Len(s), i # j
  PROVE  Place(s, key, i) # Place(s, key, j)
<1>1. key[s[i]] \in Int /\ key[s[j]] \in Int /\ i \in Int /\ j \in Int
  OBVIOUS
<1>2. \/ key[s[i]] > key[s[j]] \/ (key[s[i]] = key[s[j]] /\ i < j)
      \/ key[s[j]] > key[s[i]] \/ (key[s[j]] = key[s[i]] /\ j < i)
  BY <1>1
<1>3. Place(s, key, i) < Place(s, key, j) \/ Place(s, key, j) < Place(s, key, i)
  BY <1>2, PlaceBijective
<1>4. Place(s, key, i) \in 1..Len(s) /\ Place(s, key, j) \in 1..Len(s)
  BY PlaceBijective
<1> QED BY <1>3, <1>4

(* In a sorted sequence no element is stronger than one before it.          *)
LEMMA RankedTop ==
  ASSUME NEW P, NEW q \in [P -> Nat], NEW s \in Seq(P), NEW J \in SUBSET (1..Len(s)), NEW v \in Nat,
         \A j \in J : v <= q[s[j]], NEW i \in 1..Len(s), i <= Cardinality(J)
  PROVE  v <= q[Ranked(s, q)[i]]
<1>1. Len(s) \in Nat /\ \A j \in 1..Len(s) : q[s[j]] \in Nat
  OBVIOUS
<1>2. \A x \in P : q[x] \in Int
  OBVIOUS
<1>3. PICK t \in 1..Len(s) : Place(s, q, t) = i /\ Ranked(s, q)[i] = s[t]
  BY <1>2, RankedType
<1>4. SUFFICES ASSUME q[s[t]] < v PROVE FALSE
  BY <1>1, <1>3
<1>5. IsFiniteSet(J) /\ Cardinality(J) \in Nat
  <2>1. IsFiniteSet(1..Len(s))
    BY <1>1, FS_Interval
  <2> QED BY <2>1, FS_Subset, FS_CardinalityType
<1> DEFINE f == [j \in J |-> Place(s, q, j)]
<1>6. \A j \in J : Place(s, q, j) \in 1..(i - 1)
  <2>1. TAKE j \in J
  <2>2. q[s[j]] > q[s[t]]
    BY <1>1, <1>4
  <2>3. Place(s, q, j) < Place(s, q, t)
    BY <1>2, <2>2, PlaceBijective
  <2>4. Place(s, q, j) \in 1..Len(s)
    BY <1>2, PlaceBijective
  <2> QED BY <2>3, <2>4, <1>3
<1>7. f \in [J -> 1..(i - 1)]
  BY <1>6
<1>8. IsFiniteSet(1..(i - 1)) /\ Cardinality(1..(i - 1)) < Cardinality(J)
  <2>1. IsFiniteSet(1..(i - 1)) /\ Cardinality(1..(i - 1)) = i - 1
    <3>1. i - 1 \in Nat
      OBVIOUS
    <3> QED BY <3>1, UpTo
  <2> QED BY <2>1, <1>5
<1>9. PICK x \in J, y \in J : x # y /\ f[x] = f[y]
  <2> HIDE DEF f
  <2> QED BY <1>5, <1>7, <1>8, FS_PigeonHole
<1>10. Place(s, q, x) # Place(s, q, y)
  BY <1>2, <1>9, PlaceInjective
<1> QED BY <1>9, <1>10

(* The merge of pass2_split: what either half's heap held or beat is held   *)
(* or beaten by the merged and truncated list.                              *)
LEMMA MergeKeepsBest ==
  ASSUME NEW a \in Seq(DOMAIN scen.q), NEW b \in Seq(DOMAIN scen.q), NEW k \in Nat,
         scen.q \in [DOMAIN scen.q -> Nat]
  PROVE  /\ Merge("pass2", a, b, k) \in Seq(DOMAIN scen.q)
         /\ Len(Merge("pass2", a, b, k)) = Least(k, Len(a) + Len(b))
         /\ \A x \in DOMAIN scen.q :
              Holds(a, x) \/ Beaten(a, k, x) \/ Holds(b, x) \/ Beaten(b, k, x) =>
                \/ Holds(Merge("pass2", a, b, k), x)
                \/ \A i \in 1..Len(Merge("pass2", a, b, k)) :
                     scen.q[x] <= scen.q[Merge("pass2", a, b, k)[i]]
<1> DEFINE P == DOMAIN scen.q
           s == a \o b
           r == Ranked(s, scen.q)
           c == Cut(r, k)
<1>1. Merge("pass2", a, b, k) = c
  BY DEF Merge
<1>2. /\ s \in Seq(P) /\ Len(s) = Len(a) + Len(b) /\ Len(a) \in Nat /\ Len(b) \in Nat
      /\ \A i \in 1..Len(a) : s[i] = a[i]
      /\ \A i \in 1..Len(b) : s[i + Len(a)] = b[i]
  <2>1. a \in Seq(P) /\ b \in Seq(P) /\ Len(a) \in Nat /\ Len(b) \in Nat
    OBVIOUS
  <2>2. s \in Seq(P) /\ Len(s) = Len(a) + Len(b)
    BY <2>1
  <2>3. \A i \in 1..Len(a) : s[i] = a[i]
    BY <2>1
  <2>4. \A i \in 1..Len(b) : s[i + Len(a)] = b[i]
    BY <2>1
  <2> QED BY <2>1, <2>2, <2>3, <2>4
<1> HIDE DEF s
<1>0. s \in Seq(P)
  BY <1>2
<1>3. \A x \in P : scen.q[x] \in Int
  OBVIOUS
<1>4. /\ r \in Seq(P) /\ Len(r) = Len(s)
      /\ \A n \in 1..Len(s) : \E i \in 1..Len(s) : Place(s, scen.q, i) = n /\ r[n] = s[i]
      /\ \A i \in 1..Len(s) : r[Place(s, scen.q, i)] = s[i]
  <2>1. r \in Seq(P) /\ Len(r) = Len(s)
    BY <1>0, <1>3, RankedType
  <2>2. \A n \in 1..Len(s) : \E i \in 1..Len(s) : Place(s, scen.q, i) = n /\ r[n] = s[i]
    <3>1. \A i \in 1..Len(s) : r[Place(s, scen.q, i)] = s[i]
      BY <1>0, <1>3, RankedType
    <3>2. ASSUME NEW n \in 1..Len(s) PROVE \E i \in 1..Len(s) : Place(s, scen.q, i) = n
      <4> DEFINE q == scen.q
      <4>1. \A x \in P : q[x] \in Int
        OBVIOUS
      <4> HIDE DEF q
      <4>2. \E i \in 1..Len(s) : Place(s, q, i) = n
        <5> HIDE DEF P
        <5> QED BY <1>0, <4>1, PlaceBijective
      <4> QED BY <4>2 DEF q
    <3> QED BY <3>1, <3>2
  <2>3. \A i \in 1..Len(s) : r[Place(s, scen.q, i)] = s[i]
    BY <1>0, <1>3, RankedType
  <2> QED BY <2>1, <2>2, <2>3
<1>5. \A i \in 1..Len(s) : Place(s, scen.q, i) \in 1..Len(s)
  BY <1>0, <1>3, PlaceBijective
<1>6. /\ c \in Seq(P) /\ Len(c) = Least(k, Len(s)) /\ \A i \in 1..Len(c) : c[i] = r[i]
      /\ Len(c) \in 0..Len(s) /\ Len(c) <= k
  <2>1. r \in Seq(P) /\ Len(r) = Len(s) /\ Len(s) \in Nat
    BY <1>0, <1>4
  <2>2. /\ c \in Seq(P) /\ Len(c) = Least(k, Len(r))
        /\ \A i \in 1..Least(k, Len(r)) : c[i] = r[i]
    BY <2>1, CutType
  <2> HIDE DEF c, r
  <2> QED BY <2>1, <2>2 DEF Least
<1>7. ASSUME NEW i \in 1..Len(c) PROVE i \in 1..Len(s) /\ i <= k
  BY <1>2, <1>6
<1>8. ASSUME NEW x \in P, NEW J \in SUBSET (1..Len(s)), Cardinality(J) = k,
             \A j \in J : scen.q[x] <= scen.q[s[j]]
      PROVE  \A i \in 1..Len(c) : scen.q[x] <= scen.q[c[i]]
  <2>1. TAKE i \in 1..Len(c)
  <2>2. scen.q[x] <= scen.q[r[i]]
    BY <1>0, <1>7, <1>8, RankedTop
  <2> QED BY <2>2, <1>6
<1>9. ASSUME NEW x \in P, NEW j \in 1..Len(s), s[j] = x
      PROVE  Holds(c, x) \/ \A i \in 1..Len(c) : scen.q[x] <= scen.q[c[i]]
  <2>1. CASE Place(s, scen.q, j) \in 1..Len(c)
    <3>1. c[Place(s, scen.q, j)] = x
      BY <2>1, <1>4, <1>6, <1>9
    <3> QED BY <2>1, <3>1 DEF Holds
  <2>2. CASE Place(s, scen.q, j) \notin 1..Len(c)
    <3>1. SUFFICES ASSUME NEW i \in 1..Len(c) PROVE scen.q[x] <= scen.q[c[i]]
      OBVIOUS
    <3>2. PICK t \in 1..Len(s) : Place(s, scen.q, t) = i /\ r[i] = s[t]
      BY <1>4, <1>7
    <3>3. ~(Place(s, scen.q, j) < Place(s, scen.q, t))
      BY <2>2, <3>2, <1>5, <1>6, <1>7
    <3>4. ~(scen.q[s[j]] > scen.q[s[t]])
      BY <3>3, <1>0, <1>3, PlaceBijective
    <3>5. scen.q[s[j]] \in Int /\ scen.q[s[t]] \in Int /\ c[i] = s[t]
      <4>1. s[j] \in P /\ s[t] \in P
        BY <1>0, SeqElement
      <4>2. c[i] = r[i]
        BY <1>6
      <4> HIDE DEF P, c, r
      <4> QED BY <4>1, <4>2, <1>3, <3>2
    <3> QED BY <3>4, <3>5, <1>9
  <2> QED BY <2>1, <2>2
<1>10. ASSUME NEW x \in P, Holds(a, x) \/ Holds(b, x)
       PROVE  Holds(c, x) \/ \A i \in 1..Len(c) : scen.q[x] <= scen.q[c[i]]
  <2>1. \E j \in 1..Len(s) : s[j] = x
    <3>1. CASE Holds(a, x)
      BY <3>1, <1>2 DEF Holds
    <3>2. CASE Holds(b, x)
      <4>1. PICK i \in 1..Len(b) : b[i] = x
        BY <3>2 DEF Holds
      <4>2. s[i + Len(a)] = x
        BY <4>1, <1>2
      <4>3. i + Len(a) \in 1..Len(s)
        <5>1. Len(s) = Len(a) + Len(b) /\ Len(a) \in Nat /\ Len(b) \in Nat
          BY <1>2
        <5> QED BY <4>1, <5>1
      <4> QED BY <4>2, <4>3
    <3> QED BY <3>1, <3>2, <1>10
  <2> QED BY <2>1, <1>9
<1>11. ASSUME NEW x \in P, Beaten(a, k, x)
       PROVE  \A i \in 1..Len(c) : scen.q[x] <= scen.q[c[i]]
  <2>1. Len(a) = k /\ \A i \in 1..k : scen.q[x] <= scen.q[a[i]]
    BY <1>11 DEF Beaten
  <2>2. 1..k \in SUBSET (1..Len(s)) /\ \A j \in 1..k : scen.q[x] <= scen.q[s[j]]
    BY <2>1, <1>2
  <2>3. Cardinality(1..k) = k
    BY UpTo
  <2> QED BY <2>2, <2>3, <1>8
<1>12. ASSUME NEW x \in P, Beaten(b, k, x)
       PROVE  \A i \in 1..Len(c) : scen.q[x] <= scen.q[c[i]]
  <2> DEFINE J == (Len(a) + 1)..(Len(a) + k)
  <2>1. Len(b) = k /\ \A i \in 1..k : scen.q[x] <= scen.q[b[i]]
    BY <1>12 DEF Beaten
  <2>2. J \in SUBSET (1..Len(s))
    BY <2>1, <1>2
  <2>3. ASSUME NEW j \in J PROVE scen.q[x] <= scen.q[s[j]]
    <3>1. j - Len(a) \in 1..k /\ (j - Len(a)) + Len(a) = j
      BY <1>2
    <3> QED BY <3>1, <2>1, <1>2
  <2>4. Cardinality(J) = k
    <3>1. Len(a) + 1 \in Int /\ Len(a) + k \in Int
      BY <1>2
    <3>2. Cardinality(J) = IF Len(a) + 1 > Len(a) + k THEN 0 ELSE (Len(a) + k) - (Len(a) + 1) + 1
      BY <3>1, FS_Interval
    <3> QED BY <3>2, <1>2
  <2> HIDE DEF J
  <2> QED BY <2>2, <2>3, <2>4, <1>8
<1> HIDE DEF c
<1> QED BY <1>1, <1>2, <1>6, <1>10, <1>11, <1>12

-----------------------------------------------------------------------------
(* While a static stage is under way, the job, the worker and the answer    *)
(* are all about main's own stage: its half, its list, its budget.          *)
Split ==
  m.waiting /\ m.at \notin Stage3 =>
    /\ m.own = Work(KindOf(m.at), MainHalf, m.budget)
    /\ \A j \in {job, busy} : j # None => j = [kind |-> KindOf(m.at), cands |-> WorkerHalf, k |-> m.budget]
    /\ reply # None => reply = [kind |-> KindOf(m.at), res |-> Work(KindOf(m.at), WorkerHalf, m.budget)]
(* While a batch is under way its array is main's list, and an answer is    *)
(* what the worker drained.                                                 *)
Batch ==
  m.waiting /\ m.at \in Stage3 =>
    /\ slots = m.list /\ next_idx >= 1 /\ batch # 0
    /\ \A j \in {job, busy} : j # None => j = [kind |-> "stage3"]
    /\ reply # None => reply = [kind |-> "stage3", res |-> out["worker"]]
(* One token: the job is queued, or the worker has it, or its answer waits; *)
(* and only then is main waiting.                                           *)
Control ==
  /\ ~m.waiting => job = None /\ busy = None /\ reply = None /\ \A c \in Cores : pc[c] = "out"
  /\ m.waiting => /\ m.at \in Coarse \cup Fine \cup Pass2 \cup Stage3
                  /\ \/ job # None /\ busy = None /\ reply = None
                     \/ job = None /\ busy # None /\ reply = None
                     \/ job = None /\ busy = None /\ reply # None
  /\ pc["worker"] # "out" => busy # None
  /\ m.at \notin Stage3 => \A c \in Cores : pc[c] = "out"
(* Which list each stage works on.                                          *)
Lists ==
  /\ m.at = "coarse" => m.refined = <<>>
  /\ m.at = "fine" => m.list = m.pass1 /\ m.refined = <<>>
  /\ m.refined = <<>> \/ Len(m.refined) = Len(m.pass1)
  /\ m.at = "partition" => m.list = Found
  /\ m.at = "pass2" => m.list = Kept(Found, Ready(Found))
  /\ m.at \in {"retry_pass2", "tail_pass2"} => m.budget = Len(m.list)
  /\ m.at = "tail_pass2" => m.list = m.late_retry
  /\ m.at \in {"coarse", "fine", "partition", "pass2"} => batch = 0
  /\ m.at \notin {"slot", "late_pass2", "late", "tail_retry", "tail_pass2", "tail", "done"} =>
       m.leftover = <<>>
  /\ m.at \notin {"tail_retry", "tail_pass2", "tail", "done"} => m.late_retry = <<>>
(* Attempts are numbered by batch and index; those made are below next_idx  *)
(* and not among those in work, and the two cores hold different ones.      *)
Claims ==
  /\ IsFiniteSet(tried) /\ made = Cardinality(tried)
  /\ \A x \in tried : x.batch \in 0..batch
  /\ \A x, y \in tried : x.batch = y.batch /\ x.i = y.i => x = y
  /\ m.waiting /\ m.at \in Stage3 => \A x \in tried : x.batch = batch =>
        x.i \in 0..(next_idx - 1) /\ \A c \in Cores : pc[c] = "decode" => x.i # hold[c]
  /\ \A c \in Cores : pc[c] = "decode" => hold[c] \in 1..(next_idx - 1) /\ hold[c] <= Len(slots)
  /\ (\A c \in Cores : pc[c] = "decode") => hold["main"] # hold["worker"]
(* Attempts still to come: those of the list under way that are not claimed *)
(* yet or are in work, and the retries left over.                           *)
CutSoFar == m.n_cut
LeftoverLen == Len(m.leftover)
LateLen == Len(m.late_retry)
Decoding(c) == IF pc[c] = "decode" THEN 1 ELSE 0
Remaining ==
  IF m.waiting /\ m.at \in Stage3
  THEN Len(slots) - Least(next_idx - 1, Len(slots)) + Decoding("main") + Decoding("worker")
  ELSE Len(m.list)
Todo ==
  CASE m.at \in {"coarse", "fine", "partition", "pass2", "done"} -> 0
    [] m.at \in {"in_time", "rest", "retry_pass2", "retry", "tail"} -> Remaining
    [] m.at \in {"slot", "late_pass2"} -> LeftoverLen
    [] m.at = "late" -> LeftoverLen + Remaining
    [] m.at \in {"tail_retry", "tail_pass2"} -> LeftoverLen + LateLen
(* Attempts made, cut and still to come are those owed.                     *)
Account == made + CutSoFar + Todo = owed
(* What is left of max_cand at each stage.                                  *)
Budget ==
  /\ m.n_early + m.late_budget <= MAX_CAND /\ m.n_early + m.n_late <= MAX_CAND
  /\ m.at \in {"coarse", "fine", "partition", "pass2"} => m.n_early = 0
  /\ m.at \notin {"late", "tail_retry", "tail_pass2", "tail", "done"} => m.n_late = 0
  /\ m.at = "pass2" => m.budget + m.late_budget <= MAX_CAND
  /\ m.at = "late_pass2" => m.n_early + m.budget <= MAX_CAND
(* A core that claimed a retry with the slot there does not claim another.  *)
Yield == \A c \in Cores :
  /\ overrun[c] <= 1
  /\ m.at \in {"coarse", "fine", "partition", "pass2", "in_time", "rest", "retry_pass2"} => overrun[c] = 0
  /\ m.at = "retry" /\ overrun[c] # 0 => slotHere /\ pc[c] # "claim"

(* What a slot's candidates are.                                            *)
LEMMA ScenarioFacts ==
  ASSUME scen \in Scenarios
  PROVE  /\ scen.q \in [Pos -> Nat] /\ 1..Cells \subseteq Pos
         /\ Cells \in Nat /\ PASS1_LIMIT \in Nat /\ MAX_CAND \in Nat
         /\ \A c \in 1..Cells : scen.fine[c] \in Pos
         /\ scen.boundary \in Int /\ scen.deadline \in Int /\ scen.key_up \in Int
         /\ scen.share \in BOOLEAN /\ scen.fine_ok \in BOOLEAN
  BY ScenarioAssumption DEF Pos

(* The merged coarse search is a list of cells.                             *)
LEMMA MergedCoarse ==
  ASSUME DualCoreTypeOK, m.at = "coarse", m.own = Work("coarse", MainHalf, m.budget),
         NEW b, b = Work("coarse", WorkerHalf, m.budget)
  PROVE  Merge("coarse", m.own, b, m.budget) \in Seq(1..Cells)
<1>1. Cells \in Nat
  BY ScenarioAssumption
<1>2. Band \in Seq(1..Cells)
  BY <1>1 DEF Band
<1>3. MainHalf \in Seq(1..Cells) /\ WorkerHalf \in Seq(1..Cells)
  BY <1>2, KeptType DEF MainHalf, WorkerHalf
<1>4. m.budget \in Nat
  BY DEF DualCoreTypeOK, SharedTypeOK, Locals
<1>5. m.own \in Seq(1..Cells) /\ b \in Seq(1..Cells)
  BY <1>3, <1>4, CutType DEF Work
<1>6. m.own \o b \in Seq(1..Cells)
  BY <1>5
<1>7. \A x \in 1..Cells : Score[x] \in Int
  BY <1>1 DEF Score
<1>8. Ranked(m.own \o b, Score) \in Seq(1..Cells)
  BY <1>6, <1>7, RankedType
<1> QED BY <1>4, <1>8, CutType DEF Merge

(* The two halves of a static split are the whole list.                     *)
LEMMA HalvesType ==
  ASSUME NEW T, m.list \in Seq(T), m.at # "coarse"
  PROVE  /\ MainHalf \in Seq(T) /\ WorkerHalf \in Seq(T)
         /\ Len(MainHalf) \in Nat /\ Len(WorkerHalf) \in Nat
         /\ Len(MainHalf) + Len(WorkerHalf) = Len(m.list)
         /\ \A i \in 1..Len(m.list) : Holds(MainHalf, m.list[i]) \/ Holds(WorkerHalf, m.list[i])
<1>1. Len(m.list) \in Nat /\ Mid \in 0..Len(m.list)
  <2>1. \A n \in Nat : n \div 2 \in 0..n
    OBVIOUS
  <2>2. Len(m.list) \in Nat
    BY SeqElement
  <2> QED BY <2>1, <2>2 DEF Mid
<1>2. MainHalf = SubSeq(m.list, 1, Mid) /\ WorkerHalf = SubSeq(m.list, Mid + 1, Len(m.list))
  BY DEF MainHalf, WorkerHalf
<1>3. /\ MainHalf \in Seq(T) /\ Len(MainHalf) = Mid
      /\ \A i \in 1..Mid : MainHalf[i] = m.list[i]
  BY <1>1, <1>2
<1>4. WorkerHalf \in Seq(T) /\ Len(WorkerHalf) = Len(m.list) - Mid
  BY <1>1, <1>2
<1>5. ASSUME NEW i \in (Mid + 1)..Len(m.list)
      PROVE  i - Mid \in 1..Len(WorkerHalf) /\ WorkerHalf[i - Mid] = m.list[i]
  <2>1. i - Mid \in 1..Len(WorkerHalf) /\ (Mid + 1) + (i - Mid) - 1 = i
    BY <1>1, <1>4
  <2> QED BY <1>1, <1>2, <1>4, <2>1
<1>6. ASSUME NEW i \in 1..Len(m.list) PROVE Holds(MainHalf, m.list[i]) \/ Holds(WorkerHalf, m.list[i])
  <2>1. CASE i <= Mid
    BY <2>1, <1>1, <1>3 DEF Holds
  <2>2. CASE ~(i <= Mid)
    <3>1. i \in (Mid + 1)..Len(m.list)
      BY <2>2, <1>1
    <3> QED BY <3>1, <1>5 DEF Holds
  <2> QED BY <2>1, <2>2
<1> QED BY <1>1, <1>3, <1>4, <1>6

(* Fine sync moves every cell to a position.                                *)
LEMMA MergedFine ==
  ASSUME DualCoreTypeOK, m.at = "fine", m.list \in Seq(1..Cells),
         m.own = Work("fine", MainHalf, m.budget), NEW b, b = Work("fine", WorkerHalf, m.budget)
  PROVE  /\ Merge("fine", m.own, b, m.budget) \in Seq(Pos)
         /\ Len(Merge("fine", m.own, b, m.budget)) = Len(m.list)
<1>1. \A c \in 1..Cells : scen.fine[c] \in Pos
  BY ScenarioFacts DEF DualCoreTypeOK, SharedTypeOK
<1>2. /\ MainHalf \in Seq(1..Cells) /\ WorkerHalf \in Seq(1..Cells)
      /\ Len(MainHalf) + Len(WorkerHalf) = Len(m.list)
  BY HalvesType
<1>3. m.own = [i \in DOMAIN MainHalf |-> scen.fine[MainHalf[i]]]
  BY DEF Work
<1>4. b = [i \in DOMAIN WorkerHalf |-> scen.fine[WorkerHalf[i]]]
  BY DEF Work
<1>5. m.own \in Seq(Pos) /\ Len(m.own) = Len(MainHalf)
  <2>1. DOMAIN MainHalf = 1..Len(MainHalf) /\ Len(MainHalf) \in Nat
    BY <1>2
  <2>2. \A i \in 1..Len(MainHalf) : scen.fine[MainHalf[i]] \in Pos
    <3>1. \A i \in 1..Len(MainHalf) : MainHalf[i] \in 1..Cells
      BY <1>2, SeqElement
    <3> QED BY <1>1, <3>1
  <2> QED BY <1>3, <2>1, <2>2
<1>6. b \in Seq(Pos) /\ Len(b) = Len(WorkerHalf)
  <2>1. DOMAIN WorkerHalf = 1..Len(WorkerHalf) /\ Len(WorkerHalf) \in Nat
    BY <1>2
  <2>2. \A i \in 1..Len(WorkerHalf) : scen.fine[WorkerHalf[i]] \in Pos
    <3>1. \A i \in 1..Len(WorkerHalf) : WorkerHalf[i] \in 1..Cells
      BY <1>2, SeqElement
    <3> QED BY <1>1, <3>1
  <2> QED BY <1>4, <2>1, <2>2
<1>7. Merge("fine", m.own, b, m.budget) = m.own \o b
  BY DEF Merge
<1>8. m.own \o b \in Seq(Pos) /\ Len(m.own \o b) = Len(m.own) + Len(b)
  BY <1>5, <1>6
<1> QED BY <1>2, <1>5, <1>6, <1>7, <1>8

(* The merged pass 2: the strongest of the list, as many as the budget      *)
(* allows.                                                                  *)
LEMMA MergedPass2 ==
  ASSUME DualCoreTypeOK, m.at # "coarse", m.own = Work("pass2", MainHalf, m.budget),
         NEW b, b = Work("pass2", WorkerHalf, m.budget), NEW c, c = Merge("pass2", m.own, b, m.budget)
  PROVE  /\ c \in Seq(Pos) /\ Len(c) = Least(Len(m.list), m.budget)
         /\ \A j \in 1..Len(m.list) : Holds(c, m.list[j])
               \/ \A i \in 1..Len(c) : scen.q[m.list[j]] <= scen.q[c[i]]
<1>1. scen.q \in [DOMAIN scen.q -> Nat] /\ Pos = DOMAIN scen.q
  BY ScenarioFacts DEF DualCoreTypeOK, SharedTypeOK, Pos
<1>2. m.list \in Seq(Pos) /\ m.budget \in Nat
  BY DEF DualCoreTypeOK, SharedTypeOK, Locals
<1>3. /\ MainHalf \in Seq(Pos) /\ WorkerHalf \in Seq(Pos)
      /\ Len(MainHalf) \in Nat /\ Len(WorkerHalf) \in Nat
      /\ Len(MainHalf) + Len(WorkerHalf) = Len(m.list)
      /\ \A i \in 1..Len(m.list) : Holds(MainHalf, m.list[i]) \/ Holds(WorkerHalf, m.list[i])
  BY <1>2, HalvesType
<1> DEFINE k == m.budget
<1>4. /\ m.own \in Seq(Pos) /\ Len(m.own) = Least(Len(MainHalf), k)
      /\ \A j \in 1..Len(MainHalf) : Holds(m.own, MainHalf[j]) \/ Beaten(m.own, k, MainHalf[j])
  BY <1>1, <1>2, <1>3, RefineKeepsBest DEF Work
<1>5. /\ b \in Seq(Pos) /\ Len(b) = Least(Len(WorkerHalf), k)
      /\ \A j \in 1..Len(WorkerHalf) : Holds(b, WorkerHalf[j]) \/ Beaten(b, k, WorkerHalf[j])
  BY <1>1, <1>2, <1>3, RefineKeepsBest DEF Work
<1>6. /\ c \in Seq(Pos) /\ Len(c) = Least(k, Len(m.own) + Len(b))
      /\ \A x \in Pos : Holds(m.own, x) \/ Beaten(m.own, k, x) \/ Holds(b, x) \/ Beaten(b, k, x) =>
           Holds(c, x) \/ \A i \in 1..Len(c) : scen.q[x] <= scen.q[c[i]]
  <2> DEFINE d == Merge("pass2", m.own, b, k)
  <2>1. m.own \in Seq(DOMAIN scen.q) /\ b \in Seq(DOMAIN scen.q) /\ k \in Nat
    BY <1>1, <1>2, <1>4, <1>5
  <2>2. /\ d \in Seq(DOMAIN scen.q) /\ Len(d) = Least(k, Len(m.own) + Len(b))
        /\ \A x \in DOMAIN scen.q :
             Holds(m.own, x) \/ Beaten(m.own, k, x) \/ Holds(b, x) \/ Beaten(b, k, x) =>
               Holds(d, x) \/ \A i \in 1..Len(d) : scen.q[x] <= scen.q[d[i]]
    <3> HIDE DEF k
    <3> QED BY <2>1, <1>1, MergeKeepsBest
  <2>3. c = d
    OBVIOUS
  <2> HIDE DEF d, k
  <2> QED BY <2>2, <2>3, <1>1
<1>7. Len(c) = Least(Len(m.list), k)
  BY <1>2, <1>3, <1>4, <1>5, <1>6 DEF Least
<1>8. ASSUME NEW j \in 1..Len(m.list)
      PROVE  Holds(c, m.list[j]) \/ \A i \in 1..Len(c) : scen.q[m.list[j]] <= scen.q[c[i]]
  <2>1. m.list[j] \in Pos
    BY <1>2
  <2>2. \A x : Holds(MainHalf, x) => Holds(m.own, x) \/ Beaten(m.own, k, x)
    BY <1>4 DEF Holds
  <2>3. \A x : Holds(WorkerHalf, x) => Holds(b, x) \/ Beaten(b, k, x)
    BY <1>5 DEF Holds
  <2> QED BY <2>1, <2>2, <2>3, <1>3, <1>6
<1> QED BY <1>6, <1>7, <1>8

(* coarse_retry_candidates gives coarse cells.                              *)
LEMMA RetryType ==
  ASSUME DualCoreTypeOK, m.refined = <<>> \/ Len(m.refined) = Len(m.pass1), NEW f \in Seq(Pos)
  PROVE  coarse_retry_candidates(f) \in Seq(1..Cells)
<1> DEFINE Is(p, i) == m.refined[i] = p /\ \A j \in 1..(i - 1) : m.refined[j] # p
           first(p) == CHOOSE i \in DOMAIN m.refined : Is(p, i)
           moved == {i \in DOMAIN f : /\ \E j \in DOMAIN m.refined : m.refined[j] = f[i]
                                      /\ m.pass1[first(f[i])] # f[i]}
           retry == Kept(f, moved)
<1>1. coarse_retry_candidates(f) = [i \in DOMAIN retry |-> m.pass1[first(retry[i])]]
  BY DEF coarse_retry_candidates
<1>2. /\ m.refined \in Seq(Pos) /\ DOMAIN m.refined = 1..Len(m.refined) /\ Len(m.refined) \in Nat
      /\ m.pass1 \in Seq(1..Cells)
  BY DEF DualCoreTypeOK, SharedTypeOK, Locals
<1>3. ASSUME NEW p, \E j \in DOMAIN m.refined : m.refined[j] = p
      PROVE  first(p) \in DOMAIN m.refined
  <2> DEFINE J == {j \in DOMAIN m.refined : m.refined[j] = p}
  <2>1. J \subseteq Nat /\ J # {}
    BY <1>2, <1>3
  <2>2. PICK i \in J : \A j \in J : i <= j
    <3> HIDE DEF J
    <3> QED BY <2>1, LeastNat
  <2>3. Is(p, i) /\ i \in DOMAIN m.refined
    BY <2>2, <1>2
  <2> HIDE DEF Is
  <2> QED BY <2>3
<1> HIDE DEF first
<1>4. ASSUME NEW p, \E j \in DOMAIN m.refined : m.refined[j] = p
      PROVE  m.pass1[first(p)] \in 1..Cells
  <2>1. first(p) \in 1..Len(m.refined) /\ Len(m.refined) # 0
    BY <1>2, <1>3, <1>4
  <2>2. first(p) \in 1..Len(m.pass1)
    BY <2>1
  <2> QED BY <2>2, <1>2, SeqElement
<1>5. /\ retry \in Seq(Pos)
      /\ \A i \in 1..Len(retry) : \E j \in 1..Len(f) : j \in moved /\ retry[i] = f[j]
  <2> HIDE DEF moved
  <2> QED BY KeptType
<1>6. \A i \in 1..Len(retry) : \E j \in DOMAIN m.refined : m.refined[j] = retry[i]
  <2>1. TAKE i \in 1..Len(retry)
  <2>2. PICK j \in 1..Len(f) : j \in moved /\ retry[i] = f[j]
    BY <1>5
  <2> HIDE DEF retry
  <2> QED BY <2>2
<1> HIDE DEF retry
<1>7. \A i \in 1..Len(retry) : m.pass1[first(retry[i])] \in 1..Cells
  BY <1>4, <1>6
<1>8. DOMAIN retry = 1..Len(retry) /\ Len(retry) \in Nat
  BY <1>5
<1> QED BY <1>1, <1>7, <1>8

-----------------------------------------------------------------------------
(* When main joins, nothing is left with the worker.                        *)
LEMMA JoinFacts ==
  ASSUME Control, NEW st, Join(st)
  PROVE  /\ m.at = st /\ m.waiting /\ job = None /\ busy = None /\ reply # None
         /\ \A c \in Cores : pc[c] = "out"
  BY DEF Join, Control, Cores

(* Lengths are numbers.                                                     *)
LEMMA LensNat ==
  ASSUME DualCoreTypeOK PROVE LeftoverLen \in Nat /\ LateLen \in Nat
<1>1. m.leftover \in Seq(Pos) /\ m.late_retry \in Seq(Pos)
  BY DEF DualCoreTypeOK, Locals
<1> QED BY <1>1, SeqElement DEF LeftoverLen, LateLen

(* Between stages the queues are empty and the drain is over.               *)
LEMMA Between ==
  ASSUME DualCoreTypeOK, Control, Claims, NEW st, owed' \in Nat,
         Join(st) \/ Alone(st), m'.waiting = FALSE
  PROVE  SharedTypeOK' /\ Split' /\ Batch' /\ Control' /\ Claims'
<1>1. /\ job' = None /\ busy' = None /\ reply' = None
      /\ pc' = pc /\ \A c \in Cores : pc[c] = "out"
      /\ UNCHANGED <<scen, now, slotHere, tried, made, batch, overrun>>
  <2>1. CASE Join(st)
    BY <2>1, JoinFacts DEF Join, world
  <2>2. CASE Alone(st)
    BY <2>2 DEF Alone, Control, world, drainVars, queueVars
  <2> QED BY <2>1, <2>2
<1>2. Split' /\ Batch'
  BY DEF Split, Batch
<1>3. Control'
  BY <1>1 DEF Control, Cores
<1>4. Claims'
  <2>1. \A c \in Cores : pc'[c] # "decode"
    BY <1>1
  <2>2. "main" \in Cores /\ ~m'.waiting
    BY DEF Cores
  <2>3. tried' = tried /\ made' = made /\ batch' = batch
    BY <1>1
  <2> QED BY <2>1, <2>2, <2>3 DEF Claims
<1>5. SharedTypeOK'
  <2>1. Pos' = Pos /\ Msg' = Msg
    BY <1>1 DEF Pos, Msg
  <2>2. /\ slots' \in Seq(Pos) /\ next_idx' \in Nat /\ hold' \in [Cores -> Nat]
        /\ out' \in [Cores -> [results : Seq(Msg), failed : Seq(Pos)]]
    <3>1. CASE Join(st)
      <4>1. NoOut \in [results : Seq(Msg), failed : Seq(Pos)]
        BY DEF NoOut
      <4> QED BY <3>1, <4>1 DEF Join
    <3>2. CASE Alone(st)
      BY <3>2 DEF DualCoreTypeOK, SharedTypeOK, Alone, drainVars
    <3> QED BY <3>1, <3>2
  <2>4. {job', busy', reply'} = {None} /\ None.kind = "none"
    BY <1>1 DEF None
  <2> QED BY <1>1, <2>1, <2>2, <2>4 DEF DualCoreTypeOK, SharedTypeOK
<1> QED BY <1>2, <1>3, <1>4, <1>5

(* What main takes over from a batch: what both cores found, and what       *)
(* nobody claimed.                                                          *)
LEMMA Stage3Join ==
  ASSUME DualCoreTypeOK, Control, Batch, NEW st \in Stage3, Join(st)
  PROVE  /\ AllResults \in Seq(Msg) /\ AllFailed \in Seq(Pos)
         /\ Unclaimed \in Seq(Pos) /\ Len(Unclaimed) = Remaining
         /\ Len(slots) - Len(Unclaimed) \in Nat /\ batch # 0
<1>1. m.at = st /\ m.waiting /\ reply # None /\ \A c \in Cores : pc[c] = "out"
  BY JoinFacts
<1>2. reply.res = out["worker"] /\ next_idx >= 1 /\ batch # 0
  BY <1>1 DEF Batch
<1>3. \A c \in Cores : out[c].results \in Seq(Msg) /\ out[c].failed \in Seq(Pos)
  BY DEF DualCoreTypeOK, SharedTypeOK
<1>4. AllResults \in Seq(Msg)
  BY <1>2, <1>3 DEF AllResults, Cores
<1>5. AllFailed \in Seq(Pos)
  BY <1>2, <1>3 DEF AllFailed, Cores
<1>6. slots \in Seq(Pos) /\ Len(slots) \in Nat /\ next_idx \in Nat
  BY SeqElement DEF DualCoreTypeOK, SharedTypeOK
<1> DEFINE l == Least(next_idx - 1, Len(slots))
<1>7. l \in 0..Len(slots)
  BY <1>2, <1>6 DEF Least
<1>8. Unclaimed = SubSeq(slots, l + 1, Len(slots))
  BY DEF Unclaimed
<1> HIDE DEF l
<1>9. Unclaimed \in Seq(Pos) /\ Len(Unclaimed) = Len(slots) - l
  BY <1>6, <1>7, <1>8
<1>10. Remaining = Len(slots) - l + 0 + 0
  BY <1>1 DEF Remaining, Decoding, Cores, l
<1> QED BY <1>2, <1>4, <1>5, <1>6, <1>7, <1>9, <1>10

(* The types depend on the slot only.                                       *)
LEMMA LocalsSame ==
  ASSUME UNCHANGED scen PROVE Locals' = Locals /\ Pos' = Pos /\ Msg' = Msg
<1>1. Pos' = Pos /\ Msg' = Msg
  BY DEF Pos, Msg
<1> QED BY <1>1 DEF Locals, Stages, Coarse, Fine, Pass2, Stage3

(* A coarse cell is a position.                                             *)
LEMMA CellsArePos ==
  ASSUME DualCoreTypeOK, NEW s \in Seq(1..Cells) PROVE s \in Seq(Pos)
<1>1. 1..Cells \subseteq Pos
  BY ScenarioFacts DEF DualCoreTypeOK, SharedTypeOK
<1> DEFINE C == 1..Cells
<1>2. s \in Seq(C) /\ C \subseteq Pos
  BY <1>1
<1> HIDE DEF C
<1> QED BY <1>2

(* At most k of the first k candidates are ready.                           *)
LEMMA ReadyCount ==
  ASSUME NEW T, NEW s \in Seq(T), NEW k \in Nat
  PROVE  Cardinality(Ready(Cut(s, k))) \in 0..k
<1> DEFINE c == Cut(s, k)
<1>1. c \in Seq(T) /\ Len(c) = Least(k, Len(s))
  BY CutType
<1>2. Len(c) \in Nat /\ Len(c) <= k /\ DOMAIN c = 1..Len(c)
  BY <1>1, SeqElement DEF Least
<1>3. Ready(c) \in SUBSET (1..Len(c))
  BY <1>2 DEF Ready
<1> HIDE DEF c
<1>4. IsFiniteSet(1..Len(c)) /\ Cardinality(1..Len(c)) = Len(c)
  BY <1>2, UpTo
<1>5. IsFiniteSet(Ready(c)) /\ Cardinality(Ready(c)) <= Cardinality(1..Len(c))
  BY <1>3, <1>4, FS_Subset
<1>6. Cardinality(Ready(c)) \in Nat
  BY <1>5, FS_CardinalityType
<1> QED BY <1>2, <1>4, <1>5, <1>6 DEF c

(* At a join the two halves are what the two cores were asked for.          *)
LEMMA SplitJoin ==
  ASSUME Control, Split, NEW st \in Stages \ Stage3, Join(st)
  PROVE  /\ m.own = Work(KindOf(st), MainHalf, m.budget)
         /\ Merged = Merge(KindOf(st), m.own, Work(KindOf(st), WorkerHalf, m.budget), m.budget)
<1>1. m.at = st /\ m.waiting /\ reply # None
  BY JoinFacts
<1>2. /\ m.own = Work(KindOf(st), MainHalf, m.budget)
      /\ reply = [kind |-> KindOf(st), res |-> Work(KindOf(st), WorkerHalf, m.budget)]
  BY <1>1 DEF Split
<1>3. reply.res = Work(KindOf(st), WorkerHalf, m.budget)
  BY <1>2
<1> QED BY <1>1, <1>2, <1>3 DEF Merged

(* What a refined list holds when its halves are joined.                    *)
LEMMA Pass2Join ==
  ASSUME DualCoreTypeOK, Control, Split, NEW st \in Pass2, Join(st)
  PROVE  /\ Merged \in Seq(Pos) /\ Len(Merged) = Least(Len(m.list), m.budget)
         /\ Len(Merged) <= m.budget
         /\ \A j \in 1..Len(m.list) : Holds(Merged, m.list[j])
               \/ \A i \in 1..Len(Merged) : scen.q[m.list[j]] <= scen.q[Merged[i]]
<1>1. KindOf(st) = "pass2" /\ st \in Stages \ Stage3 /\ st # "coarse" /\ m.at = st
  BY JoinFacts DEF KindOf, Pass2, Coarse, Fine, Stage3, Stages
<1>2. /\ m.own = Work("pass2", MainHalf, m.budget)
      /\ Merged = Merge("pass2", m.own, Work("pass2", WorkerHalf, m.budget), m.budget)
  BY <1>1, SplitJoin
<1>3. /\ Merged \in Seq(Pos) /\ Len(Merged) = Least(Len(m.list), m.budget)
      /\ \A j \in 1..Len(m.list) : Holds(Merged, m.list[j])
            \/ \A i \in 1..Len(Merged) : scen.q[m.list[j]] <= scen.q[Merged[i]]
  BY <1>1, <1>2, MergedPass2
<1>4. m.budget \in Nat /\ Len(m.list) \in Nat
  BY DEF DualCoreTypeOK, Locals
<1>5. Len(Merged) <= m.budget
  BY <1>3, <1>4 DEF Least
<1> QED BY <1>3, <1>5

(* Retries are positions.                                                   *)
LEMMA RetryPos ==
  ASSUME DualCoreTypeOK, Lists, NEW f \in Seq(Pos)
  PROVE  coarse_retry_candidates(f) \in Seq(Pos) /\ Len(coarse_retry_candidates(f)) \in Nat
<1>1. coarse_retry_candidates(f) \in Seq(1..Cells)
  BY RetryType DEF Lists
<1>2. coarse_retry_candidates(f) \in Seq(Pos)
  BY <1>1, CellsArePos
<1> QED BY <1>2, SeqElement

(* What the stages' own steps keep, and the whole inductive invariant.      *)
Steady == Lists /\ Account /\ Budget /\ Yield /\ BestRefined
DInv == DualCoreTypeOK /\ Split /\ Batch /\ Control /\ Claims /\ Steady

(* The coarse search is put together: its cells become the first list. *)
LEMMA CoarseDoneStep ==
  ASSUME DualCoreTypeOK, Split, Batch, Control, Claims, Steady, CoarseDone
  PROVE  DInv'
<1>0. /\ Join("coarse") /\ m.at = "coarse"
      /\ UNCHANGED <<scen, now, slotHere, made, batch, overrun, pc>>
  BY DEF CoarseDone, Join, world, drainVars
<1> DEFINE L == Merged
           a == IF scen.fine_ok THEN "fine" ELSE "partition"
<1>1. L \in Seq(1..Cells)
  <2>1. /\ m.own = Work("coarse", MainHalf, m.budget)
        /\ L = Merge("coarse", m.own, Work("coarse", WorkerHalf, m.budget), m.budget)
    <3>1. "coarse" \in Stages \ Stage3 /\ KindOf("coarse") = "coarse"
      BY DEF Stages, Coarse, Fine, Pass2, Stage3, KindOf
    <3> QED BY <1>0, <3>1, SplitJoin
  <2> QED BY <2>1, <1>0, MergedCoarse
<1>2. L \in Seq(Pos) /\ L \in Seq(1..Cells)
  BY <1>1, CellsArePos
<1>3. m.refined = <<>>
  BY <1>0 DEF Steady, Lists
<1>4. m' = [[m EXCEPT !.list = L, !.pass1 = L] EXCEPT !.at = a, !.waiting = FALSE]
  BY DEF CoarseDone, Go
<1>14. owed' = owed + 0
  BY DEF CoarseDone, Owe
<1>5. a \in Stages /\ a \in {"fine", "partition"}
  BY DEF Stages, Fine
<1> HIDE DEF L, a
<1>6. (m \in Locals)'
  <2>1. m' \in Locals
    BY <1>2, <1>3, <1>4, <1>5 DEF DualCoreTypeOK, Locals
  <2> QED BY <2>1, <1>0, LocalsSame
<1>7. /\ m'.at = a /\ m'.waiting = FALSE
      /\ m'.list = L /\ m'.budget = m.budget /\ m'.pass1 = L
      /\ m'.refined = m.refined /\ m'.leftover = m.leftover /\ m'.late_retry = m.late_retry
      /\ m'.late_budget = m.late_budget /\ m'.n_early = m.n_early /\ m'.n_late = m.n_late
      /\ m'.n_cut = m.n_cut
  BY <1>4 DEF DualCoreTypeOK, Locals
<1>8. Lists'
  BY <1>0, <1>2, <1>3, <1>5, <1>7 DEF Steady, Lists, Found
<1>9. Account'
  <2>1. Todo = 0
    BY <1>0 DEF Todo
  <2>2. Todo' = 0
    BY <1>5, <1>7 DEF Todo
  <2>3. made \in Nat /\ owed \in Nat /\ CutSoFar \in Nat
    BY DEF DualCoreTypeOK, SharedTypeOK, Locals, CutSoFar
  <2>5. made + CutSoFar + Todo = owed /\ made' = made
    BY <1>0 DEF Steady, Account
  <2>6. /\ CutSoFar' = CutSoFar /\ owed' = owed + 0
    BY <1>2, <1>3, <1>5, <1>7, <1>14 DEF CutSoFar, LateLen, DualCoreTypeOK, Locals
  <2> QED BY <2>1, <2>2, <2>3, <2>5, <2>6 DEF Account
<1>10. Budget'
  BY <1>0, <1>2, <1>3, <1>5, <1>7 DEF Steady, Budget
<1>11. Yield'
  BY <1>0, <1>5, <1>7 DEF Steady, Yield
<1>12. BestRefined'
  BY <1>0, <1>5, <1>7 DEF BestRefined
<1>15. owed' \in Nat
  <2>1. owed \in Nat
    BY DEF DualCoreTypeOK, SharedTypeOK
  <2> QED BY <1>2, <1>3, <1>14, <2>1
<1>16. SharedTypeOK' /\ Split' /\ Batch' /\ Control' /\ Claims'
  BY <1>0, <1>7, <1>15, Between
<1> QED BY <1>6, <1>8, <1>9, <1>10, <1>11, <1>12, <1>16 DEF DInv, DualCoreTypeOK, Steady

(* Fine sync is put together: one refined position for each coarse cell. *)
LEMMA FineDoneStep ==
  ASSUME DualCoreTypeOK, Split, Batch, Control, Claims, Steady, FineDone
  PROVE  DInv'
<1>0. /\ Join("fine") /\ m.at = "fine"
      /\ UNCHANGED <<scen, now, slotHere, made, batch, overrun, pc>>
  BY DEF FineDone, Join, world, drainVars
<1> DEFINE L == Merged
           a == "partition"
<1>1. m.list = m.pass1 /\ m.list \in Seq(1..Cells) /\ m.list \in Seq(Pos)
  BY <1>0 DEF Steady, Lists, DualCoreTypeOK, Locals
<1>2. L \in Seq(Pos) /\ Len(L) = Len(m.pass1)
  <2>1. /\ m.own = Work("fine", MainHalf, m.budget)
        /\ L = Merge("fine", m.own, Work("fine", WorkerHalf, m.budget), m.budget)
    <3>1. "fine" \in Stages \ Stage3 /\ KindOf("fine") = "fine"
      BY DEF Stages, Coarse, Fine, Pass2, Stage3, KindOf
    <3> QED BY <1>0, <3>1, SplitJoin
  <2> QED BY <2>1, <1>0, <1>1, MergedFine
<1>3. L = <<>> => m.pass1 = <<>>
  BY <1>2 DEF DualCoreTypeOK, Locals
<1>4. m' = [[m EXCEPT !.list = L, !.refined = L] EXCEPT !.at = a, !.waiting = FALSE]
  BY DEF FineDone, Go
<1>14. owed' = owed + 0
  BY DEF FineDone, Owe
<1>5. a \in Stages /\ a = "partition"
  BY DEF Stages
<1> HIDE DEF L, a
<1>6. (m \in Locals)'
  <2>1. m' \in Locals
    BY <1>2, <1>3, <1>4, <1>5 DEF DualCoreTypeOK, Locals
  <2> QED BY <2>1, <1>0, LocalsSame
<1>7. /\ m'.at = a /\ m'.waiting = FALSE
      /\ m'.list = L /\ m'.budget = m.budget /\ m'.pass1 = m.pass1
      /\ m'.refined = L /\ m'.leftover = m.leftover /\ m'.late_retry = m.late_retry
      /\ m'.late_budget = m.late_budget /\ m'.n_early = m.n_early /\ m'.n_late = m.n_late
      /\ m'.n_cut = m.n_cut
  BY <1>4 DEF DualCoreTypeOK, Locals
<1>8. Lists'
  BY <1>0, <1>2, <1>3, <1>5, <1>7 DEF Steady, Lists, Found
<1>9. Account'
  <2>1. Todo = 0
    BY <1>0 DEF Todo
  <2>2. Todo' = 0
    BY <1>5, <1>7 DEF Todo
  <2>3. made \in Nat /\ owed \in Nat /\ CutSoFar \in Nat
    BY DEF DualCoreTypeOK, SharedTypeOK, Locals, CutSoFar
  <2>5. made + CutSoFar + Todo = owed /\ made' = made
    BY <1>0 DEF Steady, Account
  <2>6. /\ CutSoFar' = CutSoFar /\ owed' = owed + 0
    BY <1>2, <1>3, <1>5, <1>7, <1>14 DEF CutSoFar, LateLen, DualCoreTypeOK, Locals
  <2> QED BY <2>1, <2>2, <2>3, <2>5, <2>6 DEF Account
<1>10. Budget'
  BY <1>0, <1>2, <1>3, <1>5, <1>7 DEF Steady, Budget
<1>11. Yield'
  BY <1>0, <1>5, <1>7 DEF Steady, Yield
<1>12. BestRefined'
  BY <1>0, <1>5, <1>7 DEF BestRefined
<1>15. owed' \in Nat
  <2>1. owed \in Nat
    BY DEF DualCoreTypeOK, SharedTypeOK
  <2> QED BY <1>2, <1>3, <1>14, <2>1
<1>16. SharedTypeOK' /\ Split' /\ Batch' /\ Control' /\ Claims'
  BY <1>0, <1>7, <1>15, Between
<1> QED BY <1>6, <1>8, <1>9, <1>10, <1>11, <1>12, <1>16 DEF DInv, DualCoreTypeOK, Steady

(* The candidates are split into ready and deferred, and the budget between them. *)
LEMMA PartitionStep ==
  ASSUME DualCoreTypeOK, Split, Batch, Control, Claims, Steady, Partition
  PROVE  DInv'
<1>0. /\ Alone("partition") /\ m.at = "partition"
      /\ UNCHANGED <<scen, now, slotHere, made, batch, overrun, pc>>
  BY DEF Partition, Alone, world, drainVars
<1> DEFINE L == Kept(m.list, Ready(m.list))
           D == Kept(m.list, DOMAIN m.list \ Ready(m.list))
           early == IF scen.share THEN Cardinality(Ready(Cut(m.list, MAX_CAND))) ELSE MAX_CAND
           late == MAX_CAND - early
           a == IF L # <<>> /\ early > 0 THEN "pass2" ELSE "slot"
<1>1. m.list \in Seq(Pos) /\ MAX_CAND \in Nat
  BY ScenarioAssumption DEF DualCoreTypeOK, Locals
<1>2. L \in Seq(Pos) /\ D \in Seq(Pos)
  BY <1>1, KeptType
<1>3. early \in 0..MAX_CAND /\ late \in 0..MAX_CAND /\ early + late <= MAX_CAND /\ early \in Nat
  <2>1. Cardinality(Ready(Cut(m.list, MAX_CAND))) \in 0..MAX_CAND
    BY <1>1, ReadyCount
  <2>2. early \in 0..MAX_CAND
    BY <2>1, <1>1
  <2> HIDE DEF early
  <2> QED BY <2>2, <1>1
<1>4. m' = [[m EXCEPT !.deferred = D, !.late_budget = late, !.list = L, !.budget = early]
            EXCEPT !.at = a, !.waiting = FALSE]
  BY DEF Partition, Go
<1>14. owed' = owed + 0
  BY DEF Partition, Owe
<1>5. a \in Stages /\ a \in {"pass2", "slot"}
  BY DEF Stages, Pass2
<1>13. L = Kept(Found, Ready(Found)) /\ Found' = Found /\ Ready(Found)' = Ready(Found)
  <2>1. m.list = Found
    BY <1>0 DEF Steady, Lists
  <2>2. Found' = Found
    BY <1>4 DEF Found, DualCoreTypeOK, Locals
  <2> QED BY <2>1, <2>2, <1>0 DEF Ready
<1> HIDE DEF L, D, a, early, late
<1>6. (m \in Locals)'
  <2>1. m' \in Locals
    BY <1>2, <1>3, <1>4, <1>5 DEF DualCoreTypeOK, Locals
  <2> QED BY <2>1, <1>0, LocalsSame
<1>7. /\ m'.at = a /\ m'.waiting = FALSE
      /\ m'.list = L /\ m'.budget = early /\ m'.pass1 = m.pass1
      /\ m'.refined = m.refined /\ m'.leftover = m.leftover /\ m'.late_retry = m.late_retry
      /\ m'.late_budget = late /\ m'.n_early = m.n_early /\ m'.n_late = m.n_late
      /\ m'.n_cut = m.n_cut
  BY <1>4 DEF DualCoreTypeOK, Locals
<1>8. Lists'
  <2>1. m'.at = "pass2" => m'.list = Kept(Found', Ready(Found)')
    BY <1>7, <1>13
  <2> QED BY <2>1, <1>0, <1>5, <1>7 DEF Steady, Lists
<1>9. Account'
  <2>1. Todo = 0
    BY <1>0 DEF Todo
  <2>2. Todo' = 0
    <3>1. m'.leftover = <<>>
      BY <1>0, <1>7 DEF Steady, Lists
    <3> QED BY <3>1, <1>5, <1>7 DEF Todo, LeftoverLen
  <2>3. made \in Nat /\ owed \in Nat /\ CutSoFar \in Nat
    BY DEF DualCoreTypeOK, SharedTypeOK, Locals, CutSoFar
  <2>5. made + CutSoFar + Todo = owed /\ made' = made
    BY <1>0 DEF Steady, Account
  <2>6. /\ CutSoFar' = CutSoFar /\ owed' = owed + 0
    BY <1>2, <1>3, <1>5, <1>7, <1>14 DEF CutSoFar, LateLen, DualCoreTypeOK, Locals
  <2> QED BY <2>1, <2>2, <2>3, <2>5, <2>6 DEF Account
<1>10. Budget'
  BY <1>0, <1>2, <1>3, <1>5, <1>7 DEF Steady, Budget
<1>11. Yield'
  BY <1>0, <1>5, <1>7 DEF Steady, Yield
<1>12. BestRefined'
  BY <1>0, <1>5, <1>7 DEF BestRefined
<1>15. owed' \in Nat
  <2>1. owed \in Nat
    BY DEF DualCoreTypeOK, SharedTypeOK
  <2> QED BY <1>2, <1>3, <1>14, <2>1
<1>16. SharedTypeOK' /\ Split' /\ Batch' /\ Control' /\ Claims'
  BY <1>0, <1>7, <1>15, Between
<1> QED BY <1>6, <1>8, <1>9, <1>10, <1>11, <1>12, <1>16 DEF DInv, DualCoreTypeOK, Steady

(* The refined halves are put together: the strongest candidates, within the budget. *)
LEMMA Pass2DoneStep ==
  ASSUME DualCoreTypeOK, Split, Batch, Control, Claims, Steady, Pass2Done
  PROVE  DInv'
<1>0. /\ Join("pass2") /\ m.at = "pass2"
      /\ UNCHANGED <<scen, now, slotHere, made, batch, overrun, pc>>
  BY DEF Pass2Done, Join, world, drainVars
<1> DEFINE L == Merged
           l == Len(L)
           a == IF now < scen.boundary /\ scen.boundary < scen.deadline THEN "in_time" ELSE "rest"
<1>1. /\ L \in Seq(Pos) /\ Len(L) = Least(Len(m.list), m.budget) /\ Len(L) <= m.budget
      /\ \A j \in 1..Len(m.list) : Holds(L, m.list[j])
              \/ \A i \in 1..Len(L) : scen.q[m.list[j]] <= scen.q[L[i]]
  BY <1>0, Pass2Join DEF Pass2
<1>2. L \in Seq(Pos) /\ l = Len(L) /\ l \in Nat /\ l <= m.budget
  BY <1>1
<1>3. m.budget + m.late_budget <= MAX_CAND /\ m.n_late = 0 /\ m.budget \in Nat /\ m.late_budget \in Nat
      /\ MAX_CAND \in Nat /\ m.list = Kept(Found, Ready(Found))
  BY <1>0, ScenarioAssumption DEF Steady, Budget, Lists, DualCoreTypeOK, Locals
<1>4. m' = [[m EXCEPT !.list = L, !.n_early = l] EXCEPT !.at = a, !.waiting = FALSE]
  BY DEF Pass2Done, Go
<1>14. owed' = owed + l
  BY DEF Pass2Done, Owe
<1>5. a \in Stages /\ a \in {"in_time", "rest"}
  BY DEF Stages, Stage3
<1> HIDE DEF L, l, a
<1>6. (m \in Locals)'
  <2>1. m' \in Locals
    BY <1>2, <1>3, <1>4, <1>5 DEF DualCoreTypeOK, Locals
  <2> QED BY <2>1, <1>0, LocalsSame
<1>7. /\ m'.at = a /\ m'.waiting = FALSE
      /\ m'.list = L /\ m'.budget = m.budget /\ m'.pass1 = m.pass1
      /\ m'.refined = m.refined /\ m'.leftover = m.leftover /\ m'.late_retry = m.late_retry
      /\ m'.late_budget = m.late_budget /\ m'.n_early = l /\ m'.n_late = m.n_late
      /\ m'.n_cut = m.n_cut
  BY <1>4 DEF DualCoreTypeOK, Locals
<1>8. Lists'
  BY <1>0, <1>2, <1>3, <1>5, <1>7 DEF Steady, Lists
<1>9. Account'
  <2>1. Todo = 0
    BY <1>0 DEF Todo
  <2>2. Todo' = l
    BY <1>2, <1>5, <1>7 DEF Todo, Remaining
  <2>3. made \in Nat /\ owed \in Nat /\ CutSoFar \in Nat
    BY DEF DualCoreTypeOK, SharedTypeOK, Locals, CutSoFar
  <2>5. made + CutSoFar + Todo = owed /\ made' = made
    BY <1>0 DEF Steady, Account
  <2>6. /\ CutSoFar' = CutSoFar /\ owed' = owed + l
        /\ l \in Nat
    BY <1>2, <1>3, <1>5, <1>7, <1>14 DEF CutSoFar, LateLen, DualCoreTypeOK, Locals
  <2> QED BY <2>1, <2>2, <2>3, <2>5, <2>6 DEF Account
<1>10. Budget'
  BY <1>0, <1>2, <1>3, <1>5, <1>7 DEF Steady, Budget
<1>11. Yield'
  BY <1>0, <1>5, <1>7 DEF Steady, Yield
<1>12. BestRefined'
  <2>1. Found' = Found
    BY <1>7 DEF Found
  <2>2. Ready(Found)' = Ready(Found)
    BY <1>0, <2>1 DEF Ready
  <2> DEFINE all == Kept(Found, Ready(Found))
  <2>3. all = m.list /\ m'.list = L /\ m'.budget = m.budget /\ scen' = scen
    BY <1>0, <1>3, <1>7
  <2>4. Len(L) = Least(Len(all), m.budget)
    BY <2>3, <1>1
  <2>5. ASSUME NEW p \in ToSet(all) \ ToSet(L), NEW k \in ToSet(L) PROVE scen.q[p] <= scen.q[k]
    <3> HIDE DEF all
    <3>1. PICK j \in DOMAIN m.list : p = m.list[j]
      BY <2>3, <2>5 DEF ToSet
    <3>2. PICK i \in DOMAIN L : k = L[i]
      BY DEF ToSet
    <3>3. DOMAIN m.list = 1..Len(m.list) /\ DOMAIN L = 1..Len(L)
      BY <1>1 DEF DualCoreTypeOK, Locals
    <3>4. ~Holds(L, p)
      BY <2>5, <3>3 DEF ToSet, Holds
    <3> QED BY <3>1, <3>2, <3>3, <3>4, <1>1
  <2>6. /\ Len(m'.list) = Least(Len(all), m'.budget)
        /\ \A p \in ToSet(all) \ ToSet(m'.list), k \in ToSet(m'.list) : scen'.q[p] <= scen'.q[k]
    BY <2>3, <2>4, <2>5
  <2> QED BY <2>1, <2>2, <2>6 DEF BestRefined
<1>15. owed' \in Nat
  <2>1. owed \in Nat
    BY DEF DualCoreTypeOK, SharedTypeOK
  <2> QED BY <1>2, <1>3, <1>14, <2>1
<1>16. SharedTypeOK' /\ Split' /\ Batch' /\ Control' /\ Claims'
  BY <1>0, <1>7, <1>15, Between
<1> QED BY <1>6, <1>8, <1>9, <1>10, <1>11, <1>12, <1>16 DEF DInv, DualCoreTypeOK, Steady

(* What the boundary left unclaimed goes into the second part of the batch. *)
LEMMA InTimeDoneStep ==
  ASSUME DualCoreTypeOK, Split, Batch, Control, Claims, Steady, InTimeDone
  PROVE  DInv'
<1>0. /\ Join("in_time") /\ m.at = "in_time"
      /\ UNCHANGED <<scen, now, slotHere, made, batch, overrun, pc>>
  BY DEF InTimeDone, Join, world, drainVars
<1>1. /\ AllResults \in Seq(Msg) /\ AllFailed \in Seq(Pos) /\ Unclaimed \in Seq(Pos)
      /\ Len(Unclaimed) = Remaining /\ Len(slots) - Len(Unclaimed) \in Nat /\ batch # 0
  BY <1>0, Stage3Join DEF Stage3
<1> DEFINE l == Len(AllResults)
           a == "rest"
<1>2. l \in Nat /\ Len(Unclaimed) \in Nat
  BY <1>1
<1>3. batch # 0
  BY <1>1
<1>4. m' = [[m EXCEPT !.results = AllResults, !.failed = AllFailed, !.n_in_time = l, !.list = Unclaimed]
            EXCEPT !.at = a, !.waiting = FALSE]
  BY DEF InTimeDone, Go
<1>14. owed' = owed + 0
  BY DEF InTimeDone, Owe
<1>5. a \in Stages /\ a = "rest"
  BY DEF Stages, Stage3
<1> HIDE DEF l, a
<1>6. (m \in Locals)'
  <2>1. m' \in Locals
    BY <1>1, <1>2, <1>4, <1>5 DEF DualCoreTypeOK, Locals
  <2> QED BY <2>1, <1>0, LocalsSame
<1>7. /\ m'.at = a /\ m'.waiting = FALSE
      /\ m'.list = Unclaimed /\ m'.budget = m.budget /\ m'.pass1 = m.pass1
      /\ m'.refined = m.refined /\ m'.leftover = m.leftover /\ m'.late_retry = m.late_retry
      /\ m'.late_budget = m.late_budget /\ m'.n_early = m.n_early /\ m'.n_late = m.n_late
      /\ m'.n_cut = m.n_cut
  BY <1>4 DEF DualCoreTypeOK, Locals
<1>8. Lists'
  BY <1>0, <1>2, <1>3, <1>5, <1>7 DEF Steady, Lists
<1>9. Account'
  <2>1. Todo = Len(Unclaimed)
    BY <1>0, <1>1 DEF Todo
  <2>2. Todo' = Len(Unclaimed)
    BY <1>5, <1>7 DEF Todo, Remaining
  <2>3. made \in Nat /\ owed \in Nat /\ CutSoFar \in Nat
    BY DEF DualCoreTypeOK, SharedTypeOK, Locals, CutSoFar
  <2>5. made + CutSoFar + Todo = owed /\ made' = made
    BY <1>0 DEF Steady, Account
  <2>6. /\ CutSoFar' = CutSoFar /\ owed' = owed + 0
        /\ Len(Unclaimed) \in Nat
    BY <1>2, <1>3, <1>5, <1>7, <1>14 DEF CutSoFar, LateLen, DualCoreTypeOK, Locals
  <2> QED BY <2>1, <2>2, <2>3, <2>5, <2>6 DEF Account
<1>10. Budget'
  BY <1>0, <1>2, <1>3, <1>5, <1>7 DEF Steady, Budget
<1>11. Yield'
  BY <1>0, <1>5, <1>7 DEF Steady, Yield
<1>12. BestRefined'
  BY <1>0, <1>3 DEF BestRefined
<1>15. owed' \in Nat
  <2>1. owed \in Nat
    BY DEF DualCoreTypeOK, SharedTypeOK
  <2> QED BY <1>2, <1>3, <1>14, <2>1
<1>16. SharedTypeOK' /\ Split' /\ Batch' /\ Control' /\ Claims'
  BY <1>0, <1>7, <1>15, Between
<1> QED BY <1>6, <1>8, <1>9, <1>10, <1>11, <1>12, <1>16 DEF DInv, DualCoreTypeOK, Steady

(* First attempts are over: their retries start, or are counted as cut. *)
LEMMA RestDoneStep ==
  ASSUME DualCoreTypeOK, Split, Batch, Control, Claims, Steady, RestDone
  PROVE  DInv'
<1>0. /\ Join("rest") /\ m.at = "rest"
      /\ UNCHANGED <<scen, now, slotHere, made, batch, overrun, pc>>
  BY DEF RestDone, Join, world, drainVars
<1>1. /\ AllResults \in Seq(Msg) /\ AllFailed \in Seq(Pos) /\ Unclaimed \in Seq(Pos)
      /\ Len(Unclaimed) = Remaining /\ Len(slots) - Len(Unclaimed) \in Nat /\ batch # 0
  BY <1>0, Stage3Join DEF Stage3
<1> DEFINE retry == coarse_retry_candidates(m.failed \o AllFailed)
           start == retry # <<>> /\ ~Reached("retry")
           a == IF start THEN "retry_pass2" ELSE "slot"
           R == m.results \o AllResults
           b == Len(retry)
           n == m.n_cut + Len(Unclaimed) + (IF start THEN 0 ELSE b)
<1>2. retry \in Seq(Pos) /\ b = Len(retry) /\ b \in Nat
  <2>1. m.failed \o AllFailed \in Seq(Pos)
    BY <1>1 DEF DualCoreTypeOK, Locals
  <2> QED BY <2>1, RetryPos DEF Steady
<1>3. R \in Seq(Msg) /\ n \in Nat /\ Len(Unclaimed) \in Nat
  <2>1. m.results \in Seq(Msg) /\ m.n_cut \in Nat
    BY DEF DualCoreTypeOK, Locals
  <2>2. R \in Seq(Msg)
    BY <2>1, <1>1
  <2>3. Len(Unclaimed) \in Nat
    BY <1>1
  <2> QED BY <2>1, <2>2, <2>3, <1>2
<1>4. m' = [[m EXCEPT !.results = R, !.list = retry, !.budget = b, !.n_cut = n]
            EXCEPT !.at = a, !.waiting = FALSE]
  BY DEF RestDone, Go
<1>14. owed' = owed + b
  BY DEF RestDone, Owe
<1>5. a \in Stages /\ a \in {"slot", "retry_pass2"}
  BY DEF Stages, Pass2
<1>13. n = m.n_cut + Len(Unclaimed) + (IF a = "slot" THEN b ELSE 0)
  BY <1>2, <1>3 DEF DualCoreTypeOK, Locals
<1> HIDE DEF a, b, R, n, start, retry
<1>6. (m \in Locals)'
  <2>1. m' \in Locals
    BY <1>2, <1>3, <1>4, <1>5 DEF DualCoreTypeOK, Locals
  <2> QED BY <2>1, <1>0, LocalsSame
<1>7. /\ m'.at = a /\ m'.waiting = FALSE
      /\ m'.list = retry /\ m'.budget = b /\ m'.pass1 = m.pass1
      /\ m'.refined = m.refined /\ m'.leftover = m.leftover /\ m'.late_retry = m.late_retry
      /\ m'.late_budget = m.late_budget /\ m'.n_early = m.n_early /\ m'.n_late = m.n_late
      /\ m'.n_cut = n
  BY <1>4 DEF DualCoreTypeOK, Locals
<1>8. Lists'
  BY <1>0, <1>2, <1>3, <1>5, <1>7 DEF Steady, Lists
<1>9. Account'
  <2>1. Todo = Len(Unclaimed)
    BY <1>0, <1>1 DEF Todo
  <2>2. Todo' = IF a = "slot" THEN 0 ELSE b
    <3>1. CASE a = "slot"
      <4>1. m'.leftover = <<>>
        BY <1>0, <1>7 DEF Steady, Lists
      <4> QED BY <3>1, <4>1, <1>7 DEF Todo, LeftoverLen
    <3>2. CASE a = "retry_pass2"
      BY <3>2, <1>2, <1>7 DEF Todo, Remaining
    <3> QED BY <3>1, <3>2, <1>5
  <2>3. made \in Nat /\ owed \in Nat /\ CutSoFar \in Nat
    BY DEF DualCoreTypeOK, SharedTypeOK, Locals, CutSoFar
  <2>5. made + CutSoFar + Todo = owed /\ made' = made
    BY <1>0 DEF Steady, Account
  <2>6. /\ CutSoFar' = CutSoFar + Len(Unclaimed) + (IF a = "slot" THEN b ELSE 0) /\ owed' = owed + b
        /\ b \in Nat
        /\ Len(Unclaimed) \in Nat
    BY <1>2, <1>3, <1>7, <1>13, <1>14 DEF CutSoFar
  <2> QED BY <2>1, <2>2, <2>3, <2>5, <2>6 DEF Account
<1>10. Budget'
  BY <1>0, <1>2, <1>3, <1>5, <1>7 DEF Steady, Budget
<1>11. Yield'
  BY <1>0, <1>5, <1>7 DEF Steady, Yield
<1>12. BestRefined'
  BY <1>0, <1>5, <1>7 DEF BestRefined
<1>15. owed' \in Nat
  <2>1. owed \in Nat
    BY DEF DualCoreTypeOK, SharedTypeOK
  <2> QED BY <1>2, <1>3, <1>14, <2>1
<1>16. SharedTypeOK' /\ Split' /\ Batch' /\ Control' /\ Claims'
  BY <1>0, <1>7, <1>15, Between
<1> QED BY <1>6, <1>8, <1>9, <1>10, <1>11, <1>12, <1>16 DEF DInv, DualCoreTypeOK, Steady

(* Retries are refined, none of them dropped. *)
LEMMA RetryPass2DoneStep ==
  ASSUME DualCoreTypeOK, Split, Batch, Control, Claims, Steady, RetryPass2Done
  PROVE  DInv'
<1>0. /\ Join("retry_pass2") /\ m.at = "retry_pass2"
      /\ UNCHANGED <<scen, now, slotHere, made, batch, overrun, pc>>
  BY DEF RetryPass2Done, Join, world, drainVars
<1> DEFINE L == Merged
<1>1. L \in Seq(Pos) /\ Len(L) = Least(Len(m.list), m.budget) /\ m.budget = Len(m.list)
  BY <1>0, Pass2Join DEF Pass2, Steady, Lists
<1>2. L \in Seq(Pos) /\ Len(L) = Len(m.list) /\ Len(L) \in Nat
  BY <1>1 DEF Least
<1>3. ~m.waiting \/ m.at \notin Stage3
  BY <1>0 DEF Stage3
<1> DEFINE a == "retry"
<1>4. m' = [[m EXCEPT !.list = L] EXCEPT !.at = a, !.waiting = FALSE]
  BY DEF RetryPass2Done, Go
<1>14. owed' = owed + 0
  BY DEF RetryPass2Done, Owe
<1>5. a \in Stages /\ a = "retry"
  BY DEF Stages, Stage3
<1> HIDE DEF L, a
<1>6. (m \in Locals)'
  <2>1. m' \in Locals
    BY <1>2, <1>3, <1>4, <1>5 DEF DualCoreTypeOK, Locals
  <2> QED BY <2>1, <1>0, LocalsSame
<1>7. /\ m'.at = a /\ m'.waiting = FALSE
      /\ m'.list = L /\ m'.budget = m.budget /\ m'.pass1 = m.pass1
      /\ m'.refined = m.refined /\ m'.leftover = m.leftover /\ m'.late_retry = m.late_retry
      /\ m'.late_budget = m.late_budget /\ m'.n_early = m.n_early /\ m'.n_late = m.n_late
      /\ m'.n_cut = m.n_cut
  BY <1>4 DEF DualCoreTypeOK, Locals
<1>8. Lists'
  BY <1>0, <1>2, <1>3, <1>5, <1>7 DEF Steady, Lists
<1>9. Account'
  <2>1. Todo = Len(L)
    BY <1>0, <1>2, <1>3 DEF Todo, Remaining
  <2>2. Todo' = Len(L)
    BY <1>5, <1>7 DEF Todo, Remaining
  <2>3. made \in Nat /\ owed \in Nat /\ CutSoFar \in Nat
    BY DEF DualCoreTypeOK, SharedTypeOK, Locals, CutSoFar
  <2>5. made + CutSoFar + Todo = owed /\ made' = made
    BY <1>0 DEF Steady, Account
  <2>6. /\ CutSoFar' = CutSoFar /\ owed' = owed + 0
        /\ Len(L) \in Nat
    BY <1>2, <1>3, <1>5, <1>7, <1>14 DEF CutSoFar, LateLen, DualCoreTypeOK, Locals
  <2> QED BY <2>1, <2>2, <2>3, <2>5, <2>6 DEF Account
<1>10. Budget'
  BY <1>0, <1>2, <1>3, <1>5, <1>7 DEF Steady, Budget
<1>11. Yield'
  BY <1>0, <1>5, <1>7 DEF Steady, Yield
<1>12. BestRefined'
  BY <1>0, <1>5, <1>7 DEF BestRefined
<1>15. owed' \in Nat
  <2>1. owed \in Nat
    BY DEF DualCoreTypeOK, SharedTypeOK
  <2> QED BY <1>2, <1>3, <1>14, <2>1
<1>16. SharedTypeOK' /\ Split' /\ Batch' /\ Control' /\ Claims'
  BY <1>0, <1>7, <1>15, Between
<1> QED BY <1>6, <1>8, <1>9, <1>10, <1>11, <1>12, <1>16 DEF DInv, DualCoreTypeOK, Steady

(* Retries that the slot stopped are left over for the tail. *)
LEMMA RetryDoneStep ==
  ASSUME DualCoreTypeOK, Split, Batch, Control, Claims, Steady, RetryDone
  PROVE  DInv'
<1>0. /\ Join("retry") /\ m.at = "retry"
      /\ UNCHANGED <<scen, now, slotHere, made, batch, overrun, pc>>
  BY DEF RetryDone, Join, world, drainVars
<1>1. /\ AllResults \in Seq(Msg) /\ AllFailed \in Seq(Pos) /\ Unclaimed \in Seq(Pos)
      /\ Len(Unclaimed) = Remaining /\ Len(slots) - Len(Unclaimed) \in Nat /\ batch # 0
  BY <1>0, Stage3Join DEF Stage3
<1> DEFINE R == m.results \o AllResults
           k == m.n_fallback + Len(slots) - Len(Unclaimed)
           a == "slot"
<1>2. R \in Seq(Msg) /\ k \in Nat /\ Len(Unclaimed) \in Nat
  <2>1. m.results \in Seq(Msg) /\ m.n_fallback \in Nat /\ Len(slots) \in Nat
    BY SeqElement DEF DualCoreTypeOK, Locals, SharedTypeOK
  <2>2. R \in Seq(Msg)
    BY <2>1, <1>1
  <2>3. Len(Unclaimed) \in Nat
    BY <1>1
  <2> QED BY <2>1, <2>2, <2>3, <1>1
<1>3. m.leftover = <<>>
  BY <1>0 DEF Steady, Lists
<1>4. m' = [[m EXCEPT !.results = R, !.leftover = Unclaimed, !.n_fallback = k]
            EXCEPT !.at = a, !.waiting = FALSE]
  BY DEF RetryDone, Go
<1>14. owed' = owed + 0
  BY DEF RetryDone, Owe
<1>5. a \in Stages /\ a = "slot"
  BY DEF Stages
<1> HIDE DEF R, k, a
<1>6. (m \in Locals)'
  <2>1. m' \in Locals
    BY <1>1, <1>2, <1>4, <1>5 DEF DualCoreTypeOK, Locals
  <2> QED BY <2>1, <1>0, LocalsSame
<1>7. /\ m'.at = a /\ m'.waiting = FALSE
      /\ m'.list = m.list /\ m'.budget = m.budget /\ m'.pass1 = m.pass1
      /\ m'.refined = m.refined /\ m'.leftover = Unclaimed /\ m'.late_retry = m.late_retry
      /\ m'.late_budget = m.late_budget /\ m'.n_early = m.n_early /\ m'.n_late = m.n_late
      /\ m'.n_cut = m.n_cut
  BY <1>4 DEF DualCoreTypeOK, Locals
<1>8. Lists'
  BY <1>0, <1>2, <1>3, <1>5, <1>7 DEF Steady, Lists
<1>9. Account'
  <2>1. Todo = Len(Unclaimed)
    BY <1>0, <1>1 DEF Todo
  <2>2. Todo' = Len(Unclaimed)
    BY <1>5, <1>7 DEF Todo, LeftoverLen
  <2>3. made \in Nat /\ owed \in Nat /\ CutSoFar \in Nat
    BY DEF DualCoreTypeOK, SharedTypeOK, Locals, CutSoFar
  <2>5. made + CutSoFar + Todo = owed /\ made' = made
    BY <1>0 DEF Steady, Account
  <2>6. /\ CutSoFar' = CutSoFar /\ owed' = owed + 0
        /\ Len(Unclaimed) \in Nat
    BY <1>2, <1>3, <1>5, <1>7, <1>14 DEF CutSoFar, LateLen, DualCoreTypeOK, Locals
  <2> QED BY <2>1, <2>2, <2>3, <2>5, <2>6 DEF Account
<1>10. Budget'
  BY <1>0, <1>2, <1>3, <1>5, <1>7 DEF Steady, Budget
<1>11. Yield'
  BY <1>0, <1>5, <1>7 DEF Steady, Yield
<1>12. BestRefined'
  BY <1>0, <1>5, <1>7 DEF BestRefined
<1>15. owed' \in Nat
  <2>1. owed \in Nat
    BY DEF DualCoreTypeOK, SharedTypeOK
  <2> QED BY <1>2, <1>3, <1>14, <2>1
<1>16. SharedTypeOK' /\ Split' /\ Batch' /\ Control' /\ Claims'
  BY <1>0, <1>7, <1>15, Between
<1> QED BY <1>6, <1>8, <1>9, <1>10, <1>11, <1>12, <1>16 DEF DInv, DualCoreTypeOK, Steady

(* The slot is there: the deferred candidates get what the budget leaves. *)
LEMMA RecvSlotStep ==
  ASSUME DualCoreTypeOK, Split, Batch, Control, Claims, Steady, RecvSlot
  PROVE  DInv'
<1>0. /\ Alone("slot") /\ m.at = "slot"
      /\ UNCHANGED <<scen, now, slotHere, made, batch, overrun, pc>>
  BY DEF RecvSlot, Alone, world, drainVars
<1> DEFINE k == IF scen.share THEN m.late_budget ELSE MAX_CAND - Least(m.n_early, MAX_CAND)
           start == m.deferred # <<>> /\ k > 0 /\ now < Deadline("late")
           lost == IF start THEN 0 ELSE Least(Len(m.deferred), k)
           n == m.n_cut + lost
           a == IF start THEN "late_pass2" ELSE "tail_retry"
<1>1. /\ m.deferred \in Seq(Pos) /\ Len(m.deferred) \in Nat /\ m.n_cut \in Nat /\ m.n_early \in Nat
      /\ m.late_budget \in Nat /\ MAX_CAND \in Nat /\ m.n_early + m.late_budget <= MAX_CAND
  BY ScenarioAssumption DEF DualCoreTypeOK, Locals, Steady, Budget
<1>2. k \in Nat /\ m.n_early + k <= MAX_CAND
  BY <1>1 DEF Least
<1>3. lost \in Nat /\ n = m.n_cut + lost /\ n \in Nat /\ m.late_retry = <<>> /\ m.deferred \in Seq(Pos)
  <2>1. lost \in Nat
    <3> HIDE DEF k
    <3> QED BY <1>1, <1>2 DEF Least
  <2>2. m.late_retry = <<>>
    BY <1>0 DEF Steady, Lists
  <2> HIDE DEF lost
  <2> QED BY <1>1, <2>1, <2>2
<1>4. m' = [[m EXCEPT !.list = m.deferred, !.budget = k, !.n_cut = n] EXCEPT !.at = a, !.waiting = FALSE]
  BY DEF RecvSlot, Go
<1>14. owed' = owed + lost
  BY DEF RecvSlot, Owe
<1>5. a \in Stages /\ a \in {"late_pass2", "tail_retry"}
  BY DEF Stages, Pass2
<1> HIDE DEF k, start, lost, n, a
<1>6. (m \in Locals)'
  <2>1. m' \in Locals
    BY <1>2, <1>3, <1>4, <1>5 DEF DualCoreTypeOK, Locals
  <2> QED BY <2>1, <1>0, LocalsSame
<1>7. /\ m'.at = a /\ m'.waiting = FALSE
      /\ m'.list = m.deferred /\ m'.budget = k /\ m'.pass1 = m.pass1
      /\ m'.refined = m.refined /\ m'.leftover = m.leftover /\ m'.late_retry = m.late_retry
      /\ m'.late_budget = m.late_budget /\ m'.n_early = m.n_early /\ m'.n_late = m.n_late
      /\ m'.n_cut = n
  BY <1>4 DEF DualCoreTypeOK, Locals
<1>8. Lists'
  BY <1>0, <1>2, <1>3, <1>5, <1>7 DEF Steady, Lists
<1>9. Account'
  <2>1. Todo = LeftoverLen
    BY <1>0 DEF Todo, LeftoverLen
  <2>2. Todo' = LeftoverLen
    <3>1. Len(m.leftover) \in Nat
      BY DEF DualCoreTypeOK, Locals
    <3>2. m'.late_retry = <<>> /\ Len(<<>>) = 0
      BY <1>3, <1>7
    <3>3. CASE a = "late_pass2"
      BY <3>3, <1>7 DEF Todo, LeftoverLen
    <3>4. CASE a = "tail_retry"
      BY <3>1, <3>2, <3>4, <1>7 DEF Todo, LeftoverLen, LateLen
    <3> QED BY <3>3, <3>4, <1>5
  <2>3. made \in Nat /\ owed \in Nat /\ CutSoFar \in Nat
    BY DEF DualCoreTypeOK, SharedTypeOK, Locals, CutSoFar
  <2>4. LeftoverLen \in Nat /\ LateLen \in Nat
    BY LensNat
  <2>5. made + CutSoFar + Todo = owed /\ made' = made
    BY <1>0 DEF Steady, Account
  <2>6. /\ CutSoFar' = CutSoFar + lost /\ owed' = owed + lost
        /\ lost \in Nat
    BY <1>2, <1>3, <1>5, <1>7, <1>14 DEF CutSoFar, LateLen, DualCoreTypeOK, Locals
  <2> QED BY <2>1, <2>2, <2>3, <2>4, <2>5, <2>6 DEF Account
<1>10. Budget'
  BY <1>0, <1>2, <1>3, <1>5, <1>7 DEF Steady, Budget
<1>11. Yield'
  BY <1>0, <1>5, <1>7 DEF Steady, Yield
<1>12. BestRefined'
  BY <1>0, <1>5, <1>7 DEF BestRefined
<1>15. owed' \in Nat
  <2>1. owed \in Nat
    BY DEF DualCoreTypeOK, SharedTypeOK
  <2> QED BY <1>2, <1>3, <1>14, <2>1
<1>16. SharedTypeOK' /\ Split' /\ Batch' /\ Control' /\ Claims'
  BY <1>0, <1>7, <1>15, Between
<1> QED BY <1>6, <1>8, <1>9, <1>10, <1>11, <1>12, <1>16 DEF DInv, DualCoreTypeOK, Steady

(* The deferred candidates are refined within what is left of the budget. *)
LEMMA LatePass2DoneStep ==
  ASSUME DualCoreTypeOK, Split, Batch, Control, Claims, Steady, LatePass2Done
  PROVE  DInv'
<1>0. /\ Join("late_pass2") /\ m.at = "late_pass2"
      /\ UNCHANGED <<scen, now, slotHere, made, batch, overrun, pc>>
  BY DEF LatePass2Done, Join, world, drainVars
<1> DEFINE L == Merged
           l == Len(L)
           a == "late"
<1>1. L \in Seq(Pos) /\ Len(L) = Least(Len(m.list), m.budget) /\ Len(L) <= m.budget
  BY <1>0, Pass2Join DEF Pass2
<1>2. L \in Seq(Pos) /\ l = Len(L) /\ l \in Nat /\ l <= m.budget
  BY <1>1
<1>3. m.n_early + m.budget <= MAX_CAND /\ m.n_early \in Nat /\ m.budget \in Nat /\ MAX_CAND \in Nat
  BY <1>0, ScenarioAssumption DEF Steady, Budget, DualCoreTypeOK, Locals
<1>4. m' = [[m EXCEPT !.list = L, !.n_late = l] EXCEPT !.at = a, !.waiting = FALSE]
  BY DEF LatePass2Done, Go
<1>14. owed' = owed + l
  BY DEF LatePass2Done, Owe
<1>5. a \in Stages /\ a = "late"
  BY DEF Stages, Stage3
<1> HIDE DEF L, l, a
<1>6. (m \in Locals)'
  <2>1. m' \in Locals
    BY <1>2, <1>3, <1>4, <1>5 DEF DualCoreTypeOK, Locals
  <2> QED BY <2>1, <1>0, LocalsSame
<1>7. /\ m'.at = a /\ m'.waiting = FALSE
      /\ m'.list = L /\ m'.budget = m.budget /\ m'.pass1 = m.pass1
      /\ m'.refined = m.refined /\ m'.leftover = m.leftover /\ m'.late_retry = m.late_retry
      /\ m'.late_budget = m.late_budget /\ m'.n_early = m.n_early /\ m'.n_late = l
      /\ m'.n_cut = m.n_cut
  BY <1>4 DEF DualCoreTypeOK, Locals
<1>8. Lists'
  BY <1>0, <1>2, <1>3, <1>5, <1>7 DEF Steady, Lists
<1>9. Account'
  <2>1. Todo = LeftoverLen
    BY <1>0 DEF Todo, LeftoverLen
  <2>2. Todo' = LeftoverLen + l
    BY <1>2, <1>5, <1>7 DEF Todo, Remaining, LeftoverLen
  <2>3. made \in Nat /\ owed \in Nat /\ CutSoFar \in Nat
    BY DEF DualCoreTypeOK, SharedTypeOK, Locals, CutSoFar
  <2>4. LeftoverLen \in Nat /\ LateLen \in Nat
    BY LensNat
  <2>5. made + CutSoFar + Todo = owed /\ made' = made
    BY <1>0 DEF Steady, Account
  <2>6. /\ CutSoFar' = CutSoFar /\ owed' = owed + l
        /\ l \in Nat
    BY <1>2, <1>3, <1>5, <1>7, <1>14 DEF CutSoFar, LateLen, DualCoreTypeOK, Locals
  <2> QED BY <2>1, <2>2, <2>3, <2>4, <2>5, <2>6 DEF Account
<1>10. Budget'
  BY <1>0, <1>2, <1>3, <1>5, <1>7 DEF Steady, Budget
<1>11. Yield'
  BY <1>0, <1>5, <1>7 DEF Steady, Yield
<1>12. BestRefined'
  BY <1>0, <1>5, <1>7 DEF BestRefined
<1>15. owed' \in Nat
  <2>1. owed \in Nat
    BY DEF DualCoreTypeOK, SharedTypeOK
  <2> QED BY <1>2, <1>3, <1>14, <2>1
<1>16. SharedTypeOK' /\ Split' /\ Batch' /\ Control' /\ Claims'
  BY <1>0, <1>7, <1>15, Between
<1> QED BY <1>6, <1>8, <1>9, <1>10, <1>11, <1>12, <1>16 DEF DInv, DualCoreTypeOK, Steady

(* The late attempts are over: their retries join those left over. *)
LEMMA LateDoneStep ==
  ASSUME DualCoreTypeOK, Split, Batch, Control, Claims, Steady, LateDone
  PROVE  DInv'
<1>0. /\ Join("late") /\ m.at = "late"
      /\ UNCHANGED <<scen, now, slotHere, made, batch, overrun, pc>>
  BY DEF LateDone, Join, world, drainVars
<1>1. /\ AllResults \in Seq(Msg) /\ AllFailed \in Seq(Pos) /\ Unclaimed \in Seq(Pos)
      /\ Len(Unclaimed) = Remaining /\ Len(slots) - Len(Unclaimed) \in Nat /\ batch # 0
  BY <1>0, Stage3Join DEF Stage3
<1> DEFINE retry == coarse_retry_candidates(AllFailed)
           R == m.results \o AllResults
           b == Len(retry)
           n == m.n_cut + Len(Unclaimed)
           t == m.n_in_time + OnTime(Len(AllResults))
           a == "tail_retry"
<1>2. retry \in Seq(Pos) /\ b = Len(retry) /\ b \in Nat
  BY <1>1, RetryPos DEF Steady
<1>3. R \in Seq(Msg) /\ n = m.n_cut + Len(Unclaimed) /\ n \in Nat /\ Len(Unclaimed) \in Nat /\ t \in Nat
  <2>1. m.results \in Seq(Msg) /\ m.n_cut \in Nat /\ m.n_in_time \in Nat
    BY DEF DualCoreTypeOK, Locals
  <2>2. R \in Seq(Msg)
    BY <2>1, <1>1
  <2>3. Len(Unclaimed) \in Nat /\ Len(AllResults) \in Nat
    BY <1>1
  <2>4. OnTime(Len(AllResults)) \in Nat
    BY <2>3 DEF OnTime
  <2> QED BY <2>1, <2>2, <2>3, <2>4
<1>4. m' = [[m EXCEPT !.results = R, !.late_retry = retry, !.n_cut = n, !.n_in_time = t]
            EXCEPT !.at = a, !.waiting = FALSE]
  BY DEF LateDone, Go
<1>14. owed' = owed + b
  BY DEF LateDone, Owe
<1>5. a \in Stages /\ a = "tail_retry"
  BY DEF Stages
<1> HIDE DEF retry, R, b, n, t, a
<1>6. (m \in Locals)'
  <2>1. m' \in Locals
    BY <1>2, <1>3, <1>4, <1>5 DEF DualCoreTypeOK, Locals
  <2> QED BY <2>1, <1>0, LocalsSame
<1>7. /\ m'.at = a /\ m'.waiting = FALSE
      /\ m'.list = m.list /\ m'.budget = m.budget /\ m'.pass1 = m.pass1
      /\ m'.refined = m.refined /\ m'.leftover = m.leftover /\ m'.late_retry = retry
      /\ m'.late_budget = m.late_budget /\ m'.n_early = m.n_early /\ m'.n_late = m.n_late
      /\ m'.n_cut = n
  BY <1>4 DEF DualCoreTypeOK, Locals
<1>8. Lists'
  BY <1>0, <1>2, <1>3, <1>5, <1>7 DEF Steady, Lists
<1>9. Account'
  <2>1. Todo = LeftoverLen + Len(Unclaimed)
    BY <1>0, <1>1 DEF Todo, LeftoverLen
  <2>2. Todo' = LeftoverLen + b
    BY <1>2, <1>5, <1>7 DEF Todo, LeftoverLen, LateLen
  <2>3. made \in Nat /\ owed \in Nat /\ CutSoFar \in Nat
    BY DEF DualCoreTypeOK, SharedTypeOK, Locals, CutSoFar
  <2>4. LeftoverLen \in Nat /\ LateLen \in Nat
    BY LensNat
  <2>5. made + CutSoFar + Todo = owed /\ made' = made
    BY <1>0 DEF Steady, Account
  <2>6. /\ CutSoFar' = CutSoFar + Len(Unclaimed) /\ owed' = owed + b
        /\ b \in Nat
        /\ Len(Unclaimed) \in Nat
    BY <1>2, <1>3, <1>5, <1>7, <1>14 DEF CutSoFar, LateLen, DualCoreTypeOK, Locals
  <2> QED BY <2>1, <2>2, <2>3, <2>4, <2>5, <2>6 DEF Account
<1>10. Budget'
  BY <1>0, <1>2, <1>3, <1>5, <1>7 DEF Steady, Budget
<1>11. Yield'
  BY <1>0, <1>5, <1>7 DEF Steady, Yield
<1>12. BestRefined'
  BY <1>0, <1>5, <1>7 DEF BestRefined
<1>15. owed' \in Nat
  <2>1. owed \in Nat
    BY DEF DualCoreTypeOK, SharedTypeOK
  <2> QED BY <1>2, <1>3, <1>14, <2>1
<1>16. SharedTypeOK' /\ Split' /\ Batch' /\ Control' /\ Claims'
  BY <1>0, <1>7, <1>15, Between
<1> QED BY <1>6, <1>8, <1>9, <1>10, <1>11, <1>12, <1>16 DEF DInv, DualCoreTypeOK, Steady

(* Late retries are refined if there is time, or counted as cut. *)
LEMMA TailRetryStep ==
  ASSUME DualCoreTypeOK, Split, Batch, Control, Claims, Steady, TailRetry
  PROVE  DInv'
<1>0. /\ Alone("tail_retry") /\ m.at = "tail_retry"
      /\ UNCHANGED <<scen, now, slotHere, made, batch, overrun, pc>>
  BY DEF TailRetry, Alone, world, drainVars
<1> DEFINE go == m.late_retry # <<>> /\ now < Deadline("tail")
           a == IF go THEN "tail_pass2" ELSE "tail"
           L == IF go THEN m.late_retry ELSE m.leftover
           b == IF go THEN Len(m.late_retry) ELSE m.budget
           n == m.n_cut + (IF go THEN 0 ELSE Len(m.late_retry))
<1>1. /\ m.late_retry \in Seq(Pos) /\ m.leftover \in Seq(Pos) /\ m.budget \in Nat /\ m.n_cut \in Nat
      /\ Len(m.late_retry) \in Nat
  BY DEF DualCoreTypeOK, Locals
<1>2. L \in Seq(Pos) /\ b \in Nat
  BY <1>1
<1>3. n \in Nat
  BY <1>1
<1>14. owed' = owed + 0
  BY DEF TailRetry, Owe
<1>4. m' = [[m EXCEPT !.list = L, !.budget = b, !.n_cut = n] EXCEPT !.at = a, !.waiting = FALSE]
  <2>1. CASE go
    <3>1. m' = [[m EXCEPT !.list = m.late_retry, !.budget = Len(m.late_retry)]
                EXCEPT !.at = "tail_pass2", !.waiting = FALSE]
      BY <2>1 DEF TailRetry, Go
    <3>2. n = m.n_cut /\ L = m.late_retry /\ b = Len(m.late_retry) /\ a = "tail_pass2"
      BY <2>1, <1>1
    <3> HIDE DEF n, L, b, a
    <3> QED BY <3>1, <3>2 DEF DualCoreTypeOK, Locals
  <2>2. CASE ~go
    <3>1. m' = [[m EXCEPT !.list = m.leftover, !.n_cut = m.n_cut + Len(m.late_retry)]
                EXCEPT !.at = "tail", !.waiting = FALSE]
      BY <2>2 DEF TailRetry, Go
    <3>2. n = m.n_cut + Len(m.late_retry) /\ L = m.leftover /\ b = m.budget /\ a = "tail"
      BY <2>2, <1>1
    <3> HIDE DEF n, L, b, a
    <3> QED BY <3>1, <3>2 DEF DualCoreTypeOK, Locals
  <2> QED BY <2>1, <2>2
<1>5. /\ a \in Stages /\ a \in {"tail_pass2", "tail"}
      /\ a = "tail_pass2" => L = m.late_retry /\ b = Len(m.late_retry) /\ n = m.n_cut
      /\ a = "tail" => L = m.leftover /\ n = m.n_cut + Len(m.late_retry)
  BY <1>1 DEF Stages, Pass2, Stage3
<1> HIDE DEF go, L, b, n, a
<1>6. (m \in Locals)'
  <2>1. m' \in Locals
    BY <1>2, <1>3, <1>4, <1>5 DEF DualCoreTypeOK, Locals
  <2> QED BY <2>1, <1>0, LocalsSame
<1>7. /\ m'.at = a /\ m'.waiting = FALSE
      /\ m'.list = L /\ m'.budget = b /\ m'.pass1 = m.pass1
      /\ m'.refined = m.refined /\ m'.leftover = m.leftover /\ m'.late_retry = m.late_retry
      /\ m'.late_budget = m.late_budget /\ m'.n_early = m.n_early /\ m'.n_late = m.n_late
      /\ m'.n_cut = n
  BY <1>4 DEF DualCoreTypeOK, Locals
<1>8. Lists'
  BY <1>0, <1>2, <1>3, <1>5, <1>7 DEF Steady, Lists
<1>9. Account'
  <2>1. Todo = LeftoverLen + LateLen
    BY <1>0 DEF Todo, LeftoverLen, LateLen
  <2>2. Todo' = LeftoverLen + (IF a = "tail" THEN 0 ELSE LateLen)
    <3>1. Len(m.leftover) \in Nat
      BY DEF DualCoreTypeOK, Locals
    <3>2. CASE a = "tail_pass2"
      BY <3>2, <1>7 DEF Todo, LeftoverLen, LateLen
    <3>3. CASE a = "tail"
      BY <3>1, <3>3, <1>5, <1>7 DEF Todo, Remaining, LeftoverLen
    <3> QED BY <3>2, <3>3, <1>5
  <2>3. made \in Nat /\ owed \in Nat /\ CutSoFar \in Nat
    BY DEF DualCoreTypeOK, SharedTypeOK, Locals, CutSoFar
  <2>4. LeftoverLen \in Nat /\ LateLen \in Nat
    BY LensNat
  <2>5. made + CutSoFar + Todo = owed /\ made' = made
    BY <1>0 DEF Steady, Account
  <2>6. /\ CutSoFar' = CutSoFar + (IF a = "tail" THEN LateLen ELSE 0) /\ owed' = owed + 0
    <3>1. n = m.n_cut + (IF a = "tail" THEN Len(m.late_retry) ELSE 0)
      BY <1>1, <1>5
    <3> QED BY <1>7, <1>14, <3>1 DEF CutSoFar, LateLen
  <2> QED BY <2>1, <2>2, <2>3, <2>4, <2>5, <2>6 DEF Account
<1>10. Budget'
  BY <1>0, <1>2, <1>3, <1>5, <1>7 DEF Steady, Budget
<1>11. Yield'
  BY <1>0, <1>5, <1>7 DEF Steady, Yield
<1>12. BestRefined'
  BY <1>0, <1>5, <1>7 DEF BestRefined
<1>15. owed' \in Nat
  <2>1. owed \in Nat
    BY DEF DualCoreTypeOK, SharedTypeOK
  <2> QED BY <1>2, <1>3, <1>14, <2>1
<1>16. SharedTypeOK' /\ Split' /\ Batch' /\ Control' /\ Claims'
  BY <1>0, <1>7, <1>15, Between
<1> QED BY <1>6, <1>8, <1>9, <1>10, <1>11, <1>12, <1>16 DEF DInv, DualCoreTypeOK, Steady

(* The late retries follow the early ones that were left over. *)
LEMMA TailPass2DoneStep ==
  ASSUME DualCoreTypeOK, Split, Batch, Control, Claims, Steady, TailPass2Done
  PROVE  DInv'
<1>0. /\ Join("tail_pass2") /\ m.at = "tail_pass2"
      /\ UNCHANGED <<scen, now, slotHere, made, batch, overrun, pc>>
  BY DEF TailPass2Done, Join, world, drainVars
<1> DEFINE L == Merged
<1>1. L \in Seq(Pos) /\ Len(L) = Least(Len(m.list), m.budget) /\ m.budget = Len(m.list)
  BY <1>0, Pass2Join DEF Pass2, Steady, Lists
<1>2. L \in Seq(Pos) /\ Len(L) = Len(m.list) /\ Len(L) \in Nat
  BY <1>1 DEF Least
<1> DEFINE T == m.leftover \o L
           a == "tail"
<1>3. T \in Seq(Pos) /\ Len(T) = Len(m.leftover) + Len(m.late_retry)
  <2>1. m.leftover \in Seq(Pos) /\ m.list = m.late_retry
    BY <1>0 DEF DualCoreTypeOK, Locals, Steady, Lists
  <2> HIDE DEF L
  <2>2. L \in Seq(Pos) /\ Len(L) = Len(m.late_retry)
    BY <2>1, <1>2
  <2>3. T \in Seq(Pos) /\ Len(T) = Len(m.leftover) + Len(L)
    <3>1. \A x, y \in Seq(Pos) : x \o y \in Seq(Pos) /\ Len(x \o y) = Len(x) + Len(y)
      OBVIOUS
    <3> QED BY <2>1, <2>2, <3>1
  <2> QED BY <2>2, <2>3
<1>4. m' = [[m EXCEPT !.list = T] EXCEPT !.at = a, !.waiting = FALSE]
  BY DEF TailPass2Done, Go
<1>14. owed' = owed + 0
  BY DEF TailPass2Done, Owe
<1>5. a \in Stages /\ a = "tail"
  BY DEF Stages, Stage3
<1> HIDE DEF L, T, a
<1>6. (m \in Locals)'
  <2>1. m' \in Locals
    BY <1>2, <1>3, <1>4, <1>5 DEF DualCoreTypeOK, Locals
  <2> QED BY <2>1, <1>0, LocalsSame
<1>7. /\ m'.at = a /\ m'.waiting = FALSE
      /\ m'.list = T /\ m'.budget = m.budget /\ m'.pass1 = m.pass1
      /\ m'.refined = m.refined /\ m'.leftover = m.leftover /\ m'.late_retry = m.late_retry
      /\ m'.late_budget = m.late_budget /\ m'.n_early = m.n_early /\ m'.n_late = m.n_late
      /\ m'.n_cut = m.n_cut
  BY <1>4 DEF DualCoreTypeOK, Locals
<1>8. Lists'
  BY <1>0, <1>2, <1>3, <1>5, <1>7 DEF Steady, Lists
<1>9. Account'
  <2>1. Todo = LeftoverLen + LateLen
    BY <1>0 DEF Todo, LeftoverLen, LateLen
  <2>2. Todo' = LeftoverLen + LateLen
    BY <1>3, <1>5, <1>7 DEF Todo, Remaining, LeftoverLen, LateLen
  <2>3. made \in Nat /\ owed \in Nat /\ CutSoFar \in Nat
    BY DEF DualCoreTypeOK, SharedTypeOK, Locals, CutSoFar
  <2>5. made + CutSoFar + Todo = owed /\ made' = made
    BY <1>0 DEF Steady, Account
  <2>6. /\ CutSoFar' = CutSoFar /\ owed' = owed + 0
    BY <1>2, <1>3, <1>5, <1>7, <1>14 DEF CutSoFar, LateLen, DualCoreTypeOK, Locals
  <2> QED BY <2>1, <2>2, <2>3, <2>5, <2>6 DEF Account
<1>10. Budget'
  BY <1>0, <1>2, <1>3, <1>5, <1>7 DEF Steady, Budget
<1>11. Yield'
  BY <1>0, <1>5, <1>7 DEF Steady, Yield
<1>12. BestRefined'
  BY <1>0, <1>5, <1>7 DEF BestRefined
<1>15. owed' \in Nat
  <2>1. owed \in Nat
    BY DEF DualCoreTypeOK, SharedTypeOK
  <2> QED BY <1>2, <1>3, <1>14, <2>1
<1>16. SharedTypeOK' /\ Split' /\ Batch' /\ Control' /\ Claims'
  BY <1>0, <1>7, <1>15, Between
<1> QED BY <1>6, <1>8, <1>9, <1>10, <1>11, <1>12, <1>16 DEF DInv, DualCoreTypeOK, Steady

(* The tail is over and the rows are reported once per message. *)
LEMMA TailDoneStep ==
  ASSUME DualCoreTypeOK, Split, Batch, Control, Claims, Steady, TailDone
  PROVE  DInv'
<1>0. /\ Join("tail") /\ m.at = "tail"
      /\ UNCHANGED <<scen, now, slotHere, made, batch, overrun, pc>>
  BY DEF TailDone, Join, world, drainVars
<1>1. /\ AllResults \in Seq(Msg) /\ AllFailed \in Seq(Pos) /\ Unclaimed \in Seq(Pos)
      /\ Len(Unclaimed) = Remaining /\ Len(slots) - Len(Unclaimed) \in Nat /\ batch # 0
  BY <1>0, Stage3Join DEF Stage3
<1> DEFINE R == m.results \o AllResults
           n == m.n_cut + Len(Unclaimed)
           f == m.n_fallback + Len(slots) - Len(Unclaimed)
           t == m.n_in_time + OnTime(Len(AllResults))
           rows == dedup_by_message(R)
           u == Least(t, Len(rows))
           a == "done"
<1>2. R \in Seq(Msg) /\ n = m.n_cut + Len(Unclaimed) /\ n \in Nat
      /\ Len(Unclaimed) \in Nat /\ t \in Nat /\ f \in Nat
  <2>1. m.results \in Seq(Msg) /\ m.n_cut \in Nat /\ m.n_in_time \in Nat
        /\ m.n_fallback \in Nat /\ Len(slots) \in Nat
    BY SeqElement DEF DualCoreTypeOK, Locals, SharedTypeOK
  <2>2. R \in Seq(Msg)
    BY <2>1, <1>1
  <2>3. Len(Unclaimed) \in Nat /\ Len(AllResults) \in Nat
    BY <1>1
  <2>4. OnTime(Len(AllResults)) \in Nat
    BY <2>3 DEF OnTime
  <2>5. f \in Nat
    <3>1. \A x, y, z \in Nat : y - z \in Nat => x + y - z \in Nat
      OBVIOUS
    <3> QED BY <2>1, <2>3, <1>1, <3>1
  <2>6. n \in Nat /\ t \in Nat
    BY <2>1, <2>3, <2>4
  <2> QED BY <2>2, <2>3, <2>5, <2>6
<1>3. rows \in Seq(Msg) /\ u \in Nat
  <2> HIDE DEF R, t
  <2>1. rows \in Seq(Msg)
    BY <1>2, KeptType DEF dedup_by_message
  <2>2. Len(rows) \in Nat
    BY <2>1, SeqElement
  <2> HIDE DEF rows
  <2> QED BY <2>1, <2>2, <1>2 DEF Least
<1> DEFINE r == [m EXCEPT !.results = R, !.n_cut = n, !.n_fallback = f, !.n_in_time = t]
<1>14. owed' = owed + 0
  BY DEF TailDone, Owe
<1>4. m' = [[r EXCEPT !.results = rows, !.n_in_time = u] EXCEPT !.at = a, !.waiting = FALSE]
  <2>1. r.results = R /\ r.n_in_time = t
    <3> HIDE DEF R, n, f, t
    <3> QED BY DEF DualCoreTypeOK, Locals
  <2>2. Finish(r)
    BY DEF TailDone
  <2> HIDE DEF r, R, t
  <2> QED BY <2>1, <2>2 DEF Finish, Go
<1>5. a \in Stages /\ a = "done"
  BY DEF Stages
<1> HIDE DEF R, n, f, t, rows, u, a
<1>6. (m \in Locals)'
  <2>1. m' \in Locals
    BY <1>2, <1>3, <1>4, <1>5 DEF DualCoreTypeOK, Locals
  <2> QED BY <2>1, <1>0, LocalsSame
<1>7. /\ m'.at = a /\ m'.waiting = FALSE
      /\ m'.list = m.list /\ m'.budget = m.budget /\ m'.pass1 = m.pass1
      /\ m'.refined = m.refined /\ m'.leftover = m.leftover /\ m'.late_retry = m.late_retry
      /\ m'.late_budget = m.late_budget /\ m'.n_early = m.n_early /\ m'.n_late = m.n_late
      /\ m'.n_cut = n
  BY <1>4 DEF DualCoreTypeOK, Locals
<1>8. Lists'
  BY <1>0, <1>2, <1>3, <1>5, <1>7 DEF Steady, Lists
<1>9. Account'
  <2>1. Todo = Len(Unclaimed)
    BY <1>0, <1>1 DEF Todo
  <2>2. Todo' = 0
    BY <1>5, <1>7 DEF Todo
  <2>3. made \in Nat /\ owed \in Nat /\ CutSoFar \in Nat
    BY DEF DualCoreTypeOK, SharedTypeOK, Locals, CutSoFar
  <2>5. made + CutSoFar + Todo = owed /\ made' = made
    BY <1>0 DEF Steady, Account
  <2>6. /\ CutSoFar' = CutSoFar + Len(Unclaimed) /\ owed' = owed + 0
        /\ Len(Unclaimed) \in Nat
    BY <1>2, <1>3, <1>5, <1>7, <1>14 DEF CutSoFar, LateLen, DualCoreTypeOK, Locals
  <2> QED BY <2>1, <2>2, <2>3, <2>5, <2>6 DEF Account
<1>10. Budget'
  BY <1>0, <1>2, <1>3, <1>5, <1>7 DEF Steady, Budget
<1>11. Yield'
  BY <1>0, <1>5, <1>7 DEF Steady, Yield
<1>12. BestRefined'
  BY <1>0, <1>5, <1>7 DEF BestRefined
<1>15. owed' \in Nat
  <2>1. owed \in Nat
    BY DEF DualCoreTypeOK, SharedTypeOK
  <2> QED BY <1>2, <1>3, <1>14, <2>1
<1>16. SharedTypeOK' /\ Split' /\ Batch' /\ Control' /\ Claims'
  BY <1>0, <1>7, <1>15, Between
<1> QED BY <1>6, <1>8, <1>9, <1>10, <1>11, <1>12, <1>16 DEF DInv, DualCoreTypeOK, Steady

(* No tail: the rows are reported as they are. *)
LEMMA NoTailStep ==
  ASSUME DualCoreTypeOK, Split, Batch, Control, Claims, Steady, NoTail
  PROVE  DInv'
<1>0. /\ Alone("tail") /\ m.at = "tail"
      /\ UNCHANGED <<scen, now, slotHere, made, batch, overrun, pc>>
  BY DEF NoTail, Alone, world, drainVars
<1> DEFINE rows == dedup_by_message(m.results)
           u == Least(m.n_in_time, Len(rows))
           a == "done"
<1>2. m.list = <<>> /\ m.waiting = FALSE
  BY DEF NoTail, Alone, DualCoreTypeOK, Locals
<1>3. rows \in Seq(Msg) /\ u \in Nat
  <2>1. m.results \in Seq(Msg) /\ m.n_in_time \in Nat
    BY DEF DualCoreTypeOK, Locals
  <2>2. rows \in Seq(Msg)
    BY <2>1, KeptType DEF dedup_by_message
  <2>3. Len(rows) \in Nat
    BY <2>2, SeqElement
  <2> HIDE DEF rows
  <2> QED BY <2>1, <2>2, <2>3 DEF Least
<1>14. owed' = owed + 0
  BY DEF NoTail, Owe
<1>4. m' = [[m EXCEPT !.results = rows, !.n_in_time = u] EXCEPT !.at = a, !.waiting = FALSE]
  BY DEF NoTail, Finish, Go
<1>5. a \in Stages /\ a = "done"
  BY DEF Stages
<1> HIDE DEF rows, u, a
<1>6. (m \in Locals)'
  <2>1. m' \in Locals
    BY <1>2, <1>3, <1>4, <1>5 DEF DualCoreTypeOK, Locals
  <2> QED BY <2>1, <1>0, LocalsSame
<1>7. /\ m'.at = a /\ m'.waiting = FALSE
      /\ m'.list = m.list /\ m'.budget = m.budget /\ m'.pass1 = m.pass1
      /\ m'.refined = m.refined /\ m'.leftover = m.leftover /\ m'.late_retry = m.late_retry
      /\ m'.late_budget = m.late_budget /\ m'.n_early = m.n_early /\ m'.n_late = m.n_late
      /\ m'.n_cut = m.n_cut
  BY <1>4 DEF DualCoreTypeOK, Locals
<1>8. Lists'
  BY <1>0, <1>2, <1>3, <1>5, <1>7 DEF Steady, Lists
<1>9. Account'
  <2>1. Todo = 0
    BY <1>0, <1>2 DEF Todo, Remaining
  <2>2. Todo' = 0
    BY <1>5, <1>7 DEF Todo
  <2>3. made \in Nat /\ owed \in Nat /\ CutSoFar \in Nat
    BY DEF DualCoreTypeOK, SharedTypeOK, Locals, CutSoFar
  <2>5. made + CutSoFar + Todo = owed /\ made' = made
    BY <1>0 DEF Steady, Account
  <2>6. /\ CutSoFar' = CutSoFar /\ owed' = owed + 0
    BY <1>2, <1>3, <1>5, <1>7, <1>14 DEF CutSoFar, LateLen, DualCoreTypeOK, Locals
  <2> QED BY <2>1, <2>2, <2>3, <2>5, <2>6 DEF Account
<1>10. Budget'
  BY <1>0, <1>2, <1>3, <1>5, <1>7 DEF Steady, Budget
<1>11. Yield'
  BY <1>0, <1>5, <1>7 DEF Steady, Yield
<1>12. BestRefined'
  BY <1>0, <1>5, <1>7 DEF BestRefined
<1>15. owed' \in Nat
  <2>1. owed \in Nat
    BY DEF DualCoreTypeOK, SharedTypeOK
  <2> QED BY <1>2, <1>3, <1>14, <2>1
<1>16. SharedTypeOK' /\ Split' /\ Batch' /\ Control' /\ Claims'
  BY <1>0, <1>7, <1>15, Between
<1> QED BY <1>6, <1>8, <1>9, <1>10, <1>11, <1>12, <1>16 DEF DInv, DualCoreTypeOK, Steady

-----------------------------------------------------------------------------
(* The steps between: what leaves main's locals alone keeps what they say.   *)
LEMMA MainIdle ==
  ASSUME DualCoreTypeOK, Steady, UNCHANGED <<m, scen, batch>>
  PROVE  (m \in Locals)' /\ Lists' /\ Budget' /\ BestRefined'
<1>1. m' = m /\ scen' = scen /\ batch' = batch
  OBVIOUS
<1>2. (m \in Locals)'
  BY <1>1, LocalsSame DEF DualCoreTypeOK
<1>3. Found' = Found /\ Ready(Found)' = Ready(Found)
  BY <1>1 DEF Found, Ready
<1>4. Lists'
  BY <1>1, <1>3 DEF Steady, Lists
<1>5. Budget'
  BY <1>1 DEF Steady, Budget
<1>6. BestRefined'
  BY <1>1, <1>3 DEF Steady, BestRefined
<1> QED BY <1>2, <1>4, <1>5, <1>6

(* A stage's work depends on the slot only.                                 *)
LEMMA WorkSame ==
  ASSUME UNCHANGED scen
  PROVE  \A kind, s, k : Work(kind, s, k)' = Work(kind, s, k)
  BY DEF Work, refine_candidates, Heap, Push, Weakest

(* The halves depend on main's locals and the slot only.                    *)
LEMMA SplitSame ==
  ASSUME UNCHANGED <<m, scen>>
  PROVE  /\ MainHalf' = MainHalf /\ WorkerHalf' = WorkerHalf /\ m' = m
         /\ \A kind, s, k : Work(kind, s, k)' = Work(kind, s, k)
<1>1. m' = m /\ scen' = scen
  OBVIOUS
<1>2. MainHalf' = MainHalf /\ WorkerHalf' = WorkerHalf
  BY <1>1 DEF MainHalf, WorkerHalf, Mid, Band
<1> QED BY <1>1, <1>2, WorkSame

(* Main's half of a static split is a list of positions.                    *)
LEMMA OwnType ==
  ASSUME DualCoreTypeOK, Steady, m.at \in Coarse \cup Fine \cup Pass2
  PROVE  /\ Work(KindOf(m.at), MainHalf, m.budget) \in Seq(Pos)
         /\ KindOf(m.at) \in {"coarse", "fine", "pass2"}
<1>1. m.budget \in Nat /\ m.list \in Seq(Pos) /\ m.pass1 \in Seq(1..Cells)
  BY DEF DualCoreTypeOK, Locals
<1>2. CASE m.at \in Coarse
  <2>1. KindOf(m.at) = "coarse" /\ m.at = "coarse"
    BY <1>2 DEF KindOf, Coarse, Fine, Pass2, Stage3
  <2>2. Band \in Seq(1..Cells)
    BY ScenarioAssumption DEF Band
  <2>3. MainHalf \in Seq(1..Cells)
    BY <2>1, <2>2, KeptType DEF MainHalf
  <2>4. Cut(MainHalf, m.budget) \in Seq(1..Cells)
    BY <1>1, <2>3, CutType
  <2>5. Cut(MainHalf, m.budget) \in Seq(Pos)
    BY <2>4, CellsArePos
  <2> QED BY <2>1, <2>5 DEF Work
<1>3. CASE m.at \in Fine
  <2>1. KindOf(m.at) = "fine" /\ m.at = "fine"
    BY <1>3 DEF KindOf, Coarse, Fine, Pass2, Stage3
  <2>2. \A c \in 1..Cells : scen.fine[c] \in Pos
    BY ScenarioFacts DEF DualCoreTypeOK, SharedTypeOK
  <2>3. m.list \in Seq(1..Cells)
    BY <1>1, <2>1 DEF Steady, Lists
  <2>4. MainHalf \in Seq(1..Cells)
    BY <2>1, <2>3, HalvesType
  <2>5. DOMAIN MainHalf = 1..Len(MainHalf) /\ Len(MainHalf) \in Nat
    BY <2>4
  <2>6. \A i \in 1..Len(MainHalf) : MainHalf[i] \in 1..Cells
    BY <2>4, SeqElement
  <2>7. \A i \in 1..Len(MainHalf) : scen.fine[MainHalf[i]] \in Pos
    BY <2>2, <2>6
  <2>8. [i \in DOMAIN MainHalf |-> scen.fine[MainHalf[i]]] \in Seq(Pos)
    BY <2>5, <2>7
  <2> QED BY <2>1, <2>8 DEF Work
<1>4. CASE m.at \in Pass2
  <2>1. KindOf(m.at) = "pass2" /\ m.at # "coarse"
    BY <1>4 DEF KindOf, Coarse, Fine, Pass2, Stage3
  <2>2. scen.q \in [DOMAIN scen.q -> Nat] /\ Pos = DOMAIN scen.q
    BY ScenarioFacts DEF DualCoreTypeOK, SharedTypeOK, Pos
  <2>3. MainHalf \in Seq(DOMAIN scen.q)
    BY <1>1, <2>1, <2>2, HalvesType
  <2>4. refine_candidates(MainHalf, m.budget) \in Seq(DOMAIN scen.q)
    BY <1>1, <2>2, <2>3, RefineKeepsBest
  <2> QED BY <2>1, <2>2, <2>4 DEF Work
<1> QED BY <1>2, <1>3, <1>4

(* A stage is split: main computes its half and queues the worker's.         *)
LEMMA SplitSendStep ==
  ASSUME DInv, SplitSend
  PROVE  DInv'
<1> DEFINE w == Work(KindOf(m.at), MainHalf, m.budget)
           j == [kind |-> KindOf(m.at), cands |-> WorkerHalf, k |-> m.budget]
<1>1. /\ m.at \in Coarse \cup Fine \cup Pass2 /\ m.waiting = FALSE
      /\ busy = None /\ reply = None /\ \A c \in Cores : pc[c] = "out"
  BY DEF SplitSend, DInv, Control, DualCoreTypeOK, Locals
<1>2. w \in Seq(Pos) /\ KindOf(m.at) \in {"coarse", "fine", "pass2"}
  BY <1>1, OwnType DEF DInv
<1>3. m' = [m EXCEPT !.waiting = TRUE, !.own = w] /\ job' = j
  BY DEF SplitSend
<1>4. UNCHANGED <<scen, now, slotHere, busy, reply, slots, next_idx, pc, hold, out,
                  tried, made, batch, owed, overrun>>
  BY DEF SplitSend, world, drainVars, histVars
<1>5. j # None /\ j.kind = KindOf(m.at)
  BY DEF None
<1>6. m.at \notin Stage3
  BY <1>1 DEF Coarse, Fine, Pass2, Stage3
<1> HIDE DEF w, j
<1>7. (m \in Locals)'
  <2>1. m' \in Locals
    BY <1>2, <1>3 DEF DInv, DualCoreTypeOK, Locals
  <2> QED BY <2>1, <1>4, LocalsSame
<1>8. /\ m'.waiting = TRUE /\ m'.own = w /\ m'.at = m.at /\ m'.list = m.list /\ m'.budget = m.budget
      /\ m'.pass1 = m.pass1 /\ m'.refined = m.refined /\ m'.leftover = m.leftover
      /\ m'.late_retry = m.late_retry /\ m'.late_budget = m.late_budget
      /\ m'.n_early = m.n_early /\ m'.n_late = m.n_late /\ m'.n_cut = m.n_cut
  BY <1>3 DEF DInv, DualCoreTypeOK, Locals
<1>9. SharedTypeOK'
  <2>1. Pos' = Pos /\ Msg' = Msg
    BY <1>4, LocalsSame
  <2> QED BY <1>2, <1>3, <1>4, <1>5, <2>1 DEF DInv, DualCoreTypeOK, SharedTypeOK
<1>10. Split'
  <2>1. MainHalf' = MainHalf /\ WorkerHalf' = WorkerHalf /\ KindOf(m.at)' = KindOf(m.at)
    BY <1>4, <1>8 DEF MainHalf, WorkerHalf, Mid, Band
  <2>2. w' = w
    <3>1. \A kind, s, k : Work(kind, s, k)' = Work(kind, s, k)
      BY <1>4, WorkSame
    <3>2. w' = Work(KindOf(m.at), MainHalf, m.budget)'
      BY DEF w
    <3> QED BY <1>8, <2>1, <3>1, <3>2 DEF w
  <2>3. job' = [kind |-> KindOf(m.at), cands |-> WorkerHalf, k |-> m.budget]'
    BY <1>3, <1>8, <2>1 DEF j
  <2>4. busy' = None /\ reply' = None
    BY <1>1, <1>4
  <2>5. m'.own = w'
    BY <1>8, <2>2
  <2> QED BY <2>3, <2>4, <2>5 DEF Split, w
<1>11. Batch'
  BY <1>6, <1>8 DEF Batch
<1>12. Control'
  BY <1>1, <1>3, <1>4, <1>5, <1>8 DEF Control, Cores
<1>13. Claims'
  <2>1. \A c \in Cores : pc'[c] # "decode"
    BY <1>1, <1>4
  <2>2. "main" \in Cores /\ m'.at \notin Stage3
    BY <1>6, <1>8 DEF Cores
  <2> QED BY <2>1, <2>2, <1>4 DEF DInv, Claims
<1>14. Lists' /\ BestRefined'
  <2>1. Found' = Found /\ Ready(Found)' = Ready(Found)
    BY <1>4, <1>8 DEF Found, Ready
  <2>2. Lists'
    BY <1>4, <1>8, <2>1 DEF DInv, Steady, Lists
  <2>3. BestRefined'
    BY <1>6, <1>8 DEF BestRefined, Stage3
  <2> QED BY <2>2, <2>3
<1>15. Account'
  <2>1. Remaining' = Remaining
    BY <1>6, <1>8 DEF Remaining
  <2>2. CutSoFar' = CutSoFar /\ LeftoverLen' = LeftoverLen /\ LateLen' = LateLen
    BY <1>8 DEF CutSoFar, LeftoverLen, LateLen
  <2>3. Todo' = Todo
    BY <1>8, <2>1, <2>2 DEF Todo
  <2> QED BY <1>4, <2>2, <2>3 DEF DInv, Steady, Account
<1>16. Budget' /\ Yield'
  BY <1>4, <1>8 DEF DInv, Steady, Budget, Yield
<1> QED BY <1>7, <1>9, <1>10, <1>11, <1>12, <1>13, <1>14, <1>15, <1>16 DEF DInv, DualCoreTypeOK, Steady

(* A batch starts: its array is the candidate list, its number is new.       *)
LEMMA Stage3SendStep ==
  ASSUME DInv, Stage3Send
  PROVE  DInv'
<1>1. /\ m.at \in Stage3 /\ m.waiting = FALSE /\ busy = None /\ reply = None
      /\ \A c \in Cores : pc[c] = "out"
  BY DEF Stage3Send, DInv, Control, DualCoreTypeOK, Locals
<1>2. /\ m' = [m EXCEPT !.waiting = TRUE] /\ slots' = m.list /\ next_idx' = 1
      /\ job' = [kind |-> "stage3"] /\ pc' = [pc EXCEPT !["main"] = "check"]
      /\ out' = [out EXCEPT !["main"] = NoOut] /\ batch' = batch + 1
      /\ UNCHANGED <<scen, now, slotHere, hold, busy, reply, tried, made, owed, overrun>>
  BY DEF Stage3Send, world
<1>3. batch \in Nat /\ batch' # 0 /\ m.list \in Seq(Pos) /\ Len(m.list) \in Nat
  <2>1. batch \in Nat
    BY DEF DInv, DualCoreTypeOK, SharedTypeOK
  <2>2. m.list \in Seq(Pos) /\ Len(m.list) \in Nat
    BY DEF DInv, DualCoreTypeOK, Locals
  <2>3. batch + 1 # 0
    BY <2>1
  <2> QED BY <2>1, <2>2, <2>3, <1>2
<1>4. job' # None /\ job'.kind = "stage3"
  BY <1>2 DEF None
<1>5. (m \in Locals)'
  <2>1. m' \in Locals
    BY <1>2 DEF DInv, DualCoreTypeOK, Locals
  <2> QED BY <2>1, <1>2, LocalsSame
<1>6. /\ m'.waiting = TRUE /\ m'.at = m.at /\ m'.list = m.list /\ m'.budget = m.budget
      /\ m'.pass1 = m.pass1 /\ m'.refined = m.refined /\ m'.leftover = m.leftover
      /\ m'.late_retry = m.late_retry /\ m'.late_budget = m.late_budget
      /\ m'.n_early = m.n_early /\ m'.n_late = m.n_late /\ m'.n_cut = m.n_cut
  BY <1>2 DEF DInv, DualCoreTypeOK, Locals
<1>7. pc \in [Cores -> {"check", "claim", "decode", "out"}]
  BY DEF DInv, DualCoreTypeOK, SharedTypeOK
<1>8. pc'["main"] = "check" /\ pc'["worker"] = "out"
  BY <1>1, <1>2, <1>7 DEF Cores
<1>9. SharedTypeOK'
  <2>1. Pos' = Pos /\ Msg' = Msg
    BY <1>2, LocalsSame
  <2>2. pc' \in [Cores -> {"check", "claim", "decode", "out"}]
    BY <1>2, <1>7 DEF Cores
  <2>3. out' \in [Cores -> [results : Seq(Msg), failed : Seq(Pos)]]
    <3>1. NoOut \in [results : Seq(Msg), failed : Seq(Pos)]
      BY DEF NoOut
    <3> QED BY <1>2, <3>1 DEF Cores, DInv, DualCoreTypeOK, SharedTypeOK
  <2>4. batch' \in Nat
    BY <1>2, <1>3
  <2> QED BY <1>2, <1>3, <1>4, <2>1, <2>2, <2>3, <2>4 DEF DInv, DualCoreTypeOK, SharedTypeOK
<1>10. Split'
  BY <1>1, <1>6 DEF Split
<1>11. Batch'
  <2>1. busy' = None /\ reply' = None /\ next_idx' >= 1 /\ slots' = m'.list
    BY <1>1, <1>2, <1>6
  <2> QED BY <2>1, <1>2, <1>3 DEF Batch
<1>12. Control'
  BY <1>1, <1>2, <1>4, <1>6, <1>8 DEF Control
<1>13. Claims'
  <2>1. \A c \in Cores : pc'[c] # "decode"
    BY <1>8 DEF Cores
  <2>2. \A x \in tried : x.batch \in 0..batch' /\ x.batch # batch'
    BY <1>2, <1>3 DEF DInv, Claims
  <2>3. "main" \in Cores /\ tried' = tried /\ made' = made
    BY <1>2 DEF Cores
  <2> QED BY <2>1, <2>2, <2>3 DEF DInv, Claims
<1>14. Lists' /\ BestRefined'
  <2>1. Found' = Found /\ Ready(Found)' = Ready(Found)
    BY <1>2, <1>6 DEF Found, Ready
  <2>2. Lists'
    BY <1>1, <1>6, <2>1 DEF DInv, Steady, Lists, Stage3
  <2> QED BY <1>3, <2>2 DEF BestRefined
<1>15. Account'
  <2>1. Remaining = Len(m.list)
    BY <1>1 DEF Remaining
  <2>2. Decoding("main")' = 0 /\ Decoding("worker")' = 0
    BY <1>8 DEF Decoding
  <2>3. Remaining' = Len(m.list) - Least(0, Len(m.list)) + 0 + 0
    <3>1. m'.waiting /\ m'.at \in Stage3 /\ slots' = m.list /\ next_idx' - 1 = 0
      BY <1>1, <1>2, <1>6
    <3> QED BY <2>2, <3>1 DEF Remaining, Least
  <2>4. Least(0, Len(m.list)) = 0
    BY <1>3 DEF Least
  <2>5. Remaining' = Remaining
    BY <1>3, <2>1, <2>3, <2>4
  <2>6. CutSoFar' = CutSoFar /\ LeftoverLen' = LeftoverLen /\ LateLen' = LateLen
    BY <1>6 DEF CutSoFar, LeftoverLen, LateLen
  <2>7. Todo' = Todo
    BY <1>6, <2>5, <2>6 DEF Todo
  <2> QED BY <1>2, <2>6, <2>7 DEF DInv, Steady, Account
<1>16. Budget' /\ Yield'
  <2>1. Budget'
    BY <1>6 DEF DInv, Steady, Budget
  <2>2. \A c \in Cores : pc'[c] # "claim"
    BY <1>8 DEF Cores
  <2> QED BY <1>2, <1>6, <2>1, <2>2 DEF DInv, Steady, Yield
<1> QED BY <1>5, <1>9, <1>10, <1>11, <1>12, <1>13, <1>14, <1>15, <1>16 DEF DInv, DualCoreTypeOK, Steady

(* The worker takes its job; if that is a batch it starts draining it.       *)
LEMMA TakeJobStep ==
  ASSUME DInv, TakeJob
  PROVE  DInv'
<1>1. /\ busy = None /\ job # None /\ busy' = job /\ job' = None
      /\ UNCHANGED <<scen, now, slotHere, m, slots, next_idx, hold, reply,
                     tried, made, batch, owed, overrun>>
  BY DEF TakeJob, world, histVars
<1>2. m.waiting /\ reply = None /\ pc["worker"] = "out" /\ m' = m /\ reply' = None
  BY <1>1 DEF DInv, Control
<1>3. /\ pc \in [Cores -> {"check", "claim", "decode", "out"}]
      /\ out \in [Cores -> [results : Seq(Msg), failed : Seq(Pos)]]
      /\ NoOut \in [results : Seq(Msg), failed : Seq(Pos)]
      /\ "worker" \in Cores /\ "main" \in Cores
  BY DEF DInv, DualCoreTypeOK, SharedTypeOK, NoOut, Cores
<1>4. /\ pc' \in [Cores -> {"check", "claim", "decode", "out"}]
      /\ out' \in [Cores -> [results : Seq(Msg), failed : Seq(Pos)]]
      /\ pc'["main"] = pc["main"] /\ pc'["worker"] \in {"check", "out"}
      /\ m.at \notin Stage3 => pc' = pc
  <2>1. CASE job.kind = "stage3"
    <3>1. pc' = [pc EXCEPT !["worker"] = "check"] /\ out' = [out EXCEPT !["worker"] = NoOut]
      BY <2>1 DEF TakeJob
    <3>2. m.at \in Stage3
      <4>1. ASSUME m.at \notin Stage3 PROVE FALSE
        <5>1. job = [kind |-> KindOf(m.at), cands |-> WorkerHalf, k |-> m.budget]
          BY <1>1, <1>2, <4>1 DEF DInv, Split
        <5>2. job.kind = KindOf(m.at)
          BY <5>1
        <5>3. m.at \in Coarse \cup Fine \cup Pass2
          BY <1>2, <4>1 DEF DInv, Control
        <5> QED BY <2>1, <5>2, <5>3 DEF KindOf, Coarse, Fine, Pass2, Stage3
      <4> QED BY <4>1
    <3> QED BY <1>3, <3>1, <3>2
  <2>2. CASE job.kind # "stage3"
    BY <1>2, <1>3, <2>2 DEF TakeJob
  <2> QED BY <2>1, <2>2
<1>5. (m \in Locals)' /\ Lists' /\ Budget' /\ BestRefined'
  BY <1>1, MainIdle DEF DInv
<1>6. SharedTypeOK'
  <2>1. Pos' = Pos /\ Msg' = Msg
    BY <1>1, LocalsSame
  <2>2. None.kind = "none"
    BY DEF None
  <2> QED BY <1>1, <1>4, <2>1, <2>2 DEF DInv, DualCoreTypeOK, SharedTypeOK
<1>7. Split'
  <2>1. /\ MainHalf' = MainHalf /\ WorkerHalf' = WorkerHalf /\ m' = m
        /\ \A kind, s, k : Work(kind, s, k)' = Work(kind, s, k)
    BY <1>1, SplitSame
  <2> QED BY <1>1, <1>2, <2>1 DEF DInv, Split
<1>8. Batch'
  BY <1>1, <1>2 DEF DInv, Batch
<1>9. Control'
  BY <1>1, <1>2, <1>4 DEF DInv, Control, Cores
<1>10. \A c \in Cores : Decoding(c)' = Decoding(c) /\ (pc'[c] = "decode" <=> pc[c] = "decode")
               /\ (pc'[c] = "claim" => pc[c] = "claim")
  BY <1>2, <1>4 DEF Decoding, Cores
<1>11. Claims'
  BY <1>1, <1>10 DEF DInv, Claims
<1>12. Account'
  <2>1. Remaining' = Remaining
    BY <1>1, <1>3, <1>10 DEF Remaining
  <2>2. Todo' = Todo /\ CutSoFar' = CutSoFar
    BY <1>1, <2>1 DEF Todo, LeftoverLen, LateLen, CutSoFar
  <2> QED BY <1>1, <2>2 DEF DInv, Steady, Account
<1>13. Yield'
  BY <1>1, <1>10 DEF DInv, Steady, Yield
<1> QED BY <1>5, <1>6, <1>7, <1>8, <1>9, <1>11, <1>12, <1>13 DEF DInv, DualCoreTypeOK, Steady

(* The worker answers with what it computed, or with what it drained.        *)
LEMMA AnswerStep ==
  ASSUME DInv, Answer
  PROVE  DInv'
<1> DEFINE r == [kind |-> busy.kind,
                 res |-> IF busy.kind = "stage3" THEN out["worker"]
                         ELSE Work(busy.kind, busy.cands, busy.k)]
<1>1. /\ busy # None /\ reply = None /\ pc["worker"] = "out" /\ busy' = None /\ reply' = r
      /\ UNCHANGED <<scen, now, slotHere, m, slots, next_idx, pc, hold, out, job,
                     tried, made, batch, owed, overrun>>
  BY DEF Answer, world, drainVars, histVars
<1>2. m.waiting /\ job = None /\ m' = m /\ job' = None
  BY <1>1 DEF DInv, Control
<1>3. r # None /\ r.kind = busy.kind
  BY DEF None
<1>4. ASSUME m.at \notin Stage3 PROVE Split' /\ Batch'
  <2>1. /\ busy = [kind |-> KindOf(m.at), cands |-> WorkerHalf, k |-> m.budget]
        /\ m.own = Work(KindOf(m.at), MainHalf, m.budget)
    BY <1>1, <1>2, <1>4 DEF DInv, Split
  <2>2. m.at \in Coarse \cup Fine \cup Pass2
    BY <1>2, <1>4 DEF DInv, Control
  <2>3. KindOf(m.at) # "stage3"
    BY <2>2 DEF KindOf, Coarse, Fine, Pass2, Stage3
  <2>4. busy.kind = KindOf(m.at) /\ busy.cands = WorkerHalf /\ busy.k = m.budget
    BY <2>1
  <2>5. r = [kind |-> KindOf(m.at), res |-> Work(KindOf(m.at), WorkerHalf, m.budget)]
    BY <2>3, <2>4
  <2>6. /\ MainHalf' = MainHalf /\ WorkerHalf' = WorkerHalf /\ m' = m
        /\ \A kind, s, k : Work(kind, s, k)' = Work(kind, s, k)
    BY <1>1, SplitSame
  <2> HIDE DEF r
  <2>7. Split'
    BY <1>1, <1>2, <2>1, <2>5, <2>6 DEF Split
  <2>8. Batch'
    BY <1>2, <1>4 DEF Batch
  <2> QED BY <2>7, <2>8
<1>5. ASSUME m.at \in Stage3 PROVE Split' /\ Batch'
  <2>1. busy = [kind |-> "stage3"] /\ slots = m.list /\ next_idx >= 1 /\ batch # 0
    BY <1>1, <1>2, <1>5 DEF DInv, Batch
  <2>2. busy.kind = "stage3"
    BY <2>1
  <2>3. r = [kind |-> "stage3", res |-> out["worker"]]
    BY <2>2
  <2> HIDE DEF r
  <2>4. Batch'
    BY <1>1, <1>2, <2>1, <2>3 DEF Batch
  <2>5. Split'
    BY <1>2, <1>5 DEF Split
  <2> QED BY <2>4, <2>5
<1> HIDE DEF r
<1>6. (m \in Locals)' /\ Lists' /\ Budget' /\ BestRefined'
  BY <1>1, MainIdle DEF DInv
<1>7. SharedTypeOK'
  <2>1. Pos' = Pos /\ Msg' = Msg
    BY <1>1, LocalsSame
  <2>2. None.kind = "none"
    BY DEF None
  <2> QED BY <1>1, <1>3, <2>1, <2>2 DEF DInv, DualCoreTypeOK, SharedTypeOK
<1>8. Control'
  BY <1>1, <1>2, <1>3 DEF DInv, Control, Cores
<1>9. Claims'
  BY <1>1 DEF DInv, Claims
<1>10. Account'
  <2>1. Todo' = Todo /\ CutSoFar' = CutSoFar
    BY <1>1 DEF Todo, Remaining, Decoding, LeftoverLen, LateLen, CutSoFar
  <2> QED BY <1>1, <2>1 DEF DInv, Steady, Account
<1>11. Yield'
  BY <1>1 DEF DInv, Steady, Yield
<1> QED BY <1>4, <1>5, <1>6, <1>7, <1>8, <1>9, <1>10, <1>11 DEF DInv, DualCoreTypeOK, Steady

(* What any drain step of either core relies on and keeps.                   *)
LEMMA Draining ==
  ASSUME DInv, NEW c \in Cores, pc[c] # "out"
  PROVE  /\ m.waiting /\ m.at \in Stage3 /\ c = "worker" => reply = None /\ busy # None
         /\ m.waiting /\ m.at \in Stage3
         /\ slots \in Seq(Pos) /\ Len(slots) \in Nat /\ next_idx \in Nat /\ next_idx >= 1
         /\ pc \in [Cores -> {"check", "claim", "decode", "out"}] /\ hold \in [Cores -> Nat]
         /\ "worker" \in Cores /\ "main" \in Cores
<1>1. m.waiting /\ m.at \in Stage3
  BY DEF DInv, Control
<1>2. c = "worker" => reply = None /\ busy # None
  BY <1>1 DEF DInv, Control
<1>3. /\ slots \in Seq(Pos) /\ next_idx \in Nat /\ hold \in [Cores -> Nat]
      /\ pc \in [Cores -> {"check", "claim", "decode", "out"}]
  BY DEF DInv, DualCoreTypeOK, SharedTypeOK
<1>4. Len(slots) \in Nat
  BY <1>3, SeqElement
<1>5. next_idx >= 1
  BY <1>1 DEF DInv, Batch
<1> QED BY <1>1, <1>2, <1>3, <1>4, <1>5 DEF Cores

(* A core looks at its stop: with the slot there, a retry stops.             *)
LEMMA CheckStopStep ==
  ASSUME DInv, NEW c \in Cores, CheckStop(c)
  PROVE  DInv'
<1>1. /\ pc[c] = "check" /\ pc' = [pc EXCEPT ![c] = IF Reached(m.at) THEN "out" ELSE "claim"]
      /\ UNCHANGED <<scen, now, slotHere, m, slots, next_idx, hold, out, job, busy, reply,
                     tried, made, batch, owed, overrun>>
  BY DEF CheckStop, world, queueVars, histVars
<1>2. /\ m.waiting /\ m.at \in Stage3 /\ (c = "worker" => reply = None /\ busy # None)
      /\ pc \in [Cores -> {"check", "claim", "decode", "out"}]
      /\ "worker" \in Cores /\ "main" \in Cores
  BY <1>1, Draining
<1>3. /\ pc' \in [Cores -> {"check", "claim", "decode", "out"}]
      /\ \A d \in Cores : pc'[d] = "decode" <=> pc[d] = "decode"
      /\ \A d \in Cores : Decoding(d)' = Decoding(d)
      /\ \A d \in Cores \ {c} : pc'[d] = pc[d]
      /\ pc'[c] = (IF Reached(m.at) THEN "out" ELSE "claim")
  BY <1>1, <1>2 DEF Decoding
<1>4. (m \in Locals)' /\ Lists' /\ Budget' /\ BestRefined'
  BY <1>1, MainIdle DEF DInv
<1>5. SharedTypeOK'
  <2>1. Pos' = Pos /\ Msg' = Msg
    BY <1>1, LocalsSame
  <2> QED BY <1>1, <1>3, <2>1 DEF DInv, DualCoreTypeOK, SharedTypeOK
<1>6. Split' /\ Batch'
  BY <1>1, <1>2 DEF DInv, Split, Batch
<1>7. Control'
  BY <1>1, <1>2, <1>3 DEF DInv, Control, Cores
<1>8. Claims'
  BY <1>1, <1>3 DEF DInv, Claims
<1>9. Account'
  <2>1. Remaining' = Remaining
    BY <1>1, <1>2, <1>3 DEF Remaining
  <2>2. Todo' = Todo /\ CutSoFar' = CutSoFar
    BY <1>1, <2>1 DEF Todo, LeftoverLen, LateLen, CutSoFar
  <2> QED BY <1>1, <2>2 DEF DInv, Steady, Account
<1>10. Yield'
  <2>1. m.at = "retry" /\ slotHere => Reached(m.at)
    BY DEF Reached
  <2> QED BY <1>1, <1>3, <2>1 DEF DInv, Steady, Yield
<1> QED BY <1>4, <1>5, <1>6, <1>7, <1>8, <1>9, <1>10 DEF DInv, DualCoreTypeOK, Steady

(* fetch_add: the index claimed is new, and one attempt fewer is left.       *)
LEMMA ClaimStep ==
  ASSUME DInv, NEW c \in Cores, Claim(c)
  PROVE  DInv'
<1>1. /\ pc[c] = "claim" /\ next_idx' = next_idx + 1 /\ hold' = [hold EXCEPT ![c] = next_idx]
      /\ pc' = [pc EXCEPT ![c] = IF next_idx > Len(slots) THEN "out" ELSE "decode"]
      /\ overrun' = IF m.at = "retry" /\ slotHere /\ next_idx <= Len(slots)
                    THEN [overrun EXCEPT ![c] = @ + 1] ELSE overrun
      /\ UNCHANGED <<scen, now, slotHere, m, slots, out, job, busy, reply, tried, made, batch, owed>>
  BY DEF Claim, world, queueVars
<1>2. /\ m.waiting /\ m.at \in Stage3 /\ (c = "worker" => reply = None /\ busy # None)
      /\ slots \in Seq(Pos) /\ Len(slots) \in Nat /\ next_idx \in Nat /\ next_idx >= 1
      /\ pc \in [Cores -> {"check", "claim", "decode", "out"}] /\ hold \in [Cores -> Nat]
      /\ "worker" \in Cores /\ "main" \in Cores
  BY <1>1, Draining
<1>3. /\ pc' \in [Cores -> {"check", "claim", "decode", "out"}]
      /\ \A d \in Cores \ {c} : pc'[d] = pc[d]
      /\ pc'[c] = (IF next_idx > Len(slots) THEN "out" ELSE "decode")
  BY <1>1, <1>2
<1>4. /\ hold' \in [Cores -> Nat] /\ hold'[c] = next_idx
      /\ \A d \in Cores \ {c} : hold'[d] = hold[d]
  BY <1>1, <1>2
<1>5. next_idx' \in Nat /\ next_idx' - 1 = next_idx /\ next_idx' >= 1
  BY <1>1, <1>2
<1>6. /\ overrun \in [Cores -> Nat] /\ overrun' \in [Cores -> Nat]
      /\ \A d \in Cores \ {c} : overrun'[d] = overrun[d]
      /\ overrun'[c] = IF m.at = "retry" /\ slotHere /\ next_idx <= Len(slots)
                       THEN overrun[c] + 1 ELSE overrun[c]
  <2>1. overrun \in [Cores -> Nat]
    BY DEF DInv, DualCoreTypeOK, SharedTypeOK
  <2> QED BY <1>1, <2>1
<1>7. (m \in Locals)' /\ Lists' /\ Budget' /\ BestRefined'
  BY <1>1, MainIdle DEF DInv
<1>8. SharedTypeOK'
  <2>1. Pos' = Pos /\ Msg' = Msg
    BY <1>1, LocalsSame
  <2> QED BY <1>1, <1>3, <1>4, <1>5, <1>6, <2>1 DEF DInv, DualCoreTypeOK, SharedTypeOK
<1>9. Split' /\ Batch'
  BY <1>1, <1>2, <1>5 DEF DInv, Split, Batch
<1>10. Control'
  BY <1>1, <1>2, <1>3 DEF DInv, Control, Cores
<1>11. Claims'
  <2>1. /\ IsFiniteSet(tried) /\ made = Cardinality(tried) /\ \A x \in tried : x.batch \in 0..batch
        /\ \A x, y \in tried : x.batch = y.batch /\ x.i = y.i => x = y
        /\ \A x \in tried : x.batch = batch =>
             x.i \in 0..(next_idx - 1) /\ \A d \in Cores : pc[d] = "decode" => x.i # hold[d]
        /\ \A d \in Cores : pc[d] = "decode" => hold[d] \in 1..(next_idx - 1) /\ hold[d] <= Len(slots)
    BY <1>2 DEF DInv, Claims
  <2>2. ASSUME NEW x \in tried, x.batch = batch
        PROVE  x.i \in 0..next_idx /\ \A d \in Cores : pc'[d] = "decode" => x.i # hold'[d]
    <3>1. x.i \in 0..(next_idx - 1) /\ \A d \in Cores : pc[d] = "decode" => x.i # hold[d]
      BY <2>1, <2>2
    <3>2. x.i \in 0..next_idx /\ x.i # next_idx
      BY <1>2, <3>1
    <3> QED BY <1>3, <1>4, <3>1, <3>2
  <2>3. ASSUME NEW d \in Cores, pc'[d] = "decode"
        PROVE  hold'[d] \in 1..next_idx /\ hold'[d] <= Len(slots) /\ (d # c => hold'[d] # next_idx)
    <3>1. CASE d = c
      BY <1>2, <1>3, <1>4, <2>3, <3>1
    <3>2. CASE d # c
      <4>1. hold[d] \in 1..(next_idx - 1) /\ hold[d] <= Len(slots) /\ hold'[d] = hold[d]
        BY <1>3, <1>4, <2>1, <2>3, <3>2
      <4> QED BY <1>2, <4>1
    <3> QED BY <3>1, <3>2
  <2>4. (\A d \in Cores : pc'[d] = "decode") => hold'["main"] # hold'["worker"]
    BY <1>2, <1>4, <2>3 DEF Cores
  <2>5. tried' = tried /\ made' = made /\ batch' = batch /\ slots' = slots
    BY <1>1
  <2> QED BY <1>5, <2>1, <2>2, <2>3, <2>4, <2>5 DEF Claims
<1>12. Account'
  <2> DEFINE i == next_idx
             n == Len(slots)
  <2>1. Decoding("main") \in {0, 1} /\ Decoding("worker") \in {0, 1}
    BY DEF Decoding
  <2>2. Decoding(c) = 0 /\ Decoding(c)' = (IF i > n THEN 0 ELSE 1)
        /\ \A d \in Cores \ {c} : Decoding(d)' = Decoding(d)
    BY <1>1, <1>3 DEF Decoding
  <2>3. Decoding("main")' + Decoding("worker")' =
          Decoding("main") + Decoding("worker") + (IF i > n THEN 0 ELSE 1)
    <3>1. CASE c = "main"
      <4>1. Decoding("worker")' = Decoding("worker") /\ Decoding("main") = 0
            /\ Decoding("main")' = (IF i > n THEN 0 ELSE 1)
        BY <2>2, <3>1 DEF Cores
      <4> QED BY <2>1, <4>1
    <3>2. CASE c = "worker"
      <4>1. Decoding("main")' = Decoding("main") /\ Decoding("worker") = 0
            /\ Decoding("worker")' = (IF i > n THEN 0 ELSE 1)
        BY <2>2, <3>2 DEF Cores
      <4> QED BY <2>1, <4>1
    <3> QED BY <3>1, <3>2 DEF Cores
  <2>4. n - Least(i, n) = n - Least(i - 1, n) - (IF i > n THEN 0 ELSE 1)
    <3>1. \A x, y \in Nat : y - Least(x, y) = y - Least(x - 1, y) - (IF x > y THEN 0 ELSE 1)
      BY DEF Least
    <3> QED BY <1>2, <3>1
  <2>5. Remaining = n - Least(i - 1, n) + Decoding("main") + Decoding("worker")
    BY <1>2 DEF Remaining
  <2>6. Remaining' = n - Least(i, n) + Decoding("main")' + Decoding("worker")'
    BY <1>1, <1>2, <1>5 DEF Remaining
  <2>7. Least(i, n) \in Int /\ Least(i - 1, n) \in Int /\ n \in Int
    BY <1>2 DEF Least
  <2>8. Decoding("main")' \in {0, 1} /\ Decoding("worker")' \in {0, 1}
    BY DEF Decoding
  <2> HIDE DEF i, n
  <2>9. Remaining' = Remaining
    BY <2>1, <2>3, <2>4, <2>5, <2>6, <2>7, <2>8
  <2>10. Todo' = Todo /\ CutSoFar' = CutSoFar
    BY <1>1, <2>9 DEF Todo, LeftoverLen, LateLen, CutSoFar
  <2> QED BY <1>1, <2>10 DEF DInv, Steady, Account
<1>13. Yield'
  <2>1. /\ \A d \in Cores : overrun[d] <= 1
        /\ m.at = "retry" /\ overrun[c] # 0 => pc[c] # "claim"
        /\ m.at \in {"in_time", "rest"} => \A d \in Cores : overrun[d] = 0
        /\ m.at = "retry" => \A d \in Cores : overrun[d] # 0 => slotHere /\ pc[d] # "claim"
    BY DEF DInv, Steady, Yield
  <2>2. m.at \notin {"coarse", "fine", "partition", "pass2", "retry_pass2"}
    BY <1>2 DEF Stage3
  <2>3. overrun'[c] <= 1 /\ (overrun'[c] # 0 /\ m.at = "retry" => slotHere /\ pc'[c] # "claim")
    <3> DEFINE k == overrun[c]
               k1 == overrun'[c]
    <3>1. k \in Nat /\ k <= 1 /\ (m.at = "retry" => k = 0)
      BY <1>1, <1>6, <2>1
    <3>2. k1 = IF m.at = "retry" /\ slotHere /\ next_idx <= Len(slots) THEN k + 1 ELSE k
      BY <1>6
    <3>3. pc'[c] # "claim"
      BY <1>3
    <3> HIDE DEF k, k1
    <3>4. k1 <= 1 /\ (k1 # 0 /\ m.at = "retry" => slotHere)
      BY <3>1, <3>2
    <3> QED BY <3>3, <3>4 DEF k1
  <2>4. m.at \in {"in_time", "rest"} => overrun'[c] = 0
    BY <1>6, <2>1
  <2>5. \A d \in Cores \ {c} : overrun'[d] = overrun[d] /\ pc'[d] = pc[d]
    BY <1>3, <1>6
  <2> QED BY <1>1, <2>1, <2>2, <2>3, <2>4, <2>5 DEF Yield
<1> QED BY <1>7, <1>8, <1>9, <1>10, <1>11, <1>12, <1>13 DEF DInv, DualCoreTypeOK, Steady

(* The claimed candidate is decoded: an attempt that no core has made.       *)
LEMMA DecodeStep ==
  ASSUME DInv, NEW c \in Cores, Decode(c)
  PROVE  DInv'
<1> DEFINE p == slots[hold[c]]
           x1 == [batch |-> batch, i |-> hold[c], pos |-> p, stage |-> m.at]
<1>1. /\ pc[c] = "decode" /\ pc' = [pc EXCEPT ![c] = "check"]
      /\ \/ out' = [out EXCEPT ![c].results = Append(@, scen.msg[p])]
         \/ out' = [out EXCEPT ![c].failed = Append(@, p)]
      /\ tried' = tried \cup {x1} /\ made' = made + 1
      /\ UNCHANGED <<scen, now, slotHere, m, slots, next_idx, hold, job, busy, reply, batch, owed, overrun>>
  BY DEF Decode, world, queueVars
<1>2. /\ m.waiting /\ m.at \in Stage3 /\ (c = "worker" => reply = None /\ busy # None)
      /\ slots \in Seq(Pos) /\ Len(slots) \in Nat /\ next_idx \in Nat /\ next_idx >= 1
      /\ pc \in [Cores -> {"check", "claim", "decode", "out"}] /\ hold \in [Cores -> Nat]
      /\ "worker" \in Cores /\ "main" \in Cores
  BY <1>1, Draining
<1>3. /\ pc' \in [Cores -> {"check", "claim", "decode", "out"}]
      /\ \A d \in Cores \ {c} : pc'[d] = pc[d]
      /\ pc'[c] = "check"
  BY <1>1, <1>2
<1>4. hold[c] \in 1..(next_idx - 1) /\ hold[c] \in 1..Len(slots) /\ p \in Pos
  <2>1. hold[c] \in 1..(next_idx - 1) /\ hold[c] <= Len(slots)
    BY <1>1 DEF DInv, Claims
  <2>2. hold[c] \in 1..Len(slots)
    BY <1>2, <2>1
  <2> QED BY <1>2, <2>1, <2>2, SeqElement
<1>5. x1.batch = batch /\ x1.i = hold[c]
  OBVIOUS
<1> HIDE DEF x1
<1>6. /\ out' \in [Cores -> [results : Seq(Msg), failed : Seq(Pos)]]
      /\ \A d \in Cores \ {c} : out'[d] = out[d]
  <2>1. out \in [Cores -> [results : Seq(Msg), failed : Seq(Pos)]]
    BY DEF DInv, DualCoreTypeOK, SharedTypeOK
  <2>2. scen.msg[p] \in Msg
    BY <1>4 DEF Msg
  <2> DEFINE g == scen.msg[p]
             o == out[c]
             rs == Append(o.results, g)
             fs == Append(o.failed, p)
  <2>3. o \in [results : Seq(Msg), failed : Seq(Pos)] /\ rs \in Seq(Msg) /\ fs \in Seq(Pos)
    <3>1. o \in [results : Seq(Msg), failed : Seq(Pos)]
      BY <2>1
    <3> HIDE DEF o, g, p
    <3>2. o.results \in Seq(Msg) /\ o.failed \in Seq(Pos)
      BY <3>1
    <3> QED BY <1>4, <2>2, <3>1, <3>2 DEF g
  <2>4. CASE out' = [out EXCEPT ![c].results = Append(@, scen.msg[p])]
    <3>1. out' = [out EXCEPT ![c] = [o EXCEPT !.results = rs]]
      BY <2>1, <2>4
    <3> HIDE DEF o, rs
    <3>2. [o EXCEPT !.results = rs] \in [results : Seq(Msg), failed : Seq(Pos)]
      BY <2>3
    <3> QED BY <2>1, <3>1, <3>2
  <2>5. CASE out' = [out EXCEPT ![c].failed = Append(@, p)]
    <3>1. out' = [out EXCEPT ![c] = [o EXCEPT !.failed = fs]]
      BY <2>1, <2>5
    <3> HIDE DEF o, fs
    <3>2. [o EXCEPT !.failed = fs] \in [results : Seq(Msg), failed : Seq(Pos)]
      BY <2>3
    <3> QED BY <2>1, <3>1, <3>2
  <2> QED BY <1>1, <2>4, <2>5
<1> HIDE DEF p
<1>7. (m \in Locals)' /\ Lists' /\ Budget' /\ BestRefined'
  BY <1>1, MainIdle DEF DInv
<1>8. SharedTypeOK'
  <2>1. Pos' = Pos /\ Msg' = Msg
    BY <1>1, LocalsSame
  <2>2. made' \in Nat
    BY <1>1 DEF DInv, DualCoreTypeOK, SharedTypeOK
  <2> QED BY <1>1, <1>3, <1>6, <2>1, <2>2 DEF DInv, DualCoreTypeOK, SharedTypeOK
<1>9. Split' /\ Batch'
  <2>1. reply # None => out'["worker"] = out["worker"]
    BY <1>2, <1>6
  <2> QED BY <1>1, <1>2, <2>1 DEF DInv, Split, Batch
<1>10. Control'
  BY <1>1, <1>2, <1>3 DEF DInv, Control, Cores
<1>11. Claims'
  <2>1. /\ IsFiniteSet(tried) /\ made = Cardinality(tried) /\ \A x \in tried : x.batch \in 0..batch
        /\ \A x, y \in tried : x.batch = y.batch /\ x.i = y.i => x = y
        /\ \A x \in tried : x.batch = batch =>
             x.i \in 0..(next_idx - 1) /\ \A d \in Cores : pc[d] = "decode" => x.i # hold[d]
        /\ \A d \in Cores : pc[d] = "decode" => hold[d] \in 1..(next_idx - 1) /\ hold[d] <= Len(slots)
        /\ (\A d \in Cores : pc[d] = "decode") => hold["main"] # hold["worker"]
        /\ batch \in Nat
    BY <1>2 DEF DInv, Claims, DualCoreTypeOK, SharedTypeOK
  <2>2. x1 \notin tried
    BY <1>1, <1>5, <2>1
  <2>3. IsFiniteSet(tried') /\ Cardinality(tried') = Cardinality(tried) + 1
    BY <1>1, <2>1, <2>2, FS_AddElement
  <2>4. \A d \in Cores \ {c} : pc[d] = "decode" => hold[d] # hold[c]
    BY <1>1, <2>1 DEF Cores
  <2>5. \A x \in tried' : x.batch \in 0..batch
    BY <1>1, <1>5, <2>1
  <2>6. \A x, y \in tried' : x.batch = y.batch /\ x.i = y.i => x = y
    BY <1>1, <1>5, <2>1
  <2>7. \A x \in tried' : x.batch = batch =>
             x.i \in 0..(next_idx - 1) /\ \A d \in Cores : pc'[d] = "decode" => x.i # hold[d]
    <3>1. hold[c] \in 0..(next_idx - 1)
      BY <1>2, <1>4
    <3> QED BY <1>1, <1>3, <1>5, <2>1, <2>4, <3>1
  <2>8. \A d \in Cores : pc'[d] = "decode" => pc[d] = "decode"
    BY <1>3
  <2>9. ~(\A d \in Cores : pc'[d] = "decode")
    BY <1>3
  <2>10. made' = Cardinality(tried')
    BY <1>1, <2>1, <2>3
  <2>11. batch' = batch /\ next_idx' = next_idx /\ hold' = hold /\ slots' = slots
    BY <1>1
  <2> QED BY <2>1, <2>3, <2>5, <2>6, <2>7, <2>8, <2>9, <2>10, <2>11 DEF Claims
<1>12. Account'
  <2>1. Decoding("main") \in {0, 1} /\ Decoding("worker") \in {0, 1}
    BY DEF Decoding
  <2>2. Decoding(c) = 1 /\ Decoding(c)' = 0 /\ \A d \in Cores \ {c} : Decoding(d)' = Decoding(d)
    BY <1>1, <1>3 DEF Decoding
  <2>3. Decoding("main")' + Decoding("worker")' = Decoding("main") + Decoding("worker") - 1
    <3>1. CASE c = "main"
      <4>1. Decoding("worker")' = Decoding("worker") /\ Decoding("main") = 1 /\ Decoding("main")' = 0
        BY <2>2, <3>1 DEF Cores
      <4> QED BY <2>1, <4>1
    <3>2. CASE c = "worker"
      <4>1. Decoding("main")' = Decoding("main") /\ Decoding("worker") = 1 /\ Decoding("worker")' = 0
        BY <2>2, <3>2 DEF Cores
      <4> QED BY <2>1, <4>1
    <3> QED BY <3>1, <3>2 DEF Cores
  <2> DEFINE u == Len(slots) - Least(next_idx - 1, Len(slots))
  <2>4. u \in Int
    BY <1>2 DEF Least
  <2>5. Remaining = u + Decoding("main") + Decoding("worker")
    BY <1>2 DEF Remaining
  <2>6. Remaining' = u + Decoding("main")' + Decoding("worker")'
    BY <1>1, <1>2 DEF Remaining
  <2>7. Decoding("main")' \in {0, 1} /\ Decoding("worker")' \in {0, 1}
    BY DEF Decoding
  <2> HIDE DEF u
  <2>8. Remaining' = Remaining - 1 /\ Remaining \in Int
    BY <2>1, <2>3, <2>4, <2>5, <2>6, <2>7
  <2>9. LeftoverLen \in Nat /\ CutSoFar \in Nat
    BY DEF LeftoverLen, CutSoFar, DInv, DualCoreTypeOK, Locals
  <2>10. LeftoverLen' = LeftoverLen /\ CutSoFar' = CutSoFar /\ LateLen' = LateLen
    BY <1>1 DEF LeftoverLen, CutSoFar, LateLen
  <2>11. Todo' = Todo - 1 /\ Todo \in Int
    <3>1. CASE m.at = "late"
      <4>1. Todo = LeftoverLen + Remaining /\ Todo' = LeftoverLen + Remaining'
        BY <1>1, <3>1, <2>10 DEF Todo
      <4> QED BY <2>8, <2>9, <4>1
    <3>2. CASE m.at \in {"in_time", "rest", "retry", "tail"}
      <4>1. Todo = Remaining /\ Todo' = Remaining'
        BY <1>1, <3>2 DEF Todo
      <4> QED BY <2>8, <4>1
    <3> QED BY <1>2, <3>1, <3>2 DEF Stage3
  <2>12. made + CutSoFar + Todo = owed /\ made' = made + 1 /\ owed' = owed /\ made \in Nat
    BY <1>1 DEF DInv, Steady, Account, DualCoreTypeOK, SharedTypeOK
  <2> QED BY <2>9, <2>10, <2>11, <2>12 DEF Account
<1>13. Yield'
  BY <1>1, <1>3 DEF DInv, Steady, Yield
<1> QED BY <1>7, <1>8, <1>9, <1>10, <1>11, <1>12, <1>13 DEF DInv, DualCoreTypeOK, Steady

(* Time passes, or the slot arrives.                                         *)
LEMMA WorldStep ==
  ASSUME DInv, Tick \/ SlotArrives
  PROVE  DInv'
<1>1. /\ now' \in 0..2 /\ slotHere' \in BOOLEAN /\ (slotHere => slotHere')
      /\ UNCHANGED <<scen, m, slots, next_idx, pc, hold, out, job, busy, reply,
                     tried, made, batch, owed, overrun>>
  <2>1. now \in 0..2 /\ slotHere \in BOOLEAN
    BY DEF DInv, DualCoreTypeOK, SharedTypeOK
  <2>2. CASE Tick
    BY <2>1, <2>2 DEF Tick, drainVars, queueVars, histVars
  <2>3. CASE SlotArrives
    BY <2>1, <2>3 DEF SlotArrives, drainVars, queueVars, histVars
  <2> QED BY <2>2, <2>3
<1>2. (m \in Locals)' /\ Lists' /\ Budget' /\ BestRefined'
  BY <1>1, MainIdle DEF DInv
<1>3. SharedTypeOK'
  <2>1. Pos' = Pos /\ Msg' = Msg
    BY <1>1, LocalsSame
  <2> QED BY <1>1, <2>1 DEF DInv, DualCoreTypeOK, SharedTypeOK
<1>4. Split'
  <2>1. /\ MainHalf' = MainHalf /\ WorkerHalf' = WorkerHalf /\ m' = m
        /\ \A kind, s, k : Work(kind, s, k)' = Work(kind, s, k)
    BY <1>1, SplitSame
  <2> QED BY <1>1, <2>1 DEF DInv, Split
<1>5. Batch' /\ Control' /\ Claims'
  BY <1>1 DEF DInv, Batch, Control, Claims
<1>6. Account'
  <2>1. Todo' = Todo /\ CutSoFar' = CutSoFar
    BY <1>1 DEF Todo, Remaining, Decoding, LeftoverLen, LateLen, CutSoFar
  <2> QED BY <1>1, <2>1 DEF DInv, Steady, Account
<1>7. Yield'
  BY <1>1 DEF DInv, Steady, Yield
<1> QED BY <1>2, <1>3, <1>4, <1>5, <1>6, <1>7 DEF DInv, DualCoreTypeOK, Steady

(* Nothing runs at the start.                                                *)
LEMMA InitHolds ==
  ASSUME DualCoreInit PROVE DInv
<1>1. scen \in Scenarios /\ PASS1_LIMIT \in Nat /\ MAX_CAND \in Nat
  BY ScenarioAssumption DEF DualCoreInit
<1>2. m \in Locals
  BY <1>1 DEF DualCoreInit, Locals, Stages, Coarse
<1>3. /\ m.at = "coarse" /\ m.waiting = FALSE /\ m.refined = <<>> /\ m.leftover = <<>>
      /\ m.late_retry = <<>> /\ m.n_cut = 0 /\ m.n_early = 0 /\ m.n_late = 0 /\ m.late_budget = 0
      /\ m.pass1 = <<>>
  BY DEF DualCoreInit
<1>4. /\ job = None /\ busy = None /\ reply = None /\ slots = <<>> /\ next_idx = 0
      /\ pc = [c \in Cores |-> "out"] /\ hold = [c \in Cores |-> 0] /\ out = [c \in Cores |-> NoOut]
      /\ tried = {} /\ made = 0 /\ batch = 0 /\ owed = 0 /\ overrun = [c \in Cores |-> 0]
      /\ now = 0 /\ slotHere = FALSE
  BY DEF DualCoreInit
<1>5. SharedTypeOK
  <2>1. None.kind = "none"
    BY DEF None
  <2>2. NoOut \in [results : Seq(Msg), failed : Seq(Pos)]
    BY DEF NoOut
  <2>3. out \in [Cores -> [results : Seq(Msg), failed : Seq(Pos)]]
    BY <1>4, <2>2
  <2>4. /\ pc \in [Cores -> {"check", "claim", "decode", "out"}] /\ hold \in [Cores -> Nat]
        /\ overrun \in [Cores -> Nat] /\ slots \in Seq(Pos)
    BY <1>4
  <2>5. next_idx \in Nat /\ made \in Nat /\ batch \in Nat /\ owed \in Nat /\ now \in 0..2
    BY <1>4
  <2>7. slotHere \in BOOLEAN
    BY <1>4
  <2>6. {job.kind, busy.kind, reply.kind} \subseteq {"none", "coarse", "fine", "pass2", "stage3"}
    BY <1>4, <2>1
  <2> QED BY <1>1, <2>3, <2>4, <2>5, <2>6, <2>7 DEF SharedTypeOK
<1>6. Split /\ Batch /\ Control
  <2>1. ~m.waiting /\ \A c \in Cores : pc[c] = "out"
    BY <1>3, <1>4
  <2>2. "worker" \in Cores
    BY DEF Cores
  <2> QED BY <1>4, <2>1, <2>2 DEF Split, Batch, Control
<1>7. Claims
  <2>1. IsFiniteSet({}) /\ Cardinality({}) = 0
    BY FS_EmptySet
  <2>2. \A c \in Cores : pc[c] # "decode"
    BY <1>4
  <2>3. "main" \in Cores
    BY DEF Cores
  <2> QED BY <1>3, <1>4, <2>1, <2>2, <2>3 DEF Claims
<1>8. Lists
  BY <1>3, <1>4 DEF Lists
<1>9. Account
  <2>1. Todo = 0 /\ CutSoFar = 0
    BY <1>3 DEF Todo, CutSoFar
  <2> QED BY <1>4, <2>1 DEF Account
<1>10. Budget
  BY <1>1, <1>3 DEF Budget
<1>11. Yield
  BY <1>3, <1>4 DEF Yield
<1>12. BestRefined
  BY <1>3 DEF BestRefined
<1> QED BY <1>2, <1>5, <1>6, <1>7, <1>8, <1>9, <1>10, <1>11, <1>12 DEF DInv, DualCoreTypeOK, Steady

(* DInv is inductive: one step per action of DualCoreNext.                   *)
THEOREM DualCoreInvariant == DualCoreSpec => []DInv
<1>1. DualCoreInit => DInv
  BY InitHolds
<1>2. ASSUME DInv, [DualCoreNext]_vars PROVE DInv'
  <2> USE <1>2
  <2>1. CASE UNCHANGED vars
    <3>1. UNCHANGED <<scen, now, slotHere, m, slots, next_idx, pc, hold, out, job, busy, reply,
                      tried, made, batch, owed, overrun>>
      BY <2>1 DEF vars, world, drainVars, queueVars, histVars
    <3>2. (m \in Locals)' /\ Lists' /\ Budget' /\ BestRefined'
      BY <3>1, MainIdle DEF DInv
    <3>3. SharedTypeOK'
      <4>1. Pos' = Pos /\ Msg' = Msg
        BY <3>1, LocalsSame
      <4> QED BY <3>1, <4>1 DEF DInv, DualCoreTypeOK, SharedTypeOK
    <3>4. Split'
      <4>1. /\ MainHalf' = MainHalf /\ WorkerHalf' = WorkerHalf /\ m' = m
            /\ \A kind, s, k : Work(kind, s, k)' = Work(kind, s, k)
        BY <3>1, SplitSame
      <4> QED BY <3>1, <4>1 DEF DInv, Split
    <3>5. Batch' /\ Control' /\ Claims'
      BY <3>1 DEF DInv, Batch, Control, Claims
    <3>6. Account' /\ Yield'
      <4>1. Todo' = Todo /\ CutSoFar' = CutSoFar
        BY <3>1 DEF Todo, Remaining, Decoding, LeftoverLen, LateLen, CutSoFar
      <4> QED BY <3>1, <4>1 DEF DInv, Steady, Account, Yield
    <3> QED BY <3>2, <3>3, <3>4, <3>5, <3>6 DEF DInv, DualCoreTypeOK, Steady
  <2>2. CASE SplitSend BY <2>2, SplitSendStep
  <2>3. CASE Stage3Send BY <2>3, Stage3SendStep
  <2>4. CASE TakeJob BY <2>4, TakeJobStep
  <2>5. CASE Answer BY <2>5, AnswerStep
  <2>6. CASE \E c \in Cores : Drain(c)
    BY <2>6, CheckStopStep, ClaimStep, DecodeStep DEF Drain
  <2>7. CASE Tick \/ SlotArrives BY <2>7, WorldStep
  <2>8. CASE CoarseDone BY <2>8, CoarseDoneStep DEF DInv
  <2>9. CASE FineDone BY <2>9, FineDoneStep DEF DInv
  <2>10. CASE Partition BY <2>10, PartitionStep DEF DInv
  <2>11. CASE Pass2Done BY <2>11, Pass2DoneStep DEF DInv
  <2>12. CASE InTimeDone BY <2>12, InTimeDoneStep DEF DInv
  <2>13. CASE RestDone BY <2>13, RestDoneStep DEF DInv
  <2>14. CASE RetryPass2Done BY <2>14, RetryPass2DoneStep DEF DInv
  <2>15. CASE RetryDone BY <2>15, RetryDoneStep DEF DInv
  <2>16. CASE RecvSlot BY <2>16, RecvSlotStep DEF DInv
  <2>17. CASE LatePass2Done BY <2>17, LatePass2DoneStep DEF DInv
  <2>18. CASE LateDone BY <2>18, LateDoneStep DEF DInv
  <2>19. CASE TailRetry BY <2>19, TailRetryStep DEF DInv
  <2>20. CASE TailPass2Done BY <2>20, TailPass2DoneStep DEF DInv
  <2>21. CASE TailDone BY <2>21, TailDoneStep DEF DInv
  <2>22. CASE NoTail BY <2>22, NoTailStep DEF DInv
  <2>23. "main" \in Cores /\ "worker" \in Cores
    BY DEF Cores
  <2> QED BY <2>1, <2>2, <2>3, <2>4, <2>5, <2>6, <2>7, <2>8, <2>9, <2>10, <2>11, <2>12,
             <2>13, <2>14, <2>15, <2>16, <2>17, <2>18, <2>19, <2>20, <2>21, <2>22, <2>23
             DEF DualCoreNext, MainStep, WorkerStep
<1>3. DInv /\ [DualCoreNext]_vars => DInv'
  BY <1>2
<1> QED BY <1>1, <1>3, PTL DEF DualCoreSpec

(* Main's locals, the shared array, the queues and the two cores' outputs   *)
(* keep their types (dual_core.rs, run_speculative_slot).                   *)
THEOREM DualCoreTypes == DualCoreSpec => []DualCoreTypeOK
<1>1. DInv => DualCoreTypeOK
  BY DEF DInv
<1> QED BY <1>1, DualCoreInvariant, PTL

(* dispatch_* block on the result (dual_core.rs:1160): between stages the   *)
(* worker holds no job, no candidate and no answer, so main's borrowed      *)
(* lists are not in use.                                                    *)
THEOREM WorkerLeftIdle == DualCoreSpec => []WorkerQuiescent
<1>1. DInv => WorkerQuiescent
  BY DEF DInv, Control, WorkerQuiescent
<1> QED BY <1>1, DualCoreInvariant, PTL

(* next_idx.fetch_add in drain_stage3_queue: no candidate of a batch is     *)
(* decoded twice, for any number of candidates and any interleaving of the  *)
(* two cores.                                                               *)
THEOREM ClaimedOnce == DualCoreSpec => []NoDoubleWork
<1>1. DInv => NoDoubleWork
  BY DEF DInv, Claims, NoDoubleWork
<1> QED BY <1>1, DualCoreInvariant, PTL

(* SpeculativeOut's counters: when the slot is done every attempt that was  *)
(* owed was made or is counted in n_cut.                                    *)
THEOREM AttemptsAccounted == DualCoreSpec => []EveryAttemptAccounted
<1>1. ASSUME DInv PROVE EveryAttemptAccounted
  <2> SUFFICES ASSUME m.at = "done" PROVE made + m.n_cut = owed
    BY DEF EveryAttemptAccounted
  <2>1. Todo = 0
    BY DEF Todo
  <2>2. made + CutSoFar + Todo = owed
    BY <1>1 DEF DInv, Steady, Account
  <2>3. made \in Nat /\ CutSoFar \in Nat
    BY <1>1 DEF CutSoFar, DInv, DualCoreTypeOK, SharedTypeOK, Locals
  <2>4. made + CutSoFar = owed
    BY <2>1, <2>2, <2>3
  <2> QED BY <2>4 DEF CutSoFar
<1> QED BY <1>1, DualCoreInvariant, PTL

(* n_early_refined + n_late_refined <= max_cand (dual_core.rs:930), however *)
(* the budget is shared.                                                    *)
THEOREM BudgetKept == DualCoreSpec => []WithinBudget
<1>1. ASSUME DInv PROVE WithinBudget
  <2>1. m.late_budget \in 0..MAX_CAND /\ MAX_CAND \in Nat
    BY <1>1, ScenarioAssumption DEF DInv, DualCoreTypeOK, Locals
  <2>2. m.late_budget >= 0
    BY <2>1
  <2> QED BY <1>1, <2>2 DEF DInv, Steady, Budget, WithinBudget
<1> QED BY <1>1, DualCoreInvariant, PTL

(* pass2_split: two heaps of half the candidates each, merged, sorted and   *)
(* truncated, keep the strongest candidates of all.                         *)
THEOREM TwoHeapsAreOne == DualCoreSpec => []BestRefined
<1>1. DInv => BestRefined
  BY DEF DInv, Steady
<1> QED BY <1>1, DualCoreInvariant, PTL

(* Stage3Stop of the early retries (dual_core.rs:879): once the slot is     *)
(* there each core makes at most one more.                                  *)
THEOREM RetriesGiveWay == DualCoreSpec => []RetriesYield
<1>1. DInv => RetriesYield
  BY DEF DInv, Steady, Yield, RetriesYield
<1> QED BY <1>1, DualCoreInvariant, PTL
==============================================================================
