--------------------------- MODULE ActivatorProofs ---------------------------
(***************************************************************************)
(* Proofs about the CQ-side contact machine (Activator), for any callers and *)
(* strengths, any capacities, times and limits, and any batches of messages. *)
(* First the lists: retain, the best and the weakest of a list, the queue.   *)
(* Then one lemma per method, over records that satisfy the parts of the     *)
(* inductive invariant it needs.                                             *)
(***************************************************************************)
EXTENDS Activator, FiniteSetTheorems, WellFoundedInduction, TLAPS

(* A set of naturals has a least element, if it has one at all.              *)
LEMMA Least ==
  ASSUME NEW T, T \subseteq Nat, T # {}
  PROVE  \E n \in T : \A k \in T : n <= k
<1>1. \E x \in T : \A y \in T : ~(<<y, x>> \in OpToRel(<, Nat))
     BY NatLessThanWellFounded, WFMin
<1>2. PICK x \in T : \A y \in T : ~(<<y, x>> \in OpToRel(<, Nat)) BY <1>1
<1>3. \A y \in T : ~(y < x) BY <1>2 DEF OpToRel
<1> QED BY <1>3

(* Induction over the naturals, for a set: a smallest counterexample would   *)
(* have a predecessor.                                                       *)
LEMMA Induction ==
  ASSUME NEW S, 0 \in S, \A n \in Nat : n \in S => n + 1 \in S
  PROVE  Nat \subseteq S
<1>1. SUFFICES ASSUME Nat \ S # {} PROVE FALSE
     OBVIOUS
<1>2. PICK x \in Nat \ S : \A y \in Nat \ S : x <= y BY <1>1, Least
<1>3. x # 0 OBVIOUS
<1>4. x - 1 \in Nat /\ x - 1 < x /\ (x - 1) + 1 = x BY <1>3
<1>5. x - 1 \in S BY <1>2, <1>4
<1> QED BY <1>4, <1>5

-----------------------------------------------------------------------------
(* retain *)

RetainIs(f, s, I, k) ==
  f = [n \in 0..k |-> IF n = 0 THEN <<>>
                      ELSE IF n \in I THEN Append(f[n - 1], s[n]) ELSE f[n - 1]]

(* The definition has a solution, so retain is one loop over the list.       *)
LEMMA RetainUnfold ==
  ASSUME NEW T, NEW s \in Seq(T), NEW I
  PROVE  \E f : RetainIs(f, s, I, Len(s)) /\ retain(s, I) = f[Len(s)]
<1> DEFINE Has(k) == \E f : RetainIs(f, s, I, k)
           S == {k \in Nat : Has(k)}
<1>1. Has(0)
  <2>1. RetainIs([n \in 0..0 |-> <<>>], s, I, 0) BY DEF RetainIs
  <2> QED BY <2>1
<1>2. ASSUME NEW k \in Nat, Has(k) PROVE Has(k + 1)
  <2>1. PICK f : RetainIs(f, s, I, k) BY <1>2
  <2> DEFINE g == [n \in 0..(k + 1) |-> IF n = k + 1
                    THEN IF n \in I THEN Append(f[k], s[n]) ELSE f[k] ELSE f[n]]
  <2>2. \A n \in 0..k : f[n] = IF n = 0 THEN <<>>
                          ELSE IF n \in I THEN Append(f[n - 1], s[n]) ELSE f[n - 1]
       BY <2>1 DEF RetainIs
  <2>3. \A n \in 0..(k + 1) : g[n] = IF n = 0 THEN <<>>
                          ELSE IF n \in I THEN Append(g[n - 1], s[n]) ELSE g[n - 1]
       BY <2>2
  <2>4. RetainIs(g, s, I, k + 1) BY <2>3 DEF RetainIs
  <2> QED BY <2>4
<1>3. Has(Len(s))
  <2> HIDE DEF Has
  <2>1. 0 \in S /\ \A k \in Nat : k \in S => k + 1 \in S BY <1>1, <1>2
  <2> HIDE DEF S
  <2>2. Nat \subseteq S BY <2>1, Induction
  <2>3. Len(s) \in S BY <2>2
  <2> QED BY <2>3 DEF S
<1> DEFINE f == CHOOSE f : RetainIs(f, s, I, Len(s))
<1>4. RetainIs(f, s, I, Len(s)) BY <1>3
<1>5. retain(s, I) = f[Len(s)] BY DEF retain, RetainIs
<1> QED BY <1>4, <1>5

(* What is retained was there, at kept positions, in the same order.         *)
LEMMA RetainMap ==
  ASSUME NEW T, NEW s \in Seq(T), NEW I
  PROVE  /\ retain(s, I) \in Seq(T) /\ Len(retain(s, I)) <= Len(s)
         /\ \E m \in [1..Len(retain(s, I)) -> 1..Len(s)] :
              /\ \A i \in 1..Len(retain(s, I)) : m[i] \in I /\ retain(s, I)[i] = s[m[i]]
              /\ \A i, j \in 1..Len(retain(s, I)) : m[i] = m[j] => i = j
<1>1. PICK f : RetainIs(f, s, I, Len(s)) /\ retain(s, I) = f[Len(s)] BY RetainUnfold
<1> DEFINE Fits(n, m) ==
             /\ m \in [1..Len(f[n]) -> 1..n]
             /\ \A i \in 1..Len(f[n]) : m[i] \in I /\ f[n][i] = s[m[i]]
             /\ \A i, j \in 1..Len(f[n]) : m[i] = m[j] => i = j
           Good(n) == f[n] \in Seq(T) /\ Len(f[n]) <= n /\ \E m : Fits(n, m)
           S == {n \in Nat : n <= Len(s) => Good(n)}
<1>2. Good(0)
  <2>1. f[0] = <<>> BY <1>1 DEF RetainIs
  <2>2. Len(f[0]) = 0 /\ 1..Len(f[0]) = {} BY <2>1
  <2> DEFINE m == [i \in 1..Len(f[0]) |-> i]
  <2>3. m \in [1..Len(f[0]) -> 1..0] BY <2>2
  <2> HIDE DEF m
  <2>4. Fits(0, m) BY <2>2, <2>3
  <2> HIDE DEF Fits
  <2>5. f[0] \in Seq(T) BY <2>1
  <2> QED BY <2>2, <2>4, <2>5
<1>3. ASSUME NEW n \in Nat, Good(n), n + 1 <= Len(s) PROVE Good(n + 1)
  <2>1. f[n + 1] = IF n + 1 \in I THEN Append(f[n], s[n + 1]) ELSE f[n]
    <3>1. n + 1 \in 0..Len(s) /\ n + 1 # 0 /\ (n + 1) - 1 = n BY <1>3
    <3> QED BY <1>1, <3>1 DEF RetainIs
  <2>2. s[n + 1] \in T BY <1>3
  <2>3. PICK m : Fits(n, m) BY <1>3
  <2>4. f[n] \in Seq(T) /\ Len(f[n]) \in Nat /\ Len(f[n]) <= n BY <1>3
  <2>5. CASE n + 1 \in I
    <3> DEFINE k == Len(f[n])
               w == [i \in 1..(k + 1) |-> IF i = k + 1 THEN n + 1 ELSE m[i]]
    <3>1. /\ f[n + 1] \in Seq(T) /\ Len(f[n + 1]) = k + 1 /\ f[n + 1][k + 1] = s[n + 1]
          /\ \A i \in 1..k : f[n + 1][i] = f[n][i]
         BY <2>1, <2>2, <2>4, <2>5
    <3>2. \A i \in 1..(k + 1) : i = k + 1 \/ i \in 1..k BY <2>4
    <3>3. /\ m \in [1..k -> 1..n] /\ \A i \in 1..k : m[i] \in I /\ f[n][i] = s[m[i]]
          /\ \A i, j \in 1..k : m[i] = m[j] => i = j
         BY <2>3
    <3> HIDE DEF k, Fits
    <3>4. k \in Nat /\ k <= n BY <2>4 DEF k
    <3>5. \A i \in 1..k : m[i] \in 1..n /\ m[i] # n + 1 /\ m[i] \in 1..(n + 1) BY <3>3
    <3>6. /\ w[k + 1] = n + 1 /\ \A i \in 1..k : w[i] = m[i]
          /\ w \in [1..(k + 1) -> 1..(n + 1)]
         BY <3>2, <3>4, <3>5
    <3> HIDE DEF w
    <3>7. \A i \in 1..(k + 1) : w[i] \in I /\ f[n + 1][i] = s[w[i]]
         BY <2>5, <3>1, <3>2, <3>3, <3>6
    <3>8. \A i, j \in 1..(k + 1) : w[i] = w[j] => i = j
         BY <3>2, <3>3, <3>5, <3>6
    <3>9. Fits(n + 1, w) BY <3>1, <3>6, <3>7, <3>8 DEF Fits
    <3>10. Len(f[n + 1]) <= n + 1 BY <3>1, <3>4
    <3> QED BY <3>1, <3>9, <3>10
  <2>6. CASE n + 1 \notin I
    <3>1. f[n + 1] = f[n] BY <2>1, <2>6
    <3>2. ASSUME NEW i \in 1..Len(f[n]) PROVE m[i] \in 1..(n + 1)
      <4>1. m[i] \in 1..n BY <2>3
      <4> QED BY <4>1
    <3>3. Fits(n + 1, m)
      <4>1. m \in [1..Len(f[n]) -> 1..(n + 1)] BY <2>3, <3>2
      <4> QED BY <2>3, <3>1, <4>1
    <3>4. Len(f[n + 1]) <= n + 1 BY <2>4, <3>1
    <3> HIDE DEF Fits
    <3> QED BY <2>4, <3>1, <3>3, <3>4
  <2> QED BY <2>5, <2>6
<1>4. Good(Len(s))
  <2> HIDE DEF Good
  <2>1. 0 \in S BY <1>2
  <2>2. ASSUME NEW n \in Nat, n \in S PROVE n + 1 \in S
    <3>1. CASE n + 1 <= Len(s)
      <4>1. n <= Len(s) BY <3>1
      <4> QED BY <1>3, <2>2, <3>1, <4>1
    <3>2. CASE ~(n + 1 <= Len(s)) BY <3>2
    <3> QED BY <3>1, <3>2
  <2> HIDE DEF S
  <2>3. Nat \subseteq S BY <2>1, <2>2, Induction
  <2>4. Len(s) \in S /\ Len(s) <= Len(s) BY <2>3
  <2> QED BY <2>4 DEF S
<1> QED BY <1>1, <1>4

(* The entries of a list.                                                    *)
Elts(s) == {s[i] : i \in 1..Len(s)}

(* For the properties below: retaining adds nothing and repeats nothing.     *)
Sublist(q, s, I) ==
  /\ Len(q) \in Nat /\ Len(q) <= Len(s)
  /\ \A i \in 1..Len(q) : \E k \in 1..Len(s) : k \in I /\ q[i] = s[k]
  /\ \A i, j \in 1..Len(q) : i # j =>
       \E k, l \in 1..Len(s) : k # l /\ k \in I /\ l \in I /\ q[i] = s[k] /\ q[j] = s[l]

(* Vec::retain as a sublist.                                                 *)
LEMMA Retained ==
  ASSUME NEW T, NEW s \in Seq(T), NEW I
  PROVE  retain(s, I) \in Seq(T) /\ Sublist(retain(s, I), s, I)
<1>1. PICK m \in [1..Len(retain(s, I)) -> 1..Len(s)] :
              /\ \A i \in 1..Len(retain(s, I)) : m[i] \in I /\ retain(s, I)[i] = s[m[i]]
              /\ \A i, j \in 1..Len(retain(s, I)) : m[i] = m[j] => i = j
     BY RetainMap
<1>2. \A i \in 1..Len(retain(s, I)) : m[i] \in 1..Len(s) BY <1>1
<1>3. retain(s, I) \in Seq(T) /\ Len(retain(s, I)) <= Len(s) BY RetainMap
<1>4. Len(retain(s, I)) \in Nat BY <1>3
<1>5. ASSUME NEW i \in 1..Len(retain(s, I)) PROVE \E k \in 1..Len(s) : k \in I /\ retain(s, I)[i] = s[k]
     BY <1>1, <1>2
<1>6. ASSUME NEW i \in 1..Len(retain(s, I)), NEW j \in 1..Len(retain(s, I)), i # j
      PROVE  \E k, l \in 1..Len(s) : k # l /\ k \in I /\ l \in I
                                      /\ retain(s, I)[i] = s[k] /\ retain(s, I)[j] = s[l]
  <2>1. m[i] \in 1..Len(s) /\ m[j] \in 1..Len(s) BY <1>2
  <2>2. m[i] # m[j] /\ m[i] \in I /\ m[j] \in I
        /\ retain(s, I)[i] = s[m[i]] /\ retain(s, I)[j] = s[m[j]] BY <1>1, <1>6
  <2> QED BY <2>1, <2>2
<1> QED BY <1>3, <1>4, <1>5, <1>6 DEF Sublist

-----------------------------------------------------------------------------
(* The best of a list: the last of the greatest of an order.                 *)

WeakOrder(D, R) ==
  /\ \A i, j \in D : <<i, j>> \in R => <<j, i>> \notin R
  /\ \A i, j, k \in D : <<i, k>> \in R => <<i, j>> \in R \/ <<j, k>> \in R
LastBest(D, R, i) == \A j \in D : <<j, i>> \notin R /\ (j > i => <<i, j>> \in R)
Positions(D, n) == D \subseteq 1..n /\ D # {}

(* max_by_key has an answer: a last greatest position.                       *)
LEMMA LastGreatest ==
  ASSUME NEW n \in Nat, NEW D, NEW R, Positions(D, n), WeakOrder(D, R)
  PROVE  \E i \in D : LastBest(D, R, i)
<1> USE DEF WeakOrder, LastBest, Positions
<1> DEFINE Best(m, i) == \A j \in D : j <= m => <<j, i>> \notin R /\ (j > i => <<i, j>> \in R)
           Ok(m) == (\A j \in D : ~(j <= m)) \/ (\E i \in D : i <= m /\ Best(m, i))
           S == {m \in Nat : Ok(m)}
<1>1. Ok(0) OBVIOUS
<1>2. ASSUME NEW m \in Nat, Ok(m) PROVE Ok(m + 1)
  <2>1. \A j \in D : j <= m + 1 => j <= m \/ j = m + 1 OBVIOUS
  <2>2. CASE m + 1 \notin D
    <3>1. \A j \in D : j <= m + 1 => j <= m BY <2>1, <2>2
    <3>2. \A i \in D : i <= m /\ Best(m, i) => i <= m + 1 /\ Best(m + 1, i) BY <3>1
    <3> QED BY <1>2, <3>1, <3>2
  <2>3. CASE m + 1 \in D /\ \A j \in D : ~(j <= m)
    <3>1. \A j \in D : j <= m + 1 => j = m + 1 BY <2>1, <2>3
    <3>2. Best(m + 1, m + 1) BY <3>1, <2>3
    <3> QED BY <2>3, <3>2
  <2>4. CASE m + 1 \in D /\ \E i \in D : i <= m /\ Best(m, i)
    <3>1. PICK i \in D : i <= m /\ Best(m, i) BY <2>4
    <3>2. CASE <<i, m + 1>> \in R
      <4>1. <<m + 1, i>> \notin R BY <2>4, <3>2
      <4>2. Best(m + 1, i) BY <2>1, <3>1, <3>2, <4>1
      <4>3. i <= m + 1 BY <3>1
      <4> QED BY <4>2, <4>3
    <3>3. CASE <<i, m + 1>> \notin R
      <4>1. \A j \in D : j <= m => <<j, m + 1>> \notin R
        <5>1. SUFFICES ASSUME NEW j \in D, j <= m, <<j, m + 1>> \in R PROVE FALSE OBVIOUS
        <5>2. <<j, i>> \notin R BY <3>1, <5>1
        <5> QED BY <2>4, <3>3, <5>1, <5>2
      <4>2. <<m + 1, m + 1>> \notin R BY <2>4
      <4>3. Best(m + 1, m + 1) BY <2>1, <4>1, <4>2
      <4> QED BY <2>4, <4>3
    <3> QED BY <3>2, <3>3
  <2> QED BY <1>2, <2>2, <2>3, <2>4
<1>3. Ok(n)
  <2> HIDE DEF Ok
  <2>1. 0 \in S /\ \A m \in Nat : m \in S => m + 1 \in S BY <1>1, <1>2
  <2> HIDE DEF S
  <2>2. n \in S BY <2>1, Induction
  <2> QED BY <2>2 DEF S
<1>4. \A j \in D : j <= n OBVIOUS
<1> QED BY <1>3, <1>4

(* The pick of a list is one of its messages.                                *)
LEMMA StrongestIsThere ==
  ASSUME NEW s \in Seq(Heard), s # <<>>
  PROVE  \E i \in 1..Len(s) : Strongest(s) = s[i]
<1> DEFINE D == 1..Len(s)
           R == {p \in D \X D : Outranks(s[p[1]], s[p[2]])}
<1>1. D # {} /\ D \subseteq 1..Len(s) /\ Len(s) \in Nat /\ DOMAIN s = D OBVIOUS
<1>2. \A i, j \in D : <<i, j>> \in R <=> Outranks(s[i], s[j]) OBVIOUS
<1>3. \A i \in D : stage[s[i].ex] \in Int /\ Snr[s[i].from] \in Int
  <2>1. SUFFICES ASSUME NEW i \in D PROVE stage[s[i].ex] \in Int /\ Snr[s[i].from] \in Int OBVIOUS
  <2>2. s[i] \in Heard OBVIOUS
  <2>3. s[i].ex \in Exchange /\ s[i].from \in Call BY <2>2 DEF Heard
  <2>4. \A e \in Exchange : stage[e] \in Int BY DEF stage, Exchange
  <2> QED BY <2>3, <2>4, ActivatorAssumption
<1> HIDE DEF R
<1>4. \A i, j \in D : Outranks(s[i], s[j]) => ~Outranks(s[j], s[i])
  <2> DEFINE t(i) == stage[s[i].ex]
             z(i) == Snr[s[i].from]
  <2>1. \A i, j \in D : Outranks(s[i], s[j]) <=> t(i) > t(j) \/ (t(i) = t(j) /\ z(i) > z(j))
       BY DEF Outranks
  <2>2. \A i \in D : t(i) \in Int /\ z(i) \in Int BY <1>3
  <2> HIDE DEF t, z, D
  <2>3. SUFFICES ASSUME NEW i \in D, NEW j \in D, Outranks(s[i], s[j]), Outranks(s[j], s[i])
                 PROVE  FALSE
       OBVIOUS
  <2>4. /\ t(i) > t(j) \/ (t(i) = t(j) /\ z(i) > z(j))
        /\ t(j) > t(i) \/ (t(j) = t(i) /\ z(j) > z(i))
       BY <2>1, <2>3
  <2>5. t(i) \in Int /\ t(j) \in Int /\ z(i) \in Int /\ z(j) \in Int BY <2>2
  <2> QED BY <2>4, <2>5
<1>5. \A i, j, k \in D : Outranks(s[i], s[k]) => Outranks(s[i], s[j]) \/ Outranks(s[j], s[k])
  <2> DEFINE t(i) == stage[s[i].ex]
             z(i) == Snr[s[i].from]
  <2>1. \A i, j \in D : Outranks(s[i], s[j]) <=> t(i) > t(j) \/ (t(i) = t(j) /\ z(i) > z(j))
       BY DEF Outranks
  <2>2. \A i \in D : t(i) \in Int /\ z(i) \in Int BY <1>3
  <2> HIDE DEF t, z, D
  <2>3. SUFFICES ASSUME NEW i \in D, NEW j \in D, NEW k \in D, Outranks(s[i], s[k])
                 PROVE  Outranks(s[i], s[j]) \/ Outranks(s[j], s[k])
       OBVIOUS
  <2>4. /\ t(i) > t(k) \/ (t(i) = t(k) /\ z(i) > z(k))
        /\ Outranks(s[i], s[j]) <=> t(i) > t(j) \/ (t(i) = t(j) /\ z(i) > z(j))
        /\ Outranks(s[j], s[k]) <=> t(j) > t(k) \/ (t(j) = t(k) /\ z(j) > z(k))
       BY <2>1, <2>3
  <2>5. t(i) \in Int /\ t(j) \in Int /\ t(k) \in Int /\ z(i) \in Int /\ z(j) \in Int /\ z(k) \in Int
       BY <2>2
  <2> QED BY <2>4, <2>5
<1>6. PICK b \in D : LastBest(D, R, b)
  <2>1. WeakOrder(D, R) BY <1>2, <1>4, <1>5 DEF WeakOrder
  <2>2. Positions(D, Len(s)) BY <1>1 DEF Positions
  <2> HIDE DEF D
  <2> QED BY <1>1, <2>1, <2>2, LastGreatest
<1> DEFINE Is(i) == \A j \in DOMAIN s : ~Outranks(s[j], s[i]) /\ (j > i => Outranks(s[i], s[j]))
<1>7. Is(b) /\ b \in DOMAIN s BY <1>1, <1>2, <1>6 DEF LastBest
<1>8. Strongest(s) = s[CHOOSE i \in DOMAIN s : Is(i)] BY DEF Strongest
<1> DEFINE w == CHOOSE i \in DOMAIN s : Is(i)
<1> HIDE DEF Is
<1>9. w \in DOMAIN s BY <1>7, Zenon
<1>10. Strongest(s) = s[w] BY <1>8
<1> HIDE DEF w
<1> QED BY <1>1, <1>9, <1>10

(* The partner's best message of a period is one the partner sent.           *)
LEMMA BestIsThere ==
  ASSUME NEW s \in Seq(Heard), NEW c, From(s, c) # {}
  PROVE  \E i \in 1..Len(s) : best_from(s, c) = s[i] /\ s[i].from = c
<1> DEFINE D == From(s, c)
           R == {p \in D \X D : stage[s[p[1]].ex] > stage[s[p[2]].ex]}
           Is(i) == \A j \in D : IF j > i THEN stage[s[j].ex] < stage[s[i].ex]
                                            ELSE stage[s[j].ex] <= stage[s[i].ex]
<1>1. D \subseteq 1..Len(s) /\ Len(s) \in Nat BY DEF From
<1>2. \A i, j \in D : <<i, j>> \in R <=> stage[s[i].ex] > stage[s[j].ex] OBVIOUS
<1>3. \A i \in D : stage[s[i].ex] \in Int
  <2>1. SUFFICES ASSUME NEW i \in D PROVE stage[s[i].ex] \in Int OBVIOUS
  <2>2. s[i] \in Heard BY <1>1
  <2>3. s[i].ex \in Exchange BY <2>2 DEF Heard
  <2>4. \A e \in Exchange : stage[e] \in Int BY DEF stage, Exchange
  <2> QED BY <2>3, <2>4
<1>4. best_from(s, c) = s[CHOOSE i \in D : Is(i)] BY DEF best_from
<1>5. \E i \in D : Is(i)
  <2> DEFINE t(i) == stage[s[i].ex]
  <2>1. \A i, j \in D : <<i, j>> \in R <=> t(i) > t(j) BY <1>2
  <2>2. \A i \in D : t(i) \in Int BY <1>3
  <2>3. \A i : Is(i) <=> \A j \in D : IF j > i THEN t(j) < t(i) ELSE t(j) <= t(i) OBVIOUS
  <2> HIDE DEF t, R, Is
  <2>4. WeakOrder(D, R) BY <2>1, <2>2 DEF WeakOrder
  <2>5. Positions(D, Len(s)) BY <1>1 DEF Positions
  <2> HIDE DEF D
  <2>6. PICK i \in D : LastBest(D, R, i) BY <1>1, <2>4, <2>5, LastGreatest
  <2>9. ASSUME NEW j \in D PROVE IF j > i THEN t(j) < t(i) ELSE t(j) <= t(i)
    <3>1. <<j, i>> \notin R /\ (j > i => <<i, j>> \in R) BY <2>6 DEF LastBest
    <3> QED BY <2>1, <2>2, <3>1
  <2> QED BY <2>3, <2>9
<1> DEFINE w == CHOOSE i \in D : Is(i)
<1> HIDE DEF Is, D
<1>6. w \in D BY <1>5, Zenon
<1>7. best_from(s, c) = s[w] BY <1>4
<1> HIDE DEF w
<1> QED BY <1>1, <1>6, <1>7 DEF From, D

-----------------------------------------------------------------------------
(* The queue of waiting callers. *)

Phases == {"Stopped", "Cq", "Working", "Done"}
Entry == [msg : Heard, age : 0..PENDING_TTL + 1]
Retired == [call : Call, age : 0..RECENT_TTL + 1]
Lost == [call : Call, rcvd : BOOLEAN]

(* One entry per caller, within the capacity; c does not wait.               *)
Waiting(p) ==
  /\ p \in Seq(Entry) /\ Len(p) <= PENDING_MAX
  /\ \A i, j \in 1..Len(p) : p[i].msg.from = p[j].msg.from => i = j
Absent(p, c) == \A i \in 1..Len(p) : p[i].msg.from # c

(* The fields of a waiting caller.                                           *)
LEMMA EntryFields ==
  ASSUME NEW p \in Seq(Entry), NEW i \in 1..Len(p)
  PROVE  /\ p[i] \in Entry /\ p[i].msg \in Heard /\ p[i].msg.from \in Call
         /\ p[i].age \in 0..PENDING_TTL + 1
<1>1. p[i] \in Entry OBVIOUS
<1>2. p[i].msg \in Heard /\ p[i].age \in 0..PENDING_TTL + 1 BY <1>1 DEF Entry
<1> QED BY <1>1, <1>2 DEF Heard

(* A caller is added, replaces its own entry or takes another one's place.   *)
LEMMA QueueKeeps ==
  ASSUME NEW p, Waiting(p), NEW h \in Heard
  PROVE  /\ Waiting(Queue(p, h)) /\ \A c : Absent(p, c) /\ c # h.from => Absent(Queue(p, h), c)
         /\ Elts(Queue(p, h)) \subseteq Elts(p) \cup {[msg |-> h, age |-> 0]}
<1> DEFINE entry == [msg |-> h, age |-> 0]
           own == {i \in DOMAIN p : p[i].msg.from = h.from}
           weakest == CHOOSE i \in DOMAIN p : \A j \in DOMAIN p :
                        IF j < i THEN Outranks(p[j].msg, p[i].msg)
                                 ELSE ~Outranks(p[i].msg, p[j].msg)
           q == Queue(p, h)
<1>1. entry \in Entry /\ entry.msg.from = h.from
  <2>1. 0 \in 0..PENDING_TTL + 1 BY ActivatorAssumption
  <2> QED BY <2>1 DEF Entry
<1>2. /\ p \in Seq(Entry) /\ Len(p) \in Nat /\ DOMAIN p = 1..Len(p) /\ Len(p) <= PENDING_MAX
      /\ \A i, j \in 1..Len(p) : p[i].msg.from = p[j].msg.from => i = j
     BY DEF Waiting
<1>3. q = IF own # {} THEN [i \in DOMAIN p |-> IF i \in own THEN entry ELSE p[i]]
          ELSE IF Len(p) < PENDING_MAX THEN Append(p, entry)
          ELSE IF Outranks(h, p[weakest].msg) THEN [p EXCEPT ![weakest] = entry]
          ELSE p
     BY DEF Queue
<1> HIDE DEF weakest, q, entry
(* In a list of the same length every place holds the old entry, or the new  *)
(* one when no other place has the caller.                                   *)
<1>4. ASSUME NEW r, NEW W \in SUBSET (1..Len(p)),
             r = [i \in 1..Len(p) |-> IF i \in W THEN entry ELSE p[i]],
             \A i, j \in W : i = j, \A i \in 1..Len(p) : i \notin W => p[i].msg.from # h.from
      PROVE  /\ Waiting(r) /\ \A c : Absent(p, c) /\ c # h.from => Absent(r, c)
             /\ Elts(r) \subseteq Elts(p) \cup {entry}
  <2>1. \A i \in 1..Len(p) : r[i] = IF i \in W THEN entry ELSE p[i] BY <1>4
  <2>2. \A i \in 1..Len(p) : r[i] \in Entry BY <1>1, <1>2, <2>1
  <2>3. r \in Seq(Entry) /\ Len(r) = Len(p) BY <1>2, <1>4, <2>2
  <2>4. ASSUME NEW i \in 1..Len(p), NEW j \in 1..Len(p), r[i].msg.from = r[j].msg.from PROVE i = j
    <3>1. CASE i \in W /\ j \in W BY <1>4, <3>1
    <3>2. CASE i \in W /\ j \notin W BY <1>1, <1>4, <2>1, <2>4, <3>2
    <3>3. CASE i \notin W /\ j \in W BY <1>1, <1>4, <2>1, <2>4, <3>3
    <3>4. CASE i \notin W /\ j \notin W BY <1>2, <2>1, <2>4, <3>4
    <3> QED BY <3>1, <3>2, <3>3, <3>4
  <2>5. ASSUME NEW c, Absent(p, c), c # h.from, NEW i \in 1..Len(r) PROVE r[i].msg.from # c
       BY <1>1, <2>1, <2>3, <2>5 DEF Absent
  <2>6. Elts(r) \subseteq Elts(p) \cup {entry} BY <2>1, <2>3 DEF Elts
  <2> QED BY <1>2, <2>3, <2>4, <2>5, <2>6 DEF Waiting, Absent
<1>5. CASE own # {}
  <2>1. q = [i \in 1..Len(p) |-> IF i \in own THEN entry ELSE p[i]] BY <1>2, <1>3, <1>5
  <2>2. own \in SUBSET (1..Len(p)) /\ (\A i, j \in own : i = j)
        /\ \A i \in 1..Len(p) : i \notin own => p[i].msg.from # h.from BY <1>2
  <2> HIDE DEF own
  <2>3. /\ Waiting(q) /\ \A c : Absent(p, c) /\ c # h.from => Absent(q, c)
        /\ Elts(q) \subseteq Elts(p) \cup {entry}
       BY <1>4, <2>1, <2>2
  <2> QED BY <2>3 DEF q, entry
<1>6. CASE own = {} /\ Len(p) < PENDING_MAX
  <2>1. q = Append(p, entry) BY <1>3, <1>6
  <2> DEFINE n == Len(p)
  <2>2. /\ q \in Seq(Entry) /\ Len(q) = n + 1 /\ q[n + 1] = entry
        /\ \A i \in 1..n : q[i] = p[i]
       BY <1>1, <1>2, <2>1
  <2>3. \A i \in 1..n : p[i].msg.from # h.from BY <1>2, <1>6
  <2>4. \A i \in 1..(n + 1) : i = n + 1 \/ i \in 1..n BY <1>2
  <2>5. n + 1 <= PENDING_MAX BY <1>2, <1>6, ActivatorAssumption
  <2>6. \A i, j \in 1..n : p[i].msg.from = p[j].msg.from => i = j BY <1>2
  <2> HIDE DEF n
  <2>7. \A i, j \in 1..(n + 1) : q[i].msg.from = q[j].msg.from => i = j
       BY <1>1, <2>2, <2>3, <2>4, <2>6
  <2>8. Waiting(q) BY <2>2, <2>5, <2>7 DEF Waiting
  <2>9. ASSUME NEW c, \A i \in 1..n : p[i].msg.from # c, c # h.from PROVE Absent(q, c)
    <3>1. \A i \in 1..(n + 1) : q[i].msg.from # c BY <1>1, <2>2, <2>4, <2>9
    <3> QED BY <2>2, <3>1 DEF Absent
  <2>10. Elts(q) \subseteq Elts(p) \cup {entry}
    <3>1. \A i \in 1..(n + 1) : q[i] = entry \/ \E k \in 1..n : q[i] = p[k] BY <2>2, <2>4
    <3> QED BY <2>2, <3>1 DEF Elts, n
  <2> QED BY <2>8, <2>9, <2>10 DEF q, Absent, n, entry
<1>7. CASE own = {} /\ ~(Len(p) < PENDING_MAX) /\ Outranks(h, p[weakest].msg)
  <2> DEFINE W == {i \in 1..Len(p) : i = weakest}
  <2>1. q = [i \in 1..Len(p) |-> IF i \in W THEN entry ELSE p[i]]
    <3>1. q = [p EXCEPT ![weakest] = entry] BY <1>3, <1>7
    <3> QED BY <1>2, <3>1
  <2>2. W \in SUBSET (1..Len(p)) /\ (\A i, j \in W : i = j)
        /\ \A i \in 1..Len(p) : i \notin W => p[i].msg.from # h.from BY <1>2, <1>7
  <2> HIDE DEF W
  <2>3. /\ Waiting(q) /\ \A c : Absent(p, c) /\ c # h.from => Absent(q, c)
        /\ Elts(q) \subseteq Elts(p) \cup {entry}
       BY <1>4, <2>1, <2>2
  <2> QED BY <2>3 DEF q, entry
<1>8. CASE own = {} /\ ~(Len(p) < PENDING_MAX) /\ ~Outranks(h, p[weakest].msg)
  <2>1. q = p BY <1>3, <1>8
  <2> QED BY <2>1 DEF q, entry
<1> QED BY <1>5, <1>6, <1>7, <1>8

QueueIs(f, p, batch, except, k) ==
  f = [n \in 0..k |-> IF n = 0 THEN p
                      ELSE IF batch[n].from = except \/ batch[n].ex = "s73" THEN f[n - 1]
                      ELSE Queue(f[n - 1], batch[n])]

(* What the batch can add to the queue.                                      *)
Fresh(batch, except) == {[msg |-> m, age |-> 0] : m \in {m \in Elts(batch) : m.from # except}}

(* The batch is queued message by message, leaving the partner's out.        *)
LEMMA QueueOthersKeeps ==
  ASSUME NEW a, NEW batch \in Seq(Heard), NEW except, Waiting(a.pending)
  PROVE  \E p : /\ queue_others(a, batch, except) = [a EXCEPT !.pending = p]
                /\ Waiting(p) /\ (Absent(a.pending, except) => Absent(p, except))
                /\ Elts(p) \subseteq Elts(a.pending) \cup Fresh(batch, except)
<1> DEFINE Is(f, k) == QueueIs(f, a.pending, batch, except, k)
           Has(k) == \E f : Is(f, k)
           S == {k \in Nat : Has(k)}
           Q(f, n) == IF n = 0 THEN a.pending
                      ELSE IF batch[n].from = except \/ batch[n].ex = "s73" THEN f[n - 1]
                      ELSE Queue(f[n - 1], batch[n])
<1>1. Has(0)
  <2>1. Is([n \in 0..0 |-> a.pending], 0) BY DEF QueueIs
  <2> QED BY <2>1
<1>2. ASSUME NEW k \in Nat, Has(k) PROVE Has(k + 1)
  <2>1. PICK f : Is(f, k) BY <1>2
  <2> DEFINE g == [n \in 0..(k + 1) |-> IF n = k + 1 THEN Q(f, n) ELSE f[n]]
  <2>2. \A n \in 0..k : f[n] = Q(f, n) BY <2>1 DEF QueueIs
  <2>3. \A n \in 0..(k + 1) : g[n] = Q(g, n)
    <3>1. SUFFICES ASSUME NEW n \in 0..(k + 1) PROVE g[n] = Q(g, n) OBVIOUS
    <3>2. n # 0 => n - 1 \in 0..k /\ n - 1 # k + 1 /\ n - 1 \in 0..(k + 1) OBVIOUS
    <3>3. n # 0 => g[n - 1] = f[n - 1] BY <3>2
    <3>4. n # k + 1 => n \in 0..k OBVIOUS
    <3>5. g[n] = Q(f, n) BY <2>2, <3>4
    <3> HIDE DEF g
    <3> QED BY <3>3, <3>5
  <2>4. g = [n \in 0..(k + 1) |-> Q(g, n)]
    <3>1. DOMAIN g = 0..(k + 1) /\ g = [n \in 0..(k + 1) |-> g[n]] OBVIOUS
    <3> HIDE DEF g, Q
    <3> QED BY <2>3, <3>1
  <2>5. Is(g, k + 1) 
    <3> HIDE DEF g
    <3> QED BY <2>4 DEF QueueIs
  <2> HIDE DEF g, Is
  <2> QED BY <2>5
<1>3. Has(Len(batch))
  <2> HIDE DEF Has
  <2>1. 0 \in S /\ \A k \in Nat : k \in S => k + 1 \in S BY <1>1, <1>2
  <2> HIDE DEF S
  <2>2. Len(batch) \in S BY <2>1, Induction
  <2> QED BY <2>2 DEF S
<1> DEFINE f == CHOOSE f : Is(f, Len(batch))
<1>4. Is(f, Len(batch)) BY <1>3
<1>5. queue_others(a, batch, except) = [a EXCEPT !.pending = f[Len(batch)]]
     BY DEF queue_others, QueueIs
<1>6. \A n \in 0..Len(batch) : f[n] = Q(f, n)
  <2> HIDE DEF f
  <2> QED BY <1>4 DEF QueueIs
<1> HIDE DEF f
<1> DEFINE Ok(n) == /\ Waiting(f[n]) /\ (Absent(a.pending, except) => Absent(f[n], except))
                    /\ Elts(f[n]) \subseteq Elts(a.pending) \cup Fresh(batch, except)
           G == {n \in Nat : n <= Len(batch) => Ok(n)}
<1>7. Ok(0)
  <2>1. f[0] = a.pending BY <1>6
  <2> QED BY <2>1
<1>8. ASSUME NEW n \in Nat, Ok(n), n + 1 <= Len(batch) PROVE Ok(n + 1)
  <2>1. n + 1 \in 0..Len(batch) /\ n + 1 # 0 /\ (n + 1) - 1 = n /\ n + 1 \in 1..Len(batch) BY <1>8
  <2>2. f[n + 1] = IF batch[n + 1].from = except \/ batch[n + 1].ex = "s73" THEN f[n]
                   ELSE Queue(f[n], batch[n + 1])
       BY <1>6, <2>1
  <2>3. batch[n + 1] \in Heard BY <2>1
  <2>4. CASE batch[n + 1].from = except \/ batch[n + 1].ex = "s73" BY <1>8, <2>2, <2>4
  <2>5. CASE ~(batch[n + 1].from = except \/ batch[n + 1].ex = "s73")
    <3>1. f[n + 1] = Queue(f[n], batch[n + 1]) /\ except # batch[n + 1].from BY <2>2, <2>5
    <3>2. Waiting(f[n]) BY <1>8
    <3>3. /\ Waiting(Queue(f[n], batch[n + 1]))
          /\ \A c : Absent(f[n], c) /\ c # batch[n + 1].from => Absent(Queue(f[n], batch[n + 1]), c)
          /\ Elts(Queue(f[n], batch[n + 1])) \subseteq Elts(f[n]) \cup {[msg |-> batch[n + 1], age |-> 0]}
         BY <2>3, <3>2, QueueKeeps
    <3>4. [msg |-> batch[n + 1], age |-> 0] \in Fresh(batch, except) BY <2>1, <3>1 DEF Fresh, Elts
    <3>5. Elts(f[n + 1]) \subseteq Elts(a.pending) \cup Fresh(batch, except) BY <1>8, <3>1, <3>3, <3>4
    <3> QED BY <1>8, <3>1, <3>3, <3>5
  <2> QED BY <2>4, <2>5
<1>9. Ok(Len(batch))
  <2> HIDE DEF Ok
  <2>1. 0 \in G BY <1>7
  <2>2. ASSUME NEW n \in Nat, n \in G PROVE n + 1 \in G
    <3>1. CASE n + 1 <= Len(batch)
      <4>1. n <= Len(batch) BY <3>1
      <4> QED BY <1>8, <2>2, <3>1, <4>1
    <3>2. CASE ~(n + 1 <= Len(batch)) BY <3>2
    <3> QED BY <3>1, <3>2
  <2> HIDE DEF G
  <2>3. Len(batch) \in G /\ Len(batch) <= Len(batch) BY <2>1, <2>2, Induction
  <2> QED BY <2>3 DEF G
<1> QED BY <1>5, <1>9

-----------------------------------------------------------------------------
(* The list of logged partners. *)

Once(r) == \A i, j \in 1..Len(r) : r[i].call = r[j].call => i = j
(* After a decision, and after the passing of time and the expiry.           *)
Ages(r, lo) ==
  /\ \A i \in 1..Len(r) : r[i].age \in lo..RECENT_TTL
  /\ \A i, j \in 1..Len(r) : r[i].age = r[j].age => i = j
(* In between: only entries past their time may have the same age.           *)
Older(r) ==
  /\ \A i \in 1..Len(r) : r[i].age \in 1..RECENT_TTL + 1
  /\ \A i, j \in 1..Len(r) : r[i].age = r[j].age /\ r[i].age <= RECENT_TTL => i = j

(* The fields of a logged partner.                                           *)
LEMMA RetiredFields ==
  ASSUME NEW r \in Seq(Retired), NEW i \in 1..Len(r)
  PROVE  r[i] \in Retired /\ r[i].call \in Call /\ r[i].age \in 0..RECENT_TTL + 1
<1>1. r[i] \in Retired OBVIOUS
<1> QED BY <1>1 DEF Retired

(* Different ages, so not more entries than ages.                            *)
LEMMA FewRetired ==
  ASSUME NEW r \in Seq(Retired), Ages(r, 0)
  PROVE  Len(r) <= RECENT_TTL + 1
<1> DEFINE n == Len(r)
           age == [i \in 1..n |-> r[i].age]
<1>1. n \in Nat /\ RECENT_TTL \in Nat BY ActivatorAssumption
<1>2. /\ \A i \in 1..n : r[i].age \in 0..RECENT_TTL
      /\ \A i, j \in 1..n : r[i].age = r[j].age => i = j
     BY DEF Ages
<1> HIDE DEF n
<1>3. age \in [1..n -> 0..RECENT_TTL] /\ \A i, j \in 1..n : age[i] = age[j] => i = j BY <1>2
<1>4. /\ IsFiniteSet(1..n) /\ Cardinality(1..n) = n
      /\ IsFiniteSet(0..RECENT_TTL) /\ Cardinality(0..RECENT_TTL) = RECENT_TTL + 1
  <2>1. IsFiniteSet(1..n) /\ Cardinality(1..n) = IF 1 > n THEN 0 ELSE n - 1 + 1 BY <1>1, FS_Interval
  <2>2. IsFiniteSet(0..RECENT_TTL)
        /\ Cardinality(0..RECENT_TTL) = IF 0 > RECENT_TTL THEN 0 ELSE RECENT_TTL - 0 + 1
       BY <1>1, FS_Interval
  <2> QED BY <1>1, <2>1, <2>2
<1> HIDE DEF age
<1>5. SUFFICES ASSUME n > RECENT_TTL + 1 PROVE FALSE BY <1>1 DEF n
<1>6. Cardinality(0..RECENT_TTL) < Cardinality(1..n) BY <1>1, <1>4, <1>5
<1>7. \E x, y \in 1..n : x # y /\ age[x] = age[y] BY <1>3, <1>4, <1>6, FS_PigeonHole
<1> QED BY <1>3, <1>7

(* What retain leaves of a list of logged partners.                          *)
LEMMA RetainRetired ==
  ASSUME NEW r \in Seq(Retired), NEW I, Once(r)
  PROVE  /\ retain(r, I) \in Seq(Retired) /\ Once(retain(r, I)) /\ Len(retain(r, I)) <= Len(r)
         /\ \A lo : Ages(r, lo) => Ages(retain(r, I), lo)
         /\ Older(r) /\ (\A i \in I : i \in 1..Len(r) => r[i].age <= RECENT_TTL) => Ages(retain(r, I), 1)
<1> DEFINE q == retain(r, I)
<1>0. q \in Seq(Retired) /\ Sublist(q, r, I) BY Retained
<1> HIDE DEF q
<1>1. /\ q \in Seq(Retired) /\ Len(q) \in Nat /\ Len(q) <= Len(r)
      /\ \A i \in 1..Len(q) : \E k \in 1..Len(r) : k \in I /\ q[i] = r[k]
      /\ \A i, j \in 1..Len(q) : i # j =>
            \E k, l \in 1..Len(r) : k # l /\ k \in I /\ l \in I /\ q[i] = r[k] /\ q[j] = r[l]
     BY <1>0 DEF Sublist
<1>2. Once(q)
  <2>1. ASSUME NEW i \in 1..Len(q), NEW j \in 1..Len(q), q[i].call = q[j].call, i # j PROVE FALSE
    <3>1. PICK k \in 1..Len(r), l \in 1..Len(r) : k # l /\ q[i] = r[k] /\ q[j] = r[l] BY <1>1, <2>1
    <3> QED BY <2>1, <3>1 DEF Once
  <2> QED BY <2>1 DEF Once
<1>3. ASSUME NEW lo, Ages(r, lo) PROVE Ages(q, lo)
  <2>1. ASSUME NEW i \in 1..Len(q) PROVE q[i].age \in lo..RECENT_TTL
    <3>1. PICK k \in 1..Len(r) : q[i] = r[k] BY <1>1
    <3> QED BY <1>3, <3>1 DEF Ages
  <2>2. ASSUME NEW i \in 1..Len(q), NEW j \in 1..Len(q), q[i].age = q[j].age, i # j PROVE FALSE
    <3>1. PICK k \in 1..Len(r), l \in 1..Len(r) : k # l /\ q[i] = r[k] /\ q[j] = r[l] BY <1>1, <2>2
    <3> QED BY <1>3, <2>2, <3>1 DEF Ages
  <2> QED BY <2>1, <2>2 DEF Ages
<1>4. ASSUME Older(r), \A i \in I : i \in 1..Len(r) => r[i].age <= RECENT_TTL PROVE Ages(q, 1)
  <2>1. ASSUME NEW i \in 1..Len(q) PROVE q[i].age \in 1..RECENT_TTL
    <3>1. PICK k \in 1..Len(r) : k \in I /\ q[i] = r[k] BY <1>1
    <3>2. r[k].age \in 1..RECENT_TTL + 1 /\ r[k].age <= RECENT_TTL BY <1>4, <3>1 DEF Older
    <3> DEFINE x == r[k].age
    <3>3. x \in 1..RECENT_TTL + 1 /\ x <= RECENT_TTL /\ RECENT_TTL \in Nat BY <3>2, ActivatorAssumption
    <3> HIDE DEF x
    <3>4. x \in 1..RECENT_TTL BY <3>3
    <3> QED BY <3>1, <3>4 DEF x
  <2>2. ASSUME NEW i \in 1..Len(q), NEW j \in 1..Len(q), q[i].age = q[j].age, i # j PROVE FALSE
    <3>1. PICK k \in 1..Len(r), l \in 1..Len(r) : k # l /\ k \in I /\ q[i] = r[k] /\ q[j] = r[l]
         BY <1>1, <2>2
    <3> QED BY <1>4, <2>2, <3>1 DEF Older
  <2> QED BY <2>1, <2>2 DEF Ages
<1> QED BY <1>1, <1>2, <1>3, <1>4 DEF q

(* A retired partner is entered with age 0: its own entry starts anew, or it *)
(* is put at the end, the oldest entry of a full list making room.           *)
Entered(r, c) ==
  LET entry == [call |-> c, age |-> 0]
      room == IF Len(r) = RECENT_MAX THEN Tail(r) ELSE r
  IN  IF \E i \in DOMAIN r : r[i].call = c
      THEN [i \in DOMAIN r |-> IF r[i].call = c THEN entry ELSE r[i]]
      ELSE Append(room, entry)

(* A contact is entered once, as the youngest.                               *)
LEMMA RetirePartner ==
  ASSUME NEW r \in Seq(Retired), Once(r), Ages(r, 1), NEW c \in Call
  PROVE  /\ Entered(r, c) \in Seq(Retired) /\ Once(Entered(r, c)) /\ Ages(Entered(r, c), 0)
         /\ \E i \in 1..Len(Entered(r, c)) : Entered(r, c)[i].call = c
<1> DEFINE q == Entered(r, c)
           entry == [call |-> c, age |-> 0]
           room == IF Len(r) = RECENT_MAX THEN Tail(r) ELSE r
<1>1. entry \in Retired /\ entry.call = c /\ entry.age = 0 /\ entry.age \in 0..RECENT_TTL
     BY ActivatorAssumption DEF Retired
<1>2. /\ \A i, j \in 1..Len(r) : r[i].call = r[j].call => i = j
      /\ \A i \in 1..Len(r) : r[i] \in Retired /\ r[i].age \in 0..RECENT_TTL /\ r[i].age # 0
      /\ \A i, j \in 1..Len(r) : r[i].age = r[j].age => i = j
  <2>1. ASSUME NEW i \in 1..Len(r) PROVE r[i].age \in 0..RECENT_TTL /\ r[i].age # 0
    <3> DEFINE x == r[i].age
    <3>1. x \in 1..RECENT_TTL /\ RECENT_TTL \in Nat BY ActivatorAssumption DEF Ages
    <3> HIDE DEF x
    <3>2. x \in 0..RECENT_TTL /\ x # 0 BY <3>1
    <3> QED BY <3>2 DEF x
  <2> QED BY <2>1 DEF Ages, Once
<1>3. DOMAIN r = 1..Len(r) /\ Len(r) \in Nat OBVIOUS
<1>0. q = IF \E i \in DOMAIN r : r[i].call = c
          THEN [i \in DOMAIN r |-> IF r[i].call = c THEN entry ELSE r[i]]
          ELSE Append(room, entry)
     BY DEF Entered
<1> HIDE DEF entry, q
<1>4. CASE \E i \in DOMAIN r : r[i].call = c
  <2>1. q = [i \in 1..Len(r) |-> IF r[i].call = c THEN entry ELSE r[i]]
    <3>1. q = [i \in DOMAIN r |-> IF r[i].call = c THEN entry ELSE r[i]] BY <1>0, <1>4
    <3> QED BY <1>3, <3>1
  <2>2. \A i \in 1..Len(r) : q[i] = IF r[i].call = c THEN entry ELSE r[i] BY <2>1
  <2>3. \A i \in 1..Len(r) : r[i] \in Retired BY <1>2
  <2>30. \A i \in 1..Len(r) : q[i] \in Retired BY <1>1, <2>2, <2>3
  <2>31. DOMAIN q = 1..Len(r) /\ q = [i \in 1..Len(r) |-> q[i]] BY <2>1
  <2>4. q \in Seq(Retired) /\ Len(q) = Len(r) BY <1>3, <2>30, <2>31
  <2>5. \A i \in 1..Len(r) : q[i].call = r[i].call BY <1>1, <2>2
  <2>6. Once(q) BY <1>2, <2>4, <2>5 DEF Once
  <2>7. \A i \in 1..Len(r) : q[i].age \in 0..RECENT_TTL BY <1>1, <1>2, <2>2
  <2>8. ASSUME NEW i \in 1..Len(r), NEW j \in 1..Len(r), q[i].age = q[j].age PROVE i = j
       BY <1>1, <1>2, <2>2, <2>8
  <2>9. Ages(q, 0) BY <2>4, <2>7, <2>8 DEF Ages
  <2> QED BY <1>3, <1>4, <2>4, <2>5, <2>6, <2>9 DEF q
<1>5. CASE ~\E i \in DOMAIN r : r[i].call = c
  <2>1. q = Append(room, entry) BY <1>0, <1>5
  <2>2. PICK k \in {0, 1} : /\ room \in Seq(Retired) /\ Len(room) \in Nat
                            /\ \A i \in 1..Len(room) : i + k \in 1..Len(r) /\ room[i] = r[i + k]
    <3>1. CASE Len(r) = RECENT_MAX
      <4>1. r # <<>> BY <3>1, ActivatorAssumption
      <4>2. /\ Tail(r) \in Seq(Retired) /\ Len(Tail(r)) = Len(r) - 1
            /\ \A i \in 1..Len(Tail(r)) : Tail(r)[i] = r[i + 1] BY <4>1
      <4>3. \A i \in 1..(Len(r) - 1) : i + 1 \in 1..Len(r) BY <1>3
      <4>4. room = Tail(r) BY <3>1
      <4> HIDE DEF room
      <4>5. /\ room \in Seq(Retired) /\ Len(room) \in Nat
            /\ \A i \in 1..Len(room) : i + 1 \in 1..Len(r) /\ room[i] = r[i + 1]
           BY <4>2, <4>3, <4>4
      <4> QED BY <4>5
    <3>2. CASE Len(r) # RECENT_MAX
      <4>1. \A i \in 1..Len(r) : i + 0 = i OBVIOUS
      <4>2. room = r BY <3>2
      <4> HIDE DEF room
      <4>3. /\ room \in Seq(Retired) /\ Len(room) \in Nat
            /\ \A i \in 1..Len(room) : i + 0 \in 1..Len(r) /\ room[i] = r[i + 0]
           BY <4>1, <4>2
      <4> QED BY <4>3
    <3> QED BY <3>1, <3>2
  <2> DEFINE n == Len(room)
  <2> HIDE DEF room
  <2>3. /\ q \in Seq(Retired) /\ Len(q) = n + 1 /\ q[n + 1] = entry
        /\ \A i \in 1..n : q[i] = room[i]
    <3>1. room \in Seq(Retired) /\ entry \in Retired BY <1>1, <2>2
    <3> QED BY <2>1, <3>1
  <2>4. n \in Nat /\ (\A i \in 1..(n + 1) : i = n + 1 \/ i \in 1..n) BY <2>2
  <2>5. \A i \in 1..n : i + k \in 1..Len(r) /\ q[i] = r[i + k] BY <2>2, <2>3
  <2> HIDE DEF n
  <2>6. \A i, j \in 1..n : i + k = j + k => i = j BY <2>2, <2>4
  <2>7. \A i \in 1..n : r[i + k].call # c BY <1>3, <1>5, <2>5
  <2>8. ASSUME NEW i \in 1..(n + 1), NEW j \in 1..(n + 1), q[i].call = q[j].call PROVE i = j
    <3>1. CASE i \in 1..n /\ j \in 1..n
      <4>1. i + k \in 1..Len(r) /\ j + k \in 1..Len(r) /\ r[i + k].call = r[j + k].call
           BY <2>5, <2>8, <3>1
      <4>2. i + k = j + k BY <1>2, <4>1
      <4> QED BY <2>6, <3>1, <4>2
    <3>2. CASE i = n + 1 /\ j \in 1..n BY <1>1, <2>3, <2>5, <2>7, <2>8, <3>2
    <3>3. CASE j = n + 1 /\ i \in 1..n BY <1>1, <2>3, <2>5, <2>7, <2>8, <3>3
    <3> QED BY <2>4, <3>1, <3>2, <3>3
  <2>9. ASSUME NEW i \in 1..(n + 1), NEW j \in 1..(n + 1), q[i].age = q[j].age PROVE i = j
    <3>1. CASE i \in 1..n /\ j \in 1..n
      <4>1. i + k \in 1..Len(r) /\ j + k \in 1..Len(r) /\ r[i + k].age = r[j + k].age
           BY <2>5, <2>9, <3>1
      <4>2. i + k = j + k BY <1>2, <4>1
      <4> QED BY <2>6, <3>1, <4>2
    <3>2. CASE i = n + 1 /\ j \in 1..n BY <1>1, <1>2, <2>3, <2>5, <2>9, <3>2
    <3>3. CASE j = n + 1 /\ i \in 1..n BY <1>1, <1>2, <2>3, <2>5, <2>9, <3>3
    <3> QED BY <2>4, <3>1, <3>2, <3>3
  <2>10. \A i \in 1..(n + 1) : q[i].age \in 0..RECENT_TTL BY <1>1, <1>2, <2>3, <2>4, <2>5
  <2>11. n + 1 \in 1..Len(q) /\ q[n + 1].call = c BY <1>1, <2>3, <2>4
  <2>12. Once(q) /\ Ages(q, 0) BY <2>3, <2>8, <2>9, <2>10 DEF Once, Ages
  <2> QED BY <2>3, <2>11, <2>12 DEF q
<1> QED BY <1>4, <1>5

-----------------------------------------------------------------------------
(* The machine. *)

Machine ==
  [phase : Phases, partner : Partner, pending : Seq(Entry), recent : Seq(Retired),
   dropped : Seq(Lost), logged : 0..TARGET + 1, idle : 0..IDLE_STOP + 1, done_age : 0..GRACE + 1]

(* What holds at every point of every method.                                *)
Sound(a) ==
  /\ a \in Machine /\ Waiting(a.pending) /\ Absent(a.pending, a.partner.call)
  /\ Once(a.recent) /\ Len(a.dropped) <= DROPPED_MAX

Under(n) == TARGET > 0 => n < TARGET

(* In the middle of a decision, before a contact is logged.                  *)
Open(a) == Sound(a) /\ Under(a.logged) /\ Ages(a.recent, 1)

(* Between two decisions: the inductive invariant.                           *)
Settled(a) ==
  /\ Sound(a) /\ Len(a.recent) <= RECENT_TTL + 1
  /\ a.phase = "Working" <=> a.partner.call # NoCall
  /\ TARGET > 0 => a.logged <= TARGET
  /\ a.phase \in {"Cq", "Working"} => Under(a.logged) /\ Ages(a.recent, 0)

(* The result of a decision.                                                 *)
Answered(a, tx) == TARGET > 0 /\ a.logged = TARGET => tx = NoTx \/ InRecent(a, tx.to)
Result(r) == r = [a |-> r.a, tx |-> r.tx, logged |-> r.logged]
Outcome(r) == Result(r) /\ Settled(r.a) /\ Answered(r.a, r.tx)

(* The fields of the machine.                                                *)
LEMMA MachineFields ==
  ASSUME NEW a \in Machine
  PROVE  /\ a.phase \in Phases /\ a.partner \in Partner /\ a.pending \in Seq(Entry)
         /\ a.recent \in Seq(Retired) /\ a.dropped \in Seq(Lost) /\ a.logged \in 0..TARGET + 1
         /\ a.idle \in 0..IDLE_STOP + 1 /\ a.done_age \in 0..GRACE + 1
BY DEF Machine

(* The fields of the partner.                                                *)
LEMMA PartnerFields ==
  ASSUME NEW p \in Partner
  PROVE  p.call \in Call \cup {NoCall} /\ p.rcvd \in BOOLEAN /\ p.quiet \in 0..GIVE_UP + 1
BY DEF Partner

(* The empty partner is one.                                                 *)
LEMMA NoPartnerType == NoPartner \in Partner /\ NoPartner.call = NoCall
<1>1. 0 \in 0..GIVE_UP + 1 BY ActivatorAssumption
<1> QED BY <1>1 DEF NoPartner, Partner, Cq

(* Nobody waits under the name NoCall.                                       *)
LEMMA NobodyWaits == ASSUME NEW p, Waiting(p) PROVE Absent(p, NoCall)
<1>1. p \in Seq(Entry) BY DEF Waiting
<1>2. ASSUME NEW i \in 1..Len(p) PROVE p[i].msg.from # NoCall
     BY <1>1, EntryFields, ActivatorAssumption
<1> QED BY <1>2 DEF Absent

(* A capped age keeps its range, and below the cap its order.                *)
LEMMA PlusFacts ==
  ASSUME NEW limit \in Nat, NEW n \in 0..limit + 1, NEW d \in Nat
  PROVE  /\ Plus(n, d, limit) \in 0..limit + 1 /\ Plus(n, d, limit) <= n + d
         /\ d > 0 => Plus(n, d, limit) \in 1..limit + 1
         /\ \A m \in 0..limit + 1 : Plus(n, d, limit) = Plus(m, d, limit)
                                   /\ Plus(n, d, limit) <= limit => n = m
BY DEF Plus

(* What retain leaves of the queue.                                          *)
LEMMA RetainWaiting ==
  ASSUME NEW p, Waiting(p), NEW I
  PROVE  /\ Waiting(retain(p, I)) /\ \A c : Absent(p, c) => Absent(retain(p, I), c)
         /\ \A i \in 1..Len(retain(p, I)) : \E k \in 1..Len(p) : k \in I /\ retain(p, I)[i] = p[k]
<1> DEFINE q == retain(p, I)
<1>1. p \in Seq(Entry) BY DEF Waiting
<1>2. q \in Seq(Entry) /\ Sublist(q, p, I) BY <1>1, Retained
<1> HIDE DEF q
<1>3. Len(q) \in Nat /\ Len(q) <= Len(p) /\ Len(p) \in Nat /\ Len(p) <= PENDING_MAX BY <1>1, <1>2 DEF Sublist, Waiting
<1>4. Len(q) <= PENDING_MAX BY <1>3, ActivatorAssumption
<1>5. ASSUME NEW i \in 1..Len(q), NEW j \in 1..Len(q), q[i].msg.from = q[j].msg.from, i # j PROVE FALSE
  <2>1. PICK k \in 1..Len(p), l \in 1..Len(p) : k # l /\ q[i] = p[k] /\ q[j] = p[l]
       BY <1>2, <1>5 DEF Sublist
  <2> QED BY <1>5, <2>1 DEF Waiting
<1>6. ASSUME NEW c, Absent(p, c), NEW i \in 1..Len(q) PROVE q[i].msg.from # c
  <2>1. PICK k \in 1..Len(p) : q[i] = p[k] BY <1>2 DEF Sublist
  <2> QED BY <1>6, <2>1 DEF Absent
<1>7. \A i \in 1..Len(q) : \E k \in 1..Len(p) : k \in I /\ q[i] = p[k] BY <1>2 DEF Sublist
<1> QED BY <1>2, <1>4, <1>5, <1>6, <1>7 DEF q, Waiting, Absent

(* Time keeps the callers of a list.                                         *)
LEMMA AgedWaiting ==
  ASSUME NEW p, Waiting(p), NEW d \in Nat
  PROVE  Waiting(Aged(p, d, PENDING_TTL)) /\ \A c : Absent(p, c) => Absent(Aged(p, d, PENDING_TTL), c)
<1> DEFINE q == Aged(p, d, PENDING_TTL)
<1>1. p \in Seq(Entry) /\ DOMAIN p = 1..Len(p) /\ Len(p) \in Nat BY DEF Waiting
<1>2. q = [i \in 1..Len(p) |-> [p[i] EXCEPT !.age = Plus(@, d, PENDING_TTL)]] BY <1>1 DEF Aged
<1> HIDE DEF q
<1>3. ASSUME NEW i \in 1..Len(p) PROVE q[i] \in Entry /\ q[i].msg = p[i].msg
  <2>1. p[i] \in Entry /\ p[i].age \in 0..PENDING_TTL + 1 BY <1>1, EntryFields
  <2> DEFINE x == Plus(p[i].age, d, PENDING_TTL)
  <2>2. x \in 0..PENDING_TTL + 1 BY <2>1, PlusFacts, ActivatorAssumption
  <2>3. q[i] = [p[i] EXCEPT !.age = x] BY <1>2
  <2> HIDE DEF x
  <2> QED BY <2>1, <2>2, <2>3 DEF Entry
<1>4. q \in Seq(Entry) /\ Len(q) = Len(p) BY <1>1, <1>2, <1>3
<1> QED BY <1>3, <1>4 DEF q, Waiting, Absent

(* Logged partners, some periods later.                                      *)
LEMMA AgedRetired ==
  ASSUME NEW r \in Seq(Retired), Once(r), NEW d \in Nat, d > 0
  PROVE  /\ Aged(r, d, RECENT_TTL) \in Seq(Retired) /\ Once(Aged(r, d, RECENT_TTL))
         /\ Len(Aged(r, d, RECENT_TTL)) = Len(r)
         /\ \A i \in 1..Len(r) : Aged(r, d, RECENT_TTL)[i].call = r[i].call
         /\ Ages(r, 0) => Older(Aged(r, d, RECENT_TTL))
<1> DEFINE q == Aged(r, d, RECENT_TTL)
<1>1. DOMAIN r = 1..Len(r) /\ Len(r) \in Nat /\ RECENT_TTL \in Nat BY ActivatorAssumption
<1>2. q = [i \in 1..Len(r) |-> [r[i] EXCEPT !.age = Plus(@, d, RECENT_TTL)]] BY <1>1 DEF Aged
<1> HIDE DEF q
<1>3. ASSUME NEW i \in 1..Len(r)
      PROVE  /\ q[i] \in Retired /\ q[i].call = r[i].call
             /\ q[i].age = Plus(r[i].age, d, RECENT_TTL) /\ q[i].age \in 1..RECENT_TTL + 1
  <2>1. r[i] \in Retired /\ r[i].age \in 0..RECENT_TTL + 1 BY RetiredFields
  <2> DEFINE x == Plus(r[i].age, d, RECENT_TTL)
  <2>2. x \in 0..RECENT_TTL + 1 /\ x \in 1..RECENT_TTL + 1 BY <1>1, <2>1, PlusFacts
  <2>3. q[i] = [r[i] EXCEPT !.age = x] BY <1>2
  <2> HIDE DEF x
  <2>4. q[i] \in Retired /\ q[i].call = r[i].call /\ q[i].age = x BY <2>1, <2>2, <2>3 DEF Retired
  <2> QED BY <2>2, <2>4 DEF x
<1>4. q \in Seq(Retired) /\ Len(q) = Len(r)
  <2>1. \A i \in 1..Len(r) : q[i] \in Retired BY <1>3
  <2>2. DOMAIN q = 1..Len(r) /\ q = [i \in 1..Len(r) |-> q[i]] BY <1>2
  <2> QED BY <1>1, <2>1, <2>2
<1>5. Once(q) BY <1>3, <1>4 DEF Once
<1>6. ASSUME Ages(r, 0) PROVE Older(q)
  <2>1. ASSUME NEW i \in 1..Len(r), NEW j \in 1..Len(r), q[i].age = q[j].age, q[i].age <= RECENT_TTL
        PROVE  i = j
    <3>1. r[i].age \in 0..RECENT_TTL + 1 /\ r[j].age \in 0..RECENT_TTL + 1 BY RetiredFields
    <3> DEFINE x == r[i].age
               y == r[j].age
    <3>2. Plus(x, d, RECENT_TTL) = Plus(y, d, RECENT_TTL) /\ Plus(x, d, RECENT_TTL) <= RECENT_TTL
         BY <1>3, <2>1
    <3>3. x \in 0..RECENT_TTL + 1 /\ y \in 0..RECENT_TTL + 1 BY <3>1
    <3> HIDE DEF x, y
    <3>4. x = y BY <1>1, <3>2, <3>3, PlusFacts
    <3> QED BY <1>6, <3>4 DEF Ages, x, y
  <2> QED BY <1>3, <1>4, <2>1 DEF Older
<1> QED BY <1>3, <1>4, <1>5, <1>6 DEF q

-----------------------------------------------------------------------------
(* One lemma per method. *)

LEMMA ElapseKeeps ==
  ASSUME NEW a, Sound(a), NEW d \in Nat, d > 0
  PROVE  LET b == Elapse(a, d)
         IN  /\ Sound(b) /\ b.phase = a.phase /\ b.logged = a.logged
             /\ b.partner.call = a.partner.call
             /\ b.partner.quiet <= a.partner.quiet + d
             /\ Len(b.recent) = Len(a.recent) /\ (Ages(a.recent, 0) => Older(b.recent))
<1> DEFINE b == Elapse(a, d)
           p == IF a.partner = NoPartner THEN a.partner
                ELSE [a.partner EXCEPT !.quiet = Plus(@, d, GIVE_UP)]
           w == Aged(a.pending, d, PENDING_TTL)
           r == Aged(a.recent, d, RECENT_TTL)
           g == IF a.phase = "Done" THEN Plus(a.done_age, d, GRACE) ELSE 0
<1>1. a \in Machine /\ Waiting(a.pending) /\ Absent(a.pending, a.partner.call)
      /\ Once(a.recent) /\ Len(a.dropped) <= DROPPED_MAX BY DEF Sound
<1>2. b = [a EXCEPT !.partner = p, !.pending = w, !.recent = r, !.done_age = g] BY DEF Elapse
<1>3. /\ a.partner \in Partner /\ a.recent \in Seq(Retired) /\ a.done_age \in 0..GRACE + 1
      /\ a.partner.quiet \in 0..GIVE_UP + 1
     BY <1>1, MachineFields, PartnerFields
<1>4. GIVE_UP \in Nat /\ GRACE \in Nat BY ActivatorAssumption
<1>5. p \in Partner /\ p.call = a.partner.call /\ p.quiet <= a.partner.quiet + d
  <2> DEFINE x == a.partner.quiet
             y == Plus(x, d, GIVE_UP)
  <2>1. x \in 0..GIVE_UP + 1 BY <1>3
  <2> HIDE DEF x
  <2>2. y \in 0..GIVE_UP + 1 /\ y <= x + d /\ x <= x + d BY <1>4, <2>1, PlusFacts
  <2> HIDE DEF y
  <2>3. p = IF a.partner = NoPartner THEN a.partner ELSE [a.partner EXCEPT !.quiet = y] BY DEF x, y
  <2> HIDE DEF p
  <2>4. p \in Partner /\ p.call = a.partner.call /\ (p.quiet = x \/ p.quiet = y)
       BY <1>3, <2>2, <2>3 DEF Partner, x
  <2> QED BY <2>2, <2>4 DEF x
<1>6. g \in 0..GRACE + 1
  <2> DEFINE x == a.done_age
             y == Plus(x, d, GRACE)
  <2>1. x \in 0..GRACE + 1 BY <1>3
  <2> HIDE DEF x
  <2>2. y \in 0..GRACE + 1 /\ 0 \in 0..GRACE + 1 BY <1>4, <2>1, PlusFacts
  <2> HIDE DEF y
  <2>3. g = y \/ g = 0 BY DEF x, y
  <2> QED BY <2>2, <2>3
<1>7. Waiting(w) /\ Absent(w, a.partner.call) BY <1>1, AgedWaiting
<1>8. r \in Seq(Retired) /\ Once(r) /\ Len(r) = Len(a.recent) /\ (Ages(a.recent, 0) => Older(r))
     BY <1>1, <1>3, AgedRetired
<1>9. w \in Seq(Entry) BY <1>7 DEF Waiting
<1> HIDE DEF p, w, r, g, b
<1>10. /\ b \in Machine /\ b.partner = p /\ b.pending = w /\ b.recent = r /\ b.phase = a.phase
       /\ b.logged = a.logged /\ b.dropped = a.dropped
      BY <1>1, <1>2, <1>5, <1>6, <1>8, <1>9 DEF Machine
<1>11. Sound(b) BY <1>1, <1>5, <1>7, <1>8, <1>10 DEF Sound
<1> QED BY <1>5, <1>8, <1>10, <1>11 DEF b

(* After the expiry a decision may log.                                      *)
LEMMA ExpireOpens ==
  ASSUME NEW a, Sound(a), Older(a.recent), Under(a.logged)
  PROVE  Open(Expire(a)) /\ Expire(a).partner = a.partner /\ Expire(a).phase = a.phase
<1> DEFINE b == Expire(a)
           w == retain(a.pending, {i \in DOMAIN a.pending : a.pending[i].age <= PENDING_TTL})
           I == {i \in DOMAIN a.recent : a.recent[i].age <= RECENT_TTL}
           r == retain(a.recent, I)
<1>1. a \in Machine /\ Waiting(a.pending) /\ Absent(a.pending, a.partner.call)
      /\ Once(a.recent) /\ Len(a.dropped) <= DROPPED_MAX BY DEF Sound
<1>2. a.recent \in Seq(Retired) BY <1>1, MachineFields
<1>3. b = [a EXCEPT !.pending = w, !.recent = r] BY DEF Expire
<1>4. Waiting(w) /\ Absent(w, a.partner.call) BY <1>1, RetainWaiting
<1>5. \A i \in I : i \in 1..Len(a.recent) => a.recent[i].age <= RECENT_TTL OBVIOUS
<1>6. r \in Seq(Retired) /\ Once(r) /\ Ages(r, 1)
  <2> HIDE DEF I
  <2> QED BY <1>1, <1>2, <1>5, RetainRetired
<1>7. w \in Seq(Entry) BY <1>4 DEF Waiting
<1> HIDE DEF w, r, b
<1>8. /\ b \in Machine /\ b.partner = a.partner /\ b.pending = w /\ b.recent = r /\ b.phase = a.phase
      /\ b.logged = a.logged /\ b.dropped = a.dropped
     BY <1>1, <1>3, <1>6, <1>7 DEF Machine
<1> QED BY <1>1, <1>4, <1>6, <1>8 DEF b, Sound, Open

(* The sender becomes the partner.                                           *)
LEMMA AdoptKeeps ==
  ASSUME NEW a, Open(a), NEW c \in Call, Absent(a.pending, c)
  PROVE  LET b == Adopt(a, c)
         IN  /\ Open(b) /\ b.partner.call = c /\ b.pending = a.pending /\ b.recent = a.recent
             /\ b.logged = a.logged
<1> DEFINE b == Adopt(a, c)
           back == {i \in DOMAIN a.dropped : a.dropped[i].call = c}
           i == CHOOSE i \in back : \A j \in back : i <= j
           known == back # {} /\ a.dropped[i].rcvd
           p == [NoPartner EXCEPT !.call = c, !.rcvd = known]
           q == retain(a.dropped, DOMAIN a.dropped \ {i})
           e == IF back = {} THEN a.dropped ELSE q
<1>1. a \in Machine /\ Waiting(a.pending)
      /\ Once(a.recent) /\ Len(a.dropped) <= DROPPED_MAX /\ Under(a.logged) /\ Ages(a.recent, 1)
     BY DEF Open, Sound
<1>2. a.dropped \in Seq(Lost) /\ a.partner \in Partner BY <1>1, MachineFields
<1>3. b = IF a.partner.call = c THEN [a EXCEPT !.partner.quiet = 0]
          ELSE [a EXCEPT !.partner = p, !.dropped = e]
     BY DEF Adopt
<1>4. 0 \in 0..GIVE_UP + 1 BY ActivatorAssumption
<1>5. known \in BOOLEAN
  <2>1. CASE back = {} BY <2>1
  <2>2. CASE back # {}
    <3>1. back \subseteq Nat BY <1>2
    <3> HIDE DEF back
    <3>2. \E x \in back : \A j \in back : x <= j BY <2>2, <3>1, Least
    <3>3. i \in back BY <3>2, Zenon
    <3> HIDE DEF i
    <3>4. a.dropped[i] \in Lost BY <1>2, <3>3 DEF back
    <3>5. a.dropped[i].rcvd \in BOOLEAN BY <3>4 DEF Lost
    <3> QED BY <3>5, Zenon
  <2> QED BY <2>1, <2>2
<1>6. q \in Seq(Lost) /\ Len(q) \in Nat /\ Len(q) <= Len(a.dropped)
  <2>1. q \in Seq(Lost) /\ Sublist(q, a.dropped, DOMAIN a.dropped \ {i})
    <3> HIDE DEF i
    <3> QED BY <1>2, Retained
  <2> HIDE DEF q, i
  <2> QED BY <2>1 DEF Sublist
<1> HIDE DEF q, back, i, known
<1>7. e \in Seq(Lost) /\ Len(e) <= DROPPED_MAX
  <2>1. Len(a.dropped) \in Nat BY <1>2
  <2>2. Len(q) <= DROPPED_MAX BY <1>1, <1>6, <2>1, ActivatorAssumption
  <2> QED BY <1>1, <1>2, <1>6, <2>2
<1>8. p \in Partner /\ p.call = c BY <1>4, <1>5 DEF NoPartner, Partner, Cq
<1> HIDE DEF p, e, b
<1>9. CASE a.partner.call = c
  <2> DEFINE o == [a.partner EXCEPT !.quiet = 0]
  <2>1. o \in Partner /\ o.call = c BY <1>2, <1>4, <1>9 DEF Partner
  <2>2. b = [a EXCEPT !.partner = o] BY <1>3, <1>9
  <2> HIDE DEF o
  <2>3. /\ b \in Machine /\ b.partner = o /\ b.pending = a.pending /\ b.recent = a.recent
        /\ b.logged = a.logged /\ b.dropped = a.dropped
       BY <1>1, <2>1, <2>2 DEF Machine
  <2> QED BY <1>1, <2>1, <2>3 DEF b, Open, Sound
<1>10. CASE a.partner.call # c
  <2>2. b = [a EXCEPT !.partner = p, !.dropped = e] BY <1>3, <1>10
  <2>3. /\ b \in Machine /\ b.partner = p /\ b.pending = a.pending /\ b.recent = a.recent
        /\ b.logged = a.logged /\ b.dropped = e
       BY <1>1, <1>7, <1>8, <2>2 DEF Machine
  <2> QED BY <1>1, <1>7, <1>8, <2>3 DEF b, Open, Sound
<1> QED BY <1>9, <1>10

(* Activator::finish leaves the machine settled.                             *)
LEMMA FinishSettles ==
  ASSUME NEW a, Open(a), a.partner.call \in Call
  PROVE  LET b == finish(a)
         IN  /\ Settled(b) /\ b.partner.call = NoCall /\ b.pending = a.pending
             /\ InRecent(b, a.partner.call)
<1> DEFINE c == a.partner.call
           b == finish(a)
           q == Entered(a.recent, c)
           n == IF InRecent(a, c) THEN a.logged ELSE Plus(a.logged, 1, TARGET)
           f == IF TARGET > 0 /\ n >= TARGET THEN "Done" ELSE "Cq"
<1>1. a \in Machine /\ Waiting(a.pending)
      /\ Once(a.recent) /\ Len(a.dropped) <= DROPPED_MAX /\ Under(a.logged) /\ Ages(a.recent, 1)
     BY DEF Open, Sound
<1>2. a.recent \in Seq(Retired) /\ a.logged \in 0..TARGET + 1 BY <1>1, MachineFields
<1>3. b = [a EXCEPT !.partner = NoPartner, !.recent = q, !.logged = n, !.phase = f, !.done_age = 0]
     BY DEF finish, Entered, InRecent
<1>4. /\ q \in Seq(Retired) /\ Once(q) /\ Ages(q, 0) /\ \E i \in 1..Len(q) : q[i].call = c
     BY <1>1, <1>2, RetirePartner
<1>5. Len(q) <= RECENT_TTL + 1 BY <1>4, FewRetired
<1>6. /\ n \in 0..TARGET + 1 /\ (TARGET > 0 => n <= TARGET) /\ (f = "Cq" => Under(n))
      /\ f \in {"Done", "Cq"}
  <2> DEFINE m == a.logged
             k == Plus(m, 1, TARGET)
  <2>1. m \in 0..TARGET + 1 /\ (TARGET > 0 => m < TARGET) /\ TARGET \in Nat
       BY <1>1, <1>2, ActivatorAssumption DEF Under
  <2>2. n = m \/ n = k OBVIOUS
  <2> HIDE DEF m
  <2>3. k \in 0..TARGET + 1 /\ k <= m + 1 BY <2>1, PlusFacts
  <2> HIDE DEF k, n
  <2>4. n \in 0..TARGET + 1 /\ (TARGET > 0 => n <= TARGET) BY <2>1, <2>2, <2>3
  <2>5. (f = "Cq" => Under(n)) /\ f \in {"Done", "Cq"} BY <2>1, <2>4 DEF Under
  <2> QED BY <2>4, <2>5
<1>7. 0 \in 0..GRACE + 1 BY ActivatorAssumption
<1>8. DOMAIN q = 1..Len(q) BY <1>4
<1> HIDE DEF q, n, f, b
<1>9. /\ b \in Machine /\ b.partner = NoPartner /\ b.pending = a.pending /\ b.recent = q
      /\ b.logged = n /\ b.phase = f /\ b.dropped = a.dropped
     BY <1>1, <1>3, <1>4, <1>6, <1>7, NoPartnerType DEF Machine, Phases
<1>10. Sound(b) BY <1>1, <1>4, <1>9, NoPartnerType, NobodyWaits DEF Sound
<1>11. Settled(b) BY <1>4, <1>5, <1>6, <1>9, <1>10, NoPartnerType DEF Settled
<1>12. InRecent(b, c) BY <1>4, <1>8, <1>9 DEF InRecent
<1> QED BY <1>9, <1>11, <1>12, NoPartnerType DEF b

(* Ages from one are ages from zero.                                         *)
LEMMA YoungerAges == ASSUME NEW r, Ages(r, 1) PROVE Ages(r, 0)
<1>1. \A i \in 1..Len(r) : r[i].age \in 0..RECENT_TTL
  <2>1. SUFFICES ASSUME NEW i \in 1..Len(r) PROVE r[i].age \in 0..RECENT_TTL OBVIOUS
  <2> DEFINE x == r[i].age
  <2>2. x \in 1..RECENT_TTL BY DEF Ages
  <2> HIDE DEF x
  <2>3. x \in 0..RECENT_TTL BY <2>2, ActivatorAssumption
  <2> QED BY <2>3 DEF x
<1> QED BY <1>1 DEF Ages

(* The reply to a caller who is the partner, or becomes it: 73 ends the      *)
(* contact unlogged, RR73 and 73 log it, anything else keeps it going.       *)
LEMMA ReplyKeeps ==
  ASSUME NEW a, Open(a), NEW h \in Heard, Absent(a.pending, h.from)
  PROVE  LET r == reply(a, h)
         IN  /\ Result(r) /\ r.a.pending = a.pending
             /\ h.ex = "s73" => r.tx = NoTx /\ Open(r.a) /\ r.a.partner.call = NoCall
             /\ h.ex # "s73" => r.tx # NoTx /\ Outcome(r) /\ r.a.partner.call \in {NoCall, h.from}
             /\ h.ex \in {"grid", "report"} => r.a.partner.call = h.from
<1> DEFINE r == reply(a, h)
           b == Adopt(a, h.from)
           tx == std_msg(h.from, Answer[h.ex])
           p == [b.partner EXCEPT !.rcvd = @ \/ h.ex \in {"report", "rreport"}, !.last_tx = tx]
           fa == [Forget(b, h.from) EXCEPT !.partner = p, !.phase = "Working"]
           ga == [b EXCEPT !.partner = p]
           ra == [b EXCEPT !.partner = NoPartner]
           rec == IF InRecent(b, h.from) THEN NoRecord ELSE [call |-> h.from, rcvd |-> p.rcvd]
<1>1. h.from \in Call /\ h.ex \in Exchange BY DEF Heard
<1>2. Open(b) /\ b.partner.call = h.from /\ b.pending = a.pending /\ b.recent = a.recent
      /\ b.logged = a.logged BY <1>1, AdoptKeeps
<1>3. b \in Machine /\ Waiting(b.pending) /\ Absent(b.pending, h.from) /\ Once(b.recent)
      /\ Len(b.dropped) <= DROPPED_MAX /\ Under(b.logged) /\ Ages(b.recent, 1)
     BY <1>2 DEF Open, Sound
<1>4. r = IF h.ex = "s73" THEN [a |-> ra, tx |-> NoTx, logged |-> NoRecord]
          ELSE IF h.ex \in {"grid", "report"} THEN [a |-> fa, tx |-> tx, logged |-> NoRecord]
          ELSE [a |-> finish(ga), tx |-> tx, logged |-> rec]
     BY DEF reply
<1>5. b.partner \in Partner /\ b.recent \in Seq(Retired) BY <1>3, MachineFields
<1>6. tx # NoTx /\ tx.to = h.from BY <1>1, ActivatorAssumption DEF std_msg, NoTx
<1>7. h.ex # "s73" => p \in Partner /\ p.call = h.from
  <2>1. HAVE h.ex # "s73"
  <2>2. Answer[h.ex] \in {"report", "rreport", "rr73", "73"} BY <1>1, <2>1 DEF Answer, Exchange
  <2>3. tx \in [to : Call \cup {NoCall}, text : {"cq", "report", "rreport", "rr73", "73"}]
       BY <1>1, <2>2 DEF std_msg
  <2> DEFINE k == b.partner.rcvd \/ h.ex \in {"report", "rreport"}
  <2>4. k \in BOOLEAN BY Zenon
  <2>5. p = [b.partner EXCEPT !.rcvd = k, !.last_tx = tx] OBVIOUS
  <2> HIDE DEF b, tx, k, p
  <2> QED BY <1>2, <1>5, <2>3, <2>4, <2>5 DEF Partner
<1> HIDE DEF p, tx, b, r
<1>8. CASE h.ex = "s73"
  <2>1. r = [a |-> ra, tx |-> NoTx, logged |-> NoRecord] BY <1>4, <1>8
  <2>2. /\ ra \in Machine /\ ra.partner = NoPartner /\ ra.pending = b.pending /\ ra.recent = b.recent
        /\ ra.logged = b.logged /\ ra.dropped = b.dropped
       BY <1>3, NoPartnerType DEF Machine
  <2> HIDE DEF ra
  <2>3. Open(ra) BY <1>3, <2>2, NoPartnerType, NobodyWaits DEF Open, Sound
  <2>4. r.a = ra /\ r.tx = NoTx /\ Result(r) BY <2>1 DEF Result
  <2> QED BY <1>2, <1>8, <2>2, <2>3, <2>4, NoPartnerType DEF r
<1>9. CASE h.ex # "s73" /\ h.ex \in {"grid", "report"}
  <2> DEFINE I == {i \in DOMAIN b.recent : b.recent[i].call # h.from}
             q == retain(b.recent, I)
  <2>1. r = [a |-> fa, tx |-> tx, logged |-> NoRecord] BY <1>4, <1>9
  <2>2. q \in Seq(Retired) /\ Once(q) /\ Ages(q, 1) BY <1>3, <1>5, RetainRetired
  <2>3. Forget(b, h.from) = [b EXCEPT !.recent = q] BY DEF Forget
  <2> HIDE DEF q
  <2>4. /\ fa \in Machine /\ fa.partner = p /\ fa.pending = b.pending /\ fa.recent = q
        /\ fa.logged = b.logged /\ fa.dropped = b.dropped /\ fa.phase = "Working"
       BY <1>3, <1>7, <1>9, <2>2, <2>3 DEF Machine, Phases
  <2> HIDE DEF fa
  <2>5. Ages(q, 0) /\ Len(q) <= RECENT_TTL + 1 BY <2>2, YoungerAges, FewRetired
  <2>6. Sound(fa) BY <1>3, <1>7, <1>9, <2>2, <2>4 DEF Sound
  <2>7. /\ TARGET > 0 => fa.logged <= TARGET
        /\ ~(TARGET > 0 /\ fa.logged = TARGET)
    <3> DEFINE m == fa.logged
    <3>1. m \in 0..TARGET + 1 /\ (TARGET > 0 => m < TARGET) /\ TARGET \in Nat
         BY <1>3, <2>4, MachineFields, ActivatorAssumption DEF Under
    <3> HIDE DEF m
    <3>2. (TARGET > 0 => m <= TARGET) /\ ~(TARGET > 0 /\ m = TARGET) BY <3>1
    <3> QED BY <3>2 DEF m
  <2>8. p.call # NoCall BY <1>1, <1>7, <1>9, ActivatorAssumption
  <2>9. Settled(fa) BY <1>3, <2>4, <2>5, <2>6, <2>7, <2>8 DEF Settled
  <2>10. Answered(fa, tx) BY <2>7 DEF Answered
  <2>11. r.a = fa /\ r.tx = tx /\ Result(r) BY <2>1 DEF Result
  <2>12. Outcome(r) BY <2>9, <2>10, <2>11 DEF Outcome
  <2> QED BY <1>2, <1>6, <1>7, <1>9, <2>4, <2>11, <2>12 DEF r
<1>10. CASE h.ex # "s73" /\ h.ex \notin {"grid", "report"}
  <2>1. r = [a |-> finish(ga), tx |-> tx, logged |-> rec] BY <1>4, <1>10
  <2>2. /\ ga \in Machine /\ ga.partner = p /\ ga.pending = b.pending /\ ga.recent = b.recent
        /\ ga.logged = b.logged /\ ga.dropped = b.dropped
       BY <1>3, <1>7, <1>10 DEF Machine
  <2> HIDE DEF ga, rec
  <2>3. Open(ga) /\ ga.partner.call = h.from BY <1>3, <1>7, <1>10, <2>2 DEF Open, Sound
  <2>4. /\ Settled(finish(ga)) /\ finish(ga).partner.call = NoCall /\ finish(ga).pending = ga.pending
        /\ InRecent(finish(ga), h.from)
       BY <1>1, <2>3, FinishSettles
  <2>5. r.a = finish(ga) /\ r.tx = tx /\ Result(r) BY <2>1 DEF Result
  <2>6. Outcome(r) BY <1>6, <2>4, <2>5 DEF Outcome, Answered
  <2> QED BY <1>2, <1>6, <1>10, <2>2, <2>4, <2>5, <2>6 DEF r
<1> QED BY <1>8, <1>9, <1>10

(* CQ leaves the machine settled.                                            *)
LEMMA CqKeeps ==
  ASSUME NEW a, Open(a), a.partner.call = NoCall
  PROVE  Outcome(cq(a)) /\ cq(a).a.partner.call = NoCall
<1> DEFINE r == cq(a)
           n == Plus(a.idle, 1, IDLE_STOP)
           stop == IDLE_STOP > 0 /\ n > IDLE_STOP
           f == IF stop THEN "Stopped" ELSE "Cq"
           tx == IF stop THEN NoTx ELSE Cq
           b == [a EXCEPT !.idle = n, !.phase = f]
<1>1. r = [a |-> b, tx |-> tx, logged |-> NoRecord] BY DEF cq
<1>2. a \in Machine /\ Waiting(a.pending) /\ Absent(a.pending, a.partner.call) /\ Once(a.recent)
      /\ Len(a.dropped) <= DROPPED_MAX /\ Under(a.logged) /\ Ages(a.recent, 1)
     BY DEF Open, Sound
<1>3. n \in 0..IDLE_STOP + 1
  <2> DEFINE m == a.idle
  <2>1. m \in 0..IDLE_STOP + 1 /\ IDLE_STOP \in Nat BY <1>2, MachineFields, ActivatorAssumption
  <2>2. n = Plus(m, 1, IDLE_STOP) OBVIOUS
  <2> HIDE DEF m, n
  <2> QED BY <2>1, <2>2, PlusFacts
<1>4. f \in {"Stopped", "Cq"} OBVIOUS
<1> HIDE DEF n, f, tx, r
<1>5. /\ b \in Machine /\ b.partner = a.partner /\ b.pending = a.pending /\ b.recent = a.recent
      /\ b.logged = a.logged /\ b.dropped = a.dropped /\ b.phase = f
     BY <1>2, <1>3, <1>4 DEF Machine, Phases
<1> HIDE DEF b
<1>6. a.recent \in Seq(Retired) /\ a.logged \in 0..TARGET + 1 BY <1>2, MachineFields
<1>7. Ages(a.recent, 0) /\ Len(a.recent) <= RECENT_TTL + 1 BY <1>2, <1>6, YoungerAges, FewRetired
<1>8. /\ TARGET > 0 => a.logged <= TARGET
      /\ ~(TARGET > 0 /\ a.logged = TARGET)
  <2> DEFINE m == a.logged
  <2>1. m \in 0..TARGET + 1 /\ (TARGET > 0 => m < TARGET) /\ TARGET \in Nat
       BY <1>2, <1>6, ActivatorAssumption DEF Under
  <2> HIDE DEF m
  <2>2. (TARGET > 0 => m <= TARGET) /\ ~(TARGET > 0 /\ m = TARGET) BY <2>1
  <2> QED BY <2>2 DEF m
<1>9. Sound(b) BY <1>2, <1>5 DEF Sound
<1>10. Settled(b) BY <1>2, <1>4, <1>5, <1>7, <1>8, <1>9 DEF Settled
<1>11. Answered(b, tx) BY <1>5, <1>8 DEF Answered
<1>12. r.a = b /\ r.tx = tx /\ Result(r) BY <1>1 DEF Result
<1> QED BY <1>5, <1>10, <1>11, <1>12 DEF Outcome, r

(* Queueing the rest of the batch after the reply changes nothing else.      *)
Queued(r, batch, e) == [r EXCEPT !.a = queue_others(r.a, batch, e)]
QueuedBusy(r, batch, e) == [r EXCEPT !.a = [queue_others(r.a, batch, e) EXCEPT !.idle = 0]]

(* So does queueing the others after a reply.                                *)
LEMMA QueueAfter ==
  ASSUME NEW r, Outcome(r), NEW batch \in Seq(Heard), NEW e,
         r.a.partner.call \in {NoCall, e}, Absent(r.a.pending, e)
  PROVE  /\ Outcome(Queued(r, batch, e)) /\ Queued(r, batch, e).a.partner = r.a.partner
         /\ Outcome(QueuedBusy(r, batch, e))
<1> DEFINE a == r.a
           b == queue_others(a, batch, e)
           z == [b EXCEPT !.idle = 0]
           s == [r EXCEPT !.a = b]
           t == [r EXCEPT !.a = z]
<1>1. Result(r) /\ Settled(a) /\ Answered(a, r.tx) BY DEF Outcome
<1>2. a \in Machine /\ Waiting(a.pending) /\ Once(a.recent) /\ Len(a.dropped) <= DROPPED_MAX
      /\ Len(a.recent) <= RECENT_TTL + 1 /\ (a.phase = "Working" <=> a.partner.call # NoCall)
      /\ (TARGET > 0 => a.logged <= TARGET)
      /\ (a.phase \in {"Cq", "Working"} => Under(a.logged) /\ Ages(a.recent, 0))
     BY <1>1 DEF Settled, Sound
<1>3. PICK p : b = [a EXCEPT !.pending = p] /\ Waiting(p) /\ (Absent(a.pending, e) => Absent(p, e))
     BY <1>2, QueueOthersKeeps
<1>4. Absent(p, a.partner.call) BY <1>3, NobodyWaits
<1>5. p \in Seq(Entry) /\ 0 \in 0..IDLE_STOP + 1 BY <1>3, ActivatorAssumption DEF Waiting
<1>6. r = [a |-> a, tx |-> r.tx, logged |-> r.logged] BY <1>1 DEF Result
<1> HIDE DEF b
<1>7. s = [a |-> b, tx |-> r.tx, logged |-> r.logged] /\ t = [a |-> z, tx |-> r.tx, logged |-> r.logged]
     BY <1>6
<1> HIDE DEF a
<1>8. /\ b \in Machine /\ b.partner = a.partner /\ b.pending = p /\ b.recent = a.recent
      /\ b.logged = a.logged /\ b.dropped = a.dropped /\ b.phase = a.phase
     BY <1>2, <1>3, <1>5 DEF Machine
<1>9. /\ z \in Machine /\ z.partner = a.partner /\ z.pending = p /\ z.recent = a.recent
      /\ z.logged = a.logged /\ z.dropped = a.dropped /\ z.phase = a.phase
     BY <1>5, <1>8 DEF Machine
<1> HIDE DEF z, s, t
<1>10. Sound(b) /\ Sound(z) BY <1>2, <1>3, <1>4, <1>8, <1>9 DEF Sound
<1>11. Settled(b) /\ Settled(z) BY <1>2, <1>8, <1>9, <1>10 DEF Settled
<1>12. Answered(b, r.tx) /\ Answered(z, r.tx) BY <1>1, <1>8, <1>9 DEF Answered, InRecent
<1>13. s.a = b /\ s.tx = r.tx /\ Result(s) /\ t.a = z /\ t.tx = r.tx /\ Result(t) BY <1>7 DEF Result
<1> QED BY <1>8, <1>9, <1>11, <1>12, <1>13 DEF Outcome, s, t, z, b, a, Queued, QueuedBusy

(* So does the choice of the next caller.                                    *)
LEMMA NextCallerKeeps ==
  ASSUME NEW a, Open(a), a.partner.call = NoCall, NEW batch \in Seq(Heard)
  PROVE  Outcome(next_caller_or_cq(a, batch))
<1> DEFINE waiting == retain(a.pending, {i \in DOMAIN a.pending : From(batch, a.pending[i].msg.from) = {}})
           msgs == [i \in DOMAIN waiting |-> waiting[i].msg]
           all == batch \o msgs
           I == {i \in DOMAIN all : all[i].ex # "s73"}
           pool == retain(all, I)
           pick == Strongest(pool)
           others == {i \in DOMAIN a.pending : a.pending[i].msg.from # pick.from}
           q == retain(a.pending, others)
           b == [a EXCEPT !.pending = q]
           r == reply(b, pick)
           e == pick.from
<1>1. a \in Machine /\ Waiting(a.pending) /\ Once(a.recent)
      /\ Len(a.dropped) <= DROPPED_MAX /\ Under(a.logged) /\ Ages(a.recent, 1)
     BY DEF Open, Sound
<1>2. next_caller_or_cq(a, batch) =
        IF pool = <<>> THEN cq(a) ELSE QueuedBusy(r, batch, e)
     BY DEF next_caller_or_cq, QueuedBusy
<1>3. Waiting(waiting) BY <1>1, RetainWaiting
<1>4. waiting \in Seq(Entry) BY <1>3 DEF Waiting
<1> HIDE DEF waiting
<1>5. msgs \in Seq(Heard)
  <2>1. \A i \in 1..Len(waiting) : waiting[i].msg \in Heard BY <1>4, EntryFields
  <2>2. DOMAIN waiting = 1..Len(waiting) /\ Len(waiting) \in Nat BY <1>4
  <2> QED BY <2>1, <2>2
<1> HIDE DEF msgs
<1>6. all \in Seq(Heard) BY <1>5
<1> HIDE DEF all
<1>7. pool \in Seq(Heard) /\ Sublist(pool, all, I) BY <1>6, Retained
<1>8. CASE pool = <<>> BY <1>2, <1>8, CqKeeps
<1>9. CASE pool # <<>>
  <2> HIDE DEF pool
  <2>1. PICK k \in 1..Len(pool) : pick = pool[k] BY <1>7, <1>9, StrongestIsThere
  <2>2. pick \in Heard /\ pick.ex # "s73"
    <3>1. PICK l \in 1..Len(all) : l \in I /\ pool[k] = all[l] BY <1>7 DEF Sublist
    <3> QED BY <1>7, <2>1, <3>1
  <2> HIDE DEF pick, I
  <2>3. Waiting(q) /\ Absent(q, e)
    <3>1. /\ Waiting(q)
          /\ \A i \in 1..Len(q) : \E m \in 1..Len(a.pending) : m \in others /\ q[i] = a.pending[m]
      <4> HIDE DEF others
      <4> QED BY <1>1, RetainWaiting
    <3> HIDE DEF q
    <3> QED BY <3>1 DEF Absent
  <2>4. q \in Seq(Entry) BY <2>3 DEF Waiting
  <2> HIDE DEF q
  <2>5. /\ b \in Machine /\ b.partner = a.partner /\ b.pending = q /\ b.recent = a.recent
        /\ b.logged = a.logged /\ b.dropped = a.dropped
       BY <1>1, <2>4 DEF Machine
  <2> HIDE DEF b
  <2>6. Open(b) BY <1>1, <2>3, <2>5, NobodyWaits DEF Open, Sound
  <2>7. Outcome(r) /\ r.a.partner.call \in {NoCall, e} /\ r.a.pending = b.pending
       BY <2>2, <2>3, <2>5, <2>6, ReplyKeeps
  <2>8. Absent(r.a.pending, e) BY <2>3, <2>5, <2>7
  <2> HIDE DEF r, e
  <2>9. Outcome(QueuedBusy(r, batch, e)) BY <2>7, <2>8, QueueAfter
  <2> QED BY <1>2, <1>9, <2>9
<1> QED BY <1>8, <1>9

(* Dropping a silent partner leaves room for the next.                       *)
LEMMA DropKeeps ==
  ASSUME NEW a, Open(a), a.partner.call \in Call
  PROVE  Open(Drop(a)) /\ Drop(a).partner.call = NoCall
<1> DEFINE room == IF Len(a.dropped) = DROPPED_MAX THEN Tail(a.dropped) ELSE a.dropped
           x == [call |-> a.partner.call, rcvd |-> a.partner.rcvd]
           e == Append(room, x)
           b == Drop(a)
<1>1. a \in Machine /\ Waiting(a.pending) /\ Once(a.recent)
      /\ Len(a.dropped) <= DROPPED_MAX /\ Under(a.logged) /\ Ages(a.recent, 1)
     BY DEF Open, Sound
<1>2. a.dropped \in Seq(Lost) /\ a.partner \in Partner BY <1>1, MachineFields
<1>3. x \in Lost BY <1>2, PartnerFields DEF Lost
<1>4. b = [a EXCEPT !.dropped = e, !.partner = NoPartner] BY DEF Drop
<1>5. room \in Seq(Lost) /\ Len(room) \in Nat /\ Len(room) + 1 <= DROPPED_MAX
  <2> DEFINE s == a.dropped
  <2>1. s \in Seq(Lost) /\ Len(s) <= DROPPED_MAX /\ DROPPED_MAX \in Nat \ {0}
       BY <1>1, <1>2, ActivatorAssumption
  <2>2. room = IF Len(s) = DROPPED_MAX THEN Tail(s) ELSE s OBVIOUS
  <2> HIDE DEF s, room
  <2>3. CASE Len(s) = DROPPED_MAX
    <3>1. s # <<>> BY <2>1, <2>3
    <3> QED BY <2>1, <2>2, <2>3, <3>1
  <2>4. CASE Len(s) # DROPPED_MAX BY <2>1, <2>2, <2>4
  <2> QED BY <2>3, <2>4
<1> HIDE DEF room, x, b
<1>6. e \in Seq(Lost) /\ Len(e) <= DROPPED_MAX BY <1>3, <1>5
<1> HIDE DEF e
<1>7. /\ b \in Machine /\ b.partner = NoPartner /\ b.pending = a.pending /\ b.recent = a.recent
      /\ b.logged = a.logged /\ b.dropped = e
     BY <1>1, <1>4, <1>6, NoPartnerType DEF Machine
<1> QED BY <1>1, <1>6, <1>7, NoPartnerType, NobodyWaits DEF b, Open, Sound

(* The decision while the machine runs, and the ways a contact c can end in  *)
(* it: after a message of c that ends it, or after c's silence.              *)
Ends(batch, c) ==
  \E i \in DOMAIN batch : batch[i].from = c /\ batch[i].ex \in {"rreport", "rr73", "s73"}

(* Activator::decide_active.                                                 *)
LEMMA DecideActiveKeeps ==
  ASSUME NEW a0, Sound(a0), Older(a0.recent), Under(a0.logged), NEW batch \in Seq(Heard),
         a0.phase = "Working" <=> a0.partner.call # NoCall
  PROVE  LET r == decide_active(a0, batch)
             c == a0.partner.call
         IN  /\ Outcome(r)
             /\ c # NoCall /\ r.a.partner.call # c =>
                  \/ Ends(batch, c)
                  \/ ~(a0.partner.quiet < GIVE_UP) /\ From(batch, c) = {}
<1> DEFINE a == Expire(a0)
           c == a.partner.call
           h == best_from(batch, c)
           r == reply(a, h)
           queued == queue_others(r.a, batch, c)
           z == decide_active(a0, batch)
<1>1. Open(a) /\ a.partner = a0.partner /\ a.phase = a0.phase BY ExpireOpens
<1>2. z = IF c = NoCall THEN next_caller_or_cq(a, batch)
          ELSE IF From(batch, c) # {}
          THEN IF r.tx = NoTx THEN next_caller_or_cq(queued, <<>>) ELSE Queued(r, batch, c)
          ELSE IF a.partner.quiet < GIVE_UP
          THEN [a |-> queue_others(a, batch, c), tx |-> a.partner.last_tx, logged |-> NoRecord]
          ELSE next_caller_or_cq(Drop(a), batch)
     BY DEF decide_active, Queued
<1>3. a \in Machine /\ Waiting(a.pending) /\ Absent(a.pending, c) /\ Once(a.recent)
      /\ Len(a.dropped) <= DROPPED_MAX /\ Under(a.logged) /\ Ages(a.recent, 1)
     BY <1>1 DEF Open, Sound
<1>4. c \in Call \cup {NoCall} BY <1>3, MachineFields, PartnerFields
<1>5. <<>> \in Seq(Heard) OBVIOUS
<1> HIDE DEF a, z
<1> SUFFICES /\ Outcome(z)
             /\ c # NoCall /\ z.a.partner.call # c =>
                  \/ Ends(batch, c)
                  \/ ~(a.partner.quiet < GIVE_UP) /\ From(batch, c) = {}
     BY <1>1 DEF z
<1>6. CASE c = NoCall BY <1>1, <1>2, <1>6, NextCallerKeeps
<1>7. CASE c # NoCall /\ From(batch, c) # {}
  <2>1. PICK i \in 1..Len(batch) : h = batch[i] /\ batch[i].from = c BY <1>7, BestIsThere
  <2>0. batch[i] \in Heard OBVIOUS
  <2>2. h \in Heard /\ h.from = c /\ h.ex \in Exchange
    <3> HIDE DEF h, c
    <3>1. h \in Heard /\ h.from = c BY <2>0, <2>1
    <3> QED BY <3>1 DEF Heard
  <2>3. i \in DOMAIN batch OBVIOUS
  <2>4. h.ex \in {"grid", "report"} \/ Ends(batch, c) BY <2>1, <2>2, <2>3 DEF Ends, Exchange
  <2> HIDE DEF h, c
  <2>5. /\ Result(r) /\ r.a.pending = a.pending
        /\ h.ex = "s73" => r.tx = NoTx /\ Open(r.a) /\ r.a.partner.call = NoCall
        /\ h.ex # "s73" => r.tx # NoTx /\ Outcome(r) /\ r.a.partner.call \in {NoCall, c}
        /\ h.ex \in {"grid", "report"} => r.a.partner.call = c
       BY <1>1, <1>3, <2>2, ReplyKeeps
  <2> HIDE DEF r
  <2>6. CASE h.ex = "s73"
    <3>1. z = next_caller_or_cq(queued, <<>>) BY <1>2, <1>7, <2>5, <2>6
    <3>2. r.a \in Machine /\ Waiting(r.a.pending) /\ Once(r.a.recent)
          /\ Len(r.a.dropped) <= DROPPED_MAX /\ Under(r.a.logged) /\ Ages(r.a.recent, 1)
         BY <2>5, <2>6 DEF Open, Sound
    <3>3. PICK p : queued = [r.a EXCEPT !.pending = p] /\ Waiting(p) BY <3>2, QueueOthersKeeps
    <3>4. p \in Seq(Entry) BY <3>3 DEF Waiting
    <3> DEFINE x == r.a
    <3>5. x \in Machine /\ queued = [x EXCEPT !.pending = p] BY <3>2, <3>3
    <3> HIDE DEF queued, x
    <3>6. /\ queued \in Machine /\ queued.partner = x.partner /\ queued.pending = p
          /\ queued.recent = x.recent /\ queued.logged = x.logged /\ queued.dropped = x.dropped
         BY <3>4, <3>5 DEF Machine
    <3>7. Open(queued) /\ queued.partner.call = NoCall
         BY <2>5, <2>6, <3>2, <3>3, <3>6, NobodyWaits DEF Open, Sound, x
    <3>8. Outcome(z) BY <1>5, <3>1, <3>7, NextCallerKeeps
    <3> QED BY <2>4, <2>6, <3>8
  <2>7. CASE h.ex # "s73"
    <3>1. z = Queued(r, batch, c) BY <1>2, <1>7, <2>5, <2>7
    <3>2. Absent(r.a.pending, c) BY <1>3, <2>5 DEF c
    <3>3. Outcome(z) /\ z.a.partner = r.a.partner BY <2>5, <2>7, <3>1, <3>2, QueueAfter
    <3> QED BY <2>4, <2>5, <3>3
  <2> QED BY <2>6, <2>7
<1>8. CASE c # NoCall /\ From(batch, c) = {} /\ a.partner.quiet < GIVE_UP
  <2> DEFINE s == [a |-> a, tx |-> a.partner.last_tx, logged |-> NoRecord]
  <2>1. z = Queued(s, batch, c) BY <1>2, <1>8 DEF Queued
  <2>2. a.recent \in Seq(Retired) /\ a.logged \in 0..TARGET + 1 BY <1>3, MachineFields
  <2>3. Ages(a.recent, 0) /\ Len(a.recent) <= RECENT_TTL + 1 BY <1>3, <2>2, YoungerAges, FewRetired
  <2>4. /\ TARGET > 0 => a.logged <= TARGET
        /\ ~(TARGET > 0 /\ a.logged = TARGET)
    <3> DEFINE m == a.logged
    <3>1. m \in 0..TARGET + 1 /\ (TARGET > 0 => m < TARGET) /\ TARGET \in Nat
         BY <1>3, <2>2, ActivatorAssumption DEF Under
    <3> HIDE DEF m
    <3>2. (TARGET > 0 => m <= TARGET) /\ ~(TARGET > 0 /\ m = TARGET) BY <3>1
    <3> QED BY <3>2 DEF m
  <2>5. a.phase = "Working" BY <1>1, <1>8
  <2>6. Sound(a) BY <1>1 DEF Open
  <2>7. Settled(a) BY <1>3, <1>8, <2>3, <2>4, <2>5, <2>6 DEF Settled
  <2>8. Answered(a, a.partner.last_tx) BY <2>4 DEF Answered
  <2>9. s.a = a /\ Outcome(s) BY <2>7, <2>8 DEF Outcome, Result
  <2> HIDE DEF s, c
  <2>10. s.a.partner.call \in {NoCall, c} /\ Absent(s.a.pending, c) BY <1>3, <2>9 DEF c
  <2>11. Outcome(z) /\ z.a.partner = s.a.partner BY <2>1, <2>9, <2>10, QueueAfter
  <2> QED BY <2>9, <2>11 DEF c
<1>9. CASE c # NoCall /\ From(batch, c) = {} /\ ~(a.partner.quiet < GIVE_UP)
  <2>1. z = next_caller_or_cq(Drop(a), batch) BY <1>2, <1>9
  <2>2. Open(Drop(a)) /\ Drop(a).partner.call = NoCall BY <1>1, <1>4, <1>9, DropKeeps
  <2>3. Outcome(z) BY <2>1, <2>2, NextCallerKeeps
  <2> QED BY <1>9, <2>3
<1> QED BY <1>6, <1>7, <1>8, <1>9

(* Activator::decide_done.                                                   *)
LEMMA DecideDoneKeeps ==
  ASSUME NEW a, Settled(a), a.phase = "Done", NEW batch \in Seq(Heard)
  PROVE  Outcome(decide_done(a, batch))
<1> DEFINE again == {i \in DOMAIN batch : batch[i].ex = "rreport" /\ InRecent(a, batch[i].from)}
           i == CHOOSE i \in again : \A j \in again : i <= j
           b == IF a.done_age > GRACE THEN [a EXCEPT !.phase = "Stopped"] ELSE a
           tx == IF a.done_age > GRACE \/ again = {} THEN NoTx ELSE std_msg(batch[i].from, "rr73")
           r == decide_done(a, batch)
<1>1. r = [a |-> b, tx |-> tx, logged |-> NoRecord] BY DEF decide_done
<1>2. a \in Machine /\ Waiting(a.pending) /\ Absent(a.pending, a.partner.call) /\ Once(a.recent)
      /\ Len(a.dropped) <= DROPPED_MAX
      /\ Len(a.recent) <= RECENT_TTL + 1 /\ (a.phase = "Working" <=> a.partner.call # NoCall)
      /\ (TARGET > 0 => a.logged <= TARGET)
     BY DEF Settled, Sound
<1>3. tx = NoTx \/ InRecent(a, tx.to)
  <2>1. CASE again = {} BY <2>1
  <2>2. CASE again # {}
    <3>1. again \subseteq Nat /\ \A j \in again : InRecent(a, batch[j].from) OBVIOUS
    <3> HIDE DEF again
    <3>2. \E x \in again : \A j \in again : x <= j BY <2>2, <3>1, Least
    <3>3. i \in again BY <3>2, Zenon
    <3> HIDE DEF i
    <3> QED BY <3>1, <3>3 DEF std_msg
  <2> QED BY <2>1, <2>2
<1> HIDE DEF tx, r
<1>4. /\ b \in Machine /\ b.partner = a.partner /\ b.pending = a.pending /\ b.recent = a.recent
      /\ b.logged = a.logged /\ b.dropped = a.dropped /\ b.phase \in {"Stopped", "Done"}
     BY <1>2 DEF Machine, Phases
<1> HIDE DEF b
<1>5. Sound(b) BY <1>2, <1>4 DEF Sound
<1>6. Settled(b) BY <1>2, <1>4, <1>5 DEF Settled
<1>7. Answered(b, tx) BY <1>3, <1>4 DEF Answered, InRecent
<1>8. r.a = b /\ r.tx = tx /\ Result(r) BY <1>1 DEF Result
<1> QED BY <1>6, <1>7, <1>8 DEF Outcome, r

(* Activator::decide: every decision leaves the machine settled.             *)
LEMMA DecideKeeps ==
  ASSUME NEW a, Settled(a), NEW d \in 1..MaxGap, NEW batch \in Seq(Heard)
  PROVE  LET r == decide(Elapse(a, d), batch)
             c == a.partner.call
         IN  /\ Outcome(r)
             /\ c # NoCall /\ r.a.partner.call # c =>
                  \/ Ends(batch, c)
                  \/ a.partner.quiet + MaxGap >= GIVE_UP /\ From(batch, c) = {}
<1> DEFINE b == Elapse(a, d)
           r == decide(b, batch)
           c == a.partner.call
<1>1. Sound(a) /\ Len(a.recent) <= RECENT_TTL + 1 /\ (a.phase = "Working" <=> c # NoCall)
      /\ (TARGET > 0 => a.logged <= TARGET)
      /\ (a.phase \in {"Cq", "Working"} => Under(a.logged) /\ Ages(a.recent, 0))
     BY DEF Settled
<1>2. d \in Nat /\ d > 0 /\ d <= MaxGap /\ MaxGap \in Nat BY ActivatorAssumption
<1>3. /\ Sound(b) /\ b.phase = a.phase /\ b.logged = a.logged /\ b.partner.call = c
      /\ b.partner.quiet <= a.partner.quiet + d
      /\ Len(b.recent) = Len(a.recent) /\ (Ages(a.recent, 0) => Older(b.recent))
     BY <1>1, <1>2, ElapseKeeps
<1>4. a.phase \in Phases /\ a.partner.quiet \in Nat /\ b.partner.quiet \in Nat
  <2>1. a \in Machine /\ b \in Machine BY <1>1, <1>3 DEF Sound
  <2>2. a.phase \in Phases /\ a.partner \in Partner /\ b.partner \in Partner BY <2>1, MachineFields
  <2>3. a.partner.quiet \in 0..GIVE_UP + 1 /\ b.partner.quiet \in 0..GIVE_UP + 1 BY <2>2, PartnerFields
  <2>4. 0..GIVE_UP + 1 \subseteq Nat BY ActivatorAssumption
  <2> QED BY <2>2, <2>3, <2>4
<1> HIDE DEF b, r
<1>5. CASE a.phase \in {"Stopped", "Done"}
  <2>1. Settled(b) BY <1>1, <1>3, <1>5 DEF Settled
  <2>2. c = NoCall BY <1>1, <1>5
  <2>3. CASE a.phase = "Stopped"
    <3>1. r = [a |-> b, tx |-> NoTx, logged |-> NoRecord] BY <1>3, <2>3 DEF decide, r
    <3>2. r.a = b /\ r.tx = NoTx /\ Result(r) BY <3>1 DEF Result
    <3> QED BY <2>1, <2>2, <3>2 DEF Outcome, Answered, r, b
  <2>4. CASE a.phase = "Done"
    <3>1. r = decide_done(b, batch) BY <1>3, <2>4 DEF decide, r
    <3>2. Outcome(r) BY <1>3, <2>1, <2>4, <3>1, DecideDoneKeeps
    <3> QED BY <2>2, <3>2 DEF r, b
  <2> QED BY <1>5, <2>3, <2>4
<1>6. CASE a.phase \in {"Cq", "Working"}
  <2>1. r = decide_active(b, batch) BY <1>3, <1>6 DEF decide, r
  <2>2. Older(b.recent) /\ Under(b.logged) /\ (b.phase = "Working" <=> b.partner.call # NoCall)
       BY <1>1, <1>3, <1>6
  <2>3. /\ Outcome(r)
        /\ c # NoCall /\ r.a.partner.call # c =>
             Ends(batch, c) \/ (~(b.partner.quiet < GIVE_UP) /\ From(batch, c) = {})
       BY <1>3, <2>1, <2>2, DecideActiveKeeps
  <2>4. ~(b.partner.quiet < GIVE_UP) => a.partner.quiet + MaxGap >= GIVE_UP
    <3> DEFINE x == a.partner.quiet
               y == b.partner.quiet
    <3>1. x \in Nat /\ y \in Nat /\ y <= x + d /\ GIVE_UP \in Nat BY <1>3, <1>4, ActivatorAssumption
    <3> HIDE DEF x, y
    <3>2. ~(y < GIVE_UP) => x + MaxGap >= GIVE_UP BY <1>2, <3>1
    <3> QED BY <3>2 DEF x, y
  <2> QED BY <2>3, <2>4 DEF r, b
<1> QED BY <1>4, <1>5, <1>6 DEF Phases

-----------------------------------------------------------------------------
(* The specification. *)

ActivatorInv == Settled(act) /\ Answered(act, out.tx) /\ heard \in Seq(Heard)

(* A new machine is settled ...                                              *)
LEMMA FreshMachine ==
  ASSUME NEW f \in {"Stopped", "Cq"}
  PROVE  Settled([new EXCEPT !.phase = f]) /\ Answered([new EXCEPT !.phase = f], NoTx)
<1> DEFINE a == [new EXCEPT !.phase = f]
<1>1. 0 \in 0..TARGET + 1 /\ 0 \in 0..IDLE_STOP + 1 /\ 0 \in 0..GRACE + 1 /\ 0 <= PENDING_MAX
      /\ 0 <= DROPPED_MAX /\ 0 <= RECENT_TTL + 1 /\ (TARGET > 0 => 0 < TARGET /\ 0 <= TARGET)
     BY ActivatorAssumption
<1>2. <<>> \in Seq(Entry) /\ <<>> \in Seq(Retired) /\ <<>> \in Seq(Lost) OBVIOUS
<1>3. /\ a \in Machine /\ a.partner = NoPartner /\ a.pending = <<>> /\ a.recent = <<>>
      /\ a.logged = 0 /\ a.dropped = <<>> /\ a.phase = f
     BY <1>1, <1>2, NoPartnerType DEF new, Machine, Phases
<1> HIDE DEF a
<1>4. Len(<<>>) = 0 /\ 1..0 = {} OBVIOUS
<1>5. Waiting(<<>>) /\ Absent(<<>>, NoCall) /\ Once(<<>>) /\ Ages(<<>>, 0)
     BY <1>1, <1>2, <1>4 DEF Waiting, Absent, Once, Ages
<1>6. Sound(a) BY <1>1, <1>3, <1>4, <1>5, NoPartnerType DEF Sound
<1>7. Settled(a) BY <1>1, <1>3, <1>4, <1>5, <1>6, NoPartnerType DEF Settled, Under
<1> QED BY <1>7 DEF a, Answered

(* ... and so is one that is stopped by hand.                                *)
LEMMA StoppedMachine ==
  ASSUME NEW a, Settled(a)
  PROVE  Settled([a EXCEPT !.phase = "Stopped", !.partner = NoPartner, !.pending = <<>>])
<1> DEFINE b == [a EXCEPT !.phase = "Stopped", !.partner = NoPartner, !.pending = <<>>]
<1>1. a \in Machine /\ Once(a.recent) /\ Len(a.dropped) <= DROPPED_MAX
      /\ Len(a.recent) <= RECENT_TTL + 1 /\ (TARGET > 0 => a.logged <= TARGET)
     BY DEF Settled, Sound
<1>2. <<>> \in Seq(Entry) /\ Len(<<>>) = 0 /\ 1..0 = {} /\ 0 <= PENDING_MAX BY ActivatorAssumption
<1>3. /\ b \in Machine /\ b.partner = NoPartner /\ b.pending = <<>> /\ b.recent = a.recent
      /\ b.logged = a.logged /\ b.dropped = a.dropped /\ b.phase = "Stopped"
     BY <1>1, <1>2, NoPartnerType DEF Machine, Phases
<1> HIDE DEF b
<1>4. Waiting(<<>>) /\ Absent(<<>>, NoCall) BY <1>2 DEF Waiting, Absent
<1>5. Sound(b) BY <1>1, <1>3, <1>4, NoPartnerType DEF Sound
<1> QED BY <1>1, <1>3, <1>5, NoPartnerType DEF Settled, b

(* The invariant holds at the start ...                                      *)
LEMMA InitInv == ActivatorInit => ActivatorInv
<1> SUFFICES ASSUME ActivatorInit PROVE ActivatorInv OBVIOUS
<1>1. act = new /\ heard = <<>> /\ out.tx = NoTx BY DEF ActivatorInit, Nothing
<1>2. new = [new EXCEPT !.phase = "Stopped"] BY DEF new
<1>3. Settled(new) /\ Answered(new, NoTx) BY <1>2, FreshMachine
<1>4. <<>> \in Seq(Heard) OBVIOUS
<1> QED BY <1>1, <1>3, <1>4 DEF ActivatorInv

(* ... and every step keeps it.                                              *)
LEMMA NextInv == ActivatorInv /\ [ActivatorNext]_vars => ActivatorInv'
<1> SUFFICES ASSUME ActivatorInv, [ActivatorNext]_vars PROVE ActivatorInv' OBVIOUS
<1> SUFFICES Settled(act') /\ Answered(act', out'.tx) /\ heard' \in Seq(Heard)
     BY DEF ActivatorInv, Settled, Sound, Answered, InRecent
<1>1. Settled(act) /\ Answered(act, out.tx) /\ heard \in Seq(Heard) BY DEF ActivatorInv
<1>2. CASE Start
  <2>1. act' = [new EXCEPT !.phase = "Cq"] /\ out'.tx = NoTx /\ heard' = heard BY <1>2 DEF Start, Nothing
  <2>2. Settled([new EXCEPT !.phase = "Cq"]) /\ Answered([new EXCEPT !.phase = "Cq"], NoTx) BY FreshMachine
  <2> QED BY <1>1, <2>1, <2>2
<1>3. CASE Stop
  <2>1. /\ act' = [act EXCEPT !.phase = "Stopped", !.partner = NoPartner, !.pending = <<>>]
        /\ out'.tx = NoTx /\ heard' = heard
       BY <1>3 DEF Stop, Nothing
  <2>2. Settled(act') BY <1>1, <2>1, StoppedMachine
  <2> QED BY <1>1, <2>1, <2>2 DEF Answered
<1>4. CASE \E h \in Heard : Hear(h)
  <2>1. PICK h \in Heard : Hear(h) BY <1>4
  <2>2. heard' = Append(heard, h) /\ act' = act /\ out' = out BY <2>1 DEF Hear
  <2> QED BY <1>1, <2>2
<1>5. CASE \E d \in 1..MaxGap : Decide(d)
  <2>1. PICK d \in 1..MaxGap : Decide(d) BY <1>5
  <2> DEFINE r == decide(Elapse(act, d), heard)
  <2>2. act' = r.a /\ out'.tx = r.tx /\ heard' = <<>> BY <2>1 DEF Decide
  <2>3. Outcome(r) BY <1>1, DecideKeeps
  <2> HIDE DEF r
  <2>4. <<>> \in Seq(Heard) OBVIOUS
  <2> QED BY <2>2, <2>3, <2>4 DEF Outcome
<1>6. CASE UNCHANGED vars BY <1>1, <1>6 DEF vars
<1> QED BY <1>2, <1>3, <1>4, <1>5, <1>6 DEF ActivatorNext

(* The inductive invariant: between two decisions the machine is settled,    *)
(* and once the target is reached only a logged partner was answered.        *)
THEOREM ActivatorInvariant == ActivatorSpec => []ActivatorInv
<1>1. ActivatorInit => ActivatorInv BY InitInv
<1>2. ActivatorInv /\ [ActivatorNext]_vars => ActivatorInv' BY NextInv
<1> QED BY <1>1, <1>2, PTL DEF ActivatorSpec

(* The three lists of struct Activator stay within their heapless            *)
(* capacities, for any capacities and any traffic: no push is ever refused.  *)
THEOREM ActivatorTypes == ActivatorSpec => []ActivatorTypeOK
<1>1. ActivatorInv => ActivatorTypeOK
  <2> SUFFICES ASSUME ActivatorInv PROVE ActivatorTypeOK OBVIOUS
  <2>1. act \in Machine /\ Waiting(act.pending) /\ Len(act.dropped) <= DROPPED_MAX
       BY DEF ActivatorInv, Settled, Sound
  <2>2. act.phase \in Phases /\ act.partner \in Partner /\ act.recent \in Seq(Retired)
        /\ act.dropped \in Seq(Lost) /\ act.logged \in 0..TARGET + 1
        /\ act.idle \in 0..IDLE_STOP + 1 /\ act.done_age \in 0..GRACE + 1
       BY <2>1, MachineFields
  <2>3. act.pending \in Seq(Entry) /\ Len(act.pending) <= PENDING_MAX BY <2>1 DEF Waiting
  <2>4. \A i \in DOMAIN act.pending : act.pending[i] \in Entry BY <2>3
  <2>5. \A i \in DOMAIN act.recent : act.recent[i] \in Retired BY <2>2
  <2>6. \A i \in DOMAIN act.dropped : act.dropped[i] \in Lost BY <2>2
  <2>7. act.phase \in {"Stopped", "Cq", "Working", "Done"} BY <2>2 DEF Phases
  <2>8. \A i \in DOMAIN act.pending : act.pending[i] \in [msg : Heard, age : 0..PENDING_TTL + 1]
       BY <2>4 DEF Entry
  <2>9. \A i \in DOMAIN act.recent : act.recent[i] \in [call : Call, age : 0..RECENT_TTL + 1]
       BY <2>5 DEF Retired
  <2>10. \A i \in DOMAIN act.dropped : act.dropped[i] \in [call : Call, rcvd : BOOLEAN]
       BY <2>6 DEF Lost
  <2> QED BY <2>1, <2>2, <2>3, <2>7, <2>8, <2>9, <2>10, Zenon DEF ActivatorTypeOK
<1> QED BY <1>1, ActivatorInvariant, PTL

(* Whatever ends a decision, the phase says whether a contact is under way.  *)
THEOREM PhaseIsPartner == ActivatorSpec => []PhaseMatchesPartner
<1>1. ActivatorInv => PhaseMatchesPartner BY DEF ActivatorInv, Settled, PhaseMatchesPartner
<1> QED BY <1>1, ActivatorInvariant, PTL

(* No contact is logged beyond the target, and once it is reached nothing is *)
(* sent but RR73 to a logged partner, for any target.                        *)
THEOREM StopsAtTarget == ActivatorSpec => []TargetKept
<1>1. ActivatorInv => TargetKept BY DEF ActivatorInv, Settled, Answered, TargetKept
<1> QED BY <1>1, ActivatorInvariant, PTL

(* The list of logged partners has at most one entry per own period of its   *)
(* life, for any RECENT_TTL; one caller has one entry of a list.             *)
THEOREM RecentStaysSmall == ActivatorSpec => []RecentFits
<1>1. ActivatorInv => RecentFits
  <2> SUFFICES ASSUME ActivatorInv PROVE RecentFits OBVIOUS
  <2>1. act \in Machine /\ Waiting(act.pending) /\ Once(act.recent) /\ Len(act.recent) <= RECENT_TTL + 1
       BY DEF ActivatorInv, Settled, Sound
  <2>2. act.pending \in Seq(Entry) /\ act.recent \in Seq(Retired) BY <2>1, MachineFields
  <2>3. DOMAIN act.pending = 1..Len(act.pending) /\ DOMAIN act.recent = 1..Len(act.recent) BY <2>2
  <2> QED BY <2>1, <2>3 DEF RecentFits, Waiting, Once
<1> QED BY <1>1, ActivatorInvariant, PTL

(* With the code's sizes (16 places, entries for 4 own periods) the list is  *)
(* never full, so finish never evicts an entry that still keeps a repeated   *)
(* R report from being logged again (activator.rs, Activator::finish).       *)
THEOREM NothingEvicted ==
  ASSUME RECENT_MAX > RECENT_TTL + 1
  PROVE  ActivatorSpec => [](Len(act.recent) < RECENT_MAX)
<1>1. ActivatorInv => Len(act.recent) < RECENT_MAX
  <2> SUFFICES ASSUME ActivatorInv PROVE Len(act.recent) < RECENT_MAX OBVIOUS
  <2>1. act \in Machine /\ Len(act.recent) <= RECENT_TTL + 1 BY DEF ActivatorInv, Settled, Sound
  <2>2. act.recent \in Seq(Retired) BY <2>1, MachineFields
  <2> DEFINE n == Len(act.recent)
  <2>3. n \in Nat /\ n <= RECENT_TTL + 1 BY <2>1, <2>2
  <2> HIDE DEF n
  <2>4. n < RECENT_MAX BY <2>3, ActivatorAssumption
  <2> QED BY <2>4 DEF n
<1> QED BY <1>1, ActivatorInvariant, PTL

(* The partner does not also wait in the queue.                              *)
THEOREM PartnerLeftQueue == ActivatorSpec => []PartnerNotQueued
<1>1. ActivatorInv => PartnerNotQueued
  <2> SUFFICES ASSUME ActivatorInv PROVE PartnerNotQueued OBVIOUS
  <2>1. Waiting(act.pending) /\ Absent(act.pending, act.partner.call) BY DEF ActivatorInv, Settled, Sound
  <2>2. act.pending \in Seq(Entry) BY <2>1 DEF Waiting
  <2>3. DOMAIN act.pending = 1..Len(act.pending) BY <2>2
  <2> QED BY <2>1, <2>3 DEF PartnerNotQueued, Absent
<1> QED BY <1>1, ActivatorInvariant, PTL

(* A partner is replaced only after a message of its own that ends the       *)
(* contact, after its silence, or by the operator.                           *)
RightlyEnded ==
  act.partner.call # NoCall /\ act'.partner.call # act.partner.call =>
    \/ act'.phase = "Stopped" \/ out' = Nothing
    \/ act.partner.quiet + MaxGap >= GIVE_UP /\ ~\E i \in DOMAIN heard : heard[i].from = act.partner.call
    \/ \E i \in DOMAIN heard : heard[i].from = act.partner.call
                               /\ heard[i].ex \in {"rreport", "rr73", "s73"}

(* Nobody who calls in takes the place of a partner whose contact is still   *)
(* under way: Activator::decide_active replaces it only as above.            *)
THEOREM ContactNotInterrupted == ActivatorSpec => NotInterrupted
<1>1. ActivatorInv /\ [ActivatorNext]_vars => [RightlyEnded]_vars
  <2> SUFFICES ASSUME ActivatorInv, ActivatorNext PROVE RightlyEnded OBVIOUS
  <2>1. Settled(act) /\ heard \in Seq(Heard) BY DEF ActivatorInv
  <2>2. CASE Start BY <2>2 DEF Start, RightlyEnded
  <2>3. CASE Stop BY <2>3 DEF Stop, RightlyEnded
  <2>4. CASE \E h \in Heard : Hear(h) BY <2>4 DEF Hear, RightlyEnded
  <2>5. CASE \E d \in 1..MaxGap : Decide(d)
    <3>1. PICK d \in 1..MaxGap : Decide(d) BY <2>5
    <3> DEFINE r == decide(Elapse(act, d), heard)
               c == act.partner.call
    <3>2. act' = r.a BY <3>1 DEF Decide
    <3>3. c # NoCall /\ r.a.partner.call # c =>
             Ends(heard, c) \/ (act.partner.quiet + MaxGap >= GIVE_UP /\ From(heard, c) = {})
         BY <2>1, DecideKeeps
    <3> HIDE DEF r
    <3> QED BY <3>2, <3>3 DEF Ends, From, RightlyEnded
  <2> QED BY <2>2, <2>3, <2>4, <2>5 DEF ActivatorNext
<1>2. ActivatorSpec => [][RightlyEnded]_vars BY <1>1, ActivatorInvariant, PTL DEF ActivatorSpec
<1> QED BY <1>2 DEF NotInterrupted, RightlyEnded
=============================================================================
