--------------------------- MODULE ActivationProofs ---------------------------
(***************************************************************************)
(* Proofs about an activation on the air (Activation): both parties' logs    *)
(* agree on who was worked, and a contact is logged with the caller's        *)
(* report, for any number of losses and late decodes.                        *)
(*                                                                          *)
(* First, what a decision of the machine does, as a relation between the     *)
(* entries of its lists before and after; then the callers and the band.     *)
(***************************************************************************)
EXTENDS Activation, ActivatorProofs

(* retain keeps every entry at a kept position, and no other.                *)
LEMMA RetainElts ==
  ASSUME NEW T, NEW s \in Seq(T), NEW I
  PROVE  Elts(retain(s, I)) = {s[k] : k \in {k \in 1..Len(s) : k \in I}}
<1> DEFINE K(n) == {s[k] : k \in {k \in 1..n : k \in I}}
<1>1. PICK f : RetainIs(f, s, I, Len(s)) /\ retain(s, I) = f[Len(s)] BY RetainUnfold
<1>2. \A n \in 0..Len(s) : f[n] = IF n = 0 THEN <<>>
                              ELSE IF n \in I THEN Append(f[n - 1], s[n]) ELSE f[n - 1]
     BY <1>1 DEF RetainIs
<1> DEFINE Good(n) == f[n] \in Seq(T) /\ Elts(f[n]) = K(n)
           S == {n \in Nat : n <= Len(s) => Good(n)}
<1>3. Good(0)
  <2>1. f[0] = <<>> BY <1>2
  <2>2. Len(f[0]) = 0 /\ 1..Len(f[0]) = {} /\ 1..0 = {} /\ f[0] \in Seq(T) BY <2>1
  <2> QED BY <2>2 DEF Elts
<1>4. ASSUME NEW n \in Nat, Good(n), n + 1 <= Len(s) PROVE Good(n + 1)
  <2>1. f[n + 1] = IF n + 1 \in I THEN Append(f[n], s[n + 1]) ELSE f[n]
    <3>1. n + 1 \in 0..Len(s) /\ n + 1 # 0 /\ (n + 1) - 1 = n BY <1>4
    <3> QED BY <1>2, <3>1
  <2>2. s[n + 1] \in T BY <1>4
  <2>3. f[n] \in Seq(T) /\ Elts(f[n]) = K(n) BY <1>4
  <2>4. \A k : k \in 1..(n + 1) <=> k \in 1..n \/ k = n + 1 OBVIOUS
  <2>5. CASE n + 1 \in I
    <3>1. f[n + 1] = Append(f[n], s[n + 1]) BY <2>1, <2>5
    <3> DEFINE m == Len(f[n])
    <3>2. /\ f[n + 1] \in Seq(T) /\ Len(f[n + 1]) = m + 1 /\ f[n + 1][m + 1] = s[n + 1] /\ m \in Nat
          /\ \A i \in 1..m : f[n + 1][i] = f[n][i]
         BY <2>2, <2>3, <3>1
    <3> HIDE DEF m
    <3>3. \A k : k \in 1..(m + 1) <=> k \in 1..m \/ k = m + 1 BY <3>2
    <3>4. Elts(f[n + 1]) = Elts(f[n]) \cup {s[n + 1]} BY <3>2, <3>3 DEF Elts, m
    <3>5. K(n + 1) = K(n) \cup {s[n + 1]} BY <2>4, <2>5
    <3> QED BY <2>3, <3>2, <3>4, <3>5
  <2>6. CASE n + 1 \notin I
    <3>1. f[n + 1] = f[n] BY <2>1, <2>6
    <3>2. K(n + 1) = K(n) BY <2>4, <2>6
    <3> QED BY <2>3, <3>1, <3>2
  <2> QED BY <2>5, <2>6
<1>5. Good(Len(s))
  <2> HIDE DEF Good
  <2>1. 0 \in S BY <1>3
  <2>2. ASSUME NEW n \in Nat, n \in S PROVE n + 1 \in S
    <3>1. CASE n + 1 <= Len(s)
      <4>1. n <= Len(s) BY <3>1
      <4> QED BY <1>4, <2>2, <3>1, <4>1
    <3>2. CASE ~(n + 1 <= Len(s)) BY <3>2
    <3> QED BY <3>1, <3>2
  <2> HIDE DEF S
  <2>3. Len(s) \in S /\ Len(s) <= Len(s) BY <2>1, <2>2, Induction
  <2> QED BY <2>3 DEF S
<1> QED BY <1>1, <1>5

(* A push adds one entry.                                                    *)
LEMMA AppendElts ==
  ASSUME NEW T, NEW s \in Seq(T), NEW x \in T
  PROVE  Elts(Append(s, x)) = Elts(s) \cup {x}
<1> DEFINE m == Len(s)
           t == Append(s, x)
<1>1. Len(t) = m + 1 /\ t[m + 1] = x /\ m \in Nat /\ \A i \in 1..m : t[i] = s[i] OBVIOUS
<1> HIDE DEF m, t
<1>2. \A k : k \in 1..(m + 1) <=> k \in 1..m \/ k = m + 1 BY <1>1
<1>3. Elts(t) = Elts(s) \cup {x} BY <1>1, <1>2 DEF Elts, m
<1> QED BY <1>3 DEF t

(* Callers whose contact was dropped: one entry each, the partner has none.  *)
Apart(a) == Once(a.dropped) /\ \A d \in Elts(a.dropped) : d.call # a.partner.call
Besides(S, c) == {x \in S : x.call # c}
Reported(a, c) ==
  \/ a.partner.call = c /\ a.partner.rcvd
  \/ \E d \in Elts(a.dropped) : d.call = c /\ d.rcvd

(* A caller who comes back takes what the dropped attempt left of it.        *)
LEMMA AdoptDoes ==
  ASSUME NEW a, Open(a), Apart(a), NEW c \in Call, Absent(a.pending, c),
         a.partner.call \in {NoCall, c}
  PROVE  LET b == Adopt(a, c)
         IN  /\ Apart(b) /\ Elts(b.dropped) = Besides(Elts(a.dropped), c)
             /\ Reported(a, c) => b.partner.rcvd
<1> DEFINE b == Adopt(a, c)
           back == {i \in DOMAIN a.dropped : a.dropped[i].call = c}
           i == CHOOSE i \in back : \A j \in back : i <= j
           known == back # {} /\ a.dropped[i].rcvd
           p == [NoPartner EXCEPT !.call = c, !.rcvd = known]
           q == retain(a.dropped, DOMAIN a.dropped \ {i})
           e == IF back = {} THEN a.dropped ELSE q
<1>1. a \in Machine BY DEF Open, Sound
<1>2. a.dropped \in Seq(Lost) /\ a.partner \in Partner BY <1>1, MachineFields
<1>3. b = IF a.partner.call = c THEN [a EXCEPT !.partner.quiet = 0]
          ELSE [a EXCEPT !.partner = p, !.dropped = e]
     BY DEF Adopt
<1>4. DOMAIN a.dropped = 1..Len(a.dropped) /\ back \subseteq Nat BY <1>2
<1>5. Once(a.dropped) /\ \A d \in Elts(a.dropped) : d.call # a.partner.call BY DEF Apart
<1>6. CASE a.partner.call = c
  <2>1. b = [a EXCEPT !.partner.quiet = 0] BY <1>3, <1>6
  <2>2. b.dropped = a.dropped /\ b.partner.call = a.partner.call /\ b.partner.rcvd = a.partner.rcvd
       BY <1>1, <1>2, <2>1 DEF Machine, Partner
  <2> HIDE DEF b
  <2>3. Elts(b.dropped) = Besides(Elts(a.dropped), c) BY <1>5, <1>6, <2>2 DEF Besides
  <2>4. Reported(a, c) => b.partner.rcvd BY <1>5, <1>6, <2>2 DEF Reported
  <2> QED BY <1>5, <2>2, <2>3, <2>4 DEF Apart, b
<1>7. CASE a.partner.call # c
  <2>1. b = [a EXCEPT !.partner = p, !.dropped = e] BY <1>3, <1>7
  <2>2. b.partner = p /\ b.dropped = e BY <1>1, <2>1 DEF Machine
  <2>3. p.call = c /\ p.rcvd = known BY DEF NoPartner
  <2> HIDE DEF b, p, e, q, i, known
  <2>4. CASE back = {}
    <3>1. e = a.dropped BY <2>4 DEF e
    <3>2. \A d \in Elts(a.dropped) : d.call # c BY <1>4, <2>4 DEF Elts
    <3>3. Elts(e) = Besides(Elts(a.dropped), c) BY <3>1, <3>2 DEF Besides
    <3>4. ~Reported(a, c) BY <1>7, <3>2 DEF Reported
    <3> QED BY <1>5, <2>2, <2>3, <3>1, <3>2, <3>3, <3>4 DEF Apart, b
  <2>5. CASE back # {}
    <3>1. i \in back
      <4> HIDE DEF back
      <4>1. \E x \in back : \A j \in back : x <= j BY <1>4, <2>5, Least
      <4> QED BY <4>1, Zenon DEF i
    <3>2. i \in 1..Len(a.dropped) /\ a.dropped[i].call = c BY <1>4, <3>1
    <3>3. \A j \in 1..Len(a.dropped) : a.dropped[j].call = c => j = i BY <1>5, <3>2 DEF Once
    <3>4. e = q BY <2>5 DEF e
    <3> DEFINE I == DOMAIN a.dropped \ {i}
    <3>5. q \in Seq(Lost) /\ Sublist(q, a.dropped, I) BY <1>2, Retained DEF q
    <3>6. Elts(q) = {a.dropped[k] : k \in {k \in 1..Len(a.dropped) : k \in I}} BY <1>2, RetainElts DEF q
    <3>7. Elts(q) = Besides(Elts(a.dropped), c) BY <1>4, <3>2, <3>3, <3>6 DEF Elts, Besides
    <3> HIDE DEF I
    <3>8. Once(q)
      <4>1. ASSUME NEW x \in 1..Len(q), NEW y \in 1..Len(q), q[x].call = q[y].call, x # y PROVE FALSE
        <5>1. PICK k \in 1..Len(a.dropped), l \in 1..Len(a.dropped) :
                    k # l /\ q[x] = a.dropped[k] /\ q[y] = a.dropped[l]
             BY <3>5, <4>1 DEF Sublist
        <5> QED BY <1>5, <4>1, <5>1 DEF Once
      <4> QED BY <4>1 DEF Once
    <3>9. Reported(a, c) => known
      <4>1. HAVE Reported(a, c)
      <4>2. PICK d \in Elts(a.dropped) : d.call = c /\ d.rcvd BY <1>7, <4>1 DEF Reported
      <4>3. d = a.dropped[i] BY <3>3, <4>2 DEF Elts
      <4> QED BY <2>5, <4>2, <4>3 DEF known
    <3>10. \A d \in Elts(q) : d.call # c BY <3>7 DEF Besides
    <3> QED BY <2>2, <2>3, <3>4, <3>7, <3>8, <3>9, <3>10 DEF Apart, b
  <2> QED BY <2>4, <2>5
<1> QED BY <1>6, <1>7

(* A retired partner is the only new entry of the list, and with more than   *)
(* RECENT_TTL + 1 places it pushes nobody out.                               *)
Retires(r, q, c) ==
  /\ [call |-> c, age |-> 0] \in Elts(q)
  /\ Elts(q) \subseteq Besides(Elts(r), c) \cup {[call |-> c, age |-> 0]}
  /\ RECENT_MAX > RECENT_TTL + 1 => Besides(Elts(r), c) \subseteq Elts(q)

(* The contact is entered among the logged partners.                        *)
LEMMA RetireElts ==
  ASSUME NEW r \in Seq(Retired), Once(r), Ages(r, 1), NEW c \in Call
  PROVE  Retires(r, Entered(r, c), c)
<1> DEFINE q == Entered(r, c)
           entry == [call |-> c, age |-> 0]
           room == IF Len(r) = RECENT_MAX THEN Tail(r) ELSE r
<1>1. entry \in Retired /\ entry.call = c BY ActivatorAssumption DEF Retired
<1>2. DOMAIN r = 1..Len(r) /\ Len(r) \in Nat OBVIOUS
<1>3. q = IF \E i \in DOMAIN r : r[i].call = c
          THEN [i \in DOMAIN r |-> IF r[i].call = c THEN entry ELSE r[i]] ELSE Append(room, entry)
     BY DEF Entered
<1> HIDE DEF entry, q
<1>4. CASE \E i \in DOMAIN r : r[i].call = c
  <2>1. q = [i \in 1..Len(r) |-> IF r[i].call = c THEN entry ELSE r[i]] BY <1>2, <1>3, <1>4
  <2>2. PICK x \in 1..Len(r) : r[x].call = c BY <1>2, <1>4
  <2>3. \A i \in 1..Len(r) : q[i] = IF r[i].call = c THEN entry ELSE r[i] BY <2>1
  <2>4. Len(q) = Len(r) BY <1>2, <2>1
  <2>5. entry \in Elts(q) BY <2>2, <2>3, <2>4 DEF Elts
  <2>6. Elts(q) \subseteq Besides(Elts(r), c) \cup {entry} BY <2>3, <2>4 DEF Elts, Besides
  <2>7. Besides(Elts(r), c) \subseteq Elts(q) BY <2>3, <2>4 DEF Elts, Besides
  <2> QED BY <2>5, <2>6, <2>7 DEF Retires, q, entry
<1>5. CASE ~\E i \in DOMAIN r : r[i].call = c
  <2>1. q = Append(room, entry) BY <1>3, <1>5
  <2>2. \A x \in Elts(r) : x.call # c BY <1>2, <1>5 DEF Elts
  <2>3. Besides(Elts(r), c) = Elts(r) BY <2>2 DEF Besides
  <2>4. room \in Seq(Retired) /\ Elts(room) \subseteq Elts(r)
    <3>1. CASE Len(r) = RECENT_MAX
      <4>1. RECENT_MAX \in Nat \ {0} BY ActivatorAssumption
      <4>2. r # <<>> /\ Len(r) >= 1 BY <1>2, <3>1, <4>1
      <4>3. Tail(r) \in Seq(Retired) /\ Len(Tail(r)) = Len(r) - 1
            /\ \A i \in 1..Len(Tail(r)) : Tail(r)[i] = r[i + 1] /\ i + 1 \in 1..Len(r)
           BY <1>2, <4>2
      <4>4. room = Tail(r) BY <3>1
      <4> HIDE DEF room
      <4> QED BY <4>3, <4>4 DEF Elts
    <3>2. CASE Len(r) # RECENT_MAX BY <3>2
    <3> QED BY <3>1, <3>2
  <2>5. RECENT_MAX > RECENT_TTL + 1 => room = r
    <3>1. Ages(r, 0) BY YoungerAges
    <3>2. Len(r) <= RECENT_TTL + 1 BY <3>1, FewRetired
    <3> DEFINE n == Len(r)
    <3>3. n \in Nat /\ n <= RECENT_TTL + 1 BY <1>2, <3>2
    <3> HIDE DEF n
    <3>4. RECENT_MAX > RECENT_TTL + 1 => n # RECENT_MAX BY <3>3, ActivatorAssumption
    <3> QED BY <3>4 DEF n
  <2> HIDE DEF room
  <2>6. Elts(q) = Elts(room) \cup {entry} BY <1>1, <2>1, <2>4, AppendElts
  <2> QED BY <2>3, <2>4, <2>5, <2>6 DEF Retires, q, entry
<1> QED BY <1>4, <1>5

(* InRecent, on the set of entries.                                         *)
LEMMA RecentElts ==
  ASSUME NEW a, a.recent \in Seq(Retired), NEW c
  PROVE  InRecent(a, c) <=> \E e \in Elts(a.recent) : e.call = c
<1>1. DOMAIN a.recent = 1..Len(a.recent) OBVIOUS
<1> QED BY <1>1 DEF InRecent, Elts

(* What a reply does to the caller h.from: one of the two messages that go   *)
(* on with the contact, or one of the two that end it.                       *)
Replies(a, h, r) ==
  /\ r.tx = std_msg(h.from, Answer[h.ex]) /\ Apart(r.a)
  /\ Elts(r.a.dropped) = Besides(Elts(a.dropped), h.from)
  /\ IF h.ex \in {"grid", "report"}
     THEN /\ r.a.partner.call = h.from /\ r.a.partner.last_tx = r.tx
          /\ h.ex = "report" => r.a.partner.rcvd
          /\ r.logged = NoRecord /\ Elts(r.a.recent) = Besides(Elts(a.recent), h.from)
     ELSE /\ r.a.partner.call = NoCall /\ Retires(a.recent, r.a.recent, h.from)
          /\ InRecent(a, h.from) => r.logged = NoRecord
          /\ ~InRecent(a, h.from) => r.logged.call = h.from
          /\ h.ex = "rreport" \/ Reported(a, h.from) => r.logged = NoRecord \/ r.logged.rcvd

(* Activator::reply does that, and on 73 only forgets the partner.          *)
LEMMA ReplyDoes ==
  ASSUME NEW a, Open(a), Apart(a), NEW h \in Heard, Absent(a.pending, h.from),
         a.partner.call \in {NoCall, h.from}
  PROVE  LET r == reply(a, h)
         IN  /\ h.ex # "s73" => Replies(a, h, r)
             /\ h.ex = "s73" => /\ r.a.recent = a.recent /\ Apart(r.a)
                                /\ Elts(r.a.dropped) = Besides(Elts(a.dropped), h.from)
<1> DEFINE r == reply(a, h)
           b == Adopt(a, h.from)
           tx == std_msg(h.from, Answer[h.ex])
           p == [b.partner EXCEPT !.rcvd = @ \/ h.ex \in {"report", "rreport"}, !.last_tx = tx]
           fa == [Forget(b, h.from) EXCEPT !.partner = p, !.phase = "Working"]
           ga == [b EXCEPT !.partner = p]
           ra == [b EXCEPT !.partner = NoPartner]
           rec == IF InRecent(b, h.from) THEN NoRecord ELSE [call |-> h.from, rcvd |-> p.rcvd]
<1>1. h.from \in Call /\ h.ex \in Exchange BY DEF Heard
<1>2. Open(b) /\ b.partner.call = h.from /\ b.pending = a.pending /\ b.recent = a.recent
     BY <1>1, AdoptKeeps
<1>3. b \in Machine /\ Once(b.recent) /\ Ages(b.recent, 1) BY <1>2 DEF Open, Sound
<1>4. /\ Apart(b) /\ Elts(b.dropped) = Besides(Elts(a.dropped), h.from)
      /\ Reported(a, h.from) => b.partner.rcvd
     BY <1>1, AdoptDoes
<1>5. r = IF h.ex = "s73" THEN [a |-> ra, tx |-> NoTx, logged |-> NoRecord]
          ELSE IF h.ex \in {"grid", "report"} THEN [a |-> fa, tx |-> tx, logged |-> NoRecord]
          ELSE [a |-> finish(ga), tx |-> tx, logged |-> rec]
     BY DEF reply
<1>6. b.partner \in Partner /\ b.recent \in Seq(Retired) /\ b.dropped \in Seq(Lost)
     BY <1>3, MachineFields
<1>7. /\ p.call = h.from /\ p.last_tx = tx
      /\ b.partner.rcvd \/ h.ex \in {"report", "rreport"} => p.rcvd
  <2> DEFINE k == b.partner.rcvd \/ h.ex \in {"report", "rreport"}
  <2>1. p = [b.partner EXCEPT !.rcvd = k, !.last_tx = tx] OBVIOUS
  <2> HIDE DEF b, tx, k, p
  <2>2. p.call = b.partner.call /\ p.last_tx = tx /\ p.rcvd = k BY <1>6, <2>1 DEF Partner
  <2> QED BY <1>2, <2>2, Zenon DEF k
<1>8. \A x : x.dropped = b.dropped /\ x.partner.call \in {NoCall, h.from} => Apart(x)
  <2>1. \A d \in Elts(b.dropped) : d \in Lost BY <1>6 DEF Elts
  <2>2. \A d \in Elts(b.dropped) : d.call # NoCall BY <2>1, ActivatorAssumption DEF Lost
  <2> QED BY <1>2, <1>4, <2>2 DEF Apart
<1> HIDE DEF p, b, r
<1>9. CASE h.ex = "s73"
  <2>1. r = [a |-> ra, tx |-> NoTx, logged |-> NoRecord] BY <1>5, <1>9
  <2>2. ra.recent = b.recent /\ ra.dropped = b.dropped /\ ra.partner = NoPartner BY <1>3 DEF Machine
  <2> HIDE DEF ra
  <2>3. r.a = ra BY <2>1
  <2> QED BY <1>2, <1>4, <1>8, <1>9, <2>2, <2>3, NoPartnerType DEF r
<1>10. CASE h.ex \in {"grid", "report"}
  <2> DEFINE I == {i \in DOMAIN b.recent : b.recent[i].call # h.from}
             q == retain(b.recent, I)
  <2>1. r = [a |-> fa, tx |-> tx, logged |-> NoRecord] BY <1>5, <1>10
  <2>2. Forget(b, h.from) = [b EXCEPT !.recent = q] BY DEF Forget
  <2>3. Elts(q) = Besides(Elts(b.recent), h.from)
    <3>1. Elts(q) = {b.recent[k] : k \in {k \in 1..Len(b.recent) : k \in I}} BY <1>6, RetainElts
    <3>2. DOMAIN b.recent = 1..Len(b.recent) BY <1>6
    <3> HIDE DEF q
    <3> QED BY <3>1, <3>2 DEF Elts, Besides
  <2> HIDE DEF q
  <2>4. fa.partner = p /\ fa.recent = q /\ fa.dropped = b.dropped BY <1>3, <2>2 DEF Machine
  <2> HIDE DEF fa, tx
  <2>5. r.a = fa /\ r.tx = tx /\ r.logged = NoRecord BY <2>1
  <2>6. h.ex = "report" => p.rcvd BY <1>7
  <2>7. Apart(fa) BY <1>7, <1>8, <2>4
  <2>8. Replies(a, h, r) BY <1>2, <1>4, <1>7, <1>10, <2>3, <2>4, <2>5, <2>6, <2>7 DEF Replies, tx
  <2> QED BY <1>10, <2>8 DEF r
<1>11. CASE h.ex \in {"rreport", "rr73"}
  <2>1. r = [a |-> finish(ga), tx |-> tx, logged |-> rec] BY <1>5, <1>11
  <2>2. /\ ga.partner = p /\ ga.recent = b.recent /\ ga.dropped = b.dropped /\ DOMAIN ga = DOMAIN b
       BY <1>3 DEF Machine
  <2> DEFINE q == Entered(b.recent, h.from)
             ha == finish(ga)
  <2>3. ha.partner = NoPartner /\ ha.recent = q /\ ha.dropped = b.dropped
    <3> DEFINE c == ga.partner.call
               n == IF InRecent(ga, c) THEN ga.logged ELSE Plus(ga.logged, 1, TARGET)
               f == IF TARGET > 0 /\ n >= TARGET THEN "Done" ELSE "Cq"
    <3>0. ha = [ga EXCEPT !.partner = NoPartner, !.recent = Entered(ga.recent, c), !.logged = n,
                          !.phase = f, !.done_age = 0]
      <4> HIDE DEF ga
      <4> QED BY DEF finish, Entered, InRecent
    <3>1. c = h.from /\ Entered(ga.recent, c) = q BY <1>7, <2>2
    <3>2. DOMAIN ga = {"phase", "partner", "pending", "recent", "dropped", "logged", "idle", "done_age"}
         BY <1>3, <2>2 DEF Machine
    <3> HIDE DEF ha, ga, n, f, q, c
    <3> QED BY <2>2, <3>0, <3>1, <3>2
  <2>4. Retires(b.recent, q, h.from) BY <1>1, <1>3, <1>6, RetireElts
  <2> HIDE DEF ha, q, ga, tx
  <2>5. r.a = ha /\ r.tx = tx /\ r.logged = rec BY <2>1 DEF ha
  <2>6. InRecent(b, h.from) <=> InRecent(a, h.from) BY <1>2 DEF InRecent
  <2>7. /\ InRecent(a, h.from) => rec = NoRecord
        /\ ~InRecent(a, h.from) => rec.call = h.from
        /\ rec = NoRecord \/ rec.rcvd = p.rcvd
       BY <2>6
  <2>8. h.ex = "rreport" \/ Reported(a, h.from) => rec = NoRecord \/ rec.rcvd
       BY <1>4, <1>7, <2>7
  <2> HIDE DEF rec
  <2>9. Apart(ha) BY <1>8, <2>3, NoPartnerType
  <2>10. h.ex \notin {"grid", "report"} BY <1>11
  <2>11. Replies(a, h, r)
        BY <1>2, <1>4, <2>3, <2>4, <2>5, <2>7, <2>8, <2>9, <2>10, NoPartnerType DEF Replies, tx
  <2> QED BY <1>11, <2>11 DEF r
<1> QED BY <1>1, <1>9, <1>10, <1>11 DEF Exchange

(* Only the partner and the two lists of past partners matter to a reply.    *)
LEMMA RepliesSame ==
  ASSUME NEW a, NEW b, NEW h, NEW r, NEW s, Replies(a, h, r),
         b.recent = a.recent, b.dropped = a.dropped, b.partner = a.partner,
         s.a.recent = r.a.recent, s.a.dropped = r.a.dropped, s.a.partner = r.a.partner,
         s.tx = r.tx, s.logged = r.logged
  PROVE  Replies(b, h, s)
<1>1. Apart(r.a) => Apart(s.a) BY DEF Apart
<1>2. InRecent(a, h.from) <=> InRecent(b, h.from) BY DEF InRecent
<1>3. Reported(a, h.from) <=> Reported(b, h.from) BY DEF Reported
<1> QED BY <1>1, <1>2, <1>3 DEF Replies

(* A decision answers one message of the batch or of the queue ...           *)
Answers(a, batch, r) ==
  \E h \in Heard :
    /\ h.ex # "s73" /\ (h \in Elts(batch) \/ \E e \in Elts(a.pending) : e.msg = h)
    /\ Replies(a, h, r) /\ a.partner.call \in {NoCall, h.from}
    /\ Elts(r.a.pending) \subseteq {e \in Elts(a.pending) : e.msg.from # h.from} \cup Fresh(batch, h.from)

(* ... or nobody: CQ, the last message to the partner once more, or nothing. *)
Repeats(a, batch, r) ==
  /\ r.a.recent = a.recent /\ r.a.dropped = a.dropped /\ r.a.partner = a.partner
  /\ r.logged = NoRecord /\ Elts(r.a.pending) \subseteq Elts(a.pending) \cup Fresh(batch, a.partner.call)
  /\ r.tx \in {NoTx, Cq} \/ (a.partner.call # NoCall /\ r.tx = a.partner.last_tx)

Acts(a, batch, r) == Apart(r.a) /\ (Answers(a, batch, r) \/ Repeats(a, batch, r))

(* Queueing after the reply: nothing but the queue changes.                  *)
Carries(r, s, batch, e) ==
  /\ s.a.recent = r.a.recent /\ s.a.dropped = r.a.dropped /\ s.a.partner = r.a.partner
  /\ s.tx = r.tx /\ s.logged = r.logged
  /\ Elts(s.a.pending) \subseteq Elts(r.a.pending) \cup Fresh(batch, e)

LEMMA QueueDoes ==
  ASSUME NEW r, Result(r), r.a \in Machine, Waiting(r.a.pending), NEW batch \in Seq(Heard), NEW e,
         NEW s, s = Queued(r, batch, e) \/ s = QueuedBusy(r, batch, e)
  PROVE  Carries(r, s, batch, e)
<1> DEFINE a == r.a
           b == queue_others(a, batch, e)
           z == [b EXCEPT !.idle = 0]
<1>1. PICK p : b = [a EXCEPT !.pending = p] /\ Waiting(p) /\ Elts(p) \subseteq Elts(a.pending) \cup Fresh(batch, e)
     BY QueueOthersKeeps
<1>2. r = [a |-> a, tx |-> r.tx, logged |-> r.logged] BY DEF Result
<1> HIDE DEF b
<1>3. s = [a |-> b, tx |-> r.tx, logged |-> r.logged] \/ s = [a |-> z, tx |-> r.tx, logged |-> r.logged]
     BY <1>2 DEF Queued, QueuedBusy, b
<1>4. DOMAIN a = {"phase", "partner", "pending", "recent", "dropped", "logged", "idle", "done_age"}
     BY DEF Machine
<1> HIDE DEF a
<1>5. /\ b.partner = a.partner /\ b.pending = p /\ b.recent = a.recent /\ b.dropped = a.dropped
      /\ z.partner = a.partner /\ z.pending = p /\ z.recent = a.recent /\ z.dropped = a.dropped
     BY <1>1, <1>4
<1> HIDE DEF z
<1>6. (s.a = b \/ s.a = z) /\ s.tx = r.tx /\ s.logged = r.logged BY <1>3
<1> QED BY <1>1, <1>5, <1>6 DEF a, Carries

(* CQ answers nobody.                                                       *)
LEMMA CqDoes ==
  ASSUME NEW a, Open(a), Apart(a), NEW batch
  PROVE  Acts(a, batch, cq(a))
<1> DEFINE r == cq(a)
           n == Plus(a.idle, 1, IDLE_STOP)
           stop == IDLE_STOP > 0 /\ n > IDLE_STOP
           f == IF stop THEN "Stopped" ELSE "Cq"
           tx == IF stop THEN NoTx ELSE Cq
           b == [a EXCEPT !.idle = n, !.phase = f]
<1>1. r = [a |-> b, tx |-> tx, logged |-> NoRecord] BY DEF cq
<1>2. a \in Machine BY DEF Open, Sound
<1>3. tx \in {NoTx, Cq} OBVIOUS
<1> HIDE DEF n, f, tx, r
<1>4. b.partner = a.partner /\ b.pending = a.pending /\ b.recent = a.recent /\ b.dropped = a.dropped
     BY <1>2 DEF Machine
<1> HIDE DEF b
<1>5. r.a = b /\ r.tx = tx /\ r.logged = NoRecord BY <1>1
<1>6. Apart(b) BY <1>4 DEF Apart
<1>7. Repeats(a, batch, r) BY <1>3, <1>4, <1>5 DEF Repeats
<1> QED BY <1>5, <1>6, <1>7 DEF Acts, r

(* The next caller is one who was heard or waits; otherwise CQ.              *)
LEMMA NextCallerDoes ==
  ASSUME NEW a, Open(a), Apart(a), a.partner.call = NoCall, NEW batch \in Seq(Heard)
  PROVE  Acts(a, batch, next_caller_or_cq(a, batch))
<1> DEFINE W == {i \in DOMAIN a.pending : From(batch, a.pending[i].msg.from) = {}}
           waiting == retain(a.pending, W)
           msgs == [i \in DOMAIN waiting |-> waiting[i].msg]
           all == batch \o msgs
           I == {i \in DOMAIN all : all[i].ex # "s73"}
           pool == retain(all, I)
           pick == Strongest(pool)
           others == {i \in DOMAIN a.pending : a.pending[i].msg.from # pick.from}
           q == retain(a.pending, others)
           b == [a EXCEPT !.pending = q]
           r == reply(b, pick)
           e == pick.from
           z == next_caller_or_cq(a, batch)
<1>1. a \in Machine /\ Waiting(a.pending) /\ Once(a.recent)
      /\ Len(a.dropped) <= DROPPED_MAX /\ Under(a.logged) /\ Ages(a.recent, 1)
     BY DEF Open, Sound
<1>2. z = IF pool = <<>> THEN cq(a) ELSE QueuedBusy(r, batch, e)
     BY DEF next_caller_or_cq, QueuedBusy
<1>3. a.pending \in Seq(Entry) BY <1>1 DEF Waiting
<1>4. waiting \in Seq(Entry) /\ \A x \in Elts(waiting) : x \in Elts(a.pending)
  <2>1. Waiting(waiting) BY <1>1, RetainWaiting
  <2>2. Elts(waiting) = {a.pending[k] : k \in {k \in 1..Len(a.pending) : k \in W}} BY <1>3, RetainElts
  <2> HIDE DEF waiting, W
  <2> QED BY <2>1, <2>2 DEF Waiting, Elts
<1> HIDE DEF waiting
<1>5. /\ msgs \in Seq(Heard) /\ Len(msgs) = Len(waiting)
      /\ \A i \in 1..Len(msgs) : \E x \in Elts(a.pending) : x.msg = msgs[i]
  <2>1. \A i \in 1..Len(waiting) : waiting[i].msg \in Heard BY <1>4, EntryFields
  <2>2. DOMAIN waiting = 1..Len(waiting) /\ Len(waiting) \in Nat BY <1>4
  <2>3. msgs \in Seq(Heard) /\ Len(msgs) = Len(waiting) BY <2>1, <2>2
  <2>4. ASSUME NEW i \in 1..Len(waiting) PROVE waiting[i] \in Elts(a.pending) /\ msgs[i] = waiting[i].msg
       BY <1>4, <2>2 DEF Elts
  <2> HIDE DEF msgs
  <2> QED BY <2>3, <2>4
<1> HIDE DEF msgs
<1>6. /\ all \in Seq(Heard)
      /\ \A l \in 1..Len(all) : all[l] \in Elts(batch) \/ \E x \in Elts(a.pending) : x.msg = all[l]
  <2>1. all \in Seq(Heard) /\ Len(all) = Len(batch) + Len(msgs) /\ Len(batch) \in Nat /\ Len(msgs) \in Nat
       BY <1>5
  <2>2. ASSUME NEW l \in 1..Len(all)
        PROVE  \/ l \in 1..Len(batch) /\ all[l] = batch[l]
               \/ l - Len(batch) \in 1..Len(msgs) /\ all[l] = msgs[l - Len(batch)]
       BY <1>5, <2>1
  <2> HIDE DEF all
  <2>3. ASSUME NEW l \in 1..Len(all) PROVE all[l] \in Elts(batch) \/ \E x \in Elts(a.pending) : x.msg = all[l]
       BY <1>5, <2>2 DEF Elts
  <2> QED BY <2>1, <2>3
<1> HIDE DEF all
<1>7. pool \in Seq(Heard) /\ Sublist(pool, all, I) BY <1>6, Retained
<1>8. CASE pool = <<>> BY <1>2, <1>8, CqDoes
<1>9. CASE pool # <<>>
  <2> HIDE DEF pool
  <2>1. PICK k \in 1..Len(pool) : pick = pool[k] BY <1>7, <1>9, StrongestIsThere
  <2>2. /\ pick \in Heard /\ pick.ex # "s73"
        /\ pick \in Elts(batch) \/ \E x \in Elts(a.pending) : x.msg = pick
    <3>1. PICK l \in 1..Len(all) : l \in I /\ pool[k] = all[l] BY <1>7 DEF Sublist
    <3> QED BY <1>6, <1>7, <2>1, <3>1
  <2> HIDE DEF pick, I
  <2>3. Waiting(q) /\ Absent(q, e) /\ Elts(q) = {x \in Elts(a.pending) : x.msg.from # e}
    <3>1. Waiting(q)
      <4> HIDE DEF others
      <4> QED BY <1>1, RetainWaiting
    <3>2. Elts(q) = {a.pending[j] : j \in {j \in 1..Len(a.pending) : j \in others}} BY <1>3, RetainElts
    <3>3. DOMAIN a.pending = 1..Len(a.pending) BY <1>3
    <3> HIDE DEF q
    <3>4. Elts(q) = {x \in Elts(a.pending) : x.msg.from # e} BY <3>2, <3>3 DEF Elts
    <3>5. Absent(q, e) BY <3>4 DEF Absent, Elts
    <3> QED BY <3>1, <3>4, <3>5
  <2>4. q \in Seq(Entry) BY <2>3 DEF Waiting
  <2> HIDE DEF q
  <2>5. /\ b \in Machine /\ b.partner = a.partner /\ b.pending = q /\ b.recent = a.recent
        /\ b.logged = a.logged /\ b.dropped = a.dropped
       BY <1>1, <2>4 DEF Machine
  <2> HIDE DEF b
  <2>6. Open(b) /\ Apart(b) /\ b.partner.call = NoCall BY <1>1, <2>3, <2>5, NobodyWaits DEF Open, Sound, Apart
  <2>7. Outcome(r) /\ r.a.pending = q BY <2>2, <2>3, <2>5, <2>6, ReplyKeeps
  <2>8. Replies(b, pick, r) BY <2>2, <2>3, <2>5, <2>6, ReplyDoes
  <2>9. Result(r) /\ r.a \in Machine /\ Waiting(r.a.pending) BY <2>3, <2>7 DEF Outcome, Settled, Sound
  <2> HIDE DEF r
  <2>10. z = QueuedBusy(r, batch, e) BY <1>2, <1>9
  <2> HIDE DEF z
  <2>11. /\ z.a.recent = r.a.recent /\ z.a.dropped = r.a.dropped /\ z.a.partner = r.a.partner
         /\ z.tx = r.tx /\ z.logged = r.logged
         /\ Elts(z.a.pending) \subseteq Elts(r.a.pending) \cup Fresh(batch, e)
    <3>1. Carries(r, z, batch, e) BY <2>9, <2>10, QueueDoes
    <3> QED BY <3>1 DEF Carries
  <2>12. Replies(a, pick, z) BY <2>5, <2>8, <2>11, RepliesSame
  <2>13. Elts(z.a.pending) \subseteq {x \in Elts(a.pending) : x.msg.from # pick.from} \cup Fresh(batch, pick.from)
        BY <2>3, <2>7, <2>11
  <2>14. Apart(z.a) BY <2>12 DEF Replies
  <2> QED BY <2>2, <2>12, <2>13, <2>14 DEF Acts, Answers, z
<1> QED BY <1>8, <1>9

(* The partner who went silent is put on the list of dropped ones.           *)
LEMMA DropDoes ==
  ASSUME NEW a, Open(a), Apart(a), a.partner.call \in Call
  PROVE  LET b == Drop(a)
             x == [call |-> a.partner.call, rcvd |-> a.partner.rcvd]
         IN  /\ Apart(b) /\ b.partner = NoPartner /\ b.recent = a.recent /\ b.pending = a.pending
             /\ Elts(b.dropped) \subseteq Elts(a.dropped) \cup {x}
             /\ Len(a.dropped) < DROPPED_MAX => Elts(b.dropped) = Elts(a.dropped) \cup {x}
<1> DEFINE s == a.dropped
           room == IF Len(s) = DROPPED_MAX THEN Tail(s) ELSE s
           x == [call |-> a.partner.call, rcvd |-> a.partner.rcvd]
           e == Append(room, x)
           b == Drop(a)
<1>1. a \in Machine /\ Len(s) <= DROPPED_MAX BY DEF Open, Sound
<1>2. s \in Seq(Lost) /\ a.partner \in Partner BY <1>1, MachineFields
<1>3. x \in Lost /\ x.call = a.partner.call BY <1>2, PartnerFields DEF Lost
<1>4. b = [a EXCEPT !.dropped = e, !.partner = NoPartner] BY DEF Drop
<1>5. Once(s) /\ \A d \in Elts(s) : d.call # a.partner.call BY DEF Apart
<1> HIDE DEF x, b, s
<1>6. /\ room \in Seq(Lost) /\ Once(room) /\ Elts(room) \subseteq Elts(s)
      /\ Len(s) < DROPPED_MAX => room = s
  <2>1. DROPPED_MAX \in Nat \ {0} /\ Len(s) \in Nat BY <1>2, ActivatorAssumption
  <2>2. CASE Len(s) = DROPPED_MAX
    <3>1. s # <<>> BY <1>2, <2>1, <2>2
    <3>2. Tail(s) \in Seq(Lost) /\ Len(Tail(s)) = Len(s) - 1
          /\ \A i \in 1..Len(Tail(s)) : Tail(s)[i] = s[i + 1] /\ i + 1 \in 1..Len(s)
         BY <1>2, <2>1, <2>2, <3>1
    <3>3. room = Tail(s) BY <2>2
    <3> HIDE DEF room
    <3>4. Once(room)
      <4>1. ASSUME NEW i \in 1..Len(room), NEW j \in 1..Len(room), room[i].call = room[j].call PROVE i = j
        <5>1. i + 1 \in 1..Len(s) /\ j + 1 \in 1..Len(s) /\ s[i + 1].call = s[j + 1].call BY <3>2, <3>3, <4>1
        <5>2. i + 1 = j + 1 BY <1>5, <5>1 DEF Once
        <5>3. i \in Int /\ j \in Int OBVIOUS
        <5> QED BY <5>2, <5>3
      <4> QED BY <4>1 DEF Once
    <3>5. Elts(room) \subseteq Elts(s) BY <3>2, <3>3 DEF Elts
    <3> QED BY <2>1, <2>2, <3>2, <3>3, <3>4, <3>5
  <2>3. CASE Len(s) # DROPPED_MAX BY <1>2, <1>5, <2>3
  <2> QED BY <2>2, <2>3
<1> HIDE DEF room
<1>7. Elts(e) = Elts(room) \cup {x} BY <1>3, <1>6, AppendElts
<1>8. Once(e)
  <2> DEFINE n == Len(room)
  <2>1. Len(e) = n + 1 /\ n \in Nat /\ e[n + 1] = x /\ \A i \in 1..n : e[i] = room[i] BY <1>6
  <2>2. \A i \in 1..n : room[i].call # x.call BY <1>3, <1>5, <1>6 DEF Elts
  <2>3. \A i, j \in 1..n : room[i].call = room[j].call => i = j BY <1>6 DEF Once
  <2> HIDE DEF n, e
  <2>4. \A i \in 1..(n + 1) : i = n + 1 \/ i \in 1..n BY <2>1
  <2>5. \A i, j \in 1..(n + 1) : e[i].call = e[j].call => i = j BY <2>1, <2>2, <2>3, <2>4
  <2> QED BY <2>1, <2>5 DEF Once
<1> HIDE DEF e
<1>9. b.dropped = e /\ b.partner = NoPartner /\ b.recent = a.recent /\ b.pending = a.pending
     BY <1>1, <1>4 DEF Machine
<1>10. \A d \in Elts(e) : d.call # NoCall
  <2>1. \A d \in Elts(room) : d \in Lost BY <1>6 DEF Elts
  <2>2. \A d \in Elts(e) : d \in Lost BY <1>3, <1>7, <2>1
  <2> QED BY <2>2, ActivatorAssumption DEF Lost
<1>11. Apart(b) BY <1>8, <1>9, <1>10, NoPartnerType DEF Apart
<1>12. Elts(e) \subseteq Elts(s) \cup {x} BY <1>6, <1>7
<1>13. Len(s) < DROPPED_MAX => Elts(e) = Elts(s) \cup {x} BY <1>6, <1>7
<1> QED BY <1>9, <1>11, <1>12, <1>13 DEF b, x, s

(* The partner says goodbye; what else was heard is queued.                  *)
Goodbye(a, batch, b) ==
  /\ Open(b) /\ Apart(b) /\ b.partner.call = NoCall
  /\ b.recent = a.recent /\ Elts(b.dropped) = Elts(a.dropped)
  /\ Elts(b.pending) \subseteq Elts(a.pending) \cup Fresh(batch, a.partner.call)
  /\ [from |-> a.partner.call, ex |-> "s73"] \in Elts(batch)

(* The decision while the machine runs, on what is left after the expiry.    *)
Decides3(a, batch, r) ==
  \/ Acts(a, batch, r)
  \/ \E b : Goodbye(a, batch, b) /\ Acts(b, <<>>, r)
  \/ /\ a.partner.call \in Call /\ \A m \in Elts(batch) : m.from # a.partner.call
     /\ Acts(Drop(a), batch, r)

(* Activator::decide_active, after its expiry.                              *)
LEMMA DecideActiveDoes ==
  ASSUME NEW a0, Open(Expire(a0)), Apart(Expire(a0)), NEW batch \in Seq(Heard)
  PROVE  Decides3(Expire(a0), batch, decide_active(a0, batch))
<1> DEFINE a == Expire(a0)
           c == a.partner.call
           h == best_from(batch, c)
           r == reply(a, h)
           queued == queue_others(r.a, batch, c)
           z == decide_active(a0, batch)
<1>1. Open(a) /\ Apart(a) OBVIOUS
<1>2. z = IF c = NoCall THEN next_caller_or_cq(a, batch)
          ELSE IF From(batch, c) # {}
          THEN IF r.tx = NoTx THEN next_caller_or_cq(queued, <<>>) ELSE Queued(r, batch, c)
          ELSE IF a.partner.quiet < GIVE_UP
          THEN [a |-> queue_others(a, batch, c), tx |-> a.partner.last_tx, logged |-> NoRecord]
          ELSE next_caller_or_cq(Drop(a), batch)
     BY DEF decide_active, Queued
<1> HIDE DEF a, z
<1>3. a \in Machine /\ Waiting(a.pending) /\ Absent(a.pending, c) BY <1>1 DEF Open, Sound
<1>4. c \in Call \cup {NoCall} BY <1>3, MachineFields, PartnerFields
<1>5. a.pending \in Seq(Entry) BY <1>3 DEF Waiting
<1>6. CASE c = NoCall BY <1>1, <1>2, <1>6, NextCallerDoes DEF Decides3, a, z
<1>7. CASE c # NoCall /\ From(batch, c) # {}
  <2>1. PICK i \in 1..Len(batch) : h = batch[i] /\ batch[i].from = c BY <1>7, BestIsThere
  <2>2. batch[i] \in Heard OBVIOUS
  <2>3. h \in Heard /\ h.from = c /\ h \in Elts(batch) BY <2>1, <2>2 DEF Elts
  <2> HIDE DEF h
  <2>4. /\ Result(r) /\ r.a.pending = a.pending
        /\ h.ex = "s73" => r.tx = NoTx /\ Open(r.a) /\ r.a.partner.call = NoCall
        /\ h.ex # "s73" => r.tx # NoTx /\ Outcome(r)
       BY <1>1, <1>3, <2>3, ReplyKeeps
  <2>5. /\ h.ex # "s73" => Replies(a, h, r)
        /\ h.ex = "s73" => /\ r.a.recent = a.recent /\ Apart(r.a)
                           /\ Elts(r.a.dropped) = Besides(Elts(a.dropped), c)
       BY <1>1, <1>3, <2>3, ReplyDoes
  <2>6. {e \in Elts(a.pending) : e.msg.from # c} = Elts(a.pending) BY <1>3 DEF Absent, Elts
  <2> HIDE DEF r, c
  <2>7. CASE h.ex = "s73"
    <3> DEFINE y == r.a
    <3>1. z = next_caller_or_cq(queued, <<>>) BY <1>2, <1>7, <2>4, <2>7
    <3>2. Open(y) /\ y.partner.call = NoCall /\ y.pending = a.pending /\ y.recent = a.recent /\ Apart(y)
         BY <2>4, <2>5, <2>7
    <3>3. y \in Machine /\ Waiting(y.pending) /\ Once(y.recent)
          /\ Len(y.dropped) <= DROPPED_MAX /\ Under(y.logged) /\ Ages(y.recent, 1)
         BY <3>2 DEF Open, Sound
    <3>4. Elts(y.dropped) = Elts(a.dropped) BY <1>1, <2>5, <2>7 DEF Besides, Apart, c
    <3> HIDE DEF y
    <3>5. queued = queue_others(y, batch, c) BY DEF y
    <3>6. PICK p : queued = [y EXCEPT !.pending = p] /\ Waiting(p)
                   /\ Elts(p) \subseteq Elts(y.pending) \cup Fresh(batch, c)
         BY <3>3, <3>5, QueueOthersKeeps
    <3> HIDE DEF queued
    <3>7. p \in Seq(Entry) BY <3>6 DEF Waiting
    <3>8. /\ queued \in Machine /\ queued.partner = y.partner /\ queued.pending = p
          /\ queued.recent = y.recent /\ queued.logged = y.logged /\ queued.dropped = y.dropped
         BY <3>3, <3>6, <3>7 DEF Machine
    <3>9. Open(queued) /\ queued.partner.call = NoCall
         BY <3>2, <3>3, <3>6, <3>8, NobodyWaits DEF Open, Sound
    <3>10. Apart(queued) BY <3>2, <3>8 DEF Apart
    <3>11. <<>> \in Seq(Heard) OBVIOUS
    <3>12. Acts(queued, <<>>, z) BY <3>1, <3>9, <3>10, <3>11, NextCallerDoes
    <3>13. h = [from |-> c, ex |-> "s73"] BY <2>3, <2>7 DEF Heard
    <3>14. Elts(queued.pending) \subseteq Elts(a.pending) \cup Fresh(batch, c) BY <3>2, <3>6, <3>8
    <3>15. Goodbye(a, batch, queued)
          BY <2>3, <3>2, <3>4, <3>8, <3>9, <3>10, <3>13, <3>14 DEF Goodbye, c
    <3> QED BY <3>12, <3>15 DEF Decides3, a, z
  <2>8. CASE h.ex # "s73"
    <3>1. z = Queued(r, batch, c) BY <1>2, <1>7, <2>4, <2>8
    <3>2. r.a \in Machine /\ Waiting(r.a.pending) BY <2>4, <2>8 DEF Outcome, Settled, Sound
    <3>3. /\ z.a.recent = r.a.recent /\ z.a.dropped = r.a.dropped /\ z.a.partner = r.a.partner
          /\ z.tx = r.tx /\ z.logged = r.logged
          /\ Elts(z.a.pending) \subseteq Elts(r.a.pending) \cup Fresh(batch, c)
      <4>1. Carries(r, z, batch, c) BY <2>4, <3>1, <3>2, QueueDoes
      <4> QED BY <4>1 DEF Carries
    <3>4. Replies(a, h, z) BY <2>5, <2>8, <3>3, RepliesSame
    <3>5. Elts(z.a.pending) \subseteq {e \in Elts(a.pending) : e.msg.from # h.from} \cup Fresh(batch, h.from)
         BY <2>3, <2>4, <2>6, <3>3
    <3>6. Apart(z.a) BY <3>4 DEF Replies
    <3>7. Acts(a, batch, z) BY <2>3, <2>8, <3>4, <3>5, <3>6 DEF Acts, Answers, c
    <3> QED BY <3>7 DEF Decides3, a, z
  <2> QED BY <2>7, <2>8
<1>8. CASE c # NoCall /\ From(batch, c) = {} /\ a.partner.quiet < GIVE_UP
  <2> DEFINE s == [a |-> a, tx |-> a.partner.last_tx, logged |-> NoRecord]
  <2>1. z = Queued(s, batch, c) BY <1>2, <1>8 DEF Queued
  <2>2. s.a = a /\ s.tx = a.partner.last_tx /\ s.logged = NoRecord /\ Result(s) BY DEF Result
  <2> HIDE DEF s, c
  <2>3. /\ z.a.recent = a.recent /\ z.a.dropped = a.dropped /\ z.a.partner = a.partner
        /\ z.tx = a.partner.last_tx /\ z.logged = NoRecord
        /\ Elts(z.a.pending) \subseteq Elts(a.pending) \cup Fresh(batch, c)
    <3>1. s.a \in Machine /\ Waiting(s.a.pending) BY <1>3, <2>2
    <3>2. /\ z.a.recent = s.a.recent /\ z.a.dropped = s.a.dropped /\ z.a.partner = s.a.partner
          /\ z.tx = s.tx /\ z.logged = s.logged
          /\ Elts(z.a.pending) \subseteq Elts(s.a.pending) \cup Fresh(batch, c)
      <4>1. Carries(s, z, batch, c) BY <2>1, <2>2, <3>1, QueueDoes
      <4> QED BY <4>1 DEF Carries
    <3> QED BY <2>2, <3>2
  <2>4. Apart(z.a) BY <1>1, <2>3 DEF Apart
  <2>5. Repeats(a, batch, z) BY <1>8, <2>3 DEF Repeats, c
  <2> QED BY <2>4, <2>5 DEF Decides3, Acts, a, z
<1>9. CASE c # NoCall /\ From(batch, c) = {} /\ ~(a.partner.quiet < GIVE_UP)
  <2>1. z = next_caller_or_cq(Drop(a), batch) BY <1>2, <1>9
  <2>2. Open(Drop(a)) /\ Drop(a).partner.call = NoCall BY <1>1, <1>4, <1>9, DropKeeps
  <2>3. Apart(Drop(a)) BY <1>1, <1>4, <1>9, DropDoes
  <2>4. Acts(Drop(a), batch, z) BY <2>1, <2>2, <2>3, NextCallerDoes
  <2>5. \A m \in Elts(batch) : m.from # c BY <1>9 DEF From, Elts
  <2> QED BY <1>4, <1>9, <2>4, <2>5 DEF Decides3, a, z
<1> QED BY <1>6, <1>7, <1>8, <1>9

-----------------------------------------------------------------------------
(* The passing of one period. *)

OlderBy(S, ttl) == {[e EXCEPT !.age = Plus(@, 1, ttl)] : e \in S}

(* Every entry is one period older.                                         *)
LEMMA AgedElts ==
  ASSUME NEW s, NEW ttl, DOMAIN s = 1..Len(s), Len(s) \in Nat
  PROVE  Elts(Aged(s, 1, ttl)) = OlderBy(Elts(s), ttl)
<1> DEFINE q == Aged(s, 1, ttl)
<1>1. q = [i \in 1..Len(s) |-> [s[i] EXCEPT !.age = Plus(@, 1, ttl)]] BY DEF Aged
<1>2. Len(q) = Len(s) BY <1>1
<1>3. \A i \in 1..Len(s) : q[i] = [s[i] EXCEPT !.age = Plus(@, 1, ttl)] BY <1>1
<1> HIDE DEF q
<1> DEFINE U(e) == [e EXCEPT !.age = Plus(@, 1, ttl)]
<1>4. OlderBy(Elts(s), ttl) = {U(e) : e \in Elts(s)} BY DEF OlderBy
<1>5. \A i \in 1..Len(s) : q[i] = U(s[i]) BY <1>3
<1> HIDE DEF U
<1>6. Elts(q) = {U(e) : e \in Elts(s)} BY <1>2, <1>5 DEF Elts
<1> QED BY <1>4, <1>6 DEF q

(* A period passes for the lists; nobody is forgotten yet.                  *)
LEMMA ElapseDoes ==
  ASSUME NEW a, a \in Machine, Apart(a)
  PROVE  LET b == Elapse(a, 1)
         IN  /\ b.dropped = a.dropped /\ Apart(b) /\ b.partner.call = a.partner.call
             /\ b.partner.rcvd = a.partner.rcvd /\ b.partner.last_tx = a.partner.last_tx
             /\ Elts(b.recent) = OlderBy(Elts(a.recent), RECENT_TTL)
             /\ Elts(b.pending) = OlderBy(Elts(a.pending), PENDING_TTL)
<1> DEFINE b == Elapse(a, 1)
           p == IF a.partner = NoPartner THEN a.partner
                ELSE [a.partner EXCEPT !.quiet = Plus(@, 1, GIVE_UP)]
           w == Aged(a.pending, 1, PENDING_TTL)
           r == Aged(a.recent, 1, RECENT_TTL)
           g == IF a.phase = "Done" THEN Plus(a.done_age, 1, GRACE) ELSE 0
<1>1. b = [a EXCEPT !.partner = p, !.pending = w, !.recent = r, !.done_age = g] BY DEF Elapse
<1>2. a.partner \in Partner /\ a.recent \in Seq(Retired) /\ a.pending \in Seq(Entry) BY MachineFields
<1>3. p.call = a.partner.call /\ p.rcvd = a.partner.rcvd /\ p.last_tx = a.partner.last_tx
     BY <1>2 DEF Partner
<1>4. Elts(w) = OlderBy(Elts(a.pending), PENDING_TTL) /\ Elts(r) = OlderBy(Elts(a.recent), RECENT_TTL)
     BY <1>2, AgedElts
<1> HIDE DEF p, w, r, g, b
<1>5. b.partner = p /\ b.pending = w /\ b.recent = r /\ b.dropped = a.dropped BY <1>1 DEF Machine
<1> QED BY <1>3, <1>4, <1>5 DEF b, Apart

(* What is past its time goes, the rest stays.                              *)
LEMMA ExpireDoes ==
  ASSUME NEW a, a \in Machine, Apart(a)
  PROVE  LET b == Expire(a)
         IN  /\ b.dropped = a.dropped /\ Apart(b) /\ b.partner = a.partner
             /\ Elts(b.recent) = {e \in Elts(a.recent) : e.age <= RECENT_TTL}
             /\ Elts(b.pending) = {e \in Elts(a.pending) : e.age <= PENDING_TTL}
<1> DEFINE b == Expire(a)
           I == {i \in DOMAIN a.pending : a.pending[i].age <= PENDING_TTL}
           J == {i \in DOMAIN a.recent : a.recent[i].age <= RECENT_TTL}
           w == retain(a.pending, I)
           r == retain(a.recent, J)
<1>1. b = [a EXCEPT !.pending = w, !.recent = r] BY DEF Expire
<1>2. a.recent \in Seq(Retired) /\ a.pending \in Seq(Entry) BY MachineFields
<1>3. DOMAIN a.recent = 1..Len(a.recent) /\ DOMAIN a.pending = 1..Len(a.pending) BY <1>2
<1>4. Elts(w) = {a.pending[k] : k \in {k \in 1..Len(a.pending) : k \in I}} BY <1>2, RetainElts
<1>5. Elts(r) = {a.recent[k] : k \in {k \in 1..Len(a.recent) : k \in J}} BY <1>2, RetainElts
<1> HIDE DEF w, r, b
<1>6. Elts(w) = {e \in Elts(a.pending) : e.age <= PENDING_TTL} BY <1>3, <1>4 DEF Elts
<1>7. Elts(r) = {e \in Elts(a.recent) : e.age <= RECENT_TTL} BY <1>3, <1>5 DEF Elts
<1> HIDE DEF I, J
<1>8. b.partner = a.partner /\ b.pending = w /\ b.recent = r /\ b.dropped = a.dropped BY <1>1 DEF Machine
<1> QED BY <1>6, <1>7, <1>8 DEF b, Apart

(* A decision of a machine that does not run: nothing but RR73 to a logged   *)
(* partner.                                                                  *)
Rests(a, r) ==
  /\ r.a.recent = a.recent /\ r.a.dropped = a.dropped /\ r.a.partner = a.partner
  /\ r.a.phase \in {"Stopped", "Done"} /\ r.logged = NoRecord
  /\ r.tx = NoTx \/ (r.tx.text = "rr73" /\ InRecent(r.a, r.tx.to))

(* Activator::decide_done.                                                  *)
LEMMA DecideDoneDoes ==
  ASSUME NEW a, a \in Machine, a.phase = "Done", NEW batch \in Seq(Heard)
  PROVE  Rests(a, decide_done(a, batch))
<1> DEFINE again == {i \in DOMAIN batch : batch[i].ex = "rreport" /\ InRecent(a, batch[i].from)}
           i == CHOOSE i \in again : \A j \in again : i <= j
           b == IF a.done_age > GRACE THEN [a EXCEPT !.phase = "Stopped"] ELSE a
           tx == IF a.done_age > GRACE \/ again = {} THEN NoTx ELSE std_msg(batch[i].from, "rr73")
           r == decide_done(a, batch)
<1>1. r = [a |-> b, tx |-> tx, logged |-> NoRecord] BY DEF decide_done
<1>2. tx = NoTx \/ (tx.text = "rr73" /\ InRecent(a, tx.to))
  <2>1. CASE again = {} BY <2>1
  <2>2. CASE again # {}
    <3>1. again \subseteq Nat /\ \A j \in again : InRecent(a, batch[j].from) OBVIOUS
    <3> HIDE DEF again
    <3>2. \E x \in again : \A j \in again : x <= j BY <2>2, <3>1, Least
    <3>3. i \in again BY <3>2, Zenon
    <3> HIDE DEF i
    <3> QED BY <3>1, <3>3 DEF std_msg
  <2> QED BY <2>1, <2>2
<1> HIDE DEF tx, r
<1>3. /\ b.partner = a.partner /\ b.recent = a.recent /\ b.dropped = a.dropped
      /\ b.phase \in {"Stopped", "Done"}
     BY DEF Machine
<1> HIDE DEF b
<1>4. InRecent(a, tx.to) <=> InRecent(b, tx.to) BY <1>3 DEF InRecent
<1>5. r.a = b /\ r.tx = tx /\ r.logged = NoRecord BY <1>1
<1> QED BY <1>2, <1>3, <1>4, <1>5 DEF Rests, r

(* The whole decision, one period after the last.                            *)
Passed(a) == Expire(Elapse(a, 1))
Runs(a) == a.phase \in {"Cq", "Working"}

(* Activator::decide, in its three phases.                                  *)
LEMMA DecideDoes ==
  ASSUME NEW a, Settled(a), Apart(a), NEW batch \in Seq(Heard)
  PROVE  LET r == decide(Elapse(a, 1), batch)
         IN  /\ Outcome(r)
             /\ Runs(a) => Open(Passed(a)) /\ Apart(Passed(a)) /\ Decides3(Passed(a), batch, r)
             /\ ~Runs(a) => Rests(Elapse(a, 1), r)
<1> DEFINE b == Elapse(a, 1)
           r == decide(b, batch)
<1>1. Sound(a) /\ (a.phase = "Working" <=> a.partner.call # NoCall)
      /\ (a.phase \in {"Cq", "Working"} => Under(a.logged) /\ Ages(a.recent, 0))
     BY DEF Settled
<1>2. 1 \in 1..MaxGap /\ 1 \in Nat /\ 1 > 0 BY ActivatorAssumption
<1>3. Outcome(r) BY <1>2, DecideKeeps
<1>4. /\ Sound(b) /\ b.phase = a.phase /\ b.logged = a.logged /\ (Ages(a.recent, 0) => Older(b.recent))
     BY <1>1, <1>2, ElapseKeeps
<1>5. a \in Machine /\ b \in Machine BY <1>1, <1>4 DEF Sound
<1>6. Apart(b) BY <1>5, ElapseDoes
<1>7. a.phase \in Phases BY <1>5, MachineFields
<1> HIDE DEF b, r
<1>8. CASE Runs(a)
  <2>1. r = decide_active(b, batch) BY <1>4, <1>8 DEF decide, r, Runs
  <2>2. Older(b.recent) /\ Under(b.logged) BY <1>1, <1>4, <1>8 DEF Runs
  <2>3. Open(Expire(b)) BY <1>4, <2>2, ExpireOpens
  <2>4. Apart(Expire(b)) BY <1>5, <1>6, ExpireDoes
  <2>5. Decides3(Expire(b), batch, r) BY <2>1, <2>3, <2>4, DecideActiveDoes
  <2> QED BY <1>3, <1>8, <2>3, <2>4, <2>5 DEF Passed, b, r
<1>9. CASE a.phase = "Stopped"
  <2>1. r = [a |-> b, tx |-> NoTx, logged |-> NoRecord] BY <1>4, <1>9 DEF decide, r
  <2>2. r.a = b /\ r.tx = NoTx /\ r.logged = NoRecord BY <2>1
  <2>3. Rests(b, r) BY <1>4, <1>9, <2>2 DEF Rests
  <2> QED BY <1>3, <1>9, <2>3 DEF Runs, b, r
<1>10. CASE a.phase = "Done"
  <2>1. r = decide_done(b, batch) BY <1>4, <1>10 DEF decide, r
  <2>2. Rests(b, r) BY <1>4, <1>5, <1>10, <2>1, DecideDoneDoes
  <2> QED BY <1>3, <1>10, <2>2 DEF Runs, b, r
<1> QED BY <1>7, <1>8, <1>9, <1>10 DEF Phases, Runs

-----------------------------------------------------------------------------
(* Our log *)

Final == {"rr73", "73"}

(* Nobody who is still a partner was sent a last message.                    *)
Unsaid(a) == a.partner.call # NoCall => a.partner.last_tx.text \notin Final

(* Who is sent a last message is among the logged partners, and who comes to *)
(* be among them is logged.                                                  *)
Logs(a, r) ==
  /\ Unsaid(r.a)
  /\ \A c \in Call : InRecent(r.a, c) => InRecent(a, c) \/ r.logged.call = c
  /\ r.tx.text \in Final => InRecent(r.a, r.tx.to)

(* One answer, or none, keeps the log.                                      *)
LEMMA ActsLogs ==
  ASSUME NEW a, NEW batch, NEW r, Acts(a, batch, r), Unsaid(a),
         a.recent \in Seq(Retired), r.a.recent \in Seq(Retired)
  PROVE  Logs(a, r)
<1>1. CASE Answers(a, batch, r)
  <2>1. PICK h \in Heard : h.ex # "s73" /\ Replies(a, h, r) BY <1>1 DEF Answers
  <2>2. h.from \in Call /\ h.ex \in {"grid", "report", "rreport", "rr73"} BY <2>1 DEF Heard, Exchange
  <2>3. r.tx.to = h.from /\ r.tx.text = Answer[h.ex] BY <2>1 DEF Replies, std_msg
  <2>4. CASE h.ex \in {"grid", "report"}
    <3>1. r.a.partner.last_tx = r.tx /\ Elts(r.a.recent) = Besides(Elts(a.recent), h.from)
         BY <2>1, <2>4 DEF Replies
    <3>2. r.tx.text \notin Final BY <2>3, <2>4 DEF Answer, Final
    <3>3. \A c : InRecent(r.a, c) => InRecent(a, c) BY <3>1, RecentElts DEF Besides
    <3> QED BY <3>1, <3>2, <3>3 DEF Logs, Unsaid
  <2>5. CASE h.ex \in {"rreport", "rr73"}
    <3> DEFINE e == [call |-> h.from, age |-> 0]
    <3>1. r.a.partner.call = NoCall /\ Retires(a.recent, r.a.recent, h.from)
          /\ (~InRecent(a, h.from) => r.logged.call = h.from)
         BY <2>1, <2>5 DEF Replies
    <3>2. e \in Elts(r.a.recent) /\ e.call = h.from
          /\ Elts(r.a.recent) \subseteq Besides(Elts(a.recent), h.from) \cup {e}
         BY <3>1 DEF Retires
    <3> HIDE DEF e
    <3>3. InRecent(r.a, h.from) BY <3>2, RecentElts
    <3>4. ASSUME NEW c, InRecent(r.a, c) PROVE InRecent(a, c) \/ r.logged.call = c
      <4>1. PICK x \in Elts(r.a.recent) : x.call = c BY <3>4, RecentElts
      <4>2. x \in Elts(a.recent) \/ c = h.from BY <3>2, <4>1 DEF Besides
      <4> QED BY <3>1, <4>1, <4>2, RecentElts
    <3> QED BY <2>3, <3>1, <3>3, <3>4 DEF Logs, Unsaid
  <2> QED BY <2>2, <2>4, <2>5
<1>2. CASE Repeats(a, batch, r)
  <2>1. r.a.recent = a.recent /\ r.a.partner = a.partner
        /\ (r.tx \in {NoTx, Cq} \/ (a.partner.call # NoCall /\ r.tx = a.partner.last_tx))
       BY <1>2 DEF Repeats
  <2>2. r.tx.text \notin Final BY <2>1 DEF Unsaid, NoTx, Cq, Final
  <2>3. \A c : InRecent(r.a, c) => InRecent(a, c) BY <2>1 DEF InRecent
  <2> QED BY <2>1, <2>2, <2>3 DEF Logs, Unsaid
<1> QED BY <1>1, <1>2 DEF Acts

(* So does a whole decision, whatever phase it is taken in.                 *)
LEMMA DecideLogs ==
  ASSUME NEW a, Settled(a), Apart(a), Unsaid(a), NEW batch \in Seq(Heard)
  PROVE  Logs(a, decide(Elapse(a, 1), batch)) /\ Apart(decide(Elapse(a, 1), batch).a)
<1> DEFINE b == Elapse(a, 1)
           r == decide(b, batch)
           p == Passed(a)
<1>1. /\ Outcome(r)
      /\ Runs(a) => Open(p) /\ Apart(p) /\ Decides3(p, batch, r)
      /\ ~Runs(a) => Rests(b, r)
     BY DecideDoes
<1>2. a \in Machine /\ r.a \in Machine BY <1>1 DEF Outcome, Settled, Sound
<1>3. /\ Apart(b) /\ b.partner.call = a.partner.call /\ b.partner.last_tx = a.partner.last_tx
      /\ Elts(b.recent) = OlderBy(Elts(a.recent), RECENT_TTL)
     BY <1>2, ElapseDoes
<1>4. b \in Machine
  <2>1. Sound(a) /\ 1 \in Nat /\ 1 > 0 BY DEF Settled
  <2>2. Sound(b) BY <2>1, ElapseKeeps
  <2> QED BY <2>2 DEF Sound
<1>5. a.recent \in Seq(Retired) /\ b.recent \in Seq(Retired) /\ r.a.recent \in Seq(Retired)
     BY <1>2, <1>4, MachineFields
<1>6. \A x \in Elts(b.recent) : \E y \in Elts(a.recent) : x.call = y.call
  <2>1. SUFFICES ASSUME NEW x \in Elts(b.recent) PROVE \E y \in Elts(a.recent) : x.call = y.call
       OBVIOUS
  <2>2. PICK y \in Elts(a.recent) : x = [y EXCEPT !.age = Plus(@, 1, RECENT_TTL)]
       BY <1>3 DEF OlderBy
  <2>3. y \in Retired BY <1>5 DEF Elts
  <2> QED BY <2>2, <2>3 DEF Retired
<1> HIDE DEF b
<1>7. \A c : InRecent(b, c) => InRecent(a, c) BY <1>5, <1>6, RecentElts
<1>8. CASE Runs(a)
  <2>1. /\ p.partner = b.partner /\ p.dropped = b.dropped
        /\ Elts(p.recent) = {e \in Elts(b.recent) : e.age <= RECENT_TTL}
       BY <1>3, <1>4, ExpireDoes DEF Passed, b
  <2>2. Open(p) /\ Apart(p) /\ Decides3(p, batch, r) BY <1>1, <1>8
  <2> HIDE DEF p, r
  <2>3. p \in Machine BY <2>2 DEF Open, Sound
  <2>4. p.recent \in Seq(Retired) BY <2>3, MachineFields
  <2>5. \A c : InRecent(p, c) => InRecent(a, c) BY <1>5, <1>7, <2>1, <2>4, RecentElts
  <2>6. Unsaid(p) BY <1>3, <2>1 DEF Unsaid
  <2>7. CASE Acts(p, batch, r)
    <3>1. Logs(p, r) BY <1>5, <2>4, <2>6, <2>7, ActsLogs
    <3> QED BY <2>5, <2>7, <3>1 DEF Logs, Acts, r, b
  <2>8. CASE \E q : Goodbye(p, batch, q) /\ Acts(q, <<>>, r)
    <3>1. PICK q : Goodbye(p, batch, q) /\ Acts(q, <<>>, r) BY <2>8
    <3>2. q.recent = p.recent /\ q.partner.call = NoCall BY <3>1 DEF Goodbye
    <3>3. Logs(q, r) BY <1>5, <2>4, <3>1, <3>2, ActsLogs DEF Unsaid
    <3>4. \A c : InRecent(q, c) => InRecent(p, c) BY <3>2 DEF InRecent
    <3> QED BY <2>5, <3>1, <3>3, <3>4 DEF Logs, Acts, r, b
  <2>9. CASE p.partner.call \in Call /\ Acts(Drop(p), batch, r)
    <3> DEFINE q == Drop(p)
    <3>1. q.recent = p.recent /\ q.partner = NoPartner BY <2>2, <2>9, DropDoes
    <3> HIDE DEF q
    <3>2. Logs(q, r) BY <1>5, <2>4, <2>9, <3>1, ActsLogs, NoPartnerType DEF Unsaid, q
    <3>3. \A c : InRecent(q, c) => InRecent(p, c) BY <3>1 DEF InRecent
    <3> QED BY <2>5, <2>9, <3>2, <3>3 DEF Logs, Acts, r, b
  <2> QED BY <2>2, <2>7, <2>8, <2>9 DEF Decides3
<1>9. CASE ~Runs(a)
  <2>1. Rests(b, r) BY <1>1, <1>9
  <2> HIDE DEF r
  <2>2. /\ r.a.recent = b.recent /\ r.a.dropped = b.dropped /\ r.a.partner = b.partner
        /\ r.tx = NoTx \/ (r.tx.text = "rr73" /\ InRecent(r.a, r.tx.to))
       BY <2>1 DEF Rests
  <2>3. Unsaid(r.a) /\ Apart(r.a) BY <1>3, <2>2 DEF Unsaid, Apart
  <2>4. \A c : InRecent(r.a, c) => InRecent(a, c) BY <1>7, <2>2 DEF InRecent
  <2> QED BY <2>2, <2>3, <2>4 DEF Logs, NoTx, Final, r, b
<1> QED BY <1>8, <1>9

-----------------------------------------------------------------------------
(* The callers and the band *)

States == {"call", "roger", "rr", "bye", "sent", "quiet"}

(* A finite set as a sequence: its elements, and no others.                 *)
LEMMA SetToSeqIs ==
  ASSUME NEW S, IsFiniteSet(S)
  PROVE  Cardinality(S) \in Nat /\ \A i \in 1..Cardinality(S) : SetToSeq(S)[i] \in S
<1> DEFINE n == Cardinality(S)
<1>1. n \in Nat /\ ExistsBijection(1..n, S) BY FS_CardinalityType
<1>2. PICK f : f \in Bijection(1..n, S) BY <1>1 DEF ExistsBijection
<1>3. f \in [1..n -> S] /\ IsInjective(f) BY <1>2 DEF Bijection, Injection
<1>4. SetToSeq(S) \in [1..n -> S] BY <1>3 DEF SetToSeq
<1> QED BY <1>1, <1>4

(* What reaches us in a period: messages the callers send in it.             *)
Sayings == {[from |-> c, ex |-> Says(c)] : c \in Sends}

(* Each state of a caller has its message.                                  *)
LEMMA SayingsType ==
  ASSUME st \in [Call -> States]
  PROVE  /\ Sayings \subseteq Heard /\ IsFiniteSet(Sends)
         /\ \A c \in Call : st[c] = "call" => Says(c) = Style[c]
         /\ \A c \in Call : st[c] = "roger" => Says(c) = "rreport"
         /\ \A c \in Call : st[c] = "rr" => Says(c) = "rr73"
         /\ \A c \in Call : st[c] = "bye" => Says(c) = "s73"
<1>1. \A c \in Call : Style[c] \in {"grid", "report"} BY ActivationAssumption
<1>2. /\ \A c \in Call : st[c] = "call" => Says(c) = Style[c]
      /\ \A c \in Call : st[c] = "roger" => Says(c) = "rreport"
      /\ \A c \in Call : st[c] = "rr" => Says(c) = "rr73"
      /\ \A c \in Call : st[c] = "bye" => Says(c) = "s73"
     BY DEF Says
<1>3. ASSUME NEW c \in Sends PROVE [from |-> c, ex |-> Says(c)] \in Heard
  <2>1. c \in Call /\ st[c] \in {"call", "roger", "rr", "bye"} BY DEF Sends
  <2>2. Says(c) \in Exchange BY <1>1, <1>2, <2>1 DEF Exchange
  <2> QED BY <2>1, <2>2 DEF Heard
<1>4. Sends \in SUBSET Call BY DEF Sends
<1>5. IsFiniteSet(Sends) BY <1>4, FS_Subset, ActivationAssumption
<1> QED BY <1>2, <1>3, <1>5 DEF Sayings

(* A period of the callers: what is heard was late or is said now.          *)
LEMMA TheirsDoes ==
  ASSUME Theirs, st \in [Call -> States], late \in Seq(Heard)
  PROVE  /\ heard' \in Seq(Heard) /\ late' \in Seq(Heard)
         /\ Elts(heard') \subseteq Elts(late) \cup Sayings /\ Elts(late') \subseteq Sayings
         /\ st' = [c \in Call |-> Sent(st[c])] /\ turn = "theirs" /\ turn' = "decide"
         /\ act' = act /\ out' = out /\ count' = count
<1>1. /\ st' = [c \in Call |-> Sent(st[c])] /\ turn = "theirs" /\ turn' = "decide"
      /\ act' = act /\ out' = out /\ count' = count
     BY DEF Theirs
<1> DEFINE Of(fate, f) == {c \in Sends : fate[c] = f}
           Msgs(fate, f) == [i \in 1..Cardinality(Of(fate, f)) |->
                               LET c == SetToSeq(Of(fate, f))[i] IN [from |-> c, ex |-> Says(c)]]
<1>2. PICK fate : heard' = late \o Msgs(fate, "copied") /\ late' = Msgs(fate, "late")
     BY DEF Theirs
<1>3. ASSUME NEW f PROVE Msgs(fate, f) \in Seq(Heard) /\ Elts(Msgs(fate, f)) \subseteq Sayings
  <2> DEFINE S == Of(fate, f)
             n == Cardinality(S)
             m == Msgs(fate, f)
             Say(c) == [from |-> c, ex |-> Says(c)]
  <2>1. S \subseteq Sends /\ IsFiniteSet(Sends) /\ Sayings \subseteq Heard BY SayingsType
  <2>2. IsFiniteSet(S) BY <2>1, FS_Subset
  <2>3. n \in Nat /\ \A i \in 1..n : SetToSeq(S)[i] \in S BY <2>2, SetToSeqIs
  <2>4. m = [i \in 1..n |-> Say(SetToSeq(S)[i])] OBVIOUS
  <2>5. \A c \in S : Say(c) \in Sayings BY <2>1 DEF Sayings
  <2> HIDE DEF S, n, m, Say
  <2>6. \A i \in 1..n : m[i] \in Sayings BY <2>3, <2>4, <2>5
  <2>7. Len(m) = n /\ m \in Seq(Heard) BY <2>1, <2>3, <2>4, <2>6
  <2>8. Elts(m) \subseteq Sayings BY <2>6, <2>7 DEF Elts
  <2> QED BY <2>7, <2>8 DEF m
<1>4. heard' \in Seq(Heard) /\ late' \in Seq(Heard) /\ Elts(late') \subseteq Sayings
  <2> DEFINE m == Msgs(fate, "copied")
             n == Msgs(fate, "late")
  <2>1. m \in Seq(Heard) /\ n \in Seq(Heard) /\ Elts(n) \subseteq Sayings BY <1>3
  <2>2. heard' = late \o m /\ late' = n BY <1>2
  <2> HIDE DEF m, n
  <2>3. late \o m \in Seq(Heard) BY <2>1
  <2> QED BY <2>1, <2>2, <2>3
<1>5. Elts(heard') \subseteq Elts(late) \cup Sayings
  <2> DEFINE m == Msgs(fate, "copied")
             k == late \o m
  <2>1. m \in Seq(Heard) /\ Elts(m) \subseteq Sayings BY <1>3
  <2>2. heard' = k BY <1>2
  <2> HIDE DEF m
  <2>3. Len(k) = Len(late) + Len(m) /\ Len(late) \in Nat /\ Len(m) \in Nat BY <2>1
  <2>4. ASSUME NEW l \in 1..Len(k)
        PROVE  \/ l \in 1..Len(late) /\ k[l] = late[l]
               \/ l - Len(late) \in 1..Len(m) /\ k[l] = m[l - Len(late)]
       BY <2>1, <2>3
  <2> HIDE DEF k
  <2>5. Elts(k) \subseteq Elts(late) \cup Elts(m) BY <2>4 DEF Elts
  <2> QED BY <2>1, <2>2, <2>5
<1> QED BY <1>1, <1>4, <1>5

(* The inductive invariant of the first theorem.                             *)
LogInv ==
  /\ Settled(act) /\ Apart(act) /\ Unsaid(act)
  /\ heard \in Seq(Heard) /\ late \in Seq(Heard) /\ st \in [Call -> States] /\ count \in [Call -> Nat]
  /\ \A c \in Call : InRecent(act, c) => count[c] >= 1
  /\ out.tx.text \in Final => InRecent(act, out.tx.to)
  /\ InOurLog

(* A new machine knows nobody.                                              *)
LEMMA FreshAir ==
  ASSUME NEW f \in {"Stopped", "Cq"}
  PROVE  LET a == [new EXCEPT !.phase = f]
         IN  /\ Settled(a) /\ Apart(a) /\ a.partner = NoPartner /\ a.recent = <<>> /\ a.dropped = <<>>
             /\ a.pending = <<>> /\ a.phase = f
<1> DEFINE a == [new EXCEPT !.phase = f]
<1>1. Settled(a) BY FreshMachine
<1>2. a.partner = NoPartner /\ a.recent = <<>> /\ a.dropped = <<>> /\ a.pending = <<>> /\ a.phase = f
     BY DEF new
<1> HIDE DEF a
<1>3. Len(<<>>) = 0 /\ 1..0 = {} OBVIOUS
<1>4. Apart(a) BY <1>2, <1>3 DEF Apart, Once, Elts
<1> QED BY <1>1, <1>2, <1>4 DEF a

(* It holds at the start ...                                                *)
LEMMA LogInit == ActivationInit => LogInv
<1> SUFFICES ASSUME ActivationInit PROVE LogInv OBVIOUS
<1>1. act = new /\ heard = <<>> /\ out.tx = NoTx /\ late = <<>> /\ st = [c \in Call |-> "call"]
      /\ count = [c \in Call |-> 0]
     BY DEF ActivationInit, ActivatorInit, Nothing
<1>2. new = [new EXCEPT !.phase = "Stopped"] BY DEF new
<1>3. Settled(act) /\ Apart(act) /\ act.partner = NoPartner /\ act.recent = <<>> BY <1>1, <1>2, FreshAir
<1>4. <<>> \in Seq(Heard) /\ DOMAIN <<>> = {} OBVIOUS
<1>5. st \in [Call -> States] /\ count \in [Call -> Nat] BY <1>1 DEF States
<1>6. Unsaid(act) BY <1>3, NoPartnerType DEF Unsaid
<1>7. \A c : ~InRecent(act, c) BY <1>3, <1>4 DEF InRecent
<1>8. out.tx.text \notin Final BY <1>1 DEF NoTx, Final
<1>9. InOurLog BY <1>1 DEF InOurLog
<1> QED BY <1>1, <1>3, <1>4, <1>5, <1>6, <1>7, <1>8, <1>9 DEF LogInv

(* ... and every step of the machine, the callers or the band keeps it.     *)
LEMMA LogStep == LogInv /\ [ActivationNext]_allVars => LogInv'
<1> SUFFICES ASSUME LogInv, [ActivationNext]_allVars PROVE LogInv' OBVIOUS
<1>1. /\ Settled(act) /\ Apart(act) /\ Unsaid(act)
      /\ heard \in Seq(Heard) /\ late \in Seq(Heard) /\ st \in [Call -> States] /\ count \in [Call -> Nat]
      /\ \A c \in Call : InRecent(act, c) => count[c] >= 1
      /\ out.tx.text \in Final => InRecent(act, out.tx.to)
      /\ \A c \in Call : st[c] \in {"bye", "quiet"} => count[c] >= 1
     BY DEF LogInv, InOurLog
<1> SUFFICES /\ Settled(act') /\ Apart(act') /\ Unsaid(act')
             /\ heard' \in Seq(Heard) /\ late' \in Seq(Heard) /\ st' \in [Call -> States]
             /\ count' \in [Call -> Nat]
             /\ \A c \in Call : InRecent(act', c) => count'[c] >= 1
             /\ out'.tx.text \in Final => InRecent(act', out'.tx.to)
             /\ \A c \in Call : st'[c] \in {"bye", "quiet"} => count'[c] >= 1
  <2>1. Settled(act') = Settled(act)' /\ Apart(act') = Apart(act)' /\ Unsaid(act') = Unsaid(act)' OBVIOUS
  <2>2. (\A c \in Call : InRecent(act', c) => count'[c] >= 1)
           = (\A c \in Call : InRecent(act, c) => count[c] >= 1)' OBVIOUS
  <2> QED BY <2>1, <2>2 DEF LogInv, InOurLog
<1>2. CASE Go
  <2>1. /\ act' = [new EXCEPT !.phase = "Cq"] /\ out'.tx = NoTx /\ heard' = heard /\ st' = st
        /\ late' = late /\ count' = count
       BY <1>2 DEF Go, Start, Nothing
  <2>2. Settled(act') /\ Apart(act') /\ act'.partner = NoPartner /\ act'.recent = <<>> BY <2>1, FreshAir
  <2>3. Unsaid(act') BY <2>2, NoPartnerType DEF Unsaid
  <2>4. \A c : ~InRecent(act', c) BY <2>2 DEF InRecent
  <2>5. out'.tx.text \notin Final BY <2>1 DEF NoTx, Final
  <2> QED BY <1>1, <2>1, <2>2, <2>3, <2>4, <2>5
<1>3. CASE Theirs
  <2>1. /\ heard' \in Seq(Heard) /\ late' \in Seq(Heard) /\ st' = [c \in Call |-> Sent(st[c])]
        /\ act' = act /\ out' = out /\ count' = count
       BY <1>1, <1>3, TheirsDoes
  <2>2. ASSUME NEW s \in States
        PROVE  Sent(s) \in States /\ (Sent(s) \in {"bye", "quiet"} => s \in {"bye", "quiet"})
       BY DEF Sent, States
  <2>3. \A c \in Call : st[c] \in States /\ st'[c] = Sent(st[c]) BY <1>1, <2>1
  <2>4. st' \in [Call -> States] BY <2>1, <2>2, <2>3
  <2>5. \A c \in Call : st'[c] \in {"bye", "quiet"} => count'[c] >= 1 BY <1>1, <2>1, <2>2, <2>3
  <2> QED BY <1>1, <2>1, <2>4, <2>5
<1>4. CASE Decides
  <2> DEFINE r == decide(Elapse(act, 1), heard)
  <2>1. /\ act' = r.a /\ out' = [tx |-> r.tx, logged |-> r.logged] /\ heard' = <<>> /\ st' = st
        /\ late' = late
        /\ count' = [c \in Call |-> IF out'.logged.call = c THEN count[c] + 1 ELSE count[c]]
       BY <1>4 DEF Decides, Decide
  <2>2. Logs(act, r) /\ Apart(r.a) BY <1>1, DecideLogs
  <2>3. Settled(r.a)
    <3>1. Outcome(r) BY <1>1, DecideDoes
    <3> QED BY <3>1 DEF Outcome
  <2> HIDE DEF r
  <2>4. out'.tx = r.tx /\ out'.logged = r.logged BY <2>1
  <2>5. /\ Unsaid(r.a)
        /\ \A c \in Call : InRecent(r.a, c) => InRecent(act, c) \/ r.logged.call = c
        /\ r.tx.text \in Final => InRecent(r.a, r.tx.to)
       BY <2>2 DEF Logs
  <2>6. ASSUME NEW c \in Call PROVE count'[c] = IF r.logged.call = c THEN count[c] + 1 ELSE count[c]
       BY <2>1, <2>4
  <2>7. ASSUME NEW c \in Call
        PROVE  count'[c] \in Nat /\ count'[c] >= count[c] /\ (r.logged.call = c => count'[c] >= 1)
    <3> DEFINE x == count[c]
               y == count'[c]
    <3>1. x \in Nat BY <1>1
    <3>2. y = IF r.logged.call = c THEN x + 1 ELSE x BY <2>6
    <3> HIDE DEF x, y
    <3>3. y \in Nat /\ y >= x /\ (r.logged.call = c => y >= 1) BY <3>1, <3>2
    <3> QED BY <3>3 DEF x, y
  <2>8. ASSUME NEW c \in Call, count[c] >= 1 PROVE count'[c] >= 1
    <3> DEFINE x == count[c]
               y == count'[c]
    <3>1. x \in Nat /\ y \in Nat /\ y >= x /\ x >= 1 BY <1>1, <2>7, <2>8
    <3> HIDE DEF x, y
    <3>2. y >= 1 BY <3>1
    <3> QED BY <3>2 DEF y
  <2>9. count' \in [Call -> Nat] BY <2>1, <2>7
  <2>10. \A c \in Call : InRecent(act', c) => count'[c] >= 1 BY <1>1, <2>1, <2>5, <2>7, <2>8
  <2>11. <<>> \in Seq(Heard) OBVIOUS
  <2> QED BY <1>1, <2>1, <2>2, <2>3, <2>4, <2>5, <2>8, <2>9, <2>10, <2>11
<1>5. CASE Ours
  <2>1. /\ act' = act /\ heard' = heard /\ out' = out /\ late' = late /\ count' = count
        /\ \/ st' = [c \in Call |-> IF out.tx.to = c THEN Hears(st[c], out.tx.text) ELSE st[c]]
           \/ st' = st
       BY <1>5 DEF Ours, vars
  <2>2. ASSUME NEW s \in States, NEW t
        PROVE  /\ Hears(s, t) \in States
               /\ Hears(s, t) \in {"bye", "quiet"} => s \in {"bye", "quiet"} \/ t \in Final
       BY DEF Hears, States, Final
  <2>3. \A c \in Call : st'[c] \in States /\ (st'[c] \in {"bye", "quiet"} => count[c] >= 1)
    <3>1. SUFFICES ASSUME NEW c \in Call
                   PROVE  st'[c] \in States /\ (st'[c] \in {"bye", "quiet"} => count[c] >= 1)
         OBVIOUS
    <3>2. st[c] \in States BY <1>1
    <3>3. CASE st'[c] = st[c] BY <1>1, <3>2, <3>3
    <3>4. CASE out.tx.to = c /\ st'[c] = Hears(st[c], out.tx.text)
      <4>1. out.tx.text \in Final => count[c] >= 1 BY <1>1, <3>4
      <4> QED BY <1>1, <2>2, <3>2, <3>4, <4>1
    <3> QED BY <2>1, <3>3, <3>4
  <2>4. st' \in [Call -> States] BY <1>1, <2>1, <2>3
  <2> QED BY <1>1, <2>1, <2>3, <2>4
<1>6. CASE UNCHANGED allVars BY <1>1, <1>6 DEF allVars, vars, airVars
<1> QED BY <1>2, <1>3, <1>4, <1>5, <1>6 DEF ActivationNext

(* Whoever got our RR73 or 73 is in our log, for any callers and any losses: *)
(* a last message goes out only to a logged partner (Activator::reply,       *)
(* finish and decide_done), and a partner is never sent one before.          *)
THEOREM WorkedIsLogged == ActivationSpec => []InOurLog
<1>1. LogInv => InOurLog BY DEF LogInv
<1> QED BY <1>1, LogInit, LogStep, PTL DEF ActivationSpec

-----------------------------------------------------------------------------
(* The caller's report *)

(* What a caller of a style says, and what it is told.                       *)
Fits(h) == h.ex \in (IF Style[h.from] = "grid" THEN {"grid", "rreport", "s73"} ELSE {"report", "rr73"})
Offer(c) == IF Style[c] = "grid" THEN "report" ELSE "rreport"

Said(a, batch) == Elts(batch) \cup {e.msg : e \in Elts(a.pending)}
Sees(a, batch, c, x) == \E m \in Said(a, batch) : m.from = c /\ m.ex = x
KnownTo(a, c) == a.partner.call = c \/ \E d \in Elts(a.dropped) : d.call = c
Young(a, c, n) == \E e \in Elts(a.recent) : e.call = c /\ e.age <= n
ByReport == {c \in Call : Style[c] = "report"}

(* Partners and dropped partners who started with their report are on record *)
(* with it.                                                                  *)
Steady(a) ==
  /\ \A e \in Elts(a.pending) : Fits(e.msg)
  /\ a.partner.call \in Call => /\ a.partner.last_tx = std_msg(a.partner.call, Offer(a.partner.call))
                                /\ a.partner.call \in ByReport => a.partner.rcvd
  /\ \A d \in Elts(a.dropped) : d.call \in ByReport => d.rcvd

(* Who says RR73 is known with its report, or was logged already.            *)
Covered(a, batch) ==
  \A c \in Call : Sees(a, batch, c, "rr73") => KnownTo(a, c) \/ InRecent(a, c)

Ended(a, batch, r, c) ==
  /\ Sees(a, batch, c, "rr73") /\ r.a.partner.call # c /\ Young(r.a, c, 0)
  /\ \A e \in Elts(r.a.pending) : e.msg.from # c
  /\ r.tx.to = c => r.tx.text = "73"

TellsRight(a, batch, r, c) ==
  r.tx.to = c =>
    IF c \in ByReport THEN \/ r.tx.text = "rreport" /\ KnownTo(r.a, c)
                           \/ r.tx.text = "73" /\ Sees(a, batch, c, "rr73")
                      ELSE r.tx.text \in {"report", "rr73"}

(* A caller that has only its last message to repeat is not worked again.    *)
StaysOver(a, r, c) ==
  /\ r.a.partner.call # c /\ (r.tx.to = c => r.tx.text = "73")
  /\ \A n \in Nat : Young(a, c, n) => Young(r.a, c, n)

(* What a decision does for the callers' reports.                            *)
Serves(a, batch, r) ==
  /\ Steady(r.a)
  /\ r.logged = NoRecord \/ r.logged.rcvd
  /\ \A c \in Call : TellsRight(a, batch, r, c)
  /\ \A e \in Elts(r.a.pending) : e \in Elts(a.pending) \/ (e.age = 0 /\ e.msg \in Elts(batch))
  /\ \A c \in ByReport : KnownTo(a, c) => KnownTo(r.a, c) \/ Ended(a, batch, r, c)
  /\ \A c \in ByReport : a.partner.call # c /\ ~Sees(a, batch, c, "report") => StaysOver(a, r, c)

(* An answer serves the callers.                                            *)
LEMMA AnswersServes ==
  ASSUME NEW a, NEW batch \in Seq(Heard), NEW r, Answers(a, batch, r), Steady(a), Covered(a, batch),
         a.recent \in Seq(Retired), \A m \in Elts(batch) : Fits(m), RECENT_MAX > RECENT_TTL + 1
  PROVE  Serves(a, batch, r)
<1>1. PICK h \in Heard :
        /\ h.ex # "s73" /\ (h \in Elts(batch) \/ \E e \in Elts(a.pending) : e.msg = h)
        /\ Replies(a, h, r) /\ a.partner.call \in {NoCall, h.from}
        /\ Elts(r.a.pending) \subseteq {e \in Elts(a.pending) : e.msg.from # h.from} \cup Fresh(batch, h.from)
     BY DEF Answers
<1> DEFINE c0 == h.from
<1>2. c0 \in Call /\ h.ex \in Exchange BY DEF Heard
<1>3. h \in Said(a, batch) BY <1>1 DEF Said
<1>4. Fits(h) BY <1>1 DEF Steady
<1>5. /\ c0 \in ByReport => h.ex \in {"report", "rr73"}
      /\ c0 \notin ByReport => h.ex \in {"grid", "rreport"}
  <2>1. Style[c0] \in {"grid", "report"} BY <1>2, ActivationAssumption
  <2> QED BY <1>1, <1>2, <1>4, <2>1 DEF Fits, ByReport
<1>6. Sees(a, batch, c0, h.ex) BY <1>3 DEF Sees
<1>7. /\ r.tx.to = c0 /\ r.tx.text = Answer[h.ex] /\ r.tx = std_msg(c0, Answer[h.ex])
      /\ Elts(r.a.dropped) = Besides(Elts(a.dropped), c0)
     BY <1>1 DEF Replies, std_msg
<1>8. \A e \in Elts(r.a.pending) :
        /\ e.msg.from # c0
        /\ e \in Elts(a.pending) \/ (e.age = 0 /\ e.msg \in Elts(batch))
     BY <1>1 DEF Fresh
<1>9. \A e \in Elts(r.a.pending) : Fits(e.msg) BY <1>8 DEF Steady
<1>10. \A d \in Elts(r.a.dropped) : d.call \in ByReport => d.rcvd BY <1>7 DEF Steady, Besides
<1>11. \A c \in Call : c # c0 /\ KnownTo(a, c) => KnownTo(r.a, c)
      BY <1>1, <1>7, ActivatorAssumption DEF KnownTo, Besides
<1>12. CASE h.ex \in {"grid", "report"}
  <2>1. /\ r.a.partner.call = c0 /\ r.a.partner.last_tx = r.tx /\ (h.ex = "report" => r.a.partner.rcvd)
        /\ r.logged = NoRecord /\ Elts(r.a.recent) = Besides(Elts(a.recent), c0)
       BY <1>1, <1>12 DEF Replies
  <2>2. Answer[h.ex] = Offer(c0)
    <3>1. CASE c0 \in ByReport
      <4>1. h.ex = "report" /\ Style[c0] = "report" BY <1>5, <1>12, <3>1 DEF ByReport
      <4> QED BY <4>1 DEF Answer, Offer
    <3>2. CASE c0 \notin ByReport
      <4>1. h.ex = "grid" /\ Style[c0] = "grid" BY <1>2, <1>5, <1>12, <3>2, ActivationAssumption DEF ByReport
      <4> QED BY <4>1 DEF Answer, Offer
    <3> QED BY <3>1, <3>2
  <2>3. c0 \in ByReport => h.ex = "report" BY <1>5, <1>12
  <2>4. Steady(r.a) BY <1>7, <1>9, <1>10, <2>1, <2>2, <2>3 DEF Steady
  <2>5. ASSUME NEW c \in Call PROVE TellsRight(a, batch, r, c)
    <3>1. c0 \in ByReport => Answer[h.ex] = "rreport" BY <2>3 DEF Answer
    <3>2. c0 \notin ByReport => Answer[h.ex] = "report" BY <1>5, <1>12 DEF Answer
    <3>3. KnownTo(r.a, c0) BY <2>1 DEF KnownTo
    <3> QED BY <1>7, <3>1, <3>2, <3>3 DEF TellsRight
  <2>6. \A c \in Call : KnownTo(a, c) => KnownTo(r.a, c) BY <1>11, <2>1 DEF KnownTo
  <2>7. ASSUME NEW c \in ByReport, ~Sees(a, batch, c, "report") PROVE StaysOver(a, r, c)
    <3>1. c # c0 BY <1>6, <2>3, <2>7
    <3>2. \A n \in Nat : Young(a, c, n) => Young(r.a, c, n) BY <2>1, <3>1 DEF Young, Besides
    <3> QED BY <1>7, <2>1, <3>1, <3>2 DEF StaysOver
  <2> QED BY <1>8, <2>1, <2>4, <2>5, <2>6, <2>7 DEF Serves, ByReport
<1>13. CASE h.ex \in {"rreport", "rr73"}
  <2> DEFINE x == [call |-> c0, age |-> 0]
  <2>1. /\ r.a.partner.call = NoCall /\ Retires(a.recent, r.a.recent, c0)
        /\ InRecent(a, c0) => r.logged = NoRecord
        /\ h.ex = "rreport" \/ Reported(a, c0) => r.logged = NoRecord \/ r.logged.rcvd
       BY <1>1, <1>13 DEF Replies
  <2>2. x \in Elts(r.a.recent) /\ Besides(Elts(a.recent), c0) \subseteq Elts(r.a.recent)
        /\ x.call = c0 /\ x.age = 0
       BY <2>1 DEF Retires
  <2> HIDE DEF x
  <2>3. NoCall \notin Call /\ \A n \in Nat : 0 <= n BY ActivatorAssumption
  <2>4. Steady(r.a) BY <1>9, <1>10, <2>1, <2>3 DEF Steady
  <2>5. r.logged = NoRecord \/ r.logged.rcvd
    <3>1. CASE h.ex = "rreport" BY <2>1, <3>1
    <3>2. CASE h.ex = "rr73"
      <4>1. c0 \in ByReport BY <1>5, <3>2
      <4>2. KnownTo(a, c0) \/ InRecent(a, c0) BY <1>2, <1>6, <3>2 DEF Covered
      <4>3. KnownTo(a, c0) => Reported(a, c0) BY <1>2, <4>1 DEF KnownTo, Reported, Steady
      <4> QED BY <2>1, <4>2, <4>3
    <3> QED BY <1>13, <3>1, <3>2
  <2>6. c0 \in ByReport => h.ex = "rr73" /\ r.tx.text = "73" BY <1>5, <1>7, <1>13 DEF Answer
  <2>7. c0 \notin ByReport => r.tx.text = "rr73" BY <1>5, <1>7, <1>13 DEF Answer
  <2>8. \A c \in Call : TellsRight(a, batch, r, c) BY <1>6, <1>7, <2>6, <2>7 DEF TellsRight
  <2>9. \A n \in Nat : Young(r.a, c0, n) BY <2>2, <2>3 DEF Young
  <2>10. ASSUME NEW c \in ByReport, KnownTo(a, c) PROVE KnownTo(r.a, c) \/ Ended(a, batch, r, c)
    <3>1. c \in Call BY DEF ByReport
    <3>2. CASE c # c0 BY <1>11, <2>10, <3>1, <3>2
    <3>3. CASE c = c0 BY <1>2, <1>6, <1>8, <2>1, <2>3, <2>6, <2>9, <3>3 DEF Ended
    <3> QED BY <3>2, <3>3
  <2>11. ASSUME NEW c \in ByReport PROVE StaysOver(a, r, c)
    <3>1. c \in Call BY DEF ByReport
    <3>2. r.a.partner.call # c /\ (r.tx.to = c => r.tx.text = "73") BY <1>7, <2>1, <2>3, <2>6, <3>1
    <3>3. \A n \in Nat : Young(a, c, n) => Young(r.a, c, n)
      <4>1. CASE c = c0 BY <2>9, <4>1
      <4>2. CASE c # c0 BY <2>2, <4>2 DEF Young, Besides
      <4> QED BY <4>1, <4>2
    <3> QED BY <3>2, <3>3 DEF StaysOver
  <2> QED BY <1>8, <2>4, <2>5, <2>8, <2>10, <2>11 DEF Serves
<1> QED BY <1>1, <1>2, <1>12, <1>13 DEF Exchange

(* So does repeating the last message, or CQ.                               *)
LEMMA RepeatsServes ==
  ASSUME NEW a, NEW batch \in Seq(Heard), NEW r, Repeats(a, batch, r), Steady(a),
         \A m \in Elts(batch) : Fits(m), a.partner.call \in Call \cup {NoCall}
  PROVE  Serves(a, batch, r)
<1> DEFINE c0 == a.partner.call
<1>1. /\ r.a.recent = a.recent /\ r.a.dropped = a.dropped /\ r.a.partner = a.partner
      /\ r.logged = NoRecord /\ Elts(r.a.pending) \subseteq Elts(a.pending) \cup Fresh(batch, c0)
      /\ r.tx \in {NoTx, Cq} \/ (c0 # NoCall /\ r.tx = a.partner.last_tx)
     BY DEF Repeats
<1>2. \A e \in Elts(r.a.pending) : e \in Elts(a.pending) \/ (e.age = 0 /\ e.msg \in Elts(batch))
     BY <1>1 DEF Fresh
<1>3. \A e \in Elts(r.a.pending) : Fits(e.msg) BY <1>2 DEF Steady
<1>4. Steady(r.a) BY <1>1, <1>3 DEF Steady
<1>5. ASSUME NEW c \in Call, r.tx.to = c PROVE c = c0 /\ r.tx.text = Offer(c)
  <2>1. NoTx.to = NoCall /\ Cq.to = NoCall BY DEF NoTx, Cq
  <2>2. c0 # NoCall /\ r.tx = a.partner.last_tx BY <1>1, <1>5, <2>1, ActivatorAssumption
  <2>3. r.tx = std_msg(c0, Offer(c0)) BY <2>2 DEF Steady
  <2>4. r.tx.to = c0 /\ r.tx.text = Offer(c0) BY <2>3 DEF std_msg
  <2> QED BY <1>5, <2>4
<1>6. ASSUME NEW c \in Call PROVE TellsRight(a, batch, r, c)
  <2>1. SUFFICES ASSUME r.tx.to = c
                 PROVE  IF c \in ByReport THEN \/ r.tx.text = "rreport" /\ KnownTo(r.a, c)
                                               \/ r.tx.text = "73" /\ Sees(a, batch, c, "rr73")
                                          ELSE r.tx.text \in {"report", "rr73"}
       BY DEF TellsRight
  <2>2. c = c0 /\ r.tx.text = Offer(c) BY <1>5, <2>1
  <2>3. KnownTo(r.a, c) BY <1>1, <2>2 DEF KnownTo
  <2>4. Style[c] \in {"grid", "report"} BY ActivationAssumption
  <2> QED BY <2>2, <2>3, <2>4 DEF Offer, ByReport
<1>7. \A c : KnownTo(a, c) => KnownTo(r.a, c) BY <1>1 DEF KnownTo
<1>8. ASSUME NEW c \in ByReport, c0 # c PROVE StaysOver(a, r, c)
  <2>1. c \in Call BY DEF ByReport
  <2>2. r.tx.to # c BY <1>5, <1>8, <2>1
  <2> QED BY <1>1, <1>8, <2>2 DEF StaysOver, Young
<1> QED BY <1>1, <1>2, <1>4, <1>6, <1>7, <1>8 DEF Serves

(* So does either.                                                          *)
LEMMA ActsServes ==
  ASSUME NEW a, NEW batch \in Seq(Heard), NEW r, Acts(a, batch, r), Steady(a), Covered(a, batch),
         a \in Machine, \A m \in Elts(batch) : Fits(m), RECENT_MAX > RECENT_TTL + 1
  PROVE  Serves(a, batch, r)
<1>1. a.recent \in Seq(Retired) /\ a.partner.call \in Call \cup {NoCall} BY MachineFields, PartnerFields
<1>2. CASE Answers(a, batch, r) BY <1>1, <1>2, AnswersServes
<1>3. CASE Repeats(a, batch, r) BY <1>1, <1>3, RepeatsServes
<1> QED BY <1>2, <1>3 DEF Acts

(* A decision in two parts: what the first part does to the partner and the  *)
(* lists leaves what the second needs.                                       *)
LEMMA ServesThrough ==
  ASSUME NEW a, NEW batch, NEW b, NEW rest, NEW r, Serves(b, rest, r),
         b.partner.call = NoCall, b.recent = a.recent, Elts(rest) \subseteq Elts(batch),
         \A e \in Elts(b.pending) : e \in Elts(a.pending) \/ (e.age = 0 /\ e.msg \in Elts(batch)),
         \A c \in ByReport : KnownTo(a, c) => KnownTo(b, c)
  PROVE  Serves(a, batch, r)
<1>1. Said(b, rest) \subseteq Said(a, batch) BY DEF Said
<1>2. \A c, x : Sees(b, rest, c, x) => Sees(a, batch, c, x) BY <1>1 DEF Sees
<1>3. \A c \in Call : TellsRight(a, batch, r, c) BY <1>2 DEF Serves, TellsRight
<1>4. \A e \in Elts(r.a.pending) : e \in Elts(a.pending) \/ (e.age = 0 /\ e.msg \in Elts(batch))
     BY DEF Serves
<1>5. \A c : Ended(b, rest, r, c) => Ended(a, batch, r, c) BY <1>2 DEF Ended
<1>6. \A c \in ByReport : KnownTo(a, c) => KnownTo(r.a, c) \/ Ended(a, batch, r, c)
     BY <1>5 DEF Serves
<1>7. ASSUME NEW c \in ByReport, ~Sees(a, batch, c, "report") PROVE StaysOver(a, r, c)
  <2>1. b.partner.call # c BY ActivatorAssumption DEF ByReport
  <2>2. StaysOver(b, r, c) BY <1>2, <1>7, <2>1 DEF Serves
  <2> QED BY <2>2 DEF StaysOver, Young
<1> QED BY <1>3, <1>4, <1>6, <1>7 DEF Serves

(* With a place for every caller, dropping the partner evicts nobody.        *)
LEMMA NoEviction ==
  ASSUME NEW a, a \in Machine, Apart(a), a.partner.call \in Call, Cardinality(Call) <= DROPPED_MAX
  PROVE  Len(a.dropped) < DROPPED_MAX
<1> DEFINE s == a.dropped
           n == Len(s)
           f == [i \in 1..(n + 1) |-> IF i = n + 1 THEN a.partner.call ELSE s[i].call]
<1>1. s \in Seq(Lost) BY MachineFields
<1>2. n \in Nat /\ \A i \in 1..n : s[i] \in Lost BY <1>1
<1>3. \A i \in 1..n : s[i].call \in Call BY <1>2 DEF Lost
<1>4. /\ \A i, j \in 1..n : s[i].call = s[j].call => i = j
      /\ \A i \in 1..n : s[i].call # a.partner.call
     BY DEF Apart, Once, Elts
<1>5. IsFiniteSet(Call) /\ Cardinality(Call) \in Nat BY ActivationAssumption, FS_CardinalityType
<1>6. DROPPED_MAX \in Nat BY ActivatorAssumption
<1>7. SUFFICES ASSUME ~(n < DROPPED_MAX) PROVE FALSE OBVIOUS
<1> HIDE DEF n, s
<1>8. n + 1 \in Nat /\ Cardinality(Call) < n + 1 BY <1>2, <1>5, <1>6, <1>7
<1>9. \A i \in 1..(n + 1) : i # n + 1 => i \in 1..n BY <1>2
<1>10. f \in [1..(n + 1) -> Call] BY <1>3, <1>9
<1>11. Cardinality(1..(n + 1)) = n + 1 /\ IsFiniteSet(1..(n + 1))
  <2>1. 1 \in Int /\ n + 1 \in Int BY <1>2
  <2>2. IsFiniteSet(1..(n + 1)) /\ Cardinality(1..(n + 1)) = IF 1 > n + 1 THEN 0 ELSE (n + 1) - 1 + 1
       BY <2>1, FS_Interval
  <2> QED BY <1>2, <2>2
<1>12. \E i, j \in 1..(n + 1) : i # j /\ f[i] = f[j]
  <2> DEFINE D == 1..(n + 1)
  <2>1. f \in [D -> Call] /\ IsFiniteSet(D) /\ Cardinality(Call) < Cardinality(D)
       BY <1>8, <1>10, <1>11
  <2> HIDE DEF f, D
  <2>2. \E i, j \in D : i # j /\ f[i] = f[j] BY <1>5, <2>1, FS_PigeonHole
  <2> QED BY <2>2 DEF D
<1> QED BY <1>4, <1>9, <1>12

(* So does a decision that says goodbye to a partner or drops it first.     *)
LEMMA DecidesServes ==
  ASSUME NEW a, NEW batch \in Seq(Heard), NEW r, Decides3(a, batch, r), Open(a), Apart(a), Steady(a),
         Covered(a, batch), \A m \in Elts(batch) : Fits(m),
         Cardinality(Call) <= DROPPED_MAX, RECENT_MAX > RECENT_TTL + 1
  PROVE  Serves(a, batch, r)
<1>1. a \in Machine BY DEF Open, Sound
<1>2. CASE Acts(a, batch, r) BY <1>1, <1>2, ActsServes
<1>3. ASSUME NEW b, Goodbye(a, batch, b), Acts(b, <<>>, r) PROVE Serves(a, batch, r)
  <2> DEFINE c0 == a.partner.call
             m0 == [from |-> c0, ex |-> "s73"]
  <2>1. /\ b \in Machine /\ b.partner.call = NoCall /\ b.recent = a.recent
        /\ Elts(b.dropped) = Elts(a.dropped) /\ m0 \in Elts(batch)
        /\ Elts(b.pending) \subseteq Elts(a.pending) \cup Fresh(batch, c0)
       BY <1>3 DEF Goodbye, Open, Sound
  <2>2. c0 \notin ByReport
    <3>1. m0.from = c0 /\ m0.ex = "s73" /\ Fits(m0) BY <2>1
    <3> QED BY <3>1 DEF Fits, ByReport
  <2>3. \A e \in Elts(b.pending) : e \in Elts(a.pending) \/ (e.age = 0 /\ e.msg \in Elts(batch))
       BY <2>1 DEF Fresh
  <2>4. \A c \in ByReport : KnownTo(a, c) => KnownTo(b, c) BY <2>1, <2>2 DEF KnownTo
  <2>5. <<>> \in Seq(Heard) /\ Elts(<<>>) = {}
    <3>1. 1..Len(<<>>) = {} OBVIOUS
    <3> QED BY <3>1 DEF Elts
  <2>6. Steady(b)
    <3>1. \A e \in Elts(b.pending) : Fits(e.msg) BY <2>3 DEF Steady
    <3> QED BY <2>1, <3>1, ActivatorAssumption DEF Steady
  <2>7. Covered(b, <<>>)
    <3>1. SUFFICES ASSUME NEW c \in Call, Sees(b, <<>>, c, "rr73")
                   PROVE  KnownTo(b, c) \/ InRecent(b, c)
         BY DEF Covered
    <3>2. PICK m \in Said(b, <<>>) : m.from = c /\ m.ex = "rr73" BY <3>1 DEF Sees
    <3>3. m \in Said(a, batch) BY <2>3, <2>5, <3>2 DEF Said
    <3>4. Fits(m) BY <3>3 DEF Said, Steady
    <3>5. c \in ByReport BY <3>2, <3>4, ActivationAssumption DEF Fits, ByReport
    <3>6. KnownTo(a, c) \/ InRecent(a, c) BY <3>2, <3>3 DEF Covered, Sees
    <3> QED BY <2>1, <2>4, <3>5, <3>6 DEF InRecent
  <2>8. Serves(b, <<>>, r) BY <1>3, <2>1, <2>5, <2>6, <2>7, ActsServes
  <2> QED BY <2>1, <2>3, <2>4, <2>5, <2>8, ServesThrough
<1>4. CASE a.partner.call \in Call /\ Acts(Drop(a), batch, r)
  <2> DEFINE b == Drop(a)
             x == [call |-> a.partner.call, rcvd |-> a.partner.rcvd]
  <2>1. Len(a.dropped) < DROPPED_MAX BY <1>1, <1>4, NoEviction
  <2>2. /\ b.partner = NoPartner /\ b.recent = a.recent /\ b.pending = a.pending
        /\ Elts(b.dropped) = Elts(a.dropped) \cup {x}
       BY <1>4, <2>1, DropDoes
  <2>3. b \in Machine /\ b.partner.call = NoCall
    <3>1. Open(b) /\ b.partner.call = NoCall BY <1>4, DropKeeps
    <3> QED BY <3>1 DEF Open, Sound
  <2>4. x.call = a.partner.call /\ x.rcvd = a.partner.rcvd OBVIOUS
  <2> HIDE DEF b, x
  <2>5. \A c \in Call : KnownTo(a, c) => KnownTo(b, c) BY <2>2, <2>4 DEF KnownTo
  <2>6. Steady(b)
    <3>1. \A d \in Elts(b.dropped) : d.call \in ByReport => d.rcvd BY <1>4, <2>2, <2>4 DEF Steady
    <3> QED BY <2>2, <2>3, <3>1, ActivatorAssumption DEF Steady
  <2>7. Covered(b, batch) BY <2>2, <2>5 DEF Covered, Sees, Said, InRecent
  <2>8. Serves(b, batch, r) BY <1>4, <2>3, <2>6, <2>7, ActsServes DEF b
  <2> QED BY <2>2, <2>3, <2>5, <2>8, ServesThrough DEF ByReport
<1> QED BY <1>2, <1>3, <1>4 DEF Decides3

(* A period passes: the queue and the logged partners are one period older,  *)
(* and those past their time are gone.                                       *)
LEMMA PassedDoes ==
  ASSUME NEW a, Settled(a), Apart(a), Steady(a)
  PROVE  LET b == Passed(a)
         IN  /\ Steady(b) /\ b.partner.call = a.partner.call /\ b.dropped = a.dropped
             /\ \A e \in Elts(b.pending) : /\ e.age \in Nat /\ e.age <= PENDING_TTL
                                           /\ \E o \in Elts(a.pending) : e.msg = o.msg /\ e.age = o.age + 1
             /\ \A c, n : n \in Nat /\ n + 1 <= RECENT_TTL /\ Young(a, c, n) => Young(b, c, n + 1)
<1> DEFINE g == Elapse(a, 1)
           b == Passed(a)
<1>1. Sound(a) /\ 1 \in Nat /\ 1 > 0 BY DEF Settled
<1>2. Sound(g) BY <1>1, ElapseKeeps
<1>3. a \in Machine /\ g \in Machine BY <1>1, <1>2 DEF Sound
<1>4. /\ g.dropped = a.dropped /\ Apart(g) /\ g.partner.call = a.partner.call
      /\ g.partner.rcvd = a.partner.rcvd /\ g.partner.last_tx = a.partner.last_tx
      /\ Elts(g.recent) = OlderBy(Elts(a.recent), RECENT_TTL)
      /\ Elts(g.pending) = OlderBy(Elts(a.pending), PENDING_TTL)
     BY <1>3, ElapseDoes
<1> HIDE DEF g
<1>5. /\ b.dropped = g.dropped /\ b.partner = g.partner
      /\ Elts(b.recent) = {e \in Elts(g.recent) : e.age <= RECENT_TTL}
      /\ Elts(b.pending) = {e \in Elts(g.pending) : e.age <= PENDING_TTL}
     BY <1>3, <1>4, ExpireDoes DEF Passed, g
<1> HIDE DEF b
<1>6. PENDING_TTL \in Nat /\ RECENT_TTL \in Nat BY ActivatorAssumption
<1>7. a.recent \in Seq(Retired) /\ a.pending \in Seq(Entry) BY <1>3, MachineFields
<1>8. ASSUME NEW e \in Elts(b.pending)
      PROVE  /\ e.age \in Nat /\ e.age <= PENDING_TTL
             /\ \E o \in Elts(a.pending) : e.msg = o.msg /\ e.age = o.age + 1
  <2>1. e \in OlderBy(Elts(a.pending), PENDING_TTL) /\ e.age <= PENDING_TTL BY <1>4, <1>5
  <2>2. PICK o \in Elts(a.pending) : e = [o EXCEPT !.age = Plus(@, 1, PENDING_TTL)] BY <2>1 DEF OlderBy
  <2>3. o \in Entry BY <1>7 DEF Elts
  <2>4. e.msg = o.msg /\ e.age = Plus(o.age, 1, PENDING_TTL) /\ o.age \in 0..PENDING_TTL + 1
       BY <2>2, <2>3 DEF Entry
  <2> DEFINE x == o.age
             y == e.age
  <2>5. y = Plus(x, 1, PENDING_TTL) /\ x \in 0..PENDING_TTL + 1 /\ y <= PENDING_TTL BY <2>1, <2>4
  <2> HIDE DEF x, y
  <2>6. y \in Nat /\ y = x + 1 BY <1>6, <2>5 DEF Plus
  <2> QED BY <2>1, <2>4, <2>6 DEF x, y
<1>9. ASSUME NEW c, NEW n, n \in Nat, n + 1 <= RECENT_TTL, Young(a, c, n) PROVE Young(b, c, n + 1)
  <2>1. PICK o \in Elts(a.recent) : o.call = c /\ o.age <= n BY <1>9 DEF Young
  <2>2. o \in Retired BY <1>7 DEF Elts
  <2> DEFINE e == [o EXCEPT !.age = Plus(@, 1, RECENT_TTL)]
  <2>3. e \in Elts(g.recent) BY <1>4 DEF OlderBy
  <2>4. e.call = c /\ e.age = Plus(o.age, 1, RECENT_TTL) /\ o.age \in 0..RECENT_TTL + 1
       BY <2>1, <2>2 DEF Retired
  <2> HIDE DEF e
  <2> DEFINE x == o.age
             y == e.age
  <2>5. y = Plus(x, 1, RECENT_TTL) /\ x \in 0..RECENT_TTL + 1 /\ x <= n BY <2>1, <2>4
  <2> HIDE DEF x, y
  <2>6. y <= n + 1 /\ y <= RECENT_TTL BY <1>6, <1>9, <2>5 DEF Plus
  <2>7. e \in Elts(b.recent) /\ e.age <= n + 1 BY <1>5, <2>3, <2>6 DEF y
  <2> QED BY <2>4, <2>7 DEF Young
<1>10. Steady(b)
  <2>1. \A e \in Elts(b.pending) : Fits(e.msg)
    <3>1. SUFFICES ASSUME NEW e \in Elts(b.pending) PROVE Fits(e.msg) OBVIOUS
    <3>2. PICK o \in Elts(a.pending) : e.msg = o.msg BY <1>8
    <3> QED BY <3>2 DEF Steady
  <2>2. b.partner.call = a.partner.call /\ b.partner.rcvd = a.partner.rcvd
        /\ b.partner.last_tx = a.partner.last_tx /\ b.dropped = a.dropped
       BY <1>4, <1>5
  <2> QED BY <2>1, <2>2 DEF Steady
<1> QED BY <1>4, <1>5, <1>8, <1>9, <1>10 DEF b

-----------------------------------------------------------------------------
(* The callers and their reports: a is the machine, H what was heard, L what *)
(* is late, s the caller's state, t the turn, tx our message.                *)

Has(S, c, x) == \E m \in S : m.from = c /\ m.ex = x

(* The contact with c is over: it has at most its RR73 to repeat, and that   *)
(* finds it among the logged partners as long as it may wait.                *)
Over(a, H, L, s, t, tx, c) ==
  /\ s \in {"sent", "quiet"} /\ a.partner.call # c
  /\ ~Has(H, c, "report") /\ ~Has(L, c, "report")
  /\ \A e \in Elts(a.pending) : e.msg.from = c => e.msg.ex # "report" /\ Young(a, c, e.age + 1)
  /\ Has(H, c, "rr73") => Young(a, c, 0)
  /\ Has(L, c, "rr73") => t # "decide" /\ Young(a, c, 0)
  /\ t = "ours" /\ tx.to = c => tx.text = "73"

(* A caller who starts with a report has sent R only once we know it.        *)
Reports(a, H, L, s, t, tx, c) ==
  /\ s \in {"call", "rr", "sent", "quiet"}
  /\ t \in {"decide", "ours"} => s # "rr" /\ (Has(L, c, "report") => s = "call")
  /\ Has(H, c, "rr73") \/ Has(L, c, "rr73") => s # "call"
  /\ \A e \in Elts(a.pending) : e.msg.from = c /\ e.msg.ex = "rr73" => s # "call"
  /\ t = "ours" /\ tx.to = c => \/ tx.text = "rreport" /\ KnownTo(a, c)
                                \/ tx.text = "73" /\ s # "call"
  /\ s # "call" => KnownTo(a, c) \/ Over(a, H, L, s, t, tx, c)

Follows(a, H, L, s, t, tx, c) ==
  IF c \in ByReport THEN Reports(a, H, L, s, t, tx, c)
  ELSE /\ s \in {"call", "roger", "bye", "quiet"}
       /\ t = "ours" /\ tx.to = c => tx.text \in {"report", "rr73"}

(* Our message arrives, or does not.                                         *)
LEMMA OursFollows ==
  ASSUME NEW a, NEW H, NEW L, NEW s, NEW z, NEW tx, NEW c \in Call, Follows(a, H, L, s, "ours", tx, c),
         z = s \/ (tx.to = c /\ z = Hears(s, tx.text))
  PROVE  Follows(a, H, L, z, "theirs", tx, c)
<1>1. CASE c \in ByReport
  <2>1. Reports(a, H, L, s, "ours", tx, c) BY <1>1 DEF Follows
  <2>2. CASE s = "call"
    <3>1. z = "call" \/ (z = "rr" /\ KnownTo(a, c)) BY <2>1, <2>2 DEF Reports, Hears
    <3> QED BY <1>1, <2>1, <2>2, <3>1 DEF Reports, Follows
  <2>3. CASE s # "call" /\ KnownTo(a, c)
    <3>1. z \in {"rr", "sent", "quiet"} BY <2>1, <2>3 DEF Reports, Hears
    <3> QED BY <1>1, <2>1, <2>3, <3>1 DEF Reports, Follows
  <2>4. CASE s # "call" /\ Over(a, H, L, s, "ours", tx, c)
    <3>1. z \in {"sent", "quiet"} BY <2>4 DEF Over, Hears
    <3>2. Over(a, H, L, z, "theirs", tx, c) BY <2>4, <3>1 DEF Over
    <3> QED BY <1>1, <2>1, <2>4, <3>1, <3>2 DEF Reports, Follows
  <2> QED BY <2>1, <2>2, <2>3, <2>4 DEF Reports
<1>2. CASE c \notin ByReport
  <2>1. s \in {"call", "roger", "bye", "quiet"} /\ (tx.to = c => tx.text \in {"report", "rr73"})
       BY <1>2 DEF Follows
  <2>2. z \in {"call", "roger", "bye", "quiet"} BY <2>1 DEF Hears
  <2> QED BY <1>2, <2>2 DEF Follows
<1> QED BY <1>1, <1>2

(* What a caller in a state says.                                            *)
Tells(c, s, x) ==
  \/ s = "call" /\ x = Style[c]
  \/ s = "roger" /\ x = "rreport"
  \/ s = "rr" /\ x = "rr73"
  \/ s = "bye" /\ x = "s73"

(* The callers transmit.                                                     *)
LEMMA TheirsFollows ==
  ASSUME NEW a, NEW H, NEW L, NEW s, NEW tx, NEW c \in Call, Follows(a, H, L, s, "theirs", tx, c),
         NEW I, NEW K,
         \A m \in I : m.from = c => m \in L \/ Tells(c, s, m.ex),
         \A m \in K : m.from = c => Tells(c, s, m.ex)
  PROVE  Follows(a, I, K, Sent(s), "decide", tx, c)
<1>1. CASE c \in ByReport
  <2>1. Reports(a, H, L, s, "theirs", tx, c) /\ Style[c] = "report" BY <1>1 DEF Follows, ByReport
  <2>2. /\ \A m \in I : m.from = c => m \in L \/ (s = "call" /\ m.ex = "report") \/ (s = "rr" /\ m.ex = "rr73")
        /\ \A m \in K : m.from = c => (s = "call" /\ m.ex = "report") \/ (s = "rr" /\ m.ex = "rr73")
       BY <2>1 DEF Tells, Reports
  <2>3. s \in {"call", "rr", "sent", "quiet"} BY <2>1 DEF Reports
  <2>4. Sent(s) = IF s = "rr" THEN "sent" ELSE s BY <2>3 DEF Sent
  <2>5. Sent(s) \in {"call", "sent", "quiet"} /\ (Sent(s) = "call" <=> s = "call") BY <2>3, <2>4
  <2>6. Has(K, c, "report") => s = "call" BY <2>2 DEF Has
  <2>7. Has(I, c, "rr73") \/ Has(K, c, "rr73") => s # "call"
    <3>1. Has(L, c, "rr73") => s # "call" BY <2>1 DEF Reports
    <3> QED BY <2>2, <3>1 DEF Has
  <2>8. \A e \in Elts(a.pending) : e.msg.from = c /\ e.msg.ex = "rr73" => s # "call" BY <2>1 DEF Reports
  <2>9. s # "call" => KnownTo(a, c) \/ Over(a, I, K, Sent(s), "decide", tx, c)
    <3>1. SUFFICES ASSUME Over(a, H, L, s, "theirs", tx, c)
                   PROVE  Over(a, I, K, Sent(s), "decide", tx, c)
         BY <2>1 DEF Reports
    <3>2. s \in {"sent", "quiet"} /\ a.partner.call # c /\ ~Has(L, c, "report")
          /\ (Has(L, c, "rr73") => Young(a, c, 0))
         BY <3>1 DEF Over
    <3>3. \A m \in I : m.from = c => m \in L BY <2>2, <3>2
    <3>4. \A m \in K : m.from # c BY <2>2, <3>2
    <3>5. ~Has(I, c, "report") /\ (Has(I, c, "rr73") => Young(a, c, 0)) BY <3>2, <3>3 DEF Has
    <3>6. ~Has(K, c, "report") /\ ~Has(K, c, "rr73") BY <3>4 DEF Has
    <3>7. Sent(s) = s BY <2>4, <3>2
    <3> QED BY <3>1, <3>2, <3>5, <3>6, <3>7 DEF Over
  <2>10. Reports(a, I, K, Sent(s), "decide", tx, c) BY <2>5, <2>6, <2>7, <2>8, <2>9 DEF Reports
  <2> QED BY <1>1, <2>10 DEF Follows
<1>2. CASE c \notin ByReport
  <2>1. s \in {"call", "roger", "bye", "quiet"} BY <1>2 DEF Follows
  <2>2. Sent(s) \in {"call", "roger", "bye", "quiet"} BY <2>1 DEF Sent
  <2> QED BY <1>2, <2>2 DEF Follows
<1> QED BY <1>1, <1>2

(* What is said when a decision is taken was heard or waited before.         *)
LEMMA SaidBefore ==
  ASSUME NEW a, Settled(a), Apart(a), Steady(a), NEW batch, NEW m \in Said(Passed(a), batch)
  PROVE  m \in Elts(batch) \/ \E o \in Elts(a.pending) : o.msg = m
<1>1. CASE m \in Elts(batch) BY <1>1
<1>2. CASE \E e \in Elts(Passed(a).pending) : e.msg = m
  <2>1. PICK e \in Elts(Passed(a).pending) : e.msg = m BY <1>2
  <2>2. \E o \in Elts(a.pending) : e.msg = o.msg BY PassedDoes
  <2> QED BY <2>1, <2>2
<1> QED BY <1>1, <1>2 DEF Said

(* Who says RR73 is known or was logged, when the period has passed.         *)
LEMMA StillCovered ==
  ASSUME NEW a, Settled(a), Apart(a), Steady(a), Open(Passed(a)), NEW batch, NEW L, NEW s, NEW tx,
         \A c \in Call : Follows(a, Elts(batch), L, s[c], "decide", tx, c),
         \A m \in Elts(batch) : Fits(m), RECENT_TTL > PENDING_TTL
  PROVE  Covered(Passed(a), batch)
<1> DEFINE b == Passed(a)
<1>1. /\ Steady(b) /\ b.partner.call = a.partner.call /\ b.dropped = a.dropped
      /\ \A e \in Elts(b.pending) : /\ e.age \in Nat /\ e.age <= PENDING_TTL
                                    /\ \E o \in Elts(a.pending) : e.msg = o.msg /\ e.age = o.age + 1
      /\ \A c, n : n \in Nat /\ n + 1 <= RECENT_TTL /\ Young(a, c, n) => Young(b, c, n + 1)
     BY PassedDoes
<1>2. PENDING_TTL \in Nat /\ RECENT_TTL \in Nat /\ 0 + 1 <= RECENT_TTL BY ActivatorAssumption
<1>3. b \in Machine BY DEF Open, Sound
<1>4. b.recent \in Seq(Retired) BY <1>3, MachineFields
<1>5. \A m \in Said(b, batch) : m \in Elts(batch) \/ \E o \in Elts(a.pending) : o.msg = m BY SaidBefore
<1> HIDE DEF b
<1>6. SUFFICES ASSUME NEW c \in Call, NEW m \in Said(b, batch), m.from = c, m.ex = "rr73", ~KnownTo(b, c)
               PROVE  \E n : Young(b, c, n)
  <2>1. \A c, n : Young(b, c, n) => InRecent(b, c) BY <1>4, RecentElts DEF Young
  <2> QED BY <2>1 DEF Covered, Sees, b
<1>7. Fits(m) BY <1>1, <1>6 DEF Said, Steady
<1>8. c \in ByReport BY <1>6, <1>7, ActivationAssumption DEF Fits, ByReport
<1>9. Reports(a, Elts(batch), L, s[c], "decide", tx, c) BY <1>8 DEF Follows
<1>10. ~KnownTo(a, c) BY <1>1, <1>6 DEF KnownTo
<1>11. s[c] # "call" BY <1>5, <1>6, <1>9 DEF Reports, Has
<1>12. Over(a, Elts(batch), L, s[c], "decide", tx, c) BY <1>9, <1>10, <1>11 DEF Reports
<1>13. CASE m \in Elts(batch)
  <2>1. Young(a, c, 0) BY <1>6, <1>12, <1>13 DEF Over, Has
  <2> QED BY <1>1, <1>2, <2>1
<1>14. CASE \E e \in Elts(b.pending) : e.msg = m
  <2>1. PICK e \in Elts(b.pending) : e.msg = m BY <1>14
  <2>2. PICK o \in Elts(a.pending) : e.msg = o.msg /\ e.age = o.age + 1 BY <1>1
  <2>3. Young(a, c, o.age + 1) BY <1>6, <1>12, <2>1, <2>2 DEF Over
  <2> DEFINE x == e.age
  <2>4. x \in Nat /\ x <= PENDING_TTL /\ Young(a, c, x) BY <1>1, <2>2, <2>3
  <2> HIDE DEF x
  <2>5. x + 1 <= RECENT_TTL BY <1>2, <2>4
  <2> QED BY <1>1, <2>4, <2>5
<1> QED BY <1>6, <1>13, <1>14 DEF Said

(* The decision.                                                             *)
LEMMA DecidesFollows ==
  ASSUME NEW a, Settled(a), Apart(a), Steady(a), NEW batch, NEW L, NEW s, NEW tx, NEW c \in Call, NEW r,
         Follows(a, Elts(batch), L, s, "decide", tx, c), Serves(Passed(a), batch, r),
         RECENT_TTL > PENDING_TTL
  PROVE  Follows(r.a, {}, L, s, "ours", r.tx, c)
<1> DEFINE b == Passed(a)
           H == Elts(batch)
<1>1. /\ Steady(b) /\ b.partner.call = a.partner.call /\ b.dropped = a.dropped
      /\ \A e \in Elts(b.pending) : /\ e.age \in Nat /\ e.age <= PENDING_TTL
                                    /\ \E o \in Elts(a.pending) : e.msg = o.msg /\ e.age = o.age + 1
      /\ \A n : n \in Nat /\ n + 1 <= RECENT_TTL /\ Young(a, c, n) => Young(b, c, n + 1)
     BY PassedDoes
<1>2. PENDING_TTL \in Nat /\ RECENT_TTL \in Nat /\ 0 + 1 <= RECENT_TTL BY ActivatorAssumption
<1>3. \A m \in Said(b, batch) : m \in H \/ \E o \in Elts(a.pending) : o.msg = m BY SaidBefore
<1> HIDE DEF b
<1>4. /\ TellsRight(b, batch, r, c)
      /\ \A e \in Elts(r.a.pending) : e \in Elts(b.pending) \/ (e.age = 0 /\ e.msg \in H)
      /\ c \in ByReport /\ KnownTo(b, c) => KnownTo(r.a, c) \/ Ended(b, batch, r, c)
      /\ c \in ByReport /\ b.partner.call # c /\ ~Sees(b, batch, c, "report") => StaysOver(b, r, c)
     BY DEF Serves, b
<1>5. \A e \in Elts(r.a.pending) : e.msg \in Said(b, batch) BY <1>4 DEF Said
<1>6. CASE c \in ByReport
  <2>1. Reports(a, H, L, s, "decide", tx, c) BY <1>6 DEF Follows
  <2>2. s \in {"call", "sent", "quiet"} /\ (Has(L, c, "report") => s = "call") BY <2>1 DEF Reports
  <2>3. \A m \in Said(b, batch) : m.from = c /\ m.ex = "rr73" => s # "call" BY <1>3, <2>1 DEF Reports, Has
  <2>4. \A e \in Elts(r.a.pending) : e.msg.from = c /\ e.msg.ex = "rr73" => s # "call" BY <1>5, <2>3
  <2>5. Has(L, c, "rr73") => s # "call" BY <2>1 DEF Reports
  <2>6. r.tx.to = c => \/ r.tx.text = "rreport" /\ KnownTo(r.a, c)
                       \/ r.tx.text = "73" /\ s # "call"
       BY <1>4, <1>6, <2>3 DEF TellsRight, Sees
  <2>7. ASSUME Ended(b, batch, r, c) PROVE Over(r.a, {}, L, s, "ours", r.tx, c)
    <3>1. s # "call" BY <2>3, <2>7 DEF Ended, Sees
    <3> QED BY <2>2, <2>7, <3>1 DEF Over, Ended, Has
  <2>8. ASSUME Over(a, H, L, s, "decide", tx, c) PROVE Over(r.a, {}, L, s, "ours", r.tx, c)
    <3>1. /\ a.partner.call # c /\ ~Has(H, c, "report") /\ ~Has(L, c, "report") /\ ~Has(L, c, "rr73")
          /\ \A e \in Elts(a.pending) : e.msg.from = c => e.msg.ex # "report" /\ Young(a, c, e.age + 1)
          /\ Has(H, c, "rr73") => Young(a, c, 0)
          /\ s \in {"sent", "quiet"}
         BY <2>8 DEF Over
    <3>2. \A m \in Said(b, batch) : m.from = c => m.ex # "report" BY <1>3, <3>1 DEF Has
    <3>3. StaysOver(b, r, c) BY <1>1, <1>4, <1>6, <3>1, <3>2 DEF Sees
    <3>4. ASSUME NEW e \in Elts(r.a.pending), e.msg.from = c PROVE Young(r.a, c, e.age + 1)
      <4>1. CASE e \in Elts(b.pending)
        <5>1. PICK o \in Elts(a.pending) : e.msg = o.msg /\ e.age = o.age + 1 BY <1>1, <4>1
        <5>2. Young(a, c, o.age + 1) BY <3>1, <3>4, <5>1
        <5> DEFINE x == e.age
        <5>3. x \in Nat /\ x <= PENDING_TTL /\ Young(a, c, x) BY <1>1, <4>1, <5>1, <5>2
        <5> HIDE DEF x
        <5>4. x + 1 <= RECENT_TTL /\ x + 1 \in Nat BY <1>2, <5>3
        <5>5. Young(b, c, x + 1) BY <1>1, <5>3, <5>4
        <5>6. Young(r.a, c, x + 1) BY <3>3, <5>4, <5>5 DEF StaysOver
        <5> QED BY <5>6 DEF x
      <4>2. CASE e.age = 0 /\ e.msg \in H
        <5>1. e.msg.ex = "rr73" => Young(a, c, 0) BY <3>1, <3>4, <4>2 DEF Has
        <5>2. e.msg.ex = "rr73"
          <6>1. Steady(r.a) BY DEF Serves
          <6>2. Fits(e.msg) BY <6>1 DEF Steady
          <6>3. e.msg.ex # "report" BY <1>5, <3>2, <3>4
          <6> QED BY <1>6, <3>4, <6>2, <6>3 DEF Fits, ByReport
        <5>3. Young(b, c, 0 + 1) /\ 0 + 1 \in Nat BY <1>1, <1>2, <5>1, <5>2
        <5>4. Young(r.a, c, 0 + 1) BY <3>3, <5>3 DEF StaysOver
        <5> QED BY <4>2, <5>4
      <4> QED BY <1>4, <4>1, <4>2
    <3>5. \A e \in Elts(r.a.pending) : e.msg.from = c => e.msg.ex # "report" /\ Young(r.a, c, e.age + 1)
         BY <1>5, <3>2, <3>4
    <3> QED BY <3>1, <3>3, <3>5 DEF Over, StaysOver, Has
  <2>9. s # "call" => KnownTo(r.a, c) \/ Over(r.a, {}, L, s, "ours", r.tx, c)
    <3>1. KnownTo(a, c) => KnownTo(b, c) BY <1>1 DEF KnownTo
    <3> QED BY <1>4, <1>6, <2>1, <2>7, <2>8, <3>1 DEF Reports
  <2>10. ~Has({}, c, "rr73") BY DEF Has
  <2>11. Reports(r.a, {}, L, s, "ours", r.tx, c) BY <2>2, <2>4, <2>5, <2>6, <2>9, <2>10 DEF Reports
  <2> QED BY <1>6, <2>11 DEF Follows
<1>7. CASE c \notin ByReport BY <1>4, <1>7 DEF Follows, TellsRight
<1> QED BY <1>6, <1>7

(* The inductive invariant of the second theorem; a machine that has stopped *)
(* logs nothing, so it need not remember anybody.                            *)
Kept(a, h, l, s, t, tx) ==
  /\ Steady(a) /\ \A m \in Elts(h) : Fits(m)
  /\ \A m \in Elts(l) : Fits(m)
  /\ \A c \in Call : Follows(a, Elts(h), Elts(l), s[c], t, tx, c)

ReportInv ==
  /\ Settled(act) /\ Apart(act)
  /\ heard \in Seq(Heard) /\ late \in Seq(Heard) /\ st \in [Call -> States]
  /\ turn = "start" => heard = <<>> /\ late = <<>> /\ st = [c \in Call |-> "call"]
  /\ ReportKept
  /\ Runs(act) => Kept(act, heard, late, st, turn, out.tx)

(* The empty record names nobody.                                           *)
LEMMA NothingLogged == NoRecord.call = NoCall
BY DEF NoRecord

(* It holds at the start ...                                                *)
LEMMA ReportInit == ActivationInit => ReportInv
<1> SUFFICES ASSUME ActivationInit PROVE ReportInv OBVIOUS
<1>1. act = new /\ heard = <<>> /\ out.logged = NoRecord /\ late = <<>> /\ st = [c \in Call |-> "call"]
     BY DEF ActivationInit, ActivatorInit, Nothing
<1>2. new = [new EXCEPT !.phase = "Stopped"] BY DEF new
<1>3. Settled(act) /\ Apart(act) /\ act.phase = "Stopped" BY <1>1, <1>2, FreshAir
<1>4. <<>> \in Seq(Heard) OBVIOUS
<1>5. st \in [Call -> States] BY <1>1 DEF States
<1>6. ReportKept BY <1>1, NothingLogged DEF ReportKept
<1>7. ~Runs(act) BY <1>3 DEF Runs
<1> QED BY <1>1, <1>3, <1>4, <1>5, <1>6, <1>7 DEF ReportInv

(* What a caller says is of its style.                                       *)
LEMMA SayingsFit ==
  ASSUME st \in [Call -> States], NEW c \in Call, NEW a, NEW H, NEW L, NEW t, NEW tx,
         Follows(a, H, L, st[c], t, tx, c), NEW m \in Sayings, m.from = c
  PROVE  Tells(c, st[c], m.ex) /\ Fits(m)
<1>1. c \in Sends /\ m.ex = Says(c)
  <2>1. PICK d \in Sends : m = [from |-> d, ex |-> Says(d)] BY DEF Sayings
  <2>2. m.from = d /\ m.ex = Says(d) BY <2>1
  <2> QED BY <2>2
<1>2. st[c] \in {"call", "roger", "rr", "bye"} BY <1>1 DEF Sends
<1>3. Tells(c, st[c], m.ex) BY <1>1, <1>2, SayingsType DEF Tells
<1>4. st[c] \in (IF c \in ByReport THEN {"call", "rr", "sent", "quiet"} ELSE {"call", "roger", "bye", "quiet"})
     BY DEF Follows, Reports
<1>5. Style[c] = IF c \in ByReport THEN "report" ELSE "grid" BY ActivationAssumption DEF ByReport
<1>6. Fits(m)
  <2>1. CASE c \in ByReport
    <3>1. m.ex \in {"report", "rr73"} BY <1>3, <1>4, <1>5, <2>1 DEF Tells
    <3> QED BY <1>5, <2>1, <3>1 DEF Fits
  <2>2. CASE c \notin ByReport
    <3>1. m.ex \in {"grid", "rreport", "s73"} BY <1>3, <1>4, <1>5, <2>2 DEF Tells
    <3> QED BY <1>5, <2>2, <3>1 DEF Fits
  <2> QED BY <2>1, <2>2
<1> QED BY <1>3, <1>6

(* ... and every step keeps it, with room for every caller.                 *)
LEMMA ReportStep ==
  ASSUME Cardinality(Call) <= DROPPED_MAX, RECENT_TTL > PENDING_TTL, RECENT_MAX > RECENT_TTL + 1
  PROVE  ReportInv /\ [ActivationNext]_allVars => ReportInv'
<1> SUFFICES ASSUME ReportInv, [ActivationNext]_allVars PROVE ReportInv' OBVIOUS
<1>1. /\ Settled(act) /\ Apart(act)
      /\ heard \in Seq(Heard) /\ late \in Seq(Heard) /\ st \in [Call -> States]
      /\ turn = "start" => heard = <<>> /\ late = <<>> /\ st = [c \in Call |-> "call"]
      /\ out.logged.call # NoCall => out.logged.rcvd
      /\ Runs(act) => Kept(act, heard, late, st, turn, out.tx)
     BY DEF ReportInv, ReportKept
<1> SUFFICES /\ Settled(act') /\ Apart(act')
             /\ heard' \in Seq(Heard) /\ late' \in Seq(Heard) /\ st' \in [Call -> States]
             /\ turn' = "start" => heard' = <<>> /\ late' = <<>> /\ st' = [c \in Call |-> "call"]
             /\ out'.logged.call # NoCall => out'.logged.rcvd
             /\ Runs(act') => Kept(act', heard', late', st', turn', out'.tx)
  <2>1. /\ Settled(act') = Settled(act)' /\ Apart(act') = Apart(act)' /\ Runs(act') = Runs(act)'
        /\ Kept(act', heard', late', st', turn', out'.tx) = Kept(act, heard, late, st, turn, out.tx)'
       OBVIOUS
  <2> QED BY <2>1 DEF ReportInv, ReportKept
<1>2. <<>> \in Seq(Heard) /\ Elts(<<>>) = {}
  <2>1. 1..Len(<<>>) = {} OBVIOUS
  <2> QED BY <2>1 DEF Elts
<1>3. CASE Go
  <2>1. /\ act' = [new EXCEPT !.phase = "Cq"] /\ out' = Nothing /\ heard' = heard /\ st' = st
        /\ late' = late /\ turn = "start" /\ turn' = "theirs"
       BY <1>3 DEF Go, Start
  <2>2. /\ Settled(act') /\ Apart(act') /\ act'.partner = NoPartner /\ act'.dropped = <<>>
        /\ act'.pending = <<>>
       BY <2>1, FreshAir
  <2>3. out'.logged = NoRecord BY <2>1 DEF Nothing
  <2>4. Steady(act') BY <1>2, <2>2, NoPartnerType, ActivatorAssumption DEF Steady
  <2>5. ASSUME NEW c \in Call PROVE Follows(act', Elts(heard'), Elts(late'), st'[c], turn', out'.tx, c)
    <3>1. Elts(heard') = {} /\ Elts(late') = {} /\ Elts(act'.pending) = {} /\ st'[c] = "call"
         BY <1>1, <1>2, <2>1, <2>2
    <3> QED BY <2>1, <3>1 DEF Follows, Reports, Has
  <2>6. Kept(act', heard', late', st', turn', out'.tx) BY <1>1, <1>2, <2>1, <2>4, <2>5 DEF Kept
  <2> QED BY <1>1, <2>1, <2>2, <2>3, <2>6, NothingLogged
<1>4. CASE Theirs
  <2>1. /\ heard' \in Seq(Heard) /\ late' \in Seq(Heard)
        /\ Elts(heard') \subseteq Elts(late) \cup Sayings /\ Elts(late') \subseteq Sayings
        /\ st' = [c \in Call |-> Sent(st[c])] /\ turn = "theirs" /\ turn' = "decide"
        /\ act' = act /\ out' = out
       BY <1>1, <1>4, TheirsDoes
  <2>2. ASSUME NEW s \in States PROVE Sent(s) \in States BY DEF Sent, States
  <2>3. st' \in [Call -> States] BY <1>1, <2>1, <2>2
  <2>4. ASSUME Runs(act) PROVE Kept(act', heard', late', st', turn', out'.tx)
    <3>1. /\ Steady(act) /\ \A m \in Elts(late) : Fits(m)
          /\ \A c \in Call : Follows(act, Elts(heard), Elts(late), st[c], "theirs", out.tx, c)
         BY <1>1, <2>1, <2>4 DEF Kept
    <3>2. ASSUME NEW m \in Sayings PROVE m.from \in Call /\ Tells(m.from, st[m.from], m.ex) /\ Fits(m)
      <4>1. m \in Heard BY <1>1, SayingsType
      <4>2. m.from \in Call BY <4>1 DEF Heard
      <4> QED BY <1>1, <3>1, <4>2, SayingsFit
    <3>3. (\A m \in Elts(heard') : Fits(m)) /\ \A m \in Elts(late') : Fits(m) BY <2>1, <3>1, <3>2
    <3>4. ASSUME NEW c \in Call PROVE Follows(act, Elts(heard'), Elts(late'), Sent(st[c]), "decide", out.tx, c)
      <4>1. \A m \in Elts(heard') : m.from = c => m \in Elts(late) \/ Tells(c, st[c], m.ex) BY <2>1, <3>2
      <4>2. \A m \in Elts(late') : m.from = c => Tells(c, st[c], m.ex) BY <2>1, <3>2
      <4> QED BY <3>1, <4>1, <4>2, TheirsFollows
    <3>5. \A c \in Call : st'[c] = Sent(st[c]) BY <2>1
    <3> QED BY <2>1, <3>1, <3>3, <3>4, <3>5 DEF Kept
  <2> QED BY <1>1, <2>1, <2>3, <2>4
<1>5. CASE Decides
  <2> DEFINE r == decide(Elapse(act, 1), heard)
  <2>1. /\ act' = r.a /\ out' = [tx |-> r.tx, logged |-> r.logged] /\ heard' = <<>> /\ st' = st
        /\ late' = late /\ turn = "decide" /\ turn' = "ours"
       BY <1>5 DEF Decides, Decide
  <2>2. /\ Outcome(r)
        /\ Runs(act) => Open(Passed(act)) /\ Apart(Passed(act)) /\ Decides3(Passed(act), heard, r)
        /\ ~Runs(act) => Rests(Elapse(act, 1), r)
       BY <1>1, DecideDoes
  <2>3. Settled(r.a) BY <2>2 DEF Outcome
  <2>4. CASE ~Runs(act)
    <3>1. Rests(Elapse(act, 1), r) BY <2>2, <2>4
    <3>2. act \in Machine BY <1>1 DEF Settled, Sound
    <3>3. Apart(Elapse(act, 1)) BY <1>1, <3>2, ElapseDoes
    <3> HIDE DEF r
    <3>4. Apart(r.a) BY <3>1, <3>3 DEF Rests, Apart
    <3>5. ~Runs(r.a) /\ r.logged = NoRecord BY <3>1 DEF Rests, Runs
    <3>6. out'.logged = r.logged BY <2>1
    <3> QED BY <1>1, <1>2, <2>1, <2>3, <3>4, <3>5, <3>6, NothingLogged
  <2>5. CASE Runs(act)
    <3>1. /\ Steady(act) /\ (\A m \in Elts(heard) : Fits(m)) /\ \A m \in Elts(late) : Fits(m)
          /\ \A c \in Call : Follows(act, Elts(heard), Elts(late), st[c], "decide", out.tx, c)
         BY <1>1, <2>1, <2>5 DEF Kept
    <3>2. Open(Passed(act)) /\ Apart(Passed(act)) /\ Decides3(Passed(act), heard, r) BY <2>2, <2>5
    <3> HIDE DEF r
    <3>3. Steady(Passed(act)) BY <1>1, <3>1, PassedDoes
    <3>4. Covered(Passed(act), heard) BY <1>1, <3>1, <3>2, StillCovered
    <3>5. Serves(Passed(act), heard, r) BY <1>1, <3>1, <3>2, <3>3, <3>4, DecidesServes
    <3>6. Apart(r.a) BY <3>2 DEF Decides3, Acts
    <3>7. Steady(r.a) /\ (r.logged = NoRecord \/ r.logged.rcvd) BY <3>5 DEF Serves
    <3>8. \A c \in Call : Follows(r.a, {}, Elts(late), st[c], "ours", r.tx, c)
         BY <1>1, <3>1, <3>5, DecidesFollows
    <3>9. out'.tx = r.tx /\ out'.logged = r.logged BY <2>1
    <3>10. Kept(act', heard', late', st', turn', out'.tx) BY <1>2, <2>1, <3>1, <3>7, <3>8, <3>9 DEF Kept
    <3> QED BY <1>1, <1>2, <2>1, <2>3, <3>6, <3>7, <3>9, <3>10, NothingLogged
  <2> QED BY <2>4, <2>5
<1>6. CASE Ours
  <2>1. /\ act' = act /\ heard' = heard /\ out' = out /\ late' = late /\ turn = "ours" /\ turn' = "theirs"
        /\ \/ st' = [c \in Call |-> IF out.tx.to = c THEN Hears(st[c], out.tx.text) ELSE st[c]]
           \/ st' = st
       BY <1>6 DEF Ours, vars
  <2>2. ASSUME NEW s \in States, NEW t PROVE Hears(s, t) \in States BY DEF Hears, States
  <2>3. \A c \in Call : st'[c] = st[c] \/ (out.tx.to = c /\ st'[c] = Hears(st[c], out.tx.text)) BY <2>1
  <2>4. st' \in [Call -> States] BY <1>1, <2>1, <2>2
  <2>5. ASSUME Runs(act) PROVE Kept(act', heard', late', st', turn', out'.tx)
    <3>1. /\ Steady(act) /\ (\A m \in Elts(heard) : Fits(m)) /\ \A m \in Elts(late) : Fits(m)
          /\ \A c \in Call : Follows(act, Elts(heard), Elts(late), st[c], "ours", out.tx, c)
         BY <1>1, <2>1, <2>5 DEF Kept
    <3>2. \A c \in Call : Follows(act, Elts(heard), Elts(late), st'[c], "theirs", out.tx, c)
         BY <2>3, <3>1, OursFollows
    <3> QED BY <2>1, <3>1, <3>2 DEF Kept
  <2> QED BY <1>1, <2>1, <2>4, <2>5
<1>7. CASE UNCHANGED allVars
  <2>1. /\ act' = act /\ heard' = heard /\ out' = out /\ late' = late /\ turn' = turn /\ st' = st
       BY <1>7 DEF allVars, vars, airVars
  <2> QED BY <1>1, <2>1
<1> QED BY <1>3, <1>4, <1>5, <1>6, <1>7 DEF ActivationNext

(* A contact is never logged without the report the caller sent, whatever is *)
(* lost or late, as long as the list of dropped partners (DROPPED_MAX) has a *)
(* place for every caller: Activator::decide_active remembers whom it drops, *)
(* and a repeated RR73 finds its sender among the logged partners, who are   *)
(* kept longer (RECENT_TTL) than a message waits (PENDING_TTL).              *)
THEOREM ReportIsKept ==
  ASSUME Cardinality(Call) <= DROPPED_MAX, RECENT_TTL > PENDING_TTL, RECENT_MAX > RECENT_TTL + 1
  PROVE  ActivationSpec => []ReportKept
<1>1. ReportInv => ReportKept BY DEF ReportInv
<1>2. ReportInv /\ [ActivationNext]_allVars => ReportInv' BY ReportStep
<1> QED BY <1>1, <1>2, ReportInit, PTL DEF ActivationSpec
=============================================================================
