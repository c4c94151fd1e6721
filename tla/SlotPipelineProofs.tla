------------------------- MODULE SlotPipelineProofs -------------------------
(***************************************************************************)
(* The slot pipeline implements the stream of slots (SlotStream), for any    *)
(* slot lengths, any queue depths and any number of slots, as long as the    *)
(* decode of a slot is over before the one after the next starts (Lag <= 2). *)
(***************************************************************************)
EXTENDS SlotPipeline, TLAPS

(* The tag of slot j's audio, and the buffer it is filled into. *)
Own(j) == <<j, 0>>
BufOf(j) == j % 2

(* The slot stage1_inc is filling: one past those decoded, in the decode     *)
(* task's hands or in slot_q; and the slot whose message it expects next.    *)
Held == IF main.at = "late" THEN 1 ELSE 0
Fin == decoded + Held + Len(slotQ)
Want == IF closing = -1 THEN Fin ELSE Fin + 1

(* The slot of the bundle at the head of spec_q. *)
Taken == IF main.at = "spec" THEN 0 ELSE 1
Sent == IF cur.sent THEN 1 ELSE 0

(* The slot a message of chunk_q belongs to, and the slot of the next one.   *)
IsEnd(x) == x.kind = "end"
IdxOf(x) == IF x.kind = "end" THEN x.idx ELSE x.tag[1]
NextIdx(x) == IF x.kind = "end" THEN x.idx + 1 ELSE x.tag[1]

Tag == Int \X {0}
Msg == [kind : {"samples"}, tag : Nat \X {0}] \cup [kind : {"end"}, idx : Nat]
Bundle == [rows : SUBSET Tag, buf : {0, 1}, len : 0..NMAX]
Slot == [buf : {0, 1}, len : 0..NMAX, idx : Int]

CaptureTypes == cap \in [n : Nat, take : {0}, parts : Nat, target : Nat \ {0}]
QueueTypes == chunkQ \in Seq(Msg) /\ specQ \in Seq(Bundle) /\ slotQ \in Seq(Slot)
Stage1Types ==
  /\ bufs \in [{0, 1} -> [1..NMAX -> Tag]] /\ fill_idx \in {0, 1}
  /\ cur \in [fill : 0..NMAX, next : 0..NMAX, rows : SUBSET Tag, sent : BOOLEAN]
  /\ s1 \in {"recv", "emit", "finalize"} /\ closing \in Nat \cup {-1}
MainTypes ==
  /\ main \in [at : {"spec", "early", "slot", "late"}, bundle : Bundle, slot : Slot,
               heard : SUBSET Tag]
  /\ decoded \in Nat
Types == CaptureTypes /\ QueueTypes /\ Stage1Types /\ MainTypes

(* The messages on the way continue each other: the first is the one         *)
(* stage1_inc expects, the last the one capture sent last.                   *)
Chain ==
  /\ chunkQ = <<>> => cap.n = Want
  /\ chunkQ # <<>> => IdxOf(chunkQ[1]) = Want /\ cap.n = NextIdx(chunkQ[Len(chunkQ)])
  /\ \A i \in 1..(Len(chunkQ) - 1) : IdxOf(chunkQ[i + 1]) = NextIdx(chunkQ[i])
  /\ Want <= cap.n /\ \A i \in 1..Len(chunkQ) : NextIdx(chunkQ[i]) <= cap.n

(* A slot has audio before it ends. *)
Fed ==
  /\ closing # -1 => cur.fill > 0
  /\ \A i \in 1..Len(chunkQ) : IsEnd(chunkQ[i]) =>
       IF i = 1 THEN cur.fill > 0 /\ closing = -1 ELSE ~IsEnd(chunkQ[i - 1])
  /\ cap.parts > 0 => IF chunkQ = <<>> THEN cur.fill > 0 /\ closing = -1
                      ELSE ~IsEnd(chunkQ[Len(chunkQ)])

(* Audio is on the way only for a slot whose last but one is decoded. *)
Timing ==
  /\ cap.parts > 0 => cap.n < decoded + 2
  /\ \A i \in 1..Len(chunkQ) : ~IsEnd(chunkQ[i]) => IdxOf(chunkQ[i]) < decoded + 2

(* The first n parts of slot j are in its buffer. *)
Holds(B, j, n) == \A p \in 1..n : B[BufOf(j)][p] = Own(j)

(* The slot being filled. *)
Filling ==
  /\ fill_idx = BufOf(Fin) /\ Holds(bufs, Fin, cur.fill)
  /\ cur.next = cur.fill /\ cur.rows = IF cur.fill = 0 THEN {} ELSE {Own(Fin)}
  /\ closing \in {-1, Fin}
  /\ s1 = "recv" => closing = -1
  /\ s1 = "emit" => ~cur.sent /\ cur.fill > 0
  /\ s1 = "finalize" => cur.sent /\ closing = Fin

(* What goes to the decode task is of the slot it is for, and so is what it  *)
(* points at.                                                                *)
GoodBundle(B, j, b) == b.rows = {Own(j)} /\ b.buf = BufOf(j) /\ b.len > 0 /\ Holds(B, j, b.len)
GoodSlot(B, j, s) == s.idx = j /\ s.buf = BufOf(j) /\ s.len > 0 /\ Holds(B, j, s.len)

Bundles ==
  /\ decoded + Taken + Len(specQ) = Fin + Sent
  /\ \A i \in 1..Len(specQ) : GoodBundle(bufs, decoded + Taken + i - 1, specQ[i])
Slots ==
  \A i \in 1..Len(slotQ) : GoodSlot(bufs, decoded + Held + i - 1, slotQ[i])

(* The decode task has read the slot it is at, or has given it up. *)
Decoding ==
  /\ main.at = "early" => GoodBundle(bufs, decoded, main.bundle)
  /\ main.at \in {"slot", "late"} => main.bundle = NoBundle \/ main.heard = {Own(decoded)}
  /\ main.at = "late" => GoodSlot(bufs, decoded, main.slot)

PipelineInv == Types /\ Chain /\ Fed /\ Timing /\ Filling /\ Bundles /\ Slots /\ Decoding
-----------------------------------------------------------------------------
(* Counting *)

LEMMA Counts ==
  ASSUME Types
  PROVE  /\ Held \in {0, 1} /\ Taken \in {0, 1} /\ Sent \in {0, 1} /\ decoded \in Nat
         /\ Len(chunkQ) \in Nat /\ Len(specQ) \in Nat /\ Len(slotQ) \in Nat
         /\ Fin \in Nat /\ Want \in Nat /\ Want \in {Fin, Fin + 1}
         /\ Fin = decoded + Held + Len(slotQ)
<1>1. Len(slotQ) \in Nat /\ Len(chunkQ) \in Nat /\ Len(specQ) \in Nat /\ decoded \in Nat
     BY DEF Types, QueueTypes, MainTypes
<1>2. Held \in {0, 1} /\ Taken \in {0, 1} /\ Sent \in {0, 1} BY DEF Held, Taken, Sent
<1>3. Fin \in Nat /\ Fin = decoded + Held + Len(slotQ) BY <1>1, <1>2 DEF Fin
<1> QED BY <1>1, <1>2, <1>3 DEF Want

(* The two buffers take turns. *)
LEMMA Turns ==
  ASSUME NEW j \in Nat
  PROVE  BufOf(j) \in {0, 1} /\ BufOf(j + 1) = 1 - BufOf(j) /\ BufOf(j + 1) # BufOf(j)
  BY DEF BufOf

(* A message of chunk_q. *)
LEMMA MsgShape ==
  ASSUME NEW x \in Msg
  PROVE  /\ IdxOf(x) \in Nat /\ NextIdx(x) \in Nat
         /\ IsEnd(x) => NextIdx(x) = IdxOf(x) + 1 /\ x.idx = IdxOf(x)
         /\ ~IsEnd(x) => x.kind = "samples" /\ NextIdx(x) = IdxOf(x) /\ x.tag = Own(IdxOf(x))
<1>1. CASE x \in [kind : {"samples"}, tag : Nat \X {0}]
  <2>1. x.kind = "samples" /\ x.tag \in Nat \X {0} BY <1>1
  <2>2. x.tag = <<x.tag[1], 0>> /\ x.tag[1] \in Nat BY <2>1
  <2> QED BY <2>1, <2>2 DEF IdxOf, NextIdx, IsEnd, Own
<1>2. CASE x \in [kind : {"end"}, idx : Nat]
     BY <1>2 DEF IdxOf, NextIdx, IsEnd
<1> QED BY <1>1, <1>2 DEF Msg

(* A message of samples.                                                     *)
LEMMA SamplesMsg ==
  ASSUME NEW k \in Nat
  PROVE  /\ Samples(<<k, 0>>) \in Msg /\ ~IsEnd(Samples(<<k, 0>>))
         /\ IdxOf(Samples(<<k, 0>>)) = k /\ NextIdx(Samples(<<k, 0>>)) = k
  BY DEF Samples, Msg, IsEnd, IdxOf, NextIdx

(* The message that ends a slot.                                             *)
LEMMA EndMsg ==
  ASSUME NEW k \in Nat
  PROVE  /\ SlotEndMsg(k) \in Msg /\ IsEnd(SlotEndMsg(k))
         /\ IdxOf(SlotEndMsg(k)) = k /\ NextIdx(SlotEndMsg(k)) = k + 1
  BY DEF SlotEndMsg, Msg, IsEnd, IdxOf, NextIdx

(* A queue takes one more at its end, and gives one from its front. *)
LEMMA Appended ==
  ASSUME NEW T, NEW q \in Seq(T), NEW x \in T
  PROVE  /\ Append(q, x) \in Seq(T) /\ Append(q, x) # <<>> /\ Len(q) \in Nat
         /\ Len(Append(q, x)) = Len(q) + 1 /\ Append(q, x)[Len(q) + 1] = x
         /\ \A i \in 1..Len(q) : Append(q, x)[i] = q[i]
  OBVIOUS

(* A receive takes the head of a queue.                                      *)
LEMMA Removed ==
  ASSUME NEW T, NEW q \in Seq(T), q # <<>>
  PROVE  /\ Tail(q) \in Seq(T) /\ Head(q) = q[1] /\ q[1] \in T
         /\ Len(q) \in Nat /\ Len(q) > 0 /\ Len(Tail(q)) = Len(q) - 1
         /\ \A i \in 1..(Len(q) - 1) : Tail(q)[i] = q[i + 1]
         /\ Tail(q) = <<>> <=> Len(q) = 1
<1>1. /\ Tail(q) \in Seq(T) /\ Head(q) = q[1]
      /\ Len(q) \in Nat /\ Len(q) > 0 /\ Len(Tail(q)) = Len(q) - 1
      /\ \A i \in 1..(Len(q) - 1) : Tail(q)[i] = q[i + 1]
     OBVIOUS
<1>2. q[1] \in T BY <1>1
<1>3. \A r \in Seq(T) : r = <<>> <=> Len(r) = 0 OBVIOUS
<1>4. Len(Tail(q)) = 0 <=> Len(q) = 1 BY <1>1
<1> QED BY <1>1, <1>2, <1>3, <1>4

(* The invariant starts to hold with nothing captured. *)
LEMMA PipelineInvInit == PipelineInit => PipelineInv
<1> SUFFICES ASSUME PipelineInit PROVE PipelineInv
     OBVIOUS
<1> USE DEF PipelineInit
<1>1. CaptureTypes BY PipelineAssumption DEF CaptureTypes
<1>2. QueueTypes BY DEF QueueTypes
<1>3. NMAX \in Nat BY PipelineAssumption
<1>4. Stage1Types
  <2>1. NoTag \in Tag BY DEF NoTag, Tag
  <2>2. bufs \in [{0, 1} -> [1..NMAX -> Tag]] BY <2>1
  <2>3. cur \in [fill : 0..NMAX, next : 0..NMAX, rows : SUBSET Tag, sent : BOOLEAN]
       BY <1>3 DEF SlotInProgress
  <2> QED BY <2>2, <2>3 DEF Stage1Types
<1>5. MainTypes
  <2>1. NoBundle \in Bundle BY <1>3 DEF NoBundle, Bundle
  <2>2. NoSlot \in Slot BY <1>3 DEF NoSlot, Slot
  <2> QED BY <2>1, <2>2 DEF MainTypes
<1>6. Types BY <1>1, <1>2, <1>4, <1>5 DEF Types
<1>7. /\ Held = 0 /\ Taken = 0 /\ Sent = 0 /\ Fin = 0 /\ Want = 0 /\ Len(chunkQ) = 0
      /\ Len(specQ) = 0 /\ Len(slotQ) = 0 /\ decoded = 0
     BY DEF Held, Taken, Sent, Fin, Want, SlotInProgress
<1>8. cap.n = 0 /\ cap.parts = 0 BY <1>6 DEF Types, CaptureTypes
<1>9. cur.fill = 0 /\ cur.next = 0 /\ cur.rows = {} /\ cur.sent = FALSE BY DEF SlotInProgress
<1>10. Chain BY <1>7, <1>8 DEF Chain
<1>11. Fed BY <1>7, <1>8, <1>9 DEF Fed
<1>12. Timing BY <1>7, <1>8 DEF Timing
<1>13. Filling BY <1>7, <1>9 DEF Filling, Holds, BufOf
<1>14. Bundles BY <1>7 DEF Bundles
<1>15. Slots BY <1>7 DEF Slots
<1>16. Decoding BY DEF Decoding
<1> QED BY <1>6, <1>10, <1>11, <1>12, <1>13, <1>14, <1>15, <1>16 DEF PipelineInv

-----------------------------------------------------------------------------
(* What a step leaves alone *)

(* stage1_inc and the decode task stand still. *)
LEMMA RestStays ==
  ASSUME PipelineInv, UNCHANGED <<specQ, slotQ, stage1Vars, mainVars>>
  PROVE  /\ Filling' /\ Bundles' /\ Slots' /\ Decoding'
         /\ Fin' = Fin /\ Want' = Want
<1>1. /\ Fin' = Fin /\ Want' = Want /\ Held' = Held /\ Taken' = Taken /\ Sent' = Sent
     BY DEF stage1Vars, mainVars, Fin, Want, Held, Taken, Sent
<1>2. Filling' BY <1>1 DEF PipelineInv, Filling, stage1Vars, mainVars
<1>3. Bundles' BY <1>1 DEF PipelineInv, Bundles, stage1Vars, mainVars
<1>4. Slots' BY <1>1 DEF PipelineInv, Slots, stage1Vars, mainVars
<1>5. Decoding' BY <1>1 DEF PipelineInv, Decoding, stage1Vars, mainVars
<1> QED BY <1>1, <1>2, <1>3, <1>4, <1>5

(* Capture sends another message of the slot it is at. *)
LEMMA ChainGrows ==
  ASSUME Types, Chain, NEW x \in Msg, chunkQ' = Append(chunkQ, x), Want' = Want,
         IdxOf(x) = cap.n, cap.n \in Nat, cap'.n = NextIdx(x)
  PROVE  Chain'
<1> DEFINE n == Len(chunkQ)
<1>1. chunkQ \in Seq(Msg) BY DEF Types, QueueTypes
<1>2. /\ n \in Nat /\ chunkQ' # <<>> /\ Len(chunkQ') = n + 1 /\ chunkQ'[n + 1] = x
      /\ \A i \in 1..n : chunkQ'[i] = chunkQ[i] /\ chunkQ[i] \in Msg
     BY <1>1, Appended
<1>3. NextIdx(x) \in Nat /\ NextIdx(x) >= cap.n BY MsgShape
<1>4. chunkQ = <<>> <=> n = 0 BY <1>1
<1>5. Want \in Nat BY Counts
<1> HIDE DEF n
<1>6. \A i \in 1..n : NextIdx(chunkQ[i]) \in Nat BY <1>2, MsgShape
<1>7. IdxOf(chunkQ'[1]) = Want'
  <2>1. CASE n = 0
    <3>1. chunkQ'[1] = x BY <1>2, <2>1
    <3> QED BY <1>4, <2>1, <3>1 DEF Chain
  <2>2. CASE n > 0
    <3>1. chunkQ'[1] = chunkQ[1] BY <1>2, <2>2
    <3> QED BY <1>4, <2>2, <3>1 DEF Chain
  <2> QED BY <1>2, <2>1, <2>2
<1>8. ASSUME NEW i \in 1..(Len(chunkQ') - 1) PROVE IdxOf(chunkQ'[i + 1]) = NextIdx(chunkQ'[i])
  <2>1. i \in 1..n BY <1>2
  <2>2. CASE i = n
    <3>1. chunkQ'[i + 1] = x /\ chunkQ'[i] = chunkQ[n] /\ n # 0 BY <1>2, <2>1, <2>2
    <3> QED BY <1>4, <3>1 DEF Chain, n
  <2>3. CASE i # n
    <3>1. i + 1 \in 1..n /\ i \in 1..(n - 1) BY <1>2, <2>1, <2>3
    <3>2. chunkQ'[i + 1] = chunkQ[i + 1] /\ chunkQ'[i] = chunkQ[i] BY <1>2, <2>1, <3>1
    <3> QED BY <3>1, <3>2 DEF Chain, n
  <2> QED BY <2>2, <2>3
<1>9. Want' <= cap'.n
  <2>1. Want <= cap.n BY DEF Chain
  <2> QED BY <1>3, <1>5, <2>1
<1>10. ASSUME NEW i \in 1..Len(chunkQ') PROVE NextIdx(chunkQ'[i]) <= cap'.n
  <2>1. CASE i = n + 1 BY <1>2, <1>3, <2>1
  <2>2. CASE i # n + 1
    <3>1. i \in 1..n BY <1>2, <2>2
    <3>2. NextIdx(chunkQ[i]) <= cap.n BY <3>1 DEF Chain, n
    <3> QED BY <1>2, <1>3, <1>6, <3>1, <3>2
  <2> QED BY <2>1, <2>2
<1> QED BY <1>2, <1>7, <1>8, <1>9, <1>10 DEF Chain

(* stage1_inc takes the message it expects. *)
LEMMA ChainShrinks ==
  ASSUME Types, Chain, chunkQ # <<>>, chunkQ' = Tail(chunkQ), cap' = cap,
         Want' = NextIdx(chunkQ[1])
  PROVE  Chain'
<1> DEFINE n == Len(chunkQ)
<1>1. chunkQ \in Seq(Msg) BY DEF Types, QueueTypes
<1>2. /\ n \in Nat /\ n > 0 /\ Len(chunkQ') = n - 1
      /\ \A i \in 1..(n - 1) : chunkQ'[i] = chunkQ[i + 1]
      /\ chunkQ' = <<>> <=> n = 1
     BY <1>1, Removed
<1> HIDE DEF n
<1>3. chunkQ' = <<>> => cap'.n = Want'
  <2>1. cap.n = NextIdx(chunkQ[n]) BY DEF Chain, n
  <2> QED BY <1>2, <2>1
<1>4. chunkQ' # <<>> => IdxOf(chunkQ'[1]) = Want'
  <2> SUFFICES ASSUME n # 1 PROVE IdxOf(chunkQ'[1]) = Want'
       BY <1>2
  <2>1. 1 \in 1..(n - 1) /\ chunkQ'[1] = chunkQ[1 + 1] BY <1>2
  <2>2. IdxOf(chunkQ[1 + 1]) = NextIdx(chunkQ[1]) BY <2>1 DEF Chain, n
  <2> QED BY <2>1, <2>2
<1>5. chunkQ' # <<>> => cap'.n = NextIdx(chunkQ'[Len(chunkQ')])
  <2> SUFFICES ASSUME n # 1 PROVE cap'.n = NextIdx(chunkQ'[Len(chunkQ')])
       BY <1>2
  <2>1. n - 1 \in 1..(n - 1) /\ (n - 1) + 1 = n BY <1>2
  <2>2. chunkQ'[n - 1] = chunkQ[n] BY <1>2, <2>1
  <2> QED BY <1>2, <2>2 DEF Chain, n
<1>6. ASSUME NEW i \in 1..(Len(chunkQ') - 1) PROVE IdxOf(chunkQ'[i + 1]) = NextIdx(chunkQ'[i])
  <2>1. i \in 1..(n - 1) /\ i + 1 \in 1..(n - 1) BY <1>2
  <2>2. chunkQ'[i + 1] = chunkQ[(i + 1) + 1] /\ chunkQ'[i] = chunkQ[i + 1] BY <1>2, <2>1
  <2> QED BY <2>1, <2>2 DEF Chain, n
<1>7. Want' <= cap'.n
  <2>1. 1 \in 1..n BY <1>2
  <2> QED BY <2>1 DEF Chain, n
<1>8. ASSUME NEW i \in 1..Len(chunkQ') PROVE NextIdx(chunkQ'[i]) <= cap'.n
  <2>1. i \in 1..(n - 1) /\ i + 1 \in 1..n BY <1>2
  <2> QED BY <1>2, <2>1 DEF Chain, n
<1> QED BY <1>3, <1>4, <1>5, <1>6, <1>7, <1>8 DEF Chain

-----------------------------------------------------------------------------
(* The capture side *)

LEMMA SendSamplesInv ==
  ASSUME PipelineInv, SendSamples, Lag <= 2
  PROVE  PipelineInv'
<1> DEFINE n == Len(chunkQ)
           x == Samples(<<cap.n, 0>>)
<1>1. Types /\ Chain /\ Fed /\ Timing BY DEF PipelineInv
<1>2. /\ chunkQ \in Seq(Msg) /\ cap.n \in Nat /\ cap.take = 0 /\ cap.parts \in Nat
      /\ decoded \in Nat
     BY <1>1 DEF Types, QueueTypes, CaptureTypes, MainTypes
<1>3. x \in Msg /\ ~IsEnd(x) /\ IdxOf(x) = cap.n /\ NextIdx(x) = cap.n BY <1>2, SamplesMsg
<1>4. chunkQ' = Append(chunkQ, x) BY <1>2 DEF SendSamples
<1>5. cap' \in [n : Nat, take : {0}, parts : Nat, target : Nat \ {0}]
     BY <1>1 DEF SendSamples, Types, CaptureTypes
<1>6. cap'.n = cap.n /\ cap'.parts = cap.parts + 1
     BY <1>1 DEF SendSamples, Types, CaptureTypes
<1>7. Filling' /\ Bundles' /\ Slots' /\ Decoding' /\ Want' = Want
     BY RestStays DEF SendSamples
<1> HIDE DEF x
<1>8. /\ chunkQ' \in Seq(Msg) /\ chunkQ' # <<>> /\ Len(chunkQ') = n + 1 /\ chunkQ'[n + 1] = x
      /\ n \in Nat /\ \A i \in 1..n : chunkQ'[i] = chunkQ[i]
     BY <1>2, <1>3, <1>4, Appended
<1>9. Types'
     BY <1>1, <1>5, <1>8 DEF SendSamples, Types, CaptureTypes, QueueTypes, Stage1Types, MainTypes,
        stage1Vars, mainVars
<1>10. Chain' BY <1>1, <1>2, <1>3, <1>4, <1>6, <1>7, ChainGrows
<1>11. cur' = cur /\ closing' = closing /\ decoded' = decoded BY DEF SendSamples, stage1Vars, mainVars
<1>12. Fed'
  <2>1. ASSUME NEW i \in 1..Len(chunkQ'), IsEnd(chunkQ'[i])
        PROVE  IF i = 1 THEN cur'.fill > 0 /\ closing' = -1 ELSE ~IsEnd(chunkQ'[i - 1])
    <3>1. i \in 1..n BY <1>3, <1>8, <2>1
    <3>2. IsEnd(chunkQ[i]) BY <1>8, <2>1, <3>1
    <3>3. i # 1 => chunkQ'[i - 1] = chunkQ[i - 1]
      <4>1. i # 1 => i - 1 \in 1..n BY <1>8, <3>1
      <4> QED BY <1>8, <4>1
    <3> QED BY <1>1, <1>11, <3>1, <3>2, <3>3 DEF Fed
  <2>2. ~IsEnd(chunkQ'[Len(chunkQ')]) BY <1>3, <1>8
  <2>3. closing' # -1 => cur'.fill > 0 BY <1>1, <1>11 DEF Fed
  <2> QED BY <1>8, <2>1, <2>2, <2>3 DEF Fed
<1>13. Timing'
  <2>1. cap.n < decoded + 2
    <3>1. CASE cap.parts = 0
      <4>1. cap.n - decoded < Lag BY <3>1 DEF SendSamples, Timely
      <4> QED BY <1>2, <4>1, PipelineAssumption
    <3>2. CASE cap.parts # 0
      <4>1. cap.parts > 0 BY <1>2, <3>2
      <4> QED BY <1>1, <4>1 DEF Timing
    <3> QED BY <3>1, <3>2
  <2>2. ASSUME NEW i \in 1..Len(chunkQ'), ~IsEnd(chunkQ'[i]) PROVE IdxOf(chunkQ'[i]) < decoded + 2
    <3>1. CASE i = n + 1 BY <1>3, <1>8, <2>1, <3>1
    <3>2. CASE i # n + 1
      <4>1. i \in 1..n BY <1>8, <3>2
      <4> QED BY <1>1, <1>8, <2>2, <4>1 DEF Timing
    <3> QED BY <3>1, <3>2
  <2> QED BY <1>6, <1>11, <2>1, <2>2 DEF Timing
<1> QED BY <1>7, <1>9, <1>10, <1>12, <1>13 DEF PipelineInv

(* The capture thread ends a slot.                                           *)
LEMMA SendSlotEndInv ==
  ASSUME PipelineInv, SendSlotEnd
  PROVE  PipelineInv'
<1> DEFINE n == Len(chunkQ)
           x == SlotEndMsg(cap.n)
<1>1. Types /\ Chain /\ Fed /\ Timing BY DEF PipelineInv
<1>2. /\ chunkQ \in Seq(Msg) /\ cap.n \in Nat /\ cap.parts \in Nat /\ cap.target \in Nat \ {0}
      /\ decoded \in Nat
     BY <1>1 DEF Types, QueueTypes, CaptureTypes, MainTypes
<1>3. x \in Msg /\ IsEnd(x) /\ IdxOf(x) = cap.n /\ NextIdx(x) = cap.n + 1 BY <1>2, EndMsg
<1>4. chunkQ' = Append(chunkQ, x) BY <1>2 DEF SendSlotEnd
<1>5. PICK k \in Lengths : cap' = [n |-> cap.n + 1, take |-> 0, parts |-> 0, target |-> k]
     BY DEF SendSlotEnd
<1>6. k \in Nat \ {0} BY PipelineAssumption
<1>7. CaptureTypes' /\ cap'.n = cap.n + 1 /\ cap'.parts = 0
     BY <1>2, <1>5, <1>6 DEF CaptureTypes
<1>8. Filling' /\ Bundles' /\ Slots' /\ Decoding' /\ Want' = Want
     BY RestStays DEF SendSlotEnd
<1> HIDE DEF x
<1>9. /\ chunkQ' \in Seq(Msg) /\ chunkQ' # <<>> /\ Len(chunkQ') = n + 1 /\ chunkQ'[n + 1] = x
      /\ n \in Nat /\ \A i \in 1..n : chunkQ'[i] = chunkQ[i]
     BY <1>2, <1>3, <1>4, Appended
<1>10. Types'
     BY <1>1, <1>7, <1>9 DEF SendSlotEnd, Types, QueueTypes, Stage1Types, MainTypes,
        stage1Vars, mainVars
<1>11. Chain' BY <1>1, <1>2, <1>3, <1>4, <1>7, <1>8, ChainGrows
<1>12. cur' = cur /\ closing' = closing /\ decoded' = decoded BY DEF SendSlotEnd, stage1Vars, mainVars
<1>13. Fed'
  <2>0. cap.parts > 0
    <3>1. cap.parts >= cap.target BY DEF SendSlotEnd
    <3> QED BY <1>2, <3>1
  <2>1. ASSUME NEW i \in 1..Len(chunkQ'), IsEnd(chunkQ'[i])
        PROVE  IF i = 1 THEN cur'.fill > 0 /\ closing' = -1 ELSE ~IsEnd(chunkQ'[i - 1])
    <3>1. CASE i \in 1..n
      <4>1. IsEnd(chunkQ[i]) BY <1>9, <2>1, <3>1
      <4>2. i # 1 => chunkQ'[i - 1] = chunkQ[i - 1]
        <5>1. i # 1 => i - 1 \in 1..n BY <1>9, <3>1
        <5> QED BY <1>9, <5>1
      <4> QED BY <1>1, <1>12, <3>1, <4>1, <4>2 DEF Fed
    <3>2. CASE i = n + 1 /\ n = 0
      <4>1. chunkQ = <<>> BY <1>2, <3>2
      <4> QED BY <1>1, <1>12, <2>0, <3>2, <4>1 DEF Fed
    <3>3. CASE i = n + 1 /\ n # 0
      <4>1. i - 1 = n /\ n \in 1..n /\ i # 1 BY <1>9, <3>3
      <4>2. chunkQ # <<>> /\ ~IsEnd(chunkQ[n]) BY <1>1, <2>0, <3>3 DEF Fed
      <4> QED BY <1>9, <4>1, <4>2
    <3> QED BY <1>9, <3>1, <3>2, <3>3
  <2>2. closing' # -1 => cur'.fill > 0 BY <1>1, <1>12 DEF Fed
  <2> QED BY <1>7, <2>1, <2>2 DEF Fed
<1>14. Timing'
  <2>1. ASSUME NEW i \in 1..Len(chunkQ'), ~IsEnd(chunkQ'[i]) PROVE IdxOf(chunkQ'[i]) < decoded + 2
    <3>1. i \in 1..n BY <1>3, <1>9, <2>1
    <3> QED BY <1>1, <1>9, <2>1, <3>1 DEF Timing
  <2> QED BY <1>7, <1>12, <2>1 DEF Timing
<1> QED BY <1>8, <1>10, <1>11, <1>13, <1>14 DEF PipelineInv

-----------------------------------------------------------------------------
(* stage1_inc *)

(* Taking a message leaves the rest of chunk_q fed and in time. *)
LEMMA FedShrinks ==
  ASSUME Types, Fed, Timing, chunkQ # <<>>, chunkQ' = Tail(chunkQ), cap' = cap,
         decoded' = decoded, closing' # -1 => cur'.fill > 0,
         IF IsEnd(chunkQ[1]) THEN cur'.fill > 0 ELSE cur'.fill > 0 /\ closing' = -1
  PROVE  Fed' /\ Timing'
<1> DEFINE n == Len(chunkQ)
<1>1. chunkQ \in Seq(Msg) BY DEF Types, QueueTypes
<1>2. /\ n \in Nat /\ n > 0 /\ Len(chunkQ') = n - 1
      /\ \A i \in 1..(n - 1) : chunkQ'[i] = chunkQ[i + 1]
      /\ chunkQ' = <<>> <=> n = 1
     BY <1>1, Removed
<1>3. \A i \in 1..n : IsEnd(chunkQ[i]) =>
        IF i = 1 THEN cur.fill > 0 /\ closing = -1 ELSE ~IsEnd(chunkQ[i - 1])
     BY DEF Fed
<1>4. cap.parts > 0 => ~IsEnd(chunkQ[n]) BY DEF Fed
<1>5. \A i \in 1..n : ~IsEnd(chunkQ[i]) => IdxOf(chunkQ[i]) < decoded + 2 BY DEF Timing
<1> HIDE DEF n
<1>6. ASSUME NEW i \in 1..Len(chunkQ'), IsEnd(chunkQ'[i])
      PROVE  IF i = 1 THEN cur'.fill > 0 /\ closing' = -1 ELSE ~IsEnd(chunkQ'[i - 1])
  <2>1. i \in 1..(n - 1) /\ i + 1 \in 1..n /\ i + 1 # 1 /\ (i + 1) - 1 = i BY <1>2
  <2>2. IsEnd(chunkQ[i + 1]) BY <1>2, <1>6, <2>1
  <2>3. ~IsEnd(chunkQ[i]) BY <1>3, <2>1, <2>2
  <2>4. CASE i = 1 BY <2>3, <2>4
  <2>5. CASE i # 1
    <3>1. i - 1 \in 1..(n - 1) /\ (i - 1) + 1 = i BY <1>2, <2>1, <2>5
    <3>2. chunkQ'[i - 1] = chunkQ[i] BY <1>2, <3>1
    <3> QED BY <2>3, <2>5, <3>2
  <2> QED BY <2>4, <2>5
<1>7. ASSUME cap.parts > 0
      PROVE  IF chunkQ' = <<>> THEN cur'.fill > 0 /\ closing' = -1
             ELSE ~IsEnd(chunkQ'[Len(chunkQ')])
  <2>1. CASE n = 1 BY <1>2, <1>4, <1>7, <2>1
  <2>2. CASE n # 1
    <3>1. n - 1 \in 1..(n - 1) /\ (n - 1) + 1 = n BY <1>2, <2>2
    <3>2. chunkQ'[n - 1] = chunkQ[n] BY <1>2, <3>1
    <3> QED BY <1>2, <1>4, <1>7, <2>2, <3>2
  <2> QED BY <2>1, <2>2
<1>8. ASSUME NEW i \in 1..Len(chunkQ'), ~IsEnd(chunkQ'[i]) PROVE IdxOf(chunkQ'[i]) < decoded' + 2
  <2>1. i \in 1..(n - 1) /\ i + 1 \in 1..n BY <1>2
  <2> QED BY <1>2, <1>5, <1>8, <2>1
<1>9. Fed' BY <1>6, <1>7 DEF Fed
<1>10. Timing' BY <1>8 DEF Timing
<1> QED BY <1>9, <1>10

(* A part of slot f written into its buffer leaves what is there of f and of *)
(* the slot before.                                                          *)
LEMMA WriteHolds ==
  ASSUME NEW B \in [{0, 1} -> [1..NMAX -> Tag]], NEW f \in Nat, NEW p \in 1..NMAX,
         NEW j \in Nat, j = f \/ j + 1 = f, NEW n, n \in 0..NMAX, Holds(B, j, n)
  PROVE  Holds([B EXCEPT ![BufOf(f)] = [B[BufOf(f)] EXCEPT ![p] = Own(f)]], j, n)
<1> DEFINE C == [B EXCEPT ![BufOf(f)] = [B[BufOf(f)] EXCEPT ![p] = Own(f)]]
<1>1. BufOf(f) \in {0, 1} /\ BufOf(j) \in {0, 1} BY Turns
<1>2. CASE j = f
  <2>1. C[BufOf(j)] = [B[BufOf(j)] EXCEPT ![p] = Own(j)] BY <1>1, <1>2
  <2>2. B[BufOf(j)] \in [1..NMAX -> Tag] BY <1>1
  <2>3. \A q \in 1..n : q \in 1..NMAX BY PipelineAssumption
  <2> QED BY <2>1, <2>2, <2>3 DEF Holds
<1>3. CASE j + 1 = f
  <2>1. BufOf(j) # BufOf(f) BY <1>3, Turns
  <2>2. C[BufOf(j)] = B[BufOf(j)] BY <1>1, <2>1
  <2> QED BY <2>2 DEF Holds
<1> QED BY <1>2, <1>3

(* A part that fits goes into the filling buffer, after the others.          *)
LEMMA IngestInv ==
  ASSUME PipelineInv, Ingest
  PROVE  PipelineInv'
<1>1. Types /\ Chain /\ Fed /\ Timing /\ Filling /\ Bundles /\ Slots /\ Decoding BY DEF PipelineInv
<1>2. /\ chunkQ \in Seq(Msg) /\ chunkQ # <<>> /\ chunkQ' = Tail(chunkQ) /\ Head(chunkQ) = chunkQ[1]
      /\ chunkQ[1] \in Msg /\ 1 \in 1..Len(chunkQ) /\ chunkQ' \in Seq(Msg)
  <2>1. chunkQ \in Seq(Msg) BY <1>1 DEF Types, QueueTypes
  <2>2. chunkQ # <<>> /\ chunkQ' = Tail(chunkQ) BY DEF Ingest
  <2> QED BY <2>1, <2>2, Removed
<1>3. closing = -1 BY <1>1 DEF Ingest, Filling
<1>4. Want = Fin BY <1>3 DEF Want
<1>5. ~IsEnd(chunkQ[1]) /\ IdxOf(chunkQ[1]) = Fin
     BY <1>1, <1>2, <1>4 DEF Ingest, IsEnd, Chain
<1>6. chunkQ[1].tag = Own(Fin) /\ NextIdx(chunkQ[1]) = Fin BY <1>2, <1>5, MsgShape
<1>7. Fin < decoded + 2 /\ Fin \in Nat /\ decoded \in Nat /\ Fin = decoded + Held + Len(slotQ)
      /\ Held \in {0, 1} /\ Taken \in {0, 1} /\ Sent \in {0, 1}
      /\ Len(slotQ) \in Nat /\ Len(specQ) \in Nat
     BY <1>1, <1>2, <1>5, Counts DEF Timing
<1>8. /\ cap' = cap /\ specQ' = specQ /\ slotQ' = slotQ /\ closing' = closing /\ fill_idx' = fill_idx
      /\ main' = main /\ decoded' = decoded
     BY DEF Ingest, capVars, mainVars
<1>9. Fin' = Fin /\ Held' = Held /\ Taken' = Taken /\ Want' = Want
     BY <1>8 DEF Fin, Held, Taken, Want
<1>10. Chain' BY <1>1, <1>2, <1>4, <1>6, <1>8, <1>9, ChainShrinks
<1>11. /\ bufs \in [{0, 1} -> [1..NMAX -> Tag]] /\ NMAX \in Nat
       /\ cur \in [fill : 0..NMAX, next : 0..NMAX, rows : SUBSET Tag, sent : BOOLEAN]
       /\ cur.fill \in 0..NMAX /\ cur.sent \in BOOLEAN
       /\ fill_idx = BufOf(Fin) /\ BufOf(Fin) \in {0, 1} /\ Own(Fin) \in Tag
  <2>1. Own(Fin) \in Tag BY <1>7 DEF Own, Tag
  <2> QED BY <1>1, <1>7, <2>1, Turns, PipelineAssumption DEF Types, Stage1Types, Filling
<1>12. CASE cur.fill + 1 > NMAX
  <2>1. bufs' = bufs /\ cur' = cur /\ s1' = s1 BY <1>12 DEF Ingest
  <2>2. cur.fill > 0 BY <1>11, <1>12, PipelineAssumption
  <2>3. Fed' /\ Timing' BY <1>1, <1>2, <1>3, <1>5, <1>8, <2>1, <2>2, FedShrinks
  <2>4. Types'
       BY <1>1, <1>2, <1>8, <2>1 DEF Types, CaptureTypes, QueueTypes, Stage1Types, MainTypes
  <2>5. Filling' BY <1>1, <1>8, <1>9, <2>1 DEF Filling
  <2>6. Bundles' /\ Slots' /\ Decoding'
       BY <1>1, <1>8, <1>9, <2>1 DEF Bundles, Slots, Decoding, Sent
  <2> QED BY <1>10, <2>3, <2>4, <2>5, <2>6 DEF PipelineInv
<1>13. CASE ~(cur.fill + 1 > NMAX)
  <2> DEFINE p == cur.fill + 1
             b == [bufs[fill_idx] EXCEPT ![p] = Own(Fin)]
             C == [bufs EXCEPT ![BufOf(Fin)] = [bufs[BufOf(Fin)] EXCEPT ![p] = Own(Fin)]]
  <2>1. p \in 1..NMAX /\ p \in 0..NMAX /\ p > 0 BY <1>11, <1>13
  <2>2. bufs' = C BY <1>2, <1>6, <1>11, <1>13 DEF Ingest
  <2>3. C \in [{0, 1} -> [1..NMAX -> Tag]]
    <3>1. [bufs[BufOf(Fin)] EXCEPT ![p] = Own(Fin)] \in [1..NMAX -> Tag] BY <1>11
    <3> QED BY <1>11, <3>1
  <2>4. /\ cur' = advance_pairs([cur EXCEPT !.fill = @ + 1], b)
        /\ s1' = IF cur'.next >= EmitAt /\ ~cur'.sent THEN "emit" ELSE "recv"
       BY <1>2, <1>6, <1>13 DEF Ingest
  <2>5. b[p] = Own(Fin)
    <3>1. bufs[fill_idx] \in [1..NMAX -> Tag] BY <1>11
    <3> QED BY <2>1, <3>1
  <2>6. /\ cur' \in [fill : 0..NMAX, next : 0..NMAX, rows : SUBSET Tag, sent : BOOLEAN]
        /\ cur'.fill = p /\ cur'.next = p /\ cur'.sent = cur.sent
        /\ cur'.rows = {Own(Fin)}
    <3>1. cur.next = cur.fill /\ cur.rows = IF cur.fill = 0 THEN {} ELSE {Own(Fin)}
         BY <1>1 DEF Filling
    <3>2. (cur.fill + 1)..p = {p} BY <1>11
    <3>3. cur' = [cur EXCEPT !.fill = p, !.next = p,
                             !.rows = cur.rows \cup {b[q] : q \in (cur.next + 1)..p}]
         BY <1>11, <2>4 DEF advance_pairs
    <3>4. {b[q] : q \in (cur.next + 1)..p} = {Own(Fin)} BY <2>5, <3>1, <3>2
    <3>5. cur.rows \cup {Own(Fin)} = {Own(Fin)} BY <3>1
    <3>6. cur' = [cur EXCEPT !.fill = p, !.next = p, !.rows = {Own(Fin)}] BY <3>3, <3>4, <3>5
    <3> QED BY <1>11, <2>1, <3>6
  <2> HIDE DEF p, b, C
  <2>7. ASSUME NEW j \in Nat, j <= Fin, decoded <= j, NEW k \in 0..NMAX, Holds(bufs, j, k)
        PROVE  Holds(bufs', j, k)
    <3>1. j = Fin \/ j + 1 = Fin BY <1>7, <2>7
    <3> QED BY <1>7, <1>11, <2>1, <2>2, <2>7, <3>1, WriteHolds DEF C
  <2>8. Fed' /\ Timing'
    <3>1. cur'.fill > 0 BY <2>1, <2>6
    <3> QED BY <1>1, <1>2, <1>3, <1>5, <1>8, <3>1, FedShrinks
  <2>9. Types'
    <3>1. s1' \in {"recv", "emit", "finalize"} BY <2>4
    <3>2. Stage1Types' BY <1>1, <1>8, <2>2, <2>3, <2>6, <3>1 DEF Types, Stage1Types
    <3> QED BY <1>1, <1>2, <1>8, <3>2 DEF Types, CaptureTypes, QueueTypes, MainTypes
  <2>10. Filling'
    <3>1. Holds(bufs', Fin, p)
      <4>1. Holds(bufs', Fin, cur.fill) BY <1>1, <1>7, <1>11, <2>7 DEF Filling
      <4>2. bufs'[BufOf(Fin)][p] = Own(Fin)
        <5>1. bufs[BufOf(Fin)] \in [1..NMAX -> Tag] BY <1>11
        <5> QED BY <1>11, <2>1, <2>2, <5>1 DEF C
      <4>3. \A q \in 1..p : q = p \/ q \in 1..cur.fill BY <1>11 DEF p
      <4> QED BY <4>1, <4>2, <4>3 DEF Holds
    <3>2. (s1' = "emit" => ~cur'.sent) /\ s1' # "finalize" BY <2>4
    <3>3. cur'.fill > 0 /\ cur'.fill # 0 BY <2>1, <2>6
    <3>4. Holds(bufs', Fin', cur'.fill) /\ cur'.rows = {Own(Fin')} /\ cur'.next = cur'.fill
         BY <1>9, <2>6, <3>1
    <3>5. fill_idx' = BufOf(Fin') /\ closing' = -1 BY <1>3, <1>8, <1>9, <1>11
    <3> QED BY <3>2, <3>3, <3>4, <3>5 DEF Filling
  <2>11. Bundles'
    <3>1. decoded' + Taken' + Len(specQ') = Fin' + Sent'
         BY <1>1, <1>8, <1>9, <2>6 DEF Bundles, Sent
    <3>2. ASSUME NEW i \in 1..Len(specQ) PROVE GoodBundle(bufs', decoded + Taken + i - 1, specQ[i])
      <4> DEFINE j == decoded + Taken + i - 1
      <4>1. GoodBundle(bufs, j, specQ[i]) BY <1>1 DEF Bundles
      <4>2. decoded + Taken + Len(specQ) = Fin + Sent BY <1>1 DEF Bundles
      <4>3. j \in Nat /\ j <= Fin /\ decoded <= j BY <1>7, <4>2
      <4>4. specQ[i].len \in 0..NMAX
        <5>1. specQ \in Seq(Bundle) BY <1>1 DEF Types, QueueTypes
        <5>2. specQ[i] \in Bundle BY <5>1
        <5> QED BY <5>2 DEF Bundle
      <4> HIDE DEF j
      <4>5. Holds(bufs', j, specQ[i].len) BY <2>7, <4>1, <4>3, <4>4 DEF GoodBundle
      <4>6. GoodBundle(bufs', j, specQ[i]) BY <4>1, <4>5 DEF GoodBundle
      <4> QED BY <4>6 DEF j
    <3> QED BY <1>8, <1>9, <3>1, <3>2 DEF Bundles
  <2>12. Slots'
    <3>2. ASSUME NEW i \in 1..Len(slotQ) PROVE GoodSlot(bufs', decoded + Held + i - 1, slotQ[i])
      <4> DEFINE j == decoded + Held + i - 1
      <4>1. GoodSlot(bufs, j, slotQ[i]) BY <1>1 DEF Slots
      <4>3. j \in Nat /\ j <= Fin /\ decoded <= j BY <1>7
      <4>4. slotQ[i].len \in 0..NMAX
        <5>1. slotQ \in Seq(Slot) BY <1>1 DEF Types, QueueTypes
        <5>2. slotQ[i] \in Slot BY <5>1
        <5> QED BY <5>2 DEF Slot
      <4> HIDE DEF j
      <4>5. Holds(bufs', j, slotQ[i].len) BY <2>7, <4>1, <4>3, <4>4 DEF GoodSlot
      <4>6. GoodSlot(bufs', j, slotQ[i]) BY <4>1, <4>5 DEF GoodSlot
      <4> QED BY <4>6 DEF j
    <3> QED BY <1>8, <1>9, <3>2 DEF Slots
  <2>13. Decoding'
    <3>1. main.bundle.len \in 0..NMAX /\ main.slot.len \in 0..NMAX
         BY <1>1 DEF Types, MainTypes, Bundle, Slot
    <3>2. decoded <= Fin /\ decoded <= decoded BY <1>7
    <3>3. main.at = "early" => GoodBundle(bufs', decoded, main.bundle)
         BY <1>1, <1>7, <2>7, <3>1, <3>2 DEF Decoding, GoodBundle
    <3>4. main.at = "late" => GoodSlot(bufs', decoded, main.slot)
         BY <1>1, <1>7, <2>7, <3>1, <3>2 DEF Decoding, GoodSlot
    <3> QED BY <1>1, <1>8, <3>3, <3>4 DEF Decoding
  <2> QED BY <1>10, <2>8, <2>9, <2>10, <2>11, <2>12, <2>13 DEF PipelineInv
<1> QED BY <1>12, <1>13

(* A slot ends: its number is the one of the slot being filled. *)
LEMMA TakeSlotEndInv ==
  ASSUME PipelineInv, TakeSlotEnd
  PROVE  PipelineInv'
<1>1. Types /\ Chain /\ Fed /\ Timing /\ Filling /\ Bundles /\ Slots /\ Decoding BY DEF PipelineInv
<1>2. /\ chunkQ \in Seq(Msg) /\ chunkQ # <<>> /\ chunkQ' = Tail(chunkQ) /\ Head(chunkQ) = chunkQ[1]
      /\ chunkQ[1] \in Msg /\ 1 \in 1..Len(chunkQ) /\ chunkQ' \in Seq(Msg)
  <2>1. chunkQ \in Seq(Msg) BY <1>1 DEF Types, QueueTypes
  <2>2. chunkQ # <<>> /\ chunkQ' = Tail(chunkQ) BY DEF TakeSlotEnd
  <2> QED BY <2>1, <2>2, Removed
<1>3. closing = -1 /\ Fin \in Nat BY <1>1, Counts DEF TakeSlotEnd, Filling
<1>4. Want = Fin BY <1>3 DEF Want
<1>5. IsEnd(chunkQ[1]) /\ IdxOf(chunkQ[1]) = Fin
     BY <1>1, <1>2, <1>4 DEF TakeSlotEnd, IsEnd, Chain
<1>6. chunkQ[1].idx = Fin /\ NextIdx(chunkQ[1]) = Fin + 1 BY <1>2, <1>5, MsgShape
<1>7. /\ cap' = cap /\ specQ' = specQ /\ slotQ' = slotQ /\ fill_idx' = fill_idx /\ bufs' = bufs
      /\ main' = main /\ decoded' = decoded /\ cur' = cur /\ closing' = Fin
      /\ s1' = IF cur.sent THEN "finalize" ELSE "emit"
     BY <1>2, <1>6 DEF TakeSlotEnd, capVars, mainVars
<1>8. Fin' = Fin /\ Held' = Held /\ Taken' = Taken /\ Sent' = Sent
     BY <1>7 DEF Fin, Held, Taken, Sent
<1>9. closing' # -1 BY <1>3, <1>7
<1>10. Want' = Fin + 1 BY <1>7, <1>8, <1>9 DEF Want
<1>11. Chain' BY <1>1, <1>2, <1>6, <1>7, <1>10, ChainShrinks
<1>12. cur.fill > 0 BY <1>1, <1>2, <1>5 DEF Fed
<1>13. Fed' /\ Timing' BY <1>1, <1>2, <1>5, <1>7, <1>12, FedShrinks
<1>14. Types'
     BY <1>1, <1>2, <1>3, <1>7 DEF Types, CaptureTypes, QueueTypes, Stage1Types, MainTypes
<1>15. Filling' BY <1>1, <1>7, <1>8, <1>12 DEF Filling
<1>16. Bundles' /\ Slots' /\ Decoding' BY <1>1, <1>7, <1>8 DEF Bundles, Slots, Decoding
<1> QED BY <1>11, <1>13, <1>14, <1>15, <1>16 DEF PipelineInv

(* The bundle sent is of the slot being filled. *)
LEMMA EmitSpecBundleInv ==
  ASSUME PipelineInv, EmitSpecBundle
  PROVE  PipelineInv'
<1> DEFINE b == [rows |-> cur.rows, buf |-> fill_idx, len |-> cur.fill]
           n == Len(specQ)
<1>1. Types /\ Chain /\ Fed /\ Timing /\ Filling /\ Bundles /\ Slots /\ Decoding BY DEF PipelineInv
<1>2. ~cur.sent /\ cur.fill > 0 BY <1>1 DEF EmitSpecBundle, Filling
<1>3. /\ cap' = cap /\ chunkQ' = chunkQ /\ slotQ' = slotQ /\ fill_idx' = fill_idx /\ bufs' = bufs
      /\ main' = main /\ decoded' = decoded /\ closing' = closing
      /\ cur' = [cur EXCEPT !.sent = TRUE] /\ specQ' = Append(specQ, b)
      /\ s1' = IF closing = -1 THEN "recv" ELSE "finalize"
     BY DEF EmitSpecBundle, capVars, mainVars
<1>4. /\ cur \in [fill : 0..NMAX, next : 0..NMAX, rows : SUBSET Tag, sent : BOOLEAN]
      /\ specQ \in Seq(Bundle) /\ fill_idx \in {0, 1}
     BY <1>1 DEF Types, Stage1Types, QueueTypes
<1>5. /\ cur' \in [fill : 0..NMAX, next : 0..NMAX, rows : SUBSET Tag, sent : BOOLEAN]
      /\ cur'.fill = cur.fill /\ cur'.next = cur.next /\ cur'.rows = cur.rows /\ cur'.sent = TRUE
     BY <1>3, <1>4
<1>6. b \in Bundle /\ GoodBundle(bufs, Fin, b)
  <2>1. b \in Bundle BY <1>4 DEF Bundle
  <2>2. cur.fill # 0 BY <1>2, <1>4
  <2> QED BY <1>1, <1>2, <2>1, <2>2 DEF Filling, GoodBundle
<1> HIDE DEF b
<1>7. /\ specQ' \in Seq(Bundle) /\ Len(specQ') = n + 1 /\ specQ'[n + 1] = b /\ n \in Nat
      /\ \A i \in 1..n : specQ'[i] = specQ[i]
     BY <1>3, <1>4, <1>6, Appended
<1>8. Fin' = Fin /\ Held' = Held /\ Taken' = Taken /\ Want' = Want
     BY <1>3 DEF Fin, Held, Taken, Want
<1>9. Sent = 0 /\ Sent' = 1 BY <1>2, <1>5 DEF Sent
<1>10. Types'
     BY <1>1, <1>3, <1>5, <1>7 DEF Types, CaptureTypes, QueueTypes, Stage1Types, MainTypes
<1>11. Chain' BY <1>1, <1>3, <1>8 DEF Chain
<1>12. Fed' BY <1>1, <1>3, <1>5 DEF Fed
<1>13. Timing' BY <1>1, <1>3 DEF Timing
<1>14. Filling'
  <2>1. closing \in {-1, Fin} BY <1>1 DEF Filling
  <2> QED BY <1>1, <1>3, <1>5, <1>8, <2>1 DEF Filling
<1>15. Bundles'
  <2>0. decoded \in Nat /\ Taken \in {0, 1} /\ Fin \in Nat /\ n \in Nat BY <1>1, Counts
  <2> HIDE DEF n
  <2>1. decoded + Taken + n = Fin
    <3>1. decoded + Taken + n = Fin + Sent BY <1>1 DEF Bundles, n
    <3> QED BY <1>9, <2>0, <3>1
  <2>2. decoded + Taken + (n + 1) = Fin + 1 BY <2>0, <2>1
  <2>3. ASSUME NEW i \in 1..(n + 1) PROVE GoodBundle(bufs, decoded + Taken + i - 1, specQ'[i])
    <3>1. CASE i = n + 1
      <4>1. decoded + Taken + i - 1 = Fin BY <2>0, <2>1, <3>1
      <4> QED BY <1>6, <1>7, <3>1, <4>1
    <3>2. CASE i # n + 1
      <4>1. i \in 1..n BY <2>0, <3>2
      <4> QED BY <1>1, <1>7, <4>1 DEF Bundles, n
    <3> QED BY <3>1, <3>2
  <2> QED BY <1>3, <1>7, <1>8, <1>9, <2>2, <2>3 DEF Bundles
<1>16. Slots' /\ Decoding' BY <1>1, <1>3, <1>8 DEF Slots, Decoding
<1> QED BY <1>10, <1>11, <1>12, <1>13, <1>14, <1>15, <1>16 DEF PipelineInv

(* The slot goes out after its bundle, and the next one into the other buffer.*)
LEMMA FinalizeSlotInv ==
  ASSUME PipelineInv, FinalizeSlot
  PROVE  PipelineInv'
<1> DEFINE x == [buf |-> fill_idx, len |-> cur.fill, idx |-> closing]
           n == Len(slotQ)
<1>1. Types /\ Chain /\ Fed /\ Timing /\ Filling /\ Bundles /\ Slots /\ Decoding BY DEF PipelineInv
<1>2. cur.sent /\ closing = Fin BY <1>1 DEF FinalizeSlot, Filling
<1>3. /\ cap' = cap /\ chunkQ' = chunkQ /\ specQ' = specQ /\ fill_idx' = 1 - fill_idx /\ bufs' = bufs
      /\ main' = main /\ decoded' = decoded /\ closing' = -1
      /\ cur' = SlotInProgress /\ slotQ' = Append(slotQ, x) /\ s1' = "recv"
     BY DEF FinalizeSlot, capVars, mainVars
<1>4. /\ cur \in [fill : 0..NMAX, next : 0..NMAX, rows : SUBSET Tag, sent : BOOLEAN]
      /\ slotQ \in Seq(Slot) /\ fill_idx \in {0, 1} /\ closing \in Nat \cup {-1} /\ NMAX \in Nat
     BY <1>1, PipelineAssumption DEF Types, Stage1Types, QueueTypes
<1>5. /\ Fin \in Nat /\ Held \in {0, 1} /\ Fin = decoded + Held + n /\ n \in Nat /\ decoded \in Nat
      /\ Taken \in {0, 1} /\ Len(specQ) \in Nat
     BY <1>1, Counts
<1>6. cur.fill > 0
  <2>1. closing # -1 BY <1>2, <1>5
  <2> QED BY <1>1, <2>1 DEF Fed
<1>7. x \in Slot /\ GoodSlot(bufs, Fin, x)
  <2>1. x \in Slot BY <1>4 DEF Slot
  <2> QED BY <1>1, <1>2, <1>6, <2>1 DEF Filling, GoodSlot
<1> HIDE DEF x
<1>8. /\ slotQ' \in Seq(Slot) /\ Len(slotQ') = n + 1 /\ slotQ'[n + 1] = x
      /\ \A i \in 1..n : slotQ'[i] = slotQ[i]
     BY <1>3, <1>4, <1>7, Appended
<1> HIDE DEF n
<1>9. Held' = Held /\ Taken' = Taken BY <1>3 DEF Held, Taken
<1>10. Fin' = Fin + 1
  <2>1. Fin' = decoded + Held + (n + 1) BY <1>3, <1>8, <1>9 DEF Fin
  <2> QED BY <1>5, <2>1
<1>11. Want = Fin + 1 /\ Want' = Fin + 1
  <2>1. closing # -1 BY <1>2, <1>5
  <2> QED BY <1>3, <1>10, <2>1 DEF Want
<1>12. Sent = 1 /\ Sent' = 0 BY <1>2, <1>3 DEF Sent, SlotInProgress
<1>13. /\ cur'.fill = 0 /\ cur'.next = 0 /\ cur'.rows = {} /\ cur'.sent = FALSE
       /\ cur' \in [fill : 0..NMAX, next : 0..NMAX, rows : SUBSET Tag, sent : BOOLEAN]
     BY <1>3, <1>4 DEF SlotInProgress
<1>14. Types'
     BY <1>1, <1>3, <1>4, <1>8, <1>13 DEF Types, CaptureTypes, QueueTypes, Stage1Types, MainTypes
<1>15. Chain' BY <1>1, <1>3, <1>11 DEF Chain
<1>16. Fed'
  <2>1. closing # -1 BY <1>2, <1>5
  <2>2. \A i \in 1..Len(chunkQ) : IsEnd(chunkQ[i]) => i # 1 /\ ~IsEnd(chunkQ[i - 1])
       BY <1>1, <2>1 DEF Fed
  <2>3. cap.parts > 0 => chunkQ # <<>> /\ ~IsEnd(chunkQ[Len(chunkQ)]) BY <1>1, <2>1 DEF Fed
  <2> QED BY <1>3, <2>2, <2>3 DEF Fed
<1>17. Timing' BY <1>1, <1>3 DEF Timing
<1>18. Filling'
  <2>1. fill_idx' = BufOf(Fin + 1) BY <1>1, <1>3, <1>5, Turns DEF Filling
  <2>2. Holds(bufs', Fin + 1, 0) BY DEF Holds
  <2> QED BY <1>3, <1>10, <1>13, <2>1, <2>2 DEF Filling
<1>19. Bundles'
  <2>1. decoded + Taken + Len(specQ) = Fin + Sent BY <1>1 DEF Bundles
  <2>2. decoded + Taken + Len(specQ) = Fin' + Sent' BY <1>5, <1>10, <1>12, <2>1
  <2> QED BY <1>1, <1>3, <1>9, <2>2 DEF Bundles
<1>20. Slots'
  <2>1. ASSUME NEW i \in 1..(n + 1) PROVE GoodSlot(bufs, decoded + Held + i - 1, slotQ'[i])
    <3>1. CASE i = n + 1
      <4>1. decoded + Held + i - 1 = Fin BY <1>5, <3>1
      <4> QED BY <1>7, <1>8, <3>1, <4>1
    <3>2. CASE i # n + 1
      <4>1. i \in 1..n BY <1>5, <3>2
      <4> QED BY <1>1, <1>8, <4>1 DEF Slots, n
    <3> QED BY <3>1, <3>2
  <2> QED BY <1>3, <1>8, <1>9, <2>1 DEF Slots
<1>21. Decoding' BY <1>1, <1>3 DEF Decoding
<1> QED BY <1>14, <1>15, <1>16, <1>17, <1>18, <1>19, <1>20, <1>21 DEF PipelineInv

-----------------------------------------------------------------------------
(* The decode task *)

(* The decode task reads while capture and stage1_inc stand still. *)
LEMMA DecodeFrame ==
  ASSUME PipelineInv, UNCHANGED <<chunkQ, capVars, stage1Vars>>, decoded \in Nat, decoded' \in Nat,
         decoded <= decoded', Fin' = Fin, Types'
  PROVE  Chain' /\ Fed' /\ Timing' /\ Filling'
<1>1. Types /\ Chain /\ Fed /\ Timing /\ Filling BY DEF PipelineInv
<1>2. /\ cap' = cap /\ chunkQ' = chunkQ /\ bufs' = bufs /\ fill_idx' = fill_idx /\ cur' = cur
      /\ s1' = s1 /\ closing' = closing
     BY DEF capVars, stage1Vars
<1>3. Want' = Want BY <1>2 DEF Want
<1>4. Chain' BY <1>1, <1>2, <1>3 DEF Chain
<1>5. Fed' BY <1>1, <1>2 DEF Fed
<1>6. Filling' BY <1>1, <1>2 DEF Filling
<1>7. Timing'
  <2>1. chunkQ \in Seq(Msg) /\ cap.n \in Nat BY <1>1 DEF Types, QueueTypes, CaptureTypes
  <2>2. \A i \in 1..Len(chunkQ) : chunkQ[i] \in Msg BY <2>1
  <2>3. \A i \in 1..Len(chunkQ) : IdxOf(chunkQ[i]) \in Nat BY <2>2, MsgShape
  <2>4. \A d, e, k \in Nat : d <= e /\ k < d + 2 => k < e + 2 OBVIOUS
  <2> QED BY <1>1, <1>2, <2>1, <2>3, <2>4 DEF Timing
<1> QED BY <1>4, <1>5, <1>6, <1>7

(* The bundle taken is the one of the slot that is next to be decoded. *)
LEMMA RecvSpecInv ==
  ASSUME PipelineInv, RecvSpec
  PROVE  PipelineInv'
<1>1. Types /\ Bundles /\ Slots /\ Decoding BY DEF PipelineInv
<1>2. /\ chunkQ' = chunkQ /\ slotQ' = slotQ /\ decoded' = decoded /\ bufs' = bufs /\ cur' = cur
      /\ specQ' = Tail(specQ) /\ specQ # <<>> /\ main.at = "spec"
      /\ main' = [main EXCEPT !.at = "early", !.bundle = Head(specQ)]
      /\ UNCHANGED <<chunkQ, capVars, stage1Vars>>
     BY DEF RecvSpec, stage1Vars
<1>3. specQ \in Seq(Bundle) /\ decoded \in Nat BY <1>1 DEF Types, QueueTypes, MainTypes
<1>4. /\ Head(specQ) = specQ[1] /\ specQ[1] \in Bundle /\ specQ' \in Seq(Bundle)
      /\ Len(specQ) \in Nat /\ Len(specQ) > 0 /\ Len(specQ') = Len(specQ) - 1
      /\ \A i \in 1..(Len(specQ) - 1) : specQ'[i] = specQ[i + 1]
     BY <1>2, <1>3, Removed
<1>5. /\ main'.at = "early" /\ main'.bundle = specQ[1] /\ MainTypes'
  <2>1. main \in [at : {"spec", "early", "slot", "late"}, bundle : Bundle, slot : Slot,
                  heard : SUBSET Tag]
       BY <1>1 DEF Types, MainTypes
  <2> QED BY <1>2, <1>3, <1>4, <2>1 DEF MainTypes
<1>6. Types'
     BY <1>1, <1>2, <1>4, <1>5 DEF Types, CaptureTypes, QueueTypes, Stage1Types, capVars, stage1Vars
<1>7. /\ Held = 0 /\ Held' = 0 /\ Taken = 0 /\ Taken' = 1 /\ Sent' = Sent
     BY <1>2, <1>5 DEF Held, Taken, Sent
<1>8. Fin' = Fin BY <1>2, <1>7 DEF Fin
<1>9. Chain' /\ Fed' /\ Timing' /\ Filling' BY <1>2, <1>3, <1>6, <1>8, DecodeFrame
<1>10. Fin \in Nat /\ Sent \in {0, 1} BY <1>1, Counts
<1>11. Bundles'
  <2>1. decoded + Taken + Len(specQ) = Fin + Sent BY <1>1 DEF Bundles
  <2>2. decoded + 1 + (Len(specQ) - 1) = Fin + Sent
    <3>1. decoded + 0 + Len(specQ) = Fin + Sent BY <1>7, <2>1
    <3>2. decoded + 1 + (Len(specQ) - 1) = decoded + 0 + Len(specQ) BY <1>3, <1>4
    <3> QED BY <3>1, <3>2
  <2>3. ASSUME NEW i \in 1..(Len(specQ) - 1) PROVE GoodBundle(bufs, decoded + 1 + i - 1, specQ'[i])
    <3>1. i + 1 \in 1..Len(specQ) /\ decoded + 1 + i - 1 = decoded + 0 + (i + 1) - 1 BY <1>3, <1>4
    <3>2. GoodBundle(bufs, decoded + Taken + (i + 1) - 1, specQ[i + 1]) BY <1>1, <3>1 DEF Bundles
    <3> QED BY <1>4, <1>7, <3>1, <3>2
  <2> QED BY <1>2, <1>4, <1>7, <1>8, <2>2, <2>3 DEF Bundles
<1>12. Slots' BY <1>1, <1>2, <1>7 DEF Slots
<1>13. Decoding'
  <2>1. 1 \in 1..Len(specQ) /\ decoded + 0 + 1 - 1 = decoded BY <1>3, <1>4
  <2>2. GoodBundle(bufs, decoded + Taken + 1 - 1, specQ[1]) BY <1>1, <2>1 DEF Bundles
  <2>3. GoodBundle(bufs, decoded, specQ[1]) BY <1>7, <2>1, <2>2
  <2> QED BY <1>2, <1>5, <2>3 DEF Decoding
<1> QED BY <1>6, <1>9, <1>11, <1>12, <1>13 DEF PipelineInv

(* What the early pass reads is that slot's audio, or it reads nothing. *)
LEMMA EarlyInv ==
  ASSUME PipelineInv, Early \/ SkipLate
  PROVE  PipelineInv'
<1>1. Types /\ Bundles /\ Slots /\ Decoding BY DEF PipelineInv
<1>2. /\ chunkQ' = chunkQ /\ slotQ' = slotQ /\ specQ' = specQ /\ decoded' = decoded /\ bufs' = bufs
      /\ cur' = cur /\ main.at = "early" /\ UNCHANGED <<chunkQ, capVars, stage1Vars>>
     BY DEF Early, SkipLate, stage1Vars
<1>3. /\ main \in [at : {"spec", "early", "slot", "late"}, bundle : Bundle, slot : Slot,
                   heard : SUBSET Tag]
      /\ decoded \in Nat
     BY <1>1 DEF Types, MainTypes
<1>4. Own(decoded) \in Tag BY <1>3 DEF Own, Tag
<1>5. /\ main'.at = "slot" /\ MainTypes'
      /\ main'.bundle = NoBundle \/ main'.heard = {Own(decoded)}
  <2>1. CASE Early
    <3>1. GoodBundle(bufs, decoded, main.bundle) BY <1>1, <1>2 DEF Decoding
    <3>2. /\ main.bundle.rows = {Own(decoded)} /\ main.bundle.buf = BufOf(decoded)
          /\ main.bundle.len > 0 /\ Holds(bufs, decoded, main.bundle.len)
         BY <3>1 DEF GoodBundle
    <3>3. main.bundle.len \in Nat BY <1>3, PipelineAssumption DEF Bundle
    <3>4. Audio(main.bundle.buf, main.bundle.len) \subseteq {Own(decoded)}
         BY <3>2 DEF Audio, Holds
    <3>5. main.bundle.rows \cup Audio(main.bundle.buf, main.bundle.len) = {Own(decoded)}
         BY <3>2, <3>4
    <3>6. main' = [main EXCEPT !.at = "slot", !.heard = {Own(decoded)}] BY <2>1, <3>5 DEF Early
    <3> QED BY <1>2, <1>3, <1>4, <3>6 DEF MainTypes
  <2>2. CASE SkipLate
    <3>1. NoBundle \in Bundle BY PipelineAssumption DEF NoBundle, Bundle
    <3>2. main' = [main EXCEPT !.at = "slot", !.bundle = NoBundle] BY <2>2 DEF SkipLate
    <3> QED BY <1>2, <1>3, <3>1, <3>2 DEF MainTypes
  <2> QED BY <2>1, <2>2
<1>6. Types'
     BY <1>1, <1>2, <1>5 DEF Types, CaptureTypes, QueueTypes, Stage1Types, capVars, stage1Vars
<1>7. Held = 0 /\ Held' = 0 /\ Taken = 1 /\ Taken' = 1 /\ Sent' = Sent
     BY <1>2, <1>5 DEF Held, Taken, Sent
<1>8. Fin' = Fin BY <1>2, <1>7 DEF Fin
<1>9. Chain' /\ Fed' /\ Timing' /\ Filling' BY <1>2, <1>3, <1>6, <1>8, DecodeFrame
<1>10. Bundles' BY <1>1, <1>2, <1>7, <1>8 DEF Bundles
<1>11. Slots' BY <1>1, <1>2, <1>7 DEF Slots
<1>12. Decoding' BY <1>2, <1>5 DEF Decoding
<1> QED BY <1>6, <1>9, <1>10, <1>11, <1>12 DEF PipelineInv

(* The slot taken is the one the bundle was of. *)
LEMMA RecvSlotInv ==
  ASSUME PipelineInv, RecvSlot
  PROVE  PipelineInv'
<1>1. Types /\ Bundles /\ Slots /\ Decoding BY DEF PipelineInv
<1>2. /\ chunkQ' = chunkQ /\ specQ' = specQ /\ decoded' = decoded /\ bufs' = bufs /\ cur' = cur
      /\ slotQ' = Tail(slotQ) /\ slotQ # <<>> /\ main.at = "slot"
      /\ main' = [main EXCEPT !.at = "late", !.slot = Head(slotQ)]
      /\ UNCHANGED <<chunkQ, capVars, stage1Vars>>
     BY DEF RecvSlot, stage1Vars
<1>3. slotQ \in Seq(Slot) /\ decoded \in Nat BY <1>1 DEF Types, QueueTypes, MainTypes
<1>4. /\ Head(slotQ) = slotQ[1] /\ slotQ[1] \in Slot /\ slotQ' \in Seq(Slot)
      /\ Len(slotQ) \in Nat /\ Len(slotQ) > 0 /\ Len(slotQ') = Len(slotQ) - 1
      /\ \A i \in 1..(Len(slotQ) - 1) : slotQ'[i] = slotQ[i + 1]
     BY <1>2, <1>3, Removed
<1>5. /\ main'.at = "late" /\ main'.slot = slotQ[1] /\ main'.bundle = main.bundle
      /\ main'.heard = main.heard /\ MainTypes'
  <2>1. main \in [at : {"spec", "early", "slot", "late"}, bundle : Bundle, slot : Slot,
                  heard : SUBSET Tag]
       BY <1>1 DEF Types, MainTypes
  <2> QED BY <1>2, <1>3, <1>4, <2>1 DEF MainTypes
<1>6. Types'
     BY <1>1, <1>2, <1>4, <1>5 DEF Types, CaptureTypes, QueueTypes, Stage1Types, capVars, stage1Vars
<1>7. /\ Held = 0 /\ Held' = 1 /\ Taken = 1 /\ Taken' = 1 /\ Sent' = Sent
     BY <1>2, <1>5 DEF Held, Taken, Sent
<1>8. Fin' = Fin
  <2>1. Fin = decoded + 0 + Len(slotQ) /\ Fin' = decoded + 1 + (Len(slotQ) - 1)
       BY <1>2, <1>4, <1>7 DEF Fin
  <2> QED BY <1>3, <1>4, <2>1
<1>9. Chain' /\ Fed' /\ Timing' /\ Filling' BY <1>2, <1>3, <1>6, <1>8, DecodeFrame
<1>10. Bundles' BY <1>1, <1>2, <1>7, <1>8 DEF Bundles
<1>11. Slots'
  <2>1. ASSUME NEW i \in 1..(Len(slotQ) - 1) PROVE GoodSlot(bufs, decoded + 1 + i - 1, slotQ'[i])
    <3>1. i + 1 \in 1..Len(slotQ) /\ decoded + 1 + i - 1 = decoded + 0 + (i + 1) - 1 BY <1>3, <1>4
    <3>2. GoodSlot(bufs, decoded + Held + (i + 1) - 1, slotQ[i + 1]) BY <1>1, <3>1 DEF Slots
    <3> QED BY <1>4, <1>7, <3>1, <3>2
  <2> QED BY <1>2, <1>4, <1>7, <2>1 DEF Slots
<1>12. Decoding'
  <2>1. 1 \in 1..Len(slotQ) /\ decoded + 0 + 1 - 1 = decoded BY <1>3, <1>4
  <2>2. GoodSlot(bufs, decoded + Held + 1 - 1, slotQ[1]) BY <1>1, <2>1 DEF Slots
  <2>3. GoodSlot(bufs, decoded, slotQ[1]) BY <1>7, <2>1, <2>2
  <2>4. main.bundle = NoBundle \/ main.heard = {Own(decoded)} BY <1>1, <1>2 DEF Decoding
  <2> QED BY <1>2, <1>5, <2>3, <2>4 DEF Decoding
<1> QED BY <1>6, <1>9, <1>10, <1>11, <1>12 DEF PipelineInv

(* A decode ends with its own slot's audio, or with none. *)
LEMMA LateReads ==
  ASSUME PipelineInv, Late
  PROVE  /\ decoded \in Nat /\ decoded < cap.n
         /\ \/ last' = [idx |-> decoded, heard |-> {}]
            \/ last' = [idx |-> decoded, heard |-> {Own(decoded)}]
<1>1. Types /\ Chain /\ Decoding BY DEF PipelineInv
<1>2. main.at = "late" BY DEF Late
<1>3. GoodSlot(bufs, decoded, main.slot) BY <1>1, <1>2 DEF Decoding
<1>4. /\ main.slot.idx = decoded /\ main.slot.buf = BufOf(decoded)
      /\ main.slot.len > 0 /\ Holds(bufs, decoded, main.slot.len)
     BY <1>3 DEF GoodSlot
<1>5. Audio(main.slot.buf, main.slot.len) \subseteq {Own(decoded)} BY <1>4 DEF Audio, Holds
<1>6. decoded < cap.n
  <2>1. Held = 1 BY <1>2 DEF Held
  <2>2. cap.n \in Nat BY <1>1 DEF Types, CaptureTypes
  <2>3. Want <= cap.n BY <1>1 DEF Chain
  <2> QED BY <1>1, <2>1, <2>2, <2>3, Counts
<1>7. CASE main.bundle = NoBundle
     BY <1>1, <1>4, <1>6, <1>7 DEF Late, Types, MainTypes
<1>8. CASE main.bundle # NoBundle
  <2>1. main.heard = {Own(decoded)} BY <1>1, <1>2, <1>8 DEF Decoding
  <2>2. main.heard \cup Audio(main.slot.buf, main.slot.len) = {Own(decoded)} BY <1>5, <2>1
  <2> QED BY <1>1, <1>4, <1>6, <1>8, <2>2 DEF Late, Types, MainTypes
<1> QED BY <1>7, <1>8

(* The decode of a slot comes to its end.                                    *)
LEMMA LateInv ==
  ASSUME PipelineInv, Late
  PROVE  PipelineInv'
<1>1. Types /\ Bundles /\ Slots /\ Decoding BY DEF PipelineInv
<1>2. /\ chunkQ' = chunkQ /\ slotQ' = slotQ /\ specQ' = specQ /\ bufs' = bufs /\ cur' = cur
      /\ main.at = "late" /\ decoded' = decoded + 1
      /\ main' = [at |-> "spec", bundle |-> NoBundle, slot |-> NoSlot, heard |-> {}]
      /\ UNCHANGED <<chunkQ, capVars, stage1Vars>>
     BY DEF Late, stage1Vars
<1>3. decoded \in Nat /\ decoded' \in Nat /\ decoded <= decoded'
     BY <1>1, <1>2 DEF Types, MainTypes
<1>4. main'.at = "spec" /\ MainTypes'
  <2>1. NoBundle \in Bundle BY PipelineAssumption DEF NoBundle, Bundle
  <2>2. NoSlot \in Slot BY PipelineAssumption DEF NoSlot, Slot
  <2> QED BY <1>2, <1>3, <2>1, <2>2 DEF MainTypes
<1>5. Types'
     BY <1>1, <1>2, <1>4 DEF Types, CaptureTypes, QueueTypes, Stage1Types, capVars, stage1Vars
<1>6. Held = 1 /\ Held' = 0 /\ Taken = 1 /\ Taken' = 0 /\ Sent' = Sent
     BY <1>2, <1>4 DEF Held, Taken, Sent
<1>7. decoded + 1 = decoded' + 0 BY <1>2, <1>3
<1>8. Fin' = Fin BY <1>2, <1>6, <1>7 DEF Fin
<1>9. Chain' /\ Fed' /\ Timing' /\ Filling' BY <1>2, <1>3, <1>5, <1>8, DecodeFrame
<1>10. Bundles' BY <1>1, <1>2, <1>6, <1>7, <1>8 DEF Bundles
<1>11. Slots' BY <1>1, <1>2, <1>6, <1>7 DEF Slots
<1>12. Decoding' BY <1>4 DEF Decoding
<1> QED BY <1>5, <1>9, <1>10, <1>11, <1>12 DEF PipelineInv

-----------------------------------------------------------------------------
(* Every step keeps the invariant.                                           *)
LEMMA PipelineInvStep ==
  ASSUME Lag <= 2, PipelineInv, [PipelineNext]_vars
  PROVE  PipelineInv'
<1>1. CASE UNCHANGED vars
  <2>1. UNCHANGED <<cap, chunkQ, specQ, slotQ, stage1Vars, mainVars>>
       BY <1>1 DEF vars, stage1Vars, mainVars
  <2>2. Filling' /\ Bundles' /\ Slots' /\ Decoding' /\ Want' = Want BY <2>1, RestStays
  <2>3. Types'
       BY <2>1 DEF PipelineInv, Types, CaptureTypes, QueueTypes, Stage1Types, MainTypes, stage1Vars,
                   mainVars
  <2>4. Chain' /\ Fed' /\ Timing'
       BY <2>1, <2>2 DEF PipelineInv, Chain, Fed, Timing, stage1Vars, mainVars
  <2> QED BY <2>2, <2>3, <2>4 DEF PipelineInv
<1>2. CASE CaptureStep BY <1>2, SendSamplesInv, SendSlotEndInv DEF CaptureStep
<1>3. CASE Stage1Step
     BY <1>3, IngestInv, TakeSlotEndInv, EmitSpecBundleInv, FinalizeSlotInv DEF Stage1Step
<1>4. CASE DecodeStep BY <1>4, RecvSpecInv, EarlyInv, RecvSlotInv, LateInv DEF DecodeStep
<1> QED BY <1>1, <1>2, <1>3, <1>4 DEF PipelineNext

(* A step of the pipeline is a step of the stream or leaves it alone.        *)
LEMMA StreamStep ==
  ASSUME PipelineInv, [PipelineNext]_vars
  PROVE  [Stream!StreamNext]_(Stream!streamVars)
<1> USE DEF Stream!StreamNext, Stream!streamVars
<1>1. CASE UNCHANGED vars BY <1>1 DEF vars
<1>2. CASE SendSlotEnd
  <2>1. cap'.n = cap.n + 1 BY <1>2 DEF SendSlotEnd
  <2>2. decoded' = decoded /\ last' = last BY <1>2 DEF SendSlotEnd, mainVars
  <2> QED BY <2>1, <2>2 DEF Stream!Capture
<1>3. CASE Late
  <2>1. cap' = cap /\ decoded' = decoded + 1 BY <1>3 DEF Late, capVars
  <2>2. 0 \in 0..(MaxMarks + MaxTx) BY PipelineAssumption
  <2>3. \/ last' = [idx |-> decoded, heard |-> {}]
        \/ \E t \in 0..(MaxMarks + MaxTx) : last' = [idx |-> decoded, heard |-> {<<decoded, t>>}]
       BY <1>3, <2>2, LateReads DEF Own
  <2> QED BY <1>3, <2>1, <2>3, LateReads DEF Stream!Decode
<1>4. CASE SendSamples
  <2>1. cap'.n = cap.n BY <1>4 DEF SendSamples, PipelineInv, Types, CaptureTypes
  <2> QED BY <1>4, <2>1 DEF SendSamples, mainVars
<1>5. CASE Stage1Step
     BY <1>5 DEF Stage1Step, Ingest, TakeSlotEnd, EmitSpecBundle, FinalizeSlot, capVars, mainVars
<1>6. CASE RecvSpec \/ Early \/ SkipLate \/ RecvSlot
     BY <1>6 DEF RecvSpec, Early, SkipLate, RecvSlot, capVars
<1> QED BY <1>1, <1>2, <1>3, <1>4, <1>5, <1>6 DEF PipelineNext, CaptureStep, DecodeStep

(* As long as a decode is over before the slot after the next starts, the    *)
(* three tasks implement the stream: each captured slot is decoded once, in  *)
(* order, under its own index and from nothing but its own audio, although   *)
(* bundle and slot travel through two queues and point into two buffers that *)
(* stage1_inc keeps filling.                                                 *)
THEOREM PipelineImplementsStream ==
  ASSUME Lag <= 2
  PROVE  FairPipeline => ImplementsStream
<1>1. PipelineInit => Stream!StreamInit
  <2> SUFFICES ASSUME PipelineInit PROVE Stream!StreamInit
       OBVIOUS
  <2>1. cap.n = 0 BY DEF PipelineInit
  <2> QED BY <2>1 DEF PipelineInit, Stream!StreamInit
<1>2. PipelineInv /\ [PipelineNext]_vars => PipelineInv' BY PipelineInvStep
<1>3. PipelineInv /\ [PipelineNext]_vars => [Stream!StreamNext]_(Stream!streamVars) BY StreamStep
<1> QED BY <1>1, <1>2, <1>3, PipelineInvInit, PTL DEF FairPipeline, ImplementsStream, Stream!StreamSpec
=============================================================================
