------------------------------ MODULE DualCore ------------------------------
(***************************************************************************)
(* run_speculative_slot (embedded-shared/dual_core.rs): one slot's decode   *)
(* on two cores.  The main core hands half of each stage to the worker      *)
(* through a queue of depth one and waits for its answer; stage 3 is a      *)
(* shared array from which both cores claim candidates until a deadline, or *)
(* for retries the arrival of the slot, stops them.  Candidates that need   *)
(* audio past the prefix wait for the slot; one that fails where fine sync  *)
(* moved it is tried again where the coarse search had it.                  *)
(*                                                                          *)
(* A candidate is its position (frequency and DT).  Coarse positions are    *)
(* numbered by falling score.                                               *)
(***************************************************************************)
EXTENDS Integers, Sequences, FiniteSets, SequencesExt

CONSTANTS
  Cells,         \* coarse cells above the threshold: 1..Cells, by falling score
  PASS1_LIMIT, MAX_CAND,
  Scenarios,     \* slots to decode: see ScenarioAssumption
  Never          \* a time that does not come

Cores == {"main", "worker"}

(* low: cells of the lower half of the band; fine: where fine sync moves a   *)
(* cell; fits: positions whose window lies within the prefix; q: block-0     *)
(* sync quality; msg: what a position decodes to, if it decodes; boundary,   *)
(* deadline, key_up: when the slot should end, when stage 3 must stop, and   *)
(* the bound known once the slot itself is; fine_ok, share: fine sync has    *)
(* time to run, DecodeConfig::share_cand_budget.                             *)
ASSUME ScenarioAssumption ==
  /\ Cells \in Nat /\ PASS1_LIMIT \in Nat /\ MAX_CAND \in Nat
  /\ \A s \in Scenarios :
       /\ s.q \in [DOMAIN s.q -> Nat] /\ 1..Cells \subseteq DOMAIN s.q
       /\ s.low \subseteq 1..Cells /\ \A c \in 1..Cells : s.fine[c] \in DOMAIN s.q
       /\ s.fits \subseteq DOMAIN s.q
       /\ {s.boundary, s.deadline, s.key_up} \subseteq 1..Never
       /\ s.fine_ok \in BOOLEAN /\ s.share \in BOOLEAN

VARIABLES
  scen,          \* the slot
  now,           \* coarse clock
  slotHere,      \* slot_q holds the slot
  m,             \* main's locals: stage, candidate lists, results and counters
  job, busy, reply,   \* JOB_Q, the worker's job, the result queues
  slots, next_idx,    \* stage 3's shared array and index
  pc, hold, out,      \* per core: place in the drain, claimed index, Stage3Out
  tried, made,   \* history: attempts, [batch, i, pos, stage], and how many decodes ran
  batch,         \* history: stage 3 batches started
  owed,          \* history: attempts the stages asked for
  overrun        \* history: retries each core claimed with the slot waiting

world == <<scen, now, slotHere>>
drainVars == <<slots, next_idx, pc, hold, out>>
queueVars == <<job, busy, reply>>
histVars == <<tried, made, batch, owed, overrun>>
vars == <<world, m, drainVars, queueVars, histVars>>

None == [kind |-> "none"]
NoOut == [results |-> <<>>, failed |-> <<>>]

DualCoreInit ==
  /\ scen \in Scenarios /\ now = 0 /\ slotHere = FALSE
  /\ m = [at |-> "coarse", waiting |-> FALSE, list |-> <<>>, budget |-> PASS1_LIMIT, own |-> <<>>,
          pass1 |-> <<>>, refined |-> <<>>, deferred |-> <<>>, late_budget |-> 0,
          leftover |-> <<>>, late_retry |-> <<>>, results |-> <<>>, failed |-> <<>>,
          n_cut |-> 0, n_fallback |-> 0, n_in_time |-> 0, n_early |-> 0, n_late |-> 0]
  /\ job = None /\ busy = None /\ reply = None
  /\ slots = <<>> /\ next_idx = 0
  /\ pc = [c \in Cores |-> "out"] /\ hold = [c \in Cores |-> 0] /\ out = [c \in Cores |-> NoOut]
  /\ tried = {} /\ made = 0 /\ batch = 0 /\ owed = 0 /\ overrun = [c \in Cores |-> 0]

-----------------------------------------------------------------------------
(* What the stages compute *)

Least(a, b) == IF a < b THEN a ELSE b
Cut(s, k) == SubSeq(s, 1, Least(k, Len(s)))

(* The elements of s at the positions in I, in their order: Iterator::filter.*)
Kept(s, I) ==
  LET f[n \in 0..Len(s)] == IF n = 0 THEN <<>>
                            ELSE IF n \in I THEN Append(f[n - 1], s[n]) ELSE f[n - 1]
  IN  f[Len(s)]

(* sort_by a falling key, equals in their order: element i goes to Place.    *)
Place(s, key, i) ==
  Cardinality({j \in DOMAIN s : key[s[j]] > key[s[i]] \/ (key[s[j]] = key[s[i]] /\ j <= i)})
Ranked(s, key) == [r \in DOMAIN s |-> s[CHOOSE i \in DOMAIN s : Place(s, key, i) = r]]

Score == [c \in 1..Cells |-> -c]
Ready(s) == {i \in DOMAIN s : s[i] \in scen.fits}

(* refine_candidates_with: a heap of the k best; a full heap gives up its    *)
(* weakest, the earlier of two equals, for a stronger newcomer.              *)
Weakest(s) == CHOOSE i \in DOMAIN s : \A j \in DOMAIN s \ {i} :
                scen.q[s[i]] < scen.q[s[j]] \/ (scen.q[s[i]] = scen.q[s[j]] /\ i < j)
Push(k, heap, p) ==
  IF Len(heap) < k THEN Append(heap, p)
  ELSE IF k > 0 /\ scen.q[p] > scen.q[heap[Weakest(heap)]]
       THEN Append(RemoveAt(heap, Weakest(heap)), p) ELSE heap
Heap(s, k) ==
  LET h[n \in 0..Len(s)] == IF n = 0 THEN <<>> ELSE Push(k, h[n - 1], s[n])
  IN  h[Len(s)]
refine_candidates(s, k) == Ranked(Heap(s, k), scen.q)

(* One core's share of a stage. *)
Work(kind, s, k) ==
  CASE kind = "coarse" -> Cut(s, k)
    [] kind = "fine" -> [i \in DOMAIN s |-> scen.fine[s[i]]]
    [] kind = "pass2" -> refine_candidates(s, k)

(* Mutant: the refined halves are cut without being sorted first. *)
Merge_unsorted(kind, a, b, k) ==
  CASE kind = "coarse" -> Cut(Ranked(a \o b, Score), k)
    [] kind = "fine" -> a \o b
    [] kind = "pass2" -> Cut(a \o b, k)

(* How the two shares are put together. *)
Merge(kind, a, b, k) ==
  CASE kind = "coarse" -> Cut(Ranked(a \o b, Score), k)
    [] kind = "fine" -> a \o b
    [] kind = "pass2" -> Cut(Ranked(a \o b, scen.q), k)

(* coarse_retry_candidates: a failure is matched by its refined position;    *)
(* one that fine sync did not move has nothing different to retry.           *)
coarse_retry_candidates(f) ==
  LET first(p) == CHOOSE i \in DOMAIN m.refined :
                    m.refined[i] = p /\ \A j \in 1..(i - 1) : m.refined[j] # p
      moved == {i \in DOMAIN f : /\ \E j \in DOMAIN m.refined : m.refined[j] = f[i]
                                /\ m.pass1[first(f[i])] # f[i]}
      retry == Kept(f, moved)
  IN  [i \in DOMAIN retry |-> m.pass1[first(retry[i])]]

(* dedup_by_message: the first row of each message. *)
dedup_by_message(s) == Kept(s, {i \in DOMAIN s : \A j \in 1..(i - 1) : s[j] # s[i]})

-----------------------------------------------------------------------------
(* Stages *)

Coarse == {"coarse"}
Fine == {"fine"}
Pass2 == {"pass2", "retry_pass2", "late_pass2", "tail_pass2"}
Stage3 == {"in_time", "rest", "retry", "late", "tail"}
Retries == {"retry", "tail"}
OnPrefix == {"in_time", "rest", "retry"}
KindOf(s) == CASE s \in Coarse -> "coarse" [] s \in Fine -> "fine" [] s \in Pass2 -> "pass2"
               [] s \in Stage3 -> "stage3"

(* Mutant: retries do not look at slot_q. *)
Reached_no_yield(s) ==
  now >= (CASE s = "in_time" -> scen.boundary [] s \in {"rest", "retry"} -> scen.deadline
            [] s \in {"late", "tail"} -> Least(scen.deadline, scen.key_up))

(* Stage3Stop::reached, for the stop each stage passes *)
Deadline(s) == CASE s = "in_time" -> scen.boundary
                 [] s \in {"rest", "retry"} -> scen.deadline
                 [] s \in {"late", "tail"} -> Least(scen.deadline, scen.key_up)
Reached(s) ==
  \/ now >= Deadline(s)
  \/ s \in OnPrefix /\ slotHere /\ now >= scen.key_up
  \/ s = "retry" /\ slotHere

(* A static split: the worker gets the upper half band, or the tail.         *)
Band == [c \in 1..Cells |-> c]
Mid == Len(m.list) \div 2
MainHalf == IF m.at = "coarse" THEN Kept(Band, scen.low) ELSE SubSeq(m.list, 1, Mid)
WorkerHalf == IF m.at = "coarse" THEN Kept(Band, (1..Cells) \ scen.low)
              ELSE SubSeq(m.list, Mid + 1, Len(m.list))
SplitSend ==
  /\ m.at \in Coarse \cup Fine \cup Pass2 /\ ~m.waiting /\ job = None
  /\ m' = [m EXCEPT !.waiting = TRUE, !.own = Work(KindOf(m.at), MainHalf, m.budget)]
  /\ job' = [kind |-> KindOf(m.at), cands |-> WorkerHalf, k |-> m.budget]
  /\ UNCHANGED <<world, drainVars, busy, reply, histVars>>

(* stage3_split: the array is built, the worker called in, main drains too.  *)
Stage3Send ==
  /\ m.at \in Stage3 /\ ~m.waiting /\ job = None /\ ~(m.at = "tail" /\ m.list = <<>>)
  /\ m' = [m EXCEPT !.waiting = TRUE]
  /\ slots' = m.list /\ next_idx' = 1 /\ job' = [kind |-> "stage3"]
  /\ pc' = [pc EXCEPT !["main"] = "check"] /\ out' = [out EXCEPT !["main"] = NoOut]
  /\ batch' = batch + 1
  /\ UNCHANGED <<world, hold, busy, reply, tried, made, owed, overrun>>

-----------------------------------------------------------------------------
(* The worker: worker_main *)

TakeJob ==
  /\ busy = None /\ job # None /\ busy' = job /\ job' = None
  /\ IF job.kind = "stage3"
     THEN pc' = [pc EXCEPT !["worker"] = "check"] /\ out' = [out EXCEPT !["worker"] = NoOut]
     ELSE UNCHANGED <<pc, out>>
  /\ UNCHANGED <<world, m, slots, next_idx, hold, reply, histVars>>

(* Mutant: the answer goes out before the last candidate is done. *)
Answer_early ==
  /\ busy # None /\ reply = None
  /\ reply' = [kind |-> busy.kind,
               res |-> IF busy.kind = "stage3" THEN out["worker"]
                       ELSE Work(busy.kind, busy.cands, busy.k)]
  /\ busy' = None
  /\ UNCHANGED <<world, m, drainVars, job, histVars>>

(* Mutant: a worker that came too late for any candidate does not answer. *)
Answer_not_empty ==
  /\ busy # None /\ reply = None /\ pc["worker"] = "out"
  /\ busy.kind = "stage3" => out["worker"] # NoOut
  /\ reply' = [kind |-> busy.kind,
               res |-> IF busy.kind = "stage3" THEN out["worker"]
                       ELSE Work(busy.kind, busy.cands, busy.k)]
  /\ busy' = None
  /\ UNCHANGED <<world, m, drainVars, job, histVars>>

Answer ==
  /\ busy # None /\ reply = None /\ pc["worker"] = "out"
  /\ reply' = [kind |-> busy.kind,
               res |-> IF busy.kind = "stage3" THEN out["worker"]
                       ELSE Work(busy.kind, busy.cands, busy.k)]
  /\ busy' = None
  /\ UNCHANGED <<world, m, drainVars, job, histVars>>

-----------------------------------------------------------------------------
(* drain_stage3_queue, on either core *)

CheckStop(c) ==
  /\ pc[c] = "check"
  /\ pc' = [pc EXCEPT ![c] = IF Reached(m.at) THEN "out" ELSE "claim"]
  /\ UNCHANGED <<world, m, slots, next_idx, hold, out, queueVars, histVars>>

(* Mutant: the index is read and written back, not fetch_add'ed. *)
Claim_racy(c) ==
  \/ /\ pc[c] = "claim" /\ hold[c] # next_idx /\ hold' = [hold EXCEPT ![c] = next_idx]
     /\ UNCHANGED <<world, m, slots, next_idx, pc, out, queueVars, histVars>>
  \/ /\ pc[c] = "claim" /\ hold[c] # 0 /\ next_idx' = hold[c] + 1
     /\ pc' = [pc EXCEPT ![c] = IF hold[c] > Len(slots) THEN "out" ELSE "decode"]
     /\ UNCHANGED <<world, m, slots, hold, out, queueVars, histVars>>

(* fetch_add *)
Claim(c) ==
  /\ pc[c] = "claim"
  /\ next_idx' = next_idx + 1 /\ hold' = [hold EXCEPT ![c] = next_idx]
  /\ pc' = [pc EXCEPT ![c] = IF next_idx > Len(slots) THEN "out" ELSE "decode"]
  /\ overrun' = IF m.at = "retry" /\ slotHere /\ next_idx <= Len(slots)
                THEN [overrun EXCEPT ![c] = @ + 1] ELSE overrun
  /\ UNCHANGED <<world, m, slots, out, queueVars, tried, made, batch, owed>>

Decode(c) ==
  /\ pc[c] = "decode" /\ pc' = [pc EXCEPT ![c] = "check"]
  /\ LET p == slots[hold[c]]
     IN  /\ \/ out' = [out EXCEPT ![c].results = Append(@, scen.msg[p])]
            \/ out' = [out EXCEPT ![c].failed = Append(@, p)]
         /\ tried' = tried \cup {[batch |-> batch, i |-> hold[c], pos |-> p, stage |-> m.at]}
         /\ made' = made + 1
  /\ UNCHANGED <<world, m, slots, next_idx, hold, queueVars, batch, owed, overrun>>

-----------------------------------------------------------------------------
(* Main puts the halves together and goes on *)

Merged == Merge(KindOf(m.at), m.own, reply.res, m.budget)
Unclaimed == SubSeq(slots, Least(next_idx - 1, Len(slots)) + 1, Len(slots))
AllResults == out["main"].results \o reply.res.results
AllFailed == out["main"].failed \o reply.res.failed

(* Main's own part is done and the worker's answer is there.                 *)
Join(stage) ==
  /\ m.at = stage /\ m.waiting /\ pc["main"] = "out"
  /\ reply # None /\ reply.kind = KindOf(stage) /\ reply' = None
  /\ slots' = <<>> /\ next_idx' = 0
  /\ hold' = [c \in Cores |-> 0] /\ out' = [c \in Cores |-> NoOut]
  /\ UNCHANGED <<world, pc, job, busy, tried, made, batch, overrun>>
Alone(stage) ==
  m.at = stage /\ ~m.waiting /\ UNCHANGED <<world, drainVars, queueVars, tried, made, batch, overrun>>

Go(stage, r) == m' = [r EXCEPT !.at = stage, !.waiting = FALSE]
Owe(k) == owed' = owed + k

CoarseDone ==
  /\ Join("coarse") /\ Owe(0)
  /\ Go(IF scen.fine_ok THEN "fine" ELSE "partition",
        [m EXCEPT !.list = Merged, !.pass1 = Merged])

FineDone ==
  Join("fine") /\ Owe(0) /\ Go("partition", [m EXCEPT !.list = Merged, !.refined = Merged])

Partition ==
  /\ Alone("partition") /\ Owe(0)
  /\ LET ready == Kept(m.list, Ready(m.list))
         early == IF scen.share THEN Cardinality(Ready(Cut(m.list, MAX_CAND))) ELSE MAX_CAND
     IN  Go(IF ready # <<>> /\ early > 0 THEN "pass2" ELSE "slot",
            [m EXCEPT !.deferred = Kept(m.list, DOMAIN m.list \ Ready(m.list)),
                      !.late_budget = MAX_CAND - early, !.list = ready, !.budget = early])

(* The batch is cut in two at the boundary if that is still ahead.           *)
Pass2Done ==
  /\ Join("pass2") /\ Owe(Len(Merged))
  /\ Go(IF now < scen.boundary /\ scen.boundary < scen.deadline THEN "in_time" ELSE "rest",
        [m EXCEPT !.list = Merged, !.n_early = Len(Merged)])

InTimeDone ==
  /\ Join("in_time") /\ Owe(0)
  /\ Go("rest", [m EXCEPT !.results = AllResults, !.failed = AllFailed,
                          !.n_in_time = Len(AllResults), !.list = Unclaimed])

(* First attempts done; their retries start if the slot is not there yet.    *)
RestDone ==
  /\ Join("rest")
  /\ LET retry == coarse_retry_candidates(m.failed \o AllFailed)
         start == retry # <<>> /\ ~Reached("retry")
     IN  /\ Owe(Len(retry))
         /\ Go(IF start THEN "retry_pass2" ELSE "slot",
               [m EXCEPT !.results = @ \o AllResults, !.list = retry, !.budget = Len(retry),
                         !.n_cut = @ + Len(Unclaimed) + (IF start THEN 0 ELSE Len(retry))])

RetryPass2Done == Join("retry_pass2") /\ Owe(0) /\ Go("retry", [m EXCEPT !.list = Merged])

(* Mutant: retries stopped by the slot are forgotten. *)
RetryDone_drop ==
  /\ Join("retry") /\ Owe(0)
  /\ Go("slot", [m EXCEPT !.results = @ \o AllResults, !.n_fallback = @ + Len(slots) - Len(Unclaimed)])

RetryDone ==
  /\ Join("retry") /\ Owe(0)
  /\ Go("slot", [m EXCEPT !.results = @ \o AllResults, !.leftover = Unclaimed,
                          !.n_fallback = @ + Len(slots) - Len(Unclaimed)])

(* Mutant: the late budget is max_cand whatever the early path used. *)
RecvSlot_full_budget ==
  /\ Alone("slot") /\ slotHere
  /\ LET start == m.deferred # <<>> /\ now < Deadline("late")
         lost == IF start THEN 0 ELSE Least(Len(m.deferred), MAX_CAND)
     IN  /\ Owe(lost)
         /\ Go(IF start THEN "late_pass2" ELSE "tail_retry",
               [m EXCEPT !.list = m.deferred, !.budget = MAX_CAND, !.n_cut = @ + lost])

(* recv_box(slot_q): deferred candidates get what the budget leaves.         *)
RecvSlot ==
  /\ Alone("slot") /\ slotHere
  /\ LET k == IF scen.share THEN m.late_budget ELSE MAX_CAND - Least(m.n_early, MAX_CAND)
         start == m.deferred # <<>> /\ k > 0 /\ now < Deadline("late")
         lost == IF start THEN 0 ELSE Least(Len(m.deferred), k)
     IN  /\ Owe(lost)
         /\ Go(IF start THEN "late_pass2" ELSE "tail_retry",
               [m EXCEPT !.list = m.deferred, !.budget = k, !.n_cut = @ + lost])

LatePass2Done ==
  /\ Join("late_pass2") /\ Owe(Len(Merged))
  /\ Go("late", [m EXCEPT !.list = Merged, !.n_late = Len(Merged)])

OnTime(k) == IF now <= scen.boundary /\ scen.boundary # Never THEN k ELSE 0

LateDone ==
  /\ Join("late")
  /\ LET retry == coarse_retry_candidates(AllFailed)
     IN  /\ Owe(Len(retry))
         /\ Go("tail_retry", [m EXCEPT !.results = @ \o AllResults, !.late_retry = retry,
                                       !.n_cut = @ + Len(Unclaimed),
                                       !.n_in_time = @ + OnTime(Len(AllResults))])

(* Early retries left over, then the late ones, on the whole slot.           *)
TailRetry ==
  /\ Alone("tail_retry") /\ Owe(0)
  /\ IF m.late_retry # <<>> /\ now < Deadline("tail")
     THEN Go("tail_pass2", [m EXCEPT !.list = m.late_retry, !.budget = Len(m.late_retry)])
     ELSE Go("tail", [m EXCEPT !.list = m.leftover, !.n_cut = @ + Len(m.late_retry)])

TailPass2Done ==
  Join("tail_pass2") /\ Owe(0) /\ Go("tail", [m EXCEPT !.list = m.leftover \o Merged])

(* The count of in-time decodes is capped by the rows that are left.         *)
Finish(r) ==
  LET rows == dedup_by_message(r.results)
  IN  Go("done", [r EXCEPT !.results = rows, !.n_in_time = Least(@, Len(rows))])

TailDone ==
  /\ Join("tail") /\ Owe(0)
  /\ Finish([m EXCEPT !.results = @ \o AllResults, !.n_cut = @ + Len(Unclaimed),
                      !.n_fallback = @ + Len(slots) - Len(Unclaimed),
                      !.n_in_time = @ + OnTime(Len(AllResults))])

NoTail == Alone("tail") /\ m.list = <<>> /\ Owe(0) /\ Finish(m)

-----------------------------------------------------------------------------
(* The clock and the capture side *)

Tick == now < 2 /\ now' = now + 1 /\ UNCHANGED <<scen, slotHere, m, drainVars, queueVars, histVars>>
SlotArrives ==
  ~slotHere /\ slotHere' = TRUE /\ UNCHANGED <<scen, now, m, drainVars, queueVars, histVars>>

Drain(c) == CheckStop(c) \/ Claim(c) \/ Decode(c)
MainStep ==
  \/ SplitSend \/ Stage3Send \/ CoarseDone \/ FineDone \/ Partition \/ Pass2Done
  \/ InTimeDone \/ RestDone \/ RetryPass2Done \/ RetryDone \/ RecvSlot \/ LatePass2Done
  \/ LateDone \/ TailRetry \/ TailPass2Done \/ TailDone \/ NoTail \/ Drain("main")
WorkerStep == TakeJob \/ Answer \/ Drain("worker")

DualCoreNext == MainStep \/ WorkerStep \/ Tick \/ SlotArrives
(* Both cores run, and the slot ends. *)
DualCoreSpec == DualCoreInit /\ [][DualCoreNext]_vars
                /\ WF_vars(MainStep) /\ WF_vars(WorkerStep) /\ WF_vars(SlotArrives)

-----------------------------------------------------------------------------
(* Types of main's locals, of the shared array and of the two cores' outputs.*)
Pos == DOMAIN scen.q
Msg == {scen.msg[p] : p \in Pos}
Stages == Coarse \cup Fine \cup Pass2 \cup Stage3 \cup {"partition", "slot", "tail_retry", "done"}
Locals == [at : Stages, waiting : BOOLEAN, list : Seq(Pos), budget : Nat, own : Seq(Pos),
           pass1 : Seq(1..Cells), refined : Seq(Pos), deferred : Seq(Pos),
           late_budget : 0..MAX_CAND, leftover : Seq(Pos), late_retry : Seq(Pos),
           results : Seq(Msg), failed : Seq(Pos),
           n_cut : Nat, n_fallback : Nat, n_in_time : Nat, n_early : Nat, n_late : Nat]
SharedTypeOK ==
  /\ scen \in Scenarios /\ now \in 0..2 /\ slotHere \in BOOLEAN
  /\ {job.kind, busy.kind, reply.kind} \subseteq {"none", "coarse", "fine", "pass2", "stage3"}
  /\ slots \in Seq(Pos) /\ next_idx \in Nat
  /\ pc \in [Cores -> {"check", "claim", "decode", "out"}] /\ hold \in [Cores -> Nat]
  /\ out \in [Cores -> [results : Seq(Msg), failed : Seq(Pos)]]
  /\ made \in Nat /\ batch \in Nat /\ owed \in Nat /\ overrun \in [Cores -> Nat]
DualCoreTypeOK == m \in Locals /\ SharedTypeOK

(* dual_core.rs:1160, the raw pointers of a job are sound because "dispatch  *)
(* fns [...] block-wait on the result before returning": whenever main is    *)
(* between stages the worker holds nothing, and no answer is left behind for *)
(* the next stage to take as its own.                                        *)
WorkerQuiescent ==
  ~m.waiting => job = None /\ busy = None /\ reply = None /\ \A c \in Cores : pc[c] = "out"

(* No candidate of a batch is decoded by both cores.                         *)
NoDoubleWork ==
  made = Cardinality(tried) /\ \A x, y \in tried : x.batch = y.batch /\ x.i = y.i => x = y

(* SpeculativeOut: every attempt asked for was made or is counted in n_cut,  *)
(* whatever path it took (early, left over, late, tail).                     *)
EveryAttemptAccounted == m.at = "done" => made + m.n_cut = owed

(* "n_early_refined + n_late_refined <= max_cand" (dual_core.rs:930), with   *)
(* either way of sharing the budget, whose unsigned rest never wraps (796).  *)
WithinBudget == m.late_budget >= 0 /\ m.n_early + m.n_late <= MAX_CAND

Found == IF m.refined = <<>> THEN m.pass1 ELSE m.refined
(* What two heaps of half the candidates each keep is what one heap of all   *)
(* would: no candidate left out is stronger than one let in.                 *)
BestRefined ==
  m.at \in {"in_time", "rest"} /\ batch = 0 =>
    LET all == Kept(Found, Ready(Found))
    IN  /\ Len(m.list) = Least(Len(all), m.budget)
        /\ \A p \in ToSet(all) \ ToSet(m.list), k \in ToSet(m.list) : scen.q[p] <= scen.q[k]

(* "Retries run only on time no first attempt can use" (dual_core.rs:879):   *)
(* once the slot is there each core finishes at most one more of them.       *)
RetriesYield == \A c \in Cores : overrun[c] <= 1

(* The decode of a slot ends once the slot has, whatever the two cores and   *)
(* the queues between them do.                                               *)
SlotFinishes == <>(m.at = "done")

(* SpeculativeOut::n_cut (dual_core.rs:206): candidates "the budget_ms       *)
(* deadline stopped from being tried [...]. 0 when the budget is disabled or *)
(* the slot finished inside it"; and :812, "early-path retries that the      *)
(* slot's arrival stopped [...] join the late path's retries".               *)
CutOnlyByDeadline == m.at = "done" /\ now < Least(scen.deadline, scen.key_up) => m.n_cut = 0

(* coarse_retry_candidates (dual_core.rs:1063): two coarse cells moved onto  *)
(* one position "share one retry".                                           *)
OneRetryPerCell ==
  \A x, y \in tried : {x.stage, y.stage} \subseteq Retries /\ x.pos = y.pos => x = y
=============================================================================
