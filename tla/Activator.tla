------------------------------ MODULE Activator ------------------------------
(***************************************************************************)
(* The CQ-side contact machine of activator.rs: it calls CQ, answers who     *)
(* calls, logs a contact when RR73 goes out and stops at a target.           *)
(*                                                                          *)
(* The code stores period numbers and compares period - stored with a limit; *)
(* here the difference itself is stored, an age that grows by the number of  *)
(* own periods between two decisions and stops one above the limit.          *)
(* Grid, report values and callsign spelling are data no branch reads and    *)
(* are left out: Exchange::None is "grid" and Rrr is "rr73", which take the  *)
(* same branches, and of a report only whether it was received is kept.      *)
(***************************************************************************)
EXTENDS Integers, Sequences

CONSTANTS
  Call,          \* callsigns that may call us
  NoCall,
  Snr,           \* the strength each of them is heard with
  PENDING_MAX, PENDING_TTL, RECENT_MAX, RECENT_TTL, DROPPED_MAX,
  TARGET,        \* Config::target_qsos, 0 = never stop
  GIVE_UP,       \* Config::give_up_periods
  GRACE,         \* Config::grace_periods
  IDLE_STOP,     \* Config::idle_stop_periods, 0 = never
  MaxHeard,      \* bound: messages between two decisions
  MaxGap         \* bound: own periods between two decisions

ASSUME ActivatorAssumption ==
  /\ NoCall \notin Call /\ Snr \in [Call -> Int]
  /\ {PENDING_TTL, RECENT_TTL, TARGET, GIVE_UP, GRACE, IDLE_STOP, MaxHeard} \subseteq Nat
  /\ {PENDING_MAX, RECENT_MAX, DROPPED_MAX, MaxGap} \subseteq Nat \ {0}

VARIABLES
  act,    \* struct Activator
  heard,  \* messages to us decoded since the last decision
  out     \* the last Decision: what to send, what to log

vars == <<act, heard, out>>

Exchange == {"grid", "report", "rreport", "rr73", "s73"}
stage == [grid |-> 0, report |-> 1, rreport |-> 2, rr73 |-> 2, s73 |-> 3]
Heard == [from : Call, ex : Exchange]

NoTx == [to |-> NoCall, text |-> "none"]
Cq   == [to |-> NoCall, text |-> "cq"]
std_msg(to, text) == [to |-> to, text |-> text]

NoPartner == [call |-> NoCall, rcvd |-> FALSE, quiet |-> 0, last_tx |-> Cq]
NoRecord == [call |-> NoCall, rcvd |-> FALSE]

(* A count that is only compared with a limit, one above which it may stop.  *)
Plus(n, d, limit) == IF n + d <= limit THEN n + d ELSE limit + 1

new == [phase |-> "Stopped", partner |-> NoPartner, pending |-> <<>>, recent |-> <<>>,
        dropped |-> <<>>, logged |-> 0, idle |-> 0, done_age |-> 0]

(* d own periods pass. *)
Aged(s, d, ttl) == [i \in DOMAIN s |-> [s[i] EXCEPT !.age = Plus(@, d, ttl)]]
Elapse(a, d) ==
  LET silent == [a.partner EXCEPT !.quiet = Plus(@, d, GIVE_UP)]
  IN  [a EXCEPT !.partner = IF a.partner = NoPartner THEN a.partner ELSE silent,
                !.pending = Aged(a.pending, d, PENDING_TTL),
                !.recent = Aged(a.recent, d, RECENT_TTL),
                !.done_age = IF a.phase = "Done" THEN Plus(a.done_age, d, GRACE) ELSE 0]

(* Vec::retain: the elements at the positions in I, in their order.          *)
retain(s, I) ==
  LET f[n \in 0..Len(s)] == IF n = 0 THEN <<>>
                            ELSE IF n \in I THEN Append(f[n - 1], s[n]) ELSE f[n - 1]
  IN  f[Len(s)]

-----------------------------------------------------------------------------
(* The order in which callers are picked: stage first, then strength.        *)
Outranks(g, h) == \/ stage[g.ex] > stage[h.ex]
                  \/ stage[g.ex] = stage[h.ex] /\ Snr[g.from] > Snr[h.from]

(* max_by_key: the last of the greatest. *)
Strongest(s) ==
  s[CHOOSE i \in DOMAIN s : \A j \in DOMAIN s :
      ~Outranks(s[j], s[i]) /\ (j > i => Outranks(s[i], s[j]))]

From(s, c) == {i \in DOMAIN s : s[i].from = c}
best_from(s, c) ==
  s[CHOOSE i \in From(s, c) : \A j \in From(s, c) :
      IF j > i THEN stage[s[j].ex] < stage[s[i].ex] ELSE stage[s[j].ex] <= stage[s[i].ex]]

(* Mutant: a full queue takes one more. *)
Queue_unbounded(pending, h) ==
  IF \E i \in DOMAIN pending : pending[i].msg.from = h.from THEN pending
  ELSE Append(pending, [msg |-> h, age |-> 0])

(* One caller waits while another is worked: a newer message replaces the    *)
(* older one; a full queue gives up its first weakest for a stronger caller. *)
Queue(pending, h) ==
  LET entry == [msg |-> h, age |-> 0]
      own == {i \in DOMAIN pending : pending[i].msg.from = h.from}
      weakest == CHOOSE i \in DOMAIN pending : \A j \in DOMAIN pending :
                   IF j < i THEN Outranks(pending[j].msg, pending[i].msg)
                            ELSE ~Outranks(pending[i].msg, pending[j].msg)
  IN  IF own # {} THEN [i \in DOMAIN pending |-> IF i \in own THEN entry ELSE pending[i]]
      ELSE IF Len(pending) < PENDING_MAX THEN Append(pending, entry)
      ELSE IF Outranks(h, pending[weakest].msg) THEN [pending EXCEPT ![weakest] = entry]
      ELSE pending

(* Mutant: the partner's own messages are queued too. *)
queue_others_all(a, batch, except) ==
  LET q[n \in 0..Len(batch)] == IF n = 0 THEN a.pending
                                ELSE IF batch[n].ex = "s73" THEN q[n - 1]
                                ELSE Queue(q[n - 1], batch[n])
  IN  [a EXCEPT !.pending = q[Len(batch)]]

queue_others(a, batch, except) ==
  LET q[n \in 0..Len(batch)] == IF n = 0 THEN a.pending
                                ELSE IF batch[n].from = except \/ batch[n].ex = "s73" THEN q[n - 1]
                                ELSE Queue(q[n - 1], batch[n])
  IN  [a EXCEPT !.pending = q[Len(batch)]]

-----------------------------------------------------------------------------
InRecent(a, c) == \E i \in DOMAIN a.recent : a.recent[i].call = c
Forget(a, c) == [a EXCEPT !.recent = retain(@, {i \in DOMAIN @ : @[i].call # c})]

(* Mutant: the target is tested with >. *)
finish_late(a) ==
  LET c == a.partner.call
      already == InRecent(a, c)
      logged == IF already THEN a.logged ELSE Plus(a.logged, 1, TARGET)
      done == TARGET > 0 /\ logged > TARGET
  IN  [a EXCEPT !.partner = NoPartner, !.recent = Append(@, [call |-> c, age |-> 0]),
                !.logged = logged, !.phase = IF done THEN "Done" ELSE "Cq",
                !.done_age = 0]

(* RR73 or 73 is going out: log once, retire the partner, stop at the target.*)
finish(a) ==
  LET c == a.partner.call
      already == InRecent(a, c)
      entry == [call |-> c, age |-> 0]
      room == IF Len(a.recent) = RECENT_MAX THEN Tail(a.recent) ELSE a.recent
      logged == IF already THEN a.logged ELSE Plus(a.logged, 1, TARGET)
      done == TARGET > 0 /\ logged >= TARGET
  IN  [a EXCEPT !.partner = NoPartner,
                !.recent = IF already
                           THEN [i \in DOMAIN @ |-> IF @[i].call = c THEN entry ELSE @[i]]
                           ELSE Append(room, entry),
                !.logged = logged,
                !.phase = IF done THEN "Done" ELSE "Cq",
                !.done_age = 0]

(* The sender becomes the partner, with what a dropped attempt left of it.   *)
Adopt(a, c) ==
  LET back == {i \in DOMAIN a.dropped : a.dropped[i].call = c}
      i == CHOOSE i \in back : \A j \in back : i <= j
      known == back # {} /\ a.dropped[i].rcvd
  IN  IF a.partner.call = c THEN [a EXCEPT !.partner.quiet = 0]
      ELSE [a EXCEPT !.partner = [NoPartner EXCEPT !.call = c, !.rcvd = known],
                     !.dropped = IF back = {} THEN @ ELSE retain(@, DOMAIN @ \ {i})]

(* Mutant: a confirmed report is answered like a call. *)
Answer_repeats == [grid |-> "report", report |-> "rreport", rreport |-> "report", rr73 |-> "73"]

(* The reply is a function of the caller's message. *)
Answer == [grid |-> "report", report |-> "rreport", rreport |-> "rr73", rr73 |-> "73"]

(* Mutant: an R report is answered with RR73 and logged when 73 follows. *)
reply_logs_late(a, h) ==
  LET b == Adopt(a, h.from)
      tx == std_msg(h.from, Answer[h.ex])
      p == [b.partner EXCEPT !.rcvd = @ \/ h.ex \in {"report", "rreport"}, !.last_tx = tx]
  IN  IF h.ex = "s73"
      THEN [a |-> [b EXCEPT !.partner = NoPartner], tx |-> NoTx,
            logged |-> [call |-> h.from, rcvd |-> b.partner.rcvd]]
      ELSE IF h.ex \in {"grid", "report"}
      THEN [a |-> [Forget(b, h.from) EXCEPT !.partner = p, !.phase = "Working"],
            tx |-> tx, logged |-> NoRecord]
      ELSE [a |-> finish([b EXCEPT !.partner = p]), tx |-> tx, logged |-> NoRecord]

reply(a, h) ==
  LET b == Adopt(a, h.from)
      tx == std_msg(h.from, Answer[h.ex])
      p == [b.partner EXCEPT !.rcvd = @ \/ h.ex \in {"report", "rreport"}, !.last_tx = tx]
  IN  IF h.ex = "s73"
      THEN [a |-> [b EXCEPT !.partner = NoPartner], tx |-> NoTx, logged |-> NoRecord]
      ELSE IF h.ex \in {"grid", "report"}
      THEN [a |-> [Forget(b, h.from) EXCEPT !.partner = p, !.phase = "Working"],
            tx |-> tx, logged |-> NoRecord]
      ELSE [a |-> finish([b EXCEPT !.partner = p]), tx |-> tx,
            logged |-> IF InRecent(b, h.from) THEN NoRecord
                       ELSE [call |-> h.from, rcvd |-> p.rcvd]]

(* Mutant: the phase is left as it was. *)
cq_keeps_phase(a) ==
  [a |-> [a EXCEPT !.idle = Plus(@, 1, IDLE_STOP)], tx |-> Cq, logged |-> NoRecord]

cq(a) ==
  LET idle == Plus(a.idle, 1, IDLE_STOP)
      stop == IDLE_STOP > 0 /\ idle > IDLE_STOP
  IN  [a |-> [a EXCEPT !.idle = idle, !.phase = IF stop THEN "Stopped" ELSE "Cq"],
       tx |-> IF stop THEN NoTx ELSE Cq, logged |-> NoRecord]

(* The best of this period's callers and of the waiting ones, or CQ. *)
next_caller_or_cq(a, batch) ==
  LET waiting == retain(a.pending, {i \in DOMAIN a.pending : From(batch, a.pending[i].msg.from) = {}})
      all == batch \o [i \in DOMAIN waiting |-> waiting[i].msg]
      pool == retain(all, {i \in DOMAIN all : all[i].ex # "s73"})
      pick == Strongest(pool)
      others == {i \in DOMAIN a.pending : a.pending[i].msg.from # pick.from}
      r == reply([a EXCEPT !.pending = retain(@, others)], pick)
  IN  IF pool = <<>> THEN cq(a)
      ELSE [r EXCEPT !.a = [queue_others(r.a, batch, pick.from) EXCEPT !.idle = 0]]

(* Mutant: a partner who went quiet is not remembered. *)
Drop_forgets(a) == [a EXCEPT !.partner = NoPartner]
Drop(a) ==
  LET room == IF Len(a.dropped) = DROPPED_MAX THEN Tail(a.dropped) ELSE a.dropped
  IN  [a EXCEPT !.dropped = Append(room, [call |-> a.partner.call, rcvd |-> a.partner.rcvd]), !.partner = NoPartner]

(* Mutant: logged partners are never forgotten. *)
Expire_keeps_recent(a) ==
  [a EXCEPT !.pending = retain(@, {i \in DOMAIN @ : @[i].age <= PENDING_TTL})]

(* Waiting callers and logged partners past their time. *)
Expire(a) ==
  [a EXCEPT !.pending = retain(@, {i \in DOMAIN @ : @[i].age <= PENDING_TTL}),
            !.recent = retain(@, {i \in DOMAIN @ : @[i].age <= RECENT_TTL})]

(* Mutant: the best caller is taken whether or not a contact is under way. *)
decide_active_greedy(a0, batch) == next_caller_or_cq(Expire(a0), batch)

decide_active(a0, batch) ==
  LET a == Expire(a0)
      c == a.partner.call
      r == reply(a, best_from(batch, c))
      queued == queue_others(r.a, batch, c)
  IN  IF c = NoCall THEN next_caller_or_cq(a, batch)
      ELSE IF From(batch, c) # {}
      THEN IF r.tx = NoTx THEN next_caller_or_cq(queued, <<>>) ELSE [r EXCEPT !.a = queued]
      ELSE IF a.partner.quiet < GIVE_UP
      THEN [a |-> queue_others(a, batch, c), tx |-> a.partner.last_tx, logged |-> NoRecord]
      ELSE next_caller_or_cq(Drop(a), batch)

(* The first logged partner that repeats its R report gets RR73 again. *)
decide_done(a, batch) ==
  LET again == {i \in DOMAIN batch : batch[i].ex = "rreport" /\ InRecent(a, batch[i].from)}
      i == CHOOSE i \in again : \A j \in again : i <= j
  IN  [a |-> IF a.done_age > GRACE THEN [a EXCEPT !.phase = "Stopped"] ELSE a,
       tx |-> IF a.done_age > GRACE \/ again = {} THEN NoTx ELSE std_msg(batch[i].from, "rr73"),
       logged |-> NoRecord]

decide(a, batch) ==
  IF a.phase = "Stopped" THEN [a |-> a, tx |-> NoTx, logged |-> NoRecord]
  ELSE IF a.phase = "Done" THEN decide_done(a, batch)
  ELSE decide_active(a, batch)

-----------------------------------------------------------------------------
Nothing == [tx |-> NoTx, logged |-> NoRecord]

ActivatorInit == act = new /\ heard = <<>> /\ out = Nothing

Start ==
  /\ act' = [new EXCEPT !.phase = "Cq"]
  /\ out' = Nothing /\ UNCHANGED heard

Stop ==
  /\ act' = [act EXCEPT !.phase = "Stopped", !.partner = NoPartner, !.pending = <<>>]
  /\ out' = Nothing /\ UNCHANGED heard

Hear(h) == Len(heard) < MaxHeard /\ heard' = Append(heard, h) /\ UNCHANGED <<act, out>>

Decide(d) ==
  LET r == decide(Elapse(act, d), heard)
  IN  act' = r.a /\ out' = [tx |-> r.tx, logged |-> r.logged] /\ heard' = <<>>

ActivatorNext ==
  \/ Start \/ Stop
  \/ \E h \in Heard : Hear(h)
  \/ \E d \in 1..MaxGap : Decide(d)

ActivatorSpec == ActivatorInit /\ [][ActivatorNext]_vars

-----------------------------------------------------------------------------
(* Properties *)

Partner == [call : Call \cup {NoCall}, rcvd : BOOLEAN, quiet : 0..GIVE_UP + 1,
            last_tx : [to : Call \cup {NoCall}, text : {"cq", "report", "rreport", "rr73", "73"}]]

(* Types; the three lists stay within their heapless capacities.             *)
ActivatorTypeOK ==
  /\ act.phase \in {"Stopped", "Cq", "Working", "Done"}
  /\ act.partner \in Partner
  /\ Len(act.pending) <= PENDING_MAX
  /\ \A i \in DOMAIN act.pending : act.pending[i] \in [msg : Heard, age : 0..PENDING_TTL + 1]
  /\ \A i \in DOMAIN act.recent : act.recent[i] \in [call : Call, age : 0..RECENT_TTL + 1]
  /\ Len(act.dropped) <= DROPPED_MAX
  /\ \A i \in DOMAIN act.dropped : act.dropped[i] \in [call : Call, rcvd : BOOLEAN]
  /\ act.logged \in 0..TARGET + 1 /\ act.idle \in 0..IDLE_STOP + 1 /\ act.done_age \in 0..GRACE + 1

(* The phase the operator sees says whether a contact is under way, after    *)
(* every way a decision can end: RR73 sent, 73 heard, partner dropped and    *)
(* another one picked in the same call, idle stop, target reached.           *)
PhaseMatchesPartner == act.phase = "Working" <=> act.partner.call # NoCall

(* The activation stops at the target: no contact is logged beyond it, and   *)
(* once it is reached nothing is sent but RR73 to a logged partner.          *)
TargetKept ==
  TARGET > 0 =>
    /\ act.logged <= TARGET
    /\ act.logged = TARGET => out.tx = NoTx \/ InRecent(act, out.tx.to)

(* Decisions retire one partner each, so the list of logged partners never   *)
(* fills (16 places for RECENT_TTL + 1 periods) and its eviction never opens *)
(* the no-second-log window early; and one caller has one entry of a list.   *)
RecentFits ==
  /\ Len(act.recent) <= RECENT_TTL + 1
  /\ \A i, j \in DOMAIN act.recent : act.recent[i].call = act.recent[j].call => i = j
  /\ \A i, j \in DOMAIN act.pending :
       act.pending[i].msg.from = act.pending[j].msg.from => i = j

(* The partner does not also wait in the queue: an old message of its own    *)
(* cannot restart the contact later.                                         *)
PartnerNotQueued ==
  \A i \in DOMAIN act.pending : act.pending[i].msg.from # act.partner.call

(* A contact is not interrupted: a partner is replaced only after its 73 or  *)
(* its last message, after its silence, or by the operator.                  *)
NotInterrupted ==
  [][ act.partner.call # NoCall /\ act'.partner.call # act.partner.call =>
        \/ act'.phase = "Stopped" \/ out' = Nothing
        \/ act.partner.quiet + MaxGap >= GIVE_UP /\ ~\E i \in DOMAIN heard : heard[i].from = act.partner.call
        \/ \E i \in DOMAIN heard : heard[i].from = act.partner.call
                                   /\ heard[i].ex \in {"rreport", "rr73", "s73"} ]_vars
==============================================================================
