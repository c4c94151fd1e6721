----------------------------- MODULE QsoManager -----------------------------
(***************************************************************************)
(* The QSO finite state machine of mfsk-app-shared/src/qso.rs: the object   *)
(* behind the Arc<Mutex<QsoManager>> that the decode task, the transmit     *)
(* thread and the menu all mutate, one critical section at a time.          *)
(*                                                                          *)
(* Every method is an operator on the record q of the fields that any       *)
(* branch of the code reads.  A method that also returns a value yields     *)
(* [q, tx]: the new manager and the TxIntent or NoIntent.  Grids, SNR       *)
(* numbers, the CQ suffix and the received report are written but never     *)
(* tested by a branch, so they are left out; a report is kept as its form   *)
(* (with or without the leading R).                                         *)
(***************************************************************************)
EXTENDS Integers

CONSTANTS
  Call,               \* stations that can be heard
  Text,               \* what a String<11> can hold of a callsign
  Clip,               \* push_upper into String<11>: Call -> Text
  SlotOf,             \* Call -> set of slot parities it is captured in
  NoCall,             \* the empty dx_call
  MAX_RETRIES, FINAL_MAX_RETRIES

ASSUME RetryAssumption ==
  MAX_RETRIES \in Nat /\ FINAL_MAX_RETRIES \in Nat

ASSUME CallAssumption ==
  /\ Clip \in [Call -> Text]
  /\ NoCall \notin Text \cup Call
  \* a callsign that fits is stored as it is
  /\ \A c \in Call \cap Text : Clip[c] = c

Parity == {"Even", "Odd"}

ASSUME SlotAssumption == SlotOf \in [Call -> SUBSET Parity]

NoParity == "None"
opposite(p) == IF p = "Even" THEN "Odd" ELSE "Even"

QsoState == {"Idle", "Calling", "Report", "Final"}

(* The third word of a decoded message, as parse_report and the string      *)
(* comparisons of on_calling / on_report / on_final tell it apart.          *)
Field == {"grid", "rpt", "Rrpt", "RRR", "RR73", "73"}
IsReport(f) == f \in {"rpt", "Rrpt"}

(* A decoded text.  Anything not addressed to my_call, or of fewer than     *)
(* three words, is the same to every handler: to = "other".                 *)
Message == [to : {"us", "other"}, from : Call, field : Field]

CQ == "CQ"
NoIntent == [to |-> "nobody", report |-> "none"]
TxIntent(to, report) == [to |-> to, report |-> report]

new == [ state     |-> "Idle",
         dx_call   |-> NoCall,
         tx_report |-> "none",
         retry_count |-> 0,
         auto_cq_enabled |-> FALSE,
         peer_parity |-> NoParity,
         self_tx_parity |-> NoParity ]

-----------------------------------------------------------------------------
(* Methods of QsoManager                                                    *)

set_auto_cq(q, on) == [q EXCEPT !.auto_cq_enabled = on]

reset(q) == [q EXCEPT !.state = "Idle",
                      !.dx_call = NoCall,
                      !.tx_report = "none",
                      !.retry_count = 0,
                      !.peer_parity = NoParity,
                      !.self_tx_parity = NoParity]

preferred_tx_parity(q) ==
  IF q.peer_parity # NoParity THEN opposite(q.peer_parity) ELSE q.self_tx_parity

record_self_tx(q, p) ==
  IF q.self_tx_parity = NoParity THEN [q EXCEPT !.self_tx_parity = p] ELSE q

call_cq(q) == [q EXCEPT !.state = "Calling", !.dx_call = NoCall, !.retry_count = 0]

call_station(q, c) ==
  [q EXCEPT !.state = "Calling", !.dx_call = Clip[c], !.retry_count = 0]

(* What goes on the air while the machine stays where it is. *)
next_tx(q) ==
  CASE q.state = "Calling" /\ q.dx_call # NoCall -> TxIntent(q.dx_call, "grid")
    [] q.state = "Calling" /\ q.dx_call = NoCall -> TxIntent(CQ, "grid")
    [] q.state = "Report" -> TxIntent(q.dx_call, q.tx_report)
    [] q.state = "Final"  -> TxIntent(q.dx_call, "73")
    [] q.state = "Idle"   -> NoIntent

RetryLimit(q) == IF q.state = "Final" THEN FINAL_MAX_RETRIES ELSE MAX_RETRIES

(* A Final that runs out of retries counts as completed and keeps its       *)
(* fields; every other state is reset.                                      *)
on_period_end(q) ==
  CASE q.state = "Idle" -> q
    [] q.state # "Idle" /\ q.retry_count < RetryLimit(q) ->
         [q EXCEPT !.retry_count = @ + 1]
    [] q.state = "Final" /\ q.retry_count >= RetryLimit(q) ->
         [q EXCEPT !.state = "Idle"]
    [] q.state \in {"Calling", "Report"} /\ q.retry_count >= RetryLimit(q) ->
         reset(q)

(* The parity test comes after the auto-CQ transition, so a poll in the     *)
(* wrong slot still moves Idle to Calling.                                  *)
pick_tx_intent(q, p) ==
  LET q2 == IF q.state = "Idle" /\ q.auto_cq_enabled THEN call_cq(q) ELSE q
      ours == preferred_tx_parity(q2)
  IN  [ q  |-> q2,
        tx |-> IF ours \in {NoParity, p} THEN next_tx(q2) ELSE NoIntent ]

finish_self_tx(q, p) == on_period_end(record_self_tx(q, p))

-----------------------------------------------------------------------------
(* process_message and the handler of each state                            *)

Ignored(q) == [q |-> q, tx |-> NoIntent]

(* Mutant: the unsolicited call opens a contact with no report to send. *)
on_idle_no_report(q, m) ==
  LET q2 == [q EXCEPT !.state = "Report", !.dx_call = Clip[m.from], !.retry_count = 0]
  IN  [q |-> q2, tx |-> TxIntent(q2.dx_call, "rpt")]

on_idle(q, m) ==
  LET q2 == [q EXCEPT !.state = "Report", !.dx_call = Clip[m.from],
                      !.tx_report = "rpt", !.retry_count = 0]
  IN  [q |-> q2, tx |-> TxIntent(q2.dx_call, "rpt")]

(* Mutant: a directed call accepts whoever answers first. *)
on_calling_undirected(q, m) ==
  LET rpt == IF IsReport(m.field) THEN "Rrpt" ELSE "rpt"
      q2  == [q EXCEPT !.state = "Report", !.dx_call = Clip[m.from],
                       !.tx_report = rpt, !.retry_count = 0]
  IN  [q |-> q2, tx |-> TxIntent(q2.dx_call, rpt)]

(* A directed call only accepts its target; a report answered with the      *)
(* report and a leading R, anything else with our own report.               *)
on_calling(q, m) ==
  LET rpt == IF IsReport(m.field) THEN "Rrpt" ELSE "rpt"
      q2  == [q EXCEPT !.state = "Report", !.dx_call = Clip[m.from],
                       !.tx_report = rpt, !.retry_count = 0]
  IN  IF q.dx_call \in {NoCall, m.from}
      THEN [q |-> q2, tx |-> TxIntent(q2.dx_call, rpt)]
      ELSE Ignored(q)

(* Mutant: the retry counter of Report is carried into Final. *)
on_report_keeps_retry(q, m) ==
  LET final == [q EXCEPT !.state = "Final"]
  IN  IF q.dx_call = m.from /\ m.field \in {"RRR", "RR73", "Rrpt"}
      THEN [q |-> final, tx |-> TxIntent(q.dx_call, "73")]
      ELSE Ignored(q)

on_report(q, m) ==
  LET final == [q EXCEPT !.state = "Final", !.retry_count = 0]
      again == [q EXCEPT !.tx_report = "Rrpt"]
  IN  CASE q.dx_call # m.from -> Ignored(q)
        [] q.dx_call = m.from /\ m.field \in {"RRR", "RR73"} ->
             [q |-> final, tx |-> TxIntent(q.dx_call, "73")]
        [] q.dx_call = m.from /\ m.field = "Rrpt" ->
             [q |-> final, tx |-> TxIntent(q.dx_call, "RR73")]
        [] q.dx_call = m.from /\ m.field = "rpt" ->
             [q |-> again, tx |-> TxIntent(q.dx_call, "Rrpt")]
        [] q.dx_call = m.from /\ m.field \in {"grid", "73"} -> Ignored(q)

(* The contact is over: only the state field changes. *)
on_final(q, m) ==
  IF q.dx_call = m.from /\ m.field \in {"73", "RR73"}
  THEN [q |-> [q EXCEPT !.state = "Idle"], tx |-> NoIntent]
  ELSE Ignored(q)

Handle(q, m) ==
  CASE m.to = "other" -> Ignored(q)
    [] m.to = "us" /\ q.state = "Idle"    -> on_idle(q, m)
    [] m.to = "us" /\ q.state = "Calling" -> on_calling(q, m)
    [] m.to = "us" /\ q.state = "Report"  -> on_report(q, m)
    [] m.to = "us" /\ q.state = "Final"   -> on_final(q, m)

(* Mutant: every accepted decode locks the parity again. *)
process_message_relock(q, m, p, parity_lock_ok) ==
  LET r == Handle(q, m)
  IN  IF parity_lock_ok /\ r.tx # NoIntent THEN [r EXCEPT !.q.peer_parity = p] ELSE r

process_message(q, m, p, parity_lock_ok) ==
  LET r == Handle(q, m)
  IN  IF parity_lock_ok /\ r.q.peer_parity = NoParity /\ r.tx # NoIntent
      THEN [r EXCEPT !.q.peer_parity = p]
      ELSE r

-----------------------------------------------------------------------------
(* The critical sections.  Each action is what one holder of the mutex does  *)
(* between lock() and unlock().                                              *)

VARIABLE qso

(* End of the decode loop body: a slot without an answer costs a retry, and  *)
(* an idle machine with auto-CQ on starts calling again.                     *)
SlotClose(q, had_response) ==
  LET q2 == IF ~had_response THEN on_period_end(q) ELSE q
  IN  IF q2.state = "Idle" /\ q2.auto_cq_enabled THEN call_cq(q2) ELSE q2

FsmInit == qso = new

SetAutoCq   == \E on \in BOOLEAN : qso' = set_auto_cq(qso, on)
CallStation == \E c \in Call : qso' = call_station(qso, c)
Receive     == \E m \in Message, ok \in BOOLEAN : \E p \in SlotOf[m.from] :
                 qso' = process_message(qso, m, p, ok).q
CloseSlot   == \E had \in BOOLEAN : qso' = SlotClose(qso, had)
PickTx      == \E p \in Parity : qso' = pick_tx_intent(qso, p).q
FinishTx    == \E p \in Parity : qso' = finish_self_tx(qso, p)

FsmNext == SetAutoCq \/ CallStation \/ Receive \/ CloseSlot \/ PickTx \/ FinishTx

FsmSpec == FsmInit /\ [][FsmNext]_qso

-----------------------------------------------------------------------------
(* Properties *)

(* The fields of QsoManager stay in their types whatever the threads do; in  *)
(* particular dx_call only ever holds text that fits its String<11>.         *)
QsoTypeOK ==
  qso \in [ state : QsoState,
            dx_call : Text \cup {NoCall},
            tx_report : {"none", "rpt", "Rrpt"},
            retry_count : Nat,
            auto_cq_enabled : BOOLEAN,
            peer_parity : Parity \cup {NoParity},
            self_tx_parity : Parity \cup {NoParity} ]

(* on_period_end never runs a contact past its budget: the counter carried   *)
(* from Report into Final, or left behind by a completed Final, is within    *)
(* the (smaller) budget of the state it is used in.                          *)
RetryBounded ==
  /\ qso.state # "Idle" => qso.retry_count <= RetryLimit(qso)
  /\ qso.state = "Idle" => qso.retry_count <= FINAL_MAX_RETRIES

(* In Report and Final there is a partner and a report to send him: next_tx  *)
(* never puts a message without addressee or report on the air.              *)
PartnerKnown ==
  qso.state \in {"Report", "Final"} => qso.dx_call \in Text /\ qso.tx_report # "none"

(* Nobody steals a contact: while a station is being called or worked, the   *)
(* partner is replaced only by leaving the contact (reset, operator, CQ),    *)
(* never by a message from somebody else.                                    *)
PartnerKept ==
  [][ qso.state # "Idle" /\ qso.dx_call # NoCall /\ qso'.dx_call # qso.dx_call
        => qso'.state \in {"Idle", "Calling"} ]_qso

(* qso.rs:77, "preserved across retries within the same QSO", and qso.rs:201, *)
(* "sticky for the rest of this QSO": while a contact goes on, neither a      *)
(* decode in another slot nor a transmission changes a parity once locked.    *)
ParityKeptInContact ==
  [][ {qso.state, qso'.state} \subseteq {"Report", "Final"}
        => /\ qso.peer_parity # NoParity => qso'.peer_parity = qso.peer_parity
           /\ qso.self_tx_parity # NoParity => qso'.self_tx_parity = qso.self_tx_parity ]_qso

(* qso.rs:127, "Parity locks are per-QSO; the next QSO may be with a peer on *)
(* the opposite slot": when every station keeps to one parity, the machine   *)
(* never answers a partner in the partner's own slot.                        *)
AnswersOutsidePeerSlot ==
  \A c \in Call :
    qso.state \in {"Report", "Final"} /\ qso.peer_parity # NoParity /\ qso.dx_call = Clip[c]
      => preferred_tx_parity(qso) \notin SlotOf[c]

(* qso.rs:233, "Returns Some(TxIntent) if the FSM wants to transmit in       *)
(* response": the reply process_message returns is the one next_tx will hand *)
(* to the transmit thread.                                                   *)
ReplyIsWhatIsSent ==
  \A m \in Message :
    LET r == process_message(qso, m, "Even", TRUE)
    IN  r.tx # NoIntent => next_tx(r.q) = r.tx
=============================================================================
