------------------------------ MODULE QsoProofs ------------------------------
(***************************************************************************)
(* Proofs about the QSO state machine (QsoManager), for every set of         *)
(* callsigns, every cut Clip and every retry budget, and about the three     *)
(* threads that share it (QsoStation).                                       *)
(***************************************************************************)
EXTENDS QsoStation, TLAPS

(* The inductive invariant.  PartnerKnown needs the type of dx_call, and     *)
(* RetryBounded needs the counter to be a number; the three are inductive    *)
(* only together.                                                           *)
QsoInv == QsoTypeOK /\ RetryBounded /\ PartnerKnown

(* The type of a manager record, for the lemmas about single methods. *)
Manager ==
  [ state : QsoState,
    dx_call : Text \cup {NoCall},
    tx_report : {"none", "rpt", "Rrpt"},
    retry_count : Nat,
    auto_cq_enabled : BOOLEAN,
    peer_parity : Parity \cup {NoParity},
    self_tx_parity : Parity \cup {NoParity} ]

(* What QsoInv says of a record. *)
Good(q) ==
  /\ q \in Manager
  /\ q.state # "Idle" => q.retry_count <= RetryLimit(q)
  /\ q.state = "Idle" => q.retry_count <= FINAL_MAX_RETRIES
  /\ q.state \in {"Report", "Final"} => q.dx_call \in Text /\ q.tx_report # "none"

(* QsoInv is Good of the shared record. *)
LEMMA InvIsGood == QsoInv <=> Good(qso)
  BY DEF QsoInv, QsoTypeOK, RetryBounded, PartnerKnown, Good, Manager

(* on_period_end, the only place where the counter grows, keeps a good       *)
(* manager good, whichever of its four exits it takes.                      *)
LEMMA PeriodEndGood ==
  ASSUME NEW q, Good(q)
  PROVE  Good(on_period_end(q))
<1> USE RetryAssumption DEF Good, Manager, QsoState
<1>0. /\ RetryLimit(q) \in Nat /\ q.retry_count \in Nat /\ q.state \in QsoState
     BY DEF RetryLimit
<1>1. CASE q.state = "Idle"
  <2>1. on_period_end(q) = q BY <1>1 DEF on_period_end
  <2> QED BY <2>1
<1>2. CASE q.state # "Idle" /\ q.retry_count < RetryLimit(q)
  <2>1. on_period_end(q) = [q EXCEPT !.retry_count = @ + 1]
       BY <1>0, <1>2 DEF on_period_end
  <2> QED BY <1>0, <1>2, <2>1 DEF RetryLimit
<1>3. CASE q.state = "Final" /\ ~(q.retry_count < RetryLimit(q))
  <2>1. on_period_end(q) = [q EXCEPT !.state = "Idle"]
       BY <1>0, <1>3 DEF on_period_end
  <2> QED BY <1>0, <1>3, <2>1 DEF RetryLimit
<1>4. CASE q.state \in {"Calling", "Report"} /\ ~(q.retry_count < RetryLimit(q))
  <2>1. on_period_end(q) = reset(q) BY <1>0, <1>4 DEF on_period_end
  <2>2. reset(q) \in Manager BY DEF reset, NoParity
  <2>3. reset(q).state = "Idle" /\ reset(q).retry_count = 0 BY DEF reset
  <2> QED BY <2>1, <2>2, <2>3
<1> QED BY <1>0, <1>1, <1>2, <1>3, <1>4

(* Starting a CQ clears partner and counter. *)
LEMMA CallCqGood ==
  ASSUME NEW q, Good(q)
  PROVE  Good(call_cq(q))
<1>1. call_cq(q) \in Manager BY DEF Good, Manager, call_cq, QsoState
<1>2. call_cq(q).state = "Calling" /\ call_cq(q).retry_count = 0
     BY DEF Good, Manager, call_cq
<1> QED BY <1>1, <1>2, RetryAssumption DEF Good, RetryLimit

(* Pinning the parity of a transmission touches neither. *)
LEMMA RecordGood ==
  ASSUME NEW q, Good(q), NEW p \in Parity
  PROVE  Good(record_self_tx(q, p))
  BY DEF Good, Manager, record_self_tx, RetryLimit

(* Opening a contact: the assignments on_idle and on_calling share. *)
LEMMA OpenContact ==
  ASSUME NEW q \in Manager, NEW d \in Text, NEW rpt \in {"rpt", "Rrpt"}
  PROVE  [q EXCEPT !.state = "Report", !.dx_call = d, !.tx_report = rpt, !.retry_count = 0]
            \in Manager
<1> DEFINE q1 == [q EXCEPT !.state = "Report", !.dx_call = d]
           q2 == [q1 EXCEPT !.tx_report = rpt, !.retry_count = 0]
<1>1. q1 \in Manager BY DEF Manager, QsoState
<1>2. q2 \in Manager BY <1>1 DEF Manager
<1>3. [q EXCEPT !.state = "Report", !.dx_call = d, !.tx_report = rpt, !.retry_count = 0] = q2
     BY DEF Manager
<1> QED BY <1>2, <1>3

(* A message from a heard station keeps a good manager good in each of the   *)
(* four states.                                                             *)
LEMMA HandleGood ==
  ASSUME NEW q, Good(q), NEW m \in Message
  PROVE  Good(Handle(q, m).q)
<1> USE DEF Good, Manager, QsoState
<1>0. m.from \in Call /\ m.field \in Field /\ m.to \in {"us", "other"} /\ Clip[m.from] \in Text
     BY CallAssumption DEF Message
<1>1. CASE m.to = "other"
  <2>1. Handle(q, m).q = q BY <1>1 DEF Handle, Ignored
  <2> QED BY <2>1
<1>2. CASE m.to = "us" /\ q.state = "Idle"
  <2> DEFINE r == on_idle(q, m).q
  <2>1. Handle(q, m).q = r BY <1>2 DEF Handle
  <2>2. r \in Manager
    <3>1. r = [q EXCEPT !.state = "Report", !.dx_call = Clip[m.from],
                        !.tx_report = "rpt", !.retry_count = 0]
         BY DEF on_idle
    <3> HIDE DEF r
    <3> QED BY <1>0, <3>1, OpenContact
  <2>3. r.state = "Report" /\ r.retry_count = 0 /\ r.dx_call \in Text /\ r.tx_report = "rpt"
       BY <1>0 DEF on_idle
  <2> QED BY <2>1, <2>2, <2>3, RetryAssumption DEF RetryLimit
<1>3. CASE m.to = "us" /\ q.state = "Calling"
  <2> DEFINE r == on_calling(q, m).q
  <2>1. Handle(q, m).q = r BY <1>3 DEF Handle
  <2>2. CASE q.dx_call \in {NoCall, m.from}
    <3>0. PICK rpt \in {"rpt", "Rrpt"} :
            r = [q EXCEPT !.state = "Report", !.dx_call = Clip[m.from],
                          !.tx_report = rpt, !.retry_count = 0]
         BY <2>2 DEF on_calling
    <3>1. r \in Manager
      <4> HIDE DEF r
      <4> QED BY <1>0, <3>0, OpenContact
    <3>2. /\ r.state = "Report" /\ r.retry_count = 0
          /\ r.dx_call \in Text /\ r.tx_report \in {"rpt", "Rrpt"}
         BY <1>0, <2>2 DEF on_calling
    <3> QED BY <2>1, <3>1, <3>2, RetryAssumption DEF RetryLimit
  <2>3. CASE q.dx_call \notin {NoCall, m.from}
    <3>1. r = q BY <2>3 DEF on_calling, Ignored
    <3> QED BY <2>1, <3>1
  <2> QED BY <2>2, <2>3
<1>4. CASE m.to = "us" /\ q.state = "Report"
  <2> DEFINE r == on_report(q, m).q
  <2>1. Handle(q, m).q = r BY <1>4 DEF Handle
  <2>2. CASE q.dx_call # m.from \/ m.field \in {"grid", "73"}
    <3>1. r = q BY <2>2 DEF on_report, Ignored
    <3> QED BY <2>1, <3>1
  <2>3. CASE q.dx_call = m.from /\ m.field \in {"RRR", "RR73", "Rrpt"}
    <3>1. r = [q EXCEPT !.state = "Final", !.retry_count = 0]
         BY <2>3 DEF on_report
    <3> HIDE DEF r
    <3>2. r \in Manager BY <3>1
    <3>3. /\ r.state = "Final" /\ r.retry_count = 0
          /\ r.dx_call = q.dx_call /\ r.tx_report = q.tx_report
         BY <3>1
    <3> QED BY <1>4, <2>1, <3>2, <3>3, RetryAssumption DEF RetryLimit
  <2>4. CASE q.dx_call = m.from /\ m.field = "rpt"
    <3>1. r = [q EXCEPT !.tx_report = "Rrpt"] BY <2>4 DEF on_report
    <3> HIDE DEF r
    <3>2. r \in Manager BY <3>1
    <3>3. /\ r.state = "Report" /\ r.retry_count = q.retry_count
          /\ r.dx_call = q.dx_call /\ r.tx_report = "Rrpt"
         BY <1>4, <3>1
    <3> QED BY <1>4, <2>1, <3>2, <3>3 DEF RetryLimit
  <2> QED BY <1>0, <2>2, <2>3, <2>4 DEF Field
<1>5. CASE m.to = "us" /\ q.state = "Final"
  <2> DEFINE r == on_final(q, m).q
  <2>1. Handle(q, m).q = r BY <1>5 DEF Handle
  <2>2. CASE q.dx_call = m.from /\ m.field \in {"73", "RR73"}
    <3>1. r = [q EXCEPT !.state = "Idle"] BY <2>2 DEF on_final
    <3> HIDE DEF r
    <3>2. r \in Manager BY <3>1
    <3>3. r.state = "Idle" /\ r.retry_count = q.retry_count BY <3>1
    <3> QED BY <1>5, <2>1, <3>2, <3>3 DEF RetryLimit
  <2>3. CASE ~(q.dx_call = m.from /\ m.field \in {"73", "RR73"})
    <3>1. r = q BY <2>3 DEF on_final, Ignored
    <3> QED BY <2>1, <3>1
  <2> QED BY <2>2, <2>3
<1> QED BY <1>0, <1>1, <1>2, <1>3, <1>4, <1>5

(* So does the whole of process_message, parity lock included. *)
LEMMA ProcessMessageGood ==
  ASSUME NEW q, Good(q), NEW m \in Message, NEW p \in Parity, NEW ok \in BOOLEAN
  PROVE  Good(process_message(q, m, p, ok).q)
<1> DEFINE h == Handle(q, m)
           r == process_message(q, m, p, ok).q
<1>1. Good(h.q) BY HandleGood
<1>2. r = h.q \/ r = [h.q EXCEPT !.peer_parity = p]
  <2>1. h.q \in Manager BY <1>1 DEF Good
  <2>2. h = [q |-> h.q, tx |-> h.tx]
       BY DEF Handle, Ignored, on_idle, on_calling, on_report, on_final, Message, Good,
              Manager, QsoState, Field
  <2> QED BY <2>1, <2>2 DEF process_message
<1>3. CASE r = h.q BY <1>1, <1>3
<1>4. CASE r = [h.q EXCEPT !.peer_parity = p]
  <2>1. /\ r.state = h.q.state /\ r.retry_count = h.q.retry_count
        /\ r.dx_call = h.q.dx_call /\ r.tx_report = h.q.tx_report
       BY <1>1, <1>4 DEF Good, Manager
  <2>2. r \in Manager BY <1>1, <1>4 DEF Good, Manager
  <2> QED BY <1>1, <2>1, <2>2 DEF Good, RetryLimit
<1> QED BY <1>2, <1>3, <1>4

(* The end of a slot: a retry, then perhaps a new CQ. *)
LEMMA SlotCloseGood ==
  ASSUME NEW q, Good(q), NEW had \in BOOLEAN
  PROVE  Good(SlotClose(q, had))
<1> DEFINE q2 == IF ~had THEN on_period_end(q) ELSE q
<1>1. Good(q2) BY PeriodEndGood
<1>2. Good(call_cq(q2)) BY <1>1, CallCqGood
<1> QED BY <1>1, <1>2 DEF SlotClose

(* Polling for something to send may start a CQ. *)
LEMMA PickGood ==
  ASSUME NEW q, Good(q), NEW p \in Parity
  PROVE  Good(pick_tx_intent(q, p).q)
  BY CallCqGood DEF pick_tx_intent

(* The operator calls a station: its callsign is cut to fit. *)
LEMMA CallStationGood ==
  ASSUME NEW q, Good(q), NEW c \in Call
  PROVE  Good(call_station(q, c))
<1> DEFINE r == call_station(q, c)
<1>1. r \in Manager BY CallAssumption DEF Good, Manager, call_station, QsoState
<1>2. r.state = "Calling" /\ r.retry_count = 0 BY DEF Good, Manager, call_station
<1> QED BY <1>1, <1>2, RetryAssumption DEF Good, RetryLimit

(* The menu switch leaves the contact alone. *)
LEMMA SetAutoCqGood ==
  ASSUME NEW q, Good(q), NEW on \in BOOLEAN
  PROVE  Good(set_auto_cq(q, on))
<1> DEFINE r == set_auto_cq(q, on)
<1>1. r \in Manager BY DEF Good, Manager, set_auto_cq
<1>2. /\ r.state = q.state /\ r.retry_count = q.retry_count
      /\ r.dx_call = q.dx_call /\ r.tx_report = q.tx_report
     BY DEF Good, Manager, set_auto_cq
<1> QED BY <1>1, <1>2 DEF Good, RetryLimit

(* Every critical section of every thread preserves the inductive invariant. *)
LEMMA StepGood ==
  ASSUME Good(qso), FsmNext
  PROVE  Good(qso')
<1>1. CASE SetAutoCq BY <1>1, SetAutoCqGood DEF SetAutoCq
<1>2. CASE CallStation BY <1>2, CallStationGood DEF CallStation
<1>3. CASE Receive
  <2>1. PICK m \in Message, ok \in BOOLEAN : \E p \in SlotOf[m.from] :
               qso' = process_message(qso, m, p, ok).q
       BY <1>3 DEF Receive
  <2>2. SlotOf[m.from] \subseteq Parity BY SlotAssumption DEF Message
  <2> QED BY <2>1, <2>2, ProcessMessageGood
<1>4. CASE CloseSlot BY <1>4, SlotCloseGood DEF CloseSlot
<1>5. CASE PickTx BY <1>5, PickGood DEF PickTx
<1>6. CASE FinishTx BY <1>6, RecordGood, PeriodEndGood DEF FinishTx, finish_self_tx
<1> QED BY <1>1, <1>2, <1>3, <1>4, <1>5, <1>6 DEF FsmNext

(* Type correctness, the retry budget and the known partner hold in every    *)
(* reachable state, however the threads interleave their critical sections.  *)
THEOREM FsmInvariant == FsmSpec => [](QsoTypeOK /\ RetryBounded /\ PartnerKnown)
<1>1. FsmInit => QsoInv
     BY RetryAssumption
        DEF FsmInit, new, QsoInv, QsoTypeOK, RetryBounded, PartnerKnown, QsoState, RetryLimit,
            Parity, NoParity
<1>2. QsoInv /\ [FsmNext]_qso => QsoInv'
  <2> SUFFICES ASSUME QsoInv, [FsmNext]_qso PROVE QsoInv'
       OBVIOUS
  <2>1. CASE UNCHANGED qso
       BY <2>1 DEF QsoInv, QsoTypeOK, RetryBounded, PartnerKnown, RetryLimit
  <2>2. CASE FsmNext
    <3>1. Good(qso') BY <2>2, InvIsGood, StepGood
    <3> QED BY <3>1 DEF QsoInv, QsoTypeOK, RetryBounded, PartnerKnown, Good, Manager, RetryLimit
  <2> QED BY <2>1, <2>2
<1> QED BY <1>1, <1>2, PTL DEF FsmSpec, QsoInv

(* A manager that reports or confirms knows whom it talks to and what it      *)
(* sends: there is no path into Report or Final without a partner.           *)
THEOREM FsmPartnerKnown == FsmSpec => []PartnerKnown
  BY FsmInvariant, PTL

-----------------------------------------------------------------------------
(* The two action properties, first as relations between the record before   *)
(* and the record after a method.                                            *)

KeepsPartner(q, r) ==
  q.state # "Idle" /\ q.dx_call # NoCall /\ r.dx_call # q.dx_call
    => r.state \in {"Idle", "Calling"}

KeepsLock(q, r) ==
  (\/ q.peer_parity # NoParity /\ r.peer_parity # q.peer_parity
   \/ q.self_tx_parity # NoParity /\ r.self_tx_parity # q.self_tx_parity)
    => /\ q.state \in {"Calling", "Report"}
       /\ r.peer_parity = NoParity
       /\ r.self_tx_parity = NoParity
       /\ r.dx_call = NoCall

(* The period end either keeps both fields or resets the contact. *)
LEMMA PeriodEndKeeps ==
  ASSUME NEW q \in Manager
  PROVE  LET r == on_period_end(q) IN
         /\ r \in Manager
         /\ \/ /\ r.dx_call = q.dx_call /\ r.peer_parity = q.peer_parity
               /\ r.self_tx_parity = q.self_tx_parity
            \/ q.state \in {"Calling", "Report"} /\ r = reset(q)
<1> USE RetryAssumption DEF Manager, QsoState
<1>0. RetryLimit(q) \in Nat /\ q.retry_count \in Nat BY DEF RetryLimit
<1>1. CASE q.state = "Idle"
  <2>1. on_period_end(q) = q BY <1>1 DEF on_period_end
  <2> QED BY <2>1
<1>2. CASE q.state # "Idle" /\ q.retry_count < RetryLimit(q)
  <2>1. on_period_end(q) = [q EXCEPT !.retry_count = @ + 1] BY <1>0, <1>2 DEF on_period_end
  <2> QED BY <2>1
<1>3. CASE q.state = "Final" /\ ~(q.retry_count < RetryLimit(q))
  <2>1. on_period_end(q) = [q EXCEPT !.state = "Idle"] BY <1>0, <1>3 DEF on_period_end
  <2> QED BY <2>1
<1>4. CASE q.state \in {"Calling", "Report"} /\ ~(q.retry_count < RetryLimit(q))
  <2>1. on_period_end(q) = reset(q) BY <1>0, <1>4 DEF on_period_end
  <2>2. reset(q) \in Manager BY DEF reset, NoParity
  <2> QED BY <1>4, <2>1, <2>2
<1> QED BY <1>0, <1>1, <1>2, <1>3, <1>4

(* The end of a slot replaces the partner only by giving him up. *)
LEMMA SlotCloseKeeps ==
  ASSUME NEW q \in Manager, NEW had \in BOOLEAN
  PROVE  KeepsPartner(q, SlotClose(q, had)) /\ KeepsLock(q, SlotClose(q, had))
<1> DEFINE q2 == IF ~had THEN on_period_end(q) ELSE q
           r  == SlotClose(q, had)
<1>1. /\ q2 \in Manager
      /\ \/ /\ q2.dx_call = q.dx_call /\ q2.peer_parity = q.peer_parity
            /\ q2.self_tx_parity = q.self_tx_parity
         \/ q.state \in {"Calling", "Report"} /\ q2 = reset(q)
     BY PeriodEndKeeps
<1>2. /\ r = q2 \/ (r = call_cq(q2) /\ q2.state = "Idle")
     BY DEF SlotClose
<1>3. ASSUME q2 = reset(q)
      PROVE  /\ q2.state = "Idle" /\ q2.dx_call = NoCall
             /\ q2.peer_parity = NoParity /\ q2.self_tx_parity = NoParity
     BY <1>3 DEF reset, Manager
<1>4. /\ call_cq(q2).state = "Calling" /\ call_cq(q2).dx_call = NoCall
      /\ call_cq(q2).peer_parity = q2.peer_parity
      /\ call_cq(q2).self_tx_parity = q2.self_tx_parity
     BY <1>1 DEF call_cq, Manager
<1>5. KeepsPartner(q, r) /\ KeepsLock(q, r)
  <2> HIDE DEF q2, r
  <2> QED BY <1>1, <1>2, <1>3, <1>4 DEF KeepsPartner, KeepsLock
<1> QED BY <1>5

(* The end of a transmission does the same. *)
LEMMA FinishKeeps ==
  ASSUME NEW q \in Manager, NEW p \in Parity
  PROVE  KeepsPartner(q, finish_self_tx(q, p)) /\ KeepsLock(q, finish_self_tx(q, p))
<1> DEFINE q2 == record_self_tx(q, p)
           r  == finish_self_tx(q, p)
<1>1. /\ q2 \in Manager /\ q2.dx_call = q.dx_call /\ q2.peer_parity = q.peer_parity
      /\ q2.state = q.state /\ (q.self_tx_parity # NoParity => q2.self_tx_parity = q.self_tx_parity)
     BY DEF record_self_tx, Manager
<1>2. \/ /\ r.dx_call = q2.dx_call /\ r.peer_parity = q2.peer_parity
         /\ r.self_tx_parity = q2.self_tx_parity
      \/ q2.state \in {"Calling", "Report"} /\ r = reset(q2)
     BY <1>1, PeriodEndKeeps DEF finish_self_tx
<1>3. /\ reset(q2).state = "Idle" /\ reset(q2).dx_call = NoCall
      /\ reset(q2).peer_parity = NoParity /\ reset(q2).self_tx_parity = NoParity
     BY <1>1 DEF reset, Manager
<1>4. KeepsPartner(q, r) /\ KeepsLock(q, r)
  <2> HIDE DEF q2, r
  <2> QED BY <1>1, <1>2, <1>3 DEF KeepsPartner, KeepsLock
<1> QED BY <1>4

(* No handler replaces a partner or touches the lock. *)
LEMMA HandleKeeps ==
  ASSUME NEW q \in Manager, NEW m \in Message
  PROVE  LET r == Handle(q, m).q IN
         /\ r.peer_parity = q.peer_parity /\ r.self_tx_parity = q.self_tx_parity
         /\ KeepsPartner(q, r)
<1> USE DEF Manager, QsoState
<1>0. m.from \in Call /\ m.field \in Field /\ m.to \in {"us", "other"} BY DEF Message
<1>1. CASE m.to = "other" \/ q.state = "Idle"
  <2>1. Handle(q, m).q = q \/ (q.state = "Idle" /\ Handle(q, m).q = on_idle(q, m).q)
       BY <1>0, <1>1 DEF Handle, Ignored
  <2>2. /\ on_idle(q, m).q.peer_parity = q.peer_parity
        /\ on_idle(q, m).q.self_tx_parity = q.self_tx_parity
       BY DEF on_idle
  <2> QED BY <2>1, <2>2 DEF KeepsPartner
<1>2. CASE m.to = "us" /\ q.state = "Calling"
  <2> DEFINE r == on_calling(q, m).q
  <2>1. Handle(q, m).q = r BY <1>2 DEF Handle
  <2>2. r = q \/ (q.dx_call \in {NoCall, m.from} /\ r.dx_call = Clip[m.from])
       BY DEF on_calling, Ignored
  <2>3. r.peer_parity = q.peer_parity /\ r.self_tx_parity = q.self_tx_parity
       BY DEF on_calling, Ignored
  <2>4. q.dx_call = m.from /\ m.from # NoCall => Clip[m.from] = m.from
       BY <1>0, CallAssumption
  <2> HIDE DEF r
  <2> QED BY <2>1, <2>2, <2>3, <2>4 DEF KeepsPartner
<1>3. CASE m.to = "us" /\ q.state = "Report"
  <2> DEFINE r == on_report(q, m).q
  <2>1. Handle(q, m).q = r BY <1>3 DEF Handle
  <2>2. /\ r.dx_call = q.dx_call /\ r.peer_parity = q.peer_parity
        /\ r.self_tx_parity = q.self_tx_parity
       BY <1>0 DEF on_report, Ignored, Field
  <2> QED BY <2>1, <2>2 DEF KeepsPartner
<1>4. CASE m.to = "us" /\ q.state = "Final"
  <2> DEFINE r == on_final(q, m).q
  <2>1. Handle(q, m).q = r BY <1>4 DEF Handle
  <2>2. /\ r.dx_call = q.dx_call /\ r.peer_parity = q.peer_parity
        /\ r.self_tx_parity = q.self_tx_parity
       BY DEF on_final, Ignored
  <2> QED BY <2>1, <2>2 DEF KeepsPartner
<1> QED BY <1>0, <1>1, <1>2, <1>3, <1>4

(* process_message locks a parity only where none was locked. *)
LEMMA ReceiveKeeps ==
  ASSUME NEW q, Good(q), NEW m \in Message, NEW p \in Parity, NEW ok \in BOOLEAN
  PROVE  LET r == process_message(q, m, p, ok).q IN KeepsPartner(q, r) /\ KeepsLock(q, r)
<1> DEFINE h == Handle(q, m)
           r == process_message(q, m, p, ok).q
<1>1. h.q \in Manager /\ q \in Manager BY HandleGood DEF Good
<1>2. /\ h.q.peer_parity = q.peer_parity /\ h.q.self_tx_parity = q.self_tx_parity
      /\ KeepsPartner(q, h.q)
     BY <1>1, HandleKeeps
<1>3. \/ r = h.q
      \/ r = [h.q EXCEPT !.peer_parity = p] /\ h.q.peer_parity = NoParity
  <2>1. h = [q |-> h.q, tx |-> h.tx]
       BY <1>1 DEF Handle, Ignored, on_idle, on_calling, on_report, on_final, Message,
                   Manager, QsoState, Field
  <2> QED BY <1>1, <2>1 DEF process_message
<1>4. CASE r = h.q BY <1>2, <1>4 DEF KeepsPartner, KeepsLock
<1>5. CASE r = [h.q EXCEPT !.peer_parity = p] /\ h.q.peer_parity = NoParity
  <2>1. /\ r.state = h.q.state /\ r.dx_call = h.q.dx_call
        /\ r.self_tx_parity = h.q.self_tx_parity
       BY <1>1, <1>5 DEF Manager
  <2> QED BY <1>2, <1>5, <2>1 DEF KeepsPartner, KeepsLock
<1> QED BY <1>3, <1>4, <1>5

(* Hence every critical section keeps partner and lock. *)
LEMMA StepKeeps ==
  ASSUME Good(qso), FsmNext
  PROVE  KeepsPartner(qso, qso') /\ KeepsLock(qso, qso')
<1>0. qso \in Manager BY DEF Good
<1>1. CASE SetAutoCq
  <2>1. /\ qso'.dx_call = qso.dx_call /\ qso'.peer_parity = qso.peer_parity
        /\ qso'.self_tx_parity = qso.self_tx_parity
       BY <1>0, <1>1 DEF SetAutoCq, set_auto_cq, Manager
  <2> QED BY <2>1 DEF KeepsPartner, KeepsLock
<1>2. CASE CallStation
  <2>1. /\ qso'.state = "Calling" /\ qso'.peer_parity = qso.peer_parity
        /\ qso'.self_tx_parity = qso.self_tx_parity
       BY <1>0, <1>2 DEF CallStation, call_station, Manager
  <2> QED BY <2>1 DEF KeepsPartner, KeepsLock
<1>3. CASE Receive
  <2>1. PICK m \in Message, ok \in BOOLEAN : \E p \in SlotOf[m.from] :
               qso' = process_message(qso, m, p, ok).q
       BY <1>3 DEF Receive
  <2>2. SlotOf[m.from] \subseteq Parity BY SlotAssumption DEF Message
  <2> QED BY <2>1, <2>2, ReceiveKeeps
<1>4. CASE CloseSlot BY <1>0, <1>4, SlotCloseKeeps DEF CloseSlot
<1>5. CASE PickTx
  <2>1. \/ qso' = qso
        \/ /\ qso.state = "Idle" /\ qso'.peer_parity = qso.peer_parity
           /\ qso'.self_tx_parity = qso.self_tx_parity
       BY <1>0, <1>5 DEF PickTx, pick_tx_intent, call_cq, Manager
  <2> QED BY <2>1 DEF KeepsPartner, KeepsLock
<1>6. CASE FinishTx BY <1>0, <1>6, FinishKeeps DEF FinishTx
<1> QED BY <1>1, <1>2, <1>3, <1>4, <1>5, <1>6 DEF FsmNext

(* No message from a third station ever takes over a contact. *)
THEOREM FsmPartnerKept == FsmSpec => PartnerKept
<1>1. QsoInv /\ [FsmNext]_qso
        => [qso.state # "Idle" /\ qso.dx_call # NoCall /\ qso'.dx_call # qso.dx_call
              => qso'.state \in {"Idle", "Calling"}]_qso
     BY InvIsGood, StepKeeps DEF KeepsPartner
<1>2. FsmSpec => []QsoInv BY FsmInvariant, PTL DEF QsoInv
<1> QED BY <1>1, <1>2, PTL DEF FsmSpec, PartnerKept

(* Only reset clears a parity, and reset leaves no partner: within a contact *)
(* the parities of finish_self_tx and process_message stay locked.           *)
THEOREM FsmParityKeptInContact == FsmSpec => ParityKeptInContact
<1> DEFINE Kept == {qso.state, qso'.state} \subseteq {"Report", "Final"}
             => /\ qso.peer_parity # NoParity => qso'.peer_parity = qso.peer_parity
                /\ qso.self_tx_parity # NoParity => qso'.self_tx_parity = qso.self_tx_parity
<1>1. ASSUME QsoInv, QsoInv', FsmNext PROVE Kept
  <2>1. KeepsLock(qso, qso') BY <1>1, InvIsGood, StepKeeps
  <2>2. qso'.state \in {"Report", "Final"} => qso'.dx_call # NoCall
       BY <1>1, CallAssumption DEF QsoInv, PartnerKnown
  <2>3. {qso.state, qso'.state} \subseteq {"Report", "Final"}
          => qso'.state \in {"Report", "Final"}
       OBVIOUS
  <2> QED BY <2>1, <2>2, <2>3 DEF KeepsLock
<1>2. QsoInv /\ QsoInv' /\ [FsmNext]_qso => [Kept]_qso BY <1>1
<1>3. FsmSpec => []QsoInv BY FsmInvariant, PTL DEF QsoInv
<1> QED BY <1>2, <1>3, PTL DEF FsmSpec, ParityKeptInContact
-----------------------------------------------------------------------------
(* The shared manager under the three threads of QsoStation. *)

(* What the audio thread's place in do_tx_cycle says of the radio and the    *)
(* microphone: the strengthening that makes PttBracket inductive.            *)
Bracket ==
  /\ txpc \in TxSteps
  /\ txpc \in {"synth", "play", "unkey", "abort"} => ptt = TRUE
  /\ txpc \notin {"synth", "play", "unkey", "abort"} => ptt = FALSE
  /\ txpc \in {"rx", "pack", "mute", "finish"} => gate = TRUE
  /\ txpc \notin {"rx", "pack", "mute", "finish"} => gate = FALSE

(* The station starts receiving, unkeyed, with the gate open. *)
LEMMA BracketInit == StationInit => Bracket
  BY DEF StationInit, Bracket, TxSteps

(* Only do_tx_cycle moves the thread, the key and the gate. *)
LEMMA BracketStep == Bracket /\ [StationNext]_vars => Bracket'
<1> SUFFICES ASSUME Bracket, [StationNext]_vars PROVE Bracket'
     OBVIOUS
<1> USE DEF Bracket, TxSteps, audioVars
<1>1. CASE UNCHANGED vars BY <1>1 DEF vars
<1>2. CASE ApplySyncReset BY <1>2 DEF ApplySyncReset
<1>3. CASE PickIntent BY <1>3 DEF PickIntent
<1>4. CASE SlotEnd BY <1>4 DEF SlotEnd
<1>5. CASE WindowCloses BY <1>5 DEF WindowCloses
<1>6. CASE DoTxCycle
  <2> USE DEF TxStep
  <2>1. CASE Pack BY <2>1 DEF Pack
  <2>2. CASE Mute BY <2>2 DEF Mute
  <2>3. CASE Key BY <2>3 DEF Key
  <2>4. CASE Synth BY <2>4 DEF Synth
  <2>5. CASE Abort BY <2>5 DEF Abort
  <2>6. CASE AbortUnmute BY <2>6 DEF AbortUnmute
  <2>7. CASE Play BY <2>7 DEF Play
  <2>8. CASE Unkey BY <2>8 DEF Unkey
  <2>9. CASE Unmute BY <2>9 DEF Unmute
  <2>10. CASE Finish BY <2>10 DEF Finish
  <2> QED BY <1>6, <2>1, <2>2, <2>3, <2>4, <2>5, <2>6, <2>7, <2>8, <2>9, <2>10 DEF DoTxCycle
<1>7. CASE TakeSlot BY <1>7 DEF TakeSlot
<1>8. CASE Decode BY <1>8 DEF Decode
<1>9. CASE EndOfSlot BY <1>9 DEF EndOfSlot
<1>10. CASE PressCall BY <1>10 DEF PressCall
<1>11. CASE PressSync BY <1>11 DEF PressSync
<1>12. CASE MenuAutoCq BY <1>12 DEF MenuAutoCq
<1>13. CASE ToggleDemo BY <1>13 DEF ToggleDemo
<1> QED BY <1>1, <1>2, <1>3, <1>4, <1>5, <1>6, <1>7, <1>8, <1>9, <1>10, <1>11, <1>12, <1>13
        DEF StationNext

(* On every path through do_tx_cycle the radio is keyed only while the       *)
(* microphone is muted, and both are restored before the thread goes back to *)
(* receiving.                                                                *)
THEOREM StationPttBracket == StationSpec => []PttBracket
<1>1. Bracket => PttBracket BY DEF Bracket, PttBracket, TxSteps
<1> QED BY <1>1, BracketInit, BracketStep, PTL DEF StationSpec

(* The slot indices the threads hand to the manager are parities.            *)
SlotTypes ==
  /\ txslot \in Parity /\ rx_slot \in Parity /\ wav_idx \in Parity
  /\ published \in Parity \cup {NoParity}
  /\ slots \in Seq(Parity)
  /\ had_response \in BOOLEAN

(* All slot indices start even. *)
LEMMA SlotTypesInit == StationInit => SlotTypes
<1> SUFFICES ASSUME StationInit PROVE SlotTypes
     OBVIOUS
<1>1. slots \in Seq(Parity) BY DEF StationInit
<1>2. had_response \in BOOLEAN BY DEF StationInit
<1>3. /\ txslot \in Parity /\ rx_slot \in Parity /\ wav_idx \in Parity
      /\ published \in Parity \cup {NoParity}
     BY DEF StationInit, Parity
<1> QED BY <1>1, <1>2, <1>3 DEF SlotTypes

(* SlotTypes is preserved: indices are copied from wav_idx to the queue and  *)
(* to CAPTURE_SLOT, and from there to the decode task and to do_tx_cycle.    *)
LEMMA SlotTypesStep == SlotTypes /\ [StationNext]_vars => SlotTypes'
<1> SUFFICES ASSUME SlotTypes, [StationNext]_vars PROVE SlotTypes'
     OBVIOUS
<1> USE DEF SlotTypes, audioVars, decodeVars
<1>1. CASE UNCHANGED vars BY <1>1 DEF vars
<1>2. CASE ApplySyncReset
  <2>1. PICK n \in 0..Len(slots) : slots' = SubSeq(slots, 1, n) BY <1>2 DEF ApplySyncReset
  <2>2. slots' \in Seq(Parity) BY <2>1
  <2> QED BY <1>2, <2>2 DEF ApplySyncReset
<1>3. CASE PickIntent BY <1>3 DEF PickIntent, NoParity
<1>4. CASE SlotEnd
  <2>1. opposite(wav_idx) \in Parity BY DEF opposite, Parity
  <2>2. slots' \in Seq(Parity) BY <1>4 DEF SlotEnd
  <2>3. published' \in Parity \cup {NoParity} BY <1>4, <2>1 DEF SlotEnd
  <2> QED BY <1>4, <2>1, <2>2, <2>3 DEF SlotEnd
<1>5. CASE WindowCloses BY <1>5 DEF WindowCloses
<1>6. CASE DoTxCycle
     BY <1>6 DEF DoTxCycle, TxStep, Pack, Mute, Key, Synth, Abort, AbortUnmute, Play, Unkey,
                 Unmute, Finish
<1>7. CASE TakeSlot
  <2>1. Head(slots) \in Parity /\ Tail(slots) \in Seq(Parity) BY <1>7 DEF TakeSlot
  <2> QED BY <1>7, <2>1 DEF TakeSlot
<1>8. CASE Decode
  <2>1. had_response' \in BOOLEAN BY <1>8 DEF Decode
  <2> QED BY <1>8, <2>1 DEF Decode
<1>9. CASE EndOfSlot BY <1>9 DEF EndOfSlot
<1>10. CASE PressCall BY <1>10 DEF PressCall
<1>11. CASE PressSync BY <1>11 DEF PressSync
<1>12. CASE MenuAutoCq BY <1>12 DEF MenuAutoCq
<1>13. CASE ToggleDemo BY <1>13 DEF ToggleDemo
<1> QED BY <1>1, <1>2, <1>3, <1>4, <1>5, <1>6, <1>7, <1>8, <1>9, <1>10, <1>11, <1>12, <1>13
        DEF StationNext

(* Each step of the station is a critical section of QsoManager or leaves    *)
(* the manager alone.                                                        *)
LEMMA StationStepIsFsmStep ==
  ASSUME Good(qso), SlotTypes, [StationNext]_vars
  PROVE  [FsmNext]_qso
<1> USE DEF audioVars, decodeVars
<1>1. CASE UNCHANGED vars BY <1>1 DEF vars
<1>2. CASE ApplySyncReset BY <1>2 DEF ApplySyncReset
<1>3. CASE PickIntent
  <2>1. published \in Parity BY <1>3 DEF PickIntent, SlotTypes
  <2> QED BY <1>3, <2>1 DEF PickIntent, FsmNext, PickTx
<1>4. CASE SlotEnd BY <1>4 DEF SlotEnd
<1>5. CASE WindowCloses BY <1>5 DEF WindowCloses
<1>6. CASE DoTxCycle
  <2>1. CASE Finish BY <2>1 DEF Finish, FsmNext, FinishTx, SlotTypes
  <2>2. CASE ~Finish
       BY <1>6, <2>2 DEF DoTxCycle, Pack, Mute, Key, Synth, Abort, AbortUnmute, Play, Unkey, Unmute
  <2> QED BY <2>1, <2>2
<1>7. CASE TakeSlot BY <1>7 DEF TakeSlot
<1>8. CASE Decode
  <2>1. PICK m \in Message, ok \in BOOLEAN :
            rx_slot \in SlotOf[m.from] /\ qso' = process_message(qso, m, rx_slot, ok).q
       BY <1>8 DEF Decode
  <2> QED BY <2>1 DEF FsmNext, Receive
<1>9. CASE EndOfSlot BY <1>9 DEF EndOfSlot, FsmNext, CloseSlot, SlotTypes
<1>10. CASE PressCall BY <1>10 DEF PressCall, FsmNext, CallStation
<1>11. CASE PressSync BY <1>11 DEF PressSync
<1>12. CASE MenuAutoCq BY <1>12 DEF MenuAutoCq, FsmNext, SetAutoCq
<1>13. CASE ToggleDemo BY <1>13 DEF ToggleDemo
<1> QED BY <1>1, <1>2, <1>3, <1>4, <1>5, <1>6, <1>7, <1>8, <1>9, <1>10, <1>11, <1>12, <1>13
        DEF StationNext

(* The three threads of BootMode::Qso implement the sequential machine of    *)
(* qso.rs, for every bound on the queue, the messages and the buttons; every *)
(* property proved of FsmSpec therefore holds of the station.                *)
THEOREM StationImplementsFsm == StationSpec => ImplementsFsm
<1>1. StationInit => FsmInit BY DEF StationInit
<1>2. FsmInit => Good(qso)
     BY RetryAssumption DEF FsmInit, new, Good, Manager, QsoState, Parity, NoParity, RetryLimit
<1>3. Good(qso) /\ SlotTypes /\ [StationNext]_vars => [FsmNext]_qso
     BY StationStepIsFsmStep
<1>4. Good(qso) /\ [FsmNext]_qso => Good(qso)'
  <2>1. ASSUME Good(qso), UNCHANGED qso PROVE Good(qso)'
       BY <2>1 DEF Good, RetryLimit
  <2> QED BY <2>1, StepGood
<1> QED BY <1>1, <1>2, <1>3, <1>4, SlotTypesInit, SlotTypesStep, PTL
        DEF StationSpec, ImplementsFsm, FsmSpec

(* Consequence: the retry budget, the known partner and the types of the     *)
(* manager hold in the running station.                                      *)
THEOREM StationInvariant == StationSpec => [](QsoTypeOK /\ RetryBounded /\ PartnerKnown)
  BY StationImplementsFsm, FsmInvariant, PTL DEF ImplementsFsm

-----------------------------------------------------------------------------
(* What StationTypeOK says beyond the manager, the slot indices and the      *)
(* place in do_tx_cycle.                                                     *)
Flags == /\ early \in BOOLEAN /\ gate \in BOOLEAN /\ ptt \in BOOLEAN
         /\ sync_reset \in BOOLEAN /\ demo \in BOOLEAN
Counters == /\ Len(slots) <= SlotQueue
            /\ dpc \in {"wait", "decode"}
            /\ messages \in 0..MaxMessages /\ presses \in 0..MaxPresses

(* The flags are only ever set, cleared, toggled or copied. *)
LEMMA FlagsStep == Flags /\ [StationNext]_vars => Flags'
<1> SUFFICES ASSUME Flags, [StationNext]_vars PROVE Flags'
     OBVIOUS
<1> USE DEF Flags, audioVars, uiVars
<1>1. CASE UNCHANGED vars BY <1>1 DEF vars
<1>2. CASE ApplySyncReset BY <1>2 DEF ApplySyncReset
<1>3. CASE PickIntent BY <1>3 DEF PickIntent
<1>4. CASE SlotEnd BY <1>4 DEF SlotEnd
<1>5. CASE WindowCloses BY <1>5 DEF WindowCloses
<1>6. CASE DoTxCycle
     BY <1>6 DEF DoTxCycle, TxStep, Pack, Mute, Key, Synth, Abort, AbortUnmute, Play, Unkey,
                 Unmute, Finish
<1>7. CASE TakeSlot BY <1>7 DEF TakeSlot
<1>8. CASE Decode BY <1>8 DEF Decode
<1>9. CASE EndOfSlot BY <1>9 DEF EndOfSlot
<1>10. CASE PressCall BY <1>10 DEF PressCall
<1>11. CASE PressSync BY <1>11 DEF PressSync, reset_slot_boundary
<1>12. CASE MenuAutoCq BY <1>12 DEF MenuAutoCq
<1>13. CASE ToggleDemo
  <2>1. sync_reset' \in BOOLEAN BY <1>13 DEF ToggleDemo, reset_slot_boundary
  <2>2. demo' \in BOOLEAN BY <1>13 DEF ToggleDemo
  <2> QED BY <1>13, <2>1, <2>2 DEF ToggleDemo
<1> QED BY <1>1, <1>2, <1>3, <1>4, <1>5, <1>6, <1>7, <1>8, <1>9, <1>10, <1>11, <1>12, <1>13
        DEF StationNext

(* The queue grows only while it has room, and the bounds count down. *)
LEMMA CountersStep == SlotTypes /\ Counters /\ [StationNext]_vars => Counters'
<1> SUFFICES ASSUME SlotTypes, Counters, [StationNext]_vars PROVE Counters'
     OBVIOUS
<1> USE StationAssumption DEF Counters, SlotTypes, decodeVars, uiVars
<1>1. CASE UNCHANGED vars BY <1>1 DEF vars
<1>2. CASE ApplySyncReset
  <2>1. PICK n \in 0..Len(slots) : slots' = SubSeq(slots, 1, n) BY <1>2 DEF ApplySyncReset
  <2>2. Len(slots') = n /\ Len(slots) \in Nat BY <2>1
  <2> QED BY <1>2, <2>1, <2>2 DEF ApplySyncReset
<1>3. CASE PickIntent BY <1>3 DEF PickIntent
<1>4. CASE SlotEnd
  <2>1. Len(slots') = Len(slots) + 1 /\ Len(slots) \in Nat BY <1>4 DEF SlotEnd
  <2> QED BY <1>4, <2>1 DEF SlotEnd
<1>5. CASE WindowCloses BY <1>5 DEF WindowCloses
<1>6. CASE DoTxCycle
     BY <1>6 DEF DoTxCycle, TxStep, Pack, Mute, Key, Synth, Abort, AbortUnmute, Play, Unkey,
                 Unmute, Finish
<1>7. CASE TakeSlot
  <2>1. Len(slots') = Len(slots) - 1 /\ Len(slots) \in Nat BY <1>7 DEF TakeSlot
  <2> QED BY <1>7, <2>1 DEF TakeSlot
<1>8. CASE Decode BY <1>8 DEF Decode
<1>9. CASE EndOfSlot BY <1>9 DEF EndOfSlot
<1> USE DEF Press
<1>10. CASE PressCall BY <1>10 DEF PressCall
<1>11. CASE PressSync BY <1>11 DEF PressSync
<1>12. CASE MenuAutoCq BY <1>12 DEF MenuAutoCq
<1>13. CASE ToggleDemo BY <1>13 DEF ToggleDemo
<1> QED BY <1>1, <1>2, <1>3, <1>4, <1>5, <1>6, <1>7, <1>8, <1>9, <1>10, <1>11, <1>12, <1>13
        DEF StationNext

(* Type correctness of the station, and the bound on the slots that wait for *)
(* the decode task: the audio thread blocks instead of exceeding it.         *)
THEOREM StationTypeCorrect == StationSpec => []StationTypeOK
<1>1. StationInit => Flags BY DEF StationInit, Flags
<1>2. StationInit => Counters BY StationAssumption DEF StationInit, Counters
<1>3. Bracket /\ SlotTypes /\ Flags /\ Counters /\ QsoTypeOK => StationTypeOK
     BY DEF Bracket, SlotTypes, Flags, Counters, StationTypeOK
<1> QED BY <1>1, <1>2, <1>3, FlagsStep, CountersStep, BracketInit, BracketStep, SlotTypesInit,
           SlotTypesStep, StationInvariant, PTL DEF StationSpec
=============================================================================
