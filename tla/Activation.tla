------------------------------ MODULE Activation ------------------------------
(***************************************************************************)
(* An activation on the air: the machine of Activator.tla against callers    *)
(* that follow the FT8 exchange, over a band that loses messages both ways   *)
(* and decodes some after the deadline of the period they were sent in       *)
(* (Activator::decide: "late ones included").                                *)
(***************************************************************************)
EXTENDS Activator, FiniteSets, SequencesExt

CONSTANTS
  Style,      \* how each caller starts: "grid" or "report"
  MaxLosses,  \* bound: transmissions nobody copies
  MaxLate     \* bound: decodes that miss their deadline

ASSUME ActivationAssumption ==
  /\ IsFiniteSet(Call) /\ Style \in [Call -> {"grid", "report"}]
  /\ MaxLosses \in Nat /\ MaxLate \in Nat

VARIABLES
  turn,    \* "start", then rounds of "theirs", "decide" and "ours", one per own period
  st,      \* where each caller is in the exchange
  late,    \* decodes that missed the deadline
  count,   \* contacts logged with each caller
  losses, lates

airVars == <<turn, st, late, count, losses, lates>>
allVars == <<vars, airVars>>

ActivationInit ==
  /\ ActivatorInit
  /\ turn = "start" /\ st = [c \in Call |-> "call"] /\ late = <<>>
  /\ count = [c \in Call |-> 0] /\ losses = MaxLosses /\ lates = MaxLate

(* What a caller in a state of the exchange sends; the last message of an    *)
(* exchange is sent once.                                                    *)
Says(c) == IF st[c] = "call" THEN Style[c]
           ELSE [roger |-> "rreport", rr |-> "rr73", bye |-> "s73"][st[c]]
Sends == {c \in Call : st[c] \in {"call", "roger", "rr", "bye"}}
Sent(s) == CASE s = "bye" -> "quiet" [] s = "rr" -> "sent" [] OTHER -> s

(* What it does on hearing our message. *)
Hears(s, text) ==
  CASE text = "report"  /\ s = "call"            -> "roger"
    [] text = "rreport" /\ s \in {"call", "sent"} -> "rr"
    [] text = "rr73"    /\ s = "roger"           -> "bye"
    [] text = "73"      /\ s \in {"rr", "sent"}  -> "quiet"
    [] OTHER -> s

Go ==
  /\ turn = "start" /\ turn' = "theirs" /\ Start
  /\ UNCHANGED <<st, late, count, losses, lates>>

(* The callers transmit; each message is copied, decoded late or lost.  What *)
(* was late in the last period is handed over with this period's decodes.    *)
Theirs ==
  /\ turn = "theirs" /\ turn' = "decide"
  /\ \E fate \in [Sends -> {"copied", "late", "lost"}] :
       LET Of(f) == {c \in Sends : fate[c] = f}
           Msgs(f) == [i \in 1..Cardinality(Of(f)) |->
                         LET c == SetToSeq(Of(f))[i] IN [from |-> c, ex |-> Says(c)]]
       IN  /\ Cardinality(Of("lost")) <= losses /\ losses' = losses - Cardinality(Of("lost"))
           /\ Cardinality(Of("late")) <= lates /\ lates' = lates - Cardinality(Of("late"))
           /\ heard' = late \o Msgs("copied") /\ late' = Msgs("late")
  /\ st' = [c \in Call |-> Sent(st[c])]
  /\ UNCHANGED <<act, out, count>>

Decides ==
  /\ turn = "decide" /\ turn' = "ours" /\ Decide(1)
  /\ count' = [c \in Call |-> IF out'.logged.call = c THEN count[c] + 1 ELSE count[c]]
  /\ UNCHANGED <<st, late, losses, lates>>

(* Our transmission reaches its addressee or is lost. *)
Ours ==
  /\ turn = "ours" /\ turn' = "theirs"
  /\ \/ /\ st' = [c \in Call |-> IF out.tx.to = c THEN Hears(st[c], out.tx.text) ELSE st[c]]
        /\ UNCHANGED losses
     \/ out.tx.to \in Call /\ losses > 0 /\ losses' = losses - 1 /\ UNCHANGED st
  /\ UNCHANGED <<vars, late, count, lates>>

ActivationNext == Go \/ Theirs \/ Decides \/ Ours

ActivationSpec == ActivationInit /\ [][ActivationNext]_allVars

(* Periods follow each other by the clock, and a call of decide returns.     *)
FairActivation ==
  ActivationSpec /\ WF_allVars(Go \/ Theirs \/ Ours) /\ []<>(turn # "decide")

-----------------------------------------------------------------------------
(* Properties *)

(* A caller whose log has the contact is in our log: whoever got our last    *)
(* message (RR73 or 73) was logged, whatever was lost or came late.          *)
InOurLog == \A c \in Call : st[c] \in {"bye", "quiet"} => count[c] >= 1

(* A contact is logged with the report the caller sent, even when the caller *)
(* was dropped in between (Activator::dropped).                              *)
ReportKept == out.logged.call # NoCall => out.logged.rcvd

(* Nobody who keeps calling is starved: once the band is good, every caller  *)
(* who starts with a grid completes, however strong the others are.          *)
EveryoneWorked ==
  (losses = 0 /\ lates = 0) ~> (\A c \in Call : Style[c] = "grid" => st[c] = "quiet")

(* activator.rs:291-292, "A partner logged recently: answered again (without *)
(* a second log) if they repeat R+-NN", and 562, "log once": a caller who    *)
(* makes one contact and repeats R until answered is in our log once.        *)
LoggedOnce == \A c \in Call : count[c] <= 1
===============================================================================
