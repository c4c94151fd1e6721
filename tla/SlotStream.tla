----------------------------- MODULE SlotStream -----------------------------
(***************************************************************************)
(* What the slot pipeline promises its callers: captured slots are decoded  *)
(* one after the other, each once, under its own index and from its own     *)
(* audio.  A slot may be given up (nothing of it is heard), but never       *)
(* replaced by another one's audio.                                         *)
(***************************************************************************)
EXTENDS Naturals

CONSTANT Takes     \* an attempt at capturing a slot, were it restarted

VARIABLES
  ended,           \* slots captured so far
  decoded,         \* slots decoded so far
  last             \* what the last decode was: its index, the takes it read

streamVars == <<ended, decoded, last>>

StreamInit == ended = 0 /\ decoded = 0 /\ last = [idx |-> 0, heard |-> {}]

Capture == ended' = ended + 1 /\ UNCHANGED <<decoded, last>>

Decode ==
  /\ decoded < ended
  /\ decoded' = decoded + 1
  /\ \/ last' = [idx |-> decoded, heard |-> {}]
     \/ \E t \in Takes : last' = [idx |-> decoded, heard |-> {<<decoded, t>>}]
  /\ UNCHANGED ended

StreamNext == Capture \/ Decode
StreamSpec == StreamInit /\ [][StreamNext]_streamVars
=============================================================================
