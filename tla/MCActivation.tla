----------------------------- MODULE MCActivation -----------------------------
(* A weak and a strong caller; grids, or one of them starting with a report. *)
EXTENDS Activation, TLC
CONSTANTS weak, strong
Callers == {weak, strong}
Strength == weak :> 1 @@ strong :> 2
Grids == weak :> "grid" @@ strong :> "grid"
Mixed == weak :> "grid" @@ strong :> "report"
===============================================================================
