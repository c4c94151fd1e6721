---------------------------- MODULE MCQsoStation ----------------------------
(* A station to be called and worked, heard under either slot index, and one *)
(* whose callsign String<11> cuts, heard in even slots.                      *)
EXTENDS QsoStation, TLC

CONSTANTS dx, long, cut

MCCall == {dx, long}
MCText == {dx, cut}
MCClip == (dx :> dx) @@ (long :> cut)
MCSlots == (dx :> Parity) @@ (long :> {"Even"})

(* One station by itself. *)
OneCall == {dx}
OneClip == dx :> dx
OneSlots == dx :> Parity
=============================================================================
