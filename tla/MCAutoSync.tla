----------------------------- MODULE MCAutoSync -----------------------------
(* The code's constants in tenths of a second; each run chooses the band.    *)
EXTENDS AutoSync

Around(r) == -r..r
InTolerance == Around(Tolerance) \cup {60}
Near == Around(4)
Busy == {2, 3, 5}
Weak == {0}
AnyNoise == {-20, -1, 1, 20}
OnTime == {0}
Window == {0, 13}
HandMark == {-3, 0, 3}

(* The hypothesis of StickProofs!AutoSyncNeverDeaf holds of every run. *)
ASSUME RoomForCorrections == Margins
=============================================================================
