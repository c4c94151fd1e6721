---------------------------- MODULE MCQsoManager ----------------------------
(* Two stations whose callsigns fit a String<11>, and one that does not.     *)
EXTENDS QsoManager, TLC

CONSTANTS a, b, long, cut

MCCall == {a, b, long}
MCText == {a, b, cut}
MCClip == (a :> a) @@ (b :> b) @@ (long :> cut)

(* Each station keeps to one parity, a and b to different ones.              *)
OwnSlot == (a :> {"Even"}) @@ (b :> {"Odd"}) @@ (long :> {"Odd"})
=============================================================================
