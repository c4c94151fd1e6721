----------------------------- MODULE MCGridSync -----------------------------
(* The code's constants in twentieths of a second.                           *)
EXTENDS GridSync

Everywhere == {-18, -14, -8, -4, 0, 4, 8, 14, 18, 60, 150}
NoBias == {0}
Bias == {-3, 0}
Some == {-14, 18, 60}
=============================================================================
