----------------------------- MODULE MCDualCore -----------------------------
(* Four cells, of which the coarse search keeps three; fine sync leaves them *)
(* alone, or moves two onto one position and the third elsewhere.  Times are *)
(* <<boundary, deadline, key_up>> on a clock that goes to 2.                 *)
EXTENDS DualCore

Slot(low, fine, fits, q, fine_ok, share, t) ==
  [low |-> low, fine |-> fine, fits |-> fits, q |-> q, msg |-> <<"a", "b", "a", "c", "a", "b">>,
   fine_ok |-> fine_ok, share |-> share, boundary |-> t[1], deadline |-> t[2], key_up |-> t[3]]

Unmoved == <<1, 2, 3, 4>>
Moved == <<5, 5, 6, 4>>
MCScenarios ==
  { Slot({1, 4}, Moved, {1, 2, 5}, <<2, 2, 1, 1, 2, 2>>, TRUE, share, t) :
      share \in BOOLEAN, t \in {<<1, 2, 9>>, <<1, 9, 2>>, <<9, 9, 9>>} }
  \cup
  { Slot({1, 4}, Moved, fits, <<1, 2, 3, 1, 1, 3>>, TRUE, FALSE, <<1, 2, 9>>) :
      fits \in {{1, 2, 3, 5}, 1..6, {6}} }
  \cup
  { Slot({2, 3}, Unmoved, fits, <<1, 2, 2, 1>>, FALSE, share, t) :
      fits \in {1..4, {1, 2}, {3}}, share \in BOOLEAN, t \in {<<1, 2, 9>>, <<9, 1, 9>>} }
=============================================================================
