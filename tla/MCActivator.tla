----------------------------- MODULE MCActivator -----------------------------
(* A weak caller and two strong ones, which cannot be told apart.          *)
EXTENDS Activator, TLC
CONSTANTS weak, strong1, strong2
Three == {weak, strong1, strong2}
SnrThree == weak :> 1 @@ strong1 :> 2 @@ strong2 :> 2
Equals == Permutations({strong1, strong2})
==============================================================================
