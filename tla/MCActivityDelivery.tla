------------------------ MODULE MCActivityDelivery ------------------------
(* Finite instances of ActivityDelivery for TLC.                           *)
EXTENDS ActivityDelivery, TLC

CONSTANTS a1, a2, a3, c1, c2

Nobody == {}
Three == {a1, a2, a3}
Two == {a1, a2}
TwoCalls == {c1, c2}

ThreeSymmetry == Permutations(Three) \union Permutations(Calls)

=============================================================================
