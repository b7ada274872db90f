-------------------------- MODULE MCCodexRuntime --------------------------
(* Finite instances of CodexRuntime for TLC.                               *)
EXTENDS CodexRuntime, TLC

CONSTANTS r1, r2, general, special, confA, confB

TwoRequests == {r1, r2}
NoLegacy == {}
TwoProfiles == {general, special}
AnyAgent == TwoProfiles \union {None}
SpecialOrNone == {special, None}
OneConfig == {confA}
TwoConfigs == {confA, confB}

(* The second configuration withdraws the special profile.                 *)
SpecialWithdrawn == [c \in Configs |-> IF c = confB THEN {general} ELSE Profiles]

Symmetry == Permutations(Requests)

=============================================================================
