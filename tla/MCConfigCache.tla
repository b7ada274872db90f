---------------------------- MODULE MCConfigCache ----------------------------
(* Two agents and four contents of profiles.json: one restricts the        *)
(* default agent and opens the specialist, one restricts the specialist    *)
(* and spoils the default's entry, one is of a schema this build does not  *)
(* know and one is not JSON.  The image packages no document, so that the  *)
(* built-in default, which may use everything, is what a lapse leads to.   *)
EXTENDS ConfigCache

CONSTANTS buddy, analyst, strict, pruned, future, broken

TwoNames == {buddy, analyst}
AllDocuments == {strict, pruned, future, broken}
TheEntries ==
  [d \in AllDocuments |->
     CASE d = strict -> [n \in TwoNames |-> IF n = analyst THEN "open" ELSE "narrow"]
       [] d = pruned -> [n \in TwoNames |-> IF n = analyst THEN "narrow" ELSE "malformed"]
       [] OTHER -> [n \in TwoNames |-> "missing"]]
=============================================================================
