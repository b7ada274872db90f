-------------------------- MODULE MCMaturityServer --------------------------
(* Instances of MaturityServer for TLC.                                    *)
EXTENDS MaturityServer

OnePillar == <<"A">>
TwoDims == [p \in {"A"} |-> <<"A1", "A2">>]
NoOpening == <<>>
LowHigh == {2, 4}
Own == {"own"}

Start(q, a) == [q |-> <<"framing", q>>, a |-> a]
Roles == [other |-> FALSE, typed |-> FALSE]
\* Started with nothing; with a tier before its turn, of which nothing is
\* taken; with everything.
Starts == {<<>>, <<Start("tier", "pulse")>>,
           <<Start("roles", Roles), Start("focus", "given"), Start("tier", "deep")>>}
RunOn == {0}

\* A file written by hand: answers, and no record of what was asked.
HandWritten ==
  {[NewDocument EXCEPT !.keys = ToSet(Framing) \ {"roles_other"}, !.tier = "standard",
      !.answers = [d \in Dims |-> [NoEntry EXCEPT !.anchor = 4, !.evidence = TRUE]]]}
=============================================================================
