--------------------------- MODULE MCTaskCommands ---------------------------
(***************************************************************************)
(* Seven stories of a task: each a contract, what it may be edited to, and *)
(* how often each command is given.                                        *)
(***************************************************************************)
EXTENDS TaskCommands

Plain == [id |-> 1, text |-> "plain", output |-> "file", effect |-> "none",
          after |-> {}, retrySafe |-> TRUE, verifies |-> FALSE]
Other == [Plain EXCEPT !.text = "other"]
Inspect == [Plain EXCEPT !.text = "inspect", !.verifies = TRUE]
Later == [Plain EXCEPT !.id = 2, !.output = "page", !.after = {1}]
Send == [Plain EXCEPT !.effect = "send", !.retrySafe = FALSE]

Written(mode, revision, plan) ==
  [mode |-> mode, revision |-> revision, plan |-> plan,
   terms |-> [capability |-> [readiness |-> "ready", fallback |-> TRUE]]]

Compact == Written("compact", 1, <<Plain>>)
Again == Written("compact", 1, <<Other>>)
Unready(c) == [c EXCEPT !.terms.capability.readiness = "unresolved"]
Draft == Unready(Written("full", 1, <<>>))
Resolvable == Written("full", 1, <<>>)
Planned == Written("full", 1, <<Plain>>)
Rewritten == Written("full", 1, <<Other>>)
Full == Written("full", 1, <<Send>>)
Resend == Written("full", 1, <<[Send EXCEPT !.text = "resend"]>>)
Inspected == Written("full", 2, <<Inspect>>)
Reworked == Written("full", 2, <<Other>>)
Extended == Written("full", 2, <<Plain, Later>>)
Sent == Written("full", 2, <<Send>>)

\* The bounds of the events, in this order.
Bounded == <<"gate-prepared", "step-started", "step-finished", "step-skipped",
             "step-revalidated", "recovery-opened", "acceptance-recorded">>

Story(edits, payloads, contents, marks, bounds, deaths) ==
  [edits |-> edits, payloads |-> payloads, contents |-> contents, crashes |-> deaths,
   acceptances |-> [revision : {edit[2].revision : edit \in edits}, whole : marks],
   limit |-> [type \in {Bounded[k] : k \in 1..7} |->
                bounds[CHOOSE k \in 1..7 : Bounded[k] = type]]]

\* A task is recovered, and its one step inspected in a second revision, or rewritten.
Recovery == Story({<<Compact, Inspected>>, <<Planned, Inspected>>, <<Planned, Rewritten>>},
                  {"p"}, {"e"}, {TRUE}, <<3, 2, 2, 0, 2, 1, 0>>, 0)
\* A task is extended or rewritten in a second revision.
Rework == Story({<<Compact, Reworked>>, <<Compact, Extended>>},
                {"p"}, {"e"}, {TRUE}, <<3, 2, 2, 1, 1, 0, 1>>, 0)
\* Evidence and acceptance are edited, and the task is accepted or not.
Closing == Story({<<Compact, Compact>>},
                 {"p"}, {"e", "f"}, BOOLEAN, <<1, 2, 2, 1, 1, 0, 1>>, 0)
\* A contract is written, made executable and planned, and rewritten before its step starts.
Drafts == Story({<<Draft, Resolvable>>, <<Resolvable, Planned>>, <<Planned, Rewritten>>, <<Rewritten, Planned>>,
                 <<Planned, Resolvable>>},
                {"p"}, {"e"}, {TRUE}, <<4, 1, 1, 0, 0, 0, 1>>, 0)
\* A compact contract is rewritten before its step starts, and a process dies.
Crash == Story({<<Compact, Again>>, <<Again, Compact>>},
               {"p"}, {"e"}, {TRUE}, <<3, 1, 1, 0, 0, 0, 0>>, 1)
\* Something is sent, with a payload that may change.
Sending == Story({<<Full, Resend>>, <<Resend, Full>>},
                 {"p", "q"}, {"e"}, {TRUE}, <<4, 2, 1, 0, 0, 0, 0>>, 0)
\* It is not known whether something was sent.
Uncertain == Story({<<Full, Sent>>, <<Full, Inspected>>},
                   {"p"}, {"e"}, {TRUE}, <<5, 2, 1, 0, 1, 1, 0>>, 0)

MCStories == {Recovery, Rework, Closing, Drafts, Crash, Sending, Uncertain}
=============================================================================
