----------------------------- MODULE TaskLedger -----------------------------
(***************************************************************************)
(* The ledger of one task of the superclarity skill and what follows from  *)
(* it (scripts/ledger.mjs, state.mjs): which approvals are in force, what  *)
(* became of each step, and what the task waits for.                       *)
(*                                                                         *)
(* The ledger is the sequence of its events; an event's seq is its index.  *)
(* A digest is what it is the digest of.  A contract has one capability,   *)
(* which all its steps use; its other terms are a text.  Contracts are     *)
(* valid: all a command does with another one is to refuse it.             *)
(***************************************************************************)
EXTENDS Naturals, Sequences, FiniteSetsExt

CONSTANT StepIds   \* numbers of steps, counted from one

ASSUME LedgerConstants == StepIds \subseteq Nat \ {0}

-----------------------------------------------------------------------------
(* Contracts.  A plan without steps is pending.                            *)

Pending(contract) == contract.plan = <<>>
PlanIds(contract) == {contract.plan[k].id : k \in DOMAIN contract.plan}
StepOf(contract, s) == contract.plan[CHOOSE k \in DOMAIN contract.plan : contract.plan[k].id = s]
StepDigest(contract, s) == <<StepOf(contract, s), contract.terms.capability>>

TermsDigest(contract) == <<contract.mode, contract.revision, contract.terms>>
SameContent(c, d) == [c EXCEPT !.revision = 0] = [d EXCEPT !.revision = 0]

Executable(contract) == contract.terms.capability.readiness \in {"ready", "resolved"}
HasFallback(contract) == contract.terms.capability.fallback

-----------------------------------------------------------------------------
(* Events of a log.                                                        *)

Of(log, type) == {i \in DOMAIN log : log[i].type = type}
OfRevision(log, type, r) == {i \in Of(log, type) : log[i].revision = r}
Latest(S) == IF S = {} THEN 0 ELSE Max(S)

GateIsHead(log) == log[Len(log)].type = "gate-prepared"
BusinessHead(log) ==
  log[CHOOSE i \in DOMAIN log : log[i].type # "repair" /\ \A j \in (i + 1)..Len(log) : log[j].type = "repair"]

Records(log) == Of(log, "contract-recorded")
LatestRecord(log, r) == Latest(OfRevision(log, "contract-recorded", r))
MaxRecordedRevision(log) == Latest({log[i].revision : i \in Records(log)})

\* The record behind the last authorization of a revision, 0 when there is none.
AuthorizedRecord(log, r) ==
  LET authorization == Latest(OfRevision(log, "execution-authorized", r))
  IN IF authorization = 0 THEN 0 ELSE log[log[authorization].prepared].record

-----------------------------------------------------------------------------
(* Recovery, and the end of a task.                                        *)

Opened(log) == Latest(Of(log, "recovery-opened"))
Resolved(log) == Latest(Of(log, "recovery-resolved"))
InRecovery(log) ==
  \E i \in Of(log, "recovery-opened") :
     \A j \in Of(log, "recovery-resolved") : log[j].opened # i

\* Nothing but a repair follows the end of a task.
Cancelled(log) ==
  \E i \in DOMAIN log :
     \/ log[i].type = "task-cancelled"
     \/ log[i].type = "recovery-resolved" /\ log[i].reconciliation = "still-uncertain"

\* The outputs whose effect a recovery found to have occurred, and which step s
\* has not inspected since.
Obligations(log, s) ==
  {owed \in Of(log, "recovery-resolved") \X UNION {log[i].outputs : i \in Of(log, "recovery-opened")} :
     /\ log[owed[1]].reconciliation = "occurred"
     /\ owed[2] \in log[log[owed[1]].opened].outputs
     /\ \A j \in Of(log, "step-revalidated") :
          j > owed[1] => ~(log[j].basis = "recovery-occurred" /\ log[j].step = s)}

Owed(log, contract, s) ==
  \E obligation \in Obligations(log, s) : obligation[2] = StepOf(contract, s).output

-----------------------------------------------------------------------------
(* Approvals in force: those of exactly this contract, given since a       *)
(* recovery was last opened.                                               *)

\* Mutant: approvals given before a recovery stay in force.
ApprovedEver(log, type, contract) ==
  {i \in OfRevision(log, type, contract.revision) : log[i].terms = TermsDigest(contract)}

Approved(log, type, contract) ==
  LET since == Opened(log)
  IN {i \in OfRevision(log, type, contract.revision) :
        i > since /\ log[i].terms = TermsDigest(contract)}

TermsApproved(log, contract) == Approved(log, "terms-approved", contract) # {}
PlanApproved(log, contract) ==
  /\ TermsApproved(log, contract)
  /\ \E i \in Approved(log, "plan-approved", contract) : log[i].plan = contract.plan

\* Mutant: the plan that was authorized is not compared.
AuthorizedSomePlan(log, contract) ==
  PlanApproved(log, contract) /\ Approved(log, "execution-authorized", contract) # {}

ExecutionAuthorized(log, contract) ==
  /\ PlanApproved(log, contract)
  /\ \E i \in Approved(log, "execution-authorized", contract) : log[i].plan = contract.plan

-----------------------------------------------------------------------------
(* What became of the steps: the last event of a step in a revision, since *)
(* the last resolution, decides; without one a result is carried from the  *)
(* revision before, when the step is the same in both.                     *)

StepEvents == {"step-started", "step-finished", "step-skipped", "step-revalidated"}
\* Mutant: what was started before a recovery still counts.
OwnEventsEver(log, r, s) ==
  {i \in DOMAIN log : log[i].type \in StepEvents /\ log[i].step = s /\ log[i].revision = r}

OwnEvents(log, r, s) ==
  LET since == Resolved(log)
  IN {i \in DOMAIN log : /\ i > since /\ log[i].type \in StepEvents
                         /\ log[i].step = s /\ log[i].revision = r}

StatusAfter(log, i) ==
  IF i = 0 THEN "pending"
  ELSE CASE log[i].type = "step-started" ->
              IF InRecovery(log) /\ i < Opened(log) THEN "quarantined" ELSE "running"
         [] log[i].type = "step-finished" -> log[i].outcome      \* blocked is like failed
         [] log[i].type = "step-skipped" -> "skipped"
         [] log[i].type = "step-revalidated" -> "completed"

Terminal == {"completed", "skipped"}

\* Mutant: a result is carried whatever the step has become.
SameIdIn(log, here, before, s) ==
  /\ here # 0 /\ before # 0
  /\ s \in PlanIds(log[here].contract) \cap PlanIds(log[before].contract)

SameStepIn(log, here, before, s) ==
  /\ here # 0 /\ before # 0
  /\ s \in PlanIds(log[here].contract) \cap PlanIds(log[before].contract)
  /\ StepDigest(log[here].contract, s) = StepDigest(log[before].contract, s)

RecordFor(log, r) ==
  IF AuthorizedRecord(log, r) # 0 THEN AuthorizedRecord(log, r) ELSE LatestRecord(log, r)

\* The event that decides on a step, 0 when there is none.
Decisive(log, r, s) ==
  LET reached == {q \in 1..r : /\ OwnEvents(log, q, s) # {}
                              /\ \A p \in q..(r - 1) :
                                   SameStepIn(log, RecordFor(log, p + 1), AuthorizedRecord(log, p), s)}
      from == Latest(reached)
      last == Latest(OwnEvents(log, from, s))
  IN IF from = r \/ StatusAfter(log, last) \in Terminal THEN last ELSE 0

Status(log, contract, s) == StatusAfter(log, Decisive(log, contract.revision, s))
AllDone(log, contract) ==
  \A s \in PlanIds(contract) : Status(log, contract, s) \in Terminal

Attempts(log, r, s) == {i \in OfRevision(log, "step-started", r) : log[i].step = s}
FallbackUsed(log, r, s) == \E i \in OfRevision(log, "fallback-invoked", r) : log[i].step = s

\* The attempts of a revision that were started and not finished.
Running(log, r) ==
  {i \in OfRevision(log, "step-started", r) :
     \A j \in OfRevision(log, "step-finished", r) :
        j > i => <<log[j].step, log[j].attempt>> # <<log[i].step, log[i].attempt>>}

-----------------------------------------------------------------------------
(* What the task waits for (deriveState).                                  *)

RecordMatches(log, contract) ==
  LatestRecord(log, contract.revision) # 0
  /\ log[LatestRecord(log, contract.revision)].contract = contract
GateMatches(log, contract) ==
  GateIsHead(log) /\ log[log[Len(log)].record].contract = contract

HasApprovals(log) ==
  \E type \in {"terms-approved", "plan-approved", "execution-authorized"} : Of(log, type) # {}
NeedsUpgrade(log, contract) == Resolved(log) # 0 /\ contract.mode = "compact"
ContentDiffers(log, contract) ==
  HasApprovals(log) /\ ~RecordMatches(log, contract) /\ ~GateMatches(log, contract)

\* The gates before any step.
Drafting(log, contract) ==
  \/ ~Executable(contract)
  \/ Pending(contract)
  \/ ~ExecutionAuthorized(log, contract)

Executing(log, contract) ==
  /\ ~GateMatches(log, contract)
  /\ ~Cancelled(log) /\ ~InRecovery(log)
  /\ ~NeedsUpgrade(log, contract) /\ ~ContentDiffers(log, contract)
  /\ ~Drafting(log, contract)

\* The first step that is not done is the current one, whatever became of it.
IsCurrent(log, contract, s) ==
  /\ Executing(log, contract)
  /\ \E k \in DOMAIN contract.plan :
       /\ contract.plan[k].id = s /\ Status(log, contract, s) \notin Terminal
       /\ \A h \in 1..(k - 1) : Status(log, contract, contract.plan[h].id) \in Terminal
-----------------------------------------------------------------------------
(* The command `status` names next.  done says whether the acceptance on   *)
(* file is the recorded one, over evidence that has not changed.           *)

AdviceOnMismatch(log, contract) ==
  LET r == contract.revision
  IN IF \E s \in StepIds : Status(log, contract, s) = "running" THEN "reconcile-step"
     ELSE IF /\ ~ExecutionAuthorized(log, contract) /\ TermsApproved(log, contract)
             /\ LatestRecord(log, r) # 0
             /\ TermsDigest(log[LatestRecord(log, r)].contract) = TermsDigest(contract)
          THEN "check-execution"
     ELSE "check-terms"

AdviceOnDraft(log, contract) ==
  LET compact == contract.mode = "compact"
      approved == TermsApproved(log, contract)
  IN IF ~compact /\ ~approved THEN "check-terms"
     ELSE IF ~Executable(contract) THEN "resolve-capability"
     ELSE IF Pending(contract) /\ ~(compact /\ approved) THEN "write-plan"
     ELSE IF compact /\ ~approved /\ ~RecordMatches(log, contract) THEN "check-compact"
     ELSE "check-execution"

AdviceOnStep(log, contract, s) ==
  LET status == Status(log, contract, s)
      r == contract.revision
      fallback == HasFallback(contract) /\ ~FallbackUsed(log, r, s)
      primary == {i \in Attempts(log, r, s) : log[i].binding = "primary"}
      ready == StepOf(contract, s).after \subseteq
                 {d \in PlanIds(contract) : Status(log, contract, d) \in Terminal}
      start == IF StepOf(contract, s).effect = "none" THEN "start-step" ELSE "check-action"
  IN CASE status = "running" -> "reconcile-step"
       [] status = "failed" /\ fallback -> "assess-fallback"
       [] status = "failed" /\ ~fallback ->
            IF StepOf(contract, s).retrySafe /\ Cardinality(primary) < 2 THEN start ELSE "ask-user"
       [] status = "pending" -> IF ready THEN start ELSE "ask-user"

Advice(log, torn, contract, done) ==
  IF torn THEN "repair-ledger"
  ELSE IF InRecovery(log) THEN "resolve-recovery"
  ELSE IF Cancelled(log) THEN "none"
  ELSE IF NeedsUpgrade(log, contract) THEN "upgrade-to-full"
  ELSE IF ContentDiffers(log, contract) THEN AdviceOnMismatch(log, contract)
  ELSE IF GateMatches(log, contract) THEN "reprepare"
  ELSE IF done THEN "none"
  ELSE IF Drafting(log, contract) THEN AdviceOnDraft(log, contract)
  ELSE IF AllDone(log, contract) THEN "accept"
  ELSE AdviceOnStep(log, contract, CHOOSE s \in PlanIds(contract) : IsCurrent(log, contract, s))
=============================================================================
