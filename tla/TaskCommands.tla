---------------------------- MODULE TaskCommands ----------------------------
(***************************************************************************)
(* The commands of the superclarity skill on one task (superclarity.mjs).  *)
(*                                                                         *)
(* A command holds the claim on the task from before it reads the files    *)
(* until after it has appended its batch (runLocked), so it is one step;   *)
(* a process that dies inside leaves its claim, and perhaps part of the    *)
(* batch.  Between commands the agent and the user edit the contract, the  *)
(* evidence, the action's payload and the acceptance as they like.  What a *)
(* command requires of its own arguments is left to the one who calls it:  *)
(* confirmations, reasons, details.                                        *)
(***************************************************************************)
EXTENDS TaskLedger

CONSTANT Stories   \* bounds of a behaviour: the edits of the contract, the contents of
                   \* the other files, how many events of a type, how many deaths

Contracts(story) == {edit[1] : edit \in story.edits} \cup {edit[2] : edit \in story.edits}

\* What a valid contract is (model.mjs:51-56, 262-319): the digests cover all of it, revisions
\* are counted from one, and no step of a compact contract has an effect with a gate of its own.
ValidContract(c) ==
  /\ c.mode \in {"compact", "full"} /\ c.revision \in Nat \ {0}
  /\ c = [mode |-> c.mode, revision |-> c.revision, plan |-> c.plan, terms |-> c.terms]
  /\ c.plan \in Seq({c.plan[k] : k \in DOMAIN c.plan}) /\ PlanIds(c) \subseteq StepIds
  /\ c.mode = "compact" => \A s \in PlanIds(c) : StepOf(c, s).effect = "none"

ASSUME TaskConstants ==
  \A s \in Stories :
     s.crashes \in Nat /\ \A c \in Contracts(s) : ValidContract(c)

VARIABLES story,                                       \* the bounds
          contract, payload, evidence, acceptance,    \* the files that are edited
          ledger,                                      \* events of the whole lines of ledger.jsonl
          torn,                                        \* its last line is part of a batch
          claim,                                       \* the lock: "free", or held by a process that "died"
          crashes                                      \* how many processes died

files == <<story, contract, payload, evidence, acceptance>>
taskVars == <<story, contract, payload, evidence, acceptance, ledger, torn, claim, crashes>>

TaskInit ==
  /\ story \in Stories
  /\ contract \in {c \in Contracts(story) : c.revision = 1}
  /\ payload \in story.payloads /\ evidence \in story.contents
  /\ acceptance \in story.acceptances
  /\ ledger = <<[type |-> "task-created"]>> /\ torn = FALSE
  /\ claim = "free" /\ crashes = 0

-----------------------------------------------------------------------------
(* Appending a batch: whole and released, or by a process that dies before,*)
(* while or after writing.                                                 *)

Dies == crashes < story.crashes /\ claim' = "died" /\ crashes' = crashes + 1

AppendBatch(batch) ==
  /\ claim = "free" /\ ~torn /\ ~Cancelled(ledger)
  /\ \A type \in DOMAIN story.limit : Cardinality(Of(ledger \o batch, type)) <= story.limit[type]
  /\ \/ ledger' = ledger \o batch /\ torn' = FALSE
        /\ (UNCHANGED <<claim, crashes>> \/ Dies)
     \/ ledger' = ledger /\ torn' \in BOOLEAN /\ Dies
  /\ UNCHANGED files

-----------------------------------------------------------------------------
(* check: record the contract and prepare a gate over it.                  *)

StartedIn(r) == OfRevision(ledger, "step-started", r) # {}
ChangedSince(record) == record # 0 /\ ~SameContent(ledger[record].contract, contract)

\* Mutant: a started revision may be rewritten.
RevisionMayBeRewritten ==
  LET h == MaxRecordedRevision(ledger)
  IN contract.revision \in {IF h = 0 THEN 1 ELSE h, h + 1}

RevisionIsNext ==
  LET h == MaxRecordedRevision(ledger)
      recovered == Opened(ledger) # 0
  IN \/ h = 0 /\ contract.revision = 1
     \/ /\ h > 0 /\ contract.revision = h + 1
        /\ StartedIn(h) \/ recovered
        /\ ChangedSince(RecordFor(ledger, h)) \/ recovered
        /\ contract.mode = "full"
     \/ /\ h > 0 /\ contract.revision = h
        /\ ~(StartedIn(h) /\ ChangedSince(AuthorizedRecord(ledger, h)))
        /\ recovered => contract.revision > ledger[Opened(ledger)].revision

\* An id is never used again for another step, and new ones are greater.
IdsAreNew ==
  LET historic == UNION {PlanIds(ledger[i].contract) : i \in Records(ledger)}
      latest == IF Records(ledger) = {} THEN {}
                ELSE PlanIds(ledger[Latest(Records(ledger))].contract)
  IN \A s \in PlanIds(contract) : s \in latest \/ (s \notin historic /\ s > Latest(historic))

Prepare(gate, action) ==
  AppendBatch(<<[type |-> "contract-recorded", revision |-> contract.revision, contract |-> contract],
           [type |-> "gate-prepared", gate |-> gate, record |-> Len(ledger) + 1, action |-> action]>>)

MayCheck == ~InRecovery(ledger) /\ RevisionIsNext /\ IdsAreNew

MayCheckCompact ==
  /\ contract.mode = "compact" /\ ~Pending(contract)
  /\ contract.terms.capability.readiness = "ready"
  /\ \A s \in PlanIds(contract) : StepOf(contract, s).effect = "none"
  /\ Of(ledger, "step-started") = {} /\ Opened(ledger) = 0
  /\ MayCheck

MayCheckTerms == contract.mode = "full" /\ MayCheck

\* A compact contract never gets through: the prepared gate names its eligibility
\* (superclarity.mjs:639), which the ledger admits for the compact gate only
\* (ledger.mjs:54), so the batch is refused before it is written.
LedgerAdmitsExecutionGate == contract.mode # "compact"

MayCheckExecution ==
  /\ ~Pending(contract) /\ TermsApproved(ledger, contract) /\ Executable(contract)
  /\ MayCheck /\ LedgerAdmitsExecutionGate

MayCheckAction(s, binding) ==
  /\ s \in PlanIds(contract) /\ StepOf(contract, s).effect # "none"
  /\ ExecutionAuthorized(ledger, contract)
  /\ IsCurrent(ledger, contract, s) /\ ~Owed(ledger, contract, s)
  /\ MayCheck
  /\ \/ binding = "primary" /\ Status(ledger, contract, s) \in {"pending", "failed"}
     \/ binding = "fallback" /\ Status(ledger, contract, s) = "failed"
        /\ HasFallback(contract) /\ ~FallbackUsed(ledger, contract.revision, s)

NextAttempt(s) == Cardinality(Attempts(ledger, contract.revision, s)) + 1

\* What the digest of an action covers.
ActionOf(s, attempt, binding) ==
  [step |-> s, attempt |-> attempt, binding |-> binding, payload |-> payload,
   revision |-> contract.revision, work |-> StepDigest(contract, s)]

CheckCompact == MayCheckCompact /\ Prepare("compact", <<>>)
CheckTerms == MayCheckTerms /\ Prepare("terms", <<>>)
CheckExecution == MayCheckExecution /\ Prepare("execution", <<>>)
CheckAction(s, binding) ==
  MayCheckAction(s, binding) /\ Prepare("action", ActionOf(s, NextAttempt(s), binding))

-----------------------------------------------------------------------------
(* approve: the last prepared gate, if nothing has happened since and the  *)
(* contract is still the recorded one.                                     *)

Approval(type) ==
  [type |-> type, prepared |-> Len(ledger), revision |-> contract.revision,
   terms |-> TermsDigest(contract), plan |-> contract.plan]

Started(s, attempt, binding) ==
  [type |-> "step-started", revision |-> contract.revision, step |-> s,
   attempt |-> attempt, binding |-> binding]
Invoked(s, attempt) ==
  [type |-> "fallback-invoked", revision |-> contract.revision, step |-> s, attempt |-> attempt]

GateIsOpen == GateMatches(ledger, contract)
HeadGate == ledger[Len(ledger)]

Decline == GateIsOpen /\ AppendBatch(<<[type |-> "task-cancelled"]>>)

ApproveCompact(execute) ==
  /\ GateIsOpen /\ HeadGate.gate = "compact"
  /\ AppendBatch(<<Approval("terms-approved"), Approval("plan-approved")>>
            \o IF execute THEN <<Approval("execution-authorized")>> ELSE <<>>)

ApproveTerms ==
  GateIsOpen /\ HeadGate.gate = "terms" /\ AppendBatch(<<Approval("terms-approved")>>)

ApproveExecution(execute) ==
  LET planned == PlanApproved(ledger, contract)
  IN /\ GateIsOpen /\ HeadGate.gate = "execution" /\ (execute \/ ~planned)
     /\ AppendBatch((IF planned THEN <<>> ELSE <<Approval("plan-approved")>>)
               \o IF execute THEN <<Approval("execution-authorized")>> ELSE <<>>)

\* Mutant: the payload is not compared with the prepared one.
ApproveAnyAction ==
  LET a == HeadGate.action
  IN /\ GateIsOpen /\ HeadGate.gate = "action"
     /\ AppendBatch(<<[type |-> "action-approved", action |-> a]>>
               \o (IF a.binding = "fallback" THEN <<Invoked(a.step, a.attempt)>> ELSE <<>>)
               \o <<Started(a.step, a.attempt, a.binding)>>)

ApproveAction ==
  LET a == HeadGate.action
  IN /\ GateIsOpen /\ HeadGate.gate = "action"
     /\ ActionOf(a.step, a.attempt, a.binding) = a
     /\ AppendBatch(<<[type |-> "action-approved", action |-> a]>>
               \o (IF a.binding = "fallback" THEN <<Invoked(a.step, a.attempt)>> ELSE <<>>)
               \o <<Started(a.step, a.attempt, a.binding)>>)

-----------------------------------------------------------------------------
(* step: the work itself is done between start and finish.                 *)

\* Mutant: what a recovery found to have happened is done again.
MayStartOwed(s) ==
  /\ s \in PlanIds(contract) /\ StepOf(contract, s).effect = "none"
  /\ IsCurrent(ledger, contract, s)

MayStart(s) ==
  /\ s \in PlanIds(contract) /\ StepOf(contract, s).effect = "none"
  /\ IsCurrent(ledger, contract, s) /\ ~Owed(ledger, contract, s)

StepStart(s) == MayStart(s) /\ AppendBatch(<<Started(s, NextAttempt(s), "primary")>>)

MayFallBack(s) ==
  /\ s \in PlanIds(contract) /\ StepOf(contract, s).effect = "none"
  /\ Status(ledger, contract, s) = "failed"
  /\ HasFallback(contract) /\ ~FallbackUsed(ledger, contract.revision, s)

StepFallback(s) ==
  MayFallBack(s)
  /\ AppendBatch(<<Invoked(s, NextAttempt(s)), Started(s, NextAttempt(s), "fallback")>>)

\* Mutant: a recovery does not close the attempt it interrupted.
MayFinishLate(s) ==
  LET running == Running(ledger, contract.revision)
  IN running # {} /\ ledger[Max(running)].step = s

\* Only the attempt started last can be finished, and not across a recovery.
MayFinish(s) ==
  LET running == Running(ledger, contract.revision)
  IN running # {} /\ ledger[Max(running)].step = s /\ Opened(ledger) < Max(running)

StepFinish(s, outcome) ==
  /\ MayFinish(s)
  /\ AppendBatch(<<[type |-> "step-finished", revision |-> contract.revision, step |-> s,
               attempt |-> ledger[Max(Running(ledger, contract.revision))].attempt,
               outcome |-> outcome, evidence |-> evidence]>>)

StepSkip(s) ==
  /\ ExecutionAuthorized(ledger, contract) /\ IsCurrent(ledger, contract, s)
  /\ Status(ledger, contract, s) \in {"pending", "failed"}
  /\ AppendBatch(<<[type |-> "step-skipped", revision |-> contract.revision, step |-> s]>>)

MayRevalidate(s, basis) ==
  LET owed == Obligations(ledger, s)
  IN /\ s \in PlanIds(contract)
     /\ \/ basis = "stale-evidence" /\ Status(ledger, contract, s) = "completed"
        \/ /\ basis = "recovery-occurred" /\ contract.mode = "full"
           /\ ExecutionAuthorized(ledger, contract)
           /\ Cardinality(owed) = 1
           /\ {d \in PlanIds(contract) : \E o \in owed : o[2] = StepOf(contract, d).output} = {s}
           /\ IsCurrent(ledger, contract, s)
           /\ StepOf(contract, s).verifies

StepRevalidate(s, basis) ==
  /\ MayRevalidate(s, basis)
  /\ AppendBatch(<<[type |-> "step-revalidated", revision |-> contract.revision, step |-> s,
               basis |-> basis, evidence |-> evidence]>>)

-----------------------------------------------------------------------------
(* accept: every step done, its evidence unchanged.                        *)

\* What a completed step was last shown to rest on.
EvidenceOf(s) ==
  LET again == {i \in Of(ledger, "step-revalidated") : ledger[i].step = s}
      first == {i \in Of(ledger, "step-finished") : ledger[i].step = s /\ ledger[i].outcome = "completed"}
  IN ledger[Max(IF again # {} THEN again ELSE first)].evidence

EvidenceStands(steps) ==
  \A s \in steps : Status(ledger, contract, s) = "completed" => EvidenceOf(s) = evidence

MayAccept(verdict) ==
  /\ acceptance.revision = contract.revision
  /\ ~InRecovery(ledger) /\ ExecutionAuthorized(ledger, contract)
  /\ AllDone(ledger, contract) /\ EvidenceStands(StepIds)
  /\ verdict = "complete" =>
       /\ acceptance.whole
       /\ \A s \in StepIds : Status(ledger, contract, s) # "skipped"

Accept(verdict) ==
  /\ MayAccept(verdict)
  /\ AppendBatch(<<[type |-> "acceptance-recorded", revision |-> contract.revision,
               verdict |-> verdict, acceptance |-> acceptance]>>)

Accepted ==
  /\ BusinessHead(ledger).type = "acceptance-recorded"
  /\ BusinessHead(ledger).acceptance = acceptance
  /\ BusinessHead(ledger).revision = contract.revision
  /\ EvidenceStands(PlanIds(contract))

-----------------------------------------------------------------------------
(* recover                                                                 *)

RecoverOpen(outputs) ==
  /\ ~InRecovery(ledger) /\ outputs # {}
  /\ AppendBatch(<<[type |-> "recovery-opened", revision |-> contract.revision, outputs |-> outputs]>>)

\* The decision follows: revalidate what occurred, stop when it is not known;
\* discard and revalidate are the same for what did not occur.
Reconciliations == {"occurred", "confirmed-not-occurred", "still-uncertain"}

RecoverResolve(reconciliation) ==
  /\ InRecovery(ledger)
  /\ AppendBatch(<<[type |-> "recovery-resolved", opened |-> Opened(ledger),
                    reconciliation |-> reconciliation]>>)

RecoverCancel ==
  /\ ~InRecovery(ledger) /\ Running(ledger, contract.revision) = {}
  /\ AppendBatch(<<[type |-> "task-cancelled"]>>)

-----------------------------------------------------------------------------
(* repair: the torn line is replaced by an event; the claim of a process   *)
(* that is gone is removed.                                                *)

Repair ==
  /\ claim = "free" /\ torn
  /\ ledger' = ledger \o <<[type |-> "repair"]>> /\ torn' = FALSE
  /\ UNCHANGED <<story, contract, payload, evidence, acceptance, claim, crashes>>

RepairLock ==
  /\ claim = "died" /\ claim' = "free"
  /\ UNCHANGED <<story, contract, payload, evidence, acceptance, ledger, torn, crashes>>

-----------------------------------------------------------------------------
(* What is edited between commands.                                        *)

EditContract(c) ==
  /\ <<contract, c>> \in story.edits /\ contract' = c
  /\ UNCHANGED <<story, payload, evidence, acceptance, ledger, torn, claim, crashes>>
EditPayload(p) ==
  /\ payload # p /\ payload' = p
  /\ UNCHANGED <<story, contract, evidence, acceptance, ledger, torn, claim, crashes>>
EditEvidence(e) ==
  /\ evidence # e /\ evidence' = e
  /\ UNCHANGED <<story, contract, payload, acceptance, ledger, torn, claim, crashes>>
WriteAcceptance(a) ==
  /\ acceptance # a /\ acceptance' = a
  /\ UNCHANGED <<story, contract, payload, evidence, ledger, torn, claim, crashes>>

Outputs == UNION {{c.plan[k].output : k \in DOMAIN c.plan} : c \in Contracts(story)}
Bindings == {"primary", "fallback"}

TaskNext ==
  \/ CheckCompact \/ CheckTerms \/ CheckExecution
  \/ \E s \in StepIds, binding \in Bindings : CheckAction(s, binding)
  \/ Decline \/ ApproveTerms \/ ApproveAction
  \/ \E execute \in BOOLEAN : ApproveCompact(execute) \/ ApproveExecution(execute)
  \/ \E s \in StepIds :
       \/ StepStart(s) \/ StepFallback(s) \/ StepSkip(s)
       \/ \E outcome \in {"completed", "failed"} : StepFinish(s, outcome)
       \/ \E basis \in {"stale-evidence", "recovery-occurred"} : StepRevalidate(s, basis)
  \/ \E verdict \in {"complete", "partial"} : Accept(verdict)
  \/ \E output \in Outputs : RecoverOpen({output})
  \/ \E way \in Reconciliations : RecoverResolve(way)
  \/ RecoverCancel \/ Repair \/ RepairLock
  \/ \E c \in Contracts(story) : EditContract(c)
  \/ \E p \in story.payloads : EditPayload(p)
  \/ \E e \in story.contents : EditEvidence(e)
  \/ \E a \in story.acceptances : WriteAcceptance(a)

TaskSpec == TaskInit /\ [][TaskNext]_taskVars

-----------------------------------------------------------------------------
(* Properties.                                                             *)

TaskTypeOK ==
  /\ story \in Stories /\ contract \in Contracts(story)
  /\ payload \in story.payloads /\ evidence \in story.contents /\ acceptance \in story.acceptances
  /\ torn \in BOOLEAN /\ claim \in {"free", "died"} /\ crashes \in 0..story.crashes

NewEvents == {i \in DOMAIN ledger' : i > Len(ledger)}

\* The contract was shown and authorized as it is, since a recovery was last opened.
ShownAndAuthorized ==
  \E i \in Of(ledger, "execution-authorized") :
     i > Opened(ledger) /\ ledger[ledger[ledger[i].prepared].record].contract = contract

\* If event i starts a step, it was approved.
StartIsApproved(i) ==
  LET e == ledger'[i]
      gated == StepOf(contract, e.step).effect # "none"
  IN e.type = "step-started" =>
       /\ e.binding = "primary" \/ gated => ShownAndAuthorized /\ ~InRecovery(ledger)
       /\ gated => \E j \in NewEvents : /\ j < i /\ ledger'[j].type = "action-approved"
                                       /\ ledger'[j].action = ActionOf(e.step, e.attempt, e.binding)

\* superclarity.mjs:908, protocol.md:62: however contract, payload and ledger
\* change in between, a step starts only under the very contract that was shown
\* when execution was authorized, and a step with an outside effect only with
\* the payload its own gate showed.  A fallback without such an effect is
\* excepted: the command asks for no authorization (superclarity.mjs:1198).
StartsAreApproved == [][\A i \in NewEvents : StartIsApproved(i)]_taskVars

\* The start of the attempt that event i finishes.
Began(i) ==
  Max({j \in Attempts(ledger, ledger[i].revision, ledger[i].step) :
         j < i /\ ledger[j].attempt = ledger[i].attempt})

\* The contract that was last recorded when event i was appended.
RecordedAt(i) ==
  ledger[Latest({j \in OfRevision(ledger, "contract-recorded", ledger[i].revision) : j < i})].contract

\* superclarity.mjs:920: no attempt is finished across a recovery, and an effect
\* that a recovery found to have occurred is not produced again, by whatever
\* step and in whatever revision, before that step has inspected it.  The second
\* part is about primary starts: a fallback is not asked what is owed
\* (superclarity.mjs:1198).
RecoveryHolds ==
  /\ \A i \in Of(ledger, "step-finished"), k \in Of(ledger, "recovery-opened") :
        ~(Began(i) < k /\ k < i)
  /\ \A i \in Of(ledger, "step-started"), k \in Of(ledger, "recovery-resolved") :
        LET e == ledger[i]
        IN /\ k < i /\ e.binding = "primary" /\ ledger[k].reconciliation = "occurred"
           /\ StepOf(RecordedAt(i), e.step).output \in ledger[ledger[k].opened].outputs
           => \E j \in Of(ledger, "step-revalidated") :
                 k < j /\ j < i /\ ledger[j].step = e.step /\ ledger[j].basis = "recovery-occurred"

\* A revision was recorded again as it had been before another content was.
TakenBack ==
  \E i, j, k \in Records(ledger) :
     /\ i < j /\ j < k
     /\ ledger[i].contract = ledger[k].contract /\ ledger[j].contract # ledger[k].contract
     /\ ledger[j].revision = ledger[k].revision

\* protocol.md:101: in an authorized contract a step counts as completed or
\* failed only by an attempt at the very same step, through rewrites, revisions
\* and recoveries.  It fails once a contract is taken back to an earlier content
\* within its revision: the old approvals come into force again, and the
\* comparisons still go by the record that was authorized last.
ResultsAreOfTheStep ==
  /\ TaskTypeOK
  /\ ExecutionAuthorized(ledger, contract) /\ ~ContentDiffers(ledger, contract) /\ ~TakenBack =>
       \A s \in PlanIds(contract) :
         LET i == Decisive(ledger, contract.revision, s)
         IN i # 0 /\ ledger[i].type = "step-finished" =>
              StepDigest(RecordedAt(Began(i)), s) = StepDigest(contract, s)

ToMove == {s \in StepIds : IsCurrent(ledger, contract, s)}

\* superclarity.mjs:334: the command that `status` names would be accepted, if
\* the contract's revision and ids are what they must be.  It is not for: a
\* compact contract that is told to check its execution gate, which is always
\* refused (LedgerAdmitsExecutionGate): another compact gate is accepted then,
\* which is not named, if nothing was started and the contract could have had
\* one; a compact contract whose capability is only resolved, or that differs
\* from what was approved and is told to check its terms; a full contract without
\* a plan or a capability, edited so after an approval; and a step that owes an
\* inspection, which is not named.
NextIsRunnable ==
  LET advice == Advice(ledger, torn, contract, Accepted)
      numbered == RevisionIsNext /\ IdsAreNew
      compact == contract.mode = "compact"
      fresh == /\ Of(ledger, "step-started") = {} /\ Opened(ledger) = 0 /\ ~Pending(contract)
               /\ contract.terms.capability.readiness = "ready"
  IN /\ numbered =>
          /\ advice = "check-compact" =>
               MayCheckCompact \/ contract.terms.capability.readiness = "resolved"
          /\ advice = "check-terms" => MayCheckTerms \/ compact
          /\ advice = "check-execution" =>
               \/ MayCheckExecution
               \/ compact /\ (fresh => MayCheckCompact)
               \/ ContentDiffers(ledger, contract) /\ (Pending(contract) \/ ~Executable(contract))
          /\ advice = "check-action" =>
               \E s \in ToMove : MayCheckAction(s, "primary") \/ Owed(ledger, contract, s)
     /\ advice = "start-step" => \E s \in ToMove : MayStart(s) \/ Owed(ledger, contract, s)
     /\ advice = "reconcile-step" => \E s \in StepIds : MayFinish(s)
     /\ advice = "assess-fallback" =>
          \E s \in ToMove : \/ MayFallBack(s) \/ Owed(ledger, contract, s)
                            \/ numbered => MayCheckAction(s, "fallback")
=============================================================================
