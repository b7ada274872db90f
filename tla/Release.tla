------------------------------- MODULE Release -------------------------------
(***************************************************************************)
(* A release of the hosted agent and its console                           *)
(* (scripts/release_hosted_agent.py): gates, local validation, the two     *)
(* images, a new version of the agent cloned from the newest active one,   *)
(* its verification, the switch of the console with its rollback, and the  *)
(* receipt.  Releases follow one another; each may use fresh images or the *)
(* images of an earlier tag.                                               *)
(*                                                                         *)
(* Every command and request may fail, and one that changes something may  *)
(* fail after it took effect.  The process may be killed between any two   *)
(* steps.  The n-th release makes tag n and, if it creates a version of    *)
(* the agent, version n; tag 0 and version 0 were there before.            *)
(***************************************************************************)
EXTENDS Integers

CONSTANTS Releases,     \* how many releases are run
          Polls,        \* how often the activation of a version is asked for
          Environment,  \* the variables of version 0
          Retired       \* variables that no build reads any more

ASSUME ReleaseConstants == Releases \in Nat /\ Polls \in Nat

Tags == 0..Releases
VersionIds == 0..Releases
Unset == -1             \* no FOUNDRY_AGENT_VERSION; an image that cannot be read

VARIABLES n,          \* releases begun
          step,       \* where the release is
          run,        \* its options and what it has learnt
          registry,   \* per repository the tags that can be pulled
          versions,   \* the versions of the agent
          console,    \* the image and the agent version of the web app
          containers, \* tags of local containers that run
          outcome,    \* how the last release ended
          receipts,   \* the receipts written
          verified,   \* versions for which the endpoint gave the expected answer
          excused,    \* versions that were left behind with an error or a kill
          torn        \* the switch of the console was left half done
external == <<registry, versions, console, containers>>
history == <<receipts, verified, excused>>
vars == <<n, step, run, external, outcome, history, torn>>

-----------------------------------------------------------------------------
(* Versions of the agent.                                                  *)

Absent == [image |-> Unset, status |-> "absent", speaks |-> {}, env |-> {}]
Active == {v \in VersionIds : versions[v].status = "active"}
Newest(v) == \A w \in Active : w <= v

\* Mutant: the protocols of the source are inherited.
CloneAsDeclared(source, tag) ==
  [image |-> tag, status |-> "creating", speaks |-> source.speaks,
   env |-> source.env \ Retired]

\* A clone runs the new image, speaks both protocols and drops what retired.
Clone(source, tag) ==
  [image |-> tag, status |-> "creating",
   speaks |-> source.speaks \cup {"responses", "activity"},
   env |-> source.env \ Retired]

Marked(v, status) == [versions EXCEPT ![v].status = status]

\* The platform brings a new version up, or fails to, whenever it likes.
Provision(v) ==
  /\ versions[v].status = "creating"
  /\ \E s \in {"active", "failed"} : versions' = Marked(v, s)
  /\ UNCHANGED <<n, step, run, registry, console, containers, outcome, history, torn>>

-----------------------------------------------------------------------------
(* How a step ends.                                                        *)

Proceeds(next) == step' = next /\ UNCHANGED <<outcome, containers, torn>>

\* The release ends; its container is removed, and nobody hears when that fails.
Ends(result) ==
  /\ step' = "idle" /\ outcome' = result
  /\ containers' \in {containers, IF run.named THEN containers \ {run.tag} ELSE containers}
  /\ torn' = (\/ result = "rollback_incomplete"
              \/ torn /\ (result \in {"released", "unreceipted"} => run.skipWebui))

\* Mutant: the version is deleted although an earlier release created it.
RejectDeletesAny == Proceeds("delete")

\* The version is refused: deleted if this release created it.
Reject == IF run.created THEN Proceeds("delete") ELSE Ends("failed")

-----------------------------------------------------------------------------
(* Gates, local validation, images.                                        *)

NoConsole == [image |-> Unset, setting |-> Unset]

Begin(tag, fast, buildOnly, skipWebui) ==
  /\ step = "idle" /\ n < Releases
  /\ n' = n + 1
  /\ run' = [tag |-> tag, fast |-> fast, buildOnly |-> buildOnly, skipWebui |-> skipWebui,
             named |-> FALSE, source |-> 0, version |-> 0, created |-> FALSE, polls |-> Polls,
             before |-> console, previous |-> NoConsole, restored |-> FALSE, errors |-> {}]
  /\ Proceeds("gates")
  /\ UNCHANGED <<registry, versions, console, history>>

Gates ==
  /\ step = "gates"
  /\ Proceeds(IF run.fast THEN "hosted" ELSE "start_local") \/ Ends("failed")
  /\ UNCHANGED <<n, run, registry, versions, console, history>>

\* The container needs the port to itself; one left behind keeps it.
StartLocal ==
  /\ step = "start_local"
  /\ run' = [run EXCEPT !.named = TRUE]
  /\ \/ /\ containers = {} /\ containers' = {run.tag}
        /\ step' = "check_local" /\ UNCHANGED <<outcome, torn>>
     \/ /\ containers' \in {containers, containers \ {run.tag}}
        /\ step' = "idle" /\ outcome' = "failed" /\ UNCHANGED torn
  /\ UNCHANGED <<n, registry, versions, console, history>>

CheckLocal ==
  /\ step = "check_local"
  /\ Proceeds("hosted") \/ Ends("failed")
  /\ UNCHANGED <<n, run, registry, versions, console, history>>

Reused == run.tag < n
Built(repository) ==
  registry' = [registry EXCEPT ![repository] = IF Reused THEN @ ELSE @ \cup {run.tag}]

\* An image is built or, for an earlier tag, looked up.
Image(repository, next) ==
  \/ (Reused => run.tag \in registry[repository]) /\ Built(repository) /\ next
  \/ Ends("failed") /\ (Built(repository) \/ UNCHANGED registry)

AfterImages == IF run.buildOnly THEN Ends("build_only") ELSE Proceeds("source")

HostedImage ==
  /\ step = "hosted"
  /\ Image("hosted", IF run.skipWebui THEN AfterImages ELSE Proceeds("webui"))
  /\ UNCHANGED <<n, run, versions, console, history>>

WebuiImage ==
  /\ step = "webui"
  /\ Image("webui", AfterImages)
  /\ UNCHANGED <<n, run, versions, console, history>>

-----------------------------------------------------------------------------
(* The version of the agent.                                               *)

\* The newest active version is cloned, or taken as it is if it already runs
\* the image.
LoadSource ==
  /\ step = "source"
  /\ \/ \E source \in Active :
          LET created == versions[source].image # run.tag IN
          /\ Newest(source)
          /\ run' = [run EXCEPT !.source = source, !.created = created,
                                !.version = IF created THEN n ELSE source]
          /\ Proceeds(IF created THEN "create" ELSE "verify")
     \/ Ends("failed") /\ UNCHANGED run
  /\ UNCHANGED <<n, registry, versions, console, history>>

Created == versions' = [versions EXCEPT ![n] = Clone(versions[run.source], run.tag)]

\* A version whose creation is not answered with its identifier is left.
CreateVersion ==
  /\ step = "create"
  /\ \/ Created /\ Proceeds("activate") /\ UNCHANGED excused
     \/ Ends("failed") /\ UNCHANGED <<versions, excused>>
     \/ Ends("failed") /\ Created /\ excused' = excused \cup {n}
  /\ UNCHANGED <<n, run, registry, console, receipts, verified>>

\* Mutants: the time left is not counted down; it is not compared with zero.
AwaitForEver ==
  /\ step = "activate"
  /\ \/ versions[run.version].status = "active" /\ Proceeds("verify") /\ UNCHANGED run
     \/ versions[run.version].status = "creating" /\ Proceeds("activate") /\ UNCHANGED run
     \/ versions[run.version].status = "failed" /\ Reject /\ UNCHANGED run
  /\ UNCHANGED <<n, registry, versions, console, history>>

AwaitBelowZero ==
  /\ step = "activate"
  /\ \/ versions[run.version].status = "active" /\ Proceeds("verify") /\ UNCHANGED run
     \/ /\ versions[run.version].status = "creating" /\ run.polls >= 0
        /\ run' = [run EXCEPT !.polls = @ - 1] /\ Proceeds("activate")
     \/ Reject /\ UNCHANGED run
  /\ UNCHANGED <<n, registry, versions, console, history>>

\* The version is asked for until it is active, failed, or the time is up; a
\* request that fails ends the wait as well.
AwaitActive ==
  /\ step = "activate"
  /\ \/ versions[run.version].status = "active" /\ Proceeds("verify") /\ UNCHANGED run
     \/ /\ versions[run.version].status = "creating" /\ run.polls > 0
        /\ run' = [run EXCEPT !.polls = @ - 1] /\ Proceeds("activate")
     \/ Reject /\ UNCHANGED run
  /\ UNCHANGED <<n, registry, versions, console, history>>

\* The agent's endpoint has to answer with the expected question.  It is asked
\* by the name of the agent, not of the version (external: the platform routes
\* to the newest active one).
VerifyEndpoint ==
  /\ step = "verify"
  /\ \/ /\ verified' = verified \cup {run.version}
        /\ Proceeds(IF run.skipWebui THEN "receipt" ELSE "read_console")
     \/ Reject /\ UNCHANGED verified
  /\ UNCHANGED <<n, run, registry, versions, console, receipts, excused>>

\* Mutant: a deletion that fails is not mentioned.
DeleteVersionQuietly ==
  /\ step = "delete" /\ Ends("failed")
  /\ \E status \in {versions[run.version].status, "deleted"} :
       versions' = Marked(run.version, status)
  /\ UNCHANGED <<n, run, registry, console, history>>

\* A version is deleted, or the error names what could not be deleted.
DeleteVersion ==
  /\ step = "delete" /\ Ends("failed")
  /\ \/ /\ versions' = Marked(run.version, "deleted")
        /\ excused' \in {excused, excused \cup {run.version}}
     \/ UNCHANGED versions /\ excused' = excused \cup {run.version}
  /\ UNCHANGED <<n, run, registry, console, receipts, verified>>

-----------------------------------------------------------------------------
(* The switch of the console and its rollback.                             *)

ReadConsole ==
  /\ step = "read_console"
  /\ \/ run' = [run EXCEPT !.previous = console] /\ Proceeds("set_version")
     \/ Ends("failed") /\ UNCHANGED run
  /\ UNCHANGED <<n, registry, versions, console, history>>

\* A step of the switch: c is the console once it took effect.
Switch(c, next) ==
  /\ \/ console' = c /\ Proceeds(next)
     \/ console' \in {console, c} /\ Proceeds("undo_image")
  /\ UNCHANGED <<n, run, registry, versions, history>>

\* Mutant: the version is set only when this release created it.
SetVersionIfCreated ==
  /\ step = "set_version"
  /\ Switch(IF run.created THEN [console EXCEPT !.setting = run.version] ELSE console,
            "set_image")

SetVersion ==
  step = "set_version" /\ Switch([console EXCEPT !.setting = run.version], "set_image")
SetImage ==
  step = "set_image" /\ Switch([console EXCEPT !.image = run.tag], "check_console")
\* The restart, the wait for the console and the refused turn.
CheckConsole == step = "check_console" /\ Switch(console, "receipt")

\* A step of the rollback: fails with or without effect, and goes on.
Undo(c, error) ==
  \/ console' = c /\ run' = [run EXCEPT !.restored = TRUE]
  \/ console' \in {console, c} /\ run' = [run EXCEPT !.errors = @ \cup {error}]

UndoImage ==
  /\ step = "undo_image" /\ Proceeds("undo_version")
  /\ IF run.previous.image = Unset
       THEN run' = [run EXCEPT !.errors = @ \cup {"image"}] /\ UNCHANGED console
       ELSE Undo([console EXCEPT !.image = run.previous.image], "image")
  /\ UNCHANGED <<n, registry, versions, history>>

\* Mutant: a version that was not set before is not removed.
UndoVersionIfSet ==
  /\ step = "undo_version" /\ Proceeds("undo_restart")
  /\ Undo(IF run.previous.setting = Unset THEN console
          ELSE [console EXCEPT !.setting = run.previous.setting], "version")
  /\ UNCHANGED <<n, registry, versions, history>>

UndoVersion ==
  /\ step = "undo_version" /\ Proceeds("undo_restart")
  /\ Undo([console EXCEPT !.setting = run.previous.setting], "version")
  /\ UNCHANGED <<n, registry, versions, history>>

UndoRestart ==
  /\ step = "undo_restart" /\ Proceeds("undo_ready")
  /\ \/ UNCHANGED run
     \/ run.restored /\ run' = [run EXCEPT !.errors = @ \cup {"restart"}]
  /\ UNCHANGED <<n, registry, versions, console, history>>

\* Mutant: the new version is deleted together with the failed switch.
UndoDeletesVersion ==
  /\ step = "undo_ready"
  /\ IF run.errors = {} THEN Ends("rolled_back") \/ Ends("rollback_failed")
                        ELSE Ends("rollback_incomplete")
  /\ versions' = Marked(run.version, "deleted")
  /\ UNCHANGED <<n, run, registry, console, history>>

UndoReady ==
  /\ step = "undo_ready"
  /\ IF run.errors = {} THEN Ends("rolled_back") \/ Ends("rollback_failed")
                        ELSE Ends("rollback_incomplete")
  /\ UNCHANGED <<n, run, registry, versions, console, history>>

\* The last step: when it fails, everything else stays as it is.
WriteReceipt ==
  /\ step = "receipt"
  /\ \/ /\ receipts' = receipts \cup
             {[tag |-> run.tag, version |-> run.version, webui |-> ~run.skipWebui]}
        /\ Ends("released")
     \/ Ends("unreceipted") /\ UNCHANGED receipts
  /\ UNCHANGED <<n, run, registry, versions, console, verified, excused>>

\* The process is killed, or interrupted: no rollback, perhaps the container
\* is removed.
HalfWay == {"set_image", "undo_image", "undo_version", "undo_restart", "undo_ready"}
Kill ==
  /\ step # "idle"
  /\ step' = "idle" /\ outcome' = "killed"
  /\ containers' \in {containers, containers \ {run.tag}}
  /\ torn' = (torn \/ step \in HalfWay)
  /\ excused' = excused \cup IF run.created THEN {run.version} ELSE {}
  /\ UNCHANGED <<n, run, registry, versions, console, receipts, verified>>

Step ==
  \/ Gates \/ StartLocal \/ CheckLocal \/ HostedImage \/ WebuiImage
  \/ LoadSource \/ CreateVersion \/ AwaitActive \/ VerifyEndpoint \/ DeleteVersion
  \/ ReadConsole \/ SetVersion \/ SetImage \/ CheckConsole
  \/ UndoImage \/ UndoVersion \/ UndoRestart \/ UndoReady \/ WriteReceipt

Init ==
  /\ n = 0 /\ step = "idle" /\ outcome = "none"
  /\ run = [tag |-> 0, fast |-> FALSE, buildOnly |-> FALSE, skipWebui |-> FALSE,
            named |-> FALSE, source |-> 0, version |-> 0, created |-> FALSE, polls |-> 0,
            before |-> NoConsole, previous |-> NoConsole, restored |-> FALSE, errors |-> {}]
  /\ registry = [r \in {"hosted", "webui"} |-> {}]
  /\ versions = [v \in VersionIds |-> IF v = 0 THEN
       [image |-> 0, status |-> "active", speaks |-> {"responses"}, env |-> Environment]
       ELSE Absent]
  /\ console \in [image : {0, Unset}, setting : {0, Unset}]
  /\ containers = {} /\ receipts = {} /\ verified = {0} /\ excused = {} /\ torn = FALSE

Next ==
  \/ \E tag \in 1..n + 1 : \E fast, buildOnly, skipWebui \in BOOLEAN :
       Begin(tag, fast, buildOnly, skipWebui)
  \/ Step
  \/ \E v \in VersionIds : Provision(v)
  \/ Kill

Spec == Init /\ [][Next]_vars

\* Every command and request returns or times out.
FairSpec == Spec /\ WF_vars(Step)

-----------------------------------------------------------------------------
(* Properties.                                                             *)

Steps == {"idle", "gates", "start_local", "check_local", "hosted", "webui", "source", "create",
          "activate", "verify", "delete", "read_console", "set_version", "set_image",
          "check_console", "undo_image", "undo_version", "undo_restart", "undo_ready", "receipt"}
Console == [image : Tags \cup {Unset}, setting : VersionIds \cup {Unset}]
Run == [tag : Tags, fast : BOOLEAN, buildOnly : BOOLEAN, skipWebui : BOOLEAN, named : BOOLEAN,
        source : VersionIds, version : VersionIds, created : BOOLEAN, polls : 0..Polls,
        before : Console, previous : Console, restored : BOOLEAN,
        errors : SUBSET {"image", "version", "restart"}]
Version == [image : Tags \cup {Unset},
            status : {"absent", "creating", "active", "failed", "deleted"},
            speaks : SUBSET {"responses", "activity"}, env : SUBSET Environment]
Outcomes == {"none", "released", "build_only", "failed", "rolled_back", "rollback_failed",
             "rollback_incomplete", "unreceipted", "killed"}

TypeOK ==
  /\ n \in 0..Releases /\ step \in Steps /\ run \in Run
  /\ registry \in [{"hosted", "webui"} -> SUBSET Tags]
  /\ versions \in [VersionIds -> Version]
  /\ console \in Console /\ containers \subseteq Tags /\ outcome \in Outcomes
  /\ receipts \subseteq [tag : Tags, version : VersionIds, webui : BOOLEAN]
  /\ verified \subseteq VersionIds /\ excused \subseteq VersionIds /\ torn \in BOOLEAN

\* A receipt stays true, whatever later releases do, retry or break off: its
\* version is active, runs its image, was verified, and its images are in the
\* registry (run writes the receipt last; _delete_failed_version is for
\* versions of the own release only).
ReceiptIsTrue ==
  \A r \in receipts :
    /\ versions[r.version].status = "active" /\ versions[r.version].image = r.tag
    /\ r.version \in verified
    /\ r.tag \in registry["hosted"] /\ (r.webui => r.tag \in registry["webui"])

\* The console never names a version of the agent that was deleted, is not
\* active or was not verified, also in the middle of a switch, of a rollback
\* that fails, or after a kill (_deploy_webui runs after the verification).
ConsoleNamesVerified ==
  console.setting # Unset =>
    versions[console.setting].status = "active" /\ console.setting \in verified

\* A release that fails has left the console as it was before the release,
\* unless it reported an incomplete rollback (_deploy_webui, the except branch)
\* or failed in writing its receipt: by then the console is switched, and
\* nothing puts it back or says so (run, _write_receipt).  It is switched in
\* full then, to what this release verified.
FailureLeavesConsole ==
  step = "idle" =>
    /\ outcome \in {"failed", "build_only", "rolled_back", "rollback_failed"} =>
         console = run.before
    /\ outcome = "unreceipted" =>
         console = IF run.skipWebui THEN run.before
                   ELSE [image |-> run.tag, setting |-> run.version]

\* Between releases the image and the agent version of the console belong
\* together, unless an incomplete rollback was reported or a switch was killed
\* and no switch has completed since.
ConsoleIsWhole ==
  step = "idle" /\ ~torn =>
    \/ console.image \in {0, Unset} /\ console.setting \in {0, Unset}
    \/ console.setting # Unset /\ versions[console.setting].image = console.image

\* Between releases no version is left that was never verified, except where
\* the error said so (a deletion that failed, a creation without an
\* identifier) or the release was killed (run, the inner except branch).
FailedVersionsRemoved ==
  step = "idle" =>
    \A v \in VersionIds \ (verified \cup excused) : versions[v].status \in {"absent", "deleted"}

\* Along any chain of clones a version keeps the variables of its source
\* except retired ones, and answers both the console and Teams
\* (_clone_version_payload, _scrub_retired_environment).
CloneCarriesOn ==
  \A v \in VersionIds \ {0} : versions[v].status # "absent" =>
    /\ {"responses", "activity"} \subseteq versions[v].speaks
    /\ versions[v].env = Environment \ Retired

\* A release ends, although the platform may leave a version in creation for
\* ever (_wait_for_version_active counts the time down).
ReleaseEnds == step # "idle" ~> step = "idle"

\* What was verified stays in service and what was not is removed, across
\* releases that follow, reuse, retry or break off: receipts, the console's
\* version, the variables of every clone, and what is left between releases
\* (run, _clone_version_payload, _delete_failed_version).
VerifiedStays ==
  /\ TypeOK
  /\ ReceiptIsTrue /\ ConsoleNamesVerified /\ CloneCarriesOn /\ FailedVersionsRemoved

\* The console survives a failed release: it is put back, or the error says
\* that it is not, or only the receipt is missing and the release, of which the
\* error says nothing, stays in place; and its image and its version belong
\* together (_deploy_webui, _write_receipt).
ConsoleSurvives == FailureLeavesConsole /\ ConsoleIsWhole

=============================================================================
