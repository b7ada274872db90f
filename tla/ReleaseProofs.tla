---------------------------- MODULE ReleaseProofs ----------------------------
(***************************************************************************)
(* Theorems about Release for any number of releases, any variables and    *)
(* any time limit: what was verified stays in service, what was not is     *)
(* removed, and the console survives a failed release.                     *)
(***************************************************************************)
EXTENDS Release, TLAPS

-----------------------------------------------------------------------------
(* The inductive invariant.                                                *)

Making == {"gates", "start_local", "check_local", "hosted", "webui", "source", "create"}
Vetting == {"activate", "verify", "delete"}
Undoing == {"undo_image", "undo_version", "undo_restart", "undo_ready"}
Switching == {"set_version", "set_image", "check_console"} \cup Undoing
Accepted == {"read_console", "receipt"} \cup Switching
Imaged == {"source", "create"} \cup Vetting \cup Accepted

\* Versions come into being one per release, in order, as clones, and the
\* verified ones are active.
VersionsInv ==
  /\ \A v \in VersionIds : v > n => versions[v].status = "absent"
  /\ 0 \in verified /\ versions[0].env = Environment
  /\ \A v \in verified : versions[v].status = "active"
  /\ step \in Making => versions[n].status = "absent"
  /\ CloneCarriesOn

\* The version a release works on: its own until it is verified, of its
\* image, and the only one that is neither verified, excused nor gone.
RunInv ==
  /\ run.created => run.version = n
  /\ step \in Making \ {"create"} => ~run.created
  /\ step = "create" => run.created /\ versions[run.source].status # "absent"
  /\ step \in {"activate", "delete"} => run.created
  /\ step \in Vetting => /\ versions[run.version].image = run.tag
                         /\ versions[run.version].status # "absent"
                         /\ run.created => n \notin verified
  /\ step = "verify" => versions[run.version].status = "active"
  /\ step \in Accepted => run.version \in verified /\ versions[run.version].image = run.tag
  /\ \A v \in VersionIds \ (verified \cup excused) :
       \/ versions[v].status \in {"absent", "deleted"}
       \/ step \in Vetting /\ run.created /\ v = n

\* The images a release needs are in the registry before it looks for a source.
ImagesInv ==
  /\ step \in Imaged \cup {"webui"} => run.tag \in registry["hosted"]
  /\ step \in Imaged /\ ~run.skipWebui => run.tag \in registry["webui"]

\* The image and the version of a console belong together.
MatchingIn(all, c) ==
  \/ c.image \in {0, Unset} /\ c.setting \in {0, Unset}
  \/ c.setting # Unset /\ all[c.setting].image = c.image

Matching(c) == MatchingIn(versions, c)

\* The console is untouched until it is switched, the switch knows what to go
\* back to, and a rollback without errors so far has put back what it tried.
ConsoleInv ==
  /\ console.setting \in verified \cup {Unset}
  /\ step \in Making \cup Vetting \cup {"read_console", "set_version"} =>
       console = run.before /\ (~torn => Matching(console))
  /\ step \in Switching =>
       /\ run.previous = run.before /\ run.before.setting \in verified \cup {Unset}
       /\ ~torn => Matching(run.before)
  /\ step \in Switching \cup {"read_console"} => ~run.skipWebui
  /\ step = "set_image" => console.setting = run.version
  /\ step = "check_console" \/ (step = "receipt" /\ ~run.skipWebui) =>
       console.image = run.tag /\ console.setting = run.version
  /\ step = "receipt" /\ run.skipWebui => console = run.before /\ (~torn => Matching(console))
  /\ step \in {"undo_version", "undo_restart", "undo_ready"} /\ run.errors = {} =>
       console.image = run.before.image
  /\ step \in {"undo_restart", "undo_ready"} /\ run.errors = {} => console = run.before
  /\ FailureLeavesConsole
  /\ step = "idle" /\ ~torn => Matching(console)

Inv == TypeOK /\ VersionsInv /\ RunInv /\ ImagesInv /\ ReceiptIsTrue /\ ConsoleInv

-----------------------------------------------------------------------------
(* How the shared parts of the steps act on well-typed states.             *)

\* A release ends idle, and the console is left torn or whole as its end says.
LEMMA EndsEffect ==
  ASSUME TypeOK, NEW result \in Outcomes, Ends(result)
  PROVE  /\ step' = "idle" /\ outcome' = result /\ outcome' \in Outcomes
         /\ containers' \subseteq Tags /\ torn' \in BOOLEAN
         /\ result = "rollback_incomplete" => torn'
         /\ result \in {"failed", "build_only", "rolled_back", "rollback_failed"} => torn' = torn
         /\ result \in {"released", "unreceipted"} => torn' = (torn /\ run.skipWebui)
  BY DEF TypeOK, Ends, Run

\* Marking a version with a status changes nothing else.
LEMMA MarkedVersions ==
  ASSUME TypeOK, NEW v \in VersionIds, NEW s \in {"active", "failed", "deleted"}
  PROVE  /\ Marked(v, s) \in [VersionIds -> Version]
         /\ Marked(v, s)[v].status = s
         /\ \A w \in VersionIds :
              /\ w # v => Marked(v, s)[w] = versions[w]
              /\ Marked(v, s)[w].image = versions[w].image
              /\ Marked(v, s)[w].env = versions[w].env
              /\ Marked(v, s)[w].speaks = versions[w].speaks
<1>1. versions[v] \in Version
  BY DEF TypeOK
<1>2. [versions[v] EXCEPT !.status = s] =
        [image |-> versions[v].image, status |-> s,
         speaks |-> versions[v].speaks, env |-> versions[v].env]
  BY <1>1 DEF Version
<1>3. [versions[v] EXCEPT !.status = s] \in Version
  BY <1>1 DEF Version
<1>4. Marked(v, s) = [w \in VersionIds |-> IF w = v THEN [versions[v] EXCEPT !.status = s]
                                                    ELSE versions[w]]
  BY <1>3 DEF Marked, TypeOK
<1>5. QED
  BY <1>2, <1>3, <1>4 DEF TypeOK

\* Creating a version clones the source into the version of this release and
\* changes no other.
LEMMA CreatedVersions ==
  ASSUME TypeOK, Created
  PROVE  /\ versions' \in [VersionIds -> Version]
         /\ \A w \in VersionIds \ {n} : versions'[w] = versions[w]
         /\ versions'[n].image = run.tag /\ versions'[n].status = "creating"
         /\ versions'[n].speaks = versions[run.source].speaks \cup {"responses", "activity"}
         /\ versions'[n].env = versions[run.source].env \ Retired
<1>1. /\ run.source \in VersionIds /\ run.tag \in Tags /\ n \in VersionIds
      /\ versions[run.source] \in Version
  BY DEF TypeOK, Run, VersionIds
<1>2. Clone(versions[run.source], run.tag) \in Version
  BY <1>1 DEF Clone, Version
<1>3. /\ versions' \in [VersionIds -> Version]
      /\ \A w \in VersionIds \ {n} : versions'[w] = versions[w]
      /\ versions'[n] = Clone(versions[run.source], run.tag)
  BY <1>1, <1>2 DEF Created, TypeOK
<1>4. QED
  BY <1>3 DEF Clone

-----------------------------------------------------------------------------
(* Types.                                                                  *)

\* Every step of a release keeps the state well typed.
LEMMA StepKeepsTypes == TypeOK /\ Step => TypeOK'
<1> SUFFICES ASSUME TypeOK, Step PROVE TypeOK'
  OBVIOUS
<1>0. /\ run \in Run /\ run.tag \in Tags /\ run.version \in VersionIds
      /\ run.source \in VersionIds /\ run.skipWebui \in BOOLEAN
      /\ n \in VersionIds /\ console \in Console /\ run.previous \in Console
  BY DEF TypeOK, Run, VersionIds
<1>1. CASE Gates
  BY <1>1, EndsEffect DEF Gates, Proceeds, TypeOK, Steps, Outcomes, history
<1>2. CASE StartLocal
  <2>1. run' \in Run
    BY <1>0, <1>2 DEF StartLocal, Run
  <2>2. QED
    BY <1>0, <1>2, <2>1 DEF StartLocal, TypeOK, Steps, Outcomes, history
<1>3. CASE CheckLocal
  BY <1>3, EndsEffect DEF CheckLocal, Proceeds, TypeOK, Steps, Outcomes, history
<1>4. CASE HostedImage
  <2>1. registry' \in [{"hosted", "webui"} -> SUBSET Tags]
    BY <1>0, <1>4 DEF HostedImage, Image, Built, TypeOK
  <2>2. /\ step' \in Steps /\ outcome' \in Outcomes
        /\ containers' \subseteq Tags /\ torn' \in BOOLEAN
    BY <1>4, EndsEffect DEF HostedImage, Image, AfterImages, Proceeds, TypeOK, Steps, Outcomes
  <2>3. QED
    BY <1>4, <2>1, <2>2 DEF HostedImage, TypeOK, history
<1>5. CASE WebuiImage
  <2>1. registry' \in [{"hosted", "webui"} -> SUBSET Tags]
    BY <1>0, <1>5 DEF WebuiImage, Image, Built, TypeOK
  <2>2. /\ step' \in Steps /\ outcome' \in Outcomes
        /\ containers' \subseteq Tags /\ torn' \in BOOLEAN
    BY <1>5, EndsEffect DEF WebuiImage, Image, AfterImages, Proceeds, TypeOK, Steps, Outcomes
  <2>3. QED
    BY <1>5, <2>1, <2>2 DEF WebuiImage, TypeOK, history
<1>6. CASE LoadSource
  <2>1. run' \in Run
    BY <1>0, <1>6 DEF LoadSource, Active, Run
  <2>2. /\ step' \in Steps /\ outcome' \in Outcomes
        /\ containers' \subseteq Tags /\ torn' \in BOOLEAN
    BY <1>6, EndsEffect DEF LoadSource, Proceeds, TypeOK, Steps, Outcomes
  <2>3. QED
    BY <1>6, <2>1, <2>2 DEF LoadSource, TypeOK, history
<1>7. CASE CreateVersion
  <2>1. versions' \in [VersionIds -> Version] /\ excused' \subseteq VersionIds
    BY <1>0, <1>7, CreatedVersions DEF CreateVersion, TypeOK
  <2>2. /\ step' \in Steps /\ outcome' \in Outcomes
        /\ containers' \subseteq Tags /\ torn' \in BOOLEAN
    BY <1>7, EndsEffect DEF CreateVersion, Proceeds, TypeOK, Steps, Outcomes
  <2>3. QED
    BY <1>7, <2>1, <2>2 DEF CreateVersion, TypeOK
<1>8. CASE AwaitActive
  <2>1. run' \in Run
    BY ReleaseConstants, <1>0, <1>8 DEF AwaitActive, Run
  <2>2. /\ step' \in Steps /\ outcome' \in Outcomes
        /\ containers' \subseteq Tags /\ torn' \in BOOLEAN
    BY <1>8, EndsEffect DEF AwaitActive, Reject, Proceeds, TypeOK, Steps, Outcomes
  <2>3. QED
    BY <1>8, <2>1, <2>2 DEF AwaitActive, TypeOK, history
<1>9. CASE VerifyEndpoint
  <2>1. verified' \subseteq VersionIds
    BY <1>0, <1>9 DEF VerifyEndpoint, TypeOK
  <2>2. /\ step' \in Steps /\ outcome' \in Outcomes
        /\ containers' \subseteq Tags /\ torn' \in BOOLEAN
    BY <1>9, EndsEffect DEF VerifyEndpoint, Reject, Proceeds, TypeOK, Steps, Outcomes
  <2>3. QED
    BY <1>9, <2>1, <2>2 DEF VerifyEndpoint, TypeOK
<1>10. CASE DeleteVersion
  <2>1. versions' \in [VersionIds -> Version] /\ excused' \subseteq VersionIds
    BY <1>0, <1>10, MarkedVersions DEF DeleteVersion, TypeOK
  <2>2. /\ step' \in Steps /\ outcome' \in Outcomes
        /\ containers' \subseteq Tags /\ torn' \in BOOLEAN
    BY <1>10, EndsEffect DEF DeleteVersion, TypeOK, Steps, Outcomes
  <2>3. QED
    BY <1>10, <2>1, <2>2 DEF DeleteVersion, TypeOK
<1>11. CASE ReadConsole
  <2>1. run' \in Run
    BY <1>0, <1>11 DEF ReadConsole, Run
  <2>2. /\ step' \in Steps /\ outcome' \in Outcomes
        /\ containers' \subseteq Tags /\ torn' \in BOOLEAN
    BY <1>11, EndsEffect DEF ReadConsole, Proceeds, TypeOK, Steps, Outcomes
  <2>3. QED
    BY <1>11, <2>1, <2>2 DEF ReadConsole, TypeOK, history
<1>12. CASE SetVersion
  <2>1. [console EXCEPT !.setting = run.version] \in Console
    BY <1>0 DEF Console
  <2>2. QED
    BY <1>0, <1>12, <2>1 DEF SetVersion, Switch, Proceeds, TypeOK, Steps, history
<1>13. CASE SetImage
  <2>1. [console EXCEPT !.image = run.tag] \in Console
    BY <1>0 DEF Console
  <2>2. QED
    BY <1>0, <1>13, <2>1 DEF SetImage, Switch, Proceeds, TypeOK, Steps, history
<1>14. CASE CheckConsole
  BY <1>0, <1>14 DEF CheckConsole, Switch, Proceeds, TypeOK, Steps, history
<1>15. CASE UndoImage
  <2>1. console' \in Console
    BY <1>0, <1>15 DEF UndoImage, Undo, Console
  <2>2. run' \in Run
    BY <1>0, <1>15 DEF UndoImage, Undo, Run
  <2>3. QED
    BY <1>15, <2>1, <2>2 DEF UndoImage, Proceeds, TypeOK, Steps, history
<1>16. CASE UndoVersion
  <2>1. console' \in Console
    BY <1>0, <1>16 DEF UndoVersion, Undo, Console
  <2>2. run' \in Run
    BY <1>0, <1>16 DEF UndoVersion, Undo, Run
  <2>3. QED
    BY <1>16, <2>1, <2>2 DEF UndoVersion, Proceeds, TypeOK, Steps, history
<1>17. CASE UndoRestart
  <2>1. run' \in Run
    BY <1>0, <1>17 DEF UndoRestart, Run
  <2>2. QED
    BY <1>17, <2>1 DEF UndoRestart, Proceeds, TypeOK, Steps, history
<1>18. CASE UndoReady
  BY <1>18, EndsEffect DEF UndoReady, TypeOK, Steps, Outcomes, history
<1>19. CASE WriteReceipt
  <2>1. (~run.skipWebui) \in BOOLEAN
    BY <1>0
  <2>2. [tag |-> run.tag, version |-> run.version, webui |-> ~run.skipWebui] \in
          [tag : Tags, version : VersionIds, webui : BOOLEAN]
    BY <1>0, <2>1
  <2>3. receipts' \subseteq [tag : Tags, version : VersionIds, webui : BOOLEAN]
    <3> DEFINE r == [tag |-> run.tag, version |-> run.version, webui |-> ~run.skipWebui]
    <3>1. receipts' \in {receipts, receipts \cup {r}}
      BY <1>19 DEF WriteReceipt
    <3>2. r \in [tag : Tags, version : VersionIds, webui : BOOLEAN]
      BY <2>2
    <3> HIDE DEF r
    <3>3. QED
      BY <3>1, <3>2 DEF TypeOK
  <2>4. /\ step' \in Steps /\ outcome' \in Outcomes
        /\ containers' \subseteq Tags /\ torn' \in BOOLEAN
    BY <1>19, EndsEffect DEF WriteReceipt, Steps, Outcomes
  <2>5. QED
    BY <1>19, <2>3, <2>4 DEF WriteReceipt, TypeOK
<1>20. QED
  BY <1>1, <1>2, <1>3, <1>4, <1>5, <1>6, <1>7, <1>8, <1>9, <1>10, <1>11, <1>12, <1>13, <1>14,
     <1>15, <1>16, <1>17, <1>18, <1>19 DEF Step

\* So does every other step, of the platform, of a new release or of a kill.
LEMMA NextKeepsTypes == Inv /\ [Next]_vars => TypeOK'
<1> SUFFICES ASSUME Inv, [Next]_vars PROVE TypeOK'
  OBVIOUS
<1>0. TypeOK
  BY DEF Inv
<1>1. CASE Step
  BY <1>0, <1>1, StepKeepsTypes
<1>2. ASSUME NEW tag \in 1..n + 1, NEW fast \in BOOLEAN, NEW buildOnly \in BOOLEAN,
             NEW skipWebui \in BOOLEAN, Begin(tag, fast, buildOnly, skipWebui)
      PROVE  TypeOK'
  <2>1. tag \in Tags /\ n + 1 \in 0..Releases /\ console \in Console /\ NoConsole \in Console
    BY ReleaseConstants, <1>0, <1>2 DEF Begin, TypeOK, Tags, NoConsole, Console
  <2>2. run' \in Run
    BY ReleaseConstants, <1>2, <2>1 DEF Begin, Run, VersionIds
  <2>3. QED
    BY <1>0, <1>2, <2>1, <2>2 DEF Begin, Proceeds, TypeOK, Steps, history
<1>3. ASSUME NEW v \in VersionIds, Provision(v) PROVE TypeOK'
  BY <1>0, <1>3, MarkedVersions DEF Provision, TypeOK, history
<1>4. CASE Kill
  <2>1. torn' \in BOOLEAN /\ excused' \subseteq VersionIds
    BY <1>0, <1>4 DEF Kill, TypeOK, Run
  <2>2. QED
    BY <1>0, <1>4, <2>1 DEF Kill, TypeOK, Steps, Outcomes
<1>5. CASE UNCHANGED vars
  BY <1>0, <1>5 DEF vars, external, history, TypeOK
<1>6. QED
  BY <1>1, <1>2, <1>3, <1>4, <1>5 DEF Next

-----------------------------------------------------------------------------
(* The versions.                                                           *)

\* Only four steps touch the versions or the verified ones.
LEMMA OthersLeaveVersions ==
  ASSUME TypeOK, Step, ~CreateVersion, ~VerifyEndpoint, ~DeleteVersion
  PROVE  /\ UNCHANGED <<n, versions, verified>>
         /\ step' \in Making => step \in Making
<1>1. UNCHANGED <<n, versions, verified>>
  BY DEF Step, Gates, StartLocal, CheckLocal, HostedImage, WebuiImage, LoadSource, AwaitActive,
         ReadConsole, SetVersion, SetImage, CheckConsole, Switch, UndoImage, UndoVersion,
         UndoRestart, UndoReady, WriteReceipt, history
<1>2. CASE Gates \/ StartLocal \/ CheckLocal \/ HostedImage \/ WebuiImage \/ LoadSource
  BY <1>1, <1>2 DEF Gates, StartLocal, CheckLocal, HostedImage, WebuiImage, LoadSource, Making
<1>3. CASE AwaitActive \/ ReadConsole
  BY <1>1, <1>3, EndsEffect DEF AwaitActive, ReadConsole, Reject, Proceeds, Outcomes, Making
<1>4. CASE SetVersion \/ SetImage \/ CheckConsole
  BY <1>1, <1>4 DEF SetVersion, SetImage, CheckConsole, Switch, Proceeds, Making
<1>5. CASE UndoImage \/ UndoVersion \/ UndoRestart
  BY <1>1, <1>5 DEF UndoImage, UndoVersion, UndoRestart, Proceeds, Making
<1>6. CASE UndoReady \/ WriteReceipt
  BY <1>1, <1>6, EndsEffect DEF UndoReady, WriteReceipt, Outcomes, Making
<1>7. QED
  BY <1>2, <1>3, <1>4, <1>5, <1>6 DEF Step

\* Whatever happens, a version keeps its image, and what is verified stays so.
LEMMA VersionsStay ==
  ASSUME Inv, Next
  PROVE  /\ \A v \in VersionIds : versions[v].status # "absent" =>
              versions'[v].status # "absent" /\ versions'[v].image = versions[v].image
         /\ verified \subseteq verified'
<1>0. /\ TypeOK /\ n \in VersionIds /\ run.version \in VersionIds
  BY DEF Inv, TypeOK, Run, VersionIds
<1>1. CASE CreateVersion
  <2>1. versions[n].status = "absent" /\ verified' = verified
    BY <1>1 DEF CreateVersion, Inv, VersionsInv, Making
  <2>2. QED
    BY <1>0, <1>1, <2>1, CreatedVersions DEF CreateVersion
<1>2. CASE VerifyEndpoint
  BY <1>2 DEF VerifyEndpoint
<1>3. CASE DeleteVersion
  <2>1. verified' = verified /\ versions' \in {versions, Marked(run.version, "deleted")}
    BY <1>3 DEF DeleteVersion
  <2>2. CASE versions' = Marked(run.version, "deleted")
    BY <1>0, <2>1, <2>2, MarkedVersions
  <2>3. QED
    BY <2>1, <2>2
<1>4. CASE Step /\ ~CreateVersion /\ ~VerifyEndpoint /\ ~DeleteVersion
  BY <1>0, <1>4, OthersLeaveVersions
<1>5. ASSUME NEW v \in VersionIds, Provision(v)
      PROVE  /\ \A w \in VersionIds : versions[w].status # "absent" =>
                  versions'[w].status # "absent" /\ versions'[w].image = versions[w].image
             /\ verified \subseteq verified'
  <2>1. verified' = verified
    BY <1>5 DEF Provision, history
  <2>2. PICK s \in {"active", "failed"} : versions' = Marked(v, s)
    BY <1>5 DEF Provision
  <2>3. /\ Marked(v, s)[v].status = s
        /\ \A w \in VersionIds : /\ w # v => Marked(v, s)[w] = versions[w]
                                 /\ Marked(v, s)[w].image = versions[w].image
    BY <1>0, MarkedVersions
  <2>4. ASSUME NEW w \in VersionIds, versions[w].status # "absent"
        PROVE  versions'[w].status # "absent" /\ versions'[w].image = versions[w].image
    BY <2>2, <2>3, <2>4
  <2>5. QED
    BY <2>1, <2>4
<1>6. CASE Kill
  BY <1>6 DEF Kill
<1>7. ASSUME NEW tag \in 1..n + 1, NEW fast \in BOOLEAN, NEW buildOnly \in BOOLEAN,
             NEW skipWebui \in BOOLEAN, Begin(tag, fast, buildOnly, skipWebui)
      PROVE  UNCHANGED <<versions, verified>>
  BY <1>7 DEF Begin, history
<1>8. QED
  BY <1>1, <1>2, <1>3, <1>4, <1>5, <1>6, <1>7 DEF Next

\* Versions come into being in order, as clones, and verified ones are active.
LEMMA NextKeepsVersions == Inv /\ [Next]_vars => VersionsInv'
<1> SUFFICES ASSUME Inv, [Next]_vars PROVE VersionsInv'
  OBVIOUS
<1>0. /\ TypeOK /\ VersionsInv /\ RunInv
      /\ n \in VersionIds /\ n \in Nat /\ run.version \in VersionIds /\ run.source \in VersionIds
      /\ verified \subseteq VersionIds /\ VersionIds \subseteq Nat /\ 0 \in VersionIds
  BY ReleaseConstants DEF Inv, TypeOK, Run, VersionIds
<1>1. CASE CreateVersion
  <2>1. /\ versions[n].status = "absent" /\ versions[run.source].status # "absent"
        /\ n \notin verified /\ n # 0
    BY <1>0, <1>1 DEF CreateVersion, VersionsInv, RunInv, Making
  <2>2. /\ UNCHANGED <<n, verified>> /\ step' \in {"activate", "idle"}
        /\ Created \/ UNCHANGED versions
    BY <1>0, <1>1, EndsEffect DEF CreateVersion, Proceeds, Outcomes
  <2>3. CASE UNCHANGED versions
    BY <1>0, <2>2, <2>3 DEF VersionsInv, CloneCarriesOn, Making
  <2>4. CASE Created
    <3>1. CloneCarriesOn'
      <4>1. {"responses", "activity"} \subseteq versions'[n].speaks
        BY <1>0, <2>4, CreatedVersions
      <4>2. versions[run.source].env \ Retired = Environment \ Retired
        BY <1>0, <2>1 DEF VersionsInv, CloneCarriesOn
      <4>3. QED
        BY <1>0, <2>4, <4>1, <4>2, CreatedVersions DEF VersionsInv, CloneCarriesOn
    <3>2. QED
      BY <1>0, <2>1, <2>2, <2>4, <3>1, CreatedVersions DEF VersionsInv, Making
  <2>5. QED
    BY <2>2, <2>3, <2>4
<1>2. CASE VerifyEndpoint
  <2>1. /\ UNCHANGED <<n, versions>> /\ versions[run.version].status = "active"
        /\ verified' \in {verified, verified \cup {run.version}}
    BY <1>0, <1>2 DEF VerifyEndpoint, RunInv
  <2>2. step' \notin Making
    BY <1>0, <1>2, EndsEffect DEF VerifyEndpoint, Reject, Proceeds, Outcomes, Making
  <2>3. QED
    BY <1>0, <2>1, <2>2 DEF VersionsInv, CloneCarriesOn
<1>3. CASE DeleteVersion
  <2>1. /\ UNCHANGED <<n, verified>> /\ step' = "idle"
        /\ versions' \in {versions, Marked(n, "deleted")}
        /\ n \notin verified /\ versions[n].status # "absent"
    BY <1>0, <1>3, EndsEffect DEF DeleteVersion, RunInv, Vetting, Outcomes
  <2>2. CASE UNCHANGED versions
    BY <1>0, <2>1, <2>2 DEF VersionsInv, CloneCarriesOn, Making
  <2>3. CASE versions' = Marked(n, "deleted")
    <3>1. CloneCarriesOn'
      BY <1>0, <2>1, <2>3, MarkedVersions DEF VersionsInv, CloneCarriesOn
    <3>2. QED
      BY <1>0, <2>1, <2>3, <3>1, MarkedVersions DEF VersionsInv, Making
  <2>4. QED
    BY <2>1, <2>2, <2>3
<1>4. CASE Step /\ ~CreateVersion /\ ~VerifyEndpoint /\ ~DeleteVersion
  BY <1>0, <1>4, OthersLeaveVersions DEF VersionsInv, CloneCarriesOn
<1>5. ASSUME NEW v \in VersionIds, Provision(v) PROVE VersionsInv'
  <2>1. /\ UNCHANGED <<n, verified, step>> /\ versions[v].status = "creating"
    BY <1>5 DEF Provision, history
  <2>2. PICK s \in {"active", "failed"} : versions' = Marked(v, s)
    BY <1>5 DEF Provision
  <2>3. CloneCarriesOn'
    BY <1>0, <2>1, <2>2, MarkedVersions DEF VersionsInv, CloneCarriesOn
  <2>4. /\ versions'[0].env = Environment
        /\ \A w \in VersionIds : versions[w].status # "creating" => versions'[w] = versions[w]
    BY <1>0, <2>1, <2>2, MarkedVersions DEF VersionsInv
  <2>5. /\ \A w \in verified' : versions'[w].status = "active"
        /\ \A w \in VersionIds : w > n' => versions'[w].status = "absent"
        /\ step' \in Making => versions'[n].status = "absent"
    BY <1>0, <2>1, <2>4 DEF VersionsInv
  <2>6. QED
    BY <1>0, <2>1, <2>3, <2>4, <2>5 DEF VersionsInv
<1>6. CASE Kill
  BY <1>0, <1>6 DEF Kill, VersionsInv, CloneCarriesOn, Making
<1>7. ASSUME NEW tag \in 1..n + 1, NEW fast \in BOOLEAN, NEW buildOnly \in BOOLEAN,
             NEW skipWebui \in BOOLEAN, Begin(tag, fast, buildOnly, skipWebui)
      PROVE  VersionsInv'
  <2>1. n' = n + 1 /\ n + 1 \in VersionIds /\ UNCHANGED <<versions, verified>>
    BY ReleaseConstants, <1>0, <1>7 DEF Begin, history, VersionIds
  <2>2. QED
    BY <1>0, <2>1 DEF VersionsInv, CloneCarriesOn
<1>8. CASE UNCHANGED vars
  BY <1>0, <1>8 DEF vars, external, history, VersionsInv, CloneCarriesOn
<1>9. QED
  BY <1>1, <1>2, <1>3, <1>4, <1>5, <1>6, <1>7, <1>8 DEF Next

-----------------------------------------------------------------------------
(* The images.                                                             *)

\* Tags stay in the registry, and a step takes a release only one step further
\* than its images allow.
LEMMA NextKeepsImages == Inv /\ [Next]_vars => ImagesInv'
<1> SUFFICES ASSUME Inv, [Next]_vars PROVE ImagesInv'
  OBVIOUS
<1> USE DEF ImagesInv, Imaged, Vetting, Accepted, Switching, Undoing
<1>0. /\ TypeOK /\ ImagesInv /\ registry \in [{"hosted", "webui"} -> SUBSET Tags]
      /\ run \in Run /\ run.tag \in Tags /\ n \in Nat /\ Tags \subseteq Nat
  BY ReleaseConstants DEF Inv, TypeOK, Run, Tags
<1>1. CASE Gates \/ StartLocal \/ CheckLocal
  BY <1>0, <1>1, EndsEffect DEF Gates, StartLocal, CheckLocal, Proceeds, Outcomes
<1>2. CASE HostedImage
  <2>1. CASE step' = "idle"
    BY <2>1
  <2>2. CASE step' # "idle"
    <3>1. /\ step' \in {"webui", "source"} /\ UNCHANGED run
          /\ step' = "source" => run.skipWebui
          /\ (Reused => run.tag \in registry["hosted"]) /\ Built("hosted")
      BY <1>0, <1>2, <2>2, EndsEffect DEF HostedImage, Image, AfterImages, Proceeds, Outcomes
    <3>2. run.tag \in registry'["hosted"]
      BY <1>0, <3>1 DEF Built
    <3>3. QED
      BY <3>1, <3>2
  <2>3. QED
    BY <2>1, <2>2
<1>3. CASE WebuiImage
  <2>1. CASE step' = "idle"
    BY <2>1
  <2>2. CASE step' # "idle"
    <3>1. /\ step' = "source" /\ UNCHANGED run /\ step = "webui"
          /\ (Reused => run.tag \in registry["webui"]) /\ Built("webui")
      BY <1>0, <1>3, <2>2, EndsEffect DEF WebuiImage, Image, AfterImages, Proceeds, Outcomes
    <3>2. run.tag \in registry'["webui"] /\ run.tag \in registry'["hosted"]
      BY <1>0, <3>1 DEF Built
    <3>3. QED
      BY <3>1, <3>2
  <2>3. QED
    BY <2>1, <2>2
<1>4. CASE LoadSource
  <2>1. run'.tag = run.tag /\ run'.skipWebui = run.skipWebui /\ UNCHANGED registry /\ step = "source"
    BY <1>0, <1>4 DEF LoadSource, Run
  <2>2. QED
    BY <1>0, <2>1
<1>5. CASE CreateVersion \/ VerifyEndpoint \/ DeleteVersion \/ CheckConsole \/ SetVersion \/ SetImage
           \/ UndoReady \/ WriteReceipt
  <2>1. UNCHANGED <<run, registry>> /\ step \in Imaged
    BY <1>5 DEF CreateVersion, VerifyEndpoint, DeleteVersion, CheckConsole, SetVersion, SetImage,
         Switch, UndoReady, WriteReceipt
  <2>2. QED
    BY <1>0, <2>1
<1>6. CASE AwaitActive \/ ReadConsole \/ UndoImage \/ UndoVersion \/ UndoRestart
  <2>1. run'.tag = run.tag /\ run'.skipWebui = run.skipWebui
    BY <1>0, <1>6 DEF AwaitActive, ReadConsole, UndoImage, UndoVersion, UndoRestart, Undo, Run
  <2>2. UNCHANGED registry /\ step \in Imaged
    BY <1>6 DEF AwaitActive, ReadConsole, UndoImage, UndoVersion, UndoRestart
  <2>3. QED
    BY <1>0, <2>1, <2>2
<1>7. ASSUME NEW v \in VersionIds, Provision(v) PROVE ImagesInv'
  BY <1>0, <1>7 DEF Provision
<1>8. CASE Kill
  BY <1>8 DEF Kill
<1>9. ASSUME NEW tag \in 1..n + 1, NEW fast \in BOOLEAN, NEW buildOnly \in BOOLEAN,
             NEW skipWebui \in BOOLEAN, Begin(tag, fast, buildOnly, skipWebui)
      PROVE  ImagesInv'
  BY <1>9 DEF Begin, Proceeds
<1>10. CASE UNCHANGED vars
  BY <1>0, <1>10 DEF vars, external
<1>11. QED
  BY <1>1, <1>2, <1>3, <1>4, <1>5, <1>6, <1>7, <1>8, <1>9, <1>10 DEF Next, Step

\* A receipt stays true: what it names is kept by every step.
LEMMA NextKeepsReceipts == Inv /\ [Next]_vars => ReceiptIsTrue'
<1> SUFFICES ASSUME Inv, [Next]_vars PROVE ReceiptIsTrue'
  OBVIOUS
<1>0. /\ TypeOK /\ VersionsInv /\ ReceiptIsTrue /\ VersionsInv' /\ verified \subseteq VersionIds
  BY NextKeepsVersions DEF Inv, TypeOK
<1>1. CASE UNCHANGED vars
  BY <1>0, <1>1 DEF vars, external, history, ReceiptIsTrue
<1>2. CASE Next
  <2>1. registry["hosted"] \subseteq registry'["hosted"] /\ registry["webui"] \subseteq registry'["webui"]
    <3>1. ASSUME NEW repository \in {"hosted", "webui"}, Built(repository)
          PROVE  /\ registry["hosted"] \subseteq registry'["hosted"]
                 /\ registry["webui"] \subseteq registry'["webui"]
      BY <1>0, <3>1 DEF Built, TypeOK
    <3>2. CASE HostedImage
      BY <3>1, <3>2 DEF HostedImage, Image
    <3>3. CASE WebuiImage
      BY <3>1, <3>3 DEF WebuiImage, Image
    <3>4. CASE ~HostedImage /\ ~WebuiImage
      BY <1>2, <3>4 DEF Next, Step, Gates, StartLocal, CheckLocal, LoadSource, CreateVersion, AwaitActive,
         VerifyEndpoint, DeleteVersion, ReadConsole, SetVersion, SetImage, CheckConsole, Switch,
         UndoImage, UndoVersion, UndoRestart, UndoReady, WriteReceipt, Provision, Kill, Begin
    <3>5. QED
      BY <3>2, <3>3, <3>4
  <2>2. ASSUME NEW r \in receipts
        PROVE  /\ versions'[r.version].status = "active" /\ versions'[r.version].image = r.tag
               /\ r.version \in verified'
               /\ r.tag \in registry'["hosted"] /\ (r.webui => r.tag \in registry'["webui"])
    <3>1. /\ versions[r.version].status = "active" /\ versions[r.version].image = r.tag
          /\ r.version \in verified /\ r.version \in VersionIds
          /\ r.tag \in registry["hosted"] /\ (r.webui => r.tag \in registry["webui"])
      BY <1>0, <2>2 DEF ReceiptIsTrue
    <3>2. versions'[r.version].image = r.tag /\ r.version \in verified'
      BY <1>2, <3>1, VersionsStay
    <3>3. QED
      BY <1>0, <2>1, <3>1, <3>2 DEF VersionsInv
  <2>3. CASE WriteReceipt
    <3> DEFINE r == [tag |-> run.tag, version |-> run.version, webui |-> ~run.skipWebui]
    <3>1. receipts' \subseteq receipts \cup {r} /\ UNCHANGED <<run, registry, versions, verified>>
      BY <2>3 DEF WriteReceipt
    <3>2. /\ run.version \in verified /\ versions[run.version].image = run.tag
          /\ versions[run.version].status = "active"
          /\ run.tag \in registry["hosted"] /\ (~run.skipWebui => run.tag \in registry["webui"])
      BY <2>3 DEF WriteReceipt, Inv, RunInv, VersionsInv, ImagesInv, Imaged, Accepted
    <3>3. /\ r.tag = run.tag /\ r.version = run.version /\ (r.webui => ~run.skipWebui)
      OBVIOUS
    <3> HIDE DEF r
    <3>4. QED
      BY <2>2, <3>1, <3>2, <3>3 DEF ReceiptIsTrue
  <2>4. CASE ~WriteReceipt
    <3>1. receipts' = receipts
      BY <1>2, <2>4 DEF Next, Step, Gates, StartLocal, CheckLocal, HostedImage, WebuiImage, LoadSource,
         CreateVersion, AwaitActive,
         VerifyEndpoint, DeleteVersion, ReadConsole, SetVersion, SetImage, CheckConsole, Switch,
         UndoImage, UndoVersion, UndoRestart, UndoReady, Provision, Kill, Begin, history
    <3>2. QED
      BY <2>2, <3>1 DEF ReceiptIsTrue
  <2>5. QED
    BY <2>3, <2>4
<1>3. QED
  BY <1>1, <1>2

-----------------------------------------------------------------------------
(* The version a release works on.                                         *)

\* Every step of a release keeps what it knows about its version.
LEMMA StepKeepsRun == Inv /\ Step => RunInv'
<1> SUFFICES ASSUME Inv, Step PROVE RunInv'
  OBVIOUS
<1> USE DEF Making, Vetting, Accepted, Switching, Undoing
<1>0. /\ TypeOK /\ VersionsInv /\ RunInv /\ run \in Run
      /\ n \in VersionIds /\ run.version \in VersionIds /\ run.source \in VersionIds
      /\ versions \in [VersionIds -> Version]
      /\ verified \subseteq VersionIds
  BY DEF Inv, TypeOK, Run, VersionIds
<1>1. CASE Gates \/ StartLocal \/ CheckLocal \/ HostedImage \/ WebuiImage
  <2>1. /\ UNCHANGED <<n, versions, verified, excused>> /\ run'.created = run.created
        /\ run'.version = run.version
    BY <1>0, <1>1 DEF Gates, StartLocal, CheckLocal, HostedImage, WebuiImage, history, Run
  <2>2. /\ step \in Making \ {"create"}
        /\ step' \in {"idle", "start_local", "check_local", "hosted", "webui", "source"}
    BY <1>0, <1>1, EndsEffect DEF Gates, StartLocal, CheckLocal, HostedImage, WebuiImage, Image,
       AfterImages, Proceeds, Outcomes
  <2>3. QED
    BY <1>0, <2>1, <2>2 DEF RunInv
<1>2. CASE LoadSource
  <2>1. UNCHANGED <<n, versions, verified, excused>> /\ step = "source"
    BY <1>2 DEF LoadSource, history
  <2>2. CASE step' = "idle" /\ UNCHANGED run
    BY <1>0, <2>1, <2>2 DEF RunInv
  <2>3. ASSUME NEW source \in Active,
               run' = [run EXCEPT !.source = source,
                                  !.created = versions[source].image # run.tag,
                                  !.version = IF versions[source].image # run.tag THEN n ELSE source],
               step' = IF versions[source].image # run.tag THEN "create" ELSE "verify"
        PROVE  RunInv'
    <3>1. source \in VersionIds /\ versions[source].status = "active"
      BY DEF Active
    <3>2. \A v \in VersionIds \ (verified \cup excused) : versions[v].status \in {"absent", "deleted"}
      BY <1>0, <2>1 DEF RunInv
    <3>3. CASE versions[source].image # run.tag
      <4>1. /\ run'.created = TRUE /\ run'.version = n /\ run'.source = source
            /\ step' = "create"
        BY <1>0, <2>3, <3>3 DEF Run
      <4>2. QED
        BY <1>0, <2>1, <3>1, <3>2, <4>1 DEF RunInv
    <3>4. CASE versions[source].image = run.tag
      <4>1. /\ run'.created = FALSE /\ run'.version = source /\ run'.tag = run.tag
            /\ step' = "verify"
        BY <1>0, <2>3, <3>4 DEF Run
      <4>2. QED
        BY <1>0, <2>1, <3>1, <3>2, <3>4, <4>1 DEF RunInv
    <3>5. QED
      BY <3>3, <3>4
  <2>4. QED
    BY <1>0, <1>2, <2>2, <2>3, EndsEffect DEF LoadSource, Proceeds, Outcomes
<1>3. CASE CreateVersion
  <2>1. /\ UNCHANGED <<n, run, verified>> /\ run.created /\ run.version = n
        /\ versions[n].status = "absent" /\ n \notin verified
    BY <1>0, <1>3 DEF CreateVersion, RunInv, VersionsInv
  <2>2. \A v \in VersionIds \ (verified \cup excused) : versions[v].status \in {"absent", "deleted"}
    BY <1>0, <1>3 DEF CreateVersion, RunInv
  <2>3. CASE step' = "activate" /\ Created /\ UNCHANGED excused
    BY <1>0, <2>1, <2>2, <2>3, CreatedVersions DEF RunInv
  <2>4. CASE step' = "idle" /\ UNCHANGED <<versions, excused>>
    BY <1>0, <2>1, <2>2, <2>4 DEF RunInv
  <2>5. CASE step' = "idle" /\ Created /\ excused' = excused \cup {n}
    BY <1>0, <2>1, <2>2, <2>5, CreatedVersions DEF RunInv
  <2>6. QED
    BY <1>0, <1>3, <2>3, <2>4, <2>5, EndsEffect DEF CreateVersion, Proceeds, Outcomes
<1>4. CASE AwaitActive
  <2>1. /\ UNCHANGED <<n, versions, verified, excused>>
        /\ run'.created = run.created /\ run'.version = run.version /\ run'.tag = run.tag
        /\ run.created /\ step = "activate"
    BY <1>0, <1>4 DEF AwaitActive, RunInv, history, Run
  <2>2. \/ step' = "verify" /\ versions[run.version].status = "active"
        \/ step' \in {"activate", "delete"}
    BY <1>0, <1>4, <2>1 DEF AwaitActive, Reject, Proceeds
  <2>3. QED
    BY <1>0, <2>1, <2>2 DEF RunInv
<1>5. CASE VerifyEndpoint
  <2>1. UNCHANGED <<n, run, versions, excused>> /\ step = "verify"
    BY <1>5 DEF VerifyEndpoint
  <2>2. CASE verified' = verified \cup {run.version} /\ step' \in {"receipt", "read_console"}
    BY <1>0, <2>1, <2>2 DEF RunInv
  <2>3. CASE UNCHANGED verified /\ run.created /\ step' = "delete"
    BY <1>0, <2>1, <2>3 DEF RunInv
  <2>4. CASE UNCHANGED verified /\ ~run.created /\ step' = "idle"
    BY <1>0, <2>1, <2>4 DEF RunInv
  <2>5. QED
    BY <1>0, <1>5, <2>2, <2>3, <2>4, EndsEffect DEF VerifyEndpoint, Reject, Proceeds, Outcomes
<1>6. CASE DeleteVersion
  <2>1. UNCHANGED <<n, run, verified>> /\ run.created /\ run.version = n /\ step' = "idle"
    BY <1>0, <1>6, EndsEffect DEF DeleteVersion, RunInv, Outcomes
  <2>2. CASE versions' = Marked(n, "deleted") /\ excused \subseteq excused'
    <3>1. /\ versions'[n].status = "deleted"
          /\ \A w \in VersionIds \ {n} : versions'[w] = versions[w]
      BY <1>0, <2>2, MarkedVersions
    <3>2. \A w \in VersionIds \ (verified' \cup excused') : versions'[w].status \in {"absent", "deleted"}
      BY <1>0, <2>1, <2>2, <3>1 DEF RunInv
    <3>3. QED
      BY <1>0, <2>1, <3>2 DEF RunInv
  <2>3. CASE UNCHANGED versions /\ excused' = excused \cup {n}
    BY <1>0, <2>1, <2>3 DEF RunInv
  <2>4. QED
    BY <1>6, <2>1, <2>2, <2>3 DEF DeleteVersion
<1>7. CASE ReadConsole \/ SetVersion \/ SetImage \/ CheckConsole \/ UndoImage \/ UndoVersion
           \/ UndoRestart \/ UndoReady \/ WriteReceipt
  <2>1. /\ UNCHANGED <<n, versions, verified, excused>>
        /\ run'.created = run.created /\ run'.version = run.version /\ run'.tag = run.tag
    BY <1>0, <1>7 DEF ReadConsole, SetVersion, SetImage, CheckConsole, Switch, UndoImage, UndoVersion,
       Undo, UndoRestart, UndoReady, WriteReceipt, history, Run
  <2>2. step \in Accepted /\ step' \in Accepted \cup {"idle"}
    <3>1. CASE ReadConsole \/ UndoReady \/ WriteReceipt
      BY <1>0, <3>1, EndsEffect DEF ReadConsole, UndoReady, WriteReceipt, Proceeds, Outcomes
    <3>2. CASE SetVersion \/ SetImage \/ CheckConsole
      BY <3>2 DEF SetVersion, SetImage, CheckConsole, Switch, Proceeds
    <3>3. CASE UndoImage \/ UndoVersion \/ UndoRestart
      BY <3>3 DEF UndoImage, UndoVersion, UndoRestart, Proceeds
    <3>4. QED
      BY <1>7, <3>1, <3>2, <3>3
  <2>3. QED
    BY <1>0, <2>1, <2>2 DEF RunInv
<1>8. QED
  BY <1>1, <1>2, <1>3, <1>4, <1>5, <1>6, <1>7 DEF Step

\* So does every other step.
LEMMA NextKeepsRun == Inv /\ [Next]_vars => RunInv'
<1> SUFFICES ASSUME Inv, [Next]_vars PROVE RunInv'
  OBVIOUS
<1> USE DEF Making, Vetting, Accepted, Switching, Undoing
<1>0. /\ TypeOK /\ VersionsInv /\ RunInv /\ run \in Run /\ run.version \in VersionIds
      /\ n \in VersionIds /\ verified \subseteq VersionIds
  BY DEF Inv, TypeOK, Run, VersionIds
<1>1. CASE Step
  BY <1>1, StepKeepsRun
<1>2. ASSUME NEW tag \in 1..n + 1, NEW fast \in BOOLEAN, NEW buildOnly \in BOOLEAN,
             NEW skipWebui \in BOOLEAN, Begin(tag, fast, buildOnly, skipWebui)
      PROVE  RunInv'
  <2>1. /\ step = "idle" /\ step' = "gates" /\ UNCHANGED <<versions, verified, excused>>
        /\ run'.created = FALSE
    BY <1>2 DEF Begin, Proceeds, history
  <2>2. QED
    BY <1>0, <2>1 DEF RunInv
<1>3. ASSUME NEW v \in VersionIds, Provision(v) PROVE RunInv'
  <2>1. UNCHANGED <<n, step, run, verified, excused>> /\ versions[v].status = "creating"
    BY <1>3 DEF Provision, history
  <2>2. PICK s \in {"active", "failed"} : versions' = Marked(v, s)
    BY <1>3 DEF Provision
  <2>3. \A w \in VersionIds :
          /\ versions'[w].image = versions[w].image
          /\ versions[w].status = "creating" => versions'[w].status # "absent"
          /\ versions[w].status # "creating" => versions'[w].status = versions[w].status
    <3>1. /\ Marked(v, s)[v].status = s
          /\ \A w \in VersionIds : /\ w # v => Marked(v, s)[w] = versions[w]
                                   /\ Marked(v, s)[w].image = versions[w].image
      BY <1>0, MarkedVersions
    <3>2. QED
      BY <2>1, <2>2, <3>1
  <2>4. step = "create" => run.source \in VersionIds
    BY <1>0 DEF Run
  <2>5. QED
    BY <1>0, <2>1, <2>3, <2>4 DEF RunInv
<1>4. CASE Kill
  <2>1. /\ step' = "idle" /\ UNCHANGED <<n, run, versions, verified>>
        /\ excused \subseteq excused' /\ (run.created => run.version \in excused')
    BY <1>4 DEF Kill
  <2>2. QED
    BY <1>0, <2>1 DEF RunInv
<1>5. CASE UNCHANGED vars
  BY <1>0, <1>5 DEF vars, external, history, RunInv
<1>6. QED
  BY <1>1, <1>2, <1>3, <1>4, <1>5 DEF Next

-----------------------------------------------------------------------------
(* The console.                                                            *)

\* An image and a version that belong together go on doing so.
LEMMA MatchingStays ==
  ASSUME Inv, Next
  PROVE  \A c : c.setting \in verified \cup {Unset} /\ MatchingIn(versions, c)
                => MatchingIn(versions', c)
<1> SUFFICES ASSUME NEW c, c.setting \in verified \cup {Unset}, MatchingIn(versions, c)
             PROVE  MatchingIn(versions', c)
  OBVIOUS
<1>1. c.setting # Unset => c.setting \in VersionIds /\ versions[c.setting].status = "active"
  BY DEF Inv, TypeOK, VersionsInv
<1>2. c.setting # Unset => versions'[c.setting].image = versions[c.setting].image
  BY <1>1, VersionsStay
<1>3. QED
  BY <1>2 DEF MatchingIn

\* Before the switch nothing touches the console.
LEMMA ConsoleBeforeSwitch ==
  ASSUME Inv, Step, step \in Making \cup Vetting \cup {"read_console"}
  PROVE  ConsoleInv'
<1> USE DEF Making, Vetting, Switching, Undoing
<1>0. /\ TypeOK /\ ConsoleInv /\ run \in Run /\ console = run.before /\ (~torn => Matching(console))
      /\ console.setting \in verified \cup {Unset} /\ run.version \in VersionIds
      /\ run.skipWebui \in BOOLEAN /\ torn \in BOOLEAN
  BY DEF Inv, ConsoleInv, TypeOK, Run
<1>1. /\ UNCHANGED console /\ run'.before = run.before /\ run'.skipWebui = run.skipWebui
      /\ verified \subseteq verified'
      /\ step' = "set_version" => run'.previous = console
  <2>1. CASE ReadConsole
    BY <1>0, <2>1, EndsEffect DEF ReadConsole, Proceeds, Outcomes, Run, history
  <2>2. CASE Gates \/ StartLocal \/ CheckLocal \/ HostedImage \/ WebuiImage
    BY <1>0, <2>2, EndsEffect DEF Gates, StartLocal, CheckLocal, HostedImage, WebuiImage, Image, AfterImages,
       Proceeds, Outcomes, Run, history
  <2>3. CASE LoadSource
    BY <1>0, <2>3, EndsEffect DEF LoadSource, Proceeds, Outcomes, Run, history
  <2>4. CASE CreateVersion \/ AwaitActive \/ VerifyEndpoint \/ DeleteVersion
    BY <1>0, <2>4, EndsEffect DEF CreateVersion, AwaitActive, VerifyEndpoint, DeleteVersion, Reject, Proceeds,
       Outcomes, Run, history
  <2>5. QED
    BY <2>1, <2>2, <2>3, <2>4 DEF Step, SetVersion, SetImage, CheckConsole, UndoImage, UndoVersion,
       UndoRestart, UndoReady, WriteReceipt
<1>2. /\ torn' = torn
      /\ step' \in Making \cup Vetting \cup {"read_console", "set_version", "receipt", "idle"}
      /\ step' \in {"read_console", "set_version"} => ~run.skipWebui
      /\ step' = "receipt" => run.skipWebui
      /\ step' = "idle" => outcome' # "unreceipted"
  <2>1. CASE Gates \/ StartLocal \/ CheckLocal
    BY <1>0, <2>1, EndsEffect DEF Gates, StartLocal, CheckLocal, Proceeds, Outcomes
  <2>2. CASE HostedImage \/ WebuiImage
    BY <1>0, <2>2, EndsEffect DEF HostedImage, WebuiImage, Image, AfterImages, Proceeds, Outcomes
  <2>3. CASE LoadSource \/ CreateVersion
    BY <1>0, <2>3, EndsEffect DEF LoadSource, CreateVersion, Proceeds, Outcomes
  <2>4. CASE AwaitActive \/ VerifyEndpoint \/ DeleteVersion
    BY <1>0, <2>4, EndsEffect DEF AwaitActive, VerifyEndpoint, DeleteVersion, Reject, Proceeds, Outcomes
  <2>5. CASE ReadConsole
    BY <1>0, <2>5, EndsEffect DEF ReadConsole, Proceeds, Outcomes, ConsoleInv
  <2>6. QED
    BY <2>1, <2>2, <2>3, <2>4, <2>5 DEF Step, SetVersion, SetImage, CheckConsole, UndoImage, UndoVersion,
       UndoRestart, UndoReady, WriteReceipt
<1>3. ~torn' => MatchingIn(versions', console') /\ MatchingIn(versions', run'.before)
  BY <1>0, <1>1, <1>2, MatchingStays DEF Next, Matching
<1>4. console'.setting \in verified' \cup {Unset}
  BY <1>0, <1>1
<1>5. QED
  BY <1>0, <1>1, <1>2, <1>3, <1>4 DEF ConsoleInv, FailureLeavesConsole, Matching

\* A step of the switch either takes effect and goes on, or leaves the console
\* to the rollback.
LEMMA ConsoleInSwitch ==
  ASSUME Inv, SetVersion \/ SetImage \/ CheckConsole
  PROVE  ConsoleInv'
<1> USE DEF Making, Vetting, Switching, Undoing
<1>0. /\ ConsoleInv /\ console \in Console /\ run.version \in verified /\ ~run.skipWebui
      /\ run.previous = run.before /\ run.before.setting \in verified \cup {Unset}
      /\ ~torn => MatchingIn(versions, run.before)
      /\ UNCHANGED <<run, versions, verified, torn>>
  BY DEF Inv, TypeOK, RunInv, ConsoleInv, Accepted, SetVersion, SetImage, CheckConsole, Switch, Proceeds,
     history, Matching
<1>1. CASE SetVersion
  <2>1. /\ [console EXCEPT !.setting = run.version].setting = run.version
        /\ console' \in {console, [console EXCEPT !.setting = run.version]}
        /\ \/ step' = "set_image" /\ console' = [console EXCEPT !.setting = run.version]
           \/ step' = "undo_image"
    BY <1>0, <1>1 DEF SetVersion, Switch, Proceeds, Console
  <2>2. console'.setting \in verified \cup {Unset} /\ (step' = "set_image" => console'.setting = run.version)
    BY <1>0, <2>1 DEF ConsoleInv
  <2>3. QED
    BY <1>0, <2>1, <2>2 DEF ConsoleInv, FailureLeavesConsole, Matching
<1>2. CASE SetImage
  <2>1. /\ console.setting = run.version
        /\ console'.setting = run.version
        /\ \/ step' = "check_console" /\ console'.image = run.tag
           \/ step' = "undo_image"
    BY <1>0, <1>2 DEF SetImage, Switch, Proceeds, Console, ConsoleInv
  <2>2. QED
    BY <1>0, <2>1 DEF ConsoleInv, FailureLeavesConsole, Matching
<1>3. CASE CheckConsole
  <2>1. console' = console /\ step' \in {"receipt", "undo_image"} /\ step = "check_console"
    BY <1>3 DEF CheckConsole, Switch, Proceeds
  <2>2. QED
    BY <1>0, <2>1 DEF ConsoleInv, FailureLeavesConsole, Matching
<1>4. QED
  BY <1>1, <1>2, <1>3

\* A rollback tries everything, and what it did without error it did.
LEMMA ConsoleInRollback ==
  ASSUME Inv, UndoImage \/ UndoVersion \/ UndoRestart
  PROVE  ConsoleInv'
<1> USE DEF Making, Vetting, Switching, Undoing
<1>0. /\ ConsoleInv /\ console \in Console /\ run \in Run /\ run.before \in Console
      /\ run.previous = run.before /\ run.before.setting \in verified \cup {Unset}
      /\ console.setting \in verified \cup {Unset} /\ ~run.skipWebui
      /\ ~torn => MatchingIn(versions, run.before)
      /\ UNCHANGED <<versions, verified, torn>>
  BY DEF Inv, TypeOK, Run, ConsoleInv, UndoImage, UndoVersion, UndoRestart, Proceeds, history, Matching
<1>1. /\ run'.before = run.before /\ run'.previous = run.previous /\ run'.skipWebui = run.skipWebui
      /\ run.errors \subseteq run'.errors
  <2>1. CASE UndoImage
    BY <1>0, <2>1 DEF UndoImage, Undo, Run
  <2>2. CASE UndoVersion
    BY <1>0, <2>2 DEF UndoVersion, Undo, Run
  <2>3. CASE UndoRestart
    BY <1>0, <2>3 DEF UndoRestart, Run
  <2>4. QED
    BY <2>1, <2>2, <2>3
<1>2. CASE UndoImage
  <2>1. step' = "undo_version" /\ console'.setting = console.setting
    BY <1>0, <1>2 DEF UndoImage, Undo, Proceeds, Console
  <2>2. run'.errors = {} => console'.image = run.before.image
    BY <1>0, <1>2 DEF UndoImage, Undo, Console, Run
  <2>3. QED
    BY <1>0, <1>1, <2>1, <2>2 DEF ConsoleInv, FailureLeavesConsole, Matching
<1>3. CASE UndoVersion
  <2> DEFINE c == [console EXCEPT !.setting = run.previous.setting]
  <2>1. /\ step' = "undo_restart" /\ step = "undo_version"
        /\ c.setting = run.before.setting /\ c.image = console.image
        /\ c \in Console
    BY <1>0, <1>3 DEF UndoVersion, Proceeds, Console
  <2>2. console' \in {console, c} /\ (run'.errors = {} => console' = c /\ run.errors = {})
    BY <1>0, <1>3 DEF UndoVersion, Undo, Run
  <2> HIDE DEF c
  <2>3. run'.errors = {} => console' = run.before
    BY <1>0, <2>1, <2>2 DEF ConsoleInv, Console
  <2>4. console'.setting \in verified \cup {Unset}
    BY <1>0, <2>1, <2>2
  <2>5. QED
    BY <1>0, <1>1, <2>1, <2>3, <2>4 DEF ConsoleInv, FailureLeavesConsole, Matching
<1>4. CASE UndoRestart
  <2>1. step' = "undo_ready" /\ step = "undo_restart" /\ UNCHANGED console
    BY <1>4 DEF UndoRestart, Proceeds
  <2>2. QED
    BY <1>0, <1>1, <2>1 DEF ConsoleInv, FailureLeavesConsole, Matching
<1>5. QED
  BY <1>2, <1>3, <1>4

\* A release that ends leaves a console its outcome describes.
LEMMA ConsoleAtEnd ==
  ASSUME Inv, UndoReady \/ WriteReceipt
  PROVE  ConsoleInv'
<1> USE DEF Making, Vetting, Switching, Undoing
<1>0. /\ TypeOK /\ ConsoleInv /\ step' = "idle" /\ torn \in BOOLEAN /\ run.skipWebui \in BOOLEAN
      /\ UNCHANGED <<run, console, versions, verified>>
  BY EndsEffect DEF Inv, TypeOK, Run, UndoReady, WriteReceipt, Outcomes, history
<1>1. CASE UndoReady
  <2>1. /\ ~torn => MatchingIn(versions, run.before)
        /\ \/ run.errors = {} /\ outcome' \in {"rolled_back", "rollback_failed"} /\ torn' = torn
           \/ outcome' = "rollback_incomplete" /\ torn'
    BY <1>0, <1>1, EndsEffect DEF UndoReady, Outcomes, ConsoleInv, Matching
  <2>2. run.errors = {} => console = run.before
    BY <1>0, <1>1 DEF UndoReady, ConsoleInv
  <2>3. QED
    BY <1>0, <2>1, <2>2 DEF ConsoleInv, FailureLeavesConsole, Matching
<1>2. CASE WriteReceipt
  <2>1. outcome' \in {"released", "unreceipted"} /\ torn' = (torn /\ run.skipWebui)
    BY <1>0, <1>2, EndsEffect DEF WriteReceipt, Outcomes
  <2>2. /\ run.skipWebui /\ ~torn => MatchingIn(versions, console)
        /\ ~run.skipWebui => console.image = run.tag /\ console.setting = run.version
    BY <1>0, <1>2 DEF WriteReceipt, ConsoleInv, Matching
  <2>3. versions[run.version].image = run.tag /\ run.version # Unset
    BY <1>0, <1>2 DEF WriteReceipt, Inv, RunInv, Accepted, TypeOK, Run, VersionIds, Unset
  <2>4. ~torn' => MatchingIn(versions, console)
    BY <1>0, <2>1, <2>2, <2>3 DEF MatchingIn
  <2>5. console = IF run.skipWebui THEN run.before
                  ELSE [image |-> run.tag, setting |-> run.version]
    BY <1>0, <1>2 DEF WriteReceipt, ConsoleInv, TypeOK, Console
  <2>6. QED
    BY <1>0, <2>1, <2>4, <2>5 DEF ConsoleInv, FailureLeavesConsole, Matching
<1>3. QED
  BY <1>1, <1>2

\* The console stays as the invariant says, whatever happens.
LEMMA NextKeepsConsole == Inv /\ [Next]_vars => ConsoleInv'
<1> SUFFICES ASSUME Inv, [Next]_vars PROVE ConsoleInv'
  OBVIOUS
<1> USE DEF Making, Vetting, Switching, Undoing
<1>0. TypeOK /\ ConsoleInv /\ torn \in BOOLEAN
  BY DEF Inv, TypeOK
<1>1. CASE Step
  <2>1. CASE step \in Making \cup Vetting \cup {"read_console"}
    BY <1>1, <2>1, ConsoleBeforeSwitch
  <2>2. CASE step \notin Making \cup Vetting \cup {"read_console"}
    <3>1. \/ SetVersion \/ SetImage \/ CheckConsole
          \/ UndoImage \/ UndoVersion \/ UndoRestart
          \/ UndoReady \/ WriteReceipt
      BY <1>1, <2>2 DEF Step, Gates, StartLocal, CheckLocal, HostedImage, WebuiImage, LoadSource,
         CreateVersion, AwaitActive, VerifyEndpoint, DeleteVersion, ReadConsole
    <3>2. QED
      BY <3>1, ConsoleInSwitch, ConsoleInRollback, ConsoleAtEnd
  <2>3. QED
    BY <2>1, <2>2
<1>2. ASSUME NEW tag \in 1..n + 1, NEW fast \in BOOLEAN, NEW buildOnly \in BOOLEAN,
             NEW skipWebui \in BOOLEAN, Begin(tag, fast, buildOnly, skipWebui)
      PROVE  ConsoleInv'
  <2>1. /\ step = "idle" /\ step' = "gates" /\ UNCHANGED <<console, versions, verified, torn>>
        /\ run'.before = console
    BY <1>2 DEF Begin, Proceeds, history
  <2>2. QED
    BY <1>0, <2>1 DEF ConsoleInv, FailureLeavesConsole, Matching
<1>3. ASSUME NEW v \in VersionIds, Provision(v) PROVE ConsoleInv'
  <2>1. UNCHANGED <<step, run, console, outcome, verified, torn>>
    BY <1>3 DEF Provision, history
  <2>2. /\ console.setting \in verified \cup {Unset} /\ MatchingIn(versions, console)
             => MatchingIn(versions', console)
        /\ run.before.setting \in verified \cup {Unset} /\ MatchingIn(versions, run.before)
             => MatchingIn(versions', run.before)
    BY <1>3, MatchingStays DEF Next
  <2>3. QED
    BY <1>0, <2>1, <2>2 DEF ConsoleInv, FailureLeavesConsole, Matching
<1>4. CASE Kill
  <2>1. /\ step # "idle" /\ step' = "idle" /\ outcome' = "killed"
        /\ UNCHANGED <<run, console, versions, verified>> /\ torn' = (torn \/ step \in HalfWay)
    BY <1>4 DEF Kill
  <2>2. ASSUME ~torn' PROVE MatchingIn(versions, console)
    <3>1. ~torn /\ step \notin HalfWay
      BY <1>0, <2>1, <2>2
    <3>2. CASE step = "check_console" \/ (step = "receipt" /\ ~run.skipWebui)
      <4>1. console.image = run.tag /\ console.setting = run.version
        BY <1>0, <3>2 DEF ConsoleInv
      <4>2. versions[run.version].image = run.tag /\ run.version # Unset
        BY <3>2 DEF Inv, RunInv, Accepted, TypeOK, Run, VersionIds, Unset
      <4>3. QED
        BY <4>1, <4>2 DEF MatchingIn
    <3>3. CASE ~(step = "check_console" \/ (step = "receipt" /\ ~run.skipWebui))
      BY <1>0, <2>1, <3>1, <3>3 DEF ConsoleInv, Matching, TypeOK, Steps, HalfWay
    <3>4. QED
      BY <3>2, <3>3
  <2>3. QED
    BY <1>0, <2>1, <2>2 DEF ConsoleInv, FailureLeavesConsole, Matching
<1>5. CASE UNCHANGED vars
  BY <1>0, <1>5 DEF vars, external, history, ConsoleInv, FailureLeavesConsole, Matching
<1>6. QED
  BY <1>1, <1>2, <1>3, <1>4, <1>5 DEF Next

-----------------------------------------------------------------------------
(* The theorems.                                                           *)

\* Every reachable state satisfies the inductive invariant.
THEOREM InvHolds == Spec => []Inv
<1>1. Init => Inv
  <2>1. ASSUME Init PROVE TypeOK
    <3>1. /\ 0 \in Tags /\ 0 \in VersionIds /\ Polls \in 0..Polls
      BY ReleaseConstants DEF Tags, VersionIds
    <3>2. run \in Run /\ console \in Console
      BY <2>1, <3>1 DEF Init, Run, Console, NoConsole
    <3>3. versions \in [VersionIds -> Version]
      BY <2>1, <3>1 DEF Init, Version, Absent
    <3>4. QED
      BY <2>1, <3>1, <3>2, <3>3 DEF Init, TypeOK, Steps, Outcomes, Tags
  <2>2. ASSUME Init PROVE VersionsInv /\ RunInv
    <3>1. 0 \in VersionIds /\ VersionIds \subseteq Nat
      BY ReleaseConstants DEF VersionIds
    <3>2. /\ versions[0].status = "active" /\ versions[0].env = Environment
          /\ \A v \in VersionIds \ {0} : versions[v].status = "absent"
      BY <2>2, <3>1 DEF Init, Absent
    <3>3. QED
      BY <2>2, <3>1, <3>2 DEF Init, VersionsInv, RunInv, CloneCarriesOn, Making, Vetting, Accepted, Switching,
         Undoing
  <2>3. ASSUME Init PROVE ImagesInv /\ ReceiptIsTrue
    BY <2>3 DEF Init, ImagesInv, ReceiptIsTrue, Imaged, Vetting, Accepted, Switching, Undoing
  <2>4. ASSUME Init PROVE ConsoleInv
    BY <2>4 DEF Init, ConsoleInv, FailureLeavesConsole, Matching, MatchingIn, Making, Vetting, Switching,
       Undoing
  <2>5. QED
    BY <2>1, <2>2, <2>3, <2>4 DEF Inv
<1>2. Inv /\ [Next]_vars => Inv'
  BY NextKeepsTypes, NextKeepsVersions, NextKeepsRun, NextKeepsImages, NextKeepsReceipts, NextKeepsConsole
     DEF Inv
<1>3. QED
  BY <1>1, <1>2, PTL DEF Spec

\* Receipts stay true, the console names a verified and active version, clones
\* carry on what their source had, and what was not verified is removed,
\* whatever the later releases do (run, _clone_version_payload,
\* _delete_failed_version).
THEOREM VerifiedStaysInService == Spec => []VerifiedStays
<1>1. Inv => VerifiedStays
  BY DEF Inv, VerifiedStays, VersionsInv, RunInv, ConsoleInv, ConsoleNamesVerified, FailedVersionsRemoved,
     Vetting
<1>2. QED
  BY <1>1, InvHolds, PTL

\* A release that fails puts the console back or says that it did not; one that
\* fails only in writing its receipt leaves the whole switch in place and says
\* nothing of it (run, _write_receipt).  The console's image and version belong
\* together (_deploy_webui).
THEOREM ConsoleSurvivesReleases == Spec => []ConsoleSurvives
<1>1. Inv => ConsoleSurvives
  BY DEF Inv, ConsoleSurvives, ConsoleInv, ConsoleIsWhole, Matching, MatchingIn
<1>2. QED
  BY <1>1, InvHolds, PTL

=============================================================================
