----------------------------- MODULE AdminStore -----------------------------
(***************************************************************************)
(* Several administrators edit a configuration document through the        *)
(* console: the pages (admin/page.tsx), the routes (api/admin/config,      *)
(* commands, skill-policy, credentials) and the store of the documents     *)
(* (lib/admin-config.ts), a blob container or, in development, files.      *)
(*                                                                         *)
(* Documents do not depend on one another, so a behaviour follows one:     *)
(*   "models"       written whole from the page, the secret never shown    *)
(*   "commands"     one row is saved, the page keeps drafts of the others  *)
(*   "policy"       one row is toggled                                     *)
(*   "credentials"  one row is bound or cleared, the page has no revision  *)
(* A row's value is the number of the edit that typed it; 0 is no value,   *)
(* or a skill that is not disabled.  base, kept and crossed are read by     *)
(* properties only.                                                        *)
(***************************************************************************)
EXTENDS Naturals

CONSTANTS Admins,      \* administrators, one page each
          Rows,        \* commands, skills, bindings or fields of the models
          Secret,      \* the field of "models" that no page is shown
          Edits,       \* how many edits are made
          Writes,      \* how many writes are begun
          Documents,   \* the documents that may be followed
          Stores       \* the kinds of store, of "blob" and "file"

ASSUME AdminConstants ==
  /\ Secret \in Rows /\ Edits \in Nat /\ Writes \in Nat
  /\ Documents \subseteq {"models", "commands", "policy", "credentials"}
  /\ Stores \subseteq {"blob", "file"}

VARIABLES document,  \* the document that is followed
          store,     \* where it is kept
          stored,    \* the document as it stands, with the number of its write
          temp,      \* the temporary file that saves of one process share
          page,      \* per administrator the page
          call,      \* per administrator the request on its way
          edits      \* edits made
vars == <<document, store, stored, temp, page, call, edits>>

-----------------------------------------------------------------------------
(* Documents as they are read, pages and requests.                         *)

Values == 0..Edits
Empty == [r \in Rows |-> 0]
Unread == [rows |-> Empty, count |-> 0]    \* no revision is known; no temporary file
Missing == [rows |-> Empty, count |-> 1]   \* the document is not there

\* A blob's revision changes with every write, a file's is its content.
SameRevision(s, t) ==
  IF store = "blob" THEN s.count = t.count
                    ELSE s.rows = t.rows /\ (s = Missing <=> t = Missing)

\* loaded is what the page was given with the revision it will send.
EmptyPage == [shown |-> Empty, dirty |-> {}, loaded |-> Unread,
              base |-> Empty, kept |-> {}]
NoCall == [step |-> "idle", row |-> Secret, value |-> 0, whole |-> Empty, dirty |-> {},
           expected |-> Unread, read |-> Unread, crossed |-> FALSE]

Step(a) == call[a].step
Idle(a) == Step(a) = "idle"
At(a, step) == call' = [call EXCEPT ![a].step = step]

-----------------------------------------------------------------------------
(* What an administrator does.  Fields stay open for typing while a        *)
(* request is on its way; buttons do not.                                  *)

Type(a, r) ==
  /\ document \in {"models", "commands"} /\ edits < Edits
  /\ edits' = edits + 1
  /\ page' = [page EXCEPT ![a].shown[r] = edits + 1, ![a].dirty = @ \cup {r}]
  /\ UNCHANGED <<document, store, stored, temp, call>>

Sends(a, r, value, dirty, expected) ==
  /\ Idle(a) /\ stored.count <= Writes
  /\ call' = [call EXCEPT ![a] = [NoCall EXCEPT
       !.step = "sent", !.row = r, !.value = value, !.whole = page[a].shown,
       !.dirty = dirty, !.expected = expected]]
  /\ UNCHANGED <<document, store, stored, temp, page>>

\* save: the whole document as the page shows it.
SaveWhole(a) ==
  /\ document = "models" /\ page[a].dirty # {}
  /\ Sends(a, Secret, 0, page[a].dirty, page[a].loaded) /\ UNCHANGED edits

\* saveCommand and deleteCommand: one row; which drafts are unsaved is noted
\* when the button is pressed.
SaveCommand(a, r) ==
  /\ document = "commands" /\ r \in page[a].dirty
  /\ Sends(a, r, page[a].shown[r], page[a].dirty \ {r}, page[a].loaded) /\ UNCHANGED edits

DeleteCommand(a, r) ==
  /\ document = "commands" /\ page[a].loaded.rows[r] # 0
  /\ Sends(a, r, 0, page[a].dirty \ {r}, page[a].loaded) /\ UNCHANGED edits

\* Mutant: disabling adds the skill again.
TogglePackagedSkillAdds(a, r) ==
  /\ document = "policy" /\ edits < Edits /\ edits' = edits + 1
  /\ Sends(a, r, 1 + page[a].shown[r], {}, page[a].loaded)

TogglePackagedSkill(a, r) ==
  /\ document = "policy" /\ edits < Edits /\ edits' = edits + 1
  /\ Sends(a, r, 1 - page[a].shown[r], {}, page[a].loaded)

\* One binding is rotated or cleared.
ChangeCredential(a, r, action) ==
  /\ document = "credentials" /\ edits < Edits /\ edits' = edits + 1
  /\ Sends(a, r, IF action = "rotate" THEN edits + 1 ELSE 0, {}, Unread)

\* The page is opened anew.
Reload(a) ==
  /\ Idle(a)
  /\ page' = [page EXCEPT ![a] = EmptyPage] /\ At(a, "load")
  /\ UNCHANGED <<document, store, stored, temp, edits>>

-----------------------------------------------------------------------------
(* What the routes do with a request.                                      *)

\* Mutant: a patch is compared with the revision the route has read.
ReadRevision(a) ==
  /\ Step(a) = "sent"
  /\ IF document = "commands" /\ call[a].value = 0 /\ stored.rows[call[a].row] = 0
       THEN At(a, "idle")
       ELSE call' = [call EXCEPT ![a].step = "read", ![a].read = stored, ![a].expected = stored]
  /\ UNCHANGED <<document, store, stored, temp, page, edits>>

\* The document is read: for the secret, for the other rows, or, of
\* credentials, for the revision as well.  A delete of nothing is refused.
Read(a) ==
  /\ Step(a) = "sent"
  /\ IF document = "commands" /\ call[a].value = 0 /\ stored.rows[call[a].row] = 0
       THEN At(a, "idle")
       ELSE call' = [call EXCEPT ![a].step = "read", ![a].read = stored,
                                 ![a].expected = IF document = "credentials" THEN stored ELSE @]
  /\ UNCHANGED <<document, store, stored, temp, page, edits>>

\* Mutant: a secret that was not typed is written as the page shows it.
BodyAsShown(a) ==
  IF document = "models" THEN call[a].whole
  ELSE [call[a].read.rows EXCEPT ![call[a].row] = call[a].value]

\* preserveSecret, upsertCommandOverride, removeCommandOverride,
\* toggleSkillPolicy, applyCredentialChange.
Body(a) ==
  IF document = "models"
    THEN [r \in Rows |-> IF r = Secret /\ r \notin call[a].dirty THEN call[a].read.rows[r]
                         ELSE call[a].whole[r]]
    ELSE [call[a].read.rows EXCEPT ![call[a].row] = call[a].value]

Passes(a) == call[a].expected = Unread \/ SameRevision(call[a].expected, stored)

\* Requests that have read the document or passed the comparison see that
\* another one got between.
Writing == {"read", "checked", "temporary"}
Crosses(a, step) ==
  call' = [b \in Admins |->
    IF b = a THEN [call[a] EXCEPT !.step = step]
    ELSE [call[b] EXCEPT !.crossed = @ \/ Step(b) \in Writing]]

\* Mutant: a conflict is taken for success.
WriteBlobQuietly(a) ==
  /\ store = "blob" /\ Step(a) = "read" /\ Crosses(a, "written")
  /\ stored' = IF Passes(a) THEN [rows |-> Body(a), count |-> stored.count + 1] ELSE stored
  /\ UNCHANGED <<document, store, temp, page, edits>>

\* BlobConfigStore.write: the storage compares and replaces in one step.
WriteBlob(a) ==
  /\ store = "blob" /\ Step(a) = "read"
  /\ IF Passes(a)
       THEN stored' = [rows |-> Body(a), count |-> stored.count + 1] /\ Crosses(a, "written")
       ELSE At(a, "idle") /\ UNCHANGED stored
  /\ UNCHANGED <<document, store, temp, page, edits>>

\* FileConfigStore.write: compare, write a temporary file, rename it.
CompareFile(a) ==
  /\ store = "file" /\ Step(a) = "read"
  /\ At(a, IF Passes(a) THEN "checked" ELSE "idle")
  /\ UNCHANGED <<document, store, stored, temp, page, edits>>

WriteTemporary(a) ==
  /\ Step(a) = "checked"
  /\ temp' = [rows |-> Body(a), count |-> stored.count + 1]
  /\ Crosses(a, "temporary")
  /\ UNCHANGED <<document, store, stored, page, edits>>

\* The name of the temporary file is that of every save of the process: the
\* file may hold another save by now, or be gone.
RenameTemporary(a) ==
  /\ Step(a) = "temporary"
  /\ IF temp = Unread
       THEN At(a, "idle") /\ UNCHANGED <<stored, temp>>
       ELSE /\ stored' = [temp EXCEPT !.count = stored.count + 1] /\ temp' = Unread
            /\ Crosses(a, "written")
  /\ UNCHANGED <<document, store, page, edits>>

-----------------------------------------------------------------------------
(* What the page does with the answer.                                     *)

\* After a save of a command the drafts unsaved at the click stay unsaved and
\* the list is fetched.  The policy route answers with the list it wrote and
\* the revision it reads now; the page keeps both until it has loaded.
Answered(a) ==
  /\ Step(a) = "written"
  /\ CASE document = "commands" ->
            page' = [page EXCEPT ![a].dirty = call[a].dirty] /\ At(a, "fetch")
       [] document = "policy" ->
            /\ page' = [page EXCEPT ![a].shown = Body(a), ![a].base = Body(a),
                                    ![a].loaded = stored]
            /\ At(a, "load")
       [] document = "models" -> UNCHANGED page /\ At(a, "load")
       [] document = "credentials" ->
            page' = [page EXCEPT ![a].shown = Body(a)] /\ At(a, "idle")
  /\ UNCHANGED <<document, store, stored, temp, edits>>

Fetched(a) ==
  /\ Step(a) \in {"fetch", "load"}
  /\ call' = [call EXCEPT ![a].step = IF @ = "fetch" THEN "merge" ELSE "show",
                          ![a].read = stored]
  /\ UNCHANGED <<document, store, stored, temp, page, edits>>

\* refreshCommands: drafts that were unsaved at the click win over the list.
Merge(a) ==
  /\ Step(a) = "merge"
  /\ LET server == call[a].read.rows
         drafts == call[a].dirty
     IN page' = [page EXCEPT
          ![a].shown = [r \in Rows |-> IF r \in drafts THEN @[r] ELSE server[r]],
          ![a].base = [r \in Rows |-> IF r \in drafts THEN @[r] ELSE server[r]],
          ![a].kept = {r \in drafts : server[r] # page[a].base[r]},
          ![a].loaded = call[a].read]
  /\ At(a, "idle")
  /\ UNCHANGED <<document, store, stored, temp, edits>>

\* load: everything is replaced; a secret is shown as nothing.
Show(a) ==
  /\ Step(a) = "show"
  /\ LET s == call[a].read IN
     page' = [page EXCEPT ![a] = [EmptyPage EXCEPT
       !.shown = IF document = "models" THEN [s.rows EXCEPT ![Secret] = 0] ELSE s.rows,
       !.base = s.rows, !.loaded = s]]
  /\ At(a, "idle")
  /\ UNCHANGED <<document, store, stored, temp, edits>>

\* A read, a write or an answer fails and the page says so.
Fail(a) ==
  /\ ~Idle(a) /\ At(a, "idle")
  /\ UNCHANGED <<document, store, stored, temp, page, edits>>

Init ==
  /\ document \in Documents /\ store \in Stores
  /\ stored = Missing /\ temp = Unread /\ edits = 0
  /\ page = [a \in Admins |-> EmptyPage]
  /\ call = [a \in Admins |-> [NoCall EXCEPT !.step = "load"]]

Handle(a) ==
  \/ Read(a) \/ WriteBlob(a) \/ CompareFile(a) \/ WriteTemporary(a) \/ RenameTemporary(a)
  \/ Answered(a) \/ Fetched(a) \/ Merge(a) \/ Show(a)

Next ==
  \E a \in Admins :
    \/ \E r \in Rows :
         \/ Type(a, r) \/ SaveCommand(a, r) \/ DeleteCommand(a, r) \/ TogglePackagedSkill(a, r)
         \/ \E action \in {"rotate", "clear"} : ChangeCredential(a, r, action)
    \/ SaveWhole(a) \/ Reload(a) \/ Handle(a) \/ Fail(a)

Spec == Init /\ [][Next]_vars

-----------------------------------------------------------------------------
(* Properties.                                                             *)

Snapshot == [rows : [Rows -> Values], count : Nat]
Page == [shown : [Rows -> Values], dirty : SUBSET Rows, loaded : Snapshot,
         base : [Rows -> Values], kept : SUBSET Rows]
Call == [step : {"idle", "sent", "read", "checked", "temporary", "written", "fetch", "merge",
                 "load", "show"},
         row : Rows, value : Values, whole : [Rows -> Values], dirty : SUBSET Rows,
         expected : Snapshot, read : Snapshot, crossed : BOOLEAN]

TypeOK ==
  /\ stored \in Snapshot /\ temp \in Snapshot /\ edits \in 0..Edits
  /\ document = "policy" => \A r \in Rows : stored.rows[r] \in {0, 1}
  /\ page \in [Admins -> Page] /\ call \in [Admins -> Call]

Commits(a) == Step(a) \in Writing /\ call'[a].step = "written"
Replaced == {r \in Rows : stored'.rows[r] # stored.rows[r]}
Uncrossed(a) == ~call[a].crossed
Guarded(a) == call[a].expected # Unread /\ (store = "blob" \/ Uncrossed(a))

\* What the administrator, or for credentials the route, has seen of a row.
Seen(a) == IF document = "credentials" THEN call[a].read.rows ELSE page[a].base

\* Whoever saves with a revision replaces only values they have seen: edits of
\* others meet a conflict, also when the revision was answered late or the row
\* was patched into a list read before (commands/route.ts, skill-policy,
\* credentials.ts applyCredentialChange, admin-config.ts write).  Excepted are
\* drafts that a refresh kept although the row had changed, and overlapping
\* saves in files.
OverwritesSeen ==
  [][\A a \in Admins : Commits(a) /\ Guarded(a) =>
       \A r \in Replaced \ page[a].kept : stored.rows[r] = Seen(a)[r]]_vars

\* A save of the models that types no secret leaves the stored secret alone,
\* although the route reads it in one step and writes it in another
\* (preserveSecret in api/admin/config/route.ts).  Excepted are saves
\* that another one crosses between the two, if they carry no revision or go to
\* files.
SecretKept ==
  [][\A a \in Admins : Commits(a) /\ (Guarded(a) \/ Uncrossed(a)) =>
       (document = "models" /\ Secret \notin call[a].dirty => Secret \notin Replaced)]_vars

\* A save that is answered as done has stored what was sent, and nothing of
\* anybody else's; saves in files that overlap are excepted, because they
\* share the temporary file (FileConfigStore.write).
AnswerIsTrue ==
  [][\A a \in Admins : Commits(a) /\ (store = "blob" \/ Uncrossed(a)) =>
       stored'.rows = Body(a)]_vars

\* What a save was asked to do is what was stored: the whole list, under the
\* secret that was there, and an answer of success says so truly; excepted are
\* saves in files that overlap, as its two parts say.
SavesWhatWasSent == SecretKept /\ AnswerIsTrue

=============================================================================
