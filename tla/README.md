# TLA+ models of DigiBuddy

DigiBuddy runs the Codex engine as a hosted agent. A Python adapter
(`hosted-agent/`) accepts requests from Foundry's Responses endpoint and from
Teams, drives one `codex app-server` process, and turns what it reports into a
response. A Next.js console (`webui/`) is the chat client and the place where
administrators edit the agent's configuration and deploy capabilities. Two of
the skills the agent brings along are programs with state of their own: the
maturity assessment and the task protocol of superclarity.

This directory holds TLA+ modules for the parts of that system where order,
concurrency and failure decide whether it works, the TLC configurations that
check small instances of them, and TLAPS proofs of the theorems that hold for
every instance. Paths below are relative to the repository.

1. [Inventory](#1-inventory)
2. [Modules](#2-modules)
3. [Runs](#3-runs)
4. [Fairness](#4-fairness)
5. [Theorems](#5-theorems)
6. [Disagreements and limits met while modelling](#6-disagreements-and-limits-met-while-modelling)
7. [What is not modelled](#7-what-is-not-modelled)
8. [Plan](#8-plan)
9. [Running the checks](#9-running-the-checks)

`PROJECT.json` is the index: components, runs, the source lines every
definition stands for, hazards with the properties that cover them, theorems,
and for every checked property a mutation of the model that it detects.

## 1. Inventory

### The agent (`hosted-agent/`)

| component | state | operations | hard behaviour | correct when |
|---|---|---|---|---|
| **Teams delivery** `main.py` 64-491 | activities in flight, finished and with an undelivered reply, each with an eviction queue | claim, cache the reply, complete; turn; stream, fall back to a plain message; apologise | handlers interleave at each await; the connector retries, also early; channel rejects; the SDK cancels streams silently; a call raises although the channel accepted; restart | one handler per activity; the memory is bounded; no repeated turn within the window, and no second reply once an acceptance was heard of; everything is answered or, after its eviction, dropped |
| **Response stream** `main.py` 494-728, `events.py` | open reasoning, tool and message items, text so far, known failure | translate each event of a turn; publish files; explain; note the profile | overlapping tools, several messages, repeated text in completion events, retry, failure at any point | items closed once; text whole, in order and unrepeated; nothing taken back; console and Teams agree |
| **Codex runtime** `client.py`, `session_map.py` | the engine process and its fingerprint, loaded threads, set-aside notifications, the session map on disk | queue of turns, start/stop of the engine, JSON-RPC calls, resume or start a thread, bind, drive, retry | the engine answers late, hangs, exits, or writes what cannot be read; configuration edited; callers cancel, or leave at an event | right engine for profile and configuration; right thread; no event lost, and none shown to another while callers stay; no request waits for ever |
| **Configuration overlay** `config_store.py`, `profiles.py`, `config.py` 349 | cached documents with age, last readable document | read through the cache, retry over HTTPS, settle schemas, resolve a profile | stale answers, failed reads, unsupported schemas, restart | edits arrive; a restriction is not lifted by a failure |
| **Preparation** `config.py` 1039-1231 | skills root, `config.toml`, tool views, packs | rebuild everything for a new engine | the steps read the configuration separately; any may fail; files of earlier profiles remain | what is installed is what the registry says |
| **Deployed skills** `skills.py` | none of its own | parse the registry, verify and swap bundles | missing or damaged bundles | only active bytes are unpacked |
| **Artifacts** `artifacts.py`, `attachments.py` | directory snapshots | compare, upload, report lost files | upload fails | files are reported or declared lost |
| **Maturity assessment** `skills/agent-maturity-*/_lib` | the answers file; interviews that wait inside one another | start, ask, record, revise, judge, score over JSON-RPC | answers out of order, to an outer interview, misfitting or none; revisions; the process dies; two writers of a file | answers are kept; nobody waits for ever; a score is only as high as what was proven |
| **Task protocol** `skills/superclarity/scripts` | the append-only ledger of a task, its contract, acceptance, payloads, evidence, and a lock file | check, approve, start, finish, skip, revalidate, recover, accept, repair | files are edited between any two commands; a process dies inside one; an effect of which nobody knows whether it happened; revisions | a step starts only as it was approved; no effect is repeated; results belong to their step; the task never gets stuck |
| **Skills named in a turn**, **hardening** `turn_skills.py`, `hardening.py` | none | pure function; calls to the operating system | none | — |

### The console (`webui/`)

| component | state | operations | hard behaviour | correct when |
|---|---|---|---|---|
| **Capability console** `lib/skill-import.ts`, `api/admin/skills` | registry `skills.json`, bundles, the page's listing | deploy, switch, approve, revoke, withdraw | several administrators; several store calls per request; lost answers; stale pages | registry names stored bundles; consent is for reviewed bytes; no lost update |
| **Administration store and page** `lib/admin-config.ts`, `api/admin/{config,commands,skill-policy,credentials}`, `app/admin/page.tsx` | one document each with a revision; a copy of it and drafts on each page | load, edit, save under a revision, merge after a save, refresh | several administrators and pages; a revision read after the write; a secret no page is shown | nobody overwrites what they have not seen; secrets kept; answers true |
| **Agent route** `api/agent/route.ts`, `lib/agent-proxy.ts` | the reply being streamed | translate the agent's SSE stream into AG-UI events | deltas, whole texts or both; several messages; streams cut short | each run ends once; frames unmixed; text whole |
| **Conversations and turns** `app/page.tsx`, `lib/session-*.ts`, `lib/sessions.ts`, `VoiceInputButton.tsx` | conversations, runs, agents in the browser, turns that wait | send, address another agent, speak, select, create, delete, change of account | handlers see the last commit; runs outlive the conversation on screen; spoken turns wait | replies reach their conversation; one run per conversation; it goes on from its last answer |
| **Artifacts for users**, **identity**, **other routes** | none shared | direct calls of stores and token checks | none | — |

### Operations

| component | state | operations | hard behaviour | correct when |
|---|---|---|---|---|
| **Release** `scripts/release_hosted_agent.py` | images, versions of the agent, the console's image and setting, receipts | build, create a version, wait, verify, switch the console, roll back | every command may fail, also after it took effect; the process is killed; tags are reused | the console names a verified version; a failure puts everything back or says that it did not |

### Interaction

```
 Teams -> Bot Connector --activity--> main.py handle_activity_message --+
 console page -> api/agent -> Foundry --request--> handle_response -----+
                                                                        v
                                  client.py stream_turn (one at a time) <-> codex app-server
                                    |          |              |                  |
                          session map   config_store.py   config.py / skills.py  | runs the skills'
                                               |                | (bundles)      | programs: maturity
                                  HTTPS, cached per document    |                | server, superclarity
                                               v                v
                       console: api/runtime/documents, api/runtime/bundles
                                               ^
                       administrators: api/admin/* -> blob store (etags)

 release script -> registry images, Foundry versions, the console's settings
```

The adapter is one asyncio process per session container: handlers interleave
only at awaits, and a lock admits one turn at a time. The console and the
agent share nothing but documents and bundles in the blob store.

Hard behaviours come from these places: handlers interleaving at awaits and
closures that see an old commit; an engine that owes nothing; a connector and
a network that retry and lose answers; caches that outlive what they hold;
documents that several administrators change; files that are edited between
two commands; and processes killed between two steps. `PROJECT.json` lists the
hazards line by line, with the property that covers each and, where it is
covered in part, what is excepted.

## 2. Modules

### ActivityAnswer, ActivityDelivery — Teams delivery

`ActivityDelivery` has the module state of `main.py` (`inflight`, `completed`,
`pending` and the two queues, under their names in the code) and for each
concurrent call of the handler where it is and which activity it serves.
`_claim_activity`, `_cache_activity_reply` and `_complete_activity` contain no
await under their lock and are one step each; between them every await is a
place where other handlers may run. The connector posts (`Post`), retries
after a failed response, and with `EarlyRetry` also while it is waiting. The
ways out of `handle_activity_message` are separate actions: accepted by the
stream, by the fallback message after a cancelled or a raising stream,
rejected, failed before there was a reply. What the channel did and what the
handler learns of it are two outcomes: `ChannelAccepts` is an acceptance that is
heard of, `AcceptedUnheard` one whose acknowledgement is lost, after which the
handler sends the reply again or leaves it to a retry. `handle_activity_error` re-raises
what was not delivered and apologises for everything else. `Restart` loses
the module state. An activity without an id has no event key and is not
tracked.

`ActivityAnswer` is the promise: waiting, working, ready, accepted unheard,
answered, in this order and nothing after, until the window of remembered activities has passed over an activity or
the process restarts. `ActivityDelivery` implements it (`ImplementsPromise`)
under the mapping `Status`, `Passed`, `restarts`.

### CodexRuntime — turns, engine, threads

One holder of the turn lock (`pc`, `cur`, `job`) against an engine (`engine*`,
`inbox`, `pipe`) that answers, reports, exits or garbles its output whenever it
likes. The steps of the holder are those between two awaits of
`client.py`: look-up and profile, fingerprint and restart, preparation and
start, `initialize`, `thread/resume` or `thread/start`, binding, `turn/start`,
the loop over the turn's messages, the retry in a new thread. Each call can be
answered, refused, end with the pipe, break on an unreadable line or time out.
The time-outs are those of a single line: each line that is read starts them
afresh. A write waits while the engine's stdin is full (`clogged`), and with
`Chatty` the engine puts requests of its own (`EngineAsks`), which the adapter
declines. A caller that stays may set the cancellation signal, which
restarts the engine; one that leaves at an event (`CallerLeaves`) closes the
generator and releases the lock, and the engine goes on with its turn.
Ids of calls, threads and turns are unique in the code and are represented by
the call that made them. Requests may continue a finished response, a response
in progress (`EagerCallers`), or an id bound by an older version (`Legacy`).

### ResponseStream — what a caller is shown

The engine reports items (message, reasoning, tool) with pieces of text, in
any overlap the protocol allows; the handler folds them with the code's lazy
opening and closing (`OpenReasoning`, `CloseReasoning`, `Say`, `OpenTool`, …),
ends like `client.py` does (success, failure, interruption, a broken stream, a
retry), publishes files, explains and adds the profile note. Text is a sequence
of pieces, so that "whole", "in order" and "repeated" mean something without
any characters; some pieces are only whitespace (`Blank`), because the code asks
here whether there is text and there whether there is more than whitespace.
`TeamsAnswer` is `_activity_reply`'s choice.

### ConfigCache — configuration overlay

`CachingConfigStore` over `HttpConfigStore` for `profiles.json`, the document
that restricts agents, and its resolution: cached answer with its age, a read
that takes several attempts, the three cases of `read` (no document, readable
schema, unsupported schema), the last readable document, `load_profiles` and
`resolve_profile`. Time is an age that stops at the lifetime, so neither time
nor edits need a bound.

### CapabilityRegistry, CapabilityInstall — from the console to the engine

In `CapabilityRegistry` each administrator has a page listing and at most one
request. A request reads the registry with its revision (`Begin…`), uploads
bundles (`PutBundle`), and saves under the etag it read (`Save`, `AnswerLost`,
`Conflict`); the store may be unavailable between any two calls. A bundle is its
digest, and the kind of a capability is in its bytes. Left out: labels, authors,
times, descriptions, and the digest of the previewed archive (an archive is what
was previewed). Only the blob store is modelled, whose comparison is part of the
write; `AdminStore` has the file store.

`CapabilityInstall` puts one agent with several profiles beside that console.
Each turn compares the fingerprint with the running engine's; if they differ the
engine is stopped and `prepare_codex_environment` runs as the code orders it:
skills root (`InstallSkills`), `config.toml` and tool views (`WriteConfig`), pack
servers (`InstallServers`), pack tools with their launchers (`InstallTools`), start.
Every step reads the registry anew: the cached answer, the stored one, or nothing
when the read fails. A bundle may be missing. `scope` says who takes part in a
behaviour. Abstracted: one read per step (the code may read twice within one), the
capability pack flag is on, packaged MCP servers and the switches of packaged
skills are absent.

### MaturityInterview, MaturityServer — the maturity assessment

`MaturityInterview` has the interview as functions of its answers document: which
question is due (framing, anchors, probes by tier), what an answer, a skip, a
revision or a judgement writes, when a document is complete, the evidence gate and
the score, and the validator that must take it. `MaturityServer` has the session
tools over one answers file behind the JSON-RPC connection: lines are served one at
a time, `maturity_run_interview` asks through the client and waits, further lines are
served in a frame nested inside, and an answer to an outer frame is parked until
that frame has the floor. Each frame works on the document it loaded. Other writers
overwrite the file, answers do not fit or are declined, and the process dies, after
which only the file remains. Questions of one pillar stand for all; quotes, stances,
texts and reports are left out.

### Release — the release script

One variable `step` walks `release_hosted_agent.py`: gates, local validation, both
images, the source version and its clone, activation, verification, and for the
console: reading what is there, the version setting, the image, the check, then the
four steps of the rollback, and the receipt, whose failure leaves all that as it is
(`unreceipted`). The agent's endpoint is asked by the name of the agent, so that the
verification is of the newest active version. Every command may fail without effect or
after its effect (`Ends`); `Kill` stops the script between any two steps; the platform
activates or fails a version whenever it likes (`Provision`) or never. Releases follow
one another with any options and may reuse the tag of an earlier one.

### AdminStore — documents, routes and the page

A behaviour follows one document (`models`, `commands`, `policy`, `credentials`) in one
store (`blob`, `file`): the documents do not depend on each other. Each administrator has
a page (what it shows, its revision, drafts) and one call at a time, which loads, reads,
writes and reads the revision again as its route does. `Body` is what a save sends: the
whole list with a changed row, the models with the secret carried forward, a binding
applied to a fresh read. The file store compares and renames in two steps through a
shared temporary name. `refreshCommands` merges a fresh list into drafts.

### AgentProxy, ConsoleTurns — conversations in a browser

`AgentProxy` has what each event of a response does to the run that the browser sees:
frames, separators, completed texts against streamed ones, the response id, the end.
`ConsoleTurns` has the page: `seen` are the runs of the last commit, which handlers
read; effects run after a commit (`PendingEffect`, `VoiceEffect`); a key press is followed
by its commit before anything else, an answer of the network is not. Turns are typed,
addressed to another agent (`Mention`), or spoken (`Record`, `Transcript`) and then kept
until their conversation is idle. Conversations are selected, created, deleted, and
replaced when another account signs in; agents of conversations that go are released.

### TaskLedger, TaskCommands — the task protocol of superclarity

`TaskLedger` has what follows from the ledger (`state.mjs`, `ledger.mjs`): approvals in
force, recoveries and what they owe, the result of each step with what is carried from
earlier revisions, and the command that `status` names (`Advice`). The ledger is the
sequence of its events, an event's `seq` is its index, and a digest is what it is the
digest of. `TaskCommands` has every command of `superclarity.mjs` that appends: one step
each, because a command holds the task's lock from before it reads until after it wrote
(`runLocked`). Between commands the contract, the evidence, the action's payload and the
acceptance are edited; a process may die before, while or after writing, leaving its
lock and perhaps part of a batch. What the ledger's validator refuses is a guard
of the command (`LedgerAdmitsExecutionGate`). Contracts have one capability and valid texts.

### MC modules and proofs

`MC<Module>` gives TLC its instances. `<Module>Proofs` holds the theorems about a
module and extends it and TLAPS: there is one for `ActivityDelivery`, `CodexRuntime`,
`ResponseStream`, `AdminStore`, `ConsoleTurns` and `Release`, and two are about several:
`ConfigurationProofs` about `ConfigCache` and `CapabilityRegistry` with `CapabilityInstall`,
`SkillProofs` about `MaturityServer` and `TaskCommands`. The names of these modules are
distinct so that one module can extend them all. A few definitions that nothing uses are
deliberate defects, each next to the one it imitates (`ReadyBeforeBundles` before
`ReadyToSave`): with the defect in its place, the property that `PROJECT.json`
names with it fails.

## 3. Runs

| run | instance | states | shows |
|---|---|---|---|
| `activity_safety` | 3 activities with an id, window 2, 2 handlers, early retries, lost acknowledgements, 1 restart | 788,503 | exclusive handling, sound memory, no repeated turn within the window, no second reply in it after an acceptance that was heard of, the abstract promise |
| `activity_liveness` | 2 activities, window 1, 1 restart, a connector that waits | 10,252 | every activity is answered, or dropped after its unsent reply was evicted |
| `runtime_protocol` | 2 requests, 2 profiles, eager and leaving callers, 1 note per turn | 6,894,278 | events reach their own turn once unless a caller left, nothing is repeated after speech, a conversation keeps its identity |
| `runtime_recovery` | 2 requests, 2 profiles, leaving callers, a chatty engine that leaves its stdin full, 2 configurations, 1 edit or 1 unreadable line | 984,570 | threads are live, the engine fits profile and configuration, attachments are where the turn runs, every request finishes |
| `response_stream` | 4 items of 2 pieces, 3 of them whitespace | 2,492,386 | items closed once, speech intact, never silent, channels agree, nothing taken back |
| `config_overlay` | 2 profiles, 4 documents (restricting either profile, newer, corrupt) or none, lifetime 2, 2 attempts | 353,547 | fresh answers, restrictions hold, edits take effect |
| `capability` | 3 accepted saves; two administrators without the agent, or one with the agent, three profiles and 1 failed read | 3,341,188 | bundles stored, consent informed, no lost update, installed as read, nothing withdrawn stays, only what was active is unpacked |
| `maturity` | 1 pillar with 2 dimensions, levels 2 and 4, frames 2 deep, 1 spare request | 247,876 | an honest score, answers kept, nobody waits for ever |
| `release` | 2 releases, 1 poll | 163,816 | what was verified stays in service, a failure leaves the console as it was, or says so, or only misses the receipt of a completed switch; every release ends |
| `admin_store` | 2 administrators, 2 rows, 2 edits, 3 writes, 4 documents, 2 stores | 4,569,981 | what is overwritten was seen, what was sent is saved |
| `console` | 2 turns in 2 conversations, or 3 turns in 1, or a choice of agent; 3 messages of 2 pieces | 199,595 | turns keep their conversation, it goes on from its last answer, answers are whole, nothing hangs |
| `task_ledger` | one task in seven stories: recovery, rework, closing, drafts, crash, sending, an uncertain effect | 435,982 | starts are approved, recovery holds, results belong to their step, the advised command can be run, but for the exceptions of section 6 |

A property of a run is often a conjunction of named parts, one per statement:

| property | parts |
|---|---|
| `MemoryIsSound` | `TypeOK`, `MemoryBounded` |
| `WithinWindow` | `RerunOnlyAfterWindow`, `DeliveredOnceWithinWindow`, `GivenUpOnlyAfterWindow` |
| `EventsReachTheirTurnOnce` | `TypeOK`, `NothingLost`, `OwnEventsOnly`, `NoRepeatAfterSpeech` |
| `ThreadsAreLive` | `LoadedThreadsAreLive`, `BoundToAnsweringThread` |
| `EngineFits` | `EngineFitsProfile`, `EngineFresh` |
| `CompletionIsWhole` | `TypeOK`, `ClosedOnCompletion` |
| `AnswersAlike` | `NotSilent`, `ChannelsAgree` |
| `CacheIsHonest` | `TypeOK`, `AnswersAreFresh` |
| `InstalledIsCurrent` | `TypeOK`, `InstalledAsRead`, `NothingWithdrawnStays` |
| `ScoreIsHonest` | `TypeOK`, `PassedMeansProven`, `ScoreIsValid`, `CompleteIsScorable` |
| `AnswersAreKept` | `SavedBeforeAsked`, `HeardIsKept` |
| `NobodyWaitsForEver` | `InterviewCompletes`, `ParkedIsTaken` |
| `VerifiedStays` | `TypeOK`, `ReceiptIsTrue`, `ConsoleNamesVerified`, `CloneCarriesOn`, `FailedVersionsRemoved` |
| `ConsoleSurvives` | `FailureLeavesConsole`, `ConsoleIsWhole` |
| `SavesWhatWasSent` | `SecretKept`, `AnswerIsTrue` |
| `TurnsKeepTheirConversation` | `TypeOK`, `OwnConversation`, `OneRunPerConversation`, `RunsHaveConversations` |
| `ConversationGoesOn` | `ContinuesLastAnswer`, `AgentKept` |
| `NothingHangs` | `SpokenIsSent`, `RunsEnd` |

Why these bounds are enough for the cases that matter:

- *Window 2 with three activities* is the least at which an entry is evicted
  while another is kept, in both queues; two handlers are the least that can
  collide. The liveness
  run has *a window of 1 for two activities*, so that replies are evicted there too.
  Activities without an id, which take the paths without memory, are in the theorems
  only: one more activity is more than TLC finishes. The
  counts in `ghost` stop at the window size, which is all the properties ask.
- *Two requests* suffice for the runtime because the lock admits one turn and
  every influence of one request on the next goes through the state one leaves
  behind; both attempts of each are included. One note per turn is enough to be
  set aside, lost, shown or shown to another. The two runs divide the features
  (notes and eager callers; edits, unreadable lines, requests of the engine, a full stdin
  and liveness), because all at once exceed what TLC finishes. Callers leave in both.
  Bindings of older versions (`Legacy`) are in the theorems only. One edit
  may come between any two steps of a preparation; that a second one takes it back,
  which can leave an engine rendered from what no fingerprint says, is in the theorem
  only. `MaxTroubles` adds edits and unreadable lines, a line
  weighing as much as two edits, so that a behaviour has either, and the engine talks
  only before both. `Asks` says which
  agents callers name: any or none in the first run, the one that can be withdrawn or
  none in the second. The engine's own requests come one at a time:
  more of them only repeat what one does to a limit.
- *Four items* allow a message, reasoning, a tool and a second message in every
  order and overlap, and two pieces allow a gap, a repetition and a cut. The first item
  begins with whitespace and the third is nothing else, so that a turn can say only
  whitespace, or whitespace and more.
- *Three saves* let an executable capability be deployed, approved and enabled,
  or deployed, changed and withdrawn, and three saves by two administrators give
  every conflict. One failed read can hit any step of a preparation; missing
  bundles are not bounded.
- *Two dimensions at levels 2 and 4* give an anchor that opens one probe tier, one
  that opens several, and a revision between them; frames two deep are the least at
  which an answer belongs to a frame that does not have the floor.
- *Two releases* let one reuse the tag of the other and start from what a failed
  or killed one left; the script polls alike however often.
- *Two administrators with two edits and three writes* give an edit under every
  stale revision and a write between another's write and its second read of the
  revision; the four documents differ in what a save sends.
- *Two conversations, and three turns in one,* give a turn that waits behind another,
  a run that outlives the conversation on screen, and a spoken turn whose conversation
  is deleted meanwhile (`MaxTurns` 3, `MaxSessions` 2). Three messages allow a gap, a repetition and an unstreamed one.
- The *stories* of `task_ledger` each free the steps of one concern and fix the
  others (which files may be edited, whether a process may die, which outcomes an
  action has), because the free product of all of them has no end.

`CHECK_DEADLOCK FALSE` is set where a run ends on purpose: activities, requests,
items, saves or turns are used up. `config_overlay` never stops.

## 4. Fairness

- **Delivery.** The connector keeps retrying what has no successful response
  (strong, for each activity: it has to wait for a free handler again and
  again), handlers run to their next await, and a channel asked again and again
  accepts in the end and is heard to. Without the last nothing can be promised; restarts are
  bounded.
- **Runtime.** Weak fairness of the holder's next step and of the lock. The event
  loop justifies both: each read has a timeout, which is one of the holder's
  steps, and a caller takes the next event or leaves. The engine may hang, exit, refuse
  or break, but two things are assumed of it, because no timeout of the adapter covers
  them: it does not leave its stdin full for ever (`_send` awaits `drain()`,
  `client.py:533`; weak fairness of `EngineReads`), and it does not for ever send
  something else just before each limit expires, which every line read starts afresh
  (`client.py:473-483`, 503-507; strong fairness of the two time-outs together). Only
  `runtime_recovery` uses it.
- **Configuration.** Turns keep coming, time passes, a read under way ends (the
  attempts are bounded by timeouts), and a console asked again and again answers
  now and then (strong). `EditTakesEffect` also assumes that the process is not
  restarted for ever.
- **Maturity.** Weak fairness of starting the interview, of recording, of an answer
  to the interview that has the floor and of taking a parked answer: a facilitator
  and a customer who go on. Nothing obliges them to fit, to be in order, or not to
  be declined first.
- **Release.** Weak fairness of the script's step. Nothing is assumed of the
  platform: a wait ends by its limit.
- **Console.** Weak fairness of commits and effects, which React runs, and of the
  end of each run: the network answers or fails in the end.

`AdminStore`, `CapabilityRegistry`, `CapabilityInstall`, `ResponseStream` and
`TaskCommands` state safety only.

## 5. Theorems

All are proved for every value of the constants, from the assumptions named in
the modules (`ActivityAssumption`, `RuntimeAssumption`, `StreamAssumption`,
`ConfigAssumption`, `RegistryAssumption`, `InstallAssumption`, `AdminConstants`,
`ConsoleAssumption`, `ReleaseConstants`, `InterviewConstants`, `ServerConstants`,
`LedgerConstants`, `TaskConstants`). They
give the domains of the constants and say that values which stand for "none" differ from
what they stand beside; what `ServerConstants` says of files found at the start and
`TaskConstants` of contracts is described below. One theorem has a hypothesis of its own (`AttachmentsTheorem`).

Every safety invariant and action property of the runs is proved, but for those listed
at the end of this section. Each proof has the same form: an invariant that is
inductive, one lemma per step or kind of step that keeps each of its parts, and a
theorem that combines them.

**ActivityDeliveryProofs.** `InvHolds`, `MemoryStaysSound`, `ExclusiveHandling`,
`WithinWindowHolds`, `DeliveryKeepsPromise`. That the claims are exactly those of the
handlers at work needs to know that an arrived handler holds none and that each claimed
activity has one holder; that a cached reply has an entry in its queue needs the shape
of both queues. For the window (`WindowInv`) the argument is an age: an entry of a
queue has been passed by at least as many activities as stand behind it, so that only an
entry over which the window has passed is evicted; a reply is remembered until then; and
the entries of `pendingOrder` that no reply belongs to any more are those of delivered
ones, which is why it does not matter that they take places. `HandlersInv` says what a
handler knows of the activity it holds, `AcceptedInv` that a reply heard to be accepted
is remembered or about to be, `UnheardInv` that what was accepted unheard was a reply. `DeliveryKeepsPromise` is the refinement of `ActivityAnswer`:
one lemma per kind of step says which step of the promise, or none, it is.

**CodexRuntimeProofs.** `EventsTheorem`, `ThreadsTheorem`, `EngineFitsTheorem`,
`IdentityTheorem`, `AttachmentsTheorem`. The invariant is built up in layers, each kept
given those before it. `TypeOK`, `Conversation`: types, and which conversation the
holder of the lock continues. `EngineInv`: what the adapter remembers of the engine
and what the engine is; the store is read twice, and only an edit between the two makes
them differ. `TriesInv`, `MadeInv`, `AnsweredInv`: whatever the engine holds or has
written answers a call that was made, and answers it once. `TurnsInv`: a turn is begun,
reported on and ended in this order. `ThreadsInv`: threads believed loaded are in the
running engine. `FreshInv`, `SilentInv`, `AccountInv`: what was emitted for the holder's
turns was shown or is in a queue, and a turn believed silent was. `RepeatInv`,
`CompleteInv`: a turn that is repeated or completed is over. `RefusedInv`, `LiveInv`:
without an unreadable line the only reports in the queues are the current turn's, those
of a turn whose caller left, or those of an engine that exited; so that what is shown to
another is of a caller that left. `AttachmentsTheorem` assumes that callers continue only
finished responses (`~EagerCallers`), for the reason given in section 6.

**ResponseStreamProofs.** `InvHolds`, `CompletionIsClosed`, `NothingTakenBack`,
`SpeechHolds`, `AnswersHold`. The invariant `WellFormed` says that the handler's
positions name open items of the right kind (`Pointing`), that everything open is
reachable from them (`Accounted`), that there is at most one message and it holds the
output (`OneMessage`), that no item is reached twice (`Separate`), and that a message is
opened only to be written to. `CompletionIsWhole` follows because the end of the
response closes everything reachable. Growth is a transitive relation with one lemma for
each operation of the handler. Speech (`SpeechInv`) is intact because what is shown
belongs to items reported so far and nothing shown lies behind the next piece; what is
put behind speech is only notes, which is transitive as well (`Noted`). The channels
agree (`AnswerInv`) because there are no notes before the response is concluded, and it
is concluded only after a turn that did not fail; what is left when whitespace is
stripped is the same in both unless nothing is, which the theorem excepts when there are
no files either.

**ConfigurationProofs.** Of `ConfigCache`: `CacheInvHolds`, `CacheIsFresh`,
`RestrictionSurvives`. The invariant has a part about protection (what the store, the
read under way, the cache and the last readable document hold restricts everything seen
restricted, or a read failed) and one about freshness (what a read carries was in force
when its age says so, and the cache inherits it).

Of `CapabilityRegistry`: `InvHolds`, `TypeCorrect`, `BundlesAlwaysStored`,
`ApprovalsAreInformed`, `SavesAreNotLost`; `AgentLeavesConsole`,
`InstalledIsCurrentHolds`, `UnpackedWasActiveHolds` with the agent beside it. The
console's invariant speaks of requests in progress: what one would save names only
bundles that are stored or still to be uploaded by it; and while the revision it read is
the stored one, it leaves alone what it is not about and every approval it carries was
reviewed. An accepted save makes all other requests in progress stale, because their
revision is then smaller. `AgentLeavesConsole` composes the two: `CapabilityInstall`
implements `ConsoleSpec`, so that the console's theorems hold of the whole. For the
agent, `Known` says that what the registry or its cached answer makes active was once
made active, and `Fits` what the steps of the preparation that are behind each phase
have left, as long as every read answered the fingerprint's registry and no bundle was
missed.

**SkillProofs.** Of `MaturityServer`: `ScoreTheorem`, `AnswersTheorem`, for any bank of questions and
frames of any depth. The functions of the interview come first: what the bank's questions
look like (`QuestionIs`), that the next one is due and unanswered (`NextIs`), what one
answer and one verdict do to a document (`Recorded`, `Judged`), what supplied answers
leave behind (`PrefilledIsFresh`), and what the gate and the validator compute
(`GateIs`, `ScoreOfSound`). A document is `Sound` if every verdict belongs to the answer it
stands beside, which every call keeps; it is `Straight` if, besides, probes are answered
only where the tier and the anchor put them, which holds only until somebody departs from
the interview (`StraightOn`) and is why a finished interview can be scored. That answers are
kept needs to know of every waiting frame that the file is its document unless something
else wrote since (`SavedBeforeAsked`). `ServerConstants` says of a file that is there from the
start that it is a document an interview can have left (`Straight`), and of supplied
answers that they fit the framing questions they name.

Of `TaskCommands`: `StartsTheorem`, `RecoveryTheorem`, `ResultsTheorem`, `RunnableTheorem`, for any
valid contracts, any edits between commands, any number of commands and deaths. The invariant `TaskInv` is
about the ledger alone (`LogInv`), because what a command may do is decided by the ledger
and the files as they are. `RefersBack`: a gate follows the record it shows, an approval
says what the contract it was shown says, and starts and ends of attempts have a record and
a start before them. `GateStands`: as long as nothing follows the gate of an action, its
contract is authorized, no recovery is open and nothing is owed by its step; this is
needed because the approval checks neither again. `NotAcross`, `NotAgain`: the two parts
of `RecoveryHolds`. `StartedStays`: once a step was started in a revision, what is recorded
in it is what was authorized in it, unless a contract was taken back. A ledger only grows,
so that one lemma says for each kind of event what it leaves alone (`QuietKeeps`,
`PrepareKeeps`, `ApproveKeeps`, `StartKeeps`, `FinishKeeps`), and one for each command that
it appends such events. `ShownIsAuthorized` says that a contract that is in force and
recorded last is the one authorized last; this is what fails when one is taken back.
`ResultsTheorem` then follows the revisions over which a result is carried
(`CarriedIsSame`). For `RunnableTheorem` a second invariant says what single events say
(`Said`): what is started is a step and
follows an authorization, and what is finished was completed or failed. From it follow
that the status of a step is one for which a command is named (`StatusIn`), that while no
recovery is open a running step leaves an attempt that can be finished (`RunningIs`), and
that nothing of an unapproved compact contract was started or recovered (`CompactIsNew`);
there is one lemma for each part of the advice (`MismatchRuns`, `DraftRuns`, `StepRuns`).
`TaskConstants` says that contracts are valid (`ValidContract`): a contract is what its
digests cover, revisions are counted from one, its plan is a sequence of steps, and no step
of a compact one has an effect with a gate of its own; commands refuse other contracts.

**AdminStoreProofs.** `Typing`, `OverwritesSeenHolds`, `SavesWhatWasSentHolds`. The number
of writes identifies a state of the document: what a page or a request has read is older
than the stored one, or is it (`IsSeen`). `PageInv` relates what a page shows to what it
loaded, `CallInv` what a request carries to its page and to what its route read. For the
file store `AloneInv` says what remains true between comparison and rename as long as no
other save got between. Only two steps write, and a lemma about both says what is stored.

**ConsoleTurnsProofs.** `TurnsTheorem`, `ConversationTheorem`, `WholeTheorem`. `Shape` says what a turn
is in each of its states, that turns begin in order, that the queue holds each spoken
turn once, and that conversations to come are untouched; `Waiting` that the addressed
turn waits for such a conversation. One run per conversation (`Alone`) holds because a
typed turn that runs is in `runs`, and in what the handlers see unless the commit is
still to come, in which case no key press can be next. `Agents` says that what a
conversation is bound to, the response it continues and who answers in it agree as long
as it answers one turn at a time. Steps are grouped by what they can disturb (`Quiet`,
`Aside`, sending, losing a conversation, speaking), with one lemma per group and part.
`WholeTheorem` needs a second invariant, `Replies`: the messages sent of a turn, one
after the other and without separators, spell the text that has come of it (`Told`), no
message runs into another, the open one ends with the piece that came last (`Apart`), and
a completed reply has come as far as its completed text. Only `EmitText` adds to it
(`Grows`), by a whole text at once, so that it rests on what flattening and leaving out
the separators do to two texts in a row (`FlattenGrown`, `SpokenJoined`). As in the runs,
a completed text goes on from what was streamed; where the two diverge, `TextDelta` sends
nothing more.

**ReleaseProofs.** `InvHolds`, `VerifiedStaysInService`, `ConsoleSurvivesReleases`. What the
console names can be called verified only together with what the script knows at
each step: which versions are its own (`VersionsInv`), what holds at each value of
`step` (`RunInv`), which images a tag may mean (`ImagesInv`), that a receipt is true
(`ReceiptIsTrue`), and how the console's setting and image relate to those recorded
before the switch (`ConsoleInv`). `ConsoleSurvivesReleases` says of a release that failed
only in writing its receipt that the console is switched in full to the version it
verified. One lemma per step of the script preserves them,
whatever the command before it did.

**Only model-checked.** Liveness (`EveryActivityAnswered`, `EveryRequestFinishes`,
`EditTakesEffect`, `NobodyWaitsForEver`, `ReleaseEnds`, `NothingHangs`) is beyond the
prover. Every other property of a run, invariant or action property, is a theorem. No
module declares a recursive operator. The library's induction rules, which take an
operator, cannot be used; induction over numbers is derived from
`NatLessThanWellFounded` and `WFMin` for sets of numbers (`Induction` in `SkillProofs`,
`Counting` in `ConsoleTurnsProofs`), and with it what a function defined step by step
computes (`StepwiseExists`).

## 6. Disagreements and limits met while modelling

Each of these is in the models as the code has it; where a property would be broken
by it, the property says what it excepts.

*Delivery and responses.*

- A retry that arrives while the first attempt is still working is acknowledged as a
  duplicate (`main.py:287`). If that attempt's delivery then fails, nobody retries, and
  the cached reply that the comment at `main.py:486` relies on is never sent. With a
  connector that waits for its answer, `EveryActivityAnswered` holds.
- A call to the channel can raise after the channel accepted (`main.py:432-460`). The
  reply is then sent again by the fallback, and again by each retry, until an acceptance
  is heard of; `DeliveredOnceWithinWindow` counts from there.
- An undelivered reply that `_ACTIVITY_DEDUP_LIMIT` later ones overtake is evicted and
  its activity counted as completed (`main.py:302-307`). The connector's next retry is
  then dropped with a success and nothing is ever sent, although the function's own
  docstring (`main.py:295`) says that completed work is retained until the connector
  accepts the delivery, and the comment at 317 that only an accepted reply is remembered
  as complete. `EveryActivityAnswered` excepts these ("dropped").
- A caller that closes its generator at an event (`client.py:223`, 281) releases the lock
  without stopping the engine, which goes on with the turn; the next request is shown the
  rest of its events. `OwnEventsOnly` excepts events of callers that left. A task that is
  cancelled inside an await of the runtime is not modelled: `src/` cancels none, it sets
  the signal, which restarts the engine.
- The limits of a call and of a turn are limits of a single line (`client.py:473-483`,
  503-507), and `drain()` has none (533): an engine that talks on, or that does not read,
  can hold the lock for ever. `EveryRequestFinishes` assumes that it does neither.
- A turn that says only whitespace and leaves no files completes with it, because
  `main.py:702` asks `not output`, while `main.py:683` and, for Teams, 362 strip it; Teams
  is then given the reason why the turn stopped, or an error. the comment at 703
  wants the reason told in the console as well. `AnswersAlike` excepts it.
- For a turn that completes as failed, `client.py:337-339` yields the reason and raises;
  `handle_response` never reaches the explanation whose comment (`main.py:703`) says
  why it is there.
- After an unreadable line the engine works on with the abandoned turn
  (`client.py:544`), and the next request is shown the rest of its events;
  `OwnEventsOnly` excepts this.
- `_ensure_started` takes the fingerprint from one read of the store (`client.py:350`)
  and renders from a later one (366), while its comment (346-348) says that the engine is
  restarted whenever the rendered configuration would differ. An edit between the two
  that is then taken back leaves an engine rendered from the edit and kept under the
  fingerprint of what the edit replaced; `EngineFresh` excepts it.
- A caller that continues a response still in progress can have its attachments in
  another workspace than its turn once there are two profiles (`main.py:159`);
  `AttachmentsWhereTurnRuns` is stated without such callers.

*Configuration and capabilities.*

- A failed read is taken for a missing document and drops the last readable one
  (`config_store.py:603-607`), so that an unsupported document read next lifts a
  restriction that the class comment (583-588) says is kept until an operator fixes the
  document. `RestrictionHolds` excepts it.
- `skills/route.ts:145` says that withdrawing deletes the bundle; the code keeps it,
  and the comment at 156 says why.
- `install_pack_tools` publishes tools "beside the payload ones" (`config.py:641`). For
  a profile that restricts its skills but not its tools the view is a link, and
  `_link_selection` (called at 1210) removes it before 1211 lists its entries:
  the packaged tools disappear from that profile. Launchers are never removed (656).
- `README.md:212` says that a switch applies from the next turn. A bundle
  that could not be fetched is skipped (`skills.py:325`) and not tried again until
  the fingerprint changes.
- The administration page merges a fresh list into drafts under the fresh revision
  (`page.tsx:668`, `commands/route.ts:45-47`): a draft made against an older row is
  saved under a revision whose row its author saw only as a list. Saves of the file
  store can overlap between comparison and rename (`admin-config.ts:773`).

*Maturity assessment.*

- Revising an anchor from 500 to 200 and back to 500 leaves the question in
  `progress.asked`, so it is not asked again.
- A revision of the tier can leave a document that is complete and cannot be scored
  (`toolkit.py:154` says what to do).
- `run_interview` saves the document it loaded, over what calls served inside it saved.
- A probe judged as failed without an answer makes the score refuse.

*Console.*

- Enter pressed during a run loses the text. A transcript that was delivered while the
  queue's effect is dropped is not sent again (`page.tsx:848`) until the next change.
- A stream that is closed early with text counts as a success; a connection that fails
  after `completed` ends the run as an error and its response id is not kept.
- A second message that was not streamed is glued into the open frame when only its
  completed text arrives.

- A connection that breaks between the state snapshot and the end of the run
  (`route.ts:258-270`), two frames written one after the other, is one moment here
  (`HearsEnd`). An upstream answer that is not a stream (`route.ts:182-189`) is not
  modelled.

*Release.*

- A release that fails when it writes its receipt (`release_hosted_agent.py:238`, 719-726)
  has switched the console and verified it; the error says nothing of that and nothing is
  put back. `ConsoleSurvives` says that the switch is then whole.

*Task protocol.*

- The execution gate of a compact contract is never admitted: `check` puts `eligibility`
  into the prepared gate (`superclarity.mjs:639-641`), which the validator of the ledger
  admits for the compact gate only (`ledger.mjs:51-55`), so that `appendBatch` refuses the
  batch with SC104 (518-519). After a plan-only approval of a compact contract `status`
  names that gate, and `references/cli.md:75` describes its options. The way on is another
  compact gate, which `status` does not name; `NextIsRunnable` says that it is accepted as
  long as nothing was started.
- The gate of a compact contract is consumed by a repair, after which `status` advises
  `check execution`, which is refused with SC401 already; the protocol's text says to run the
  check again.
- A compact contract that is edited after its approval gets the advice `check terms`,
  which is refused. The advice `increment-revision` of the protocol's table is never given.
- A compact contract whose capability is only `resolved` gets the advice `check compact`,
  which asks for `ready`. A contract that is edited after its approval so that its plan or
  its capability is gone can get the advice `check execution`, which asks for both.
- The result of a skip or a revalidation survives a change of the step within the same
  revision: the digest of the step is recorded and never compared.
- Taking a contract back to an earlier approved content of its revision brings its
  approvals back, while comparisons go by the last authorized record; a result of one
  step can then count for another.
- `step fallback` (`superclarity.mjs:1198`) checks neither authorization nor an open
  recovery nor whether the step is the current one; a running step can be started
  twice, and the limit of retries is not enforced.
- The advice is `start-step` or `check-action` for a step that owes a revalidation after
  a recovery.
- `repair-lock` reads the claim and then removes it (1555); an unreadable claim older
  than a minute is cleared.

## 7. What is not modelled

Formats (JSON-RPC fields, SSE, zip archives, TOML), the wording of messages, the
rendering of tool arguments, authentication, logging. Approvals of the engine are
always declined and change no state. Artifact snapshots and the hourly cache of signing
keys (`runtime-auth.ts`) are planned. The skills named in a turn, process hardening,
identity checks, presentation and the agent's command-line tools are functions of one call
with no state between calls. Apart from the maturity and superclarity programs,
`hosted-agent/skills`, `hosted-agent/vendor`, `src/skills` and `src/vendor` are content.
`PROJECT.json` lists every component with its status.

The maturity library is present five times: under four skills and in
`hosted-agent/vendor`. `scripts/sync-agent-skills.sh` keeps the copies equal, and the
model maps to one of them; the other four are about half of the repository's program
text. Most of the rest that no definition stands for is parsing and normalisation of
documents, forms and rendering of pages, and report writing.

## 8. Plan

Modules, the most important behaviour first. Each is parameterised by constants
with named assumptions, has one action per operation, and uses no recursive
operator, so that it can be proved about.

| step | module | composes | abstract specification | properties and theorems |
|---|---|---|---|---|
| done | ActivityDelivery | ActivityAnswer | ActivityAnswer | above |
| done | CodexRuntime, ResponseStream, ConfigCache | — | — | above |
| done | CapabilityRegistry, CapabilityInstall | registry, agent | — | above |
| done | MaturityInterview, MaturityServer | interview, sessions | — | above |
| done | Release, AdminStore | — | — | above |
| done | AgentProxy, ConsoleTurns | stream, page | — | above |
| done | TaskLedger, TaskCommands | ledger, commands | — | above |
| 1 | CataloguePublication | several runtimes | — | the catalogue ends up as the newest configuration's |
| 2 | Artifacts | ResponseStream | — | every file of a turn is published once or reported lost |
| 3 | signing keys, lock repair | — | — | a rotated key is accepted within its hour; a repair removes only the claim it read |

## 9. Running the checks

`tlasany M.tla` parses a module, `tlc -workers 2 -config X.cfg MCM` checks a run
of the table (the longest take two to three minutes), `tlapm M.tla` checks the proofs
of a module. Proofs use Z3, Zenon and LS4 only.
