---------------------------- MODULE CodexRuntime ----------------------------
(***************************************************************************)
(* The turn runtime, src/hosted-agent/codex_adapter/client.py with its     *)
(* session map (session_map.py).                                           *)
(*                                                                         *)
(* CodexRuntime.stream_turn serves one request at a time under a lock: it  *)
(* looks up the conversation, resolves the profile, keeps one `codex       *)
(* app-server` process matching the configuration, resumes or starts a     *)
(* thread, binds the response id to it and drives one turn (or two, when   *)
(* the endpoint rejects the replayed history).  The engine talks over a    *)
(* pipe of JSON lines, answers in its own time, may hang, die or emit a    *)
(* line the adapter cannot read; administrators edit the configuration;    *)
(* callers cancel at any moment, and leave at any event they are given.    *)
(*                                                                         *)
(* JSON-RPC request ids, thread ids and turn ids are all unique, so each   *)
(* is represented by the call that made it: a tag of method, request and   *)
(* attempt.  Artifact publication after the turn is left out, and so is a  *)
(* task cancelled inside an await of the runtime: src/ cancels none, it    *)
(* sets the signal.                                                        *)
(***************************************************************************)
EXTENDS Naturals, Sequences, FiniteSets

CONSTANTS
  Requests,    (* response ids, one stream_turn call each                  *)
  Legacy,      (* ids bound before profiles and workspaces were recorded   *)
  Profiles,    (* profile names                                            *)
  Default,     (* the profile a blank name resolves to                     *)
  Asks,        (* what callers ask for: profile names, or None             *)
  Configs,     (* contents of the configuration store                      *)
  Initially,   (* what it may hold at the outset                           *)
  Offers,      (* the profiles each configuration offers                   *)
  None,        (* absent                                                   *)
  EagerCallers,(* do callers continue from a response still in progress?   *)
  Chatty,      (* bound: may the engine, before other trouble, put requests*)
               (* of its own, and leave its stdin full and unread?         *)
  MaxNotes,    (* bound: notifications per turn                            *)
  MaxEdits,    (* bound: configuration edits                               *)
  MaxGarbles,  (* bound: unreadable lines                                  *)
  MaxTroubles  (* bound: edits and unreadable lines together, the latter   *)
               (* weighing two                                             *)

Tags == [method : {"initialize", "resume", "start", "turn"}, req : Requests, try : {1, 2}]
Turns == {t \in Tags : t.method = "turn"}
Threads == {t \in Tags : t.method = "start"} \union Legacy
Environment == [config : Configs, profile : Profiles]

ASSUME RuntimeAssumption ==
  /\ Requests \intersect Legacy = {}
  /\ None \notin Requests \union Legacy \union Profiles \union Configs
  /\ None \notin Tags \union Environment
  /\ Default \in Profiles /\ Asks \subseteq Profiles \union {None}
  /\ Initially \subseteq Configs
  /\ Offers \in [Configs -> SUBSET Profiles]
  /\ EagerCallers \in BOOLEAN /\ Chatty \in BOOLEAN
  /\ MaxNotes \in Nat /\ MaxEdits \in Nat /\ MaxGarbles \in Nat /\ MaxTroubles \in Nat

VARIABLES
  status,        (* each request: from arrival to its outcome              *)
  prev,          (* its previous_response_id                               *)
  asked,         (* the profile it asks for                                *)
  attachDir,     (* the workspace its attachments were stored in           *)
  cancelled,     (* requests whose cancellation signal is set              *)
  bindings,      (* the session map, on disk                               *)
  config,        (* the configuration store's current content              *)
  edits, garbles,
  pc,            (* where the holder of the lock is; "free" when nobody    *)
  cur,           (* the request that holds the lock                        *)
  job,           (* its local variables                                    *)
  fingerprint,   (* _active_fingerprint                                    *)
  loaded,        (* _loaded_threads                                        *)
  backlog,       (* _pending_notifications                                 *)
  engine,        (* _process: "none", "running" or "exited"                *)
  rendered,      (* what the engine's environment was prepared from        *)
  engineThreads, (* threads the engine has in memory                       *)
  engineTurns,   (* turns the engine is working on                         *)
  inbox,         (* calls the engine has not answered                      *)
  clogged,       (* its stdin is full: the holder's write awaits drain()   *)
  pipe,          (* the engine's stdout, not read yet                      *)
  emitted,       (* history: notifications the engine emitted per turn     *)
  shown,         (* history: of these, those yielded to the turn's request *)
  heard,         (* history: turns whose request was shown assistant text  *)
  overtaken,     (* history: the configuration was edited while the engine *)
                 (* was prepared                                           *)
  foreign        (* history: requests whose events were shown to another   *)

requestVars == <<status, prev, asked, attachDir, cancelled>>
storeVars == <<bindings, config, edits, overtaken>>
clientVars == <<fingerprint, loaded, backlog>>
engineVars == <<engine, rendered, engineThreads, engineTurns, inbox, clogged, pipe,
                garbles, emitted>>
historyVars == <<shown, heard, foreign>>
vars == <<requestVars, storeVars, pc, cur, job, clientVars, engineVars, historyVars>>

-----------------------------------------------------------------------------
(* Values                                                                  *)

Finished == {"ok", "failed", "cancelled", "left"}
Statuses == {"new", "waiting", "active"} \union Finished

Requesting == {"initializing", "resuming", "starting", "turning"}
Places == {"free", "resolved", "preparing", "ready", "driving"} \union Requesting

Unbound == [thread |-> None, profile |-> None, workspace |-> None]
Binding == [thread : Threads \union {None}, profile : Profiles \union {None},
            workspace : Requests \union {None}]

(* current: the configurations in force at some moment since the lock was  *)
(* taken (history).                                                        *)
Job == [profile : Profiles \union {None}, want : Environment \union {None},
        workspace : Requests \union {None}, resumes : Threads \union {None},
        thread : Threads \union {None}, try : {1, 2}, spoke : BOOLEAN,
        current : SUBSET Configs]
NoJob == [profile |-> None, want |-> None, workspace |-> None, resumes |-> None,
          thread |-> None, try |-> 1, spoke |-> FALSE, current |-> {}]

Message == [kind : {"reply"}, tag : Tags, info : {"ok", "error", "poisoned"}]
             \union [kind : {"note"}, tag : Turns, info : {"tool", "speech"}]
             \union [kind : {"completed"}, tag : Turns, info : {"ok", "failed", "poisoned"}]
             \union [kind : {"request"}, tag : Tags]
             \union [kind : {"garbage"}]

TypeOK ==
  /\ status \in [Requests -> Statuses]
  /\ prev \in [Requests -> Requests \union Legacy \union {None}]
  /\ asked \in [Requests -> Profiles \union {None}]
  /\ attachDir \in [Requests -> Requests \union {None}]
  /\ cancelled \subseteq Requests
  /\ bindings \in [Requests \union Legacy -> Binding]
  /\ config \in Configs /\ edits \in 0..MaxEdits /\ garbles \in 0..MaxGarbles
  /\ overtaken \in BOOLEAN
  /\ pc \in Places
  /\ cur \in Requests \union {None}
  /\ pc = "free" <=> cur = None
  /\ job \in Job
  /\ fingerprint \in Environment \union {None}
  /\ loaded \subseteq Threads
  /\ backlog \in Seq(Message)
  /\ engine \in {"none", "running", "exited"}
  /\ rendered \in Environment \union {None}
  /\ engineThreads \subseteq Threads
  /\ engineTurns \subseteq Turns
  /\ inbox \subseteq Tags
  /\ clogged \in BOOLEAN
  /\ pipe \in Seq(Message)
  /\ emitted \in [Turns -> 0..MaxNotes]
  /\ shown \in [Turns -> Nat]
  /\ heard \subseteq Turns
  /\ foreign \subseteq Requests

Init ==
  /\ status = [r \in Requests |-> "new"]
  /\ prev = [r \in Requests |-> None]
  /\ asked = [r \in Requests |-> None]
  /\ attachDir = [r \in Requests |-> None]
  /\ cancelled = {}
  /\ bindings = [r \in Requests \union Legacy |->
                   IF r \in Legacy THEN [Unbound EXCEPT !.thread = r] ELSE Unbound]
  /\ config \in Initially /\ edits = 0 /\ garbles = 0 /\ overtaken = FALSE
  /\ pc = "free" /\ cur = None /\ job = NoJob
  /\ fingerprint = None /\ loaded = {} /\ backlog = <<>>
  /\ engine = "none" /\ rendered = None
  /\ engineThreads = {} /\ engineTurns = {} /\ inbox = {}
  /\ clogged = FALSE /\ pipe = <<>>
  /\ emitted = [t \in Turns |-> 0] /\ shown = [t \in Turns |-> 0]
  /\ heard = {} /\ foreign = {}

-----------------------------------------------------------------------------
(* The session map and the workspace                                       *)

Lookup(id) == IF id = None THEN Unbound ELSE bindings[id]

IsBound(id) == Lookup(id).thread # None

(* conversation_workspace: the directory a bound conversation owns, else   *)
(* one derived from the response id.                                       *)
Workspace(p, r) == IF IsBound(p) THEN Lookup(p).workspace ELSE r

Bind(r, thread) ==
  bindings' = [bindings EXCEPT ![r] =
    [thread |-> thread, profile |-> job.profile, workspace |-> job.workspace]]

-----------------------------------------------------------------------------
(* Callers                                                                 *)

(* handle_response is entered: the attachments are stored before the turn  *)
(* asks for the lock.  A caller can only continue from a response it knows.*)
Arrive(r, p, q) ==
  /\ status[r] = "new"
  /\ p \in Requests => status[p] \in IF EagerCallers THEN Statuses \ {"new"} ELSE Finished
  /\ status' = [status EXCEPT ![r] = "waiting"]
  /\ prev' = [prev EXCEPT ![r] = p]
  /\ asked' = [asked EXCEPT ![r] = q]
  /\ attachDir' = [attachDir EXCEPT ![r] = Workspace(p, r)]
  /\ UNCHANGED <<cancelled, storeVars, pc, cur, job, clientVars, engineVars, historyVars>>

Cancel(r) ==
  /\ status[r] \in {"waiting", "active"}
  /\ cancelled' = cancelled \union {r}
  /\ UNCHANGED <<status, prev, asked, attachDir, storeVars, pc, cur, job,
                 clientVars, engineVars, historyVars>>

EditConfig(c) ==
  /\ edits < MaxEdits /\ edits + 2 * garbles < MaxTroubles /\ c # config
  /\ config' = c /\ edits' = edits + 1
  /\ job' = IF cur = None THEN job ELSE [job EXCEPT !.current = @ \union {c}]
  /\ overtaken' = (overtaken \/ pc = "preparing")
  /\ UNCHANGED <<requestVars, bindings, pc, cur, clientVars, engineVars, historyVars>>

-----------------------------------------------------------------------------
(* The holder of the lock: how it leaves and what it does to the engine    *)

(* Leave stream_turn with an outcome and release the lock.                 *)
Finish(outcome) ==
  /\ pc' = "free" /\ cur' = None /\ job' = NoJob
  /\ status' = [status EXCEPT ![cur] = outcome]
  /\ UNCHANGED <<prev, asked, attachDir, cancelled>>

(* Mutant: the threads of the stopped process stay marked as loaded.       *)
RestartedStillLoaded ==
  /\ engine' = "none" /\ rendered' = None
  /\ engineThreads' = {} /\ engineTurns' = {} /\ inbox' = {}
  /\ clogged' = FALSE /\ pipe' = <<>>
  /\ fingerprint' = None /\ backlog' = <<>>
  /\ UNCHANGED <<garbles, emitted, loaded>>

(* _restart: the process and everything it knew are gone.                  *)
Restarted ==
  /\ engine' = "none" /\ rendered' = None
  /\ engineThreads' = {} /\ engineTurns' = {} /\ inbox' = {}
  /\ clogged' = FALSE /\ pipe' = <<>>
  /\ fingerprint' = None /\ loaded' = {} /\ backlog' = <<>>
  /\ UNCHANGED <<garbles, emitted>>

Waiting == [method |-> CASE pc = "initializing" -> "initialize" [] pc = "resuming" -> "resume"
                         [] pc = "starting" -> "start" [] OTHER -> "turn",
            req |-> cur, try |-> job.try]

(* Bound: it talks only while there is room for a line's worth of trouble. *)
Talkative == Chatty /\ edits + 2 * garbles + 1 < MaxTroubles

(* _send writes and awaits drain(), which returns at once unless the       *)
(* engine's stdin is full; no timeout covers it.                           *)
Write == clogged' \in IF Talkative /\ engine = "running" THEN BOOLEAN ELSE {FALSE}

(* Write a request to the engine's stdin; an exited engine never reads it. *)
Call(place, method, try) ==
  /\ pc' = place /\ Write
  /\ inbox' = IF engine = "running"
                THEN inbox \union {[method |-> method, req |-> cur, try |-> try]} ELSE inbox

-----------------------------------------------------------------------------
(* stream_turn                                                             *)

(* Mutant: the profile a request asks for beats the one bound.             *)
AcquireRequested(r) ==
  LET bound == Lookup(prev[r])
      name  == IF asked[r] # None THEN asked[r]
               ELSE IF bound.profile # None THEN bound.profile ELSE Default
  IN /\ pc = "free" /\ status[r] = "waiting"
     /\ name \in Offers[config]
     /\ pc' = "resolved" /\ cur' = r
     /\ job' = [NoJob EXCEPT !.profile = name, !.resumes = bound.thread,
                             !.current = {config}]
     /\ status' = [status EXCEPT ![r] = "active"]
     /\ UNCHANGED <<prev, asked, attachDir, cancelled, storeVars,
                    clientVars, engineVars, historyVars>>

(* Take the lock, look the conversation up and resolve the profile: the    *)
(* bound one, else the requested one, else the default.  A profile the     *)
(* configuration does not offer fails the turn.                            *)
Acquire(r) ==
  LET bound == Lookup(prev[r])
      name  == IF bound.profile # None THEN bound.profile
               ELSE IF asked[r] # None THEN asked[r] ELSE Default
  IN /\ pc = "free" /\ status[r] = "waiting"
     /\ \/ /\ name \in Offers[config]
           /\ pc' = "resolved" /\ cur' = r
           /\ job' = [NoJob EXCEPT !.profile = name, !.resumes = bound.thread,
                                   !.current = {config}]
           /\ status' = [status EXCEPT ![r] = "active"]
        \/ /\ name \notin Offers[config]
           /\ status' = [status EXCEPT ![r] = "failed"]
           /\ UNCHANGED <<pc, cur, job>>
     /\ UNCHANGED <<prev, asked, attachDir, cancelled, storeVars,
                    clientVars, engineVars, historyVars>>

(* Mutant: the fingerprint leaves the configuration out.                   *)
KeepEngineAnyConfig ==
  /\ pc = "resolved"
  /\ engine = "running" /\ fingerprint # None /\ fingerprint.profile = job.profile
  /\ pc' = "ready"
  /\ UNCHANGED <<requestVars, storeVars, cur, job, clientVars, engineVars, historyVars>>

(* Mutant: the fingerprint leaves the profile out.                         *)
KeepEngineAnyProfile ==
  /\ pc = "resolved"
  /\ engine = "running" /\ fingerprint # None /\ fingerprint.config = config
  /\ pc' = "ready"
  /\ UNCHANGED <<requestVars, storeVars, cur, job, clientVars, engineVars, historyVars>>

(* _ensure_started: keep a running engine whose fingerprint still matches. *)
KeepEngine ==
  /\ pc = "resolved"
  /\ engine = "running" /\ fingerprint = [config |-> config, profile |-> job.profile]
  /\ pc' = "ready"
  /\ UNCHANGED <<requestVars, storeVars, cur, job, clientVars, engineVars, historyVars>>

(* ... otherwise stop what there is, remembering the fingerprint wanted.   *)
StopEngine ==
  LET want == [config |-> config, profile |-> job.profile]
  IN /\ pc = "resolved"
     /\ engine # "running" \/ fingerprint # want
     /\ pc' = "preparing"
     /\ job' = [job EXCEPT !.want = want]
     /\ Restarted
     /\ overtaken' = FALSE
     /\ UNCHANGED <<requestVars, bindings, config, edits, cur, historyVars>>

(* prepare_codex_environment reads the store again; spawn and initialize.  *)
StartEngine ==
  /\ pc = "preparing"
  /\ engine' = "running"
  /\ rendered' = [config |-> config, profile |-> job.profile]
  /\ pc' = "initializing"
  /\ inbox' = {[method |-> "initialize", req |-> cur, try |-> job.try]}
  /\ clogged' \in IF Talkative THEN BOOLEAN ELSE {FALSE}
  /\ UNCHANGED <<requestVars, storeVars, cur, job, clientVars,
                 engineThreads, engineTurns, pipe, garbles, emitted, historyVars>>

(* ... or preparing or spawning raises.                                    *)
StartFails ==
  /\ pc = "preparing"
  /\ Finish("failed")
  /\ UNCHANGED <<storeVars, clientVars, engineVars, historyVars>>

(* Choose the workspace and the thread.  A loaded thread is bound at once. *)
UseLoadedThread ==
  /\ pc = "ready" /\ ~clogged /\ job.resumes # None /\ job.resumes \in loaded
  /\ LET w == Workspace(prev[cur], cur)
     IN /\ job' = [job EXCEPT !.workspace = w, !.thread = job.resumes]
        /\ bindings' = [bindings EXCEPT ![cur] =
             [thread |-> job.resumes, profile |-> job.profile, workspace |-> w]]
  /\ Call("turning", "turn", job.try)
  /\ UNCHANGED <<requestVars, config, edits, overtaken, cur, clientVars, engine, rendered,
                 engineThreads, engineTurns, pipe, garbles, emitted, historyVars>>

(* Mutant: the turn runs in a directory derived from its own response id.  *)
AskForThreadOwnDirectory ==
  /\ pc = "ready" /\ ~clogged /\ job.resumes \notin loaded
  /\ job' = [job EXCEPT !.workspace = cur]
  /\ \/ job.resumes # None /\ Call("resuming", "resume", job.try)
     \/ job.resumes = None /\ Call("starting", "start", job.try)
  /\ UNCHANGED <<requestVars, storeVars, cur, clientVars, engine, rendered, engineThreads,
                 engineTurns, pipe, garbles, emitted, historyVars>>

AskForThread ==
  /\ pc = "ready" /\ ~clogged /\ job.resumes \notin loaded
  /\ job' = [job EXCEPT !.workspace = Workspace(prev[cur], cur)]
  /\ \/ job.resumes # None /\ Call("resuming", "resume", job.try)
     \/ job.resumes = None /\ Call("starting", "start", job.try)
  /\ UNCHANGED <<requestVars, storeVars, cur, clientVars, engine, rendered, engineThreads,
                 engineTurns, pipe, garbles, emitted, historyVars>>

-----------------------------------------------------------------------------
(* _request: waiting for the engine's answer                               *)

(* The next line is read once what was written has been drained.           *)
Reading == pipe # <<>> /\ ~clogged /\ pipe' = Tail(pipe)

(* The engine's side of a step in which the adapter only reads the pipe    *)
(* (and perhaps writes a call).                                            *)
EngineElse == UNCHANGED <<engine, rendered, engineThreads, engineTurns, garbles, emitted>>

(* Mutant: notifications that precede an answer are dropped.               *)
SetAsideDropped ==
  /\ pc \in Requesting /\ Reading
  /\ Head(pipe).kind = "reply" => Head(pipe).tag # Waiting
  /\ Head(pipe).kind # "garbage"
  /\ UNCHANGED <<requestVars, storeVars, pc, cur, job, clientVars, inbox, clogged, historyVars>>
  /\ EngineElse

(* Notifications are kept for the turn, answers to other calls dropped and *)
(* the engine's own requests declined, which is a write.                   *)
SetAside ==
  /\ pc \in Requesting /\ Reading
  /\ LET m == Head(pipe)
     IN \/ m.kind \in {"note", "completed"} /\ backlog' = Append(backlog, m) /\ UNCHANGED clogged
        \/ m.kind = "reply" /\ m.tag # Waiting /\ UNCHANGED <<backlog, clogged>>
        \/ m.kind = "request" /\ Write /\ UNCHANGED backlog
  /\ UNCHANGED <<requestVars, storeVars, pc, cur, job, fingerprint, loaded, inbox, historyVars>>
  /\ EngineElse

Answered(result) ==
  /\ Reading
  /\ LET m == Head(pipe) IN m.kind = "reply" /\ m.tag = Waiting /\ m.info = result

(* The handshake ends with a notification, which is written too.           *)
Initialized ==
  /\ pc = "initializing" /\ Answered("ok")
  /\ fingerprint' = job.want
  /\ pc' = "ready" /\ Write
  /\ UNCHANGED <<requestVars, storeVars, cur, job, loaded, backlog, inbox, historyVars>>
  /\ EngineElse

(* Mutant: the response id is not bound again to a replacement thread.     *)
ThreadReadyBoundOnce ==
  /\ pc \in {"resuming", "starting"} /\ Answered("ok")
  /\ LET thread == IF pc = "resuming" THEN job.resumes ELSE Waiting
     IN /\ loaded' = loaded \union {thread}
        /\ job' = [job EXCEPT !.thread = thread]
        /\ IF job.try = 1 THEN Bind(cur, thread) ELSE UNCHANGED bindings
  /\ Call("turning", "turn", job.try)
  /\ UNCHANGED <<requestVars, config, edits, overtaken, cur, fingerprint, backlog, historyVars>>
  /\ EngineElse

(* thread/resume or thread/start succeeded: bind the response id to the    *)
(* thread and start the turn on it.                                        *)
ThreadReady ==
  /\ pc \in {"resuming", "starting"} /\ Answered("ok")
  /\ LET thread == IF pc = "resuming" THEN job.resumes ELSE Waiting
     IN /\ loaded' = loaded \union {thread}
        /\ job' = [job EXCEPT !.thread = thread]
        /\ Bind(cur, thread)
  /\ Call("turning", "turn", job.try)
  /\ UNCHANGED <<requestVars, config, edits, overtaken, cur, fingerprint, backlog, historyVars>>
  /\ EngineElse

(* The line cannot be read as a message, or the process is gone.           *)
Unreadable == pipe # <<>> /\ ~clogged /\ Head(pipe).kind = "garbage" /\ pipe' = Tail(pipe)
EndOfFile == pipe = <<>> /\ engine = "exited" /\ UNCHANGED pipe

(* A thread that cannot be resumed while the engine lives is replaced.     *)
ResumeRefused ==
  /\ pc = "resuming" /\ engine = "running"
  /\ Answered("error") \/ Unreadable
  /\ Call("starting", "start", job.try)
  /\ UNCHANGED <<requestVars, storeVars, cur, job, clientVars, historyVars>>
  /\ EngineElse

(* Any other failed call fails the turn; one for initialize also stops the *)
(* engine.                                                                 *)
CallFails ==
  /\ pc \in Requesting
  /\ \/ Answered("error") \/ Unreadable
     \/ EndOfFile
     \/ pc = "turning" /\ job.try = 2 /\ Answered("poisoned")
  /\ pc = "resuming" => engine = "exited"
  /\ pc # "initializing"
  /\ Finish("failed")
  /\ UNCHANGED <<storeVars, clientVars, inbox, clogged, historyVars>>
  /\ EngineElse

InitializeFails ==
  /\ pc = "initializing"
  /\ \/ /\ pipe # <<>> /\ ~clogged
        /\ \/ Head(pipe).kind = "garbage"
           \/ Head(pipe).kind = "reply" /\ Head(pipe).info = "error"
     \/ pipe = <<>> /\ engine = "exited"
  /\ Finish("failed")
  /\ Restarted
  /\ UNCHANGED <<storeVars, historyVars>>

(* Mutant: a call waits for its answer without a limit.                    *)
CallWaitsForever == FALSE

(* No line for protocol_timeout_seconds, which each line read starts       *)
(* afresh: stop the engine, fail the turn.                                 *)
CallTimesOut ==
  /\ pc \in Requesting /\ pipe = <<>> /\ ~clogged /\ engine = "running"
  /\ Finish("failed")
  /\ Restarted
  /\ UNCHANGED <<storeVars, historyVars>>

-----------------------------------------------------------------------------
(* _drive_turn: everything the engine reports is yielded to the caller     *)

Owner(m) == m.tag.req

Show(messages) ==
  LET notes == {i \in 1..Len(messages) : messages[i].kind = "note" /\ Owner(messages[i]) = cur}
  IN /\ shown' = [t \in Turns |->
          shown[t] + Cardinality({i \in notes : messages[i].tag = t})]
     /\ heard' = heard \union {messages[i].tag : i \in {j \in notes : messages[j].info = "speech"}}
     /\ foreign' = foreign \union
          {r \in Requests \ {cur} : \E i \in 1..Len(messages) : Owner(messages[i]) = r}

Speech(messages) ==
  \E i \in 1..Len(messages) : messages[i].kind = "note" /\ messages[i].info = "speech"

(* Mutant: what was set aside is yielded but not removed.                  *)
TurnStartedKeepsBacklog ==
  /\ pc = "turning" /\ Answered("ok")
  /\ Show(backlog)
  /\ job' = [job EXCEPT !.spoke = Speech(backlog)]
  /\ pc' = "driving"
  /\ UNCHANGED <<requestVars, storeVars, cur, clientVars, inbox, clogged>>
  /\ EngineElse

(* turn/start is answered: first what was set aside is yielded.            *)
TurnStarted ==
  /\ pc = "turning" /\ Answered("ok")
  /\ Show(backlog)
  /\ backlog' = <<>>
  /\ job' = [job EXCEPT !.spoke = Speech(backlog)]
  /\ pc' = "driving"
  /\ UNCHANGED <<requestVars, storeVars, cur, fingerprint, loaded, inbox, clogged>>
  /\ EngineElse

Ends(m) == m.kind = "completed" /\ m.tag = [method |-> "turn", req |-> cur, try |-> job.try]

(* The next line is read unless the caller has cancelled.                  *)
NextLine == pc = "driving" /\ cur \notin cancelled /\ Reading

TurnReports ==
  /\ NextLine
  /\ LET m == Head(pipe)
     IN \/ /\ m.kind \in {"note", "completed"} /\ ~Ends(m)
           /\ Show(<<m>>)
           /\ job' = [job EXCEPT !.spoke = @ \/ Speech(<<m>>)]
           /\ UNCHANGED clogged
        \/ m.kind = "reply" /\ UNCHANGED <<job, clogged, historyVars>>
        \/ m.kind = "request" /\ Write /\ UNCHANGED <<job, historyVars>>
  /\ UNCHANGED <<requestVars, storeVars, pc, cur, clientVars, inbox>>
  /\ EngineElse

TurnSucceeds ==
  /\ NextLine
  /\ Ends(Head(pipe)) /\ Head(pipe).info = "ok"
  /\ Finish("ok")
  /\ UNCHANGED <<storeVars, clientVars, inbox, clogged, historyVars>>
  /\ EngineElse

(* Mutant: a turn is repeated although the user saw its output.            *)
MayRetryAloud(info) == info = "poisoned" /\ job.try = 1

(* May the turn be repeated in a new thread?  Only once, only when the     *)
(* endpoint rejected the history, and never after the user saw something.  *)
MayRetry(info) == info = "poisoned" /\ job.try = 1 /\ ~job.spoke

TurnFails ==
  /\ NextLine
  /\ Ends(Head(pipe)) /\ Head(pipe).info # "ok"
  /\ ~MayRetry(Head(pipe).info)
  /\ Finish("failed")
  /\ UNCHANGED <<storeVars, clientVars, inbox, clogged, historyVars>>
  /\ EngineElse

RetryInNewThread ==
  /\ \/ NextLine /\ Ends(Head(pipe)) /\ MayRetry(Head(pipe).info)
     \/ pc = "turning" /\ job.try = 1 /\ Answered("poisoned")
  /\ job' = [job EXCEPT !.try = 2, !.spoke = FALSE]
  /\ Call("starting", "start", 2)
  /\ UNCHANGED <<requestVars, storeVars, cur, clientVars, historyVars>>
  /\ EngineElse

(* An unreadable line or the end of the pipe aborts the turn.  After an    *)
(* unreadable line the engine keeps running and keeps working on the turn. *)
TurnBreaks ==
  /\ pc = "driving" /\ cur \notin cancelled
  /\ Unreadable \/ EndOfFile
  /\ Finish("failed")
  /\ UNCHANGED <<storeVars, clientVars, inbox, clogged, historyVars>>
  /\ EngineElse

(* Mutant: a silent turn is abandoned without stopping the engine.         *)
TurnAbandoned ==
  /\ pc = "driving" /\ cur \notin cancelled
  /\ pipe = <<>> /\ ~clogged /\ engine = "running"
  /\ Finish("failed")
  /\ UNCHANGED <<storeVars, clientVars, engineVars, historyVars>>

TurnIdles ==
  /\ pc = "driving" /\ cur \notin cancelled
  /\ pipe = <<>> /\ ~clogged /\ engine = "running"
  /\ Finish("failed")
  /\ Restarted
  /\ UNCHANGED <<storeVars, historyVars>>

(* The cancellation signal is looked at before a line is read, and while   *)
(* one is awaited.                                                         *)
TurnCancelled ==
  /\ pc = "driving" /\ cur \in cancelled /\ ~clogged
  /\ Finish("cancelled")
  /\ Restarted
  /\ UNCHANGED <<storeVars, historyVars>>

(* The caller is given an event, a set-aside one, or a line just read, and *)
(* leaves: the generator is closed at the yield and releases the lock.     *)
(* Nobody stops the engine or clears what was set aside.                   *)
CallerLeaves ==
  /\ \/ /\ pc = "resolved"
        /\ UNCHANGED <<backlog, pipe, historyVars>>
     \/ /\ pc = "turning" /\ Answered("ok")
        /\ \E n \in 1..Len(backlog) :
             /\ Show(SubSeq(backlog, 1, n))
             /\ backlog' = SubSeq(backlog, n + 1, Len(backlog))
     \/ /\ NextLine /\ Head(pipe).kind \in {"note", "completed"}
        /\ Show(<<Head(pipe)>>)
        /\ UNCHANGED backlog
  /\ Finish("left")
  /\ UNCHANGED <<storeVars, fingerprint, loaded, inbox, clogged>>
  /\ EngineElse

-----------------------------------------------------------------------------
(* The engine (outside src/)                                               *)

EngineStep == UNCHANGED <<requestVars, storeVars, pc, cur, job, clientVars, engine,
                          rendered, clogged, historyVars>>

Send(m) == pipe' = Append(pipe, m)

EngineAnswers(tag, result) ==
  /\ engine = "running" /\ tag \in inbox
  /\ clogged => tag # Waiting
  /\ result = "poisoned" => tag.method = "turn"
  /\ tag \in engineTurns => result = "ok"
  /\ inbox' = inbox \ {tag}
  /\ Send([kind |-> "reply", tag |-> tag, info |-> result])
  /\ engineThreads' = IF result # "ok" THEN engineThreads ELSE
       engineThreads \union (CASE tag.method = "start" -> {tag}
                               [] tag.method = "resume" -> {Lookup(prev[tag.req]).thread}
                               [] OTHER -> {})
  /\ engineTurns' = IF result = "ok" /\ tag.method = "turn"
                      THEN engineTurns \union {tag} ELSE engineTurns
  /\ UNCHANGED <<garbles, emitted>>
  /\ EngineStep

(* A turn may begin, and be reported on, before turn/start is answered.    *)
EngineBegins(tag) ==
  /\ engine = "running" /\ tag \in inbox /\ tag.method = "turn" /\ tag \notin engineTurns
  /\ clogged => tag # Waiting
  /\ engineTurns' = engineTurns \union {tag}
  /\ UNCHANGED <<engineThreads, inbox, pipe, garbles, emitted>>
  /\ EngineStep

EngineNotes(t, info) ==
  /\ engine = "running" /\ t \in engineTurns /\ emitted[t] < MaxNotes
  /\ emitted' = [emitted EXCEPT ![t] = @ + 1]
  /\ Send([kind |-> "note", tag |-> t, info |-> info])
  /\ UNCHANGED <<engineThreads, engineTurns, inbox, garbles>>
  /\ EngineStep

EngineCompletes(t, info) ==
  /\ engine = "running" /\ t \in engineTurns /\ t \notin inbox
  /\ engineTurns' = engineTurns \ {t}
  /\ Send([kind |-> "completed", tag |-> t, info |-> info])
  /\ UNCHANGED <<engineThreads, inbox, garbles, emitted>>
  /\ EngineStep

(* A request of the engine's own, on account of a call or a turn it has;   *)
(* one at a time: none while a line waits or its stdin is full (bound).    *)
EngineAsks(tag) ==
  /\ Talkative /\ engine = "running" /\ pipe = <<>> /\ ~clogged
  /\ tag \in inbox \union engineTurns
  /\ Send([kind |-> "request", tag |-> tag])
  /\ UNCHANGED <<engineThreads, engineTurns, inbox, garbles, emitted>>
  /\ EngineStep

EngineReads ==
  /\ clogged
  /\ clogged' = FALSE
  /\ UNCHANGED <<requestVars, storeVars, pc, cur, job, clientVars, engine, rendered,
                 engineThreads, engineTurns, inbox, pipe, garbles, emitted, historyVars>>

EngineGarbles ==
  /\ engine = "running" /\ garbles < MaxGarbles /\ edits + 2 * garbles + 1 < MaxTroubles
  /\ garbles' = garbles + 1
  /\ Send([kind |-> "garbage"])
  /\ UNCHANGED <<engineThreads, engineTurns, inbox, emitted>>
  /\ EngineStep

EngineExits ==
  /\ engine = "running"
  /\ engine' = "exited"
  /\ engineThreads' = {} /\ engineTurns' = {} /\ inbox' = {} /\ clogged' = FALSE
  /\ UNCHANGED <<requestVars, storeVars, pc, cur, job, clientVars, rendered, pipe,
                 garbles, emitted, historyVars>>

-----------------------------------------------------------------------------

Holder ==
  \/ KeepEngine \/ StopEngine \/ StartEngine \/ StartFails
  \/ UseLoadedThread \/ AskForThread
  \/ SetAside \/ Initialized \/ ThreadReady \/ ResumeRefused
  \/ CallFails \/ InitializeFails \/ CallTimesOut
  \/ TurnStarted \/ TurnReports \/ TurnSucceeds \/ TurnFails \/ RetryInNewThread
  \/ TurnBreaks \/ TurnIdles \/ TurnCancelled

Engine ==
  \/ \E tag \in inbox :
       EngineBegins(tag) \/ \E result \in {"ok", "error", "poisoned"} : EngineAnswers(tag, result)
  \/ \E t \in engineTurns :
       \/ \E info \in {"tool", "speech"} : EngineNotes(t, info)
       \/ \E info \in {"ok", "failed", "poisoned"} : EngineCompletes(t, info)
  \/ \E tag \in inbox \union engineTurns : EngineAsks(tag)
  \/ EngineReads \/ EngineGarbles \/ EngineExits

Callers ==
  \E r \in Requests :
    \/ \E p \in (Requests \union Legacy \union {None}) \ {r}, q \in Asks :
         Arrive(r, p, q)
    \/ Cancel(r)

Next ==
  \/ Callers \/ CallerLeaves
  \/ \E c \in Configs : EditConfig(c)
  \/ \E r \in Requests : Acquire(r)
  \/ Holder
  \/ Engine

Spec == Init /\ [][Next]_vars

(* The event loop keeps running whoever can run, timers included; a caller *)
(* takes the next event or leaves; the lock is granted whenever it is free.*)
(* The engine may answer nothing, exit or break.  Two things are assumed   *)
(* of it, since no timeout of the adapter covers them: it does not leave   *)
(* its stdin full for ever, which drain() awaits (client.py:533), and it   *)
(* does not for ever send something else just before each limit expires,   *)
(* which every line read starts afresh (client.py:473-483, 503-507).       *)
FairSpec ==
  /\ Spec /\ WF_vars(Holder) /\ WF_vars(\E r \in Requests : Acquire(r))
  /\ WF_vars(EngineReads) /\ SF_vars(CallTimesOut \/ TurnIdles)

-----------------------------------------------------------------------------
(* Properties                                                              *)

Serving == {"ready", "resuming", "starting", "turning", "driving"}

(* A turn never runs in an engine prepared for another profile, with its   *)
(* credentials and tools, whichever turn that engine was started for.      *)
EngineFitsProfile ==
  pc \in Serving /\ engine # "none" => rendered.profile = job.profile

(* _ensure_started, client.py:346: configuration is re-read at the turn    *)
(* boundary and the engine restarted whenever the rendered configuration   *)
(* would differ, so a turn runs under a configuration that was in force at *)
(* some moment since it took the lock.  The exception is in the code: the  *)
(* fingerprint is taken from one read of the store (client.py:350) and the *)
(* environment rendered from a later one (client.py:366).  An edit between *)
(* the two, once taken back, leaves an engine rendered from the edit and   *)
(* kept under the fingerprint of what it replaced.                         *)
EngineFresh ==
  pc \in Serving /\ engine # "none" =>
    \/ rendered.config \in job.current
    \/ overtaken /\ fingerprint.config \in job.current

(* What the adapter believes loaded, the running engine has; so a turn is  *)
(* only started on a thread the engine it is sent to knows.                *)
LoadedThreadsAreLive ==
  /\ engine = "running" => loaded \subseteq engineThreads
  /\ \A tag \in inbox : tag.method = "turn" /\ tag.req = cur => job.thread \in engineThreads

(* A turn is repeated in a new thread only if the caller saw no assistant  *)
(* output of the first attempt, not even output the engine emitted before  *)
(* it answered turn/start.                                                 *)
NoRepeatAfterSpeech ==
  \A t \in inbox \union engineTurns :
    t.method = "turn" /\ t.try = 2 => [t EXCEPT !.try = 1] \notin heard

(* A response that completed was shown everything its turns emitted.       *)
NothingLost ==
  \A t \in Turns : status[t.req] = "ok" => shown[t] = emitted[t]

(* _drive_turn, client.py:305: it runs one turn and translates everything  *)
(* it reports; what it yields comes from another request only if that      *)
(* one's caller left at an event (client.py:223, 281, 318, 331), or if a   *)
(* line could not be read: nobody then stops the engine, which goes on     *)
(* with the abandoned turn, and the next request reads what is left of it. *)
OwnEventsOnly == garbles = 0 => \A r \in foreign : status[r] = "left"

(* While a turn runs, the response id resumes exactly this conversation:   *)
(* the thread that is answering, its profile and its workspace.            *)
BoundToAnsweringThread ==
  pc \in {"turning", "driving"} =>
    bindings[cur] = [thread |-> job.thread, profile |-> job.profile, workspace |-> job.workspace]

(* A response that continues a bound one inherits its workspace and its    *)
(* profile, whatever was requested, resumed, refused or retried.           *)
ConversationKeepsIdentity ==
  [][\A r \in Requests :
       bindings'[r] # bindings[r] /\ IsBound(prev[r]) =>
         /\ bindings'[r].workspace = bindings[prev[r]].workspace
         /\ bindings[prev[r]].profile \in {None, bindings'[r].profile}]_vars

(* _prepare_prompt, main.py:159: attachments are written into this         *)
(* conversation's own workspace; the handler and the runtime reach the     *)
(* same directory independently.                                           *)
AttachmentsWhereTurnRuns ==
  pc \in {"turning", "driving"} => attachDir[cur] = job.workspace

(* Every request that asks for the lock gets it and finishes: no hang,     *)
(* exit, unreadable line or leaving caller blocks the queue, as long as    *)
(* the engine reads its stdin and does not talk on for ever (FairSpec).    *)
EveryRequestFinishes ==
  \A r \in Requests : status[r] = "waiting" ~> status[r] \in Finished

(* What a turn is told, client.py:305 and 474: through set-aside           *)
(* notifications, retries and turns that were abandoned, everything its own *)
(* turns emitted, nothing twice, and nothing of another request but of one *)
(* whose caller left, or whose engine wrote an unreadable line.            *)
EventsReachTheirTurnOnce ==
  TypeOK /\ NothingLost /\ OwnEventsOnly /\ NoRepeatAfterSpeech

(* A restart of the engine or a retry in a new thread, client.py:282 and   *)
(* 447, leaves neither a turn on a thread the engine does not know nor a   *)
(* response id bound to the thread that was given up.                      *)
ThreadsAreLive == LoadedThreadsAreLive /\ BoundToAnsweringThread

(* _ensure_started, client.py:346: the engine that runs a turn was prepared *)
(* for its profile and from a configuration in force since it took the     *)
(* lock, unless an edit overtook its preparation.                          *)
EngineFits == EngineFitsProfile /\ EngineFresh

=============================================================================
