------------------------ MODULE CodexRuntimeProofs ------------------------
(***************************************************************************)
(* Proofs about the turn runtime, CodexRuntime, for any number of          *)
(* requests, profiles, configurations, notifications, edits and unreadable *)
(* lines.  The invariant Inv is a conjunction, built up in this order:     *)
(*                                                                         *)
(*   TypeOK, Conversation   types; the conversation the holder continues   *)
(*   EngineInv              the engine, its fingerprint and the wanted one *)
(*   TriesInv, MadeInv,     the engine only holds calls that were made,    *)
(*   AnsweredInv            and answers each of them once                  *)
(*   TurnsInv               turns begin, are reported on and end in order  *)
(*   ThreadsInv             threads believed loaded are in the engine      *)
(*   FreshInv, SilentInv,   what callers were shown: nothing they did not  *)
(*   AccountInv             ask for, and all that is not queued            *)
(*   RepeatInv, CompleteInv a repeated or completed turn is over           *)
(*   RefusedInv, LiveInv    whose reports may still be in a queue          *)
(*                                                                         *)
(* Each is kept by every step, given those before it.                      *)
(***************************************************************************)
EXTENDS CodexRuntime, SequenceTheorems, FiniteSetTheorems, FunctionTheorems, TLAPS

(* The conversation the holder of the lock continues.                      *)
Conversation ==
  /\ \A r \in Requests : prev[r] # r
  /\ \A r \in Requests : status[r] = "active" <=> r = cur
  /\ \A t \in inbox :
       /\ status[t.req] \notin {"new", "waiting"}
       /\ t.method = "resume" => IsBound(prev[t.req])
  /\ pc # "free" =>
       /\ job.profile \in Profiles
       /\ job.resumes = Lookup(prev[cur]).thread
       /\ Lookup(prev[cur]).profile \in {None, job.profile}
  /\ pc = "resuming" => job.resumes # None
  /\ pc \in {"resuming", "starting", "turning", "driving"} =>
       job.workspace = Workspace(prev[cur], cur)
  /\ pc \in {"turning", "driving"} => job.thread # None
  /\ BoundToAnsweringThread

Typed == TypeOK /\ Conversation

-----------------------------------------------------------------------------
(* Values                                                                  *)

(* What the session map says of an id, known or absent.                    *)
LEMMA LookupType ==
  ASSUME TypeOK, NEW id \in Requests \union Legacy \union {None}
  PROVE  /\ Lookup(id) \in Binding
         /\ Lookup(id).thread \in Threads \union {None}
         /\ Lookup(id).profile \in Profiles \union {None}
         /\ Lookup(id).workspace \in Requests \union {None}
<1>1. Unbound \in Binding
  BY DEF Unbound, Binding
<1>2. Lookup(id) \in Binding
  BY <1>1, RuntimeAssumption DEF Lookup, TypeOK
<1>3. QED
  BY <1>2 DEF Binding

(* The workspace of a conversation is one a response id names.             *)
LEMMA WorkspaceType ==
  ASSUME TypeOK, NEW p \in Requests \union Legacy \union {None}, NEW r \in Requests
  PROVE  Workspace(p, r) \in Requests \union {None}
BY LookupType DEF Workspace

(* Fields of the engine's messages by kind.                                *)
LEMMA MessageFields ==
  ASSUME NEW m \in Message
  PROVE  /\ m.kind \in {"reply", "note", "completed", "request", "garbage"}
         /\ m.kind # "garbage" => m.tag \in Tags
         /\ m.kind \in {"note", "completed"} => m.tag \in Turns
BY DEF Message, Turns

(* The messages the engine sends.                                          *)
LEMMA MessageMade ==
  /\ \A t \in Tags, i \in {"ok", "error", "poisoned"} :
       [kind |-> "reply", tag |-> t, info |-> i] \in Message
  /\ \A t \in Turns, i \in {"tool", "speech"} :
       [kind |-> "note", tag |-> t, info |-> i] \in Message
  /\ \A t \in Turns, i \in {"ok", "failed", "poisoned"} :
       [kind |-> "completed", tag |-> t, info |-> i] \in Message
  /\ \A t \in Tags : [kind |-> "request", tag |-> t] \in Message
  /\ [kind |-> "garbage"] \in Message
BY DEF Message

(* The tags of the calls the holder of the lock makes.                     *)
LEMMA TagType ==
  ASSUME TypeOK, pc # "free",
         NEW m \in {"initialize", "resume", "start", "turn"}, NEW k \in {1, 2}
  PROVE  /\ [method |-> m, req |-> cur, try |-> k] \in Tags
         /\ m = "start" => [method |-> m, req |-> cur, try |-> k] \in Threads
         /\ m = "turn" => [method |-> m, req |-> cur, try |-> k] \in Turns
<1>1. cur \in Requests
  BY DEF TypeOK
<1>2. QED
  BY <1>1 DEF Tags, Threads, Turns

-----------------------------------------------------------------------------
(* The holder's local variables after each step that writes them           *)

(* Fields of a job.                                                        *)
LEMMA JobType ==
  ASSUME TypeOK
  PROVE  /\ job \in Job
         /\ job.profile \in Profiles \union {None}
         /\ job.want \in Environment \union {None}
         /\ job.workspace \in Requests \union {None}
         /\ job.resumes \in Threads \union {None}
         /\ job.thread \in Threads \union {None}
         /\ job.try \in {1, 2}
         /\ job.spoke \in BOOLEAN
         /\ job.current \subseteq Configs
BY DEF Job, TypeOK

(* A job before anything is known.                                         *)
LEMMA NoJobType ==
  /\ NoJob \in Job
  /\ NoJob.profile = None /\ NoJob.want = None /\ NoJob.workspace = None
  /\ NoJob.resumes = None /\ NoJob.thread = None /\ NoJob.try = 1
  /\ NoJob.spoke = FALSE /\ NoJob.current = {}
BY DEF Job, NoJob

(* An edit during a turn only adds to the configurations in force.         *)
LEMMA EditConfigJob ==
  ASSUME TypeOK, NEW c \in Configs, EditConfig(c), cur # None
  PROVE  /\ job' \in Job
         /\ job'.profile = job.profile /\ job'.want = job.want
         /\ job'.workspace = job.workspace /\ job'.resumes = job.resumes
         /\ job'.thread = job.thread /\ job'.try = job.try /\ job'.spoke = job.spoke
         /\ job'.current = job.current \union {c}
<1>1. job' = [job EXCEPT !.current = @ \union {c}]
  BY DEF EditConfig
<1>2. job \in Job
  BY DEF TypeOK
<1>3. QED
  BY <1>1, <1>2 DEF Job

(* A fresh job: the profile resolved, the thread to resume, nothing else.  *)
LEMMA AcquireJob ==
  ASSUME TypeOK, NEW r \in Requests, Acquire(r), cur' # None
  PROVE  /\ job' \in Job
         /\ job'.profile = IF Lookup(prev[r]).profile # None THEN Lookup(prev[r]).profile
                           ELSE IF asked[r] # None THEN asked[r] ELSE Default
         /\ job'.profile \in Profiles
         /\ job'.resumes = Lookup(prev[r]).thread
         /\ job'.want = None /\ job'.workspace = None /\ job'.thread = None
         /\ job'.try = 1 /\ job'.spoke = FALSE /\ job'.current = {config}
<1> DEFINE bound == Lookup(prev[r])
           name  == IF bound.profile # None THEN bound.profile
                    ELSE IF asked[r] # None THEN asked[r] ELSE Default
<1>1. /\ bound.thread \in Threads \union {None}
      /\ bound.profile \in Profiles \union {None}
  BY LookupType DEF TypeOK
<1>2. name \in Profiles /\ config \in Configs
  BY <1>1, RuntimeAssumption DEF TypeOK
<1>3. pc = "free" /\ cur = None
  BY DEF Acquire, TypeOK
<1>4. job' = [NoJob EXCEPT !.profile = name, !.resumes = bound.thread, !.current = {config}]
  BY <1>3 DEF Acquire
<1> HIDE DEF bound, name
<1>5. job' = [profile |-> name, want |-> None, workspace |-> None, resumes |-> bound.thread,
              thread |-> None, try |-> 1, spoke |-> FALSE, current |-> {config}]
  BY <1>1, <1>2, <1>4 DEF NoJob
<1>6. /\ job' \in Job /\ job'.profile = name /\ job'.resumes = bound.thread
      /\ job'.want = None /\ job'.workspace = None /\ job'.thread = None
      /\ job'.try = 1 /\ job'.spoke = FALSE /\ job'.current = {config}
  BY <1>1, <1>2, <1>5 DEF Job
<1>7. QED
  BY <1>2, <1>6 DEF name, bound

(* What taking the lock does, without the record update.                   *)
LEMMA AcquireEffect ==
  ASSUME TypeOK, NEW r \in Requests, Acquire(r)
  PROVE  /\ pc = "free" /\ cur = None /\ status[r] = "waiting"
         /\ UNCHANGED <<prev, asked, attachDir, cancelled, storeVars,
                        clientVars, engineVars, historyVars>>
         /\ \/ /\ pc' = "resolved" /\ cur' = r
               /\ status' = [status EXCEPT ![r] = "active"]
            \/ /\ pc' = "free" /\ cur' = None /\ job' = job
               /\ status' = [status EXCEPT ![r] = "failed"]
<1>1. pc = "free" /\ cur = None /\ status[r] = "waiting"
  BY DEF Acquire, TypeOK
<1>2. UNCHANGED <<prev, asked, attachDir, cancelled, storeVars,
                  clientVars, engineVars, historyVars>>
  BY DEF Acquire
<1>3. \/ /\ pc' = "resolved" /\ cur' = r
         /\ status' = [status EXCEPT ![r] = "active"]
      \/ /\ UNCHANGED <<pc, cur, job>>
         /\ status' = [status EXCEPT ![r] = "failed"]
  BY Zenon DEF Acquire
<1>4. QED
  BY <1>1, <1>2, <1>3

(* Stopping the engine notes the environment wanted.                       *)
LEMMA StopEngineJob ==
  ASSUME Typed, StopEngine
  PROVE  /\ job' \in Job
         /\ job'.want = [config |-> config, profile |-> job.profile]
         /\ job'.want \in Environment
         /\ job'.profile = job.profile
         /\ job'.workspace = job.workspace /\ job'.resumes = job.resumes
         /\ job'.thread = job.thread /\ job'.try = job.try /\ job'.spoke = job.spoke
         /\ job'.current = job.current
<1>1. job' = [job EXCEPT !.want = [config |-> config, profile |-> job.profile]]
  BY DEF StopEngine
<1>2. job \in Job /\ [config |-> config, profile |-> job.profile] \in Environment
  BY DEF StopEngine, Typed, TypeOK, Conversation, Environment
<1>3. QED
  BY <1>1, <1>2 DEF Job

(* A loaded thread is taken with the conversation's workspace.             *)
LEMMA UseLoadedThreadJob ==
  ASSUME Typed, UseLoadedThread
  PROVE  /\ job' \in Job
         /\ job'.workspace = Workspace(prev[cur], cur) /\ job'.thread = job.resumes
         /\ job'.profile = job.profile /\ job'.want = job.want
         /\ job'.resumes = job.resumes
         /\ job'.try = job.try /\ job'.spoke = job.spoke /\ job'.current = job.current
<1> DEFINE w == Workspace(prev[cur], cur)
<1>1. job' = [job EXCEPT !.workspace = w, !.thread = job.resumes]
  BY DEF UseLoadedThread
<1>2. cur \in Requests /\ prev[cur] \in Requests \union Legacy \union {None}
  BY DEF UseLoadedThread, Typed, TypeOK
<1>3. job \in Job /\ w \in Requests \union {None} /\ job.resumes \in Threads \union {None}
  BY <1>2, JobType, WorkspaceType DEF Typed
<1> HIDE DEF w
<1>4. /\ job' \in Job /\ job'.workspace = w /\ job'.thread = job.resumes
      /\ job'.profile = job.profile /\ job'.want = job.want
      /\ job'.resumes = job.resumes
      /\ job'.try = job.try /\ job'.spoke = job.spoke /\ job'.current = job.current
  BY <1>1, <1>3 DEF Job
<1>5. QED
  BY <1>4 DEF w

(* Asking for a thread settles the workspace.                              *)
LEMMA AskForThreadJob ==
  ASSUME Typed, AskForThread
  PROVE  /\ job' \in Job
         /\ job'.workspace = Workspace(prev[cur], cur)
         /\ job'.profile = job.profile /\ job'.want = job.want
         /\ job'.resumes = job.resumes /\ job'.thread = job.thread
         /\ job'.try = job.try /\ job'.spoke = job.spoke /\ job'.current = job.current
<1> DEFINE w == Workspace(prev[cur], cur)
<1>1. job' = [job EXCEPT !.workspace = w]
  BY DEF AskForThread
<1>2. cur \in Requests /\ prev[cur] \in Requests \union Legacy \union {None}
  BY DEF AskForThread, Typed, TypeOK
<1>3. job \in Job /\ w \in Requests \union {None}
  BY <1>2, JobType, WorkspaceType DEF Typed
<1> HIDE DEF w
<1>4. /\ job' \in Job /\ job'.workspace = w
      /\ job'.profile = job.profile /\ job'.want = job.want
      /\ job'.resumes = job.resumes /\ job'.thread = job.thread
      /\ job'.try = job.try /\ job'.spoke = job.spoke /\ job'.current = job.current
  BY <1>1, <1>3 DEF Job
<1>5. QED
  BY <1>4 DEF w

(* The thread is the one resumed, or the one just started.                 *)
LEMMA ThreadReadyJob ==
  ASSUME Typed, ThreadReady
  PROVE  /\ job' \in Job
         /\ job'.thread = IF pc = "resuming" THEN job.resumes
                          ELSE [method |-> "start", req |-> cur, try |-> job.try]
         /\ pc = "starting" => job'.thread \in Threads
         /\ job'.thread \in Threads \union {None}
         /\ job'.profile = job.profile /\ job'.want = job.want
         /\ job'.workspace = job.workspace /\ job'.resumes = job.resumes
         /\ job'.try = job.try /\ job'.spoke = job.spoke /\ job'.current = job.current
<1> DEFINE thread == IF pc = "resuming" THEN job.resumes ELSE Waiting
<1>1. job' = [job EXCEPT !.thread = thread] /\ pc \in {"resuming", "starting"}
  BY DEF ThreadReady
<1>2. pc = "starting" => Waiting = [method |-> "start", req |-> cur, try |-> job.try]
  BY DEF Waiting
<1>3. /\ job \in Job /\ thread \in Threads \union {None}
      /\ pc = "starting" => thread \in Threads
  BY <1>1, <1>2, JobType, TagType DEF Typed
<1>4. thread = IF pc = "resuming" THEN job.resumes
               ELSE [method |-> "start", req |-> cur, try |-> job.try]
  BY <1>1, <1>2
<1> HIDE DEF thread
<1>5. /\ job' \in Job /\ job'.thread = thread
      /\ job'.profile = job.profile /\ job'.want = job.want
      /\ job'.workspace = job.workspace /\ job'.resumes = job.resumes
      /\ job'.try = job.try /\ job'.spoke = job.spoke /\ job'.current = job.current
  BY <1>1, <1>3 DEF Job
<1>6. QED
  BY <1>3, <1>4, <1>5

(* The holder notes whether what was set aside held assistant text.        *)
LEMMA TurnStartedJob ==
  ASSUME Typed, TurnStarted
  PROVE  /\ job' \in Job /\ job'.spoke = Speech(backlog)
         /\ job'.profile = job.profile /\ job'.want = job.want
         /\ job'.workspace = job.workspace /\ job'.resumes = job.resumes
         /\ job'.thread = job.thread /\ job'.try = job.try /\ job'.current = job.current
<1>1. job' = [job EXCEPT !.spoke = Speech(backlog)]
  BY DEF TurnStarted
<1>2. job \in Job /\ Speech(backlog) \in BOOLEAN
  BY JobType DEF Typed, Speech
<1>3. QED
  BY <1>1, <1>2 DEF Job

(* The holder notes assistant text, and forgets none.                      *)
LEMMA TurnReportsJob ==
  ASSUME Typed, TurnReports
  PROVE  /\ job' \in Job
         /\ Head(pipe).kind \in {"reply", "request"} \/ job'.spoke = (job.spoke \/ Speech(<<Head(pipe)>>))
         /\ job.spoke => job'.spoke
         /\ job'.profile = job.profile /\ job'.want = job.want
         /\ job'.workspace = job.workspace /\ job'.resumes = job.resumes
         /\ job'.thread = job.thread /\ job'.try = job.try /\ job'.current = job.current
<1>1. \/ job' = [job EXCEPT !.spoke = @ \/ Speech(<<Head(pipe)>>)]
      \/ Head(pipe).kind \in {"reply", "request"} /\ job' = job
  BY DEF TurnReports
<1>2. job \in Job /\ Speech(<<Head(pipe)>>) \in BOOLEAN
  BY JobType DEF Typed, Speech
<1>3. QED
  BY <1>1, <1>2 DEF Job

(* A retry is the second attempt, and silent so far.                       *)
LEMMA RetryJob ==
  ASSUME Typed, RetryInNewThread
  PROVE  /\ job' \in Job /\ job'.try = 2 /\ job'.spoke = FALSE
         /\ job'.profile = job.profile /\ job'.want = job.want
         /\ job'.workspace = job.workspace /\ job'.resumes = job.resumes
         /\ job'.thread = job.thread /\ job'.current = job.current
<1>1. job' = [job EXCEPT !.try = 2, !.spoke = FALSE]
  BY DEF RetryInNewThread
<1>2. job \in Job
  BY JobType DEF Typed
<1>3. QED
  BY <1>1, <1>2 DEF Job

-----------------------------------------------------------------------------
(* Type correctness                                                        *)

(* What is left of a queue is a queue, and what was read a message.        *)
LEMMA ReadingType ==
  ASSUME TypeOK, pipe # <<>>
  PROVE  /\ Head(pipe) \in Message
         /\ Tail(pipe) \in Seq(Message)
BY HeadTailProperties DEF TypeOK

(* A queue stays one when the engine writes a message.                     *)
LEMMA SendType ==
  ASSUME TypeOK, NEW m \in Message
  PROVE  /\ Append(pipe, m) \in Seq(Message)
         /\ Append(backlog, m) \in Seq(Message)
BY AppendProperties DEF TypeOK

(* Binding the response id keeps the session map's type.                   *)
LEMMA BindType ==
  ASSUME TypeOK, pc # "free", NEW t \in Threads \union {None}, NEW w \in Requests \union {None}
  PROVE  [bindings EXCEPT ![cur] = [thread |-> t, profile |-> job.profile, workspace |-> w]]
           \in [Requests \union Legacy -> Binding]
<1>1. [thread |-> t, profile |-> job.profile, workspace |-> w] \in Binding
  BY JobType DEF TypeOK, Binding
<1>2. QED
  BY <1>1 DEF TypeOK

(* Showing messages keeps the types of the history.                        *)
LEMMA ShowType ==
  ASSUME TypeOK, pc # "free", NEW messages \in Seq(Message), Show(messages)
  PROVE  /\ shown' \in [Turns -> Nat]
         /\ heard' \subseteq Turns
         /\ foreign' \subseteq Requests
<1> DEFINE notes == {i \in 1..Len(messages) :
                       messages[i].kind = "note" /\ Owner(messages[i]) = cur}
<1>1. Len(messages) \in Nat /\ \A i \in 1..Len(messages) : messages[i] \in Message
  BY ElementOfSeq, LenProperties
<1>2. ASSUME NEW t \in Turns
      PROVE  Cardinality({i \in notes : messages[i].tag = t}) \in Nat
  <2>1. IsFiniteSet(1..Len(messages))
    BY <1>1, FS_Interval
  <2>2. {i \in notes : messages[i].tag = t} \subseteq 1..Len(messages)
    OBVIOUS
  <2>3. IsFiniteSet({i \in notes : messages[i].tag = t})
    BY <2>1, <2>2, FS_Subset
  <2>4. QED
    BY <2>3, FS_CardinalityType
<1>3. shown' \in [Turns -> Nat]
  <2>1. shown' = [t \in Turns |-> shown[t] + Cardinality({i \in notes : messages[i].tag = t})]
    BY DEF Show
  <2>2. \A t \in Turns : shown[t] \in Nat
    BY DEF TypeOK
  <2> HIDE DEF notes
  <2>3. QED
    BY <1>2, <2>1, <2>2
<1>4. heard' \subseteq Turns
  BY <1>1, MessageFields DEF TypeOK, Show
<1>5. foreign' \subseteq Requests
  BY DEF TypeOK, Show
<1>6. QED
  BY <1>3, <1>4, <1>5

(* What a caller does that leaves at an event: the lock is released, the    *)
(* line is read, and what was shown of the queues is gone from them.       *)
LEMMA LeavesEffect ==
  ASSUME TypeOK, CallerLeaves
  PROVE  /\ pc \in {"resolved", "turning", "driving"} /\ cur \in Requests
         /\ pc' = "free" /\ cur' = None /\ job' = NoJob
         /\ status' = [status EXCEPT ![cur] = "left"]
         /\ UNCHANGED <<prev, asked, attachDir, cancelled, bindings, config, edits, overtaken,
                        fingerprint, loaded, engine, rendered, engineThreads, engineTurns,
                        inbox, clogged, garbles, emitted>>
         /\ \/ pipe' = pipe
            \/ pipe # <<>> /\ pipe' = Tail(pipe)
         /\ \/ UNCHANGED <<backlog, historyVars>>
            \/ \E n \in 1..Len(backlog) :
                 /\ pc = "turning" /\ Show(SubSeq(backlog, 1, n))
                 /\ backlog' = SubSeq(backlog, n + 1, Len(backlog))
            \/ /\ pc = "driving" /\ pipe # <<>> /\ Head(pipe).kind \in {"note", "completed"}
               /\ Show(<<Head(pipe)>>) /\ UNCHANGED backlog
<1>1. pc \in {"resolved", "turning", "driving"} /\ cur \in Requests
  BY DEF CallerLeaves, NextLine, TypeOK
<1>2. /\ pc' = "free" /\ cur' = None /\ job' = NoJob
      /\ status' = [status EXCEPT ![cur] = "left"]
      /\ UNCHANGED <<prev, asked, attachDir, cancelled, bindings, config, edits, overtaken,
                     fingerprint, loaded, engine, rendered, engineThreads, engineTurns,
                     inbox, clogged, garbles, emitted>>
  BY DEF CallerLeaves, Finish, storeVars, EngineElse
<1>3. pipe' = pipe \/ (pipe # <<>> /\ pipe' = Tail(pipe))
  BY DEF CallerLeaves, Answered, NextLine, Reading
<1>4. \/ UNCHANGED <<backlog, historyVars>>
      \/ \E n \in 1..Len(backlog) :
           /\ pc = "turning" /\ Show(SubSeq(backlog, 1, n))
           /\ backlog' = SubSeq(backlog, n + 1, Len(backlog))
      \/ /\ pc = "driving" /\ pipe # <<>> /\ Head(pipe).kind \in {"note", "completed"}
         /\ Show(<<Head(pipe)>>) /\ UNCHANGED backlog
  BY DEF CallerLeaves, NextLine, Reading
<1>5. QED
  BY <1>1, <1>2, <1>3, <1>4

(* What is left of the queues is queues, and the history is typed.         *)
LEMMA LeavesType ==
  ASSUME TypeOK, CallerLeaves
  PROVE  /\ pipe' \in Seq(Message) /\ backlog' \in Seq(Message)
         /\ shown' \in [Turns -> Nat] /\ heard' \subseteq Turns /\ foreign' \subseteq Requests
<1>1. pc # "free" /\ pipe \in Seq(Message) /\ backlog \in Seq(Message)
  BY LeavesEffect DEF TypeOK
<1>2. pipe' \in Seq(Message)
  BY <1>1, LeavesEffect, ReadingType
<1>3. CASE UNCHANGED <<backlog, historyVars>>
  BY <1>1, <1>2, <1>3 DEF TypeOK, historyVars
<1>4. ASSUME NEW n \in 1..Len(backlog), Show(SubSeq(backlog, 1, n)),
             backlog' = SubSeq(backlog, n + 1, Len(backlog))
      PROVE  /\ backlog' \in Seq(Message)
             /\ shown' \in [Turns -> Nat] /\ heard' \subseteq Turns /\ foreign' \subseteq Requests
  <2>1. Len(backlog) \in Nat /\ \A i \in 1..Len(backlog) : backlog[i] \in Message
    BY <1>1, ElementOfSeq, LenProperties
  <2>2. SubSeq(backlog, 1, n) \in Seq(Message)
    BY <2>1, SubSeqProperties
  <2>3. SubSeq(backlog, n + 1, Len(backlog)) \in Seq(Message)
    BY <2>1, SubSeqProperties
  <2>4. QED
    BY <1>1, <1>4, <2>2, <2>3, ShowType
<1>5. CASE pipe # <<>> /\ Show(<<Head(pipe)>>) /\ UNCHANGED backlog
  <2>1. <<Head(pipe)>> \in Seq(Message)
    BY <1>5, ReadingType
  <2>2. /\ shown' \in [Turns -> Nat] /\ heard' \subseteq Turns /\ foreign' \subseteq Requests
    BY <1>1, <1>5, <2>1, ShowType
  <2>3. QED
    BY <1>1, <1>2, <1>5, <2>2
<1>6. QED
  BY <1>2, <1>3, <1>4, <1>5, LeavesEffect


(* Every step keeps the types.                                             *)
LEMMA TypeStep ==
  ASSUME Typed, [Next]_vars
  PROVE  TypeOK'
<1> USE RuntimeAssumption
<1>typed. TypeOK /\ (pc # "free" => job.profile \in Profiles) /\ job \in Job
  BY JobType DEF Typed, Conversation
<1>write. Write => clogged' \in BOOLEAN
  BY DEF Write
<1>Unchanged. CASE UNCHANGED vars
  BY <1>Unchanged, <1>typed
     DEF TypeOK, vars, requestVars, storeVars, clientVars, engineVars, historyVars
<1>Arrive. ASSUME NEW r \in Requests, NEW p \in (Requests \union Legacy \union {None}) \ {r},
                 NEW q \in Asks, Arrive(r, p, q)
          PROVE  TypeOK'
  BY <1>Arrive, <1>typed, WorkspaceType
     DEF TypeOK, requestVars, storeVars, clientVars, engineVars, historyVars, Arrive, Statuses, Finished
<1>Cancel. ASSUME NEW r \in Requests, Cancel(r) PROVE TypeOK'
  BY <1>Cancel, <1>typed
     DEF TypeOK, requestVars, storeVars, clientVars, engineVars, historyVars, Cancel
<1>EditConfig. ASSUME NEW c \in Configs, EditConfig(c) PROVE TypeOK'
  <2>1. job' \in Job /\ (cur # None => job'.profile = job.profile)
    BY <1>EditConfig, <1>typed, EditConfigJob DEF TypeOK, EditConfig
  <2>2. config' \in Configs /\ edits' \in 0..MaxEdits /\ overtaken' \in BOOLEAN
    BY <1>EditConfig, <1>typed DEF TypeOK, EditConfig
  <2>3. UNCHANGED <<requestVars, bindings, pc, cur, clientVars, engineVars, historyVars>>
    BY <1>EditConfig, <1>typed DEF TypeOK, EditConfig
  <2>4. QED
    BY <1>EditConfig, <1>typed, <2>1, <2>2, <2>3
       DEF TypeOK, requestVars, storeVars, clientVars, engineVars, historyVars
<1>Acquire. ASSUME NEW r \in Requests, Acquire(r) PROVE TypeOK'
  <2>1. cur' = None => job' = job
    BY <1>Acquire, <1>typed DEF TypeOK, Acquire
  <2>2. job' \in Job /\ (cur' # None => job'.profile \in Profiles)
    BY <1>Acquire, <1>typed, <2>1, AcquireJob DEF TypeOK
  <2>3. pc' \in Places /\ cur' \in Requests \union {None} /\ (pc' = "free" <=> cur' = None)
    BY <1>Acquire, <1>typed DEF TypeOK, Acquire, Places
  <2>4. status' \in [Requests -> Statuses]
    BY <1>Acquire, <1>typed DEF TypeOK, Acquire, Statuses, Finished
  <2>5. QED
    BY <1>Acquire, <1>typed, <2>1, <2>2, <2>3, <2>4
       DEF TypeOK, requestVars, storeVars, clientVars, engineVars, historyVars, Acquire
<1>KeepEngine. CASE KeepEngine
  BY <1>KeepEngine, <1>typed, ReadingType, EmptySeq
     DEF TypeOK, requestVars, storeVars, clientVars, engineVars, historyVars, KeepEngine,
         Places, Requesting, Reading, EngineElse, Answered, NextLine
<1>StopEngine. CASE StopEngine
  <2>1. job' \in Job /\ job'.profile = job.profile
    BY <1>StopEngine, <1>typed, StopEngineJob DEF TypeOK, StopEngine
  <2>2. <<>> \in Seq(Message)
    BY <1>StopEngine, <1>typed DEF TypeOK
  <2>3. QED
    BY <1>StopEngine, <1>typed, <2>1, <2>2
       DEF TypeOK, requestVars, storeVars, clientVars, engineVars, historyVars, StopEngine,
           Places, Requesting, Restarted
<1>StartEngine. CASE StartEngine
  <2>1. rendered' \in Environment
    BY <1>StartEngine, <1>typed DEF TypeOK, StartEngine, Environment
  <2>2. inbox' \subseteq Tags
    BY <1>StartEngine, <1>typed, TagType, JobType DEF TypeOK, StartEngine
  <2>3. QED
    BY <1>StartEngine, <1>typed, <2>1, <2>2
       DEF TypeOK, requestVars, storeVars, clientVars, engineVars, historyVars, StartEngine,
           Places, Requesting
<1>StartFails. CASE StartFails
  BY <1>StartFails, <1>typed, ReadingType, EmptySeq, NoJobType
     DEF TypeOK, requestVars, storeVars, clientVars, engineVars, historyVars, StartFails,
         Places, Requesting, Reading, EngineElse, Answered, NextLine, Finish, Finished, Statuses
<1>UseLoadedThread. CASE UseLoadedThread
  <2>1. job' \in Job /\ job'.profile = job.profile
    BY <1>UseLoadedThread, <1>typed, UseLoadedThreadJob DEF TypeOK, UseLoadedThread
  <2>2. bindings' \in [Requests \union Legacy -> Binding]
    BY <1>UseLoadedThread, <1>typed, BindType, JobType, WorkspaceType
       DEF TypeOK, UseLoadedThread
  <2>3. inbox' \subseteq Tags
    BY <1>UseLoadedThread, <1>typed, TagType, JobType DEF TypeOK, UseLoadedThread, Call
  <2>4. QED
    BY <1>write, <1>UseLoadedThread, <1>typed, <2>1, <2>2, <2>3
       DEF TypeOK, requestVars, storeVars, clientVars, engineVars, historyVars,
           UseLoadedThread, Places, Requesting, Call
<1>AskForThread. CASE AskForThread
  <2>1. job' \in Job /\ job'.profile = job.profile
    BY <1>AskForThread, <1>typed, AskForThreadJob DEF TypeOK, AskForThread
  <2>2. inbox' \subseteq Tags
    BY <1>AskForThread, <1>typed, TagType, JobType DEF TypeOK, AskForThread, Call
  <2>3. QED
    BY <1>write, <1>AskForThread, <1>typed, <2>1, <2>2
       DEF TypeOK, requestVars, storeVars, clientVars, engineVars, historyVars, AskForThread,
           Places, Requesting, Call
<1>SetAside. CASE SetAside
  <2>1. pipe # <<>> /\ pipe' = Tail(pipe)
    BY <1>SetAside, <1>typed DEF TypeOK, SetAside, Reading
  <2>2. backlog' \in {backlog, Append(backlog, Head(pipe))}
    BY <1>SetAside, <1>typed DEF TypeOK, SetAside
  <2>3. backlog' \in Seq(Message)
    <3>1. Head(pipe) \in Message /\ backlog \in Seq(Message)
      BY <1>typed, <2>1, ReadingType DEF TypeOK
    <3>2. QED
      BY <1>typed, <2>2, <3>1, SendType
  <2>4. pipe' \in Seq(Message)
    BY <1>SetAside, <1>typed, <2>1, ReadingType DEF TypeOK, SetAside
  <2>5. QED
    BY <1>write, <1>SetAside, <1>typed, <2>1, <2>2, <2>3, <2>4
       DEF TypeOK, requestVars, storeVars, clientVars, engineVars, historyVars, SetAside,
           Places, Requesting, EngineElse
<1>Initialized. CASE Initialized
  BY <1>write, <1>Initialized, <1>typed, JobType, ReadingType, EmptySeq
     DEF TypeOK, requestVars, storeVars, clientVars, engineVars, historyVars, Initialized,
         Places, Requesting, Reading, EngineElse, Answered, NextLine
<1>ThreadReady. CASE ThreadReady
  <2>1. pc # "free" /\ (IF pc = "resuming" THEN job.resumes ELSE Waiting) \in Threads \union {None}
    BY <1>ThreadReady, <1>typed, JobType, TagType DEF TypeOK, ThreadReady, Waiting
  <2>2. job' \in Job /\ job'.profile = job.profile
    BY <1>ThreadReady, <1>typed, ThreadReadyJob DEF TypeOK
  <2>3. bindings' \in [Requests \union Legacy -> Binding]
    BY <1>ThreadReady, <1>typed, <2>1, BindType, JobType DEF TypeOK, ThreadReady, Bind
  <2>4. inbox' \subseteq Tags
    BY <1>ThreadReady, <1>typed, TagType, JobType DEF TypeOK, ThreadReady, Call
  <2>5. loaded' \subseteq Threads
    BY <1>ThreadReady, <1>typed, <2>1, ThreadReadyJob
       DEF TypeOK, ThreadReady, Typed, Conversation, Waiting
  <2>6. pipe' \in Seq(Message)
    BY <1>ThreadReady, <1>typed, ReadingType DEF TypeOK, ThreadReady, Answered, Reading
  <2>7. QED
    BY <1>write, <1>ThreadReady, <1>typed, <2>1, <2>2, <2>3, <2>4, <2>5, <2>6
       DEF TypeOK, requestVars, storeVars, clientVars, engineVars, historyVars, ThreadReady,
           Places, Requesting, EngineElse, Call
<1>ResumeRefused. CASE ResumeRefused
  <2>1. inbox' \subseteq Tags
    BY <1>ResumeRefused, <1>typed, TagType, JobType DEF TypeOK, ResumeRefused, Call
  <2>2. pipe' \in Seq(Message)
    BY <1>ResumeRefused, <1>typed, ReadingType
       DEF TypeOK, ResumeRefused, Answered, Unreadable, Reading
  <2>3. QED
    BY <1>write, <1>ResumeRefused, <1>typed, <2>1, <2>2
       DEF TypeOK, requestVars, storeVars, clientVars, engineVars, historyVars, ResumeRefused,
           Places, Requesting, EngineElse, Call
<1>CallFails. CASE CallFails
  <2>1. pipe' \in Seq(Message)
    BY <1>CallFails, <1>typed, ReadingType
       DEF TypeOK, CallFails, Answered, Unreadable, EndOfFile, Reading
  <2>2. QED
    BY <1>CallFails, <1>typed, <2>1, NoJobType
       DEF TypeOK, requestVars, storeVars, clientVars, engineVars, historyVars, CallFails,
           Places, Requesting, EngineElse, Finish, Finished, Statuses
<1>InitializeFails. CASE InitializeFails
  BY <1>InitializeFails, <1>typed, ReadingType, EmptySeq, NoJobType
     DEF TypeOK, requestVars, storeVars, clientVars, engineVars, historyVars, InitializeFails,
         Places, Requesting, Reading, EngineElse, Answered, NextLine, Finish, Finished, Statuses, Restarted
<1>CallTimesOut. CASE CallTimesOut
  BY <1>CallTimesOut, <1>typed, ReadingType, EmptySeq, NoJobType
     DEF TypeOK, requestVars, storeVars, clientVars, engineVars, historyVars, CallTimesOut,
         Places, Requesting, Reading, EngineElse, Answered, NextLine, Finish, Finished, Statuses, Restarted
<1>TurnStarted. CASE TurnStarted
  <2>1. pc # "free" /\ Show(backlog)
    BY <1>TurnStarted, <1>typed DEF TypeOK, TurnStarted
  <2>2. job' \in Job /\ job'.profile = job.profile
    BY <1>TurnStarted, <1>typed, TurnStartedJob DEF TypeOK
  <2>3. shown' \in [Turns -> Nat] /\ heard' \subseteq Turns /\ foreign' \subseteq Requests
    BY <1>TurnStarted, <1>typed, <2>1, ShowType DEF TypeOK
  <2>4. pipe' \in Seq(Message)
    BY <1>TurnStarted, <1>typed, ReadingType DEF TypeOK, TurnStarted, Answered, Reading
  <2>5. <<>> \in Seq(Message)
    BY <1>TurnStarted, <1>typed DEF TypeOK
  <2>6. QED
    BY <1>TurnStarted, <1>typed, <2>1, <2>2, <2>3, <2>4, <2>5
       DEF TypeOK, requestVars, storeVars, clientVars, engineVars, historyVars, TurnStarted,
           Places, Requesting, EngineElse
<1>TurnReports. CASE TurnReports
  <2>1. pc # "free" /\ pipe # <<>> /\ pipe' = Tail(pipe)
    BY <1>TurnReports, <1>typed DEF TypeOK, TurnReports, NextLine, Reading
  <2>2. job' \in Job /\ job'.profile = job.profile
    BY <1>TurnReports, <1>typed, TurnReportsJob DEF TypeOK
  <2>3. <<Head(pipe)>> \in Seq(Message)
    BY <1>TurnReports, <1>typed, <2>1, ReadingType DEF TypeOK
  <2>4. Show(<<Head(pipe)>>) \/ UNCHANGED historyVars
    BY <1>TurnReports, <1>typed DEF TypeOK, TurnReports
  <2>5. shown' \in [Turns -> Nat] /\ heard' \subseteq Turns /\ foreign' \subseteq Requests
    BY <1>TurnReports, <1>typed, <2>1, <2>3, <2>4, ShowType DEF TypeOK, historyVars
  <2>6. QED
    BY <1>write, <1>TurnReports, <1>typed, <2>1, <2>2, <2>3, <2>4, <2>5
       DEF TypeOK, requestVars, storeVars, clientVars, engineVars, historyVars, TurnReports,
           Places, Requesting, EngineElse
<1>TurnSucceeds. CASE TurnSucceeds
  BY <1>TurnSucceeds, <1>typed, ReadingType, EmptySeq, NoJobType
     DEF TypeOK, requestVars, storeVars, clientVars, engineVars, historyVars, TurnSucceeds,
         Places, Requesting, Reading, EngineElse, Answered, NextLine, Finish, Finished, Statuses
<1>TurnFails. CASE TurnFails
  BY <1>TurnFails, <1>typed, ReadingType, EmptySeq, NoJobType
     DEF TypeOK, requestVars, storeVars, clientVars, engineVars, historyVars, TurnFails,
         Places, Requesting, Reading, EngineElse, Answered, NextLine, Finish, Finished, Statuses
<1>RetryInNewThread. CASE RetryInNewThread
  <2>1. job' \in Job /\ job'.profile = job.profile
    BY <1>RetryInNewThread, <1>typed, RetryJob DEF TypeOK, RetryInNewThread
  <2>2. inbox' \subseteq Tags
    BY <1>RetryInNewThread, <1>typed, TagType DEF TypeOK, RetryInNewThread, Call, NextLine
  <2>3. pipe' \in Seq(Message)
    BY <1>RetryInNewThread, <1>typed, ReadingType
       DEF TypeOK, RetryInNewThread, Answered, NextLine, Reading
  <2>4. pc' = "starting" /\ pc # "free" /\ clogged' \in BOOLEAN
    BY <1>RetryInNewThread, <1>write DEF RetryInNewThread, Call, NextLine
  <2>5. /\ UNCHANGED <<requestVars, storeVars, cur, clientVars, historyVars>>
        /\ UNCHANGED <<engine, rendered, engineThreads, engineTurns, garbles, emitted>>
    BY <1>RetryInNewThread DEF RetryInNewThread, EngineElse
  <2>6. QED
    BY <1>typed, <2>1, <2>2, <2>3, <2>4, <2>5
       DEF TypeOK, requestVars, storeVars, clientVars, historyVars, Places, Requesting
<1>TurnBreaks. CASE TurnBreaks
  <2>1. pipe' \in Seq(Message)
    BY <1>TurnBreaks, <1>typed, ReadingType DEF TypeOK, TurnBreaks, Unreadable, EndOfFile
  <2>2. QED
    BY <1>TurnBreaks, <1>typed, <2>1, NoJobType
       DEF TypeOK, requestVars, storeVars, clientVars, engineVars, historyVars, TurnBreaks,
           Places, Requesting, EngineElse, Finish, Finished, Statuses
<1>TurnIdles. CASE TurnIdles
  BY <1>TurnIdles, <1>typed, ReadingType, EmptySeq, NoJobType
     DEF TypeOK, requestVars, storeVars, clientVars, engineVars, historyVars, TurnIdles,
         Places, Requesting, Reading, EngineElse, Answered, NextLine, Finish, Finished, Statuses, Restarted
<1>TurnCancelled. CASE TurnCancelled
  BY <1>TurnCancelled, <1>typed, ReadingType, EmptySeq, NoJobType
     DEF TypeOK, requestVars, storeVars, clientVars, engineVars, historyVars, TurnCancelled,
         Places, Requesting, Reading, EngineElse, Answered, NextLine, Finish, Finished, Statuses, Restarted
<1>CallerLeaves. CASE CallerLeaves
  BY <1>CallerLeaves, <1>typed, LeavesEffect, LeavesType, NoJobType
     DEF TypeOK, Places, Statuses, Finished
<1>EngineAnswers. ASSUME NEW tag \in inbox, NEW result \in {"ok", "error", "poisoned"},
                        EngineAnswers(tag, result)
                 PROVE  TypeOK'
  <2>1. [kind |-> "reply", tag |-> tag, info |-> result] \in Message
    BY <1>EngineAnswers, <1>typed, MessageMade DEF TypeOK
  <2>2. pipe' \in Seq(Message)
    BY <1>EngineAnswers, <1>typed, <2>1, SendType DEF TypeOK, EngineAnswers, Send
  <2>3. tag \in Tags /\ tag.req \in Requests
    BY <1>EngineAnswers, <1>typed DEF TypeOK, Tags
  <2>4. tag.method = "start" => tag \in Threads
    BY <1>EngineAnswers, <1>typed, <2>3 DEF TypeOK, Threads
  <2>5. tag.method = "resume" => Lookup(prev[tag.req]).thread \in Threads
    BY <1>EngineAnswers, <1>typed, <2>3, LookupType DEF TypeOK, Typed, Conversation, IsBound
  <2>6. engineThreads' \subseteq Threads
    BY <1>EngineAnswers, <1>typed, <2>4, <2>5 DEF TypeOK, EngineAnswers
  <2>7. engineTurns' \subseteq Turns
    BY <1>EngineAnswers, <1>typed DEF TypeOK, EngineAnswers, Turns
  <2>8. QED
    BY <1>EngineAnswers, <1>typed, <2>1, <2>2, <2>3, <2>4, <2>5, <2>6, <2>7
       DEF TypeOK, requestVars, storeVars, clientVars, engineVars, historyVars, EngineStep,
           Send, EngineAnswers
<1>EngineBegins. ASSUME NEW tag \in inbox, EngineBegins(tag) PROVE TypeOK'
  BY <1>EngineBegins, <1>typed
     DEF TypeOK, requestVars, storeVars, clientVars, engineVars, historyVars, EngineStep, Send,
         EngineBegins, Turns
<1>EngineNotes. ASSUME NEW t \in engineTurns, NEW info \in {"tool", "speech"}, EngineNotes(t, info)
               PROVE  TypeOK'
  <2>1. [kind |-> "note", tag |-> t, info |-> info] \in Message
    BY <1>EngineNotes, <1>typed, MessageMade DEF TypeOK
  <2>2. pipe' \in Seq(Message)
    BY <1>EngineNotes, <1>typed, <2>1, SendType DEF TypeOK, EngineNotes, Send
  <2>3. emitted' \in [Turns -> 0..MaxNotes]
    BY <1>EngineNotes, <1>typed DEF TypeOK, EngineNotes
  <2>4. QED
    BY <1>EngineNotes, <1>typed, <2>1, <2>2, <2>3
       DEF TypeOK, requestVars, storeVars, clientVars, engineVars, historyVars, EngineStep,
           Send, EngineNotes
<1>EngineCompletes. ASSUME NEW t \in engineTurns, NEW info \in {"ok", "failed", "poisoned"},
                          EngineCompletes(t, info)
                   PROVE  TypeOK'
  <2>1. [kind |-> "completed", tag |-> t, info |-> info] \in Message
    BY <1>EngineCompletes, <1>typed, MessageMade DEF TypeOK
  <2>2. pipe' \in Seq(Message)
    BY <1>EngineCompletes, <1>typed, <2>1, SendType DEF TypeOK, EngineCompletes, Send
  <2>3. QED
    BY <1>EngineCompletes, <1>typed, <2>1, <2>2
       DEF TypeOK, requestVars, storeVars, clientVars, engineVars, historyVars, EngineStep,
           Send, EngineCompletes
<1>EngineAsks. ASSUME NEW tag \in inbox \union engineTurns, EngineAsks(tag) PROVE TypeOK'
  <2>1. [kind |-> "request", tag |-> tag] \in Message
    BY <1>EngineAsks, <1>typed, MessageMade DEF TypeOK, Turns
  <2>2. pipe' \in Seq(Message)
    BY <1>EngineAsks, <1>typed, <2>1, SendType DEF TypeOK, EngineAsks, Send
  <2>3. QED
    BY <1>EngineAsks, <1>typed, <2>1, <2>2
       DEF TypeOK, requestVars, storeVars, clientVars, engineVars, historyVars, EngineStep,
           Send, EngineAsks
<1>EngineReads. CASE EngineReads
  BY <1>EngineReads, <1>typed
     DEF TypeOK, requestVars, storeVars, clientVars, engineVars, historyVars, EngineReads
<1>EngineGarbles. CASE EngineGarbles
  <2>1. [kind |-> "garbage"] \in Message
    BY <1>EngineGarbles, <1>typed, MessageMade DEF TypeOK
  <2>2. pipe' \in Seq(Message)
    BY <1>EngineGarbles, <1>typed, <2>1, SendType DEF TypeOK, EngineGarbles, Send
  <2>3. QED
    BY <1>EngineGarbles, <1>typed, <2>1, <2>2
       DEF TypeOK, requestVars, storeVars, clientVars, engineVars, historyVars, EngineStep,
           Send, EngineGarbles
<1>EngineExits. CASE EngineExits
  BY <1>EngineExits, <1>typed
     DEF TypeOK, requestVars, storeVars, clientVars, engineVars, historyVars, EngineExits
<1> QED
  BY <1>Unchanged, <1>Arrive, <1>Cancel, <1>EditConfig, <1>Acquire, <1>KeepEngine,
     <1>StopEngine, <1>StartEngine, <1>StartFails, <1>UseLoadedThread, <1>AskForThread,
     <1>SetAside, <1>Initialized, <1>ThreadReady, <1>ResumeRefused, <1>CallFails,
     <1>InitializeFails, <1>CallTimesOut, <1>TurnStarted, <1>TurnReports,
     <1>TurnSucceeds, <1>TurnFails, <1>RetryInNewThread, <1>TurnBreaks, <1>TurnIdles,
     <1>TurnCancelled, <1>CallerLeaves, <1>EngineAnswers, <1>EngineBegins,
     <1>EngineNotes, <1>EngineCompletes, <1>EngineAsks, <1>EngineReads,
     <1>EngineGarbles, <1>EngineExits
     DEF Next, Callers, Holder, Engine

-----------------------------------------------------------------------------
(* The conversation a turn continues                                       *)

(* Every step keeps the holder in the conversation it continues.           *)
LEMMA ConversationStep ==
  ASSUME Typed, [Next]_vars, TypeOK'
  PROVE  Conversation'
<1>typed. Typed /\ Conversation
  BY DEF Typed
<1>types. /\ cur \in Requests \union {None} /\ (pc = "free" <=> cur = None)
          /\ prev \in [Requests -> Requests \union Legacy \union {None}]
          /\ status \in [Requests -> Statuses]
          /\ bindings \in [Requests \union Legacy -> Binding]
          /\ \A t \in inbox : t.req \in Requests
          /\ None \notin Requests \union Legacy \union Threads
  BY RuntimeAssumption DEF Typed, TypeOK, Tags, Threads
<1>Unchanged. CASE UNCHANGED vars
  BY <1>Unchanged, <1>typed, <1>types
     DEF Conversation, BoundToAnsweringThread, vars, engineVars, requestVars, storeVars,
         Lookup, Workspace, IsBound
<1>Arrive. ASSUME NEW r \in Requests, NEW p \in (Requests \union Legacy \union {None}) \ {r},
                 NEW q \in Asks, Arrive(r, p, q)
          PROVE  Conversation'
  BY <1>Arrive, <1>typed, <1>types
     DEF Conversation, BoundToAnsweringThread, Arrive, engineVars, Lookup, Workspace, IsBound,
         requestVars, storeVars
<1>Cancel. ASSUME NEW r \in Requests, Cancel(r) PROVE Conversation'
  BY <1>Cancel, <1>typed, <1>types
     DEF Conversation, BoundToAnsweringThread, Cancel, engineVars, requestVars, storeVars,
         Lookup, Workspace, IsBound
<1>EditConfig. ASSUME NEW c \in Configs, EditConfig(c) PROVE Conversation'
  BY <1>EditConfig, <1>typed, <1>types, EditConfigJob
     DEF Conversation, BoundToAnsweringThread, EditConfig, engineVars, requestVars, storeVars,
         Lookup, Workspace, IsBound
<1>Acquire. ASSUME NEW r \in Requests, Acquire(r) PROVE Conversation'
  <2>1. /\ pc = "free" /\ cur = None /\ status[r] = "waiting"
        /\ UNCHANGED <<prev, bindings, inbox>>
        /\ \/ /\ pc' = "resolved" /\ cur' = r
              /\ status' = [status EXCEPT ![r] = "active"]
           \/ /\ pc' = "free" /\ cur' = None /\ job' = job
              /\ status' = [status EXCEPT ![r] = "failed"]
    BY <1>Acquire, <1>typed, AcquireEffect DEF Typed, storeVars, engineVars
  <2>2. CASE cur' = None
    BY <2>1, <2>2, <1>typed, <1>types
       DEF Conversation, BoundToAnsweringThread, Lookup, IsBound
  <2>3. CASE cur' # None
    <3>1. /\ job'.profile \in Profiles
          /\ job'.resumes = Lookup(prev[r]).thread
          /\ Lookup(prev[r]).profile \in {None, job'.profile}
      BY <1>Acquire, <1>typed, <2>3, AcquireJob DEF Typed
    <3>2. cur' = r /\ \A id : Lookup(id)' = Lookup(id)
      BY <2>1, <2>3 DEF Lookup
    <3>3. QED
      BY <2>1, <2>3, <3>1, <3>2, <1>typed, <1>types
         DEF Conversation, BoundToAnsweringThread, Lookup, IsBound
  <2>4. QED
    BY <2>2, <2>3
<1>KeepEngine. CASE KeepEngine
  BY <1>KeepEngine, <1>typed, <1>types
     DEF Conversation, BoundToAnsweringThread, KeepEngine, requestVars, storeVars, Lookup,
         Workspace, IsBound, engineVars
<1>StopEngine. CASE StopEngine
  BY <1>StopEngine, <1>typed, <1>types, StopEngineJob
     DEF Conversation, BoundToAnsweringThread, StopEngine, requestVars, storeVars, Lookup,
         Workspace, IsBound, Restarted
<1>StartEngine. CASE StartEngine
  BY <1>StartEngine, <1>typed, <1>types
     DEF Conversation, BoundToAnsweringThread, StartEngine, requestVars, storeVars, Lookup,
         Workspace, IsBound
<1>StartFails. CASE StartFails
  BY <1>StartFails, <1>typed, <1>types
     DEF Conversation, BoundToAnsweringThread, StartFails, requestVars, storeVars, Lookup,
         Workspace, IsBound, Finish, Finished, engineVars
<1>UseLoadedThread. CASE UseLoadedThread
  BY <1>UseLoadedThread, <1>typed, <1>types, UseLoadedThreadJob
     DEF Conversation, BoundToAnsweringThread, UseLoadedThread, requestVars, storeVars, Lookup,
         Workspace, IsBound, Call
<1>AskForThread. CASE AskForThread
  BY <1>AskForThread, <1>typed, <1>types, AskForThreadJob
     DEF Conversation, BoundToAnsweringThread, AskForThread, requestVars, storeVars, Lookup,
         Workspace, IsBound, Call
<1>SetAside. CASE SetAside
  BY <1>SetAside, <1>typed, <1>types
     DEF Conversation, BoundToAnsweringThread, SetAside, requestVars, storeVars, Lookup,
         Workspace, IsBound
<1>Initialized. CASE Initialized
  BY <1>Initialized, <1>typed, <1>types
     DEF Conversation, BoundToAnsweringThread, Initialized, requestVars, storeVars, Lookup,
         Workspace, IsBound
<1>ThreadReady. CASE ThreadReady
  BY <1>ThreadReady, <1>typed, <1>types, ThreadReadyJob
     DEF Conversation, BoundToAnsweringThread, ThreadReady, requestVars, storeVars, Lookup,
         Workspace, IsBound, Call, Bind
<1>ResumeRefused. CASE ResumeRefused
  BY <1>ResumeRefused, <1>typed, <1>types
     DEF Conversation, BoundToAnsweringThread, ResumeRefused, requestVars, storeVars, Lookup,
         Workspace, IsBound, Call, EngineElse
<1>CallFails. CASE CallFails
  BY <1>CallFails, <1>typed, <1>types
     DEF Conversation, BoundToAnsweringThread, CallFails, requestVars, storeVars, Lookup,
         Workspace, IsBound, Finish, Finished, engineVars, EngineElse
<1>InitializeFails. CASE InitializeFails
  BY <1>InitializeFails, <1>typed, <1>types
     DEF Conversation, BoundToAnsweringThread, InitializeFails, requestVars, storeVars, Lookup,
         Workspace, IsBound, Finish, Finished, engineVars, Restarted
<1>CallTimesOut. CASE CallTimesOut
  BY <1>CallTimesOut, <1>typed, <1>types
     DEF Conversation, BoundToAnsweringThread, CallTimesOut, requestVars, storeVars, Lookup,
         Workspace, IsBound, Finish, Finished, engineVars, Restarted
<1>TurnStarted. CASE TurnStarted
  BY <1>TurnStarted, <1>typed, <1>types, TurnStartedJob
     DEF Conversation, BoundToAnsweringThread, TurnStarted, requestVars, storeVars, Lookup,
         Workspace, IsBound
<1>TurnReports. CASE TurnReports
  BY <1>TurnReports, <1>typed, <1>types, TurnReportsJob
     DEF Conversation, BoundToAnsweringThread, TurnReports, requestVars, storeVars, Lookup,
         Workspace, IsBound, NextLine
<1>TurnSucceeds. CASE TurnSucceeds
  BY <1>TurnSucceeds, <1>typed, <1>types
     DEF Conversation, BoundToAnsweringThread, TurnSucceeds, requestVars, storeVars, Lookup,
         Workspace, IsBound, Finish, Finished, engineVars, NextLine
<1>TurnFails. CASE TurnFails
  BY <1>TurnFails, <1>typed, <1>types
     DEF Conversation, BoundToAnsweringThread, TurnFails, requestVars, storeVars, Lookup,
         Workspace, IsBound, Finish, Finished, engineVars, NextLine
<1>RetryInNewThread. CASE RetryInNewThread
  BY <1>RetryInNewThread, <1>typed, <1>types, RetryJob
     DEF Conversation, BoundToAnsweringThread, RetryInNewThread, requestVars, storeVars,
         Lookup, Workspace, IsBound, Call, NextLine
<1>TurnBreaks. CASE TurnBreaks
  BY <1>TurnBreaks, <1>typed, <1>types
     DEF Conversation, BoundToAnsweringThread, TurnBreaks, requestVars, storeVars, Lookup,
         Workspace, IsBound, Finish, Finished, engineVars, EngineElse
<1>TurnIdles. CASE TurnIdles
  BY <1>TurnIdles, <1>typed, <1>types
     DEF Conversation, BoundToAnsweringThread, TurnIdles, requestVars, storeVars, Lookup,
         Workspace, IsBound, Finish, Finished, engineVars, Restarted
<1>TurnCancelled. CASE TurnCancelled
  BY <1>TurnCancelled, <1>typed, <1>types
     DEF Conversation, BoundToAnsweringThread, TurnCancelled, requestVars, storeVars, Lookup,
         Workspace, IsBound, Finish, Finished, engineVars, Restarted
<1>CallerLeaves. CASE CallerLeaves
  BY <1>CallerLeaves, <1>typed, <1>types, LeavesEffect DEF Typed,
     Conversation, BoundToAnsweringThread, Lookup, Workspace, IsBound, Finished
<1>EngineAnswers. ASSUME NEW tag \in inbox, NEW result \in {"ok", "error", "poisoned"},
                        EngineAnswers(tag, result)
                 PROVE  Conversation'
  BY <1>EngineAnswers, <1>typed, <1>types
     DEF Conversation, BoundToAnsweringThread, requestVars, storeVars, EngineStep, Lookup,
         Workspace, IsBound, EngineAnswers
<1>EngineBegins. ASSUME NEW tag \in inbox, EngineBegins(tag) PROVE Conversation'
  BY <1>EngineBegins, <1>typed, <1>types
     DEF Conversation, BoundToAnsweringThread, requestVars, storeVars, EngineStep, Lookup,
         Workspace, IsBound, EngineBegins
<1>EngineNotes. ASSUME NEW t \in engineTurns, NEW info \in {"tool", "speech"}, EngineNotes(t, info)
               PROVE  Conversation'
  BY <1>EngineNotes, <1>typed, <1>types
     DEF Conversation, BoundToAnsweringThread, requestVars, storeVars, EngineStep, Lookup,
         Workspace, IsBound, EngineNotes
<1>EngineCompletes. ASSUME NEW t \in engineTurns, NEW info \in {"ok", "failed", "poisoned"},
                          EngineCompletes(t, info)
                   PROVE  Conversation'
  BY <1>EngineCompletes, <1>typed, <1>types
     DEF Conversation, BoundToAnsweringThread, requestVars, storeVars, EngineStep, Lookup,
         Workspace, IsBound, EngineCompletes
<1>EngineAsks. ASSUME NEW tag \in inbox \union engineTurns, EngineAsks(tag) PROVE Conversation'
  BY <1>EngineAsks, <1>typed, <1>types
     DEF Conversation, BoundToAnsweringThread, requestVars, storeVars, EngineStep, Lookup,
         Workspace, IsBound, EngineAsks
<1>EngineReads. CASE EngineReads
  BY <1>EngineReads, <1>typed, <1>types
     DEF Conversation, BoundToAnsweringThread, requestVars, storeVars, Lookup,
         Workspace, IsBound, EngineReads
<1>EngineGarbles. CASE EngineGarbles
  BY <1>EngineGarbles, <1>typed, <1>types
     DEF Conversation, BoundToAnsweringThread, requestVars, storeVars, EngineStep, Lookup,
         Workspace, IsBound, EngineGarbles
<1>EngineExits. CASE EngineExits
  BY <1>EngineExits, <1>typed, <1>types
     DEF Conversation, BoundToAnsweringThread, requestVars, storeVars, Lookup, Workspace,
         IsBound, EngineExits
<1> QED
  BY <1>Unchanged, <1>Arrive, <1>Cancel, <1>EditConfig, <1>Acquire, <1>KeepEngine,
     <1>StopEngine, <1>StartEngine, <1>StartFails, <1>UseLoadedThread, <1>AskForThread,
     <1>SetAside, <1>Initialized, <1>ThreadReady, <1>ResumeRefused, <1>CallFails,
     <1>InitializeFails, <1>CallTimesOut, <1>TurnStarted, <1>TurnReports,
     <1>TurnSucceeds, <1>TurnFails, <1>RetryInNewThread, <1>TurnBreaks, <1>TurnIdles,
     <1>TurnCancelled, <1>CallerLeaves, <1>EngineAnswers, <1>EngineBegins,
     <1>EngineNotes, <1>EngineCompletes, <1>EngineAsks, <1>EngineReads,
     <1>EngineGarbles, <1>EngineExits
     DEF Next, Callers, Holder, Engine

-----------------------------------------------------------------------------
(* The engine that serves a turn                                           *)

(* What the adapter remembers of the engine and what the engine is.  The   *)
(* store is read twice, for the fingerprint and for the environment, and   *)
(* only an edit between the two makes them differ.                         *)
EngineInv ==
  /\ engine # "running" => inbox = {} /\ engineThreads = {} /\ engineTurns = {}
  /\ engine = "none" => pipe = <<>> /\ backlog = <<>>
  /\ engine # "none" => rendered # None
  /\ fingerprint # None =>
       /\ engine # "none" /\ rendered.profile = fingerprint.profile
       /\ rendered.config = fingerprint.config \/ overtaken
  /\ pc # "free" => config \in job.current
  /\ pc \in {"preparing", "initializing"} =>
       /\ fingerprint = None /\ job.want # None
       /\ job.want.profile = job.profile /\ job.want.config \in job.current
  /\ pc = "preparing" => engine = "none" /\ (job.want.config = config \/ overtaken)
  /\ pc = "initializing" =>
       /\ engine # "none" /\ rendered.profile = job.profile
       /\ rendered.config = job.want.config \/ overtaken
  /\ pc \in Serving =>
       /\ fingerprint # None /\ fingerprint.profile = job.profile
       /\ fingerprint.config \in job.current

(* Every step keeps the engine, its fingerprint and the wanted one in line.*)
LEMMA EngineStepInv ==
  ASSUME Typed, EngineInv, [Next]_vars
  PROVE  EngineInv'
<1>typed. Typed /\ TypeOK /\ EngineInv
  BY DEF Typed
<1>types. /\ cur \in Requests \union {None} /\ (pc = "free" <=> cur = None)
          /\ config \in Configs /\ None \notin Environment
          /\ rendered \in Environment \union {None}
          /\ job.want \in Environment \union {None} /\ fingerprint \in Environment \union {None}
          /\ None \notin Requests
  BY RuntimeAssumption, JobType DEF Typed, TypeOK, Environment
<1>Unchanged. CASE UNCHANGED vars
  BY <1>Unchanged, <1>typed, <1>types
     DEF EngineInv, Serving, vars, storeVars, clientVars, engineVars
<1>Arrive. ASSUME NEW r \in Requests, NEW p \in (Requests \union Legacy \union {None}) \ {r},
                 NEW q \in Asks, Arrive(r, p, q)
           PROVE  EngineInv'
  BY <1>Arrive, <1>typed, <1>types
     DEF EngineInv, Serving, Arrive, storeVars, clientVars, engineVars
<1>Cancel. ASSUME NEW r \in Requests, Cancel(r) PROVE EngineInv'
  BY <1>Cancel, <1>typed, <1>types
     DEF EngineInv, Serving, Cancel, storeVars, clientVars, engineVars
<1>EditConfig. ASSUME NEW c \in Configs, EditConfig(c) PROVE EngineInv'
  BY <1>EditConfig, <1>typed, <1>types, EditConfigJob
     DEF EngineInv, Serving, EditConfig, storeVars, clientVars, engineVars
<1>Acquire. ASSUME NEW r \in Requests, Acquire(r) PROVE EngineInv'
  BY <1>Acquire, <1>typed, <1>types, AcquireEffect, AcquireJob
     DEF EngineInv, Serving, storeVars, clientVars, engineVars
<1>KeepEngine. CASE KeepEngine
  <2>1. [config |-> config, profile |-> job.profile] \in Environment
    BY <1>KeepEngine, <1>typed DEF KeepEngine, Typed, TypeOK, Conversation, Environment
  <2>2. /\ fingerprint # None
        /\ fingerprint.profile = job.profile /\ fingerprint.config = config
    BY <1>KeepEngine, <1>types, <2>1 DEF KeepEngine
  <2>3. /\ pc = "resolved" /\ pc' = "ready"
        /\ UNCHANGED <<storeVars, cur, job, clientVars, engineVars>>
    BY <1>KeepEngine DEF KeepEngine
  <2>4. QED
    BY <1>typed, <1>types, <2>2, <2>3
       DEF EngineInv, Serving, storeVars, clientVars, engineVars
<1>StopEngine. CASE StopEngine
  <2>1. /\ pc = "resolved" /\ pc' = "preparing"
        /\ engine' = "none" /\ inbox' = {} /\ engineThreads' = {} /\ engineTurns' = {}
        /\ pipe' = <<>> /\ backlog' = <<>> /\ fingerprint' = None
        /\ UNCHANGED config
    BY <1>StopEngine DEF StopEngine, Restarted
  <2>2. /\ job'.want # None /\ job'.want.config = config
        /\ job'.want.profile = job'.profile /\ job'.current = job.current
    BY <1>StopEngine, <1>typed, <1>types, StopEngineJob
  <2>3. QED
    BY <1>typed, <2>1, <2>2 DEF EngineInv, Serving
<1>StartEngine. CASE StartEngine
  <2>1. /\ pc = "preparing" /\ pc' = "initializing" /\ engine' = "running"
        /\ UNCHANGED <<storeVars, job, clientVars>>
    BY <1>StartEngine DEF StartEngine
  <2>2. /\ rendered' = [config |-> config, profile |-> job.profile]
        /\ rendered' \in Environment
    BY <1>StartEngine, <1>typed DEF StartEngine, Typed, TypeOK, Conversation, Environment
  <2>3. rendered' # None /\ rendered'.config = config /\ rendered'.profile = job.profile
    BY <1>types, <2>2
  <2>4. QED
    BY <1>typed, <2>1, <2>3 DEF EngineInv, Serving, storeVars, clientVars
<1>StartFails. CASE StartFails
  BY <1>StartFails, <1>typed, <1>types, NoJobType
     DEF EngineInv, Serving, StartFails, storeVars, clientVars, engineVars, Finish
<1>UseLoadedThread. CASE UseLoadedThread
  BY <1>UseLoadedThread, <1>typed, <1>types, UseLoadedThreadJob
     DEF EngineInv, Serving, UseLoadedThread, storeVars, clientVars, engineVars, Call
<1>AskForThread. CASE AskForThread
  BY <1>AskForThread, <1>typed, <1>types, AskForThreadJob
     DEF EngineInv, Serving, AskForThread, storeVars, clientVars, engineVars, Call
<1>SetAside. CASE SetAside
  BY <1>SetAside, <1>typed, <1>types
     DEF EngineInv, Serving, SetAside, storeVars, clientVars, engineVars, EngineElse, Reading
<1>Initialized. CASE Initialized
  BY <1>Initialized, <1>typed, <1>types
     DEF EngineInv, Serving, Initialized, storeVars, clientVars, engineVars, EngineElse,
         Requesting
<1>ThreadReady. CASE ThreadReady
  BY <1>ThreadReady, <1>typed, <1>types, ThreadReadyJob
     DEF EngineInv, Serving, ThreadReady, storeVars, clientVars, engineVars, Call, EngineElse
<1>ResumeRefused. CASE ResumeRefused
  BY <1>ResumeRefused, <1>typed, <1>types
     DEF EngineInv, Serving, ResumeRefused, storeVars, clientVars, engineVars, Call, EngineElse
<1>CallFails. CASE CallFails
  BY <1>CallFails, <1>typed, <1>types, NoJobType
     DEF EngineInv, Serving, CallFails, storeVars, clientVars, engineVars, Finish, EngineElse,
         Requesting, Answered, Unreadable, EndOfFile
<1>InitializeFails. CASE InitializeFails
  BY <1>InitializeFails, <1>typed, <1>types, NoJobType
     DEF EngineInv, Serving, InitializeFails, storeVars, clientVars, engineVars, Finish, Restarted
<1>CallTimesOut. CASE CallTimesOut
  BY <1>CallTimesOut, <1>typed, <1>types, NoJobType
     DEF EngineInv, Serving, CallTimesOut, storeVars, clientVars, engineVars, Finish,
         Restarted, Requesting
<1>TurnStarted. CASE TurnStarted
  BY <1>TurnStarted, <1>typed, <1>types, TurnStartedJob
     DEF EngineInv, Serving, TurnStarted, storeVars, clientVars, engineVars, EngineElse
<1>TurnReports. CASE TurnReports
  BY <1>TurnReports, <1>typed, <1>types, TurnReportsJob
     DEF EngineInv, Serving, TurnReports, storeVars, clientVars, engineVars, NextLine, EngineElse
<1>TurnSucceeds. CASE TurnSucceeds
  BY <1>TurnSucceeds, <1>typed, <1>types, NoJobType
     DEF EngineInv, Serving, TurnSucceeds, storeVars, clientVars, engineVars, Finish, NextLine,
         EngineElse
<1>TurnFails. CASE TurnFails
  BY <1>TurnFails, <1>typed, <1>types, NoJobType
     DEF EngineInv, Serving, TurnFails, storeVars, clientVars, engineVars, Finish, NextLine,
         EngineElse
<1>RetryInNewThread. CASE RetryInNewThread
  BY <1>RetryInNewThread, <1>typed, <1>types, RetryJob
     DEF EngineInv, Serving, RetryInNewThread, storeVars, clientVars, engineVars, Call,
         NextLine, EngineElse
<1>TurnBreaks. CASE TurnBreaks
  BY <1>TurnBreaks, <1>typed, <1>types, NoJobType
     DEF EngineInv, Serving, TurnBreaks, storeVars, clientVars, engineVars, Finish, EngineElse
<1>TurnIdles. CASE TurnIdles
  BY <1>TurnIdles, <1>typed, <1>types, NoJobType
     DEF EngineInv, Serving, TurnIdles, storeVars, clientVars, engineVars, Finish, Restarted
<1>TurnCancelled. CASE TurnCancelled
  BY <1>TurnCancelled, <1>typed, <1>types, NoJobType
     DEF EngineInv, Serving, TurnCancelled, storeVars, clientVars, engineVars, Finish, Restarted
<1>CallerLeaves. CASE CallerLeaves
  <2>1. \/ UNCHANGED pipe
        \/ pipe # <<>> /\ pipe' = Tail(pipe)
    BY <1>CallerLeaves, <1>typed, LeavesEffect
  <2>2. engine # "none"
        \/ (engine = "none" /\ pipe' = <<>> /\ backlog' = <<>>)
    <3>1. CASE engine # "none"
      BY <3>1
    <3>2. CASE engine = "none"
      <4>1. pipe = <<>> /\ backlog = <<>> /\ Len(backlog) = 0
        BY <3>2, <1>typed DEF EngineInv
      <4>2. \A n \in 1..Len(backlog) : FALSE
        BY <4>1
      <4>3. UNCHANGED backlog
        BY <4>2, <1>CallerLeaves, <1>typed, LeavesEffect
      <4>4. QED
        BY <2>1, <3>2, <4>1, <4>3
    <3>3. QED
      BY <3>1, <3>2
  <2>3. /\ pc' = "free" /\ cur' = None /\ job' = NoJob
        /\ UNCHANGED <<overtaken, config, fingerprint, engine, rendered, engineThreads,
                       engineTurns, inbox>>
    BY <1>CallerLeaves, <1>typed, LeavesEffect
  <2>4. QED
    BY <2>2, <2>3, <1>typed DEF EngineInv, Serving
<1>EngineAnswers. ASSUME NEW tag \in inbox, NEW result \in {"ok", "error", "poisoned"},
                         EngineAnswers(tag, result)
                  PROVE  EngineInv'
  BY <1>EngineAnswers, <1>typed, <1>types
     DEF EngineInv, Serving, EngineAnswers, storeVars, clientVars, engineVars, EngineStep
<1>EngineBegins. ASSUME NEW tag \in inbox, EngineBegins(tag) PROVE EngineInv'
  BY <1>EngineBegins, <1>typed, <1>types
     DEF EngineInv, Serving, EngineBegins, storeVars, clientVars, engineVars, EngineStep
<1>EngineNotes. ASSUME NEW t \in engineTurns, NEW info \in {"tool", "speech"}, EngineNotes(t,
info)
                PROVE  EngineInv'
  BY <1>EngineNotes, <1>typed, <1>types
     DEF EngineInv, Serving, EngineNotes, storeVars, clientVars, engineVars, EngineStep
<1>EngineCompletes. ASSUME NEW t \in engineTurns, NEW info \in {"ok", "failed", "poisoned"},
                           EngineCompletes(t, info)
                    PROVE  EngineInv'
  BY <1>EngineCompletes, <1>typed, <1>types
     DEF EngineInv, Serving, EngineCompletes, storeVars, clientVars, engineVars, EngineStep
<1>EngineAsks. ASSUME NEW tag \in inbox \union engineTurns, EngineAsks(tag) PROVE EngineInv'
  BY <1>EngineAsks, <1>typed, <1>types
     DEF EngineInv, Serving, EngineAsks, storeVars, clientVars, engineVars, EngineStep
<1>EngineReads. CASE EngineReads
  BY <1>EngineReads, <1>typed, <1>types
     DEF EngineInv, Serving, EngineReads, storeVars, clientVars, engineVars
<1>EngineGarbles. CASE EngineGarbles
  BY <1>EngineGarbles, <1>typed, <1>types
     DEF EngineInv, Serving, EngineGarbles, storeVars, clientVars, engineVars, EngineStep
<1>EngineExits. CASE EngineExits
  BY <1>EngineExits, <1>typed, <1>types
     DEF EngineInv, Serving, EngineExits, storeVars, clientVars, engineVars
<1> QED
  BY <1>Unchanged, <1>Arrive, <1>Cancel, <1>EditConfig, <1>Acquire, <1>KeepEngine,
     <1>StopEngine, <1>StartEngine, <1>StartFails, <1>UseLoadedThread, <1>AskForThread,
     <1>SetAside, <1>Initialized, <1>ThreadReady, <1>ResumeRefused, <1>CallFails,
     <1>InitializeFails, <1>CallTimesOut, <1>TurnStarted, <1>TurnReports,
     <1>TurnSucceeds, <1>TurnFails, <1>RetryInNewThread, <1>TurnBreaks, <1>TurnIdles,
     <1>TurnCancelled, <1>CallerLeaves, <1>EngineAnswers, <1>EngineBegins,
     <1>EngineNotes, <1>EngineCompletes, <1>EngineAsks, <1>EngineReads,
     <1>EngineGarbles, <1>EngineExits
     DEF Next, Callers, Holder, Engine

-----------------------------------------------------------------------------
(* Queues of messages                                                      *)

(* The messages in a queue.                                                *)
In(s) == {s[i] : i \in 1..Len(s)}

(* An empty queue holds nothing.                                           *)
LEMMA InEmpty == In(<<>>) = {}
BY DEF In

(* The first message is in the queue; the rest holds no other messages.    *)
LEMMA InHead ==
  ASSUME NEW s \in Seq(Message), s # <<>>
  PROVE  Head(s) \in In(s) /\ Head(s) \in Message /\ In(Tail(s)) \subseteq In(s)
<1>1. /\ Len(s) \in Nat /\ Len(s) >= 1 /\ Head(s) = s[1] /\ Head(s) \in Message
      /\ Len(Tail(s)) = Len(s) - 1
      /\ \A i \in 1..Len(Tail(s)) : Tail(s)[i] = s[i + 1]
  BY HeadTailProperties, LenProperties, EmptySeq
<1>2. Head(s) \in In(s)
  BY <1>1 DEF In
<1>3. ASSUME NEW i \in 1..Len(Tail(s)) PROVE Tail(s)[i] \in In(s)
  <2>1. i + 1 \in 1..Len(s) /\ Tail(s)[i] = s[i + 1]
    BY <1>1
  <2>2. QED
    BY <2>1 DEF In
<1>4. QED
  BY <1>1, <1>2, <1>3 DEF In

(* A message appended is the only one added.                               *)
LEMMA InAppend ==
  ASSUME NEW s \in Seq(Message), NEW m \in Message
  PROVE  In(Append(s, m)) = In(s) \union {m}
<1>1. /\ Len(s) \in Nat /\ Len(Append(s, m)) = Len(s) + 1
      /\ \A i \in 1..Len(s) : Append(s, m)[i] = s[i]
      /\ Append(s, m)[Len(s) + 1] = m
  BY AppendProperties, LenProperties
<1>2. QED
  BY <1>1 DEF In

(* A queue of messages holds messages.                                     *)
LEMMA InType ==
  ASSUME NEW s \in Seq(Message)
  PROVE  In(s) \subseteq Message
BY ElementOfSeq DEF In

(* What a caller that leaves does to the queues: nothing is added to them,  *)
(* and the part of the backlog that is shown is part of it.                *)
LEMMA SubSeqIn ==
  ASSUME NEW s \in Seq(Message), NEW a \in Nat, NEW b \in Nat, 1 <= a, b <= Len(s)
  PROVE  /\ SubSeq(s, a, b) \in Seq(Message)
         /\ In(SubSeq(s, a, b)) \subseteq In(s)
<1>1. Len(s) \in Nat /\ \A i \in 1..Len(s) : s[i] \in Message
  BY ElementOfSeq, LenProperties
<1>2. \A i \in a..b : s[i] \in Message
  BY <1>1
<1>3. /\ SubSeq(s, a, b) \in Seq(Message)
      /\ Len(SubSeq(s, a, b)) = IF a <= b THEN b - a + 1 ELSE 0
      /\ \A i \in 1..(b - a + 1) : SubSeq(s, a, b)[i] = s[a + i - 1]
  BY <1>2, SubSeqProperties
<1>4. ASSUME NEW i \in 1..Len(SubSeq(s, a, b)) PROVE SubSeq(s, a, b)[i] \in In(s)
  <2>1. a <= b /\ i \in 1..(b - a + 1)
    BY <1>3
  <2>2. a + i - 1 \in 1..Len(s)
    BY <1>1, <2>1
  <2>3. QED
    BY <1>3, <2>1, <2>2 DEF In
<1>5. QED
  BY <1>3, <1>4 DEF In

(* A caller that leaves adds nothing to a queue.                           *)
LEMMA LeavesQueues ==
  ASSUME TypeOK, CallerLeaves
  PROVE  In(pipe') \subseteq In(pipe) /\ In(backlog') \subseteq In(backlog)
<1>1. pipe \in Seq(Message) /\ backlog \in Seq(Message) /\ Len(backlog) \in Nat
  BY LenProperties DEF TypeOK
<1>2. In(pipe') \subseteq In(pipe)
  BY <1>1, LeavesEffect, InHead
<1>3. ASSUME NEW n \in 1..Len(backlog), backlog' = SubSeq(backlog, n + 1, Len(backlog))
      PROVE  In(backlog') \subseteq In(backlog)
  <2>1. n + 1 \in Nat /\ 1 <= n + 1
    BY <1>1
  <2>2. QED
    BY <1>1, <1>3, <2>1, SubSeqIn
<1>4. In(backlog') \subseteq In(backlog)
  BY <1>3, LeavesEffect
<1>5. QED
  BY <1>2, <1>4

-----------------------------------------------------------------------------
(* Counting notifications                                                  *)

(* A report of the engine on turn t.                                       *)
IsNote(m, t) == m.kind = "note" /\ m.tag = t

(* How many notifications of turn t a queue holds.                         *)
Notes(s, t) == {i \in 1..Len(s) : IsNote(s[i], t)}
Count(s, t) == Cardinality(Notes(s, t))

(* A queue holds a finite number of notifications.                         *)
LEMMA NotesFinite ==
  ASSUME NEW s \in Seq(Message), NEW t
  PROVE  IsFiniteSet(Notes(s, t)) /\ Count(s, t) \in Nat
<1>1. Len(s) \in Nat
  BY LenProperties
<1>2. IsFiniteSet(1..Len(s))
  BY <1>1, FS_Interval
<1>3. Notes(s, t) \subseteq 1..Len(s)
  BY DEF Notes
<1>4. IsFiniteSet(Notes(s, t))
  BY <1>2, <1>3, FS_Subset
<1>5. QED
  BY <1>4, FS_CardinalityType DEF Count

(* A queue counts zero exactly when it holds no notification of the turn.  *)
LEMMA CountZero ==
  ASSUME NEW s \in Seq(Message), NEW t
  PROVE  Count(s, t) = 0 <=> \A m \in In(s) : ~IsNote(m, t)
<1>1. Count(s, t) = 0 <=> Notes(s, t) = {}
  BY NotesFinite, FS_EmptySet DEF Count
<1>2. Notes(s, t) = {} <=> \A m \in In(s) : ~IsNote(m, t)
  BY DEF Notes, In
<1>3. QED
  BY <1>1, <1>2

(* Appending a notification of the turn counts one more.                   *)
LEMMA CountAppend ==
  ASSUME NEW s \in Seq(Message), NEW m \in Message, NEW t
  PROVE  Count(Append(s, m), t) = IF IsNote(m, t) THEN Count(s, t) + 1 ELSE Count(s, t)
<1> DEFINE n == Len(s) + 1
<1>1. /\ Len(s) \in Nat /\ Len(Append(s, m)) = n
      /\ \A i \in 1..Len(s) : Append(s, m)[i] = s[i]
      /\ Append(s, m)[n] = m
  BY AppendProperties, LenProperties
<1>2. n \notin Notes(s, t)
  BY <1>1 DEF Notes
<1>3. Notes(Append(s, m), t) = IF IsNote(m, t) THEN Notes(s, t) \union {n} ELSE Notes(s, t)
  BY <1>1 DEF Notes
<1>4. QED
  BY <1>2, <1>3, NotesFinite, FS_AddElement DEF Count

(* Reading a notification of the turn counts one less.                     *)
LEMMA CountTail ==
  ASSUME NEW s \in Seq(Message), s # <<>>, NEW t
  PROVE  Count(s, t) = IF IsNote(Head(s), t) THEN Count(Tail(s), t) + 1 ELSE Count(Tail(s), t)
<1> DEFINE later == Notes(s, t) \ {1}
           f == [i \in Notes(Tail(s), t) |-> i + 1]
<1>1. /\ Len(s) \in Nat /\ Len(s) >= 1 /\ Head(s) = s[1]
      /\ Tail(s) \in Seq(Message) /\ Len(Tail(s)) = Len(s) - 1
      /\ \A i \in 1..Len(Tail(s)) : Tail(s)[i] = s[i + 1]
  BY HeadTailProperties, LenProperties, EmptySeq
<1>2. \A i \in Notes(Tail(s), t) : i \in Nat /\ i + 1 \in later
  BY <1>1 DEF Notes
<1>3. \A j \in later : j - 1 \in Notes(Tail(s), t) /\ (j - 1) + 1 = j
  BY <1>1 DEF Notes
<1>4. f \in Bijection(Notes(Tail(s), t), later)
  <2>1. f \in [Notes(Tail(s), t) -> later]
    BY <1>2
  <2>2. \A a, b \in Notes(Tail(s), t) : f[a] = f[b] => a = b
    BY <1>2
  <2>3. ASSUME NEW j \in later PROVE \E i \in Notes(Tail(s), t) : f[i] = j
    <3>1. j - 1 \in Notes(Tail(s), t) /\ f[j - 1] = j
      BY <1>3
    <3>2. QED
      BY <3>1
  <2> HIDE DEF f, later
  <2>4. QED
    BY <2>1, <2>2, <2>3, Fun_IsBij
<1> HIDE DEF f, later
<1>5. Cardinality(later) = Count(Tail(s), t)
  <2>1. ExistsBijection(Notes(Tail(s), t), later)
    BY <1>4 DEF ExistsBijection
  <2>2. QED
    BY <2>1, <1>1, NotesFinite, FS_Bijection DEF Count
<1> USE DEF later
<1>6. 1 \in Notes(s, t) <=> IsNote(Head(s), t)
  BY <1>1 DEF Notes
<1>7. Cardinality(later) = IF 1 \in Notes(s, t) THEN Count(s, t) - 1 ELSE Count(s, t)
  BY NotesFinite, FS_RemoveElement DEF Count
<1>8. QED
  BY <1>1, <1>5, <1>6, <1>7, NotesFinite

(* A queue of one message counts it.                                       *)
LEMMA CountSingle ==
  ASSUME NEW m \in Message, NEW t
  PROVE  /\ <<m>> \in Seq(Message) /\ In(<<m>>) = {m}
         /\ Count(<<m>>, t) = IF IsNote(m, t) THEN 1 ELSE 0
<1>1. <<m>> \in Seq(Message) /\ Len(<<m>>) = 1 /\ <<m>>[1] = m
  OBVIOUS
<1>2. In(<<m>>) = {m}
  BY <1>1 DEF In
<1>3. Notes(<<m>>, t) = IF IsNote(m, t) THEN {1} ELSE {}
  BY <1>1 DEF Notes
<1>4. QED
  BY <1>1, <1>2, <1>3, FS_Singleton, FS_EmptySet DEF Count

(* The first part of a queue counts no more notifications than the queue.  *)
LEMMA CountPrefix ==
  ASSUME NEW s \in Seq(Message), NEW n \in 1..Len(s), NEW t
  PROVE  Count(SubSeq(s, 1, n), t) <= Count(s, t)
<1>1. Len(s) \in Nat /\ \A i \in 1..Len(s) : s[i] \in Message
  BY ElementOfSeq, LenProperties
<1>2. \A i \in 1..n : s[i] \in Message
  BY <1>1
<1>3. /\ Len(SubSeq(s, 1, n)) = n
      /\ \A i \in 1..n : SubSeq(s, 1, n)[i] = s[i]
  BY <1>1, <1>2, SubSeqProperties
<1>4. Notes(SubSeq(s, 1, n), t) \subseteq Notes(s, t)
  BY <1>1, <1>3 DEF Notes
<1>5. QED
  BY <1>4, NotesFinite, FS_Subset DEF Count

(* Neither does the line that is read first.                               *)
LEMMA HeadCount ==
  ASSUME NEW s \in Seq(Message), s # <<>>, NEW t
  PROVE  Count(<<Head(s)>>, t) <= Count(s, t)
<1>1. Tail(s) \in Seq(Message) /\ Head(s) \in Message
  BY InHead, HeadTailProperties
<1>2. Count(<<Head(s)>>, t) = IF IsNote(Head(s), t) THEN 1 ELSE 0
  BY <1>1, CountSingle
<1>3. /\ Count(Tail(s), t) \in Nat
      /\ Count(s, t) = IF IsNote(Head(s), t) THEN Count(Tail(s), t) + 1 ELSE Count(Tail(s), t)
  BY <1>1, CountTail, NotesFinite
<1>4. QED
  BY <1>2, <1>3

-----------------------------------------------------------------------------
(* Calls the holder has made                                               *)

(* Call t may have been made: its request has finished, or holds the lock  *)
(* and has come that far.                                                  *)
Made(t) ==
  \/ status[t.req] \in Finished
  \/ /\ t.req = cur
     /\ \/ t.method = "initialize" /\ t.try = 1 /\ pc \notin {"resolved", "preparing"}
        \/ /\ t.method = "resume" /\ t.try = 1
           /\ pc \in {"resuming", "starting", "turning", "driving"}
        \/ t.method = "start" /\ t.try <= job.try /\ pc \in {"starting", "turning", "driving"}
        \/ t.method = "turn" /\ t.try < job.try
        \/ t.method = "turn" /\ t.try = job.try /\ pc \in {"turning", "driving"}

(* Only a turn is tried twice.                                             *)
TriesInv == pc # "free" /\ pc \notin {"starting", "turning", "driving"} => job.try = 1

(* Every step keeps the first attempt the only one before threads start.   *)
LEMMA TriesStep ==
  ASSUME Typed, TriesInv, [Next]_vars
  PROVE  TriesInv'
<1>typed. Typed /\ TypeOK /\ TriesInv /\ (pc = "free" <=> cur = None) /\ None \notin Requests
  BY RuntimeAssumption DEF Typed, TypeOK
<1>Unchanged. CASE UNCHANGED vars
  BY <1>Unchanged, <1>typed DEF TriesInv, vars
<1>Arrive. ASSUME NEW r \in Requests, NEW p \in (Requests \union Legacy \union {None}) \ {r},
                 NEW q \in Asks, Arrive(r, p, q)
           PROVE  TriesInv'
  BY <1>Arrive, <1>typed
     DEF TriesInv, Arrive
<1>Cancel. ASSUME NEW r \in Requests, Cancel(r) PROVE TriesInv'
  BY <1>Cancel, <1>typed
     DEF TriesInv, Cancel
<1>EditConfig. ASSUME NEW c \in Configs, EditConfig(c) PROVE TriesInv'
  BY <1>EditConfig, <1>typed, EditConfigJob
     DEF TriesInv, EditConfig
<1>Acquire. ASSUME NEW r \in Requests, Acquire(r) PROVE TriesInv'
  <2>1. (pc' = "resolved" /\ cur' = r) \/ (pc' = "free" /\ cur' = None)
    BY <1>Acquire, <1>typed, AcquireEffect
  <2>2. cur' # None => job'.try = 1
    BY <1>Acquire, <1>typed, AcquireJob
  <2>3. QED
    BY <1>typed, <2>1, <2>2 DEF TriesInv
<1>KeepEngine. CASE KeepEngine
  BY <1>KeepEngine, <1>typed
     DEF TriesInv, KeepEngine
<1>StopEngine. CASE StopEngine
  BY <1>StopEngine, <1>typed, StopEngineJob
     DEF TriesInv, StopEngine, Restarted
<1>StartEngine. CASE StartEngine
  BY <1>StartEngine, <1>typed
     DEF TriesInv, StartEngine
<1>StartFails. CASE StartFails
  BY <1>StartFails, <1>typed, NoJobType
     DEF TriesInv, StartFails, Finish
<1>UseLoadedThread. CASE UseLoadedThread
  BY <1>UseLoadedThread, <1>typed, UseLoadedThreadJob
     DEF TriesInv, UseLoadedThread, Call
<1>AskForThread. CASE AskForThread
  BY <1>AskForThread, <1>typed, AskForThreadJob
     DEF TriesInv, AskForThread, Call
<1>SetAside. CASE SetAside
  BY <1>SetAside, <1>typed
     DEF TriesInv, SetAside, EngineElse
<1>Initialized. CASE Initialized
  BY <1>Initialized, <1>typed
     DEF TriesInv, Initialized, EngineElse
<1>ThreadReady. CASE ThreadReady
  BY <1>ThreadReady, <1>typed, ThreadReadyJob
     DEF TriesInv, ThreadReady, Call, EngineElse
<1>ResumeRefused. CASE ResumeRefused
  BY <1>ResumeRefused, <1>typed
     DEF TriesInv, ResumeRefused, Call, EngineElse
<1>CallFails. CASE CallFails
  BY <1>CallFails, <1>typed, NoJobType
     DEF TriesInv, CallFails, Finish, EngineElse, Requesting
<1>InitializeFails. CASE InitializeFails
  BY <1>InitializeFails, <1>typed, NoJobType
     DEF TriesInv, InitializeFails, Finish, Restarted
<1>CallTimesOut. CASE CallTimesOut
  BY <1>CallTimesOut, <1>typed, NoJobType
     DEF TriesInv, CallTimesOut, Finish, Restarted, Requesting
<1>TurnStarted. CASE TurnStarted
  BY <1>TurnStarted, <1>typed, TurnStartedJob
     DEF TriesInv, TurnStarted, EngineElse
<1>TurnReports. CASE TurnReports
  BY <1>TurnReports, <1>typed, TurnReportsJob
     DEF TriesInv, TurnReports, NextLine, EngineElse
<1>TurnSucceeds. CASE TurnSucceeds
  BY <1>TurnSucceeds, <1>typed, NoJobType
     DEF TriesInv, TurnSucceeds, Finish, NextLine, EngineElse
<1>TurnFails. CASE TurnFails
  BY <1>TurnFails, <1>typed, NoJobType
     DEF TriesInv, TurnFails, Finish, NextLine, EngineElse
<1>RetryInNewThread. CASE RetryInNewThread
  BY <1>RetryInNewThread, <1>typed, RetryJob
     DEF TriesInv, RetryInNewThread, Call, NextLine, EngineElse
<1>TurnBreaks. CASE TurnBreaks
  BY <1>TurnBreaks, <1>typed, NoJobType
     DEF TriesInv, TurnBreaks, Finish, EngineElse
<1>TurnIdles. CASE TurnIdles
  BY <1>TurnIdles, <1>typed, NoJobType
     DEF TriesInv, TurnIdles, Finish, Restarted
<1>TurnCancelled. CASE TurnCancelled
  BY <1>TurnCancelled, <1>typed, NoJobType
     DEF TriesInv, TurnCancelled, Finish, Restarted
<1>CallerLeaves. CASE CallerLeaves
  BY <1>CallerLeaves, <1>typed, LeavesEffect DEF TriesInv
<1>EngineAnswers. ASSUME NEW tag \in inbox, NEW result \in {"ok", "error", "poisoned"},
                         EngineAnswers(tag, result)
                  PROVE  TriesInv'
  BY <1>EngineAnswers, <1>typed
     DEF TriesInv, EngineAnswers, EngineStep
<1>EngineBegins. ASSUME NEW tag \in inbox, EngineBegins(tag) PROVE TriesInv'
  BY <1>EngineBegins, <1>typed
     DEF TriesInv, EngineBegins, EngineStep
<1>EngineNotes. ASSUME NEW t \in engineTurns, NEW info \in {"tool", "speech"}, EngineNotes(t,
info)
                PROVE  TriesInv'
  BY <1>EngineNotes, <1>typed
     DEF TriesInv, EngineNotes, EngineStep
<1>EngineCompletes. ASSUME NEW t \in engineTurns, NEW info \in {"ok", "failed", "poisoned"},
                           EngineCompletes(t, info)
                    PROVE  TriesInv'
  BY <1>EngineCompletes, <1>typed
     DEF TriesInv, EngineCompletes, EngineStep
<1>EngineAsks. ASSUME NEW tag \in inbox \union engineTurns, EngineAsks(tag) PROVE TriesInv'
  BY <1>EngineAsks, <1>typed DEF TriesInv, EngineAsks, EngineStep
<1>EngineReads. CASE EngineReads
  BY <1>EngineReads, <1>typed DEF TriesInv, EngineReads
<1>EngineGarbles. CASE EngineGarbles
  BY <1>EngineGarbles, <1>typed
     DEF TriesInv, EngineGarbles, EngineStep
<1>EngineExits. CASE EngineExits
  BY <1>EngineExits, <1>typed
     DEF TriesInv, EngineExits
<1> QED
  BY <1>Unchanged, <1>Arrive, <1>Cancel, <1>EditConfig, <1>Acquire, <1>KeepEngine,
     <1>StopEngine, <1>StartEngine, <1>StartFails, <1>UseLoadedThread, <1>AskForThread,
     <1>SetAside, <1>Initialized, <1>ThreadReady, <1>ResumeRefused, <1>CallFails,
     <1>InitializeFails, <1>CallTimesOut, <1>TurnStarted, <1>TurnReports,
     <1>TurnSucceeds, <1>TurnFails, <1>RetryInNewThread, <1>TurnBreaks, <1>TurnIdles,
     <1>TurnCancelled, <1>CallerLeaves, <1>EngineAnswers, <1>EngineBegins,
     <1>EngineNotes, <1>EngineCompletes, <1>EngineAsks, <1>EngineReads,
     <1>EngineGarbles, <1>EngineExits
     DEF Next, Callers, Holder, Engine

(* A call once made stays made.                                            *)

LEMMA MadeStays ==
  ASSUME Typed, TriesInv, [Next]_vars, NEW call \in Tags, Made(call)
  PROVE  Made(call)'
<1>typed. Typed /\ TypeOK /\ TriesInv
  BY DEF Typed
<1>types. /\ (pc = "free" <=> cur = None) /\ cur \in Requests \union {None}
          /\ status \in [Requests -> Statuses] /\ call.req \in Requests /\ call.try \in {1, 2}
          /\ call.method \in {"initialize", "resume", "start", "turn"}
          /\ job.try \in {1, 2}
          /\ None \notin Requests
  BY RuntimeAssumption, JobType DEF Typed, TypeOK, Tags
<1>made. Made(call)
  OBVIOUS
<1>Unchanged. CASE UNCHANGED vars
  BY <1>Unchanged, <1>typed, <1>types, <1>made
     DEF Made, TriesInv, Finished, vars, requestVars, requestVars
<1>Arrive. ASSUME NEW r \in Requests, NEW p \in (Requests \union Legacy \union {None}) \ {r},
                 NEW q \in Asks, Arrive(r, p, q)
           PROVE  Made(call)'
  BY <1>Arrive, <1>typed, <1>types, <1>made
     DEF Made, TriesInv, Finished, Arrive, requestVars
<1>Cancel. ASSUME NEW r \in Requests, Cancel(r) PROVE Made(call)'
  BY <1>Cancel, <1>typed, <1>types, <1>made
     DEF Made, TriesInv, Finished, Cancel, requestVars
<1>EditConfig. ASSUME NEW c \in Configs, EditConfig(c) PROVE Made(call)'
  BY <1>EditConfig, <1>typed, <1>types, <1>made, EditConfigJob
     DEF Made, TriesInv, Finished, EditConfig, requestVars
<1>Acquire. ASSUME NEW r \in Requests, Acquire(r) PROVE Made(call)'
  BY <1>Acquire, <1>typed, <1>types, <1>made, AcquireEffect, AcquireJob
     DEF Made, TriesInv, Finished, requestVars
<1>KeepEngine. CASE KeepEngine
  BY <1>KeepEngine, <1>typed, <1>types, <1>made
     DEF Made, TriesInv, Finished, KeepEngine, requestVars
<1>StopEngine. CASE StopEngine
  BY <1>StopEngine, <1>typed, <1>types, <1>made, StopEngineJob
     DEF Made, TriesInv, Finished, StopEngine, requestVars, Restarted
<1>StartEngine. CASE StartEngine
  BY <1>StartEngine, <1>typed, <1>types, <1>made
     DEF Made, TriesInv, Finished, StartEngine, requestVars
<1>StartFails. CASE StartFails
  BY <1>StartFails, <1>typed, <1>types, <1>made, NoJobType
     DEF Made, TriesInv, Finished, StartFails, requestVars, Finish
<1>UseLoadedThread. CASE UseLoadedThread
  BY <1>UseLoadedThread, <1>typed, <1>types, <1>made, UseLoadedThreadJob
     DEF Made, TriesInv, Finished, UseLoadedThread, requestVars, Call
<1>AskForThread. CASE AskForThread
  BY <1>AskForThread, <1>typed, <1>types, <1>made, AskForThreadJob
     DEF Made, TriesInv, Finished, AskForThread, requestVars, Call
<1>SetAside. CASE SetAside
  BY <1>SetAside, <1>typed, <1>types, <1>made
     DEF Made, TriesInv, Finished, SetAside, requestVars, EngineElse, Requesting
<1>Initialized. CASE Initialized
  BY <1>Initialized, <1>typed, <1>types, <1>made
     DEF Made, TriesInv, Finished, Initialized, requestVars, EngineElse
<1>ThreadReady. CASE ThreadReady
  BY <1>ThreadReady, <1>typed, <1>types, <1>made, ThreadReadyJob
     DEF Made, TriesInv, Finished, ThreadReady, requestVars, Call, EngineElse
<1>ResumeRefused. CASE ResumeRefused
  BY <1>ResumeRefused, <1>typed, <1>types, <1>made
     DEF Made, TriesInv, Finished, ResumeRefused, requestVars, Call, EngineElse
<1>CallFails. CASE CallFails
  BY <1>CallFails, <1>typed, <1>types, <1>made, NoJobType
     DEF Made, TriesInv, Finished, CallFails, requestVars, Finish, EngineElse, Requesting
<1>InitializeFails. CASE InitializeFails
  BY <1>InitializeFails, <1>typed, <1>types, <1>made, NoJobType
     DEF Made, TriesInv, Finished, InitializeFails, requestVars, Finish, Restarted
<1>CallTimesOut. CASE CallTimesOut
  BY <1>CallTimesOut, <1>typed, <1>types, <1>made, NoJobType
     DEF Made, TriesInv, Finished, CallTimesOut, requestVars, Finish, Restarted, Requesting
<1>TurnStarted. CASE TurnStarted
  BY <1>TurnStarted, <1>typed, <1>types, <1>made, TurnStartedJob
     DEF Made, TriesInv, Finished, TurnStarted, requestVars, EngineElse
<1>TurnReports. CASE TurnReports
  BY <1>TurnReports, <1>typed, <1>types, <1>made, TurnReportsJob
     DEF Made, TriesInv, Finished, TurnReports, requestVars, NextLine, EngineElse
<1>TurnSucceeds. CASE TurnSucceeds
  BY <1>TurnSucceeds, <1>typed, <1>types, <1>made, NoJobType
     DEF Made, TriesInv, Finished, TurnSucceeds, requestVars, Finish, NextLine, EngineElse
<1>TurnFails. CASE TurnFails
  BY <1>TurnFails, <1>typed, <1>types, <1>made, NoJobType
     DEF Made, TriesInv, Finished, TurnFails, requestVars, Finish, NextLine, EngineElse
<1>RetryInNewThread. CASE RetryInNewThread
  BY <1>RetryInNewThread, <1>typed, <1>types, <1>made, RetryJob
     DEF Made, TriesInv, Finished, RetryInNewThread, requestVars, Call, NextLine, EngineElse,
         MayRetry
<1>TurnBreaks. CASE TurnBreaks
  BY <1>TurnBreaks, <1>typed, <1>types, <1>made, NoJobType
     DEF Made, TriesInv, Finished, TurnBreaks, requestVars, Finish, EngineElse
<1>TurnIdles. CASE TurnIdles
  BY <1>TurnIdles, <1>typed, <1>types, <1>made, NoJobType
     DEF Made, TriesInv, Finished, TurnIdles, requestVars, Finish, Restarted
<1>TurnCancelled. CASE TurnCancelled
  BY <1>TurnCancelled, <1>typed, <1>types, <1>made, NoJobType
     DEF Made, TriesInv, Finished, TurnCancelled, requestVars, Finish, Restarted
<1>CallerLeaves. CASE CallerLeaves
  BY <1>CallerLeaves, <1>typed, <1>types, <1>made, LeavesEffect
     DEF Made, TriesInv, Finished
<1>EngineAnswers. ASSUME NEW tag \in inbox, NEW result \in {"ok", "error", "poisoned"},
                         EngineAnswers(tag, result)
                  PROVE  Made(call)'
  BY <1>EngineAnswers, <1>typed, <1>types, <1>made
     DEF Made, TriesInv, Finished, EngineAnswers, requestVars, EngineStep
<1>EngineBegins. ASSUME NEW tag \in inbox, EngineBegins(tag) PROVE Made(call)'
  BY <1>EngineBegins, <1>typed, <1>types, <1>made
     DEF Made, TriesInv, Finished, EngineBegins, requestVars, EngineStep
<1>EngineNotes. ASSUME NEW t \in engineTurns, NEW info \in {"tool", "speech"}, EngineNotes(t,
info)
                PROVE  Made(call)'
  BY <1>EngineNotes, <1>typed, <1>types, <1>made
     DEF Made, TriesInv, Finished, EngineNotes, requestVars, EngineStep
<1>EngineCompletes. ASSUME NEW t \in engineTurns, NEW info \in {"ok", "failed", "poisoned"},
                           EngineCompletes(t, info)
                    PROVE  Made(call)'
  BY <1>EngineCompletes, <1>typed, <1>types, <1>made
     DEF Made, TriesInv, Finished, EngineCompletes, requestVars, EngineStep
<1>EngineAsks. ASSUME NEW tag \in inbox \union engineTurns, EngineAsks(tag) PROVE Made(call)'
  BY <1>EngineAsks, <1>typed, <1>types, <1>made
     DEF Made, TriesInv, Finished, EngineAsks, requestVars, EngineStep
<1>EngineReads. CASE EngineReads
  BY <1>EngineReads, <1>typed, <1>types, <1>made
     DEF Made, TriesInv, Finished, EngineReads, requestVars
<1>EngineGarbles. CASE EngineGarbles
  BY <1>EngineGarbles, <1>typed, <1>types, <1>made
     DEF Made, TriesInv, Finished, EngineGarbles, requestVars, EngineStep
<1>EngineExits. CASE EngineExits
  BY <1>EngineExits, <1>typed, <1>types, <1>made
     DEF Made, TriesInv, Finished, EngineExits, requestVars
<1> QED
  BY <1>Unchanged, <1>Arrive, <1>Cancel, <1>EditConfig, <1>Acquire, <1>KeepEngine,
     <1>StopEngine, <1>StartEngine, <1>StartFails, <1>UseLoadedThread, <1>AskForThread,
     <1>SetAside, <1>Initialized, <1>ThreadReady, <1>ResumeRefused, <1>CallFails,
     <1>InitializeFails, <1>CallTimesOut, <1>TurnStarted, <1>TurnReports,
     <1>TurnSucceeds, <1>TurnFails, <1>RetryInNewThread, <1>TurnBreaks, <1>TurnIdles,
     <1>TurnCancelled, <1>CallerLeaves, <1>EngineAnswers, <1>EngineBegins,
     <1>EngineNotes, <1>EngineCompletes, <1>EngineAsks, <1>EngineReads,
     <1>EngineGarbles, <1>EngineExits
     DEF Next, Callers, Holder, Engine

(* A call that enters the engine's inbox is made by this very step, by the *)
(* holder of the lock, for the place it goes to.                           *)
NewCallsMade ==
  \A call \in inbox' \ inbox :
    /\ cur \in Requests /\ cur' = cur /\ call.req = cur /\ call \in Tags
    /\ ~Made(call) /\ Made(call)'
    /\ call.method = "turn" => pc' = "turning" /\ call.try = job'.try
    /\ call.method = "resume" => pc' = "resuming"
    /\ call.method \in {"start", "initialize"} => pc' \in {"starting", "initializing"}

(* Every step makes only the calls its place in the turn calls for.        *)

LEMMA NewCalls ==
  ASSUME Typed, TriesInv, [Next]_vars
  PROVE  NewCallsMade
<1>typed. Typed /\ TypeOK /\ TriesInv
  BY DEF Typed
<1>types. /\ (pc = "free" <=> cur = None) /\ cur \in Requests \union {None}
          /\ status \in [Requests -> Statuses] /\ job.try \in {1, 2}
          /\ cur # None => status[cur] = "active"
  BY JobType DEF Typed, TypeOK, Conversation
<1>Unchanged. CASE UNCHANGED vars
  BY <1>Unchanged, <1>typed
     DEF NewCallsMade, vars, engineVars
<1>Arrive. ASSUME NEW r \in Requests, NEW p \in (Requests \union Legacy \union {None}) \ {r},
                 NEW q \in Asks, Arrive(r, p, q)
           PROVE  NewCallsMade
  BY <1>Arrive, <1>typed
     DEF NewCallsMade, Arrive, engineVars
<1>Cancel. ASSUME NEW r \in Requests, Cancel(r) PROVE NewCallsMade
  BY <1>Cancel, <1>typed
     DEF NewCallsMade, Cancel, engineVars
<1>EditConfig. ASSUME NEW c \in Configs, EditConfig(c) PROVE NewCallsMade
  BY <1>EditConfig, <1>typed
     DEF NewCallsMade, EditConfig, engineVars
<1>Acquire. ASSUME NEW r \in Requests, Acquire(r) PROVE NewCallsMade
  BY <1>Acquire, <1>typed, AcquireEffect
     DEF NewCallsMade, engineVars
<1>KeepEngine. CASE KeepEngine
  BY <1>KeepEngine, <1>typed
     DEF NewCallsMade, KeepEngine, engineVars
<1>StopEngine. CASE StopEngine
  BY <1>StopEngine, <1>typed
     DEF NewCallsMade, StopEngine, engineVars, Restarted
<1>StartEngine. CASE StartEngine
  <2> DEFINE call == [method |-> "initialize", req |-> cur, try |-> job.try]
  <2>1. /\ pc \in {"preparing"} /\ pc' = "initializing" /\ UNCHANGED <<cur, status>>
        /\ inbox' \subseteq inbox \union {call}
    BY <1>StartEngine DEF StartEngine, Call, requestVars
  <2>2. job'.try = job.try
    BY <1>StartEngine, <1>typed DEF StartEngine
  <2>3. /\ call.method = "initialize" /\ call.req = cur /\ call.try = job.try /\ call \in Tags
    BY <1>types, <1>typed, <2>1, TagType
  <2> HIDE DEF call
  <2>4. QED
    BY <1>types, <1>typed, <2>1, <2>2, <2>3 DEF NewCallsMade, Made, TriesInv, Finished
<1>StartFails. CASE StartFails
  BY <1>StartFails, <1>typed
     DEF NewCallsMade, StartFails, engineVars, Finish
<1>UseLoadedThread. CASE UseLoadedThread
  <2> DEFINE call == [method |-> "turn", req |-> cur, try |-> job.try]
  <2>1. /\ pc \in {"ready"} /\ pc' = "turning" /\ UNCHANGED <<cur, status>>
        /\ inbox' \subseteq inbox \union {call}
    BY <1>UseLoadedThread DEF UseLoadedThread, Call, requestVars
  <2>2. job'.try = job.try
    BY <1>UseLoadedThread, <1>typed, UseLoadedThreadJob DEF UseLoadedThread
  <2>3. /\ call.method = "turn" /\ call.req = cur /\ call.try = job.try /\ call \in Tags
    BY <1>types, <1>typed, <2>1, TagType
  <2> HIDE DEF call
  <2>4. QED
    BY <1>types, <1>typed, <2>1, <2>2, <2>3 DEF NewCallsMade, Made, TriesInv, Finished
<1>AskForThread. CASE AskForThread
  <2>0. CASE job.resumes # None
    <3> DEFINE call == [method |-> "resume", req |-> cur, try |-> job.try]
    <3>1. /\ pc \in {"ready"} /\ pc' = "resuming" /\ UNCHANGED <<cur, status>>
          /\ inbox' \subseteq inbox \union {call}
      BY <1>AskForThread, <2>0 DEF AskForThread, Call, requestVars
    <3>2. job'.try = job.try
      BY <1>AskForThread, <1>typed, AskForThreadJob DEF AskForThread
    <3>3. /\ call.method = "resume" /\ call.req = cur /\ call.try = job.try /\ call \in Tags
      BY <1>types, <1>typed, <3>1, TagType
    <3> HIDE DEF call
    <3>4. QED
      BY <1>types, <1>typed, <3>1, <3>2, <3>3 DEF NewCallsMade, Made, TriesInv, Finished
  <2>5. CASE job.resumes = None
    <3> DEFINE call == [method |-> "start", req |-> cur, try |-> job.try]
    <3>1. /\ pc \in {"ready"} /\ pc' = "starting" /\ UNCHANGED <<cur, status>>
          /\ inbox' \subseteq inbox \union {call}
      BY <1>AskForThread, <2>5 DEF AskForThread, Call, requestVars
    <3>2. job'.try = job.try
      BY <1>AskForThread, <1>typed, AskForThreadJob DEF AskForThread
    <3>3. /\ call.method = "start" /\ call.req = cur /\ call.try = job.try /\ call \in Tags
      BY <1>types, <1>typed, <3>1, TagType
    <3> HIDE DEF call
    <3>4. QED
      BY <1>types, <1>typed, <3>1, <3>2, <3>3 DEF NewCallsMade, Made, TriesInv, Finished
  <2>6. QED
    BY <2>0, <2>5
<1>SetAside. CASE SetAside
  BY <1>SetAside, <1>typed
     DEF NewCallsMade, SetAside, engineVars, EngineElse
<1>Initialized. CASE Initialized
  BY <1>Initialized, <1>typed
     DEF NewCallsMade, Initialized, engineVars, EngineElse
<1>ThreadReady. CASE ThreadReady
  <2> DEFINE call == [method |-> "turn", req |-> cur, try |-> job.try]
  <2>1. /\ pc \in {"resuming", "starting"} /\ pc' = "turning" /\ UNCHANGED <<cur, status>>
        /\ inbox' \subseteq inbox \union {call}
    BY <1>ThreadReady DEF ThreadReady, Call, requestVars
  <2>2. job'.try = job.try
    BY <1>ThreadReady, <1>typed, ThreadReadyJob DEF ThreadReady
  <2>3. /\ call.method = "turn" /\ call.req = cur /\ call.try = job.try /\ call \in Tags
    BY <1>types, <1>typed, <2>1, TagType
  <2> HIDE DEF call
  <2>4. QED
    BY <1>types, <1>typed, <2>1, <2>2, <2>3 DEF NewCallsMade, Made, TriesInv, Finished
<1>ResumeRefused. CASE ResumeRefused
  <2> DEFINE call == [method |-> "start", req |-> cur, try |-> job.try]
  <2>1. /\ pc \in {"resuming"} /\ pc' = "starting" /\ UNCHANGED <<cur, status>>
        /\ inbox' \subseteq inbox \union {call}
    BY <1>ResumeRefused DEF ResumeRefused, Call, requestVars
  <2>2. job'.try = job.try
    BY <1>ResumeRefused, <1>typed DEF ResumeRefused
  <2>3. /\ call.method = "start" /\ call.req = cur /\ call.try = job.try /\ call \in Tags
    BY <1>types, <1>typed, <2>1, TagType
  <2> HIDE DEF call
  <2>4. QED
    BY <1>types, <1>typed, <2>1, <2>2, <2>3 DEF NewCallsMade, Made, TriesInv, Finished
<1>CallFails. CASE CallFails
  BY <1>CallFails, <1>typed
     DEF NewCallsMade, CallFails, engineVars, Finish, EngineElse
<1>InitializeFails. CASE InitializeFails
  BY <1>InitializeFails, <1>typed
     DEF NewCallsMade, InitializeFails, engineVars, Finish, Restarted
<1>CallTimesOut. CASE CallTimesOut
  BY <1>CallTimesOut, <1>typed
     DEF NewCallsMade, CallTimesOut, engineVars, Finish, Restarted
<1>TurnStarted. CASE TurnStarted
  BY <1>TurnStarted, <1>typed
     DEF NewCallsMade, TurnStarted, engineVars, EngineElse
<1>TurnReports. CASE TurnReports
  BY <1>TurnReports, <1>typed
     DEF NewCallsMade, TurnReports, engineVars, NextLine, EngineElse
<1>TurnSucceeds. CASE TurnSucceeds
  BY <1>TurnSucceeds, <1>typed
     DEF NewCallsMade, TurnSucceeds, engineVars, Finish, NextLine, EngineElse
<1>TurnFails. CASE TurnFails
  BY <1>TurnFails, <1>typed
     DEF NewCallsMade, TurnFails, engineVars, Finish, NextLine, EngineElse
<1>RetryInNewThread. CASE RetryInNewThread
  <2> DEFINE call == [method |-> "start", req |-> cur, try |-> 2]
  <2>1. /\ pc \in {"driving", "turning"} /\ pc' = "starting" /\ UNCHANGED <<cur, status>>
        /\ inbox' \subseteq inbox \union {call}
    BY <1>RetryInNewThread DEF RetryInNewThread, Call, requestVars, NextLine, MayRetry
  <2>2. job.try = 1 /\ job'.try = 2
    BY <1>RetryInNewThread, <1>typed, RetryJob DEF RetryInNewThread, MayRetry
  <2>3. /\ call.method = "start" /\ call.req = cur /\ call.try = 2 /\ call \in Tags
    BY <1>types, <1>typed, <2>1, TagType
  <2> HIDE DEF call
  <2>4. QED
    BY <1>types, <1>typed, <2>1, <2>2, <2>3 DEF NewCallsMade, Made, TriesInv, Finished
<1>TurnBreaks. CASE TurnBreaks
  BY <1>TurnBreaks, <1>typed
     DEF NewCallsMade, TurnBreaks, engineVars, Finish, EngineElse
<1>TurnIdles. CASE TurnIdles
  BY <1>TurnIdles, <1>typed
     DEF NewCallsMade, TurnIdles, engineVars, Finish, Restarted
<1>TurnCancelled. CASE TurnCancelled
  BY <1>TurnCancelled, <1>typed
     DEF NewCallsMade, TurnCancelled, engineVars, Finish, Restarted
<1>CallerLeaves. CASE CallerLeaves
  BY <1>CallerLeaves, <1>typed, LeavesEffect DEF NewCallsMade
<1>EngineAnswers. ASSUME NEW tag \in inbox, NEW result \in {"ok", "error", "poisoned"},
                         EngineAnswers(tag, result)
                  PROVE  NewCallsMade
  BY <1>EngineAnswers, <1>typed
     DEF NewCallsMade, EngineAnswers, engineVars, EngineStep
<1>EngineBegins. ASSUME NEW tag \in inbox, EngineBegins(tag) PROVE NewCallsMade
  BY <1>EngineBegins, <1>typed
     DEF NewCallsMade, EngineBegins, engineVars, EngineStep
<1>EngineNotes. ASSUME NEW t \in engineTurns, NEW info \in {"tool", "speech"}, EngineNotes(t,
info)
                PROVE  NewCallsMade
  BY <1>EngineNotes, <1>typed
     DEF NewCallsMade, EngineNotes, engineVars, EngineStep
<1>EngineCompletes. ASSUME NEW t \in engineTurns, NEW info \in {"ok", "failed", "poisoned"},
                           EngineCompletes(t, info)
                    PROVE  NewCallsMade
  BY <1>EngineCompletes, <1>typed
     DEF NewCallsMade, EngineCompletes, engineVars, EngineStep
<1>EngineAsks. ASSUME NEW tag \in inbox \union engineTurns, EngineAsks(tag) PROVE NewCallsMade
  BY <1>EngineAsks, <1>typed DEF NewCallsMade, EngineAsks
<1>EngineReads. CASE EngineReads
  BY <1>EngineReads, <1>typed DEF NewCallsMade, EngineReads
<1>EngineGarbles. CASE EngineGarbles
  BY <1>EngineGarbles, <1>typed
     DEF NewCallsMade, EngineGarbles, engineVars, EngineStep
<1>EngineExits. CASE EngineExits
  BY <1>EngineExits, <1>typed
     DEF NewCallsMade, EngineExits, engineVars
<1> QED
  BY <1>Unchanged, <1>Arrive, <1>Cancel, <1>EditConfig, <1>Acquire, <1>KeepEngine,
     <1>StopEngine, <1>StartEngine, <1>StartFails, <1>UseLoadedThread, <1>AskForThread,
     <1>SetAside, <1>Initialized, <1>ThreadReady, <1>ResumeRefused, <1>CallFails,
     <1>InitializeFails, <1>CallTimesOut, <1>TurnStarted, <1>TurnReports,
     <1>TurnSucceeds, <1>TurnFails, <1>RetryInNewThread, <1>TurnBreaks, <1>TurnIdles,
     <1>TurnCancelled, <1>CallerLeaves, <1>EngineAnswers, <1>EngineBegins,
     <1>EngineNotes, <1>EngineCompletes, <1>EngineAsks, <1>EngineReads,
     <1>EngineGarbles, <1>EngineExits
     DEF Next, Callers, Holder, Engine

(* Whatever the engine holds or has written answers calls that were made.  *)
MadeInv ==
  /\ \A t \in inbox \union engineTurns : Made(t)
  /\ \A m \in In(pipe) : m.kind # "garbage" => Made(m.tag)
  /\ \A m \in In(backlog) : m.kind \in {"note", "completed"} /\ Made(m.tag)

(* What a step does to the queues.                                         *)

LEMMA QueueFacts ==
  ASSUME Typed
  PROVE  /\ In(<<>>) = {}
         /\ In(pipe) \subseteq Message /\ In(backlog) \subseteq Message
         /\ \A m \in In(pipe) \union In(backlog) :
              /\ m.kind \in {"reply", "note", "completed", "request", "garbage"}
              /\ m.kind # "garbage" => m.tag \in Tags
              /\ m.kind \in {"note", "completed"} => m.tag \in Turns
         /\ pipe # <<>> =>
              /\ Head(pipe) \in In(pipe) /\ In(Tail(pipe)) \subseteq In(pipe)
              /\ In(Append(backlog, Head(pipe))) = In(backlog) \union {Head(pipe)}
         /\ \A m \in Message : In(Append(pipe, m)) = In(pipe) \union {m}
<1>1. pipe \in Seq(Message) /\ backlog \in Seq(Message)
  BY DEF Typed, TypeOK
<1>2. In(pipe) \subseteq Message /\ In(backlog) \subseteq Message
  BY <1>1, InType
<1>3. \A m \in In(pipe) \union In(backlog) :
        /\ m.kind \in {"reply", "note", "completed", "request", "garbage"}
        /\ m.kind # "garbage" => m.tag \in Tags
        /\ m.kind \in {"note", "completed"} => m.tag \in Turns
  BY <1>2, MessageFields
<1>4. pipe # <<>> =>
        /\ Head(pipe) \in In(pipe) /\ In(Tail(pipe)) \subseteq In(pipe)
        /\ In(Append(backlog, Head(pipe))) = In(backlog) \union {Head(pipe)}
  BY <1>1, InHead, InAppend
<1>5. QED
  BY <1>1, <1>2, <1>3, <1>4, InEmpty, InAppend

(* Fields of the messages the engine sends.                                *)
LEMMA SentFields ==
  /\ \A t \in Tags, i \in {"ok", "error", "poisoned"} :
       LET m == [kind |-> "reply", tag |-> t, info |-> i]
       IN m \in Message /\ m.kind = "reply" /\ m.tag = t /\ m.info = i
  /\ \A t \in Turns, i \in {"tool", "speech"} :
       LET m == [kind |-> "note", tag |-> t, info |-> i]
       IN m \in Message /\ m.kind = "note" /\ m.tag = t /\ m.info = i
  /\ \A t \in Turns, i \in {"ok", "failed", "poisoned"} :
       LET m == [kind |-> "completed", tag |-> t, info |-> i]
       IN m \in Message /\ m.kind = "completed" /\ m.tag = t /\ m.info = i
  /\ \A t \in Tags :
       LET m == [kind |-> "request", tag |-> t]
       IN m \in Message /\ m.kind = "request" /\ m.tag = t
  /\ [kind |-> "garbage"] \in Message /\ [kind |-> "garbage"].kind = "garbage"
BY MessageMade

(* Every step keeps the engine to calls that were made.                    *)
LEMMA MadeStep ==
  ASSUME Typed, TriesInv, MadeInv, EngineInv, [Next]_vars
  PROVE  MadeInv'
<1>typed. Typed /\ TypeOK /\ TriesInv /\ MadeInv /\ Conversation
  BY DEF Typed
<1>types. /\ (pc = "free" <=> cur = None) /\ cur \in Requests \union {None}
          /\ inbox \subseteq Tags /\ engineTurns \subseteq Tags /\ job.try \in {1, 2}
          /\ Turns \subseteq Tags
  BY JobType DEF Typed, TypeOK, Turns
<1>queues. /\ In(<<>>) = {}
           /\ \A m \in In(pipe) \union In(backlog) : m.kind # "garbage" => m.tag \in Tags
           /\ pipe # <<>> =>
                /\ Head(pipe) \in In(pipe) /\ In(Tail(pipe)) \subseteq In(pipe)
                /\ In(Append(backlog, Head(pipe))) = In(backlog) \union {Head(pipe)}
  BY <1>typed, QueueFacts
<1>made. \A t \in Tags : Made(t) => Made(t)'
  BY <1>typed, MadeStays
<1>calls. \A t \in inbox' : t \in inbox \/ Made(t)'
  BY <1>typed, NewCalls DEF NewCallsMade
<1>queued. (\A m \in In(backlog) : m.kind # "garbage")
  BY <1>typed DEF MadeInv
<1>Unchanged. CASE UNCHANGED vars
  BY <1>Unchanged, <1>typed, <1>types, <1>queues, <1>made
     DEF MadeInv, vars, clientVars, engineVars
<1>Arrive. ASSUME NEW r \in Requests, NEW p \in (Requests \union Legacy \union {None}) \ {r},
                 NEW q \in Asks, Arrive(r, p, q)
           PROVE  MadeInv'
  BY <1>Arrive, <1>typed, <1>types, <1>queues, <1>made
     DEF MadeInv, Arrive, clientVars, engineVars
<1>Cancel. ASSUME NEW r \in Requests, Cancel(r) PROVE MadeInv'
  BY <1>Cancel, <1>typed, <1>types, <1>queues, <1>made
     DEF MadeInv, Cancel, clientVars, engineVars
<1>EditConfig. ASSUME NEW c \in Configs, EditConfig(c) PROVE MadeInv'
  BY <1>EditConfig, <1>typed, <1>types, <1>queues, <1>made
     DEF MadeInv, EditConfig, clientVars, engineVars
<1>Acquire. ASSUME NEW r \in Requests, Acquire(r) PROVE MadeInv'
  BY <1>Acquire, <1>typed, <1>types, <1>queues, <1>made, AcquireEffect
     DEF MadeInv, clientVars, engineVars
<1>KeepEngine. CASE KeepEngine
  BY <1>KeepEngine, <1>typed, <1>types, <1>queues, <1>made
     DEF MadeInv, KeepEngine, clientVars, engineVars
<1>StopEngine. CASE StopEngine
  BY <1>StopEngine, <1>typed, <1>types, <1>queues, <1>made
     DEF MadeInv, StopEngine, clientVars, engineVars, Restarted
<1>StartEngine. CASE StartEngine
  BY <1>StartEngine, <1>typed, <1>types, <1>queues, <1>made, <1>queued, <1>calls
     DEF MadeInv, StartEngine, clientVars, engineVars
<1>StartFails. CASE StartFails
  BY <1>StartFails, <1>typed, <1>types, <1>queues, <1>made
     DEF MadeInv, StartFails, clientVars, engineVars, Finish
<1>UseLoadedThread. CASE UseLoadedThread
  BY <1>UseLoadedThread, <1>typed, <1>types, <1>queues, <1>made, <1>queued, <1>calls
     DEF MadeInv, UseLoadedThread, clientVars, engineVars, Call
<1>AskForThread. CASE AskForThread
  BY <1>AskForThread, <1>typed, <1>types, <1>queues, <1>made, <1>queued, <1>calls
     DEF MadeInv, AskForThread, clientVars, engineVars, Call
<1>SetAside. CASE SetAside
  BY <1>SetAside, <1>typed, <1>types, <1>queues, <1>made, <1>queued
     DEF MadeInv, SetAside, clientVars, engineVars, Reading, EngineElse
<1>Initialized. CASE Initialized
  BY <1>Initialized, <1>typed, <1>types, <1>queues, <1>made
     DEF MadeInv, Initialized, clientVars, engineVars, Answered, Reading, EngineElse
<1>ThreadReady. CASE ThreadReady
  BY <1>ThreadReady, <1>typed, <1>types, <1>queues, <1>made, <1>queued, <1>calls
     DEF MadeInv, ThreadReady, clientVars, engineVars, Call, Answered, Reading, EngineElse
<1>ResumeRefused. CASE ResumeRefused
  BY <1>ResumeRefused, <1>typed, <1>types, <1>queues, <1>made, <1>queued, <1>calls
     DEF MadeInv, ResumeRefused, clientVars, engineVars, Call, Answered, Unreadable, Reading,
         EngineElse
<1>CallFails. CASE CallFails
  BY <1>CallFails, <1>typed, <1>types, <1>queues, <1>made
     DEF MadeInv, CallFails, clientVars, engineVars, Finish, Answered, Unreadable, EndOfFile,
         Reading, EngineElse
<1>InitializeFails. CASE InitializeFails
  BY <1>InitializeFails, <1>typed, <1>types, <1>queues, <1>made
     DEF MadeInv, InitializeFails, clientVars, engineVars, Finish, Restarted
<1>CallTimesOut. CASE CallTimesOut
  BY <1>CallTimesOut, <1>typed, <1>types, <1>queues, <1>made
     DEF MadeInv, CallTimesOut, clientVars, engineVars, Finish, Restarted
<1>TurnStarted. CASE TurnStarted
  BY <1>TurnStarted, <1>typed, <1>types, <1>queues, <1>made
     DEF MadeInv, TurnStarted, clientVars, engineVars, Answered, Reading, EngineElse
<1>TurnReports. CASE TurnReports
  BY <1>TurnReports, <1>typed, <1>types, <1>queues, <1>made
     DEF MadeInv, TurnReports, clientVars, engineVars, NextLine, Reading, EngineElse
<1>TurnSucceeds. CASE TurnSucceeds
  BY <1>TurnSucceeds, <1>typed, <1>types, <1>queues, <1>made
     DEF MadeInv, TurnSucceeds, clientVars, engineVars, Finish, NextLine, Reading, EngineElse
<1>TurnFails. CASE TurnFails
  BY <1>TurnFails, <1>typed, <1>types, <1>queues, <1>made
     DEF MadeInv, TurnFails, clientVars, engineVars, Finish, NextLine, Reading, EngineElse
<1>RetryInNewThread. CASE RetryInNewThread
  BY <1>RetryInNewThread, <1>typed, <1>types, <1>queues, <1>made, <1>queued, <1>calls
     DEF MadeInv, RetryInNewThread, clientVars, engineVars, Call, Answered, NextLine, Reading,
         EngineElse
<1>TurnBreaks. CASE TurnBreaks
  BY <1>TurnBreaks, <1>typed, <1>types, <1>queues, <1>made
     DEF MadeInv, TurnBreaks, clientVars, engineVars, Finish, Unreadable, EndOfFile, EngineElse
<1>TurnIdles. CASE TurnIdles
  BY <1>TurnIdles, <1>typed, <1>types, <1>queues, <1>made
     DEF MadeInv, TurnIdles, clientVars, engineVars, Finish, Restarted
<1>TurnCancelled. CASE TurnCancelled
  BY <1>TurnCancelled, <1>typed, <1>types, <1>queues, <1>made
     DEF MadeInv, TurnCancelled, clientVars, engineVars, Finish, Restarted
<1>CallerLeaves. CASE CallerLeaves
  BY <1>CallerLeaves, <1>typed, <1>types, <1>queues, <1>made, LeavesEffect, LeavesQueues
     DEF MadeInv
<1>EngineAnswers. ASSUME NEW tag \in inbox, NEW result \in {"ok", "error", "poisoned"},
                         EngineAnswers(tag, result)
                  PROVE  MadeInv'
  <2> DEFINE m == [kind |-> "reply", tag |-> tag, info |-> result]
  <2>1. pipe' = Append(pipe, m) /\ UNCHANGED backlog
        /\ engineTurns' \subseteq engineTurns \union {tag} /\ inbox' \subseteq inbox
    BY <1>EngineAnswers DEF EngineAnswers, Send, EngineStep, clientVars
  <2>2. m.kind = "reply" /\ m \in Message /\ m.tag = tag /\ tag \in inbox \union engineTurns
    BY <1>EngineAnswers, <1>typed, SentFields DEF Typed, TypeOK
  <2> HIDE DEF m
  <2>3. In(pipe') = In(pipe) \union {m}
    BY <1>typed, <2>1, <2>2, QueueFacts
  <2>4. QED
    BY <2>1, <2>2, <2>3, <1>typed, <1>types, <1>queues, <1>made DEF MadeInv
<1>EngineBegins. ASSUME NEW tag \in inbox, EngineBegins(tag) PROVE MadeInv'
  BY <1>EngineBegins, <1>typed, <1>types, <1>queues, <1>made
     DEF MadeInv, EngineBegins, clientVars, engineVars, EngineStep
<1>EngineNotes. ASSUME NEW t \in engineTurns, NEW info \in {"tool", "speech"}, EngineNotes(t,
info)
                PROVE  MadeInv'
  <2> DEFINE m == [kind |-> "note", tag |-> t, info |-> info]
  <2>1. pipe' = Append(pipe, m) /\ UNCHANGED backlog
        /\ UNCHANGED <<engineTurns, inbox>>
    BY <1>EngineNotes DEF EngineNotes, Send, EngineStep, clientVars
  <2>2. m.kind = "note" /\ m \in Message /\ m.tag = t /\ t \in inbox \union engineTurns
    BY <1>EngineNotes, <1>typed, SentFields DEF Typed, TypeOK
  <2> HIDE DEF m
  <2>3. In(pipe') = In(pipe) \union {m}
    BY <1>typed, <2>1, <2>2, QueueFacts
  <2>4. QED
    BY <2>1, <2>2, <2>3, <1>typed, <1>types, <1>queues, <1>made DEF MadeInv
<1>EngineCompletes. ASSUME NEW t \in engineTurns, NEW info \in {"ok", "failed", "poisoned"},
                           EngineCompletes(t, info)
                    PROVE  MadeInv'
  <2> DEFINE m == [kind |-> "completed", tag |-> t, info |-> info]
  <2>1. pipe' = Append(pipe, m) /\ UNCHANGED backlog
        /\ engineTurns' \subseteq engineTurns /\ UNCHANGED inbox
    BY <1>EngineCompletes DEF EngineCompletes, Send, EngineStep, clientVars
  <2>2. m.kind = "completed" /\ m \in Message /\ m.tag = t /\ t \in inbox \union engineTurns
    BY <1>EngineCompletes, <1>typed, SentFields DEF Typed, TypeOK
  <2> HIDE DEF m
  <2>3. In(pipe') = In(pipe) \union {m}
    BY <1>typed, <2>1, <2>2, QueueFacts
  <2>4. QED
    BY <2>1, <2>2, <2>3, <1>typed, <1>types, <1>queues, <1>made DEF MadeInv
<1>EngineAsks. ASSUME NEW tag \in inbox \union engineTurns, EngineAsks(tag) PROVE MadeInv'
  <2> DEFINE m == [kind |-> "request", tag |-> tag]
  <2>1. pipe' = Append(pipe, m) /\ UNCHANGED backlog
        /\ UNCHANGED <<engineTurns, inbox>>
    BY <1>EngineAsks DEF EngineAsks, Send, EngineStep, clientVars
  <2>2. m.kind = "request" /\ m \in Message /\ m.tag = tag /\ tag \in inbox \union engineTurns
    BY <1>EngineAsks, <1>types, <1>typed, SentFields DEF Typed, TypeOK
  <2> HIDE DEF m
  <2>3. In(pipe') = In(pipe) \union {m}
    BY <1>typed, <2>1, <2>2, QueueFacts
  <2>4. QED
    BY <2>1, <2>2, <2>3, <1>typed, <1>types, <1>queues, <1>made DEF MadeInv
<1>EngineReads. CASE EngineReads
  BY <1>EngineReads, <1>typed, <1>types, <1>queues, <1>made
     DEF MadeInv, EngineReads, clientVars
<1>EngineGarbles. CASE EngineGarbles
  <2> DEFINE m == [kind |-> "garbage"]
  <2>1. pipe' = Append(pipe, m) /\ UNCHANGED backlog
        /\ UNCHANGED <<engineTurns, inbox>>
    BY <1>EngineGarbles DEF EngineGarbles, Send, EngineStep, clientVars
  <2>2. m.kind = "garbage" /\ m \in Message
    BY <1>EngineGarbles, <1>typed, SentFields DEF Typed, TypeOK
  <2> HIDE DEF m
  <2>3. In(pipe') = In(pipe) \union {m}
    BY <1>typed, <2>1, <2>2, QueueFacts
  <2>4. QED
    BY <2>1, <2>2, <2>3, <1>typed, <1>types, <1>queues, <1>made DEF MadeInv
<1>EngineExits. CASE EngineExits
  BY <1>EngineExits, <1>typed, <1>types, <1>queues, <1>made
     DEF MadeInv, EngineExits, clientVars, engineVars
<1> QED
  BY <1>Unchanged, <1>Arrive, <1>Cancel, <1>EditConfig, <1>Acquire, <1>KeepEngine,
     <1>StopEngine, <1>StartEngine, <1>StartFails, <1>UseLoadedThread, <1>AskForThread,
     <1>SetAside, <1>Initialized, <1>ThreadReady, <1>ResumeRefused, <1>CallFails,
     <1>InitializeFails, <1>CallTimesOut, <1>TurnStarted, <1>TurnReports,
     <1>TurnSucceeds, <1>TurnFails, <1>RetryInNewThread, <1>TurnBreaks, <1>TurnIdles,
     <1>TurnCancelled, <1>CallerLeaves, <1>EngineAnswers, <1>EngineBegins,
     <1>EngineNotes, <1>EngineCompletes, <1>EngineAsks, <1>EngineReads,
     <1>EngineGarbles, <1>EngineExits
     DEF Next, Callers, Holder, Engine

(* The turn a request runs in its first or second attempt.                 *)
TurnOf(r, k) == [method |-> "turn", req |-> r, try |-> k]

(* A turn is given by its request and its attempt.                         *)

LEMMA TurnOfFields ==
  ASSUME NEW t \in Tags, t.method = "turn"
  PROVE  t = TurnOf(t.req, t.try) /\ t \in Turns
BY DEF Tags, Turns, TurnOf

(* The call whose answer the holder waits for.                             *)
LEMMA WaitingTag ==
  /\ pc = "turning" => Waiting = TurnOf(cur, job.try)
  /\ pc = "starting" => Waiting = [method |-> "start", req |-> cur, try |-> job.try]
  /\ pc = "resuming" => Waiting = [method |-> "resume", req |-> cur, try |-> job.try]
BY DEF Waiting, TurnOf

(* A call has one answer, and a turn of the holder is only outstanding     *)
(* while the holder waits for it.                                          *)
AnsweredInv ==
  /\ \A m \in In(pipe) : m.kind = "reply" => m.tag \notin inbox
  /\ \A t \in inbox : t.method = "turn" /\ t.req = cur => pc = "turning" /\ t.try = job.try

(* Every step keeps answers unique.                                        *)
LEMMA AnsweredStep ==
  ASSUME Typed, TriesInv, MadeInv, AnsweredInv, [Next]_vars
  PROVE  AnsweredInv'
<1>typed. Typed /\ TypeOK /\ Conversation
  BY DEF Typed
<1>types. /\ (pc = "free" <=> cur = None) /\ cur \in Requests \union {None}
          /\ inbox \subseteq Tags /\ engineTurns \subseteq Tags /\ job.try \in {1, 2}
          /\ Turns \subseteq Tags /\ None \notin Requests /\ \A t \in Tags : t.req \in Requests
  BY RuntimeAssumption, JobType DEF Typed, TypeOK, Turns, Tags
<1>queues. /\ In(<<>>) = {}
           /\ \A m \in In(pipe) \union In(backlog) : m.kind # "garbage" => m.tag \in Tags
           /\ pipe # <<>> => Head(pipe) \in In(pipe) /\ In(Tail(pipe)) \subseteq In(pipe)
  BY <1>typed, QueueFacts
<1>inv. TriesInv /\ MadeInv /\ AnsweredInv
  OBVIOUS
<1>calls. \A t \in inbox' : t \in inbox \/
            (cur' = cur /\ t.req = cur /\ ~Made(t)
               /\ (t.method = "turn" => pc' = "turning" /\ t.try = job'.try))
  BY <1>typed, <1>inv, NewCalls DEF NewCallsMade
<1>waiting. \A t \in inbox : t.method = "turn" /\ t.req = cur => t = TurnOf(cur, job.try)
  BY <1>types, <1>inv, TurnOfFields DEF AnsweredInv
<1>Unchanged. CASE UNCHANGED vars
  BY <1>Unchanged, <1>typed, <1>types, <1>queues, <1>inv
     DEF AnsweredInv, vars, clientVars, engineVars
<1>Arrive. ASSUME NEW r \in Requests, NEW p \in (Requests \union Legacy \union {None}) \ {r},
                 NEW q \in Asks, Arrive(r, p, q)
           PROVE  AnsweredInv'
  BY <1>Arrive, <1>typed, <1>types, <1>queues, <1>inv
     DEF AnsweredInv, Arrive, clientVars, engineVars
<1>Cancel. ASSUME NEW r \in Requests, Cancel(r) PROVE AnsweredInv'
  BY <1>Cancel, <1>typed, <1>types, <1>queues, <1>inv
     DEF AnsweredInv, Cancel, clientVars, engineVars
<1>EditConfig. ASSUME NEW c \in Configs, EditConfig(c) PROVE AnsweredInv'
  BY <1>EditConfig, <1>typed, <1>types, <1>queues, <1>inv, EditConfigJob
     DEF AnsweredInv, EditConfig, clientVars, engineVars
<1>Acquire. ASSUME NEW r \in Requests, Acquire(r) PROVE AnsweredInv'
  <2>1. UNCHANGED <<inbox, pipe>> /\ status[r] = "waiting" /\ cur = None
        /\ (cur' = r \/ cur' = None)
    BY <1>Acquire, <1>typed, AcquireEffect DEF engineVars
  <2>2. \A t \in inbox : t.req # cur'
    BY <2>1, <1>types, <1>inv DEF MadeInv, Made, Finished
  <2>3. QED
    BY <2>1, <2>2, <1>inv DEF AnsweredInv
<1>KeepEngine. CASE KeepEngine
  BY <1>KeepEngine, <1>typed, <1>types, <1>queues, <1>inv
     DEF AnsweredInv, KeepEngine, clientVars, engineVars
<1>StopEngine. CASE StopEngine
  BY <1>StopEngine, <1>typed, <1>types, <1>queues, <1>inv, StopEngineJob
     DEF AnsweredInv, StopEngine, clientVars, engineVars, Restarted
<1>StartEngine. CASE StartEngine
  BY <1>StartEngine, <1>typed, <1>types, <1>queues, <1>inv, <1>calls
     DEF AnsweredInv, StartEngine, clientVars, engineVars, MadeInv
<1>StartFails. CASE StartFails
  BY <1>StartFails, <1>typed, <1>types, <1>queues, <1>inv, NoJobType
     DEF AnsweredInv, StartFails, clientVars, engineVars, Finish
<1>UseLoadedThread. CASE UseLoadedThread
  BY <1>UseLoadedThread, <1>typed, <1>types, <1>queues, <1>inv, UseLoadedThreadJob, <1>calls
     DEF AnsweredInv, UseLoadedThread, clientVars, engineVars, Call, MadeInv
<1>AskForThread. CASE AskForThread
  BY <1>AskForThread, <1>typed, <1>types, <1>queues, <1>inv, AskForThreadJob, <1>calls
     DEF AnsweredInv, AskForThread, clientVars, engineVars, Call, MadeInv
<1>SetAside. CASE SetAside
  BY <1>SetAside, <1>typed, <1>types, <1>queues, <1>inv
     DEF AnsweredInv, SetAside, clientVars, engineVars, Reading, EngineElse
<1>Initialized. CASE Initialized
  BY <1>Initialized, <1>typed, <1>types, <1>queues, <1>inv
     DEF AnsweredInv, Initialized, clientVars, engineVars, Answered, Reading, EngineElse
<1>ThreadReady. CASE ThreadReady
  BY <1>ThreadReady, <1>typed, <1>types, <1>queues, <1>inv, ThreadReadyJob, <1>calls
     DEF AnsweredInv, ThreadReady, clientVars, engineVars, Call, Answered, Reading, EngineElse,
         MadeInv
<1>ResumeRefused. CASE ResumeRefused
  BY <1>ResumeRefused, <1>typed, <1>types, <1>queues, <1>inv, <1>calls
     DEF AnsweredInv, ResumeRefused, clientVars, engineVars, Call, Answered, Unreadable,
         Reading, EngineElse, MadeInv
<1>CallFails. CASE CallFails
  BY <1>CallFails, <1>typed, <1>types, <1>queues, <1>inv, NoJobType
     DEF AnsweredInv, CallFails, clientVars, engineVars, Finish, Answered, Unreadable,
         EndOfFile, Reading, EngineElse
<1>InitializeFails. CASE InitializeFails
  BY <1>InitializeFails, <1>typed, <1>types, <1>queues, <1>inv, NoJobType
     DEF AnsweredInv, InitializeFails, clientVars, engineVars, Finish, Restarted
<1>CallTimesOut. CASE CallTimesOut
  BY <1>CallTimesOut, <1>typed, <1>types, <1>queues, <1>inv, NoJobType
     DEF AnsweredInv, CallTimesOut, clientVars, engineVars, Finish, Restarted
<1>TurnStarted. CASE TurnStarted
  BY <1>TurnStarted, <1>typed, <1>types, <1>queues, <1>inv, TurnStartedJob, <1>waiting, WaitingTag
     DEF AnsweredInv, TurnStarted, clientVars, engineVars, Answered, Reading, EngineElse
<1>TurnReports. CASE TurnReports
  BY <1>TurnReports, <1>typed, <1>types, <1>queues, <1>inv, TurnReportsJob
     DEF AnsweredInv, TurnReports, clientVars, engineVars, NextLine, Reading, EngineElse
<1>TurnSucceeds. CASE TurnSucceeds
  BY <1>TurnSucceeds, <1>typed, <1>types, <1>queues, <1>inv, NoJobType
     DEF AnsweredInv, TurnSucceeds, clientVars, engineVars, Finish, NextLine, Reading, EngineElse
<1>TurnFails. CASE TurnFails
  BY <1>TurnFails, <1>typed, <1>types, <1>queues, <1>inv, NoJobType
     DEF AnsweredInv, TurnFails, clientVars, engineVars, Finish, NextLine, Reading, EngineElse
<1>RetryInNewThread. CASE RetryInNewThread
  <2>1. /\ UNCHANGED cur /\ pc' = "starting" /\ pipe # <<>> /\ pipe' = Tail(pipe)
        /\ \/ pc = "driving"
           \/ pc = "turning" /\ Head(pipe).kind = "reply" /\ Head(pipe).tag = Waiting
    BY <1>RetryInNewThread DEF RetryInNewThread, Call, NextLine, Answered, Reading
  <2>2. \A t \in inbox : ~(t.method = "turn" /\ t.req = cur)
    BY <2>1, <1>queues, <1>inv, <1>waiting, WaitingTag DEF AnsweredInv
  <2>3. QED
    BY <2>1, <2>2, <1>queues, <1>inv, <1>calls DEF AnsweredInv, MadeInv
<1>TurnBreaks. CASE TurnBreaks
  BY <1>TurnBreaks, <1>typed, <1>types, <1>queues, <1>inv, NoJobType
     DEF AnsweredInv, TurnBreaks, clientVars, engineVars, Finish, Unreadable, EndOfFile,
         EngineElse
<1>TurnIdles. CASE TurnIdles
  BY <1>TurnIdles, <1>typed, <1>types, <1>queues, <1>inv, NoJobType
     DEF AnsweredInv, TurnIdles, clientVars, engineVars, Finish, Restarted
<1>TurnCancelled. CASE TurnCancelled
  BY <1>TurnCancelled, <1>typed, <1>types, <1>queues, <1>inv, NoJobType
     DEF AnsweredInv, TurnCancelled, clientVars, engineVars, Finish, Restarted
<1>CallerLeaves. CASE CallerLeaves
  BY <1>CallerLeaves, <1>typed, <1>types, <1>inv, LeavesEffect, LeavesQueues
     DEF AnsweredInv
<1>EngineAnswers. ASSUME NEW tag \in inbox, NEW result \in {"ok", "error", "poisoned"},
                         EngineAnswers(tag, result)
                  PROVE  AnsweredInv'
  <2> DEFINE m == [kind |-> "reply", tag |-> tag, info |-> result]
  <2>1. pipe' = Append(pipe, m) /\ UNCHANGED <<cur, pc, job>>
        /\ inbox' = inbox \ {tag}
    BY <1>EngineAnswers DEF EngineAnswers, Send, EngineStep
  <2>2. m.kind = "reply" /\ m \in Message /\ m.tag = tag
    BY <1>EngineAnswers, <1>typed, SentFields DEF Typed, TypeOK
  <2> HIDE DEF m
  <2>3. In(pipe') = In(pipe) \union {m}
    BY <1>typed, <2>1, <2>2, QueueFacts
  <2>4. QED
    BY <2>1, <2>2, <2>3, <1>inv DEF AnsweredInv
<1>EngineBegins. ASSUME NEW tag \in inbox, EngineBegins(tag) PROVE AnsweredInv'
  BY <1>EngineBegins, <1>typed, <1>types, <1>queues, <1>inv
     DEF AnsweredInv, EngineBegins, clientVars, engineVars, EngineStep
<1>EngineNotes. ASSUME NEW t \in engineTurns, NEW info \in {"tool", "speech"}, EngineNotes(t, info)
                PROVE  AnsweredInv'
  <2> DEFINE m == [kind |-> "note", tag |-> t, info |-> info]
  <2>1. pipe' = Append(pipe, m) /\ UNCHANGED <<cur, pc, job>>
        /\ UNCHANGED inbox
    BY <1>EngineNotes DEF EngineNotes, Send, EngineStep
  <2>2. m.kind = "note" /\ m \in Message /\ m.tag = t
    BY <1>EngineNotes, <1>typed, SentFields DEF Typed, TypeOK
  <2> HIDE DEF m
  <2>3. In(pipe') = In(pipe) \union {m}
    BY <1>typed, <2>1, <2>2, QueueFacts
  <2>4. QED
    BY <2>1, <2>2, <2>3, <1>inv DEF AnsweredInv
<1>EngineCompletes. ASSUME NEW t \in engineTurns, NEW info \in {"ok", "failed", "poisoned"},
                           EngineCompletes(t, info)
                    PROVE  AnsweredInv'
  <2> DEFINE m == [kind |-> "completed", tag |-> t, info |-> info]
  <2>1. pipe' = Append(pipe, m) /\ UNCHANGED <<cur, pc, job>>
        /\ UNCHANGED inbox
    BY <1>EngineCompletes DEF EngineCompletes, Send, EngineStep
  <2>2. m.kind = "completed" /\ m \in Message /\ m.tag = t
    BY <1>EngineCompletes, <1>typed, SentFields DEF Typed, TypeOK
  <2> HIDE DEF m
  <2>3. In(pipe') = In(pipe) \union {m}
    BY <1>typed, <2>1, <2>2, QueueFacts
  <2>4. QED
    BY <2>1, <2>2, <2>3, <1>inv DEF AnsweredInv
<1>EngineAsks. ASSUME NEW tag \in inbox \union engineTurns, EngineAsks(tag) PROVE AnsweredInv'
  <2> DEFINE m == [kind |-> "request", tag |-> tag]
  <2>1. pipe' = Append(pipe, m) /\ UNCHANGED <<cur, pc, job>>
        /\ UNCHANGED inbox
    BY <1>EngineAsks DEF EngineAsks, Send, EngineStep
  <2>2. m.kind = "request" /\ m \in Message /\ m.tag = tag /\ tag \in inbox \union engineTurns
    BY <1>EngineAsks, <1>types, <1>typed, SentFields DEF Typed, TypeOK
  <2> HIDE DEF m
  <2>3. In(pipe') = In(pipe) \union {m}
    BY <1>typed, <2>1, <2>2, QueueFacts
  <2>4. QED
    BY <2>1, <2>2, <2>3, <1>inv DEF AnsweredInv
<1>EngineReads. CASE EngineReads
  BY <1>EngineReads, <1>inv DEF AnsweredInv, EngineReads
<1>EngineGarbles. CASE EngineGarbles
  <2> DEFINE m == [kind |-> "garbage"]
  <2>1. pipe' = Append(pipe, m) /\ UNCHANGED <<cur, pc, job>>
        /\ UNCHANGED inbox
    BY <1>EngineGarbles DEF EngineGarbles, Send, EngineStep
  <2>2. m.kind = "garbage" /\ m \in Message
    BY <1>EngineGarbles, <1>typed, SentFields DEF Typed, TypeOK
  <2> HIDE DEF m
  <2>3. In(pipe') = In(pipe) \union {m}
    BY <1>typed, <2>1, <2>2, QueueFacts
  <2>4. QED
    BY <2>1, <2>2, <2>3, <1>inv DEF AnsweredInv
<1>EngineExits. CASE EngineExits
  BY <1>EngineExits, <1>typed, <1>types, <1>queues, <1>inv
     DEF AnsweredInv, EngineExits, clientVars, engineVars
<1> QED
  BY <1>Unchanged, <1>Arrive, <1>Cancel, <1>EditConfig, <1>Acquire, <1>KeepEngine,
     <1>StopEngine, <1>StartEngine, <1>StartFails, <1>UseLoadedThread, <1>AskForThread,
     <1>SetAside, <1>Initialized, <1>ThreadReady, <1>ResumeRefused, <1>CallFails,
     <1>InitializeFails, <1>CallTimesOut, <1>TurnStarted, <1>TurnReports,
     <1>TurnSucceeds, <1>TurnFails, <1>RetryInNewThread, <1>TurnBreaks, <1>TurnIdles,
     <1>TurnCancelled, <1>CallerLeaves, <1>EngineAnswers, <1>EngineBegins,
     <1>EngineNotes, <1>EngineCompletes, <1>EngineAsks, <1>EngineReads,
     <1>EngineGarbles, <1>EngineExits
     DEF Next, Callers, Holder, Engine

-----------------------------------------------------------------------------
(* Turns begin, are reported on and end in that order                      *)

(* A report of the engine on turn t.                                       *)
Event(m, t) == m.kind \in {"note", "completed"} /\ m.tag = t
Ending(m, t) == m.kind = "completed" /\ m.tag = t

(* Turn t is reported on after it was reported complete.                   *)
Late(s, t) == \E i, j \in 1..Len(s) : i < j /\ Ending(s[i], t) /\ Event(s[j], t)

(* No report is late in an empty queue.                                    *)
LEMMA LateEmpty == \A t : ~Late(<<>>, t)
BY DEF Late

(* Reading a line makes no report late; nothing follows a completion.      *)
LEMMA LateTail ==
  ASSUME NEW s \in Seq(Message), s # <<>>, NEW t
  PROVE  /\ Late(Tail(s), t) => Late(s, t)
         /\ Ending(Head(s), t) /\ (\E m \in In(Tail(s)) : Event(m, t)) => Late(s, t)
<1>1. /\ Len(s) \in Nat /\ Len(s) >= 1 /\ Head(s) = s[1]
      /\ Len(Tail(s)) = Len(s) - 1
      /\ \A i \in 1..Len(Tail(s)) : Tail(s)[i] = s[i + 1]
  BY HeadTailProperties, LenProperties, EmptySeq
<1>2. ASSUME Late(Tail(s), t) PROVE Late(s, t)
  <2>1. PICK i \in 1..Len(Tail(s)), j \in 1..Len(Tail(s)) :
          i < j /\ Ending(Tail(s)[i], t) /\ Event(Tail(s)[j], t)
    BY <1>2 DEF Late
  <2>2. /\ i + 1 \in 1..Len(s) /\ j + 1 \in 1..Len(s) /\ i + 1 < j + 1
        /\ Ending(s[i + 1], t) /\ Event(s[j + 1], t)
    BY <1>1, <2>1
  <2>3. QED
    BY <2>2 DEF Late
<1>3. ASSUME Ending(Head(s), t), \E m \in In(Tail(s)) : Event(m, t) PROVE Late(s, t)
  <2>1. PICK j \in 1..Len(Tail(s)) : Event(Tail(s)[j], t)
    BY <1>3 DEF In
  <2>2. 1 \in 1..Len(s) /\ j + 1 \in 1..Len(s) /\ 1 < j + 1 /\ Event(s[j + 1], t)
    BY <1>1, <2>1
  <2>3. QED
    BY <1>1, <1>3, <2>2 DEF Late
<1>4. QED
  BY <1>2, <1>3

(* A report appended is late only if the completion is in the queue.       *)
LEMMA LateAppend ==
  ASSUME NEW s \in Seq(Message), NEW m \in Message, NEW t, Late(Append(s, m), t)
  PROVE  Late(s, t) \/ (Event(m, t) /\ \E n \in In(s) : Ending(n, t))
<1>1. /\ Len(s) \in Nat /\ Len(Append(s, m)) = Len(s) + 1
      /\ \A i \in 1..Len(s) : Append(s, m)[i] = s[i]
      /\ Append(s, m)[Len(s) + 1] = m
  BY AppendProperties, LenProperties
<1>2. PICK i \in 1..Len(Append(s, m)), j \in 1..Len(Append(s, m)) :
        i < j /\ Ending(Append(s, m)[i], t) /\ Event(Append(s, m)[j], t)
  BY DEF Late
<1>3. i \in 1..Len(s) /\ Ending(s[i], t)
  BY <1>1, <1>2
<1>4. CASE j \in 1..Len(s)
  BY <1>1, <1>2, <1>3, <1>4 DEF Late
<1>5. CASE j = Len(s) + 1
  <2>1. Event(m, t) /\ s[i] \in In(s)
    BY <1>1, <1>2, <1>3, <1>5 DEF In
  <2>2. QED
    BY <1>3, <2>1
<1>6. QED
  BY <1>1, <1>4, <1>5

(* A turn the engine has not begun, or has refused, was never reported on; *)
(* one it has completed is over.                                           *)
TurnsInv ==
  /\ \A t \in Turns : ~Made(t) => emitted[t] = 0
  /\ \A t \in inbox : t.method = "turn" /\ t \notin engineTurns => emitted[t] = 0
  /\ \A m \in In(pipe) :
       m.kind = "reply" /\ m.tag.method = "turn" /\ m.info # "ok" =>
         m.tag \notin engineTurns /\ emitted[m.tag] = 0
  /\ \A m \in In(pipe) : m.kind = "completed" => m.tag \notin engineTurns \union inbox
  /\ \A t \in Turns : ~Late(pipe, t)

(* Every step keeps the order in which turns are reported on.              *)
LEMMA TurnsStep ==
  ASSUME Typed, TriesInv, MadeInv, AnsweredInv, TurnsInv, [Next]_vars
  PROVE  TurnsInv'
<1>typed. Typed /\ TypeOK /\ Conversation
  BY DEF Typed
<1>types. /\ (pc = "free" <=> cur = None) /\ cur \in Requests \union {None}
          /\ inbox \subseteq Tags /\ engineTurns \subseteq Tags /\ job.try \in {1, 2}
          /\ Turns \subseteq Tags /\ None \notin Requests /\ \A t \in Tags : t.req \in Requests
  BY RuntimeAssumption, JobType DEF Typed, TypeOK, Turns, Tags
<1>queues. /\ In(<<>>) = {}
           /\ \A m \in In(pipe) \union In(backlog) : m.kind # "garbage" => m.tag \in Tags
           /\ pipe # <<>> => Head(pipe) \in In(pipe) /\ In(Tail(pipe)) \subseteq In(pipe)
  BY <1>typed, QueueFacts
<1>inv. TriesInv /\ MadeInv /\ AnsweredInv /\ TurnsInv
  OBVIOUS
<1>turns. /\ emitted \in [Turns -> 0..MaxNotes] /\ engineTurns \subseteq Turns
          /\ \A t \in Tags : t.method = "turn" => t \in Turns
  BY <1>typed DEF TypeOK, Turns
<1>calls. \A t \in inbox' \ inbox : t \in Tags /\ ~Made(t)
  BY <1>typed, <1>inv, NewCalls DEF NewCallsMade
<1>made. \A t \in Turns : ~Made(t)' => ~Made(t)
  BY <1>typed, <1>types, <1>inv, MadeStays
<1>late. \A t \in Turns : ~Late(<<>>, t) /\ (pipe # <<>> => ~Late(Tail(pipe), t))
  BY <1>typed, <1>inv, LateEmpty, LateTail DEF TurnsInv, TypeOK
(* A step in which the adapter only reads the pipe and makes calls.        *)
<1>reads. ASSUME UNCHANGED <<emitted, engineTurns>>,
                 pipe' = pipe \/ (pipe # <<>> /\ pipe' = Tail(pipe)) \/ pipe' = <<>>
          PROVE  TurnsInv'
  <2>1. In(pipe') \subseteq In(pipe)
    BY <1>reads, <1>queues
  <2>2. \A t \in Turns : ~Late(pipe', t)
    BY <1>reads, <1>late, <1>inv DEF TurnsInv
  <2>3. \A t \in inbox' \ inbox : t.method = "turn" => emitted[t] = 0
    BY <1>calls, <1>turns, <1>inv DEF TurnsInv
  <2>4. \A m \in In(pipe) : m.kind = "completed" => m.tag \notin inbox'
    BY <1>calls, <1>inv DEF TurnsInv, MadeInv
  <2>5. QED
    BY <1>reads, <2>1, <2>2, <2>3, <2>4, <1>made, <1>inv DEF TurnsInv
(* A step in which the engine and everything of it is gone.                *)
<1>stops. ASSUME Restarted PROVE TurnsInv'
  BY <1>stops, <1>queues, <1>made, <1>late, <1>inv DEF TurnsInv, Restarted
<1>Unchanged. CASE UNCHANGED vars
  BY <1>Unchanged, <1>reads DEF vars, engineVars
<1>Arrive. ASSUME NEW r \in Requests, NEW p \in (Requests \union Legacy \union {None}) \ {r},
                 NEW q \in Asks, Arrive(r, p, q)
           PROVE  TurnsInv'
  BY <1>Arrive, <1>reads DEF Arrive, engineVars
<1>Cancel. ASSUME NEW r \in Requests, Cancel(r) PROVE TurnsInv'
  BY <1>Cancel, <1>reads DEF Cancel, engineVars
<1>EditConfig. ASSUME NEW c \in Configs, EditConfig(c) PROVE TurnsInv'
  BY <1>EditConfig, <1>reads DEF EditConfig, engineVars
<1>Acquire. ASSUME NEW r \in Requests, Acquire(r) PROVE TurnsInv'
  BY <1>Acquire, <1>typed, <1>reads, AcquireEffect DEF engineVars
<1>KeepEngine. CASE KeepEngine
  BY <1>KeepEngine, <1>reads DEF KeepEngine, engineVars
<1>StopEngine. CASE StopEngine
  BY <1>StopEngine, <1>stops DEF StopEngine
<1>StartEngine. CASE StartEngine
  BY <1>StartEngine, <1>reads DEF StartEngine, engineVars
<1>StartFails. CASE StartFails
  BY <1>StartFails, <1>reads DEF StartFails, Finish, engineVars
<1>UseLoadedThread. CASE UseLoadedThread
  BY <1>UseLoadedThread, <1>reads DEF UseLoadedThread, Call, engineVars
<1>AskForThread. CASE AskForThread
  BY <1>AskForThread, <1>reads DEF AskForThread, Call, engineVars
<1>SetAside. CASE SetAside
  BY <1>SetAside, <1>reads DEF SetAside, Reading, EngineElse, engineVars
<1>Initialized. CASE Initialized
  BY <1>Initialized, <1>reads DEF Initialized, Answered, Reading, EngineElse, engineVars
<1>ThreadReady. CASE ThreadReady
  BY <1>ThreadReady, <1>reads
     DEF ThreadReady, Call, Answered, Reading, EngineElse, engineVars
<1>ResumeRefused. CASE ResumeRefused
  BY <1>ResumeRefused, <1>reads DEF ResumeRefused, Call, Answered, Unreadable, Reading,
     EngineElse, engineVars
<1>CallFails. CASE CallFails
  BY <1>CallFails, <1>reads DEF CallFails, Finish, Answered, Unreadable, EndOfFile, Reading,
     EngineElse, engineVars
<1>InitializeFails. CASE InitializeFails
  BY <1>InitializeFails, <1>stops DEF InitializeFails
<1>CallTimesOut. CASE CallTimesOut
  BY <1>CallTimesOut, <1>stops DEF CallTimesOut
<1>TurnStarted. CASE TurnStarted
  BY <1>TurnStarted, <1>reads DEF TurnStarted, Answered, Reading, EngineElse, engineVars
<1>TurnReports. CASE TurnReports
  BY <1>TurnReports, <1>reads DEF TurnReports, NextLine, Reading, EngineElse, engineVars
<1>TurnSucceeds. CASE TurnSucceeds
  BY <1>TurnSucceeds, <1>reads
     DEF TurnSucceeds, Finish, NextLine, Reading, EngineElse, engineVars
<1>TurnFails. CASE TurnFails
  BY <1>TurnFails, <1>reads DEF TurnFails, Finish, NextLine, Reading, EngineElse, engineVars
<1>RetryInNewThread. CASE RetryInNewThread
  BY <1>RetryInNewThread, <1>reads DEF RetryInNewThread, Call, Answered, NextLine, Reading,
     EngineElse, engineVars
<1>TurnBreaks. CASE TurnBreaks
  BY <1>TurnBreaks, <1>reads
     DEF TurnBreaks, Finish, Unreadable, EndOfFile, EngineElse, engineVars
<1>TurnIdles. CASE TurnIdles
  BY <1>TurnIdles, <1>stops DEF TurnIdles
<1>TurnCancelled. CASE TurnCancelled
  BY <1>TurnCancelled, <1>stops DEF TurnCancelled
<1>CallerLeaves. CASE CallerLeaves
  BY <1>CallerLeaves, <1>typed, <1>reads, LeavesEffect
<1>EngineAnswers. ASSUME NEW tag \in inbox, NEW result \in {"ok", "error", "poisoned"},
                         EngineAnswers(tag, result)
                  PROVE  TurnsInv'
  <2> DEFINE m == [kind |-> "reply", tag |-> tag, info |-> result]
  <2>1. /\ pipe' = Append(pipe, m)
        /\ inbox' = inbox \ {tag} /\ UNCHANGED emitted
        /\ engineTurns' = IF result = "ok" /\ tag.method = "turn"
                            THEN engineTurns \union {tag} ELSE engineTurns
        /\ tag \in engineTurns => result = "ok"
    BY <1>EngineAnswers DEF EngineAnswers, Send, EngineStep
  <2>2. m.kind = "reply" /\ m \in Message /\ m.tag = tag /\ m.info = result
    BY <1>EngineAnswers, <1>typed, SentFields DEF Typed, TypeOK
  <2> HIDE DEF m
  <2>3. In(pipe') = In(pipe) \union {m}
    BY <1>typed, <2>1, <2>2, QueueFacts
  <2>4. ASSUME NEW u \in Turns PROVE ~Late(pipe', u)
    <3>1. pipe \in Seq(Message) /\ ~Late(pipe, u)
      BY <1>typed, <1>inv DEF TypeOK, TurnsInv
    <3>2. ~(Event(m, u) /\ \E n \in In(pipe) : Ending(n, u))
      BY <2>2, <1>EngineAnswers, <1>inv DEF TurnsInv, Event, Ending
    <3>3. QED
      BY <2>1, <2>2, <3>1, <3>2, LateAppend
  <2>5. QED
    BY <1>EngineAnswers, <2>1, <2>2, <2>3, <2>4, <1>inv, <1>made, <1>turns, <1>types
       DEF TurnsInv, MadeInv, AnsweredInv
<1>EngineBegins. ASSUME NEW tag \in inbox, EngineBegins(tag) PROVE TurnsInv'
  <2>1. /\ engineTurns' = engineTurns \union {tag} /\ tag.method = "turn"
        /\ UNCHANGED <<inbox, pipe, emitted>>
    BY <1>EngineBegins DEF EngineBegins
  <2>2. QED
    BY <1>EngineBegins, <2>1, <1>inv, <1>made DEF TurnsInv, AnsweredInv
<1>EngineNotes. ASSUME NEW t \in engineTurns, NEW info \in {"tool", "speech"}, EngineNotes(t,
info)
                PROVE  TurnsInv'
  <2> DEFINE m == [kind |-> "note", tag |-> t, info |-> info]
  <2>1. /\ pipe' = Append(pipe, m)
        /\ UNCHANGED <<engineTurns, inbox>>
        /\ emitted' = [emitted EXCEPT ![t] = @ + 1]
    BY <1>EngineNotes DEF EngineNotes, Send, EngineStep
  <2>2. m.kind = "note" /\ m \in Message /\ m.tag = t
    BY <1>EngineNotes, <1>typed, SentFields DEF Typed, TypeOK
  <2> HIDE DEF m
  <2>3. In(pipe') = In(pipe) \union {m}
    BY <1>typed, <2>1, <2>2, QueueFacts
  <2>4. ASSUME NEW u \in Turns PROVE ~Late(pipe', u)
    <3>1. pipe \in Seq(Message) /\ ~Late(pipe, u)
      BY <1>typed, <1>inv DEF TypeOK, TurnsInv
    <3>2. ~(Event(m, u) /\ \E n \in In(pipe) : Ending(n, u))
      BY <2>2, <1>EngineNotes, <1>inv DEF TurnsInv, Event, Ending
    <3>3. QED
      BY <2>1, <2>2, <3>1, <3>2, LateAppend
  <2>5. QED
    BY <1>EngineNotes, <2>1, <2>2, <2>3, <2>4, <1>inv, <1>made, <1>turns, <1>types
       DEF TurnsInv, MadeInv, AnsweredInv
<1>EngineCompletes. ASSUME NEW t \in engineTurns, NEW info \in {"ok", "failed", "poisoned"},
                           EngineCompletes(t, info)
                    PROVE  TurnsInv'
  <2> DEFINE m == [kind |-> "completed", tag |-> t, info |-> info]
  <2>1. /\ pipe' = Append(pipe, m)
        /\ engineTurns' = engineTurns \ {t} /\ t \notin inbox /\ UNCHANGED <<emitted, inbox>>
    BY <1>EngineCompletes DEF EngineCompletes, Send, EngineStep
  <2>2. m.kind = "completed" /\ m \in Message /\ m.tag = t
    BY <1>EngineCompletes, <1>typed, SentFields DEF Typed, TypeOK
  <2> HIDE DEF m
  <2>3. In(pipe') = In(pipe) \union {m}
    BY <1>typed, <2>1, <2>2, QueueFacts
  <2>4. ASSUME NEW u \in Turns PROVE ~Late(pipe', u)
    <3>1. pipe \in Seq(Message) /\ ~Late(pipe, u)
      BY <1>typed, <1>inv DEF TypeOK, TurnsInv
    <3>2. ~(Event(m, u) /\ \E n \in In(pipe) : Ending(n, u))
      BY <2>2, <1>EngineCompletes, <1>inv DEF TurnsInv, Event, Ending
    <3>3. QED
      BY <2>1, <2>2, <3>1, <3>2, LateAppend
  <2>5. QED
    BY <1>EngineCompletes, <2>1, <2>2, <2>3, <2>4, <1>inv, <1>made, <1>turns, <1>types
       DEF TurnsInv, MadeInv, AnsweredInv
<1>EngineAsks. ASSUME NEW tag \in inbox \union engineTurns, EngineAsks(tag) PROVE TurnsInv'
  <2> DEFINE m == [kind |-> "request", tag |-> tag]
  <2>1. /\ pipe' = Append(pipe, m)
        /\ UNCHANGED <<engineTurns, inbox, emitted>>
    BY <1>EngineAsks DEF EngineAsks, Send, EngineStep
  <2>2. m.kind = "request" /\ m \in Message /\ m.tag = tag /\ tag \in inbox \union engineTurns
    BY <1>EngineAsks, <1>types, <1>typed, SentFields DEF Typed, TypeOK
  <2> HIDE DEF m
  <2>3. In(pipe') = In(pipe) \union {m}
    BY <1>typed, <2>1, <2>2, QueueFacts
  <2>4. ASSUME NEW u \in Turns PROVE ~Late(pipe', u)
    <3>1. pipe \in Seq(Message) /\ ~Late(pipe, u)
      BY <1>typed, <1>inv DEF TypeOK, TurnsInv
    <3>2. ~(Event(m, u) /\ \E n \in In(pipe) : Ending(n, u))
      BY <2>2, <1>EngineAsks, <1>inv DEF TurnsInv, Event, Ending
    <3>3. QED
      BY <2>1, <2>2, <3>1, <3>2, LateAppend
  <2>5. QED
    BY <1>EngineAsks, <2>1, <2>2, <2>3, <2>4, <1>inv, <1>made, <1>turns, <1>types
       DEF TurnsInv, MadeInv, AnsweredInv
<1>EngineReads. CASE EngineReads
  BY <1>EngineReads, <1>reads DEF EngineReads
<1>EngineGarbles. CASE EngineGarbles
  <2> DEFINE m == [kind |-> "garbage"]
  <2>1. /\ pipe' = Append(pipe, m)
        /\ UNCHANGED <<engineTurns, inbox, emitted>>
    BY <1>EngineGarbles DEF EngineGarbles, Send, EngineStep
  <2>2. m.kind = "garbage" /\ m \in Message
    BY <1>EngineGarbles, <1>typed, SentFields DEF Typed, TypeOK
  <2> HIDE DEF m
  <2>3. In(pipe') = In(pipe) \union {m}
    BY <1>typed, <2>1, <2>2, QueueFacts
  <2>4. ASSUME NEW u \in Turns PROVE ~Late(pipe', u)
    <3>1. pipe \in Seq(Message) /\ ~Late(pipe, u)
      BY <1>typed, <1>inv DEF TypeOK, TurnsInv
    <3>2. ~(Event(m, u) /\ \E n \in In(pipe) : Ending(n, u))
      BY <2>2, <1>EngineGarbles, <1>inv DEF TurnsInv, Event, Ending
    <3>3. QED
      BY <2>1, <2>2, <3>1, <3>2, LateAppend
  <2>5. QED
    BY <1>EngineGarbles, <2>1, <2>2, <2>3, <2>4, <1>inv, <1>made, <1>turns, <1>types
       DEF TurnsInv, MadeInv, AnsweredInv
<1>EngineExits. CASE EngineExits
  BY <1>EngineExits, <1>inv, <1>made DEF EngineExits, TurnsInv
<1> QED
  BY <1>Unchanged, <1>Arrive, <1>Cancel, <1>EditConfig, <1>Acquire, <1>KeepEngine,
     <1>StopEngine, <1>StartEngine, <1>StartFails, <1>UseLoadedThread, <1>AskForThread,
     <1>SetAside, <1>Initialized, <1>ThreadReady, <1>ResumeRefused, <1>CallFails,
     <1>InitializeFails, <1>CallTimesOut, <1>TurnStarted, <1>TurnReports,
     <1>TurnSucceeds, <1>TurnFails, <1>RetryInNewThread, <1>TurnBreaks, <1>TurnIdles,
     <1>TurnCancelled, <1>CallerLeaves, <1>EngineAnswers, <1>EngineBegins,
     <1>EngineNotes, <1>EngineCompletes, <1>EngineAsks, <1>EngineReads,
     <1>EngineGarbles, <1>EngineExits
     DEF Next, Callers, Holder, Engine

-----------------------------------------------------------------------------
(* Threads the engine has in memory                                        *)

(* What is marked loaded, what was resumed or started for the holder, and  *)
(* the thread its turn runs on are threads of the running engine.          *)
ThreadsInv ==
  /\ engine = "none" => loaded = {}
  /\ engine = "running" =>
       /\ loaded \subseteq engineThreads
       /\ \A m \in In(pipe) : m.kind = "reply" /\ m.info = "ok" /\ m.tag.req = cur =>
            /\ m.tag.method = "start" => m.tag \in engineThreads
            /\ m.tag.method = "resume" => job.resumes \in engineThreads
       /\ pc \in {"turning", "driving"} => job.thread \in engineThreads

(* Every step keeps the loaded threads alive in the engine.                *)
LEMMA ThreadsStep ==
  ASSUME Typed, EngineInv, MadeInv, ThreadsInv, [Next]_vars
  PROVE  ThreadsInv'
<1>typed. Typed /\ TypeOK /\ Conversation
  BY DEF Typed
<1>types. /\ (pc = "free" <=> cur = None) /\ cur \in Requests \union {None}
          /\ inbox \subseteq Tags /\ engineTurns \subseteq Tags /\ job.try \in {1, 2}
          /\ Turns \subseteq Tags /\ None \notin Requests /\ \A t \in Tags : t.req \in Requests
  BY RuntimeAssumption, JobType DEF Typed, TypeOK, Turns, Tags
<1>queues. /\ In(<<>>) = {}
           /\ \A m \in In(pipe) \union In(backlog) : m.kind # "garbage" => m.tag \in Tags
           /\ pipe # <<>> => Head(pipe) \in In(pipe) /\ In(Tail(pipe)) \subseteq In(pipe)
  BY <1>typed, QueueFacts
<1>inv. EngineInv /\ MadeInv /\ ThreadsInv
  OBVIOUS
<1>Unchanged. CASE UNCHANGED vars
  BY <1>Unchanged, <1>typed, <1>types, <1>queues, <1>inv
     DEF ThreadsInv, vars, clientVars, engineVars
<1>Arrive. ASSUME NEW r \in Requests, NEW p \in (Requests \union Legacy \union {None}) \ {r},
                 NEW q \in Asks, Arrive(r, p, q)
           PROVE  ThreadsInv'
  BY <1>Arrive, <1>typed, <1>types, <1>queues, <1>inv
     DEF ThreadsInv, Arrive, clientVars, engineVars
<1>Cancel. ASSUME NEW r \in Requests, Cancel(r) PROVE ThreadsInv'
  BY <1>Cancel, <1>typed, <1>types, <1>queues, <1>inv
     DEF ThreadsInv, Cancel, clientVars, engineVars
<1>EditConfig. ASSUME NEW c \in Configs, EditConfig(c) PROVE ThreadsInv'
  BY <1>EditConfig, <1>typed, <1>types, <1>queues, <1>inv, EditConfigJob
     DEF ThreadsInv, EditConfig, clientVars, engineVars
<1>Acquire. ASSUME NEW r \in Requests, Acquire(r) PROVE ThreadsInv'
  <2>1. UNCHANGED <<engine, engineThreads, loaded, pipe>> /\ status[r] = "waiting" /\ cur = None
        /\ ((cur' = r /\ pc' = "resolved") \/ (cur' = None /\ pc' = "free"))
    BY <1>Acquire, <1>typed, AcquireEffect DEF engineVars, clientVars
  <2>2. \A m \in In(pipe) : m.kind = "reply" => m.tag.req # cur'
    BY <2>1, <1>types, <1>queues, <1>inv DEF MadeInv, Made, Finished
  <2>3. QED
    BY <2>1, <2>2, <1>inv DEF ThreadsInv
<1>KeepEngine. CASE KeepEngine
  BY <1>KeepEngine, <1>typed, <1>types, <1>queues, <1>inv
     DEF ThreadsInv, KeepEngine, clientVars, engineVars
<1>StopEngine. CASE StopEngine
  BY <1>StopEngine, <1>typed, <1>types, <1>queues, <1>inv, StopEngineJob
     DEF ThreadsInv, StopEngine, clientVars, engineVars, Restarted
<1>StartEngine. CASE StartEngine
  BY <1>StartEngine, <1>typed, <1>types, <1>queues, <1>inv
     DEF ThreadsInv, StartEngine, clientVars, engineVars, EngineInv
<1>StartFails. CASE StartFails
  BY <1>StartFails, <1>typed, <1>types, <1>queues, <1>inv, NoJobType
     DEF ThreadsInv, StartFails, clientVars, engineVars, Finish
<1>UseLoadedThread. CASE UseLoadedThread
  BY <1>UseLoadedThread, <1>typed, <1>types, <1>queues, <1>inv, UseLoadedThreadJob
     DEF ThreadsInv, UseLoadedThread, clientVars, engineVars, Call
<1>AskForThread. CASE AskForThread
  BY <1>AskForThread, <1>typed, <1>types, <1>queues, <1>inv, AskForThreadJob
     DEF ThreadsInv, AskForThread, clientVars, engineVars, Call
<1>SetAside. CASE SetAside
  BY <1>SetAside, <1>typed, <1>types, <1>queues, <1>inv
     DEF ThreadsInv, SetAside, clientVars, engineVars, Reading, EngineElse
<1>Initialized. CASE Initialized
  BY <1>Initialized, <1>typed, <1>types, <1>queues, <1>inv
     DEF ThreadsInv, Initialized, clientVars, engineVars, Answered, Reading, EngineElse
<1>ThreadReady. CASE ThreadReady
  <2>1. /\ pipe # <<>> /\ pipe' = Tail(pipe) /\ pc \in {"resuming", "starting"} /\ pc' = "turning"
        /\ Head(pipe).kind = "reply" /\ Head(pipe).tag = Waiting /\ Head(pipe).info = "ok"
        /\ loaded' = loaded \union {IF pc = "resuming" THEN job.resumes ELSE Waiting}
        /\ UNCHANGED <<engine, engineThreads, cur>>
    BY <1>ThreadReady DEF ThreadReady, Answered, Reading, Call, EngineElse
  <2>2. /\ job'.resumes = job.resumes
        /\ job'.thread = IF pc = "resuming" THEN job.resumes ELSE Waiting
    BY <1>ThreadReady, <1>typed, <2>1, ThreadReadyJob, WaitingTag
  <2>3. Waiting.req = cur /\ (pc = "starting" => Waiting.method = "start")
        /\ (pc = "resuming" => Waiting.method = "resume")
    BY WaitingTag, <2>1
  <2>4. engine = "running" => job'.thread \in engineThreads
    BY <1>queues, <1>inv, <2>1, <2>2, <2>3 DEF ThreadsInv
  <2>5. engine # "none"
    BY <2>1, <1>inv DEF EngineInv
  <2>6. In(pipe') \subseteq In(pipe)
    BY <1>queues, <2>1
  <2>7. QED
    BY <1>inv, <2>1, <2>2, <2>4, <2>5, <2>6 DEF ThreadsInv
<1>ResumeRefused. CASE ResumeRefused
  BY <1>ResumeRefused, <1>typed, <1>types, <1>queues, <1>inv
     DEF ThreadsInv, ResumeRefused, clientVars, engineVars, Call, Answered, Unreadable,
         Reading, EngineElse
<1>CallFails. CASE CallFails
  BY <1>CallFails, <1>typed, <1>types, <1>queues, <1>inv, NoJobType
     DEF ThreadsInv, CallFails, clientVars, engineVars, Finish, Answered, Unreadable,
         EndOfFile, Reading, EngineElse
<1>InitializeFails. CASE InitializeFails
  BY <1>InitializeFails, <1>typed, <1>types, <1>queues, <1>inv, NoJobType
     DEF ThreadsInv, InitializeFails, clientVars, engineVars, Finish, Restarted
<1>CallTimesOut. CASE CallTimesOut
  BY <1>CallTimesOut, <1>typed, <1>types, <1>queues, <1>inv, NoJobType
     DEF ThreadsInv, CallTimesOut, clientVars, engineVars, Finish, Restarted
<1>TurnStarted. CASE TurnStarted
  BY <1>TurnStarted, <1>typed, <1>types, <1>queues, <1>inv, TurnStartedJob
     DEF ThreadsInv, TurnStarted, clientVars, engineVars, Answered, Reading, EngineElse
<1>TurnReports. CASE TurnReports
  BY <1>TurnReports, <1>typed, <1>types, <1>queues, <1>inv, TurnReportsJob
     DEF ThreadsInv, TurnReports, clientVars, engineVars, NextLine, Reading, EngineElse
<1>TurnSucceeds. CASE TurnSucceeds
  BY <1>TurnSucceeds, <1>typed, <1>types, <1>queues, <1>inv, NoJobType
     DEF ThreadsInv, TurnSucceeds, clientVars, engineVars, Finish, NextLine, Reading, EngineElse
<1>TurnFails. CASE TurnFails
  BY <1>TurnFails, <1>typed, <1>types, <1>queues, <1>inv, NoJobType
     DEF ThreadsInv, TurnFails, clientVars, engineVars, Finish, NextLine, Reading, EngineElse
<1>RetryInNewThread. CASE RetryInNewThread
  <2>1. /\ pipe # <<>> /\ pipe' = Tail(pipe) /\ pc' = "starting"
        /\ UNCHANGED <<engine, engineThreads, loaded, cur>>
    BY <1>RetryInNewThread
       DEF RetryInNewThread, Answered, NextLine, Reading, Call, EngineElse, clientVars
  <2>2. job'.resumes = job.resumes
    BY <1>RetryInNewThread, <1>typed, RetryJob
  <2>3. In(pipe') \subseteq In(pipe)
    BY <1>queues, <2>1
  <2>4. QED
    BY <1>inv, <2>1, <2>2, <2>3 DEF ThreadsInv
<1>TurnBreaks. CASE TurnBreaks
  BY <1>TurnBreaks, <1>typed, <1>types, <1>queues, <1>inv, NoJobType
     DEF ThreadsInv, TurnBreaks, clientVars, engineVars, Finish, Unreadable, EndOfFile, EngineElse
<1>TurnIdles. CASE TurnIdles
  BY <1>TurnIdles, <1>typed, <1>types, <1>queues, <1>inv, NoJobType
     DEF ThreadsInv, TurnIdles, clientVars, engineVars, Finish, Restarted
<1>TurnCancelled. CASE TurnCancelled
  BY <1>TurnCancelled, <1>typed, <1>types, <1>queues, <1>inv, NoJobType
     DEF ThreadsInv, TurnCancelled, clientVars, engineVars, Finish, Restarted
<1>CallerLeaves. CASE CallerLeaves
  <2>1. /\ pc' = "free" /\ cur' = None /\ UNCHANGED <<engine, engineThreads, loaded>>
        /\ job' = NoJob /\ In(pipe') \subseteq In(pipe)
    BY <1>CallerLeaves, <1>typed, LeavesEffect, LeavesQueues
  <2>2. \A m \in In(pipe) : m.kind = "reply" => m.tag.req # None
    BY <1>types, <1>queues
  <2>3. QED
    BY <2>1, <2>2, <1>inv, NoJobType DEF ThreadsInv
<1>EngineAnswers. ASSUME NEW tag \in inbox, NEW result \in {"ok", "error", "poisoned"},
                         EngineAnswers(tag, result)
                  PROVE  ThreadsInv'
  <2> DEFINE m == [kind |-> "reply", tag |-> tag, info |-> result]
  <2>1. /\ pipe' = Append(pipe, m) /\ UNCHANGED <<engine, loaded, cur, pc, job>>
        /\ engineThreads \subseteq engineThreads'
        /\ result = "ok" /\ tag.method = "start" => tag \in engineThreads'
        /\ result = "ok" /\ tag.method = "resume" =>
             Lookup(prev[tag.req]).thread \in engineThreads'
    BY <1>EngineAnswers DEF EngineAnswers, Send, EngineStep, clientVars
  <2>2. m.kind = "reply" /\ m \in Message /\ m.tag = tag /\ m.info = result
    BY <1>EngineAnswers, <1>typed, SentFields DEF Typed, TypeOK
  <2> HIDE DEF m
  <2>3. In(pipe') = In(pipe) \union {m}
    BY <1>typed, <2>1, <2>2, QueueFacts
  <2>4. QED
    BY <1>EngineAnswers, <2>1, <2>2, <2>3, <1>typed, <1>types, <1>inv
       DEF ThreadsInv, Conversation
<1>EngineBegins. ASSUME NEW tag \in inbox, EngineBegins(tag) PROVE ThreadsInv'
  BY <1>EngineBegins, <1>typed, <1>types, <1>queues, <1>inv
     DEF ThreadsInv, EngineBegins, clientVars, engineVars, EngineStep
<1>EngineNotes. ASSUME NEW t \in engineTurns, NEW info \in {"tool", "speech"}, EngineNotes(t, info)
                PROVE  ThreadsInv'
  <2> DEFINE m == [kind |-> "note", tag |-> t, info |-> info]
  <2>1. /\ pipe' = Append(pipe, m) /\ UNCHANGED <<engine, loaded, cur, pc, job>>
        /\ UNCHANGED engineThreads
    BY <1>EngineNotes DEF EngineNotes, Send, EngineStep, clientVars
  <2>2. m.kind = "note" /\ m \in Message /\ m.tag = t
    BY <1>EngineNotes, <1>typed, SentFields DEF Typed, TypeOK
  <2> HIDE DEF m
  <2>3. In(pipe') = In(pipe) \union {m}
    BY <1>typed, <2>1, <2>2, QueueFacts
  <2>4. QED
    BY <1>EngineNotes, <2>1, <2>2, <2>3, <1>typed, <1>types, <1>inv
       DEF ThreadsInv, Conversation
<1>EngineCompletes. ASSUME NEW t \in engineTurns, NEW info \in {"ok", "failed", "poisoned"},
                           EngineCompletes(t, info)
                    PROVE  ThreadsInv'
  <2> DEFINE m == [kind |-> "completed", tag |-> t, info |-> info]
  <2>1. /\ pipe' = Append(pipe, m) /\ UNCHANGED <<engine, loaded, cur, pc, job>>
        /\ UNCHANGED engineThreads
    BY <1>EngineCompletes DEF EngineCompletes, Send, EngineStep, clientVars
  <2>2. m.kind = "completed" /\ m \in Message /\ m.tag = t
    BY <1>EngineCompletes, <1>typed, SentFields DEF Typed, TypeOK
  <2> HIDE DEF m
  <2>3. In(pipe') = In(pipe) \union {m}
    BY <1>typed, <2>1, <2>2, QueueFacts
  <2>4. QED
    BY <1>EngineCompletes, <2>1, <2>2, <2>3, <1>typed, <1>types, <1>inv DEF ThreadsInv,
       Conversation
<1>EngineAsks. ASSUME NEW tag \in inbox \union engineTurns, EngineAsks(tag) PROVE ThreadsInv'
  <2> DEFINE m == [kind |-> "request", tag |-> tag]
  <2>1. /\ pipe' = Append(pipe, m) /\ UNCHANGED <<engine, loaded, cur, pc, job>>
        /\ UNCHANGED engineThreads
    BY <1>EngineAsks DEF EngineAsks, Send, EngineStep, clientVars
  <2>2. m.kind = "request" /\ m \in Message /\ m.tag = tag /\ tag \in inbox \union engineTurns
    BY <1>EngineAsks, <1>types, <1>typed, SentFields DEF Typed, TypeOK
  <2> HIDE DEF m
  <2>3. In(pipe') = In(pipe) \union {m}
    BY <1>typed, <2>1, <2>2, QueueFacts
  <2>4. QED
    BY <1>EngineAsks, <2>1, <2>2, <2>3, <1>typed, <1>types, <1>inv
       DEF ThreadsInv, Conversation
<1>EngineReads. CASE EngineReads
  BY <1>EngineReads, <1>typed, <1>types, <1>queues, <1>inv
     DEF ThreadsInv, EngineReads, clientVars
<1>EngineGarbles. CASE EngineGarbles
  <2> DEFINE m == [kind |-> "garbage"]
  <2>1. /\ pipe' = Append(pipe, m) /\ UNCHANGED <<engine, loaded, cur, pc, job>>
        /\ UNCHANGED engineThreads
    BY <1>EngineGarbles DEF EngineGarbles, Send, EngineStep, clientVars
  <2>2. m.kind = "garbage" /\ m \in Message
    BY <1>EngineGarbles, <1>typed, SentFields DEF Typed, TypeOK
  <2> HIDE DEF m
  <2>3. In(pipe') = In(pipe) \union {m}
    BY <1>typed, <2>1, <2>2, QueueFacts
  <2>4. QED
    BY <1>EngineGarbles, <2>1, <2>2, <2>3, <1>typed, <1>types, <1>inv
       DEF ThreadsInv, Conversation
<1>EngineExits. CASE EngineExits
  BY <1>EngineExits, <1>typed, <1>types, <1>queues, <1>inv
     DEF ThreadsInv, EngineExits, clientVars, engineVars
<1> QED
  BY <1>Unchanged, <1>Arrive, <1>Cancel, <1>EditConfig, <1>Acquire, <1>KeepEngine,
     <1>StopEngine, <1>StartEngine, <1>StartFails, <1>UseLoadedThread, <1>AskForThread,
     <1>SetAside, <1>Initialized, <1>ThreadReady, <1>ResumeRefused, <1>CallFails,
     <1>InitializeFails, <1>CallTimesOut, <1>TurnStarted, <1>TurnReports,
     <1>TurnSucceeds, <1>TurnFails, <1>RetryInNewThread, <1>TurnBreaks, <1>TurnIdles,
     <1>TurnCancelled, <1>CallerLeaves, <1>EngineAnswers, <1>EngineBegins,
     <1>EngineNotes, <1>EngineCompletes, <1>EngineAsks, <1>EngineReads,
     <1>EngineGarbles, <1>EngineExits
     DEF Next, Callers, Holder, Engine

-----------------------------------------------------------------------------
(* What the caller is shown                                                *)

(* Showing messages adds the notifications of the holder's turns.          *)
Told(s) ==
  /\ \A t \in Turns : shown'[t] = IF t.req = cur THEN shown[t] + Count(s, t) ELSE shown[t]
  /\ heard \subseteq heard'
  /\ \A t \in heard' : t \in heard \/ (t.req = cur /\ \E m \in In(s) : IsNote(m, t))
  /\ ~Speech(s) => heard' = heard
  /\ foreign' = foreign \union {r \in Requests \ {cur} : \E m \in In(s) : m.tag.req = r}

(* What Show does to the history, in counts of notifications.              *)
LEMMA ShowEffect ==
  ASSUME TypeOK, NEW s \in Seq(Message), Show(s)
  PROVE  Told(s)
<1> DEFINE notes == {i \in 1..Len(s) : s[i].kind = "note" /\ Owner(s[i]) = cur}
           spoken == {j \in notes : s[j].info = "speech"}
<1>1. /\ shown' = [t \in Turns |-> shown[t] + Cardinality({i \in notes : s[i].tag = t})]
      /\ heard' = heard \union {s[i].tag : i \in spoken}
      /\ foreign' = foreign \union
           {r \in Requests \ {cur} : \E i \in 1..Len(s) : Owner(s[i]) = r}
  BY DEF Show
<1>2. ASSUME NEW t \in Turns
      PROVE  shown'[t] = IF t.req = cur THEN shown[t] + Count(s, t) ELSE shown[t]
  <2> DEFINE own == {i \in notes : s[i].tag = t}
  <2>1. t.req = cur => own = Notes(s, t)
    BY DEF Notes, IsNote, Owner
  <2>2. t.req # cur => own = {}
    BY DEF Owner
  <2>3. shown'[t] = shown[t] + Cardinality(own) /\ shown[t] \in Nat
    BY <1>1 DEF TypeOK
  <2> HIDE DEF own
  <2>4. t.req # cur => Cardinality(own) = 0
    BY <2>2, FS_EmptySet
  <2>5. QED
    BY <2>1, <2>3, <2>4 DEF Count
<1>3. ASSUME NEW t \in heard'
      PROVE  t \in heard \/ (t.req = cur /\ \E m \in In(s) : IsNote(m, t))
  <2>1. CASE t \in heard
    BY <2>1
  <2>2. CASE t \notin heard
    <3>1. PICK i \in spoken : t = s[i].tag
      BY <1>1, <2>2
    <3>2. s[i] \in In(s) /\ IsNote(s[i], t) /\ t.req = cur
      BY <3>1 DEF In, IsNote, Owner
    <3>3. QED
      BY <3>2
  <2>3. QED
    BY <2>1, <2>2
<1>4. ~Speech(s) => spoken = {}
  BY DEF Speech
<1>5. ~Speech(s) => heard' = heard
  BY <1>1, <1>4
<1>6. \A r \in Requests :
        (\E i \in 1..Len(s) : Owner(s[i]) = r) <=> \E m \in In(s) : m.tag.req = r
  BY DEF In, Owner
<1>7. QED
  BY <1>1, <1>2, <1>3, <1>5, <1>6 DEF Told

(* The steps that change what the caller was told, what the engine said,   *)
(* or where the holder is in its turn.                                     *)
Effects ==
  /\ garbles' = 0 => garbles = 0
  /\ engineTurns' \subseteq engineTurns \union inbox
  /\ \A t \in Turns : emitted'[t] # emitted[t] => t \in engineTurns
  /\ \A r \in Requests : status'[r] = "ok" /\ status[r] # "ok" => r = cur /\ TurnSucceeds
  /\ \A r \in Requests : status[r] = "left" => status'[r] = "left"
  /\ UNCHANGED historyVars \/ TurnStarted \/ TurnReports \/ CallerLeaves
  /\ pc' # "free" /\ job'.try = 2 =>
       RetryInNewThread \/ (pc # "free" /\ cur' = cur /\ job.try = 2)
  /\ pc' = "turning" => /\ UNCHANGED historyVars /\ cur' = cur /\ job'.try = job.try
                        /\ pc \in {"ready", "resuming", "starting", "turning"}
  /\ pc' = "driving" =>
       \/ TurnStarted
       \/ /\ pc = "driving" /\ cur' = cur /\ job'.try = job.try
          /\ TurnReports \/ (UNCHANGED historyVars /\ job'.spoke = job.spoke)

(* Every step has these effects.                                           *)
LEMMA StepEffects ==
  ASSUME Typed, [Next]_vars
  PROVE  Effects
<1>typed. Typed /\ TypeOK
  BY DEF Typed
<1>types. /\ pc = "free" <=> cur = None
          /\ None \notin Requests /\ cur \in Requests \union {None}
          /\ status \in [Requests -> Statuses] /\ emitted \in [Turns -> 0..MaxNotes]
          /\ garbles \in Nat /\ \A r \in Requests : status[r] = "active" <=> r = cur
  BY RuntimeAssumption DEF Typed, TypeOK, Conversation
<1>Unchanged. CASE UNCHANGED vars
  BY <1>Unchanged, <1>typed, <1>types
     DEF Effects, vars, requestVars, engineVars
<1>Arrive. ASSUME NEW r \in Requests, NEW p \in (Requests \union Legacy \union {None}) \ {r},
                 NEW q \in Asks, Arrive(r, p, q)
           PROVE  Effects
  BY <1>Arrive, <1>typed, <1>types
     DEF Effects, Arrive, requestVars, engineVars
<1>Cancel. ASSUME NEW r \in Requests, Cancel(r) PROVE Effects
  BY <1>Cancel, <1>typed, <1>types
     DEF Effects, Cancel, requestVars, engineVars
<1>EditConfig. ASSUME NEW c \in Configs, EditConfig(c) PROVE Effects
  BY <1>EditConfig, <1>typed, <1>types, EditConfigJob
     DEF Effects, EditConfig, requestVars, engineVars
<1>Acquire. ASSUME NEW r \in Requests, Acquire(r) PROVE Effects
  <2>1. UNCHANGED <<engineTurns, garbles, emitted, shown, heard, foreign>>
    BY <1>Acquire, <1>typed, AcquireEffect DEF engineVars, historyVars
  <2>2. pc = "free" /\ status[r] = "waiting" /\ (pc' = "resolved" \/ pc' = "free")
        /\ (status' = [status EXCEPT ![r] = "active"] \/ status' = [status EXCEPT ![r] = "failed"])
    BY <1>Acquire, <1>typed, AcquireEffect
  <2>3. pc' # "free" => job'.try = 1
    BY <1>Acquire, <1>typed, <1>types, AcquireEffect, AcquireJob
  <2>4. QED
    BY <2>1, <2>2, <2>3, <1>types DEF Effects, historyVars
<1>KeepEngine. CASE KeepEngine
  BY <1>KeepEngine, <1>typed, <1>types
     DEF Effects, KeepEngine, requestVars, engineVars
<1>StopEngine. CASE StopEngine
  BY <1>StopEngine, <1>typed, <1>types, StopEngineJob
     DEF Effects, StopEngine, requestVars, engineVars, Restarted
<1>StartEngine. CASE StartEngine
  BY <1>StartEngine, <1>typed, <1>types
     DEF Effects, StartEngine, requestVars, engineVars
<1>StartFails. CASE StartFails
  BY <1>StartFails, <1>typed, <1>types, NoJobType
     DEF Effects, StartFails, requestVars, engineVars, Finish
<1>UseLoadedThread. CASE UseLoadedThread
  BY <1>UseLoadedThread, <1>typed, <1>types, UseLoadedThreadJob
     DEF Effects, UseLoadedThread, requestVars, engineVars, Call
<1>AskForThread. CASE AskForThread
  BY <1>AskForThread, <1>typed, <1>types, AskForThreadJob
     DEF Effects, AskForThread, requestVars, engineVars, Call
<1>SetAside. CASE SetAside
  BY <1>SetAside, <1>typed, <1>types
     DEF Effects, SetAside, requestVars, engineVars, EngineElse
<1>Initialized. CASE Initialized
  BY <1>Initialized, <1>typed, <1>types
     DEF Effects, Initialized, requestVars, engineVars, EngineElse
<1>ThreadReady. CASE ThreadReady
  BY <1>ThreadReady, <1>typed, <1>types, ThreadReadyJob
     DEF Effects, ThreadReady, requestVars, engineVars, Call, EngineElse
<1>ResumeRefused. CASE ResumeRefused
  BY <1>ResumeRefused, <1>typed, <1>types
     DEF Effects, ResumeRefused, requestVars, engineVars, Call, EngineElse
<1>CallFails. CASE CallFails
  BY <1>CallFails, <1>typed, <1>types, NoJobType
     DEF Effects, CallFails, requestVars, engineVars, Finish, EngineElse
<1>InitializeFails. CASE InitializeFails
  BY <1>InitializeFails, <1>typed, <1>types, NoJobType
     DEF Effects, InitializeFails, requestVars, engineVars, Finish, Restarted
<1>CallTimesOut. CASE CallTimesOut
  BY <1>CallTimesOut, <1>typed, <1>types, NoJobType
     DEF Effects, CallTimesOut, requestVars, engineVars, Finish, Restarted
<1>TurnStarted. CASE TurnStarted
  <2>1. /\ UNCHANGED <<status, engineTurns, garbles, emitted, cur>>
        /\ pc = "turning" /\ pc' = "driving"
    BY <1>TurnStarted DEF TurnStarted, EngineElse, requestVars
  <2>2. job'.try = job.try
    BY <1>TurnStarted, <1>typed, TurnStartedJob
  <2>3. QED
    BY <1>TurnStarted, <2>1, <2>2 DEF Effects
<1>TurnReports. CASE TurnReports
  <2>1. /\ UNCHANGED <<status, engineTurns, garbles, emitted, pc, cur>> /\ pc = "driving"
    BY <1>TurnReports DEF TurnReports, NextLine, EngineElse, requestVars
  <2>2. job'.try = job.try
    BY <1>TurnReports, <1>typed, TurnReportsJob
  <2>3. QED
    BY <1>TurnReports, <2>1, <2>2 DEF Effects
<1>TurnSucceeds. CASE TurnSucceeds
  <2>1. /\ UNCHANGED <<engineTurns, garbles, emitted, shown, heard, foreign>> /\ pc' = "free"
        /\ status' = [status EXCEPT ![cur] = "ok"]
    BY <1>TurnSucceeds DEF TurnSucceeds, EngineElse, historyVars, Finish
  <2>2. QED
    BY <1>TurnSucceeds, <2>1, <1>types DEF Effects, historyVars
<1>TurnFails. CASE TurnFails
  BY <1>TurnFails, <1>typed, <1>types, NoJobType
     DEF Effects, TurnFails, requestVars, engineVars, Finish, NextLine, EngineElse
<1>RetryInNewThread. CASE RetryInNewThread
  <2>1. /\ UNCHANGED <<status, engineTurns, garbles, emitted, shown, heard, foreign>>
        /\ pc' = "starting"
    BY <1>RetryInNewThread DEF RetryInNewThread, EngineElse, requestVars, historyVars, Call
  <2>2. QED
    BY <1>RetryInNewThread, <2>1 DEF Effects, historyVars
<1>TurnBreaks. CASE TurnBreaks
  BY <1>TurnBreaks, <1>typed, <1>types, NoJobType
     DEF Effects, TurnBreaks, requestVars, engineVars, Finish, EngineElse
<1>TurnIdles. CASE TurnIdles
  BY <1>TurnIdles, <1>typed, <1>types, NoJobType
     DEF Effects, TurnIdles, requestVars, engineVars, Finish, Restarted
<1>TurnCancelled. CASE TurnCancelled
  BY <1>TurnCancelled, <1>typed, <1>types, NoJobType
     DEF Effects, TurnCancelled, requestVars, engineVars, Finish, Restarted
<1>CallerLeaves. CASE CallerLeaves
  BY <1>CallerLeaves, <1>typed, <1>types, LeavesEffect DEF Effects
<1>EngineAnswers. ASSUME NEW tag \in inbox, NEW result \in {"ok", "error", "poisoned"},
                         EngineAnswers(tag, result)
                  PROVE  Effects
  BY <1>EngineAnswers, <1>typed, <1>types
     DEF Effects, EngineAnswers, requestVars, engineVars, EngineStep
<1>EngineBegins. ASSUME NEW tag \in inbox, EngineBegins(tag) PROVE Effects
  BY <1>EngineBegins, <1>typed, <1>types
     DEF Effects, EngineBegins, requestVars, engineVars, EngineStep
<1>EngineNotes. ASSUME NEW t \in engineTurns, NEW info \in {"tool", "speech"}, EngineNotes(t, info)
                PROVE  Effects
  BY <1>EngineNotes, <1>typed, <1>types
     DEF Effects, EngineNotes, requestVars, engineVars, EngineStep
<1>EngineCompletes. ASSUME NEW t \in engineTurns, NEW info \in {"ok", "failed", "poisoned"},
                           EngineCompletes(t, info)
                    PROVE  Effects
  BY <1>EngineCompletes, <1>typed, <1>types
     DEF Effects, EngineCompletes, requestVars, engineVars, EngineStep
<1>EngineAsks. ASSUME NEW tag \in inbox \union engineTurns, EngineAsks(tag) PROVE Effects
  BY <1>EngineAsks, <1>typed, <1>types
     DEF Effects, EngineAsks, requestVars, EngineStep
<1>EngineReads. CASE EngineReads
  BY <1>EngineReads, <1>typed, <1>types
     DEF Effects, EngineReads, requestVars
<1>EngineGarbles. CASE EngineGarbles
  BY <1>EngineGarbles, <1>typed, <1>types
     DEF Effects, EngineGarbles, requestVars, engineVars, EngineStep
<1>EngineExits. CASE EngineExits
  BY <1>EngineExits, <1>typed, <1>types
     DEF Effects, EngineExits, requestVars, engineVars
<1> QED
  BY <1>Unchanged, <1>Arrive, <1>Cancel, <1>EditConfig, <1>Acquire, <1>KeepEngine,
     <1>StopEngine, <1>StartEngine, <1>StartFails, <1>UseLoadedThread, <1>AskForThread,
     <1>SetAside, <1>Initialized, <1>ThreadReady, <1>ResumeRefused, <1>CallFails,
     <1>InitializeFails, <1>CallTimesOut, <1>TurnStarted, <1>TurnReports,
     <1>TurnSucceeds, <1>TurnFails, <1>RetryInNewThread, <1>TurnBreaks, <1>TurnIdles,
     <1>TurnCancelled, <1>CallerLeaves, <1>EngineAnswers, <1>EngineBegins,
     <1>EngineNotes, <1>EngineCompletes, <1>EngineAsks, <1>EngineReads,
     <1>EngineGarbles, <1>EngineExits
     DEF Next, Callers, Holder, Engine

-----------------------------------------------------------------------------
(* Every notification reaches the caller, once and in time                 *)

(* A step that shows something shows the holder what was set aside, or the *)
(* line just read; only a caller that leaves may be shown less.            *)
LEMMA StepTells ==
  ASSUME Typed, MadeInv, [Next]_vars
  PROVE  \/ UNCHANGED historyVars
         \/ \E s \in Seq(Message) :
              /\ Told(s) /\ cur \in Requests /\ pc \in {"turning", "driving"}
              /\ pc' # "free" => /\ s = backlog \/ s = <<Head(pipe)>>
                                 /\ Speech(s) => job'.spoke
                                 /\ pc' = "driving" /\ cur' = cur
              /\ In(s) \subseteq In(backlog) \union In(pipe)
              /\ \A m \in In(s) : m.kind \in {"note", "completed"}
              /\ \A t \in Turns : Count(s, t) <= Count(backlog, t) + Count(pipe, t)
<1>typed. /\ Typed /\ TypeOK /\ pipe \in Seq(Message) /\ backlog \in Seq(Message)
          /\ (pc = "free" <=> cur = None) /\ cur \in Requests \union {None}
          /\ UNCHANGED historyVars \/ TurnStarted \/ TurnReports \/ CallerLeaves
          /\ \A t \in Turns : Count(backlog, t) \in Nat /\ Count(pipe, t) \in Nat
  BY StepEffects, NotesFinite DEF Typed, TypeOK, Effects
<1>1. CASE TurnStarted
  <2>1. Show(backlog) /\ pc = "turning" /\ pc' = "driving" /\ cur' = cur
    BY <1>1 DEF TurnStarted
  <2>2. job'.spoke = Speech(backlog)
    BY <1>1, <1>typed, TurnStartedJob
  <2>3. \A m \in In(backlog) : m.kind \in {"note", "completed"}
    BY DEF MadeInv
  <2>4. Told(backlog)
    BY <2>1, <1>typed, ShowEffect
  <2>5. QED
    BY <1>typed, <2>1, <2>2, <2>3, <2>4
<1>2. CASE TurnReports
  <2>1. CASE Head(pipe).kind \in {"reply", "request"}
    BY <1>2, <2>1 DEF TurnReports
  <2>2. CASE Head(pipe).kind \notin {"reply", "request"}
    <3> DEFINE s == <<Head(pipe)>>
    <3>1. /\ Head(pipe).kind \in {"note", "completed"} /\ Show(s) /\ pipe # <<>>
          /\ pc = "driving" /\ pc' = "driving" /\ cur' = cur
      BY <1>2, <2>2 DEF TurnReports, NextLine, Reading
    <3>2. job'.spoke = (job.spoke \/ Speech(s))
      BY <1>2, <1>typed, <2>2, TurnReportsJob
    <3>3. Head(pipe) \in Message /\ Head(pipe) \in In(pipe)
      BY <1>typed, <3>1, InHead
    <3>4. s \in Seq(Message) /\ In(s) = {Head(pipe)}
      BY <3>3, CountSingle
    <3>5. \A t \in Turns : Count(s, t) <= Count(pipe, t)
      BY <1>typed, <3>1, HeadCount
    <3>6. Told(s)
      BY <1>typed, <3>1, <3>4, ShowEffect
    <3> HIDE DEF s
    <3>7. \A t \in Turns : Count(s, t) \in Nat
      BY <3>4, NotesFinite
    <3>8. \A t \in Turns : Count(s, t) <= Count(backlog, t) + Count(pipe, t)
      BY <3>5, <3>7, <1>typed
    <3>9. s = <<Head(pipe)>>
      BY DEF s
    <3>10. /\ \A m \in In(s) : m.kind \in {"note", "completed"}
           /\ In(s) \subseteq In(backlog) \union In(pipe)
           /\ Speech(s) => job'.spoke
      BY <3>1, <3>2, <3>3, <3>4
    <3>11. cur \in Requests
      BY <1>typed, <3>1
    <3>12. QED
      BY <3>1, <3>4, <3>6, <3>8, <3>9, <3>10, <3>11
  <2>3. QED
    BY <2>1, <2>2
<1>3. CASE CallerLeaves
  <2>1. pc' = "free" /\ cur \in Requests
    BY <1>3, <1>typed, LeavesEffect
  <2>2. \A t \in Turns : Count(backlog, t) \in Nat /\ Count(pipe, t) \in Nat
    BY <1>typed
  <2>3. ASSUME NEW n \in 1..Len(backlog), pc = "turning", Show(SubSeq(backlog, 1, n))
        PROVE  \E s \in Seq(Message) :
                 /\ Told(s) /\ pc \in {"turning", "driving"}
                 /\ In(s) \subseteq In(backlog) \union In(pipe)
                 /\ \A m \in In(s) : m.kind \in {"note", "completed"}
                 /\ \A t \in Turns : Count(s, t) <= Count(backlog, t) + Count(pipe, t)
    <3> DEFINE s == SubSeq(backlog, 1, n)
    <3>1. n \in Nat /\ n <= Len(backlog) /\ Len(backlog) \in Nat
      BY <1>typed, LenProperties
    <3>2. s \in Seq(Message) /\ In(s) \subseteq In(backlog)
      BY <1>typed, <3>1, SubSeqIn
    <3>3. Told(s)
      BY <1>typed, <2>3, <3>2, ShowEffect
    <3>4. \A t : Count(s, t) <= Count(backlog, t)
      BY <1>typed, CountPrefix
    <3> HIDE DEF s
    <3>5. \A t \in Turns : Count(s, t) \in Nat
      BY <3>2, NotesFinite
    <3>6. \A t \in Turns : Count(s, t) <= Count(backlog, t) + Count(pipe, t)
      BY <2>2, <3>4, <3>5
    <3>7. \A m \in In(s) : m.kind \in {"note", "completed"}
      BY <3>2 DEF MadeInv
    <3>8. QED
      BY <2>3, <3>2, <3>3, <3>6, <3>7
  <2>4. ASSUME pc = "driving", pipe # <<>>, Head(pipe).kind \in {"note", "completed"},
               Show(<<Head(pipe)>>)
        PROVE  \E s \in Seq(Message) :
                 /\ Told(s) /\ pc \in {"turning", "driving"}
                 /\ In(s) \subseteq In(backlog) \union In(pipe)
                 /\ \A m \in In(s) : m.kind \in {"note", "completed"}
                 /\ \A t \in Turns : Count(s, t) <= Count(backlog, t) + Count(pipe, t)
    <3> DEFINE s == <<Head(pipe)>>
    <3>1. Head(pipe) \in Message /\ Head(pipe) \in In(pipe)
      BY <1>typed, <2>4, InHead
    <3>2. s \in Seq(Message) /\ In(s) = {Head(pipe)}
      BY <3>1, CountSingle
    <3>3. Told(s)
      BY <1>typed, <2>4, <3>2, ShowEffect
    <3>4. \A t \in Turns : Count(s, t) <= Count(pipe, t)
      BY <1>typed, <2>4, HeadCount
    <3> HIDE DEF s
    <3>5. \A t \in Turns : Count(s, t) \in Nat
      BY <3>2, NotesFinite
    <3>6. \A t \in Turns : Count(s, t) <= Count(backlog, t) + Count(pipe, t)
      BY <2>2, <3>4, <3>5
    <3>7. QED
      BY <2>4, <3>1, <3>2, <3>3, <3>6
  <2>5. QED
    BY <1>3, <1>typed, <2>1, <2>3, <2>4, LeavesEffect
<1>4. QED
  BY <1>typed, <1>1, <1>2, <1>3

(* Nothing was shown of a turn that was never asked for.                   *)
FreshInv == \A t \in Turns : ~Made(t) => shown[t] = 0 /\ t \notin heard

(* Every step keeps what was never asked for unheard of.                   *)
LEMMA FreshStep ==
  ASSUME Typed, TriesInv, MadeInv, FreshInv, [Next]_vars
  PROVE  FreshInv'
<1>1. SUFFICES ASSUME NEW t \in Turns, ~Made(t)' PROVE shown'[t] = 0 /\ t \notin heard'
  BY DEF FreshInv
<1>2. Typed /\ TypeOK /\ t \in Tags /\ backlog \in Seq(Message) /\ pipe \in Seq(Message)
  BY DEF Typed, TypeOK, Turns
<1>3. ~Made(t) /\ shown[t] = 0 /\ t \notin heard
  BY <1>1, <1>2, MadeStays DEF FreshInv
<1>4. CASE UNCHANGED historyVars
  BY <1>3, <1>4 DEF historyVars
<1>5. ASSUME NEW s \in Seq(Message), Told(s),
             In(s) \subseteq In(backlog) \union In(pipe),
             \A m \in In(s) : m.kind \in {"note", "completed"}
      PROVE  shown'[t] = 0 /\ t \notin heard'
  <2>1. \A m \in In(s) : ~IsNote(m, t)
    BY <1>3, <1>5 DEF MadeInv, IsNote
  <2>2. Count(s, t) = 0
    BY <2>1, CountZero
  <2>3. QED
    BY <1>3, <1>5, <2>1, <2>2 DEF Told
<1>6. QED
  BY <1>4, <1>5, <1>2, StepTells

(* Before a turn's answer arrives its caller was shown nothing of it; and  *)
(* as long as the holder believes it was silent, it was.                   *)
SilentInv ==
  /\ pc = "turning" => TurnOf(cur, job.try) \notin heard
  /\ pc = "driving" /\ ~job.spoke => TurnOf(cur, job.try) \notin heard

(* Every step keeps silent what the holder believes to be silent.          *)
LEMMA SilentStep ==
  ASSUME Typed, TriesInv, MadeInv, FreshInv, SilentInv, [Next]_vars
  PROVE  SilentInv'
<1>1. /\ Typed /\ TypeOK /\ Effects /\ job.try \in {1, 2}
      /\ (pc = "free" <=> cur = None) /\ cur \in Requests \union {None}
      /\ \A r \in Requests : status[r] = "active" <=> r = cur
  BY StepEffects, JobType DEF Typed, TypeOK, Conversation
<1>2. ASSUME pc' = "turning" PROVE TurnOf(cur, job.try)' \notin heard'
  <2>1. /\ UNCHANGED <<shown, heard>> /\ cur' = cur /\ job'.try = job.try
        /\ pc \in {"ready", "resuming", "starting", "turning"}
    BY <1>1, <1>2 DEF Effects, historyVars
  <2>2. TurnOf(cur, job.try)' = TurnOf(cur, job.try)
    BY <2>1 DEF TurnOf
  <2>3. CASE pc # "turning"
    <3>1. cur \in Requests /\ status[cur] = "active"
      BY <1>1, <2>1
    <3>2. /\ TurnOf(cur, job.try) \in Turns
          /\ TurnOf(cur, job.try).req = cur /\ TurnOf(cur, job.try).method = "turn"
          /\ TurnOf(cur, job.try).try = job.try
      BY <1>1, <3>1 DEF TurnOf, Turns, Tags
    <3>3. ~Made(TurnOf(cur, job.try))
      BY <2>1, <2>3, <1>1, <3>1, <3>2 DEF Made, Finished
    <3>4. QED
      BY <2>1, <2>2, <3>2, <3>3 DEF FreshInv
  <2>4. QED
    BY <2>1, <2>2, <2>3 DEF SilentInv
<1>3. ASSUME pc' = "driving", ~job'.spoke PROVE TurnOf(cur, job.try)' \notin heard'
  <2>1. CASE TurnStarted
    <3>1. pc = "turning" /\ cur' = cur /\ job'.try = job.try /\ Show(backlog) /\ ~Speech(backlog)
      BY <1>1, <1>3, <2>1, TurnStartedJob DEF TurnStarted
    <3>2. heard' = heard
      BY <1>1, <3>1, ShowEffect DEF Told, TypeOK
    <3>3. QED
      BY <3>1, <3>2 DEF SilentInv, TurnOf
  <2>2. CASE ~TurnStarted
    <3>1. /\ pc = "driving" /\ cur' = cur /\ job'.try = job.try
          /\ TurnReports \/ (UNCHANGED historyVars /\ job'.spoke = job.spoke)
      BY <1>1, <1>3, <2>2 DEF Effects
    <3>2. ~job.spoke
      BY <1>1, <1>3, <3>1, TurnReportsJob
    <3>3. heard' = heard
      BY <1>3, StepTells DEF Told, historyVars
    <3>4. QED
      BY <3>1, <3>2, <3>3 DEF SilentInv, TurnOf
  <2>3. QED
    BY <2>1, <2>2
<1>4. QED
  BY <1>2, <1>3 DEF SilentInv

(* What the engine emitted for the holder's turns, the caller was shown,   *)
(* or it waits in a queue.                                                 *)
AccountInv ==
  /\ \A t \in Turns : t.req = cur => emitted[t] = shown[t] + Count(backlog, t) + Count(pipe, t)
  /\ pc = "driving" => backlog = <<>>

(* Every step keeps the account of notifications balanced.                 *)
LEMMA AccountStep ==
  ASSUME Typed, TriesInv, MadeInv, TurnsInv, FreshInv, AccountInv, [Next]_vars
  PROVE  AccountInv'
<1>typed. Typed /\ TypeOK
  BY DEF Typed
<1>types. /\ pipe \in Seq(Message) /\ backlog \in Seq(Message)
          /\ emitted \in [Turns -> 0..MaxNotes] /\ shown \in [Turns -> Nat]
          /\ None \notin Requests /\ (pc = "free" <=> cur = None) /\ Turns \subseteq Tags
          /\ engineTurns \subseteq Turns /\ job.try \in {1, 2} /\ inbox \subseteq Tags
          /\ \A t \in Turns : t.req \in Requests /\ t.method = "turn" /\ t.try \in {1, 2}
          /\ \A t \in Turns : Count(backlog, t) \in Nat /\ Count(pipe, t) \in Nat
          /\ \A t \in Turns : Count(<<>>, t) = 0
  <2>1. <<>> \in Seq(Message) /\ In(<<>>) = {}
    BY InEmpty
  <2>2. \A t \in Turns : Count(<<>>, t) = 0
    BY <2>1, CountZero
  <2>3. \A t \in Tags : t.req \in Requests /\ t.try \in {1, 2}
    BY DEF Tags
  <2>4. QED
    BY <2>2, <2>3, RuntimeAssumption, JobType, NotesFinite DEF Typed, TypeOK, Turns
<1>inv. AccountInv /\ MadeInv /\ FreshInv /\ TurnsInv /\ TriesInv
  OBVIOUS
(* A turn that was never asked for is in no queue.                         *)
<1>fresh. \A t \in Turns : ~Made(t) =>
            emitted[t] = 0 /\ shown[t] = 0 /\ Count(backlog, t) = 0 /\ Count(pipe, t) = 0
  <2>1. \A t \in Turns : ~Made(t) =>
          \A m \in In(pipe) \union In(backlog) : ~IsNote(m, t)
    BY <1>inv DEF MadeInv, IsNote
  <2>2. QED
    BY <1>types, <1>inv, <2>1, CountZero DEF FreshInv, TurnsInv
<1>ends. ASSUME cur' = None, pc' = "free" PROVE AccountInv'
  BY <1>ends, <1>types DEF AccountInv
<1>keeps. ASSUME UNCHANGED <<emitted, shown, backlog, pipe, cur>>,
                 pc' = "driving" => pc = "driving"
          PROVE  AccountInv'
  BY <1>keeps, <1>inv DEF AccountInv
(* A line that is no notification is read.                                 *)
<1>reads. ASSUME UNCHANGED <<emitted, shown, backlog, cur>>, pc' = "driving" => pc = "driving",
                 pipe # <<>>, Head(pipe).kind # "note", pipe' = Tail(pipe)
          PROVE  AccountInv'
  <2>1. \A t \in Turns : Count(pipe', t) = Count(pipe, t)
    BY <1>reads, <1>types, CountTail DEF IsNote
  <2>2. QED
    BY <1>reads, <2>1, <1>inv DEF AccountInv
(* The engine writes a line.                                               *)
<1>sends. ASSUME NEW n \in Message, pipe' = Append(pipe, n),
                 UNCHANGED <<shown, backlog, cur, pc>>,
                 \A t \in Turns : emitted'[t] = IF IsNote(n, t) THEN emitted[t] + 1
                                               ELSE emitted[t]
          PROVE  AccountInv'
  <2>1. \A t \in Turns : Count(pipe', t) = IF IsNote(n, t) THEN Count(pipe, t) + 1
                                           ELSE Count(pipe, t)
    BY <1>sends, <1>types, CountAppend
  <2>2. ASSUME NEW t \in Turns, t.req = cur
        PROVE  emitted'[t] = shown'[t] + Count(backlog', t) + Count(pipe', t)
    <3>1. emitted[t] = shown[t] + Count(backlog, t) + Count(pipe, t)
      BY <2>2, <1>inv DEF AccountInv
    <3>2. shown[t] \in Nat /\ Count(backlog, t) \in Nat /\ Count(pipe, t) \in Nat
      BY <1>types
    <3>3. QED
      BY <1>sends, <2>1, <3>1, <3>2
  <2>3. QED
    BY <1>sends, <2>2, <1>inv DEF AccountInv
<1>Unchanged. CASE UNCHANGED vars
  BY <1>Unchanged, <1>keeps DEF vars, clientVars, engineVars, historyVars
<1>Arrive. ASSUME NEW r \in Requests, NEW p \in (Requests \union Legacy \union {None}) \ {r},
                 NEW q \in Asks, Arrive(r, p, q)
           PROVE  AccountInv'
  BY <1>Arrive, <1>keeps DEF Arrive, clientVars, engineVars, historyVars
<1>Cancel. ASSUME NEW r \in Requests, Cancel(r) PROVE AccountInv'
  BY <1>Cancel, <1>keeps DEF Cancel, clientVars, engineVars, historyVars
<1>EditConfig. ASSUME NEW c \in Configs, EditConfig(c) PROVE AccountInv'
  BY <1>EditConfig, <1>keeps DEF EditConfig, clientVars, engineVars, historyVars
<1>Acquire. ASSUME NEW r \in Requests, Acquire(r) PROVE AccountInv'
  <2>1. UNCHANGED <<emitted, shown, backlog, pipe>> /\ status[r] = "waiting" /\ cur = None
        /\ ((cur' = r /\ pc' = "resolved") \/ (cur' = None /\ pc' = "free"))
    BY <1>Acquire, <1>typed, AcquireEffect DEF engineVars, clientVars, historyVars
  <2>2. \A t \in Turns : t.req = cur' => ~Made(t)
    BY <2>1, <1>types DEF Made, Finished
  <2>3. QED
    BY <2>1, <2>2, <1>fresh DEF AccountInv
<1>KeepEngine. CASE KeepEngine
  BY <1>KeepEngine, <1>keeps DEF KeepEngine, clientVars, engineVars, historyVars
<1>StopEngine. CASE StopEngine
  <2>1. UNCHANGED <<emitted, shown, cur>> /\ pc = "resolved" /\ pc' = "preparing"
        /\ pipe' = <<>> /\ backlog' = <<>>
    BY <1>StopEngine DEF StopEngine, Restarted, historyVars
  <2>2. \A t \in Turns : t.req = cur => ~Made(t)
    <3>1. cur \in Requests /\ status[cur] = "active" /\ job.try = 1
      BY <2>1, <1>types, <1>inv DEF Typed, TypeOK, Conversation, TriesInv
    <3>2. \A t \in Turns : t.method = "turn" /\ t.try \in {1, 2}
      BY <1>types
    <3>3. QED
      BY <2>1, <3>1, <3>2 DEF Made, Finished
  <2>3. QED
    BY <2>1, <2>2, <1>fresh, <1>types DEF AccountInv
<1>StartEngine. CASE StartEngine
  BY <1>StartEngine, <1>keeps DEF StartEngine, clientVars, engineVars, historyVars
<1>StartFails. CASE StartFails
  BY <1>StartFails, <1>ends DEF StartFails, Finish
<1>UseLoadedThread. CASE UseLoadedThread
  BY <1>UseLoadedThread, <1>keeps
     DEF UseLoadedThread, Call, clientVars, engineVars, historyVars
<1>AskForThread. CASE AskForThread
  BY <1>AskForThread, <1>keeps DEF AskForThread, Call, clientVars, engineVars, historyVars
<1>SetAside. CASE SetAside
  <2>1. UNCHANGED <<emitted, shown, cur, pc>> /\ pc # "driving"
        /\ pipe # <<>> /\ pipe' = Tail(pipe)
        /\ \/ Head(pipe).kind \in {"note", "completed"} /\ backlog' = Append(backlog, Head(pipe))
           \/ Head(pipe).kind \in {"reply", "request"} /\ UNCHANGED backlog
    BY <1>SetAside DEF SetAside, Reading, EngineElse, historyVars, Requesting
  <2>2. CASE UNCHANGED backlog /\ Head(pipe).kind \in {"reply", "request"}
    BY <2>1, <2>2, <1>reads
  <2>3. CASE backlog' = Append(backlog, Head(pipe))
    <3>1. Head(pipe) \in Message /\ Tail(pipe) \in Seq(Message)
      BY <2>1, <1>types, InHead, HeadTailProperties
    <3>2. ASSUME NEW t \in Turns
          PROVE  Count(backlog', t) + Count(pipe', t) = Count(backlog, t) + Count(pipe, t)
      <4>1. /\ Count(pipe', t) \in Nat
            /\ Count(pipe, t) = IF IsNote(Head(pipe), t) THEN Count(pipe', t) + 1
                                ELSE Count(pipe', t)
        BY <2>1, <1>types, <3>1, CountTail, NotesFinite
      <4>2. Count(backlog', t) = IF IsNote(Head(pipe), t) THEN Count(backlog, t) + 1
                                 ELSE Count(backlog, t)
        BY <2>3, <1>types, <3>1, CountAppend
      <4>3. QED
        BY <4>1, <4>2, <1>types
    <3>3. \A t \in Turns : Count(backlog', t) \in Nat /\ Count(pipe', t) \in Nat
      BY <2>1, <2>3, <3>1, <1>types, AppendProperties, NotesFinite
    <3>4. ASSUME NEW t \in Turns, t.req = cur
          PROVE  emitted'[t] = shown'[t] + Count(backlog', t) + Count(pipe', t)
      <4>1. emitted[t] = shown[t] + Count(backlog, t) + Count(pipe, t)
        BY <3>4, <1>inv DEF AccountInv
      <4>2. shown[t] \in Nat /\ Count(backlog, t) \in Nat /\ Count(pipe, t) \in Nat
        BY <1>types
      <4>3. emitted'[t] = emitted[t] /\ shown'[t] = shown[t]
        BY <2>1
      <4>4. /\ Count(backlog', t) + Count(pipe', t) = Count(backlog, t) + Count(pipe, t)
            /\ Count(backlog', t) \in Nat /\ Count(pipe', t) \in Nat
        BY <3>2, <3>3
      <4>5. QED
        BY <4>1, <4>2, <4>3, <4>4
    <3>5. QED
      BY <2>1, <3>4, <1>inv DEF AccountInv
  <2>4. QED
    BY <2>1, <2>2, <2>3
<1>Initialized. CASE Initialized
  BY <1>Initialized, <1>reads
     DEF Initialized, Answered, Reading, EngineElse, Ends, clientVars,
     historyVars
<1>ThreadReady. CASE ThreadReady
  BY <1>ThreadReady, <1>reads DEF ThreadReady, Call, Answered, Reading, EngineElse, Ends,
     clientVars, historyVars
<1>ResumeRefused. CASE ResumeRefused
  BY <1>ResumeRefused, <1>reads DEF ResumeRefused, Call, Answered, Unreadable, Reading,
     EngineElse, Ends, clientVars, historyVars
<1>CallFails. CASE CallFails
  BY <1>CallFails, <1>ends DEF CallFails, Finish
<1>InitializeFails. CASE InitializeFails
  BY <1>InitializeFails, <1>ends DEF InitializeFails, Finish
<1>CallTimesOut. CASE CallTimesOut
  BY <1>CallTimesOut, <1>ends DEF CallTimesOut, Finish
<1>TurnStarted. CASE TurnStarted
  <2>1. /\ UNCHANGED <<emitted, cur>> /\ backlog' = <<>> /\ pipe # <<>> /\ pipe' = Tail(pipe)
        /\ Head(pipe).kind = "reply" /\ Show(backlog)
    BY <1>TurnStarted DEF TurnStarted, Answered, Reading, EngineElse
  <2>2. \A t \in Turns : t.req = cur => shown'[t] = shown[t] + Count(backlog, t)
    BY <2>1, <1>typed, <1>types, ShowEffect DEF Told
  <2>3. \A t \in Turns : Count(pipe', t) = Count(pipe, t)
    BY <2>1, <1>types, CountTail DEF IsNote
  <2>4. QED
    BY <2>1, <2>2, <2>3, <1>types, <1>inv DEF AccountInv
<1>TurnReports. CASE TurnReports
  <2>1. /\ UNCHANGED <<emitted, cur, backlog, pc>> /\ pc = "driving"
        /\ pipe # <<>> /\ pipe' = Tail(pipe)
        /\ \/ Show(<<Head(pipe)>>)
           \/ Head(pipe).kind \in {"reply", "request"} /\ UNCHANGED shown
    BY <1>TurnReports
       DEF TurnReports, NextLine, Reading, EngineElse, clientVars, historyVars
  <2>2. CASE Head(pipe).kind \in {"reply", "request"} /\ UNCHANGED shown
    BY <2>1, <2>2, <1>reads
  <2>3. CASE Show(<<Head(pipe)>>)
    <3>1. /\ Head(pipe) \in Message /\ Tail(pipe) \in Seq(Message)
          /\ <<Head(pipe)>> \in Seq(Message)
      BY <2>1, <1>types, InHead, HeadTailProperties, CountSingle
    <3>2. ASSUME NEW t \in Turns, t.req = cur
          PROVE  emitted'[t] = shown'[t] + Count(backlog', t) + Count(pipe', t)
      <4>1. /\ Count(pipe', t) \in Nat
            /\ Count(pipe, t) = IF IsNote(Head(pipe), t) THEN Count(pipe', t) + 1
                                ELSE Count(pipe', t)
        BY <2>1, <1>types, <3>1, CountTail, NotesFinite
      <4>2. shown'[t] = shown[t] + Count(<<Head(pipe)>>, t)
        BY <2>3, <3>1, <3>2, <1>typed, ShowEffect DEF Told
      <4>3. Count(<<Head(pipe)>>, t) = IF IsNote(Head(pipe), t) THEN 1 ELSE 0
        BY <3>1, CountSingle
      <4>4. emitted[t] = shown[t] + Count(backlog, t) + Count(pipe, t)
        BY <3>2, <1>inv DEF AccountInv
      <4>5. QED
        BY <4>1, <4>2, <4>3, <4>4, <2>1, <1>types
    <3>3. QED
      BY <2>1, <3>2, <1>inv DEF AccountInv
  <2>4. QED
    BY <2>1, <2>2, <2>3
<1>TurnSucceeds. CASE TurnSucceeds
  BY <1>TurnSucceeds, <1>ends DEF TurnSucceeds, Finish
<1>TurnFails. CASE TurnFails
  BY <1>TurnFails, <1>ends DEF TurnFails, Finish
<1>RetryInNewThread. CASE RetryInNewThread
  BY <1>RetryInNewThread, <1>reads DEF RetryInNewThread, Call, Answered, NextLine, Reading,
     EngineElse, Ends, clientVars, historyVars
<1>TurnBreaks. CASE TurnBreaks
  BY <1>TurnBreaks, <1>ends DEF TurnBreaks, Finish
<1>TurnIdles. CASE TurnIdles
  BY <1>TurnIdles, <1>ends DEF TurnIdles, Finish
<1>TurnCancelled. CASE TurnCancelled
  BY <1>TurnCancelled, <1>ends DEF TurnCancelled, Finish
<1>CallerLeaves. CASE CallerLeaves
  BY <1>CallerLeaves, <1>typed, <1>ends, LeavesEffect
<1>EngineAnswers. ASSUME NEW tag \in inbox, NEW result \in {"ok", "error", "poisoned"},
                         EngineAnswers(tag, result)
                  PROVE  AccountInv'
  <2> DEFINE m == [kind |-> "reply", tag |-> tag, info |-> result]
  <2>1. /\ pipe' = Append(pipe, m) /\ UNCHANGED <<shown, backlog, cur, pc>>
        /\ UNCHANGED emitted
    BY <1>EngineAnswers DEF EngineAnswers, Send, EngineStep, clientVars, historyVars
  <2>2. m.kind = "reply" /\ m \in Message
    BY <1>EngineAnswers, <1>types, SentFields
  <2> HIDE DEF m
  <2>3. \A u \in Turns : emitted'[u] = IF IsNote(m, u) THEN emitted[u] + 1 ELSE emitted[u]
    BY <2>1, <2>2, <1>types DEF IsNote
  <2>4. QED
    BY <2>1, <2>2, <2>3, <1>sends
<1>EngineBegins. ASSUME NEW tag \in inbox, EngineBegins(tag) PROVE AccountInv'
  BY <1>EngineBegins, <1>keeps DEF EngineBegins, EngineStep, clientVars, historyVars
<1>EngineNotes. ASSUME NEW t \in engineTurns, NEW info \in {"tool", "speech"}, EngineNotes(t, info)
                PROVE  AccountInv'
  <2> DEFINE m == [kind |-> "note", tag |-> t, info |-> info]
  <2>1. /\ pipe' = Append(pipe, m) /\ UNCHANGED <<shown, backlog, cur, pc>>
        /\ emitted' = [emitted EXCEPT ![t] = @ + 1]
    BY <1>EngineNotes DEF EngineNotes, Send, EngineStep, clientVars, historyVars
  <2>2. m.kind = "note" /\ m \in Message /\ m.tag = t
    BY <1>EngineNotes, <1>types, SentFields
  <2> HIDE DEF m
  <2>3. \A u \in Turns : emitted'[u] = IF IsNote(m, u) THEN emitted[u] + 1 ELSE emitted[u]
    BY <2>1, <2>2, <1>types DEF IsNote
  <2>4. QED
    BY <2>1, <2>2, <2>3, <1>sends
<1>EngineCompletes. ASSUME NEW t \in engineTurns, NEW info \in {"ok", "failed", "poisoned"},
                           EngineCompletes(t, info)
                    PROVE  AccountInv'
  <2> DEFINE m == [kind |-> "completed", tag |-> t, info |-> info]
  <2>1. /\ pipe' = Append(pipe, m) /\ UNCHANGED <<shown, backlog, cur, pc>>
        /\ UNCHANGED emitted
    BY <1>EngineCompletes DEF EngineCompletes, Send, EngineStep, clientVars, historyVars
  <2>2. m.kind = "completed" /\ m \in Message
    BY <1>EngineCompletes, <1>types, SentFields
  <2> HIDE DEF m
  <2>3. \A u \in Turns : emitted'[u] = IF IsNote(m, u) THEN emitted[u] + 1 ELSE emitted[u]
    BY <2>1, <2>2, <1>types DEF IsNote
  <2>4. QED
    BY <2>1, <2>2, <2>3, <1>sends
<1>EngineAsks. ASSUME NEW tag \in inbox \union engineTurns, EngineAsks(tag) PROVE AccountInv'
  <2> DEFINE m == [kind |-> "request", tag |-> tag]
  <2>1. /\ pipe' = Append(pipe, m) /\ UNCHANGED <<shown, backlog, cur, pc>>
        /\ UNCHANGED emitted
    BY <1>EngineAsks DEF EngineAsks, Send, EngineStep, clientVars, historyVars
  <2>2. m.kind = "request" /\ m \in Message
    BY <1>EngineAsks, <1>types, SentFields
  <2> HIDE DEF m
  <2>3. \A u \in Turns : emitted'[u] = IF IsNote(m, u) THEN emitted[u] + 1 ELSE emitted[u]
    BY <2>1, <2>2, <1>types DEF IsNote
  <2>4. QED
    BY <2>1, <2>2, <2>3, <1>sends
<1>EngineReads. CASE EngineReads
  BY <1>EngineReads, <1>keeps DEF EngineReads, clientVars, historyVars
<1>EngineGarbles. CASE EngineGarbles
  <2> DEFINE m == [kind |-> "garbage"]
  <2>1. /\ pipe' = Append(pipe, m) /\ UNCHANGED <<shown, backlog, cur, pc>>
        /\ UNCHANGED emitted
    BY <1>EngineGarbles DEF EngineGarbles, Send, EngineStep, clientVars, historyVars
  <2>2. m.kind = "garbage" /\ m \in Message
    BY <1>EngineGarbles, <1>types, SentFields
  <2> HIDE DEF m
  <2>3. \A u \in Turns : emitted'[u] = IF IsNote(m, u) THEN emitted[u] + 1 ELSE emitted[u]
    BY <2>1, <2>2, <1>types DEF IsNote
  <2>4. QED
    BY <2>1, <2>2, <2>3, <1>sends
<1>EngineExits. CASE EngineExits
  BY <1>EngineExits, <1>keeps DEF EngineExits, clientVars, historyVars
<1> QED
  BY <1>Unchanged, <1>Arrive, <1>Cancel, <1>EditConfig, <1>Acquire, <1>KeepEngine,
     <1>StopEngine, <1>StartEngine, <1>StartFails, <1>UseLoadedThread, <1>AskForThread,
     <1>SetAside, <1>Initialized, <1>ThreadReady, <1>ResumeRefused, <1>CallFails,
     <1>InitializeFails, <1>CallTimesOut, <1>TurnStarted, <1>TurnReports,
     <1>TurnSucceeds, <1>TurnFails, <1>RetryInNewThread, <1>TurnBreaks, <1>TurnIdles,
     <1>TurnCancelled, <1>CallerLeaves, <1>EngineAnswers, <1>EngineBegins,
     <1>EngineNotes, <1>EngineCompletes, <1>EngineAsks, <1>EngineReads,
     <1>EngineGarbles, <1>EngineExits
     DEF Next, Callers, Holder, Engine

(* A turn that was repeated, or completed, is over and was shown whole.    *)
Over(t) == t \notin inbox \union engineTurns /\ shown[t] = emitted[t]

(* A turn that ends in its own completion, all lines before it read, or    *)
(* that the engine refused to start, is over.                              *)

LEMMA EndIsOver ==
  ASSUME Typed, TriesInv, MadeInv, AnsweredInv, TurnsInv, FreshInv, AccountInv,
         pc # "free", pipe # <<>>, Head(pipe).tag = TurnOf(cur, job.try),
         \/ pc = "driving" /\ Head(pipe).kind = "completed"
         \/ pc = "turning" /\ Head(pipe).kind = "reply" /\ Head(pipe).info # "ok"
  PROVE  Over(TurnOf(cur, job.try))
<1> DEFINE t == TurnOf(cur, job.try)
<1>1. /\ Typed /\ TypeOK /\ pipe \in Seq(Message) /\ backlog \in Seq(Message)
      /\ emitted \in [Turns -> 0..MaxNotes] /\ shown \in [Turns -> Nat]
      /\ cur \in Requests /\ job.try \in {1, 2} /\ Head(pipe) \in In(pipe)
      /\ Tail(pipe) \in Seq(Message)
  BY JobType, QueueFacts, HeadTailProperties DEF Typed, TypeOK
<1>2. t \in Turns /\ t \in Tags /\ t.method = "turn" /\ t.req = cur
  BY <1>1 DEF TurnOf, Turns, Tags
<1>3. /\ emitted[t] = shown[t] + Count(backlog, t) + Count(pipe, t)
      /\ Count(backlog, t) \in Nat /\ Count(pipe, t) \in Nat
      /\ emitted[t] \in Nat /\ shown[t] \in Nat
  BY <1>1, <1>2, NotesFinite, RuntimeAssumption DEF AccountInv
<1> HIDE DEF t
<1>4. Head(pipe).tag = t
  BY DEF t
<1>5. CASE pc = "driving" /\ Head(pipe).kind = "completed"
  <2>1. t \notin inbox \union engineTurns
    BY <1>1, <1>4, <1>5 DEF TurnsInv
  <2>2. \A m \in In(Tail(pipe)) : ~IsNote(m, t)
    <3>1. ~Late(pipe, t) /\ Ending(Head(pipe), t)
      BY <1>2, <1>4, <1>5 DEF TurnsInv, Ending
    <3>2. QED
      BY <3>1, <1>1, LateTail DEF IsNote, Event
  <2>3. Count(Tail(pipe), t) = 0
    BY <1>1, <2>2, CountZero
  <2>4. Count(pipe, t) = 0
    BY <1>1, <1>5, <2>3, CountTail DEF IsNote
  <2>5. Count(backlog, t) = 0
    <3>1. backlog = <<>>
      BY <1>5 DEF AccountInv
    <3>2. \A m \in In(backlog) : ~IsNote(m, t)
      BY <3>1, InEmpty
    <3>3. QED
      BY <1>1, <3>2, CountZero
  <2>6. QED
    BY <1>3, <2>1, <2>4, <2>5 DEF Over, t
<1>6. CASE pc = "turning" /\ Head(pipe).kind = "reply" /\ Head(pipe).info # "ok"
  <2>1. t \notin engineTurns /\ emitted[t] = 0 /\ t \notin inbox
    BY <1>1, <1>2, <1>4, <1>6 DEF TurnsInv, AnsweredInv
  <2>2. QED
    BY <1>3, <2>1 DEF Over, t
<1>7. QED
  BY <1>5, <1>6

(* What is over stays over, if it is not asked for again.                  *)
LEMMA OverStays ==
  ASSUME Typed, MadeInv, AccountInv, Effects, [Next]_vars, NEW t \in Turns,
         Over(t), t \notin inbox' \ inbox
  PROVE  Over(t)'
<1>1. /\ Typed /\ TypeOK /\ emitted \in [Turns -> 0..MaxNotes] /\ shown \in [Turns -> Nat]
      /\ Count(backlog, t) \in Nat /\ Count(pipe, t) \in Nat
      /\ shown[t] \in Nat /\ emitted[t] \in Nat
  BY NotesFinite, RuntimeAssumption DEF Typed, TypeOK
<1>2. t \notin inbox' \union engineTurns' /\ emitted'[t] = emitted[t]
  BY DEF Over, Effects
<1>3. CASE UNCHANGED historyVars
  BY <1>2, <1>3 DEF Over, historyVars
<1>4. ASSUME NEW s \in Seq(Message), Told(s), Count(s, t) <= Count(backlog, t) + Count(pipe, t)
      PROVE  Over(t)'
  <2>1. t.req = cur => Count(backlog, t) + Count(pipe, t) = 0
    BY <1>1 DEF Over, AccountInv
  <2>2. Count(s, t) \in Nat
    BY NotesFinite
  <2>3. t.req = cur => Count(s, t) = 0
    BY <1>1, <1>4, <2>1, <2>2
  <2>4. shown'[t] = shown[t]
    BY <1>1, <1>4, <2>3 DEF Told
  <2>5. QED
    BY <1>2, <2>4 DEF Over
<1>5. QED
  BY <1>3, <1>4, StepTells

(* What is over and was not heard of stays unheard of.                     *)
LEMMA OverUnheard ==
  ASSUME Typed, MadeInv, AccountInv, [Next]_vars, NEW t \in Turns, t.req = cur,
         Over(t), t \notin heard
  PROVE  t \notin heard'
<1>1. CASE UNCHANGED historyVars
  BY <1>1 DEF historyVars
<1>2. ASSUME NEW s \in Seq(Message), Told(s),
             Count(s, t) <= Count(backlog, t) + Count(pipe, t)
      PROVE  t \notin heard'
  <2>1. /\ Count(backlog, t) \in Nat /\ Count(pipe, t) \in Nat /\ Count(s, t) \in Nat
        /\ shown[t] \in Nat /\ emitted[t] = shown[t] + Count(backlog, t) + Count(pipe, t)
        /\ shown[t] = emitted[t]
    BY NotesFinite DEF Typed, TypeOK, AccountInv, Over
  <2>2. Count(s, t) = 0
    BY <1>2, <2>1
  <2>3. \A m \in In(s) : ~IsNote(m, t)
    BY <2>2, CountZero
  <2>4. QED
    BY <1>2, <2>3 DEF Told
<1>3. QED
  BY <1>1, <1>2, StepTells

(* The first turn of a request that is in its second attempt is over, and  *)
(* its caller heard nothing of it.                                         *)
RepeatInv ==
  pc # "free" /\ job.try = 2 => Over(TurnOf(cur, 1)) /\ TurnOf(cur, 1) \notin heard

(* Every step keeps a repeated turn over and unheard.                      *)
LEMMA RepeatStep ==
  ASSUME Typed, TriesInv, MadeInv, AnsweredInv, TurnsInv, FreshInv, AccountInv, SilentInv,
         RepeatInv, [Next]_vars
  PROVE  RepeatInv'
<1>1. SUFFICES ASSUME pc' # "free", job'.try = 2
               PROVE  Over(TurnOf(cur, 1))' /\ TurnOf(cur, 1)' \notin heard'
  BY DEF RepeatInv
<1>2. Typed /\ TypeOK /\ Effects /\ (pc = "free" <=> cur = None) /\ cur \in Requests \union {None}
  BY StepEffects DEF Typed, TypeOK
<1>3. CASE RetryInNewThread
  <2>1. /\ UNCHANGED <<cur, engineTurns, emitted, shown, heard>>
        /\ \/ /\ pc = "driving" /\ pipe # <<>> /\ Head(pipe).kind = "completed"
              /\ Head(pipe).tag = TurnOf(cur, job.try) /\ ~job.spoke
           \/ /\ pc = "turning" /\ pipe # <<>> /\ Head(pipe).kind = "reply"
              /\ Head(pipe).tag = Waiting /\ Head(pipe).info = "poisoned"
        /\ job.try = 1
    BY <1>3 DEF RetryInNewThread, NextLine, Reading, Ends, MayRetry, Answered, EngineElse,
                historyVars, TurnOf
  <2>2. Over(TurnOf(cur, 1))
    BY <2>1, EndIsOver, WaitingTag
  <2>3. cur \in Requests /\ TurnOf(cur, 1) \in Turns /\ TurnOf(cur, 1).method = "turn"
    BY <1>2, <2>1 DEF TurnOf, Turns, Tags
  <2>4. TurnOf(cur, 1) \notin inbox'
    <3>1. inbox' \subseteq inbox \union {[method |-> "start", req |-> cur, try |-> 2]}
      BY <1>3 DEF RetryInNewThread, Call
    <3>2. QED
      BY <3>1, <2>2, <2>3 DEF Over
  <2>5. TurnOf(cur, 1) \notin heard
    BY <2>1 DEF SilentInv
  <2>6. TurnOf(cur, 1)' = TurnOf(cur, 1)
    BY <2>1 DEF TurnOf
  <2>7. QED
    BY <2>1, <2>2, <2>4, <2>5, <2>6 DEF Over
<1>4. CASE ~RetryInNewThread
  <2>1. pc # "free" /\ cur' = cur /\ job.try = 2 /\ cur \in Requests
    BY <1>1, <1>2, <1>4 DEF Effects
  <2>t. PICK t \in Turns : t = TurnOf(cur, 1)
    BY <2>1 DEF TurnOf, Turns, Tags
  <2>2. t \in Turns /\ t \in Tags /\ t.method = "turn" /\ t.req = cur /\ t.try = 1
    BY <2>1, <2>t DEF TurnOf, Turns, Tags
  <2>3. Over(t) /\ t \notin heard
    BY <2>1, <2>t DEF RepeatInv
  <2>4. TurnOf(cur, 1)' = t
    BY <2>1, <2>t DEF TurnOf
  <2>5. Made(t)
    BY <2>1, <2>2 DEF Made
  <2>6. t \notin inbox' \ inbox
    BY <2>5, NewCalls DEF NewCallsMade
  <2>7. Over(t)'
    BY <1>2, <2>2, <2>3, <2>6, OverStays
  <2>8. t \notin heard'
    BY <1>2, <2>2, <2>3, OverUnheard
  <2>9. QED
    BY <2>4, <2>7, <2>8
<1>5. QED
  BY <1>3, <1>4

(* The turns of a response that completed are over.                        *)
CompleteInv == \A t \in Turns : status[t.req] = "ok" => Over(t)

(* Every step keeps the turns of a completed response over.                *)
LEMMA CompleteStep ==
  ASSUME Typed, TriesInv, MadeInv, AnsweredInv, TurnsInv, FreshInv, AccountInv, RepeatInv,
         CompleteInv, [Next]_vars
  PROVE  CompleteInv'
<1>1. SUFFICES ASSUME NEW t \in Turns, status'[t.req] = "ok" PROVE Over(t)'
  BY DEF CompleteInv
<1>2. /\ Typed /\ TypeOK /\ Effects /\ t \in Tags /\ t.method = "turn" /\ t.req \in Requests
      /\ \A r \in Requests : status[r] = "active" <=> r = cur
      /\ job.try \in {1, 2} /\ t.try \in {1, 2} /\ (pc = "free" <=> cur = None)
      /\ None \notin Requests
  BY StepEffects, JobType, RuntimeAssumption DEF Typed, TypeOK, Turns, Tags, Conversation
<1>3. t = TurnOf(t.req, t.try)
  BY <1>2, TurnOfFields
<1>4. CASE status[t.req] = "ok"
  <2>1. t.req # cur /\ Over(t)
    BY <1>2, <1>4 DEF CompleteInv
  <2>2. t \notin inbox' \ inbox
    BY <2>1, NewCalls DEF NewCallsMade
  <2>3. QED
    BY <1>2, <2>1, <2>2, OverStays
<1>5. CASE status[t.req] # "ok"
  <2>1. t.req = cur /\ TurnSucceeds
    BY <1>1, <1>2, <1>5 DEF Effects
  <2>2. /\ UNCHANGED <<inbox, engineTurns, emitted, shown>> /\ pc = "driving" /\ pipe # <<>>
        /\ Head(pipe).kind = "completed" /\ Head(pipe).tag = TurnOf(cur, job.try)
    BY <2>1 DEF TurnSucceeds, NextLine, Reading, Ends, EngineElse, historyVars, TurnOf
  <2>3. Over(TurnOf(cur, job.try))
    BY <2>2, EndIsOver
  <2>4. Over(t)
    <3>1. CASE t.try = job.try
      BY <1>3, <2>1, <2>3, <3>1
    <3>2. CASE job.try = 2 /\ t.try = 1
      BY <1>3, <2>1, <2>2, <3>2 DEF RepeatInv
    <3>3. CASE job.try = 1 /\ t.try = 2
      <4>1. ~Made(t)
        BY <1>2, <2>1, <3>3 DEF Made, Finished
      <4>2. QED
        BY <4>1 DEF MadeInv, FreshInv, TurnsInv, Over
    <3>4. QED
      BY <1>2, <3>1, <3>2, <3>3
  <2>5. QED
    BY <2>2, <2>4 DEF Over
<1>6. QED
  BY <1>4, <1>5

(* A second attempt the engine knows of follows a silent first one.        *)
LEMMA RepeatSilentStep ==
  ASSUME Typed, TriesInv, MadeInv, AccountInv, RepeatInv, RepeatInv', MadeInv', Typed',
         NoRepeatAfterSpeech, [Next]_vars
  PROVE  NoRepeatAfterSpeech'
<1>1. SUFFICES ASSUME NEW t \in inbox' \union engineTurns', t.method = "turn", t.try = 2
               PROVE  [t EXCEPT !.try = 1] \notin heard'
  BY DEF NoRepeatAfterSpeech
<1>2. /\ Typed /\ TypeOK /\ Effects /\ inbox \subseteq Tags /\ engineTurns \subseteq Turns
      /\ inbox' \subseteq Tags /\ engineTurns' \subseteq Turns /\ Turns \subseteq Tags
      /\ heard \subseteq Turns /\ (pc = "free" <=> cur = None)
      /\ cur \in Requests \union {None} /\ None \notin Requests
      /\ (pc' = "free" <=> cur' = None) /\ job'.try \in {1, 2} /\ job.try \in {1, 2}
      /\ \A r \in Requests : status'[r] = "active" <=> r = cur'
  <2>1. job' \in Job /\ job \in Job
    BY DEF Typed, TypeOK
  <2>2. QED
    BY <2>1, StepEffects, RuntimeAssumption DEF Typed, TypeOK, Turns, Conversation, Job
<1>3. /\ t \in Tags /\ t.req \in Requests /\ Made(t)'
      /\ [t EXCEPT !.try = 1] = TurnOf(t.req, 1) /\ TurnOf(t.req, 1).req = t.req
  BY <1>1, <1>2 DEF Tags, TurnOf, MadeInv
<1>4. CASE t.req = cur'
  <2>1. job'.try = 2 /\ pc' # "free"
    BY <1>1, <1>2, <1>3, <1>4 DEF Made, Finished
  <2>2. TurnOf(cur, 1)' = TurnOf(t.req, 1)
    BY <1>4 DEF TurnOf
  <2>3. QED
    BY <1>3, <2>1, <2>2 DEF RepeatInv
<1>5. CASE t.req # cur'
  <2>1. t \in inbox \union engineTurns
    BY <1>1, <1>2, <1>5, NewCalls DEF NewCallsMade, Effects
  <2>2. TurnOf(t.req, 1) \notin heard
    BY <1>1, <1>3, <2>1 DEF NoRepeatAfterSpeech
  <2>3. CASE UNCHANGED historyVars
    BY <1>3, <2>2, <2>3 DEF historyVars
  <2>4. CASE t.req = cur
    <3>1. pc # "free" /\ status[cur] = "active" /\ Made(t)
      BY <1>2, <1>3, <2>1, <2>4 DEF MadeInv, Typed, Conversation
    <3>2. job.try = 2
      BY <1>1, <1>2, <2>4, <3>1 DEF Made, Finished
    <3>3. PICK u \in Turns : u = TurnOf(cur, 1)
      BY <1>3, <2>4 DEF TurnOf, Turns, Tags
    <3>4. u.req = cur /\ Over(u) /\ u \notin heard
      BY <3>1, <3>2, <3>3, <1>3, <2>4 DEF RepeatInv
    <3>5. u \notin heard'
      BY <3>4, OverUnheard
    <3>6. QED
      BY <1>3, <2>4, <3>3, <3>5
  <2>5. ASSUME NEW s \in Seq(Message), Told(s), t.req # cur
        PROVE  TurnOf(t.req, 1) \notin heard'
    BY <1>3, <2>2, <2>5 DEF Told
  <2>6. QED
    BY <1>3, <2>3, <2>4, <2>5, StepTells
<1>6. QED
  BY <1>4, <1>5

-----------------------------------------------------------------------------
(* Nobody is shown another request's events                                *)

(* A turn the engine has not begun, or has refused, has no report in any   *)
(* queue.                                                                  *)
Unreported(t) == \A m \in In(pipe) \union In(backlog) : ~Event(m, t)

RefusedInv ==
  /\ \A t \in inbox : t.method = "turn" /\ t \notin engineTurns => Unreported(t)
  /\ \A m \in In(pipe) :
       m.kind = "reply" /\ m.tag.method = "turn" /\ m.info # "ok" => Unreported(m.tag)

(* Every step keeps refused turns out of the queues.                       *)
LEMMA RefusedStep ==
  ASSUME Typed, TriesInv, MadeInv, AnsweredInv, TurnsInv, RefusedInv, [Next]_vars
  PROVE  RefusedInv'
<1>typed. Typed /\ TypeOK
  BY DEF Typed
<1>types. /\ inbox \subseteq Tags /\ engineTurns \subseteq Turns
          /\ \A t \in Turns : t \in Tags /\ t.method = "turn"
          /\ In(<<>>) = {}
          /\ pipe # <<>> =>
               /\ Head(pipe) \in In(pipe) /\ In(Tail(pipe)) \subseteq In(pipe)
               /\ In(Append(backlog, Head(pipe))) = In(backlog) \union {Head(pipe)}
  BY <1>typed, QueueFacts DEF TypeOK, Turns
<1>inv. MadeInv /\ AnsweredInv /\ TurnsInv /\ RefusedInv
  OBVIOUS
<1>calls. \A t \in inbox' \ inbox : Unreported(t)
  BY <1>typed, NewCalls DEF NewCallsMade, MadeInv, Unreported, Event
(* A step in which the adapter only moves or drops lines and makes calls.  *)
<1>reads. ASSUME UNCHANGED engineTurns, In(pipe') \subseteq In(pipe),
                 In(backlog') \subseteq In(backlog) \union In(pipe)
          PROVE  RefusedInv'
  <2>1. \A t : Unreported(t) => Unreported(t)'
    BY <1>reads DEF Unreported
  <2>2. QED
    BY <1>reads, <2>1, <1>inv, <1>calls DEF RefusedInv
<1>stops. ASSUME Restarted PROVE RefusedInv'
  BY <1>stops, <1>types DEF RefusedInv, Restarted
<1>Unchanged. CASE UNCHANGED vars
  BY <1>Unchanged, <1>reads DEF vars, clientVars, engineVars
<1>Arrive. ASSUME NEW r \in Requests, NEW p \in (Requests \union Legacy \union {None}) \ {r},
                 NEW q \in Asks, Arrive(r, p, q)
           PROVE  RefusedInv'
  BY <1>Arrive, <1>types, <1>reads DEF Arrive, clientVars, engineVars
<1>Cancel. ASSUME NEW r \in Requests, Cancel(r) PROVE RefusedInv'
  BY <1>Cancel, <1>types, <1>reads DEF Cancel, clientVars, engineVars
<1>EditConfig. ASSUME NEW c \in Configs, EditConfig(c) PROVE RefusedInv'
  BY <1>EditConfig, <1>types, <1>reads DEF EditConfig, clientVars, engineVars
<1>Acquire. ASSUME NEW r \in Requests, Acquire(r) PROVE RefusedInv'
  BY <1>Acquire, <1>typed, <1>reads, AcquireEffect DEF clientVars, engineVars
<1>KeepEngine. CASE KeepEngine
  BY <1>KeepEngine, <1>types, <1>reads DEF KeepEngine, clientVars, engineVars
<1>StopEngine. CASE StopEngine
  BY <1>StopEngine, <1>stops DEF StopEngine
<1>StartEngine. CASE StartEngine
  BY <1>StartEngine, <1>types, <1>reads DEF StartEngine, clientVars, engineVars
<1>StartFails. CASE StartFails
  BY <1>StartFails, <1>types, <1>reads DEF StartFails, Finish, clientVars, engineVars
<1>UseLoadedThread. CASE UseLoadedThread
  BY <1>UseLoadedThread, <1>types, <1>reads
     DEF UseLoadedThread, Call, clientVars, engineVars
<1>AskForThread. CASE AskForThread
  BY <1>AskForThread, <1>types, <1>reads DEF AskForThread, Call, clientVars, engineVars
<1>SetAside. CASE SetAside
  BY <1>SetAside, <1>types, <1>reads
     DEF SetAside, Reading, EngineElse, clientVars, engineVars
<1>Initialized. CASE Initialized
  BY <1>Initialized, <1>types, <1>reads DEF Initialized, Answered, Reading, EngineElse,
     clientVars, engineVars
<1>ThreadReady. CASE ThreadReady
  BY <1>ThreadReady, <1>types, <1>reads
     DEF ThreadReady, Call, Answered, Reading, EngineElse,
     clientVars, engineVars
<1>ResumeRefused. CASE ResumeRefused
  BY <1>ResumeRefused, <1>types, <1>reads DEF ResumeRefused, Call, Answered, Unreadable,
     Reading, EngineElse, clientVars, engineVars
<1>CallFails. CASE CallFails
  BY <1>CallFails, <1>types, <1>reads
     DEF CallFails, Finish, Answered, Unreadable, EndOfFile,
     Reading, EngineElse, clientVars, engineVars
<1>InitializeFails. CASE InitializeFails
  BY <1>InitializeFails, <1>stops DEF InitializeFails
<1>CallTimesOut. CASE CallTimesOut
  BY <1>CallTimesOut, <1>stops DEF CallTimesOut
<1>TurnStarted. CASE TurnStarted
  BY <1>TurnStarted, <1>types, <1>reads DEF TurnStarted, Answered, Reading, EngineElse,
     clientVars, engineVars
<1>TurnReports. CASE TurnReports
  BY <1>TurnReports, <1>types, <1>reads DEF TurnReports, NextLine, Reading, EngineElse,
     clientVars, engineVars
<1>TurnSucceeds. CASE TurnSucceeds
  BY <1>TurnSucceeds, <1>types, <1>reads DEF TurnSucceeds, Finish, NextLine, Reading,
     EngineElse, clientVars, engineVars
<1>TurnFails. CASE TurnFails
  BY <1>TurnFails, <1>types, <1>reads DEF TurnFails, Finish, NextLine, Reading, EngineElse,
     clientVars, engineVars
<1>RetryInNewThread. CASE RetryInNewThread
  BY <1>RetryInNewThread, <1>types, <1>reads DEF RetryInNewThread, Call, Answered, NextLine,
     Reading, EngineElse, clientVars, engineVars
<1>TurnBreaks. CASE TurnBreaks
  BY <1>TurnBreaks, <1>types, <1>reads DEF TurnBreaks, Finish, Unreadable, EndOfFile,
     EngineElse, clientVars, engineVars
<1>TurnIdles. CASE TurnIdles
  BY <1>TurnIdles, <1>stops DEF TurnIdles
<1>TurnCancelled. CASE TurnCancelled
  BY <1>TurnCancelled, <1>stops DEF TurnCancelled
<1>CallerLeaves. CASE CallerLeaves
  BY <1>CallerLeaves, <1>typed, <1>reads, LeavesEffect, LeavesQueues
<1>EngineAnswers. ASSUME NEW tag \in inbox, NEW result \in {"ok", "error", "poisoned"},
                         EngineAnswers(tag, result)
                  PROVE  RefusedInv'
  <2> DEFINE m == [kind |-> "reply", tag |-> tag, info |-> result]
  <2>1. /\ pipe' = Append(pipe, m) /\ UNCHANGED backlog
        /\ inbox' = inbox \ {tag}
        /\ engineTurns \subseteq engineTurns' /\ (tag \in engineTurns => result = "ok")
    BY <1>EngineAnswers DEF EngineAnswers, Send, EngineStep, clientVars
  <2>2. m.kind = "reply" /\ m \in Message /\ m.tag = tag /\ m.info = result
    BY <1>EngineAnswers, <1>types, SentFields
  <2> HIDE DEF m
  <2>3. In(pipe') = In(pipe) \union {m}
    BY <1>typed, <2>1, <2>2, QueueFacts
  <2>4. \A u : Unreported(u) => Unreported(u)'
    BY <2>1, <2>2, <2>3 DEF Unreported, Event
  <2>5. result # "ok" /\ tag.method = "turn" => Unreported(tag)
    BY <1>EngineAnswers, <2>1, <1>inv DEF RefusedInv
  <2>6. QED
    BY <2>1, <2>2, <2>3, <2>4, <2>5, <1>inv DEF RefusedInv
<1>EngineBegins. ASSUME NEW tag \in inbox, EngineBegins(tag) PROVE RefusedInv'
  <2>1. engineTurns' = engineTurns \union {tag} /\ UNCHANGED <<inbox, pipe, backlog>>
        /\ tag.method = "turn"
    BY <1>EngineBegins DEF EngineBegins, EngineStep, clientVars
  <2>2. QED
    BY <2>1, <1>inv DEF RefusedInv, Unreported
<1>EngineNotes. ASSUME NEW t \in engineTurns, NEW info \in {"tool", "speech"}, EngineNotes(t, info)
                PROVE  RefusedInv'
  <2> DEFINE m == [kind |-> "note", tag |-> t, info |-> info]
  <2>1. /\ pipe' = Append(pipe, m) /\ UNCHANGED backlog
        /\ UNCHANGED <<engineTurns, inbox>>
    BY <1>EngineNotes DEF EngineNotes, Send, EngineStep, clientVars
  <2>2. m.kind = "note" /\ m \in Message /\ m.tag = t
    BY <1>EngineNotes, <1>types, SentFields
  <2> HIDE DEF m
  <2>3. In(pipe') = In(pipe) \union {m}
    BY <1>typed, <2>1, <2>2, QueueFacts
  <2>4. \A u : u # t /\ Unreported(u) => Unreported(u)'
    BY <2>1, <2>2, <2>3 DEF Unreported, Event
  <2>5. QED
    BY <1>EngineNotes, <2>1, <2>2, <2>3, <2>4, <1>inv DEF RefusedInv, TurnsInv
<1>EngineCompletes. ASSUME NEW t \in engineTurns, NEW info \in {"ok", "failed", "poisoned"},
                           EngineCompletes(t, info)
                    PROVE  RefusedInv'
  <2> DEFINE m == [kind |-> "completed", tag |-> t, info |-> info]
  <2>1. /\ pipe' = Append(pipe, m) /\ UNCHANGED backlog
        /\ engineTurns' = engineTurns \ {t} /\ t \notin inbox /\ UNCHANGED inbox
    BY <1>EngineCompletes DEF EngineCompletes, Send, EngineStep, clientVars
  <2>2. m.kind = "completed" /\ m \in Message /\ m.tag = t
    BY <1>EngineCompletes, <1>types, SentFields
  <2> HIDE DEF m
  <2>3. In(pipe') = In(pipe) \union {m}
    BY <1>typed, <2>1, <2>2, QueueFacts
  <2>4. \A u : u # t /\ Unreported(u) => Unreported(u)'
    BY <2>1, <2>2, <2>3 DEF Unreported, Event
  <2>5. QED
    BY <1>EngineCompletes, <2>1, <2>2, <2>3, <2>4, <1>inv DEF RefusedInv, TurnsInv
<1>EngineAsks. ASSUME NEW tag \in inbox \union engineTurns, EngineAsks(tag) PROVE RefusedInv'
  <2> DEFINE m == [kind |-> "request", tag |-> tag]
  <2>1. /\ pipe' = Append(pipe, m) /\ UNCHANGED backlog
        /\ UNCHANGED <<engineTurns, inbox>>
    BY <1>EngineAsks DEF EngineAsks, Send, EngineStep, clientVars
  <2>2. m.kind = "request" /\ m \in Message /\ m.tag = tag /\ tag \in inbox \union engineTurns
    BY <1>EngineAsks, <1>types, SentFields
  <2> HIDE DEF m
  <2>3. In(pipe') = In(pipe) \union {m}
    BY <1>typed, <2>1, <2>2, QueueFacts
  <2>4. \A u : Unreported(u) => Unreported(u)'
    BY <2>1, <2>2, <2>3 DEF Unreported, Event
  <2>5. QED
    BY <2>1, <2>2, <2>3, <2>4, <1>inv DEF RefusedInv
<1>EngineReads. CASE EngineReads
  BY <1>EngineReads, <1>types, <1>reads DEF EngineReads, clientVars
<1>EngineGarbles. CASE EngineGarbles
  <2> DEFINE m == [kind |-> "garbage"]
  <2>1. /\ pipe' = Append(pipe, m) /\ UNCHANGED backlog
        /\ UNCHANGED <<engineTurns, inbox>>
    BY <1>EngineGarbles DEF EngineGarbles, Send, EngineStep, clientVars
  <2>2. m.kind = "garbage" /\ m \in Message
    BY <1>EngineGarbles, <1>types, SentFields
  <2> HIDE DEF m
  <2>3. In(pipe') = In(pipe) \union {m}
    BY <1>typed, <2>1, <2>2, QueueFacts
  <2>4. \A u : Unreported(u) => Unreported(u)'
    BY <2>1, <2>2, <2>3 DEF Unreported, Event
  <2>5. QED
    BY <2>1, <2>2, <2>3, <2>4, <1>inv DEF RefusedInv
<1>EngineExits. CASE EngineExits
  BY <1>EngineExits, <1>inv DEF EngineExits, RefusedInv, Unreported, clientVars
<1> QED
  BY <1>Unchanged, <1>Arrive, <1>Cancel, <1>EditConfig, <1>Acquire, <1>KeepEngine,
     <1>StopEngine, <1>StartEngine, <1>StartFails, <1>UseLoadedThread, <1>AskForThread,
     <1>SetAside, <1>Initialized, <1>ThreadReady, <1>ResumeRefused, <1>CallFails,
     <1>InitializeFails, <1>CallTimesOut, <1>TurnStarted, <1>TurnReports,
     <1>TurnSucceeds, <1>TurnFails, <1>RetryInNewThread, <1>TurnBreaks, <1>TurnIdles,
     <1>TurnCancelled, <1>CallerLeaves, <1>EngineAnswers, <1>EngineBegins,
     <1>EngineNotes, <1>EngineCompletes, <1>EngineAsks, <1>EngineReads,
     <1>EngineGarbles, <1>EngineExits
     DEF Next, Callers, Holder, Engine

(* Garbage is counted; without any, the only turns the engine works on or  *)
(* has reports waiting of are the holder's current one and those whose     *)
(* caller left at an event, except that what an engine wrote before it     *)
(* exited stays in its pipe until it is stopped.                           *)
Live(t) == t \in engineTurns \union inbox \/ ~Unreported(t)

LiveInv ==
  /\ \A m \in In(pipe) : m.kind = "garbage" => garbles > 0
  /\ garbles = 0 =>
       \/ \A t \in Turns : Live(t) =>
            \/ status[t.req] = "left"
            \/ pc \in {"turning", "driving"} /\ t = TurnOf(cur, job.try)
       \/ engine = "exited" /\ pc \in {"free", "resolved"}

(* When the holder reads the answer that refuses its turn, or the report   *)
(* that ends it, nothing else of the turn is left.                         *)

LEMMA EndIsLast ==
  ASSUME Typed, MadeInv, AnsweredInv, TurnsInv, RefusedInv, AccountInv,
         pc # "free", pipe # <<>>, Head(pipe).tag = TurnOf(cur, job.try),
         \/ pc = "driving" /\ Head(pipe).kind = "completed"
         \/ pc = "turning" /\ Head(pipe).kind = "reply" /\ Head(pipe).info # "ok"
  PROVE  /\ TurnOf(cur, job.try) \notin inbox \union engineTurns
         /\ \A m \in In(Tail(pipe)) \union In(backlog) : ~Event(m, TurnOf(cur, job.try))
<1>1. /\ TypeOK /\ pipe \in Seq(Message) /\ Head(pipe) \in In(pipe)
      /\ cur \in Requests /\ job.try \in {1, 2} /\ In(Tail(pipe)) \subseteq In(pipe)
  BY JobType, QueueFacts DEF Typed, TypeOK
<1>2. PICK t \in Turns : t = TurnOf(cur, job.try) /\ t.method = "turn"
  BY <1>1 DEF TurnOf, Turns, Tags
<1>3. CASE pc = "driving" /\ Head(pipe).kind = "completed"
  <2>1. t \notin inbox \union engineTurns
    BY <1>1, <1>2, <1>3 DEF TurnsInv
  <2>2. \A m \in In(Tail(pipe)) : ~Event(m, t)
    BY <1>1, <1>2, <1>3, LateTail DEF TurnsInv, Ending
  <2>3. In(backlog) = {}
    BY <1>3, InEmpty DEF AccountInv
  <2>4. QED
    BY <1>2, <2>1, <2>2, <2>3
<1>4. CASE pc = "turning" /\ Head(pipe).kind = "reply" /\ Head(pipe).info # "ok"
  BY <1>1, <1>2, <1>4 DEF TurnsInv, AnsweredInv, RefusedInv, Unreported
<1>5. QED
  BY <1>3, <1>4

(* Every step keeps the engine to one live turn, short of garbage.         *)
LEMMA LiveStep ==
  ASSUME Typed, EngineInv, TriesInv, MadeInv, AnsweredInv, TurnsInv, RefusedInv, AccountInv,
         LiveInv, [Next]_vars
  PROVE  LiveInv'
<1>typed. Typed /\ TypeOK
  BY DEF Typed
<1>types. /\ inbox \subseteq Tags /\ engineTurns \subseteq Turns /\ garbles \in Nat
          /\ (pc = "free" <=> cur = None) /\ None \notin Requests
          /\ cur \in Requests \union {None}
          /\ \A t \in Turns : t \in Tags /\ t.method = "turn" /\ t.req \in Requests
          /\ In(<<>>) = {}
          /\ pipe # <<>> =>
               /\ Head(pipe) \in In(pipe) /\ In(Tail(pipe)) \subseteq In(pipe)
               /\ In(Append(backlog, Head(pipe))) = In(backlog) \union {Head(pipe)}
  BY <1>typed, QueueFacts, RuntimeAssumption DEF TypeOK, Turns, Tags
<1>inv. EngineInv /\ LiveInv
  OBVIOUS
<1>left. \A t \in Turns : status[t.req] = "left" => status'[t.req] = "left"
  BY <1>types, StepEffects DEF Effects
(* The lock changes hands, or what is left shrinks, within the turn.       *)
<1>less. ASSUME garbles' = garbles, engine' = engine,
                engineTurns' \subseteq engineTurns \union inbox,
                inbox' \intersect Turns \subseteq inbox,
                In(pipe') \subseteq In(pipe), In(backlog') \subseteq In(backlog) \union In(pipe),
                pc \in {"turning", "driving"} =>
                  pc' \in {"turning", "driving"} /\ cur' = cur /\ job'.try = job.try,
                engine = "exited" /\ pc \in {"free", "resolved"} => pc' \in {"free", "resolved"}
         PROVE  LiveInv'
  <2>1. \A t \in Turns : Live(t)' => Live(t)
    BY <1>less DEF Live, Unreported
  <2>2. \A t \in Turns : pc \in {"turning", "driving"} /\ t = TurnOf(cur, job.try) =>
          pc' \in {"turning", "driving"} /\ t = TurnOf(cur, job.try)'
    BY <1>less DEF TurnOf
  <2>3. QED
    BY <1>less, <2>1, <2>2, <1>inv, <1>left DEF LiveInv
(* Nothing is left.                                                        *)
<1>none. ASSUME UNCHANGED garbles, In(pipe') \subseteq In(pipe), \A t \in Turns : ~Live(t)'
         PROVE  LiveInv'
  BY <1>none, <1>inv DEF LiveInv
<1>stops. ASSUME Restarted, backlog' = <<>> PROVE LiveInv'
  <2>1. \A t \in Turns : ~Live(t)'
    BY <1>stops, <1>types DEF Restarted, Live, Unreported
  <2>2. QED
    BY <1>stops, <1>types, <1>none, <2>1 DEF Restarted
(* The holder asks for a turn when no other is left.                       *)
<1>asks. ASSUME UNCHANGED <<garbles, engine, engineTurns, cur, backlog>>, pc' = "turning",
                job'.try = job.try, pc \in {"ready", "resuming", "starting"},
                inbox' \subseteq inbox \union {TurnOf(cur, job.try)}, In(pipe') \subseteq In(pipe)
         PROVE  LiveInv'
  <2>1. garbles = 0 => \A t \in Turns : Live(t) => status[t.req] = "left"
    BY <1>asks, <1>inv DEF LiveInv
  <2>2. \A t \in Turns : Live(t)' => Live(t) \/ t = TurnOf(cur, job.try)
    BY <1>asks DEF Live, Unreported
  <2>3. TurnOf(cur, job.try)' = TurnOf(cur, job.try)
    BY <1>asks DEF TurnOf
  <2>4. QED
    BY <1>asks, <2>1, <2>2, <2>3, <1>inv, <1>left DEF LiveInv
(* The holder's turn has ended.                                            *)
<1>over. ASSUME UNCHANGED <<garbles, engine, engineTurns, backlog>>,
                inbox' \intersect Turns \subseteq inbox,
                In(pipe') \subseteq In(pipe),
                pc \in {"turning", "driving"},
                TurnOf(cur, job.try) \notin inbox \union engineTurns,
                \A m \in In(pipe') \union In(backlog) : ~Event(m, TurnOf(cur, job.try))
         PROVE  LiveInv'
  <2>1. \A t \in Turns : Live(t)' => Live(t) /\ t # TurnOf(cur, job.try)
    BY <1>over DEF Live, Unreported
  <2>2. QED
    BY <1>over, <2>1, <1>inv, <1>left DEF LiveInv
<1>Unchanged. CASE UNCHANGED vars
  BY <1>Unchanged, <1>less DEF vars, clientVars, engineVars
<1>Arrive. ASSUME NEW r \in Requests, NEW p \in (Requests \union Legacy \union {None}) \ {r},
                 NEW q \in Asks, Arrive(r, p, q)
           PROVE  LiveInv'
  BY <1>Arrive, <1>typed, <1>types, <1>inv, <1>less
     DEF Arrive, clientVars, engineVars
<1>Cancel. ASSUME NEW r \in Requests, Cancel(r) PROVE LiveInv'
  BY <1>Cancel, <1>typed, <1>types, <1>inv, <1>less
     DEF Cancel, clientVars, engineVars
<1>EditConfig. ASSUME NEW c \in Configs, EditConfig(c) PROVE LiveInv'
  <2>1. /\ UNCHANGED <<garbles, engine, engineTurns, inbox, pipe, backlog, cur, pc>>
    BY <1>EditConfig DEF EditConfig, clientVars, engineVars
  <2>2. pc \in {"turning", "driving"} => job'.try = job.try
    BY <1>EditConfig, <1>typed, <1>types, EditConfigJob
  <2>3. QED
    BY <2>1, <2>2, <1>less
<1>Acquire. ASSUME NEW r \in Requests, Acquire(r) PROVE LiveInv'
  <2>1. UNCHANGED <<garbles, engine, engineTurns, inbox, pipe, backlog>>
        /\ pc = "free" /\ pc' \in {"free", "resolved"}
    BY <1>Acquire, <1>typed, AcquireEffect DEF clientVars, engineVars
  <2>2. QED
    BY <2>1, <1>less
<1>KeepEngine. CASE KeepEngine
  BY <1>KeepEngine, <1>typed, <1>types, <1>inv, <1>less
     DEF KeepEngine, clientVars, engineVars
<1>StopEngine. CASE StopEngine
  BY <1>StopEngine, <1>stops DEF StopEngine, Restarted
<1>StartEngine. CASE StartEngine
  <2>1. /\ UNCHANGED <<garbles, engineTurns, pipe, backlog>> /\ pc = "preparing"
        /\ inbox' = {[method |-> "initialize", req |-> cur, try |-> job.try]}
    BY <1>StartEngine DEF StartEngine, clientVars
  <2>2. garbles = 0 => \A t \in Turns : Live(t) => status[t.req] = "left"
    BY <2>1, <1>inv DEF LiveInv
  <2>3. \A t \in Turns : t \notin inbox'
    BY <2>1, <1>types
  <2>4. \A t \in Turns : Live(t)' => Live(t)
    BY <2>1, <2>3 DEF Live, Unreported
  <2>5. QED
    BY <2>1, <2>2, <2>4, <1>inv, <1>left DEF LiveInv
<1>StartFails. CASE StartFails
  BY <1>StartFails, <1>typed, <1>types, <1>inv, <1>less
     DEF StartFails, Finish, clientVars, engineVars
<1>UseLoadedThread. CASE UseLoadedThread
  <2>1. /\ UNCHANGED <<garbles, engine, engineTurns, cur, backlog, pipe>> /\ pc = "ready"
        /\ pc' = "turning" /\ inbox' \subseteq inbox \union {TurnOf(cur, job.try)}
    BY <1>UseLoadedThread DEF UseLoadedThread, Call, clientVars, TurnOf
  <2>2. job'.try = job.try
    BY <1>UseLoadedThread, <1>typed, UseLoadedThreadJob
  <2>3. QED
    BY <2>1, <2>2, <1>asks
<1>AskForThread. CASE AskForThread
  <2>1. /\ UNCHANGED <<garbles, engine, engineTurns, backlog>> /\ pc = "ready"
        /\ In(pipe') \subseteq In(pipe)
        /\ inbox' \subseteq inbox \union {[method |-> "resume", req |-> cur, try |-> job.try],
                                   [method |-> "start", req |-> cur, try |-> job.try]}
    BY <1>AskForThread, <1>types DEF AskForThread, Call, clientVars
  <2>2. inbox' \intersect Turns \subseteq inbox
    BY <2>1, <1>types
  <2>3. QED
    BY <2>1, <2>2, <1>less
<1>SetAside. CASE SetAside
  BY <1>SetAside, <1>typed, <1>types, <1>inv, <1>less
     DEF SetAside, Reading, EngineElse, clientVars, engineVars, Requesting
<1>Initialized. CASE Initialized
  BY <1>Initialized, <1>typed, <1>types, <1>inv, <1>less
     DEF Initialized, Answered, Reading, EngineElse, clientVars, engineVars
<1>ThreadReady. CASE ThreadReady
  <2>1. /\ UNCHANGED <<garbles, engine, engineTurns, cur, backlog>>
        /\ pc \in {"resuming", "starting"} /\ In(pipe') \subseteq In(pipe)
        /\ pc' = "turning" /\ inbox' \subseteq inbox \union {TurnOf(cur, job.try)}
    BY <1>ThreadReady, <1>types DEF ThreadReady, Call, Answered, Reading, EngineElse, TurnOf
  <2>2. job'.try = job.try
    BY <1>ThreadReady, <1>typed, ThreadReadyJob
  <2>3. QED
    BY <2>1, <2>2, <1>asks
<1>ResumeRefused. CASE ResumeRefused
  <2>1. /\ UNCHANGED <<garbles, engine, engineTurns, backlog>> /\ pc = "resuming"
        /\ In(pipe') \subseteq In(pipe)
        /\ inbox' \subseteq inbox \union {[method |-> "resume", req |-> cur, try |-> job.try],
                                   [method |-> "start", req |-> cur, try |-> job.try]}
    BY <1>ResumeRefused, <1>types DEF ResumeRefused, Call, Answered, Unreadable, Reading,
       EngineElse, clientVars
  <2>2. inbox' \intersect Turns \subseteq inbox
    BY <2>1, <1>types
  <2>3. QED
    BY <2>1, <2>2, <1>less
<1>CallFails. CASE CallFails
  <2>1. /\ UNCHANGED <<garbles, engine, engineTurns, inbox, backlog>> /\ pc' = "free"
        /\ pc # "free"
        /\ In(pipe') \subseteq In(pipe)
    BY <1>CallFails, <1>types
       DEF CallFails, Answered, Unreadable, EndOfFile, Reading, Finish,
                                  EngineElse, clientVars, Requesting
  <2>2. CASE pc # "turning"
    <3>1. pc \notin {"turning", "driving"}
      BY <1>CallFails, <2>2 DEF CallFails, Requesting
    <3>2. QED
      BY <2>1, <3>1, <1>less
  <2>3. CASE pc = "turning" /\ engine = "exited"
    BY <2>1, <2>3, <1>inv DEF LiveInv
  <2>4. CASE pc = "turning" /\ Unreadable
    BY <2>1, <2>4, <1>types, <1>inv DEF LiveInv, Unreadable
  <2>5. CASE pc = "turning" /\ (Answered("error") \/ Answered("poisoned"))
    <3>1. /\ pipe # <<>> /\ pipe' = Tail(pipe) /\ Head(pipe).kind = "reply"
          /\ Head(pipe).tag = TurnOf(cur, job.try) /\ Head(pipe).info # "ok"
      BY <2>5, WaitingTag DEF Answered, Reading
    <3>2. QED
      BY <2>1, <2>5, <3>1, EndIsLast, <1>over
  <2>6. QED
    BY <1>CallFails, <2>2, <2>3, <2>4, <2>5 DEF CallFails, EndOfFile
<1>InitializeFails. CASE InitializeFails
  BY <1>InitializeFails, <1>stops DEF InitializeFails, Restarted
<1>CallTimesOut. CASE CallTimesOut
  BY <1>CallTimesOut, <1>stops DEF CallTimesOut, Restarted
<1>TurnStarted. CASE TurnStarted
  <2>1. /\ UNCHANGED <<garbles, engine, engineTurns, inbox, cur>> /\ pc' = "driving"
        /\ backlog' = <<>> /\ In(pipe') \subseteq In(pipe) /\ pc = "turning"
    BY <1>TurnStarted, <1>types DEF TurnStarted, Answered, Reading, EngineElse
  <2>2. job'.try = job.try
    BY <1>TurnStarted, <1>typed, TurnStartedJob
  <2>3. QED
    BY <2>1, <2>2, <1>types, <1>less
<1>TurnReports. CASE TurnReports
  <2>1. /\ UNCHANGED <<garbles, engine, engineTurns, inbox, cur, backlog, pc>>
        /\ In(pipe') \subseteq In(pipe) /\ pc = "driving"
    BY <1>TurnReports, <1>types DEF TurnReports, NextLine, Reading, EngineElse, clientVars
  <2>2. job'.try = job.try
    BY <1>TurnReports, <1>typed, TurnReportsJob
  <2>3. QED
    BY <2>1, <2>2, <1>less
<1>TurnSucceeds. CASE TurnSucceeds
  <2>1. /\ UNCHANGED <<garbles, engine, engineTurns, inbox, backlog>> /\ pc = "driving"
        /\ pipe # <<>> /\ pipe' = Tail(pipe) /\ In(pipe') \subseteq In(pipe)
        /\ Head(pipe).kind = "completed" /\ Head(pipe).tag = TurnOf(cur, job.try)
    BY <1>TurnSucceeds, <1>types DEF TurnSucceeds, NextLine, Reading, Ends, EngineElse,
       clientVars, TurnOf
  <2>2. QED
    BY <2>1, EndIsLast, <1>over
<1>TurnFails. CASE TurnFails
  <2>1. /\ UNCHANGED <<garbles, engine, engineTurns, inbox, backlog>> /\ pc = "driving"
        /\ pipe # <<>> /\ pipe' = Tail(pipe) /\ In(pipe') \subseteq In(pipe)
        /\ Head(pipe).kind = "completed" /\ Head(pipe).tag = TurnOf(cur, job.try)
    BY <1>TurnFails, <1>types
       DEF TurnFails, NextLine, Reading, Ends, EngineElse, clientVars,
       TurnOf
  <2>2. QED
    BY <2>1, EndIsLast, <1>over
<1>RetryInNewThread. CASE RetryInNewThread
  <2>1. /\ UNCHANGED <<garbles, engine, engineTurns, backlog>>
        /\ pipe # <<>> /\ pipe' = Tail(pipe) /\ In(pipe') \subseteq In(pipe)
        /\ \/ /\ pc = "driving" /\ Head(pipe).kind = "completed"
              /\ Head(pipe).tag = TurnOf(cur, job.try)
           \/ /\ pc = "turning" /\ Head(pipe).kind = "reply"
              /\ Head(pipe).tag = Waiting /\ Head(pipe).info = "poisoned"
        /\ inbox' \subseteq inbox \union {[method |-> "start", req |-> cur, try |-> 2]}
    BY <1>RetryInNewThread, <1>types
       DEF RetryInNewThread, NextLine, Reading, Ends, Answered, Call, EngineElse, clientVars,
           TurnOf
  <2>2. inbox' \intersect Turns \subseteq inbox
    BY <2>1, <1>types
  <2>3. QED
    BY <2>1, <2>2, WaitingTag, EndIsLast, <1>over
<1>TurnBreaks. CASE TurnBreaks
  <2>1. /\ UNCHANGED garbles /\ engine' = engine /\ pc' = "free" /\ In(pipe') \subseteq In(pipe)
        /\ (pipe # <<>> /\ Head(pipe).kind = "garbage") \/ engine = "exited"
    BY <1>TurnBreaks, <1>types DEF TurnBreaks, Unreadable, EndOfFile, Finish, EngineElse
  <2>2. QED
    BY <2>1, <1>types, <1>inv DEF LiveInv
<1>TurnIdles. CASE TurnIdles
  BY <1>TurnIdles, <1>stops DEF TurnIdles, Restarted
<1>TurnCancelled. CASE TurnCancelled
  BY <1>TurnCancelled, <1>stops DEF TurnCancelled, Restarted
<1>CallerLeaves. CASE CallerLeaves
  <2>1. /\ UNCHANGED <<garbles, engine, engineTurns, inbox>> /\ pc' = "free"
        /\ pc \in {"resolved", "turning", "driving"} /\ cur \in Requests
        /\ status' = [status EXCEPT ![cur] = "left"]
    BY <1>CallerLeaves, <1>typed, LeavesEffect
  <2>2. In(pipe') \subseteq In(pipe) /\ In(backlog') \subseteq In(backlog)
    BY <1>CallerLeaves, <1>typed, LeavesQueues
  <2>3. \A t \in Turns : Live(t)' => Live(t)
    BY <2>1, <2>2 DEF Live, Unreported
  <2>4. status'[cur] = "left"
    BY <2>1, <1>typed DEF TypeOK
  <2>5. \A t \in Turns : t = TurnOf(cur, job.try) => status'[t.req] = "left"
    BY <2>4 DEF TurnOf
  <2>6. QED
    BY <2>1, <2>2, <2>3, <2>5, <1>inv, <1>left DEF LiveInv
<1>EngineAnswers. ASSUME NEW tag \in inbox, NEW result \in {"ok", "error", "poisoned"},
                         EngineAnswers(tag, result)
                  PROVE  LiveInv'
  <2> DEFINE m == [kind |-> "reply", tag |-> tag, info |-> result]
  <2>1. /\ pipe' = Append(pipe, m) /\ UNCHANGED <<backlog, pc, cur, job, engine>>
        /\ inbox' \subseteq inbox /\ engineTurns' \subseteq engineTurns \union inbox
        /\ UNCHANGED garbles
        /\ engine = "running"
    BY <1>EngineAnswers DEF EngineAnswers, Send, EngineStep, clientVars
  <2>2. m.kind = "reply" /\ m \in Message /\ m.tag = tag
    BY <1>EngineAnswers, <1>types, SentFields
  <2> HIDE DEF m
  <2>3. In(pipe') = In(pipe) \union {m}
    BY <1>typed, <2>1, <2>2, QueueFacts
  <2>4. \A u \in Turns : Live(u)' => Live(u)
    BY <1>EngineAnswers, <2>1, <2>2, <2>3 DEF Live, Unreported, Event
  <2>5. TurnOf(cur, job.try)' = TurnOf(cur, job.try)
    BY <2>1 DEF TurnOf
  <2>6. QED
    BY <2>1, <2>2, <2>3, <2>4, <2>5, <1>inv, <1>left DEF LiveInv
<1>EngineBegins. ASSUME NEW tag \in inbox, EngineBegins(tag) PROVE LiveInv'
  BY <1>EngineBegins, <1>less DEF EngineBegins, EngineStep, clientVars
<1>EngineNotes. ASSUME NEW t \in engineTurns, NEW info \in {"tool", "speech"}, EngineNotes(t, info)
                PROVE  LiveInv'
  <2> DEFINE m == [kind |-> "note", tag |-> t, info |-> info]
  <2>1. /\ pipe' = Append(pipe, m) /\ UNCHANGED <<backlog, pc, cur, job, engine>>
        /\ UNCHANGED <<engineTurns, inbox, garbles>>
        /\ engine = "running"
    BY <1>EngineNotes DEF EngineNotes, Send, EngineStep, clientVars
  <2>2. m.kind = "note" /\ m \in Message /\ m.tag = t
    BY <1>EngineNotes, <1>types, SentFields
  <2> HIDE DEF m
  <2>3. In(pipe') = In(pipe) \union {m}
    BY <1>typed, <2>1, <2>2, QueueFacts
  <2>4. \A u \in Turns : Live(u)' => Live(u)
    BY <1>EngineNotes, <2>1, <2>2, <2>3 DEF Live, Unreported, Event
  <2>5. TurnOf(cur, job.try)' = TurnOf(cur, job.try)
    BY <2>1 DEF TurnOf
  <2>6. QED
    BY <2>1, <2>2, <2>3, <2>4, <2>5, <1>inv, <1>left DEF LiveInv
<1>EngineCompletes. ASSUME NEW t \in engineTurns, NEW info \in {"ok", "failed", "poisoned"},
                           EngineCompletes(t, info)
                    PROVE  LiveInv'
  <2> DEFINE m == [kind |-> "completed", tag |-> t, info |-> info]
  <2>1. /\ pipe' = Append(pipe, m) /\ UNCHANGED <<backlog, pc, cur, job, engine>>
        /\ engineTurns' \subseteq engineTurns /\ UNCHANGED <<inbox, garbles>>
        /\ engine = "running"
    BY <1>EngineCompletes DEF EngineCompletes, Send, EngineStep, clientVars
  <2>2. m.kind = "completed" /\ m \in Message /\ m.tag = t
    BY <1>EngineCompletes, <1>types, SentFields
  <2> HIDE DEF m
  <2>3. In(pipe') = In(pipe) \union {m}
    BY <1>typed, <2>1, <2>2, QueueFacts
  <2>4. \A u \in Turns : Live(u)' => Live(u)
    BY <1>EngineCompletes, <2>1, <2>2, <2>3 DEF Live, Unreported, Event
  <2>5. TurnOf(cur, job.try)' = TurnOf(cur, job.try)
    BY <2>1 DEF TurnOf
  <2>6. QED
    BY <2>1, <2>2, <2>3, <2>4, <2>5, <1>inv, <1>left DEF LiveInv
<1>EngineAsks. ASSUME NEW tag \in inbox \union engineTurns, EngineAsks(tag) PROVE LiveInv'
  <2> DEFINE m == [kind |-> "request", tag |-> tag]
  <2>1. /\ pipe' = Append(pipe, m) /\ UNCHANGED <<backlog, pc, cur, job, engine>>
        /\ UNCHANGED <<engineTurns, inbox, garbles>>
        /\ engine = "running"
    BY <1>EngineAsks DEF EngineAsks, Send, EngineStep, clientVars
  <2>2. m.kind = "request" /\ m \in Message
    BY <1>EngineAsks, <1>types, SentFields
  <2> HIDE DEF m
  <2>3. In(pipe') = In(pipe) \union {m}
    BY <1>typed, <2>1, <2>2, QueueFacts
  <2>4. \A u \in Turns : Live(u)' => Live(u)
    BY <1>EngineAsks, <2>1, <2>2, <2>3 DEF Live, Unreported, Event
  <2>5. TurnOf(cur, job.try)' = TurnOf(cur, job.try)
    BY <2>1 DEF TurnOf
  <2>6. QED
    BY <2>1, <2>2, <2>3, <2>4, <2>5, <1>inv, <1>left DEF LiveInv
<1>EngineReads. CASE EngineReads
  BY <1>EngineReads, <1>less DEF EngineReads, clientVars
<1>EngineGarbles. CASE EngineGarbles
  <2>1. garbles' = garbles + 1
    BY <1>EngineGarbles DEF EngineGarbles
  <2>2. QED
    BY <2>1, <1>types DEF LiveInv
<1>EngineExits. CASE EngineExits
  <2>1. /\ UNCHANGED <<garbles, pipe, backlog, pc, cur, job>> /\ engineTurns' = {} /\ inbox' = {}
        /\ engine = "running"
    BY <1>EngineExits DEF EngineExits, clientVars
  <2>2. \A t \in Turns : Live(t)' => Live(t)
    BY <2>1 DEF Live, Unreported
  <2>3. TurnOf(cur, job.try)' = TurnOf(cur, job.try)
    BY <2>1 DEF TurnOf
  <2>4. QED
    BY <2>1, <2>2, <2>3, <1>inv, <1>left DEF LiveInv
<1> QED
  BY <1>Unchanged, <1>Arrive, <1>Cancel, <1>EditConfig, <1>Acquire, <1>KeepEngine,
     <1>StopEngine, <1>StartEngine, <1>StartFails, <1>UseLoadedThread, <1>AskForThread,
     <1>SetAside, <1>Initialized, <1>ThreadReady, <1>ResumeRefused, <1>CallFails,
     <1>InitializeFails, <1>CallTimesOut, <1>TurnStarted, <1>TurnReports,
     <1>TurnSucceeds, <1>TurnFails, <1>RetryInNewThread, <1>TurnBreaks, <1>TurnIdles,
     <1>TurnCancelled, <1>CallerLeaves, <1>EngineAnswers, <1>EngineBegins,
     <1>EngineNotes, <1>EngineCompletes, <1>EngineAsks, <1>EngineReads,
     <1>EngineGarbles, <1>EngineExits
     DEF Next, Callers, Holder, Engine

(* So every step keeps events with their own request, short of garbage and *)
(* of callers that left.                                                   *)

LEMMA ForeignStep ==
  ASSUME Typed, MadeInv, LiveInv, OwnEventsOnly, [Next]_vars
  PROVE  OwnEventsOnly'
<1>1. SUFFICES ASSUME garbles' = 0, NEW r \in foreign' PROVE status'[r] = "left"
  BY DEF OwnEventsOnly
<1>2. /\ garbles = 0 /\ foreign \subseteq Requests
      /\ \A q \in foreign : status[q] = "left"
      /\ \A q \in Requests : status[q] = "left" => status'[q] = "left"
  BY <1>1, StepEffects DEF OwnEventsOnly, Effects, Typed, TypeOK
<1>3. CASE r \in foreign
  BY <1>2, <1>3
<1>4. CASE r \notin foreign
  <2>1. PICK s \in Seq(Message) :
          /\ Told(s) /\ pc \in {"turning", "driving"}
          /\ In(s) \subseteq In(backlog) \union In(pipe)
          /\ \A m \in In(s) : m.kind \in {"note", "completed"}
    BY <1>1, <1>4, StepTells DEF historyVars
  <2>2. PICK m \in In(s) : m.tag.req = r /\ r \in Requests \ {cur}
    BY <1>1, <1>4, <2>1 DEF Told
  <2>3. m.tag \in Turns /\ Event(m, m.tag)
    BY <2>1, <2>2, QueueFacts DEF Event
  <2>4. Live(m.tag)
    BY <2>1, <2>2, <2>3 DEF Live, Unreported
  <2>5. m.tag # TurnOf(cur, job.try)
    BY <2>2 DEF TurnOf
  <2>6. status[r] = "left"
    BY <1>2, <2>1, <2>2, <2>3, <2>4, <2>5 DEF LiveInv
  <2>7. QED
    BY <1>2, <2>2, <2>6
<1>5. QED
  BY <1>3, <1>4

-----------------------------------------------------------------------------
(* Conversations and their workspaces                                      *)

(* Who asks for the lock is fixed when a request arrives; only the holder  *)
(* is bound, when its turn is asked for; what has finished stays finished. *)
Filing ==
  /\ UNCHANGED <<prev, attachDir>>
  /\ \A r \in Requests :
       status'[r] \in {"waiting", "active"} => status[r] \in {"waiting", "active"}
  /\ \A r \in Requests : status[r] \in Finished => status'[r] \in Finished
  /\ \A r \in Requests \union Legacy :
       bindings'[r] # bindings[r] => r = cur /\ cur' = cur /\ pc' = "turning"

(* Every step is an arrival or leaves the filing as described.             *)
LEMMA StepFiles ==
  ASSUME Typed, [Next]_vars
  PROVE  \/ Filing
         \/ \E r \in Requests : \E p \in (Requests \union Legacy \union {None}) \ {r}, q \in Asks :
              Arrive(r, p, q)
<1> DEFINE Files ==
             \/ Filing
             \/ \E r \in Requests :
                  \E p \in (Requests \union Legacy \union {None}) \ {r}, q \in Asks :
                    Arrive(r, p, q)
<1>typed. /\ Typed /\ TypeOK /\ status \in [Requests -> Statuses]
          /\ bindings \in [Requests \union Legacy -> Binding]
          /\ (pc = "free" <=> cur = None) /\ cur \in Requests \union {None}
          /\ \A r \in Requests : status[r] = "active" <=> r = cur
          /\ None \notin Requests
  BY RuntimeAssumption DEF Typed, TypeOK, Conversation
<1>keeps. ASSUME UNCHANGED <<requestVars, bindings>> PROVE Files
  BY <1>keeps DEF Filing, requestVars
<1>ends. ASSUME NEW o \in Finished, Finish(o), UNCHANGED bindings, pc # "free" PROVE Files
  <2>1. /\ cur \in Requests /\ status[cur] = "active"
        /\ status' = [status EXCEPT ![cur] = o] /\ UNCHANGED <<prev, attachDir>>
    BY <1>ends, <1>typed DEF Finish
  <2>2. QED
    BY <1>ends, <2>1, <1>typed DEF Filing, Finished
<1>outcomes. {"ok", "failed", "cancelled", "left"} \subseteq Finished
  BY DEF Finished
<1>Unchanged. CASE UNCHANGED vars
  BY <1>Unchanged, <1>keeps DEF vars, storeVars
<1>Arrive. ASSUME NEW r \in Requests, NEW p \in (Requests \union Legacy \union {None}) \ {r},
                 NEW q \in Asks, Arrive(r, p, q)
           PROVE  Files
  BY <1>Arrive
<1>Cancel. ASSUME NEW r \in Requests, Cancel(r) PROVE Files
  BY <1>Cancel DEF Cancel, Filing, storeVars
<1>EditConfig. ASSUME NEW c \in Configs, EditConfig(c) PROVE Files
  BY <1>EditConfig, <1>keeps DEF EditConfig, storeVars
<1>Acquire. ASSUME NEW r \in Requests, Acquire(r) PROVE Files
  <2>1. /\ UNCHANGED <<prev, attachDir, bindings>> /\ status[r] = "waiting"
        /\ (status' = [status EXCEPT ![r] = "active"] \/ status' = [status EXCEPT ![r] = "failed"])
    BY <1>Acquire, <1>typed, AcquireEffect DEF storeVars
  <2>2. QED
    BY <2>1, <1>typed DEF Filing, Finished
<1>KeepEngine. CASE KeepEngine
  BY <1>KeepEngine, <1>keeps DEF KeepEngine, storeVars
<1>StopEngine. CASE StopEngine
  BY <1>StopEngine, <1>keeps DEF StopEngine, storeVars
<1>StartEngine. CASE StartEngine
  BY <1>StartEngine, <1>keeps DEF StartEngine, storeVars
<1>StartFails. CASE StartFails
  BY <1>StartFails, <1>ends, <1>outcomes DEF StartFails, storeVars, Requesting
<1>UseLoadedThread. CASE UseLoadedThread
  <2>1. /\ UNCHANGED requestVars /\ cur' = cur /\ pc' = "turning"
        /\ \E b : bindings' = [bindings EXCEPT ![cur] = b]
    BY <1>UseLoadedThread DEF UseLoadedThread, Call
  <2>2. QED
    BY <2>1, <1>typed DEF Filing, requestVars
<1>AskForThread. CASE AskForThread
  BY <1>AskForThread, <1>keeps DEF AskForThread, storeVars
<1>SetAside. CASE SetAside
  BY <1>SetAside, <1>keeps DEF SetAside, storeVars
<1>Initialized. CASE Initialized
  BY <1>Initialized, <1>keeps DEF Initialized, storeVars
<1>ThreadReady. CASE ThreadReady
  <2>1. /\ UNCHANGED requestVars /\ cur' = cur /\ pc' = "turning"
        /\ \E b : bindings' = [bindings EXCEPT ![cur] = b]
    BY <1>ThreadReady DEF ThreadReady, Call, Bind
  <2>2. QED
    BY <2>1, <1>typed DEF Filing, requestVars
<1>ResumeRefused. CASE ResumeRefused
  BY <1>ResumeRefused, <1>keeps DEF ResumeRefused, storeVars
<1>CallFails. CASE CallFails
  BY <1>CallFails, <1>ends, <1>outcomes DEF CallFails, storeVars, Requesting
<1>InitializeFails. CASE InitializeFails
  BY <1>InitializeFails, <1>ends, <1>outcomes DEF InitializeFails, storeVars, Requesting
<1>CallTimesOut. CASE CallTimesOut
  BY <1>CallTimesOut, <1>ends, <1>outcomes DEF CallTimesOut, storeVars, Requesting
<1>TurnStarted. CASE TurnStarted
  BY <1>TurnStarted, <1>keeps DEF TurnStarted, storeVars
<1>TurnReports. CASE TurnReports
  BY <1>TurnReports, <1>keeps DEF TurnReports, storeVars
<1>TurnSucceeds. CASE TurnSucceeds
  BY <1>TurnSucceeds, <1>ends, <1>outcomes DEF TurnSucceeds, storeVars, Requesting, NextLine
<1>TurnFails. CASE TurnFails
  BY <1>TurnFails, <1>ends, <1>outcomes DEF TurnFails, storeVars, Requesting, NextLine
<1>RetryInNewThread. CASE RetryInNewThread
  BY <1>RetryInNewThread, <1>keeps DEF RetryInNewThread, storeVars
<1>TurnBreaks. CASE TurnBreaks
  BY <1>TurnBreaks, <1>ends, <1>outcomes DEF TurnBreaks, storeVars, Requesting
<1>TurnIdles. CASE TurnIdles
  BY <1>TurnIdles, <1>ends, <1>outcomes DEF TurnIdles, storeVars, Requesting
<1>TurnCancelled. CASE TurnCancelled
  BY <1>TurnCancelled, <1>ends, <1>outcomes DEF TurnCancelled, storeVars, Requesting
<1>CallerLeaves. CASE CallerLeaves
  <2>1. pc # "free"
    BY <1>CallerLeaves, <1>typed, LeavesEffect
  <2>2. QED
    BY <1>CallerLeaves, <2>1, <1>ends, <1>outcomes DEF CallerLeaves, storeVars
<1>EngineAnswers. ASSUME NEW tag \in inbox, NEW result \in {"ok", "error", "poisoned"},
                         EngineAnswers(tag, result)
                  PROVE  Files
  BY <1>EngineAnswers, <1>keeps DEF EngineAnswers, EngineStep, storeVars
<1>EngineBegins. ASSUME NEW tag \in inbox, EngineBegins(tag) PROVE Files
  BY <1>EngineBegins, <1>keeps DEF EngineBegins, EngineStep, storeVars
<1>EngineNotes. ASSUME NEW t \in engineTurns, NEW info \in {"tool", "speech"}, EngineNotes(t, info)
                PROVE  Files
  BY <1>EngineNotes, <1>keeps DEF EngineNotes, EngineStep, storeVars
<1>EngineCompletes. ASSUME NEW t \in engineTurns, NEW info \in {"ok", "failed", "poisoned"},
                           EngineCompletes(t, info)
                    PROVE  Files
  BY <1>EngineCompletes, <1>keeps DEF EngineCompletes, EngineStep, storeVars
<1>EngineAsks. ASSUME NEW tag \in inbox \union engineTurns, EngineAsks(tag) PROVE Files
  BY <1>EngineAsks, <1>keeps DEF EngineAsks, EngineStep, storeVars
<1>EngineReads. CASE EngineReads
  BY <1>EngineReads, <1>keeps DEF EngineReads, storeVars
<1>EngineGarbles. CASE EngineGarbles
  BY <1>EngineGarbles, <1>keeps DEF EngineGarbles, EngineStep, storeVars
<1>EngineExits. CASE EngineExits
  BY <1>EngineExits, <1>keeps DEF EngineExits, storeVars
<1> QED
  BY <1>Unchanged, <1>Arrive, <1>Cancel, <1>EditConfig, <1>Acquire, <1>KeepEngine,
     <1>StopEngine, <1>StartEngine, <1>StartFails, <1>UseLoadedThread, <1>AskForThread,
     <1>SetAside, <1>Initialized, <1>ThreadReady, <1>ResumeRefused, <1>CallFails,
     <1>InitializeFails, <1>CallTimesOut, <1>TurnStarted, <1>TurnReports,
     <1>TurnSucceeds, <1>TurnFails, <1>RetryInNewThread, <1>TurnBreaks, <1>TurnIdles,
     <1>TurnCancelled, <1>CallerLeaves, <1>EngineAnswers, <1>EngineBegins,
     <1>EngineNotes, <1>EngineCompletes, <1>EngineAsks, <1>EngineReads,
     <1>EngineGarbles, <1>EngineExits
     DEF Next, Callers, Holder, Engine

(* A request that continues a response does so after that one finished,    *)
(* and its attachments are where the conversation lives.                   *)
AttachInv ==
  \A r \in Requests : status[r] \in {"waiting", "active"} =>
    /\ attachDir[r] = Workspace(prev[r], r)
    /\ prev[r] \in Requests => status[prev[r]] \in Finished

(* Every step keeps attachments where their conversation lives.            *)

LEMMA AttachStep ==
  ASSUME ~EagerCallers, Typed, AttachInv, [Next]_vars
  PROVE  AttachInv'
<1>1. /\ Typed /\ TypeOK /\ status \in [Requests -> Statuses]
      /\ prev \in [Requests -> Requests \union Legacy \union {None}]
      /\ attachDir \in [Requests -> Requests \union {None}]
      /\ \A r \in Requests : status[r] = "active" <=> r = cur
      /\ \A r \in Requests : status[r] \in Finished => r # cur
      /\ Requests \intersect Legacy = {} /\ None \notin Requests \union Legacy
      /\ cur \in Requests \union {None}
  BY RuntimeAssumption DEF Typed, TypeOK, Conversation, Finished
<1>2. CASE Filing
  <2>1. SUFFICES ASSUME NEW r \in Requests, status'[r] \in {"waiting", "active"}
                 PROVE  /\ attachDir'[r] = Workspace(prev[r], r)'
                        /\ prev'[r] \in Requests => status'[prev'[r]] \in Finished
    BY DEF AttachInv
  <2>2. /\ status[r] \in {"waiting", "active"} /\ prev'[r] = prev[r]
        /\ attachDir'[r] = attachDir[r] /\ attachDir[r] = Workspace(prev[r], r)
        /\ prev[r] \in Requests => status[prev[r]] \in Finished
        /\ prev[r] \in Requests \union Legacy \union {None}
    BY <1>1, <1>2, <2>1 DEF Filing, AttachInv
  <2>3. prev[r] # None => bindings'[prev[r]] = bindings[prev[r]]
    BY <1>1, <1>2, <2>2 DEF Filing
  <2>4. Workspace(prev[r], r)' = Workspace(prev[r], r)
    BY <2>2, <2>3 DEF Workspace, IsBound, Lookup
  <2>5. QED
    BY <1>2, <2>2, <2>4 DEF Filing
<1>3. ASSUME NEW r \in Requests, NEW p \in (Requests \union Legacy \union {None}) \ {r},
             NEW q \in Asks, Arrive(r, p, q)
      PROVE  AttachInv'
  <2>1. /\ status[r] = "new" /\ status' = [status EXCEPT ![r] = "waiting"]
        /\ prev' = [prev EXCEPT ![r] = p] /\ attachDir' = [attachDir EXCEPT ![r] = Workspace(p, r)]
        /\ bindings' = bindings /\ (p \in Requests => status[p] \in Finished)
    BY <1>3 DEF Arrive, storeVars
  <2>2. \A id, s : Workspace(id, s)' = Workspace(id, s)
    <3>1. Workspace(prev[r], r)' = IF IsBound(prev[r])' THEN Lookup(prev[r])'.workspace ELSE r
      BY DEF Workspace
    <3>2. QED
      BY <2>1 DEF Workspace, IsBound, Lookup
  <2>3. QED
    BY <1>1, <2>1, <2>2 DEF AttachInv, Finished
<1>4. QED
  BY <1>2, <1>3, StepFiles

-----------------------------------------------------------------------------
(* Theorems                                                                *)

Inv ==
  /\ TypeOK /\ Conversation /\ EngineInv /\ TriesInv /\ MadeInv /\ AnsweredInv /\ TurnsInv
  /\ ThreadsInv /\ FreshInv /\ SilentInv /\ AccountInv /\ RepeatInv /\ CompleteInv
  /\ NoRepeatAfterSpeech /\ RefusedInv /\ LiveInv /\ OwnEventsOnly

(* The invariant holds at the outset.                                      *)
LEMMA InitInv ==
  ASSUME Init
  PROVE  Inv
<1> USE RuntimeAssumption
<1>1. TypeOK
  <2>1. /\ bindings \in [Requests \union Legacy -> Binding] /\ job \in Job
    <3>1. \A r \in Legacy : [Unbound EXCEPT !.thread = r] \in Binding
      BY DEF Unbound, Binding, Threads
    <3>2. Unbound \in Binding
      BY DEF Unbound, Binding
    <3>3. QED
      BY <3>1, <3>2, NoJobType DEF Init
  <2>2. pipe \in Seq(Message) /\ backlog \in Seq(Message)
    BY EmptySeq DEF Init
  <2>3. /\ status \in [Requests -> Statuses]
        /\ prev \in [Requests -> Requests \union Legacy \union {None}]
        /\ asked \in [Requests -> Profiles \union {None}]
        /\ attachDir \in [Requests -> Requests \union {None}]
    BY DEF Init, Statuses
  <2>4. emitted \in [Turns -> 0..MaxNotes] /\ shown \in [Turns -> Nat]
    BY DEF Init
  <2>5. config \in Configs /\ edits \in 0..MaxEdits /\ garbles \in 0..MaxGarbles
    BY DEF Init
  <2>6. QED
    BY <2>1, <2>2, <2>3, <2>4, <2>5 DEF Init, TypeOK, Places
<1>2. /\ pc = "free" /\ cur = None /\ pipe = <<>> /\ backlog = <<>> /\ inbox = {}
      /\ engineTurns = {} /\ engineThreads = {} /\ loaded = {} /\ engine = "none"
      /\ fingerprint = None /\ emitted = [t \in Turns |-> 0] /\ shown = [t \in Turns |-> 0]
      /\ heard = {} /\ foreign = {} /\ status = [r \in Requests |-> "new"]
      /\ prev = [r \in Requests |-> None]
  BY DEF Init
<1>3. /\ In(pipe) = {} /\ In(backlog) = {} /\ \A t : ~Late(pipe, t)
  BY <1>2, InEmpty, LateEmpty
<1>4. \A t \in Turns : t.req \in Requests
  BY DEF Turns, Tags
<1>5. Conversation /\ EngineInv /\ TriesInv /\ MadeInv /\ AnsweredInv /\ ThreadsInv
  BY <1>2, <1>3 DEF Conversation, EngineInv, TriesInv, MadeInv, AnsweredInv, ThreadsInv,
                    BoundToAnsweringThread, Serving
<1>6. TurnsInv /\ FreshInv /\ SilentInv /\ RepeatInv /\ NoRepeatAfterSpeech
  BY <1>2, <1>3 DEF TurnsInv, FreshInv, SilentInv, RepeatInv, NoRepeatAfterSpeech
<1>7. AccountInv /\ CompleteInv
  BY <1>2, <1>3, <1>4 DEF AccountInv, CompleteInv
<1>8. RefusedInv /\ LiveInv /\ OwnEventsOnly
  BY <1>2, <1>3 DEF RefusedInv, LiveInv, Live, Unreported, OwnEventsOnly
<1>9. QED
  BY <1>1, <1>5, <1>6, <1>7, <1>8 DEF Inv

(* Every step keeps it.                                                    *)
LEMMA NextInv ==
  ASSUME Inv, [Next]_vars
  PROVE  Inv'
<1>1. Typed
  BY DEF Inv, Typed
<1>2. TypeOK'
  BY <1>1, TypeStep
<1>3. Conversation' /\ Typed'
  BY <1>1, <1>2, ConversationStep DEF Typed
<1>4. EngineInv' /\ TriesInv' /\ MadeInv'
  BY <1>1, EngineStepInv, TriesStep, MadeStep DEF Inv
<1>5. AnsweredInv' /\ TurnsInv' /\ ThreadsInv'
  BY <1>1, AnsweredStep, TurnsStep, ThreadsStep DEF Inv
<1>6. FreshInv' /\ SilentInv' /\ AccountInv'
  BY <1>1, FreshStep, SilentStep, AccountStep DEF Inv
<1>7. RepeatInv' /\ CompleteInv'
  BY <1>1, RepeatStep, CompleteStep DEF Inv
<1>8. NoRepeatAfterSpeech'
  BY <1>1, <1>3, <1>4, <1>7, RepeatSilentStep DEF Inv
<1>9. RefusedInv' /\ LiveInv' /\ OwnEventsOnly'
  BY <1>1, RefusedStep, LiveStep, ForeignStep DEF Inv
<1>10. QED
  BY <1>2, <1>3, <1>4, <1>5, <1>6, <1>7, <1>8, <1>9 DEF Inv

(* The invariant holds throughout.                                         *)
LEMMA SpecInv == Spec => []Inv
<1>1. Init => Inv
  BY InitInv
<1>2. Inv /\ [Next]_vars => Inv'
  BY NextInv
<1>3. QED
  BY <1>1, <1>2, PTL DEF Spec

(* Whatever is set aside, retried, abandoned or unreadable: a response that *)
(* completed was shown everything its turns emitted (NothingLost), nobody   *)
(* is shown another request's events unless that one's caller left at an    *)
(* event or a line could not be read (OwnEventsOnly), and nobody is told    *)
(* again what he heard.                                                     *)
THEOREM EventsTheorem == Spec => []EventsReachTheirTurnOnce
<1>1. Inv => EventsReachTheirTurnOnce
  BY DEF Inv, EventsReachTheirTurnOnce, NothingLost, CompleteInv, Over
<1>2. QED
  BY <1>1, SpecInv, PTL

(* Through restarts, exits and retries, a turn is only ever asked for on a *)
(* thread the running engine has, and the response id resumes that thread. *)
THEOREM ThreadsTheorem == Spec => []ThreadsAreLive
<1>1. Inv => ThreadsAreLive
  <2>1. SUFFICES ASSUME Inv PROVE LoadedThreadsAreLive /\ BoundToAnsweringThread
    BY DEF ThreadsAreLive
  <2>2. engine = "running" => loaded \subseteq engineThreads
    BY <2>1 DEF Inv, ThreadsInv
  <2>3. ASSUME NEW tag \in inbox, tag.method = "turn", tag.req = cur
        PROVE  job.thread \in engineThreads
    <3>1. engine = "running"
      BY <2>1, <2>3 DEF Inv, EngineInv
    <3>2. pc = "turning"
      BY <2>1, <2>3 DEF Inv, AnsweredInv
    <3>3. QED
      BY <2>1, <3>1, <3>2 DEF Inv, ThreadsInv
  <2>4. QED
    BY <2>1, <2>2, <2>3 DEF Inv, Conversation, LoadedThreadsAreLive
<1>2. QED
  BY <1>1, SpecInv, PTL

(* However edits race with turns, the engine that serves a turn was        *)
(* prepared for its profile, and from a configuration in force since it    *)
(* took the lock, except when it was edited while the engine was prepared. *)
THEOREM EngineFitsTheorem == Spec => []EngineFits
<1>1. Inv => EngineFits
  BY DEF Inv, EngineInv, EngineFits, EngineFitsProfile, EngineFresh
<1>2. QED
  BY <1>1, SpecInv, PTL

(* A response that continues a bound one inherits its workspace and its    *)
(* profile, whatever was requested, resumed, refused or retried.           *)
THEOREM IdentityTheorem == Spec => ConversationKeepsIdentity
<1> DEFINE Kept == \A r \in Requests :
                     bindings'[r] # bindings[r] /\ IsBound(prev[r]) =>
                       /\ bindings'[r].workspace = bindings[prev[r]].workspace
                       /\ bindings[prev[r]].profile \in {None, bindings'[r].profile}
<1>1. ASSUME Inv, Inv', [Next]_vars PROVE [Kept]_vars
  <2>1. SUFFICES ASSUME NEW r \in Requests, bindings'[r] # bindings[r], IsBound(prev[r])
                 PROVE  /\ bindings'[r].workspace = bindings[prev[r]].workspace
                        /\ bindings[prev[r]].profile \in {None, bindings'[r].profile}
    OBVIOUS
  <2>2. Filing
    <3>1. Typed
      BY <1>1 DEF Inv, Typed
    <3>2. QED
      BY <1>1, <2>1, <3>1, StepFiles DEF Arrive, storeVars
  <2>3. /\ r = cur /\ cur' = cur /\ pc' = "turning" /\ prev' = prev
        /\ prev[r] \in Requests \union Legacy \union {None}
    BY <1>1, <2>1, <2>2 DEF Filing, Inv, TypeOK
  <2>4. prev[r] # r /\ prev[r] # None
    BY <1>1, <2>1, RuntimeAssumption DEF Inv, Conversation, IsBound, Lookup, Unbound
  <2>5. bindings'[prev[r]] = bindings[prev[r]]
    BY <2>2, <2>3, <2>4 DEF Filing
  <2>6. /\ bindings'[r].workspace = job'.workspace /\ bindings'[r].profile = job'.profile
        /\ job'.workspace = Workspace(prev[cur], cur)'
        /\ Lookup(prev[cur])'.profile \in {None, job'.profile}
    BY <1>1, <2>3 DEF Inv, Conversation, BoundToAnsweringThread
  <2>7. Lookup(prev[cur])' = bindings[prev[r]] /\ Lookup(prev[r]) = bindings[prev[r]]
    BY <2>3, <2>4, <2>5 DEF Lookup
  <2>8. Workspace(prev[cur], cur)' = bindings[prev[r]].workspace
    BY <2>1, <2>7 DEF Workspace, IsBound
  <2>9. QED
    BY <2>6, <2>7, <2>8
<1>2. QED
  BY <1>1, SpecInv, PTL DEF Spec, ConversationKeepsIdentity

(* If callers only continue responses that have finished, the directory    *)
(* the handler stored a turn's attachments in, before the turn had the     *)
(* lock, is the one the turn runs in.                                      *)
THEOREM AttachmentsTheorem ==
  ASSUME ~EagerCallers
  PROVE  Spec => []AttachmentsWhereTurnRuns
<1>1. Init => AttachInv
  BY DEF Init, AttachInv
<1>2. Inv /\ AttachInv /\ [Next]_vars => AttachInv'
  BY AttachStep DEF Inv, Typed
<1>3. Inv /\ AttachInv => AttachmentsWhereTurnRuns
  <2>1. SUFFICES ASSUME Inv, AttachInv, pc \in {"turning", "driving"}
                 PROVE  attachDir[cur] = job.workspace
    BY DEF AttachmentsWhereTurnRuns
  <2>2. cur \in Requests /\ status[cur] = "active"
    BY <2>1 DEF Inv, TypeOK, Conversation
  <2>3. QED
    BY <2>1, <2>2 DEF AttachInv, Inv, Conversation
<1>4. QED
  BY <1>1, <1>2, <1>3, SpecInv, PTL DEF Spec

=============================================================================
