---------------------------- MODULE ConsoleTurns ----------------------------
(***************************************************************************)
(* Conversations of one browser: src/webui/src/app/page.tsx (sending,      *)
(* switching, deleting, spoken turns), lib/session-runs.ts,                *)
(* lib/session-store.ts, lib/sessions.ts and components/VoiceInputButton.  *)
(* A turn is sent by the conversation's agent (HttpAgent of @ag-ui/client) *)
(* to the console's server, which answers as AgentProxy says.              *)
(*                                                                         *)
(* Handlers see the state of the last commit, not the latest one: seen is  *)
(* the value of `runs` their closures captured.  Effects run some time     *)
(* after the commit that caused them and before the next one; a click or a *)
(* key press is followed by its commit and effects before anything else    *)
(* happens, an answer of the network is not.                               *)
(***************************************************************************)
EXTENDS AgentProxy, FiniteSets

CONSTANTS
  Profiles,     (* agents                                                   *)
  Default,      (* the agent that answers when none is asked for            *)
  Listed,       (* the agents the console lists                             *)
  MaxTurns,     (* bound: turns typed or spoken                             *)
  MaxSessions,  (* bound: conversations ever created                        *)
  Scopes        (* bounds of single behaviours: turns, conversations, the
                   messages in a response, the pieces of text in a message
                   and the conversations whose agent is chosen              *)

(* No agent is named.                                                      *)
NoAgent == "no agent"

ASSUME ConsoleAssumption ==
  /\ Default \in Profiles /\ NoAgent \notin Profiles /\ Listed \subseteq Profiles
  /\ MaxTurns \in Nat /\ MaxSessions \in Nat \ {0}
  /\ Scopes \subseteq [turns : 1..MaxTurns, sessions : 1..MaxSessions,
                       items : Nat \ {0}, pieces : Nat \ {0}, choices : Nat]

VARIABLES
  scope,      (* the bounds of this behaviour                              *)
  sessions,   (* the conversations of the owner in memory                  *)
  created,    (* conversations created so far; the newest is listed first  *)
  conv,       (* what is stored of each conversation                       *)
  active,     (* activeId: the conversation on screen                      *)
  identity,   (* has /api/me answered?                                     *)
  runs,       (* conversations marked as running, latest state             *)
  turns,      (* each turn                                                 *)
  queue,      (* pendingVoiceTurnsRef                                      *)
  pending,    (* pendingTurn, 0 for none                                   *)
  ui,         (* the view: what the last commit captured, what is due      *)
  answers,    (* history: what was answered in each conversation           *)
  overlapped, (* history: conversations in which a turn that no key press
                 sent ran beside another one                               *)
  dropped     (* history: an effect dropped a turn of a lost conversation  *)

storeVars == <<scope, sessions, created, conv, active, identity>>
history == <<answers, overlapped, dropped>>
vars == <<storeVars, runs, turns, queue, pending, ui, history>>

-----------------------------------------------------------------------------
(* Values                                                                  *)

Turns == 1..MaxTurns
Sessions == 1..MaxSessions

(* A response is identified by its turn and the agent that gives it.       *)
Responses == Turns \X Profiles
None == <<0, NoAgent>>

NoTurn == [state |-> "unused", typed |-> FALSE, meant |-> 0, profile |-> NoAgent,
           at |-> 0, by |-> NoAgent, live |-> FALSE, reply |-> NewReply(None)]

(* Answered, failed or never sent.                                         *)
Gone == [NoTurn EXCEPT !.state = "gone"]

NewConversation == [prev |-> None, bound |-> NoAgent, wanted |-> Default]
Unanswered == [last |-> None, agents |-> {}, unsigned |-> FALSE]

States == {"unused", "recorded", "queued", "pending", "running", "gone"}

TypeOK ==
  /\ sessions \subseteq 1..created /\ sessions # {} /\ created \in Sessions
  /\ \A s \in Sessions :
       /\ conv[s].prev \in Responses \union {None}
       /\ {conv[s].bound, conv[s].wanted} \subseteq Profiles \union {NoAgent}
  /\ active \in sessions
  /\ identity \in BOOLEAN
  /\ runs \subseteq Sessions
  /\ \A t \in Turns : turns[t].state \in States /\ turns[t].meant \in {0} \union Sessions
  /\ \A t \in Turns : turns[t].state = "queued" <=> t \in ToSet(queue)
  /\ pending \in {0} \union Turns
  /\ ui \in [seen : SUBSET Sessions, dirty : BOOLEAN, due : BOOLEAN,
             urgent : {"no", "flush", "commit"}]

Init ==
  /\ scope \in Scopes
  /\ sessions = {1} /\ created = 1
  /\ conv = [s \in Sessions |-> NewConversation]
  /\ active = 1 /\ identity = FALSE
  /\ runs = {}
  /\ turns = [t \in Turns |-> NoTurn]
  /\ queue = <<>> /\ pending = 0
  /\ ui = [seen |-> {}, dirty |-> FALSE, due |-> FALSE, urgent |-> "no"]
  /\ answers = [s \in Sessions |-> Unanswered] /\ overlapped = {} /\ dropped = FALSE

Used == {t \in Turns : turns[t].state # "unused"}
Fresh == Cardinality(Used) + 1

Calm == ui.urgent = "no"
Running(t) == turns[t].state = "running" /\ turns[t].live /\ turns[t].reply.end = "open"
Over(t) == turns[t].state = "running" /\ ~Running(t)

-----------------------------------------------------------------------------
(* send: started, refused because the conversation runs in the view, or    *)
(* refused because it does not exist.                                      *)

(* The agent the request asks for: addressed, bound or chosen.             *)
Requested(turn, s) ==
  IF turn.profile # NoAgent THEN turn.profile
  ELSE IF conv[s].bound # NoAgent THEN conv[s].bound ELSE conv[s].wanted

(* The agent that answers: the one of the response that is continued, else *)
(* the one asked for.                                                      *)
AnsweredBy(previous, requested) == IF previous # None THEN previous[2] ELSE requested

Ask(turn, s) ==
  [turn EXCEPT !.state = "running", !.at = s, !.live = TRUE, !.reply = NewReply(conv[s].prev),
               !.by = AnsweredBy(conv[s].prev, Requested(turn, s))]

(* Mutant: the guard against a second run is missing.                      *)
StartsAnyhow(s) == s \in sessions

Starts(s) == s \notin ui.seen /\ s \in sessions

(* turn and stored are turns[t] and conv as the handler has changed them.  *)
Send(t, turn, s, stored) ==
  /\ conv' = stored
  /\ \/ /\ Starts(s)
        /\ runs' = runs \union {s}
        /\ turns' = [turns EXCEPT ![t] = Ask(turn, s)]
        /\ overlapped' = overlapped \union
             {turns[u].at : u \in {v \in Turns : turns[v].state = "running" /\
                turns[v].at = s /\ ~(turn.typed /\ turns[v].typed)}}
     \/ /\ ~Starts(s)
        /\ turns' = [turns EXCEPT ![t] = Gone]
        /\ UNCHANGED <<runs, overlapped>>
  /\ UNCHANGED answers

(* A key press or a click: its commit and effects come next, which are     *)
(* only of interest when there is something to commit or an effect is due. *)
Discrete(started, waits) ==
  LET dirty == ui.dirty \/ started
  IN ui' = [ui EXCEPT !.urgent = IF dirty \/ ui.due \/ waits THEN "flush" ELSE "no", !.dirty = dirty]

Typed(profile) ==
  [NoTurn EXCEPT !.typed = TRUE, !.meant = active, !.profile = profile]

-----------------------------------------------------------------------------
(* The composer                                                            *)

(* submit: the composer is emptied and the text sent, also by Enter while  *)
(* the conversation runs; then the text is lost.                           *)
Submit ==
  /\ Calm /\ Cardinality(Used) < scope.turns
  /\ Send(Fresh, Typed(NoAgent), active, conv)
  /\ Discrete(Starts(active), FALSE)
  /\ UNCHANGED <<scope, sessions, created, active, identity, queue, pending, dropped>>

(* The picker, or `@agent` alone, of a conversation that is not bound.     *)
Choose(p) ==
  /\ Calm /\ conv[active].bound = NoAgent /\ conv[active].wanted # p
  /\ Cardinality({s \in Sessions : conv[s].wanted # Default}) < scope.choices
  /\ conv' = [conv EXCEPT ![active].wanted = p]
  /\ Discrete(FALSE, FALSE)
  /\ UNCHANGED <<scope, sessions, created, active, identity, runs, turns, queue, pending, history>>

(* Mutant: the agent a conversation is bound to is not looked at.          *)
AnotherAgentNever(p) == FALSE

(* `@agent text` for another agent than the conversation is bound to.      *)
AnotherAgent(p) == conv[active].bound \notin {NoAgent, p}

(* A conversation that is not bound yet asks for the agent from now on.    *)
Mention(p) ==
  /\ Calm /\ Cardinality(Used) < scope.turns /\ ~AnotherAgent(p)
  /\ Send(Fresh, Typed(p), active,
          IF conv[active].bound = NoAgent THEN [conv EXCEPT ![active].wanted = p] ELSE conv)
  /\ Discrete(Starts(active), FALSE)
  /\ UNCHANGED <<scope, sessions, created, active, identity, queue, pending, dropped>>

MentionAnother(p) ==
  /\ Calm /\ Cardinality(Used) < scope.turns /\ AnotherAgent(p) /\ created < scope.sessions
  /\ created' = created + 1
  /\ sessions' = sessions \union {created + 1}
  /\ active' = created + 1
  /\ turns' = [turns EXCEPT ![Fresh] =
       [NoTurn EXCEPT !.state = "pending", !.meant = created + 1, !.profile = p]]
  /\ pending' = Fresh
  /\ conv' = [conv EXCEPT ![created + 1].wanted = p]
  /\ Discrete(FALSE, TRUE)
  /\ UNCHANGED <<scope, identity, runs, queue, history>>

(* The button is disabled while the conversation runs; one recording at a  *)
(* time.  The recording belongs to the conversation it was started in.     *)
Record ==
  /\ Calm /\ Cardinality(Used) < scope.turns
  /\ active \notin ui.seen
  /\ \A t \in Turns : turns[t].state # "recorded"
  /\ turns' = [turns EXCEPT ![Fresh] = [NoTurn EXCEPT !.state = "recorded", !.meant = active]]
  /\ Discrete(FALSE, FALSE)
  /\ UNCHANGED <<storeVars, runs, queue, pending, history>>

(* Mutant: the transcript goes to the conversation on screen.              *)
ContextOnScreen(t) == active

Context(t) == turns[t].meant

(* onTranscript: sent at once, or kept until the conversation's run ends.  *)
Transcript(t) ==
  /\ Calm /\ turns[t].state = "recorded"
  /\ IF Context(t) \in ui.seen
     THEN /\ queue' = Append(queue, t)
          /\ turns' = [turns EXCEPT ![t].state = "queued"]
          /\ UNCHANGED <<conv, runs, ui, overlapped, answers>>
     ELSE /\ Send(t, turns[t], Context(t), conv)
          /\ ui' = [ui EXCEPT !.dirty = @ \/ Starts(Context(t))]
          /\ UNCHANGED queue
  /\ UNCHANGED <<scope, sessions, created, active, identity, pending, dropped>>

(* Cancelled, unintelligible, or the service failed.                       *)
RecordingFails(t) ==
  /\ Calm /\ turns[t].state = "recorded"
  /\ turns' = [turns EXCEPT ![t] = Gone]
  /\ UNCHANGED <<storeVars, runs, queue, pending, ui, history>>

-----------------------------------------------------------------------------
(* The list of conversations                                               *)

Select(s) ==
  /\ Calm /\ s \in sessions /\ s # active
  /\ active' = s
  /\ Discrete(FALSE, FALSE)
  /\ UNCHANGED <<scope, sessions, created, conv, identity, runs, turns, queue, pending, history>>

Create ==
  /\ Calm /\ created < scope.sessions
  /\ created' = created + 1
  /\ sessions' = sessions \union {created + 1}
  /\ active' = created + 1
  /\ Discrete(FALSE, FALSE)
  /\ UNCHANGED <<scope, conv, identity, runs, turns, queue, pending, history>>

(* Mutant: the conversation goes, its run goes on.                         *)
ReleaseQuietly(released) == UNCHANGED turns

(* abortRun and unsubscribe: nothing of the run reaches the store any more. *)
Release(released) ==
  turns' = [t \in Turns |->
    IF Running(t) /\ turns[t].at \in released
    THEN [NoTurn EXCEPT !.state = "running", !.at = turns[t].at, !.meant = turns[t].meant]
    ELSE turns[t]]

Forget(s) ==
  /\ conv' = [conv EXCEPT ![s] = NewConversation]
  /\ answers' = [answers EXCEPT ![s] = Unanswered]

(* There is always a conversation to show.                                 *)
Keep(remaining) ==
  \/ remaining # {} /\ sessions' = remaining /\ UNCHANGED created
  \/ /\ remaining = {} /\ created < scope.sessions
     /\ created' = created + 1
     /\ sessions' = {created + 1}

Newest(remaining) ==
  IF remaining = {} THEN {created + 1} ELSE {s \in remaining : \A u \in remaining : u <= s}

Delete(s) ==
  /\ Calm /\ s \in sessions
  /\ Release({s})
  /\ runs' = runs \ {s}
  /\ Keep(sessions \ {s})
  /\ Forget(s)
  /\ active' \in IF s = active THEN Newest(sessions \ {s}) ELSE {active}
  /\ Discrete(s \in runs, FALSE)
  /\ overlapped' = overlapped \ {s}
  /\ UNCHANGED <<scope, identity, queue, pending, dropped>>

(* /api/me answers: every agent is let go, and the account's conversations *)
(* replace those of nobody in particular.                                  *)
Identified ==
  /\ Calm /\ ~identity
  /\ identity' = TRUE
  /\ Release(sessions)
  /\ Keep({})
  /\ conv' = [s \in Sessions |-> NewConversation]
  /\ answers' = [s \in Sessions |-> Unanswered]
  /\ active' \in Newest({})
  /\ overlapped' = {}
  /\ UNCHANGED <<scope, runs, queue, pending, ui, dropped>>

(* /api/me cannot be reached: nothing is repointed.                        *)
IdentityUnknown ==
  /\ Calm /\ ~identity
  /\ identity' = TRUE
  /\ UNCHANGED <<scope, sessions, created, conv, active, runs, turns, queue, pending, ui, history>>

-----------------------------------------------------------------------------
(* The view                                                                *)

Render ==
  /\ ~ui.due
  /\ ui.urgent = "flush" \/ (ui.urgent = "no" /\ ui.dirty)
  /\ ui' = [seen |-> runs, dirty |-> FALSE, due |-> ui.dirty,
            urgent |-> IF ui.urgent = "flush" /\ (ui.dirty \/ pending # 0) THEN "commit" ELSE "no"]
  /\ UNCHANGED <<storeVars, runs, turns, queue, pending, history>>

(* The turn addressed to another agent, once its conversation is on screen. *)
PendingEffect ==
  /\ ui.urgent = "commit" /\ pending # 0
  /\ Send(pending, turns[pending], turns[pending].meant, conv)
  /\ pending' = 0
  /\ ui' = [ui EXCEPT !.dirty = TRUE, !.urgent = IF ui.due THEN @ ELSE "no"]
  /\ UNCHANGED <<scope, sessions, created, active, identity, queue, dropped>>

(* Mutant: the turn is sent and stays in the queue.                        *)
TakeNothing(k) == queue

Take(k) == RemoveAt(queue, k)

(* Mutant: only the conversation on screen is looked at.                   *)
ReadyOnScreen ==
  {k \in DOMAIN queue : turns[queue[k]].meant \notin ui.seen /\ turns[queue[k]].meant = active}

(* Where in the queue a turn of an idle conversation is.                   *)
Ready == {k \in DOMAIN queue : turns[queue[k]].meant \notin ui.seen}

AfterVoice(started) ==
  [ui EXCEPT !.due = FALSE, !.dirty = @ \/ started,
             !.urgent = IF @ = "commit" THEN "no" ELSE @]

(* After a commit with other runs: the first spoken turn whose             *)
(* conversation is idle is sent.                                           *)
VoiceEffect ==
  /\ ui.due
  /\ pending = 0 \/ ui.urgent = "flush"
  /\ \/ /\ Ready = {}
        /\ ui' = AfterVoice(FALSE) /\ UNCHANGED <<conv, runs, turns, queue, history>>
     \/ \E k \in Ready :
          LET t == queue[k]
          IN /\ \A j \in Ready : k <= j
             /\ queue' = Take(k)
             /\ Send(t, turns[t], turns[t].meant, conv)
             /\ ui' = AfterVoice(Starts(turns[t].meant))
             /\ dropped' = (dropped \/ ~Starts(turns[t].meant))
  /\ UNCHANGED <<scope, sessions, created, active, identity, pending>>

-----------------------------------------------------------------------------
(* The answer                                                              *)

Hears(t, reply) ==
  /\ Calm /\ Running(t)
  /\ turns' = [turns EXCEPT ![t].reply = reply]
  /\ UNCHANGED <<scope, sessions, created, active, identity, runs, queue, pending, ui,
                 overlapped, dropped>>

Id(t) == <<t, turns[t].by>>
Known(t) == turns[t].reply.prev = Id(t)

HearsCreated(t) ==
  ~Known(t) /\ Hears(t, Created(turns[t].reply, Id(t))) /\ UNCHANGED <<conv, answers>>

(* Messages come one after the other, each piece by piece.                 *)
NextPiece(text, p) ==
  \/ text = <<>> /\ p = <<1, 1>>
  \/ text # <<>> /\ p \in {<<Last(text)[1], Last(text)[2] + 1>>, <<Last(text)[1] + 1, 1>>}

HearsText(t, p) ==
  /\ Known(t) /\ ~turns[t].reply.completed /\ NextPiece(turns[t].reply.text, p)
  /\ Hears(t, EmitText(turns[t].reply, <<p>>, p[1]))
  /\ UNCHANGED <<conv, answers>>

(* What a response may be in full, given what was streamed of it: all of   *)
(* it, or more of the last message, or one message more.                   *)
Outputs(text) ==
  {text} \union {Append(text, p) : p \in {q \in (1..scope.items) \X (2..scope.pieces) : NextPiece(text, q)}}
         \union {text \o <<Separator, <<i, 1>> >> : i \in
                   {j \in 2..scope.items : text # <<>> /\ Last(text)[1] + 1 = j}}
         \union {<< <<1, 1>> >> : i \in {j \in {1} : text = <<>>}}

(* onMessagesChanged: the answer says which agent gave it.                 *)
HearsCompleted(t, output) ==
  /\ ~turns[t].reply.completed
  /\ Hears(t, Completed(turns[t].reply, Id(t), output))
  /\ conv' = [conv EXCEPT ![turns[t].at].bound = turns[t].by]
  /\ answers' = [answers EXCEPT ![turns[t].at].agents = @ \union {turns[t].by}]

(* What is left of a turn whose answer has ended.                          *)
Ended(t, end) ==
  [NoTurn EXCEPT !.state = "running", !.live = TRUE, !.typed = turns[t].typed,
     !.meant = turns[t].meant, !.at = turns[t].at, !.reply.end = end]

HearsLast(t, end) ==
  /\ Calm /\ Running(t)
  /\ turns' = [turns EXCEPT ![t] = Ended(t, end)]
  /\ UNCHANGED <<scope, sessions, created, active, identity, runs, queue, pending, ui,
                 overlapped, dropped>>

(* onStateChanged: a run that finished is what the next turn continues.    *)
HearsEnd(t) ==
  LET reply == StreamEnds(turns[t].reply)
      finished == reply.end = "finished"
  IN /\ HearsLast(t, reply.end)
     /\ conv' = IF finished THEN [conv EXCEPT ![turns[t].at].prev = reply.prev] ELSE conv
     /\ answers' = IF ~finished THEN answers
                   ELSE [answers EXCEPT ![turns[t].at].last = Id(t),
                                        ![turns[t].at].unsigned = @ \/ ~reply.completed]

(* Mutant: a failed response is continued as well.                         *)
HearsFailureContinued(t) ==
  /\ HearsLast(t, "error")
  /\ conv' = [conv EXCEPT ![turns[t].at].prev = turns[t].reply.prev]
  /\ UNCHANGED answers

HearsFailure(t) ==
  HearsLast(t, StreamFails(turns[t].reply).end) /\ UNCHANGED <<conv, answers>>

(* Mutant: the conversation on screen is marked idle.                      *)
SettledOnScreen(t) == active

Settled(t) == turns[t].at

(* runAgent returns or throws.                                             *)
RunSettles(t) ==
  /\ Calm /\ Over(t)
  /\ turns' = [turns EXCEPT ![t] = Gone]
  /\ runs' = runs \ {Settled(t)}
  /\ ui' = [ui EXCEPT !.dirty = @ \/ Settled(t) \in runs]
  /\ UNCHANGED <<storeVars, queue, pending, history>>

-----------------------------------------------------------------------------

Pieces == (1..scope.items) \X (1..scope.pieces)

Answer(t) ==
  \/ HearsCreated(t) \/ HearsEnd(t) \/ HearsFailure(t)
  \/ \E p \in Pieces : HearsText(t, p)
  \/ \E output \in Outputs(turns[t].reply.text) : HearsCompleted(t, output)

User ==
  \/ Submit \/ Record \/ Create
  \/ \E p \in Listed : Choose(p) \/ Mention(p) \/ MentionAnother(p)
  \/ \E s \in Sessions : Select(s) \/ Delete(s)

View == Render \/ PendingEffect \/ VoiceEffect

Next ==
  \/ User \/ View
  \/ Identified \/ IdentityUnknown
  \/ \E t \in Turns : Transcript(t) \/ RecordingFails(t) \/ Answer(t) \/ RunSettles(t)

Spec == Init /\ [][Next]_vars

(* React commits and runs effects, a response ends, and runAgent returns.  *)
Fairness ==
  /\ WF_vars(View)
  /\ \A t \in Turns : WF_vars(Answer(t) \/ RunSettles(t))

FairSpec == Spec /\ Fairness

-----------------------------------------------------------------------------
(* Properties                                                              *)

(* page.tsx:848: every turn, typed, addressed to another agent or spoken   *)
(* and kept while a run went on, is asked in the conversation it was meant *)
(* for, whatever was selected, created or deleted in the meantime.         *)
OwnConversation ==
  \A t \in Turns : turns[t].state = "running" => turns[t].at = turns[t].meant

(* session-runs.ts: a conversation answers one turn at a time, although    *)
(* the guard looks at the runs of the last commit.  Only where a turn was  *)
(* sent by no key press, so that its commit is not the next thing to       *)
(* happen, can another slip in beside it.                                  *)
OneRunPerConversation ==
  \A t, u \in Turns :
    t # u /\ Running(t) /\ Running(u) /\ turns[t].at = turns[u].at
      => turns[t].at \in overlapped

(* page.tsx:979: what is still being answered belongs to a conversation    *)
(* that exists; deleting it, or learning who is signed in, ends its run.   *)
RunsHaveConversations ==
  \A t \in Turns : Running(t) => turns[t].at \in sessions

(* A conversation goes on from its last answer: the response id kept for   *)
(* it is that of the last run that finished in it, never of a failed or    *)
(* aborted one, although the server learns the id before the outcome.      *)
ContinuesLastAnswer ==
  \A s \in sessions : conv[s].prev = answers[s].last

(* sessions.ts:16: a conversation keeps the agent that answered it, and a  *)
(* turn addressed to an agent is answered by that agent, in a conversation *)
(* of its own if need be.  A response that ended early does not say who    *)
(* gave it, so that the conversation may be bound without showing it.      *)
AgentKept ==
  /\ \A s \in sessions \ overlapped :
       ~answers[s].unsigned => Cardinality(answers[s].agents) <= 1
  /\ \A t \in Turns :
       Running(t) /\ ~answers[turns[t].at].unsigned /\ turns[t].at \notin overlapped
         => turns[t].profile \in {NoAgent, turns[t].by}

(* route.ts:254: two messages never run into each other, and a run that    *)
(* finishes has said something: the completed text, whether it was         *)
(* streamed, completed or both, or as much as came of a response that was  *)
(* cut short.                                                              *)
Unmixed(text) ==
  \A k \in 1..(Len(text) - 1) :
    Separator \in {text[k], text[k + 1]} \/ text[k][1] = text[k + 1][1]

Whole(reply) ==
  /\ reply.frames # <<>>
  /\ reply.completed => Spoken(Said(reply)) = Spoken(reply.output)

AnswerIsWhole ==
  [][\A t \in Turns :
       /\ \A i \in DOMAIN turns[t].reply.frames : Unmixed(turns[t].reply.frames[i].text)
       /\ Running(t) /\ turns'[t].reply.end = "finished" => Whole(turns[t].reply)]_vars

(* A spoken turn that was kept is sent once its conversation is idle.  An  *)
(* effect that finds a turn of a lost conversation first sends nothing and *)
(* is not repeated.                                                        *)
SpokenIsSent ==
  \A t \in Turns : turns[t].state = "queued" ~> turns[t].state # "queued" \/ dropped

(* Every conversation shown as running is shown as idle again.             *)
RunsEnd == \A s \in Sessions : s \in ui.seen ~> s \notin ui.seen

(* A turn stays with its conversation, page.tsx:848 and session-runs.ts: it *)
(* runs where it was meant, alone, and only as long as that conversation   *)
(* exists, however sessions are switched, created and deleted meanwhile.   *)
TurnsKeepTheirConversation ==
  TypeOK /\ OwnConversation /\ OneRunPerConversation /\ RunsHaveConversations

(* A conversation goes on where it stopped and with whom, sessions.ts:16:  *)
(* from its last finished answer and with the agent that gave it.          *)
ConversationGoesOn == ContinuesLastAnswer /\ AgentKept

(* Nothing that was asked hangs, page.tsx:848 and 979: a spoken turn that  *)
(* was kept is sent, and every run shown as running ends.                  *)
NothingHangs == SpokenIsSent /\ RunsEnd

=============================================================================
