--------------------------- MODULE ResponseStream ---------------------------
(***************************************************************************)
(* What a caller is shown of one turn: handle_response in                  *)
(* src/hosted-agent/main.py, fed by the notifications that                 *)
(* codex_adapter/events.py translates and by the end of the turn as        *)
(* client.py reports it.                                                   *)
(*                                                                         *)
(* The handler folds the events of the turn into a stream of output items: *)
(* reasoning, tool calls and one message.  Items are opened lazily, get    *)
(* text while open and are closed once.  Text is a sequence of pieces      *)
(* <<item, k>>, the k-th piece of an item of the engine, some of them only *)
(* whitespace; what the adapter adds itself are pieces of item 0.          *)
(* _activity_reply folds the same events in the same way for Teams and     *)
(* then chooses its answer.                                                *)
(***************************************************************************)
EXTENDS Naturals, Sequences, FiniteSets

CONSTANTS
  MaxItems,    (* bound: items the engine reports in one request           *)
  MaxPieces,   (* bound: pieces of text per item                           *)
  Blank        (* the pieces that are only whitespace                      *)

ASSUME StreamAssumption ==
  /\ MaxItems \in Nat \ {0} /\ MaxPieces \in Nat \ {0}
  /\ Blank \subseteq (1..MaxItems) \X (1..MaxPieces)

VARIABLES
  phase,       (* of the response                                          *)
  try,         (* attempt of the turn, 1 or 2 (client.py)                  *)
  spoke,       (* did this attempt report assistant output? (client.py)    *)
  kinds,       (* engine: kind of each item reported so far                *)
  current,     (* engine: the message or reasoning item in progress, or 0  *)
  streamed,    (* engine: pieces sent as deltas, per item                  *)
  turn,        (* engine: how the last attempt ended                       *)
  failure,     (* handler: a reason why the turn failed is known           *)
  files,       (* handler: what happened to the files of the turn          *)
  resp         (* handler: its output and its local variables              *)

engineVars == <<kinds, current, streamed, turn>>
clientVars == <<try, spoke>>
vars == <<phase, clientVars, engineVars, failure, files, resp>>

-----------------------------------------------------------------------------
(* Values                                                                  *)

Items == 1..MaxItems
Pieces == (Items \X (1..MaxPieces)) \union ({0} \X (1..4))
Ready == <<0, 1>>
Manifest == <<0, 2>>
Explanation == <<0, 3>>
ProfileNote == <<0, 4>>

OutputItem == [kind : {"reasoning", "tool", "message"}, open : BOOLEAN, text : Seq(Pieces)]

(* reasoning and message are positions in out, 0 for none; tools pairs a   *)
(* tool item of the engine with the position of its call.                  *)
Response == [out : Seq(OutputItem), reasoning : Nat, message : Nat,
             tools : SUBSET (Items \X Nat), output : Seq(Pieces)]

Empty == [out |-> <<>>, reasoning |-> 0, message |-> 0, tools |-> {}, output |-> <<>>]

Phases == {"new", "running", "publishing", "concluding", "completed", "error"}

TypeOK ==
  /\ phase \in Phases
  /\ try \in 1..2
  /\ spoke \in BOOLEAN
  /\ kinds \in Seq({"reasoning", "tool", "message"}) /\ Len(kinds) <= MaxItems
  /\ current \in 0..Len(kinds)
  /\ streamed \in [Items -> 0..MaxPieces]
  /\ turn \in {"running", "ok", "cancelled", "failed"}
  /\ failure \in BOOLEAN
  /\ files \in [made : BOOLEAN, lost : BOOLEAN]
  /\ resp \in Response

Init ==
  /\ phase = "new" /\ try = 1 /\ spoke = FALSE
  /\ kinds = <<>> /\ current = 0 /\ streamed = [i \in Items |-> 0] /\ turn = "running"
  /\ failure = FALSE
  /\ files = [made |-> FALSE, lost |-> FALSE]
  /\ resp = Empty

-----------------------------------------------------------------------------
(* The output stream.  Each operator maps a response to the next one.      *)

Add(s, kind) ==
  [s EXCEPT !.out = Append(@, [kind |-> kind, open |-> TRUE, text |-> <<>>])]

Write(s, i, text) == [s EXCEPT !.out[i].text = @ \o text]

Close(s, positions) ==
  [s EXCEPT !.out = [i \in DOMAIN @ |->
     IF i \in positions THEN [@[i] EXCEPT !.open = FALSE] ELSE @[i]]]

OpenReasoning(s) == [Add(s, "reasoning") EXCEPT !.reasoning = Len(s.out) + 1]

(* Mutant: the closed item stays the one that reasoning is added to.       *)
CloseReasoningKept(s) == Close(s, {s.reasoning})

CloseReasoning(s) == [Close(s, {s.reasoning}) EXCEPT !.reasoning = 0]

NewMessage(s) == [Add(s, "message") EXCEPT !.message = Len(s.out) + 1]

OpenMessage(s) == IF s.message = 0 THEN NewMessage(s) ELSE s

(* Append text to the message, opening it first.                           *)
Say(s, text) ==
  LET o == OpenMessage(s) IN [Write(o, o.message, text) EXCEPT !.output = @ \o text]

OpenTool(s, item) ==
  [Add(s, "tool") EXCEPT !.tools = @ \union {<<item, Len(s.out) + 1>>}]

CallsOf(s, items) == {p \in s.tools : p[1] \in items}

CloseTools(s, items) ==
  [Close(s, {p[2] : p \in CallsOf(s, items)}) EXCEPT !.tools = @ \ CallsOf(s, items)]

-----------------------------------------------------------------------------
(* The text of a completed message that was not streamed: the suffix when  *)
(* what was shown so far is a prefix of it, else nothing.                  *)

IsPrefixOf(s, t) == Len(s) <= Len(t) /\ SubSeq(t, 1, Len(s)) = s

(* Mutant: text that diverges from what was shown is shown as well.        *)
CompletionDeltaAlways(shown, whole) ==
  IF IsPrefixOf(shown, whole) THEN SubSeq(whole, Len(shown) + 1, Len(whole)) ELSE whole

CompletionDelta(shown, whole) ==
  IF IsPrefixOf(shown, whole) THEN SubSeq(whole, Len(shown) + 1, Len(whole)) ELSE <<>>

Whole(item, n) == [k \in 1..n |-> <<item, k>>]

(* Mutant: empty deltas are reported.                                      *)
ReportedEmpty(text) == TRUE

(* A delta or a completed text is only reported when it is not empty.      *)
Reported(text) == text # <<>>

(* str.strip() leaves nothing of it.                                       *)
IsBlank(text) == \A i \in 1..Len(text) : text[i] \in Blank

-----------------------------------------------------------------------------
(* The turn begins: the profile is resolved and reported first, or the     *)
(* request fails because its agent is not configured.                      *)

Begin ==
  /\ phase = "new"
  /\ phase' \in {"running", "error"}
  /\ UNCHANGED <<clientVars, engineVars, failure, files, resp>>

Hears == phase = "running" /\ UNCHANGED <<phase, try, files, turn>>

NewItem(kind) ==
  /\ Len(kinds) < MaxItems
  /\ kinds' = Append(kinds, kind)

(* item/started of a message or of reasoning says nothing yet.             *)
ItemStarted(kind) ==
  /\ Hears /\ current = 0
  /\ NewItem(kind)
  /\ current' = Len(kinds) + 1
  /\ UNCHANGED <<spoke, streamed, failure, resp>>

Streams(kind) == current # 0 /\ kinds[current] = kind

(* The next piece of the current item, or an empty delta.                  *)
NextDelta(text) ==
  /\ text \in {<<>>, << <<current, streamed[current] + 1>> >>}
  /\ text # <<>> => streamed[current] < MaxPieces
  /\ streamed' = [streamed EXCEPT ![current] = @ + Len(text)]
  /\ spoke' = (spoke \/ Reported(text))

ReasoningDelta(text) ==
  /\ Hears /\ Streams("reasoning")
  /\ NextDelta(text)
  /\ resp' = IF ~Reported(text) THEN resp
             ELSE LET o == IF resp.reasoning = 0 THEN OpenReasoning(resp) ELSE resp
                  IN Write(o, o.reasoning, text)
  /\ UNCHANGED <<kinds, current, failure>>

(* The summary of a completed reasoning item, unless it is blank or one is *)
(* being shown.                                                            *)
ReasoningCompleted(n) ==
  /\ Hears /\ Streams("reasoning") /\ n >= streamed[current]
  /\ LET text == Whole(current, n)
     IN /\ spoke' = (spoke \/ ~IsBlank(text))
        /\ resp' = IF IsBlank(text) \/ resp.reasoning # 0 THEN resp
                   ELSE LET o == OpenReasoning(resp) IN Write(o, o.reasoning, text)
  /\ current' = 0
  /\ UNCHANGED <<kinds, streamed, failure>>

MessageDelta(text) ==
  /\ Hears /\ Streams("message")
  /\ NextDelta(text)
  /\ resp' = IF Reported(text) THEN Say(CloseReasoning(resp), text) ELSE resp
  /\ UNCHANGED <<kinds, current, failure>>

MessageCompleted(n) ==
  /\ Hears /\ Streams("message") /\ n >= streamed[current]
  /\ LET text == Whole(current, n)
         rest == CompletionDelta(resp.output, text)
     IN /\ spoke' = (spoke \/ Reported(text))
        /\ resp' = IF rest # <<>> THEN Say(resp, rest) ELSE resp
  /\ current' = 0
  /\ UNCHANGED <<kinds, streamed, failure>>

(* Tools start while other items are in progress and overlap each other.   *)
ToolStarted ==
  /\ Hears
  /\ NewItem("tool")
  /\ resp' = OpenTool(CloseReasoning(resp), Len(kinds) + 1)
  /\ UNCHANGED <<spoke, current, streamed, failure>>

ToolCompleted(item) ==
  /\ Hears
  /\ item \in 1..Len(kinds) /\ kinds[item] = "tool"
  /\ resp' = CloseTools(resp, {item})
  /\ UNCHANGED <<spoke, kinds, current, streamed, failure>>

(* An error the engine will not retry is remembered as the reason.         *)
TurnError(willRetry) ==
  /\ Hears
  /\ failure' = (failure \/ ~willRetry)
  /\ UNCHANGED <<spoke, kinds, current, streamed, resp>>

-----------------------------------------------------------------------------
(* The turn ends                                                           *)

(* turn/completed, or the caller cancelled: the events of the turn are     *)
(* over.                                                                   *)
TurnSucceeds(outcome) ==
  /\ phase = "running" /\ outcome \in {"ok", "cancelled"}
  /\ turn' = outcome
  /\ phase' = "publishing"
  /\ UNCHANGED <<clientVars, kinds, current, streamed, failure, files, resp>>

(* turn/completed says that the turn failed, and perhaps why.  task.failed *)
(* is yielded, then the turn raises; or it is tried again in a new thread  *)
(* because the endpoint rejected its history and nobody saw anything.      *)
TurnFails(explained) ==
  /\ phase = "running"
  /\ turn' = "failed"
  /\ failure' = (failure \/ explained)
  /\ phase' = "error"
  /\ UNCHANGED <<clientVars, kinds, current, streamed, files, resp>>

(* Mutant: the flag that limits the turn to one retry is missing.          *)
TurnRetriedAgain ==
  /\ phase = "running" /\ ~spoke
  /\ try' = try + 1
  /\ current' = 0
  /\ failure' = TRUE
  /\ UNCHANGED <<phase, spoke, kinds, streamed, turn, files, resp>>

TurnRetried ==
  /\ phase = "running" /\ try = 1 /\ ~spoke
  /\ try' = 2
  /\ current' = 0
  /\ failure' \in {failure, TRUE}
  /\ UNCHANGED <<phase, spoke, kinds, streamed, turn, files, resp>>

(* The engine is lost or silent, the caller cancels during a call, or the  *)
(* files of the turn cannot be collected.                                  *)
TurnBreaks ==
  /\ phase \in {"running", "publishing"}
  /\ turn' = "failed"
  /\ phase' = "error"
  /\ UNCHANGED <<clientVars, kinds, current, streamed, failure, files, resp>>

(* The files the turn left are published; some of them may be lost.        *)
Publish(made, lost) ==
  /\ phase = "publishing"
  /\ files' = [made |-> made, lost |-> lost]
  /\ phase' = "concluding"
  /\ UNCHANGED <<clientVars, engineVars, failure, resp>>

-----------------------------------------------------------------------------
(* handle_response after the last event                                    *)

CloseCalls(s) == CloseTools(CloseReasoning(s), Items)

(* Mutant: lost files alone are not reported.                              *)
DeliverMadeFiles(s) ==
  IF ~files.made THEN s
  ELSE Say(IF IsBlank(s.output) THEN Say(s, <<Ready>>) ELSE s, <<Manifest>>)

(* Mutant: whitespace counts as an answer beside the files.                *)
DeliverFilesUnstripped(s) ==
  IF ~files.made /\ ~files.lost THEN s
  ELSE Say(IF files.made /\ s.output = <<>> THEN Say(s, <<Ready>>) ELSE s, <<Manifest>>)

(* Mutant: the profile is appended before it is known that something was   *)
(* said.                                                                   *)
DeliverFilesAndProfile(s) ==
  Say(IF files.made \/ files.lost THEN Say(s, <<Manifest>>) ELSE s, <<ProfileNote>>)

(* The files are announced when nothing but whitespace was said.           *)
DeliverFiles(s) ==
  IF ~files.made /\ ~files.lost THEN s
  ELSE Say(IF files.made /\ IsBlank(s.output) THEN Say(s, <<Ready>>) ELSE s, <<Manifest>>)

(* No output at all, not even whitespace: the reason is told in a message  *)
(* of its own.                                                             *)
Explain(s) == IF s.output = <<>> THEN Say(NewMessage(s), <<Explanation>>) ELSE s

AddProfile(s) == Say(s, <<ProfileNote>>)

CloseMessage(s) == Close(s, {s.message})

Respond ==
  /\ phase = "concluding"
  /\ LET s == DeliverFiles(CloseCalls(resp))
     IN \/ /\ s.output # <<>> \/ failure
           /\ resp' = CloseMessage(AddProfile(Explain(s)))
           /\ phase' = "completed"
        \/ /\ s.output = <<>> /\ ~failure
           /\ resp' = s
           /\ phase' = "error"
  /\ UNCHANGED <<clientVars, engineVars, failure, files>>

(* What _activity_reply answers in Teams to the same events: its tests are *)
(* all of what is left of the speech without whitespace.                   *)
TeamsAnswer(speech) ==
  LET said == speech \ Blank
  IN CASE said # {} -> "speech"
       [] said = {} /\ files.made -> "files"
       [] said = {} /\ ~files.made /\ files.lost -> "unpublished"
       [] said = {} /\ ~files.made /\ ~files.lost /\ failure -> "explanation"
       [] OTHER -> "error"

-----------------------------------------------------------------------------

Deltas == {<<>>} \union {<<p>> : p \in Pieces}

Event ==
  \/ \E kind \in {"message", "reasoning"} : ItemStarted(kind)
  \/ \E text \in Deltas : ReasoningDelta(text) \/ MessageDelta(text)
  \/ \E n \in 0..MaxPieces : ReasoningCompleted(n) \/ MessageCompleted(n)
  \/ ToolStarted \/ \E item \in Items : ToolCompleted(item)
  \/ \E willRetry \in BOOLEAN : TurnError(willRetry)

End ==
  \/ \E outcome \in {"ok", "cancelled"} : TurnSucceeds(outcome)
  \/ \E explained \in BOOLEAN : TurnFails(explained)
  \/ TurnRetried \/ TurnBreaks
  \/ \E made, lost \in BOOLEAN : Publish(made, lost)

Next == Begin \/ Event \/ End \/ Respond

Spec == Init /\ [][Next]_vars

-----------------------------------------------------------------------------
(* Properties                                                              *)

Shown == {resp.output[i] : i \in 1..Len(resp.output)}

(* What the engine said of it.                                             *)
IsSpeech(p) == p[1] # 0

Speech == {p \in Shown : IsSpeech(p)}

Before(p, q) == p[1] < q[1] \/ (p[1] = q[1] /\ p[2] < q[2])

(* When response.completed is sent every item has been closed, one of them *)
(* is the message, and its text is the text announced by output_text.done, *)
(* whichever reasoning, overlapping tools, retry, files and explanation    *)
(* came before.                                                            *)
ClosedOnCompletion ==
  phase = "completed" =>
    /\ \A i \in 1..Len(resp.out) : ~resp.out[i].open
    /\ {i \in 1..Len(resp.out) : resp.out[i].kind = "message"} = {resp.message}
    /\ resp.out[resp.message].text = resp.output

(* main.py:670: the response is well formed at every event, and complete   *)
(* when it says so.                                                        *)
CompletionIsWhole == TypeOK /\ ClosedOnCompletion

(* What was streamed is never taken back: items keep their place, text     *)
(* only grows, and a closed item does not change any more.                 *)
ItemsOnlyGrow ==
  [][\A i \in 1..Len(resp.out) :
       /\ i <= Len(resp'.out)
       /\ resp'.out[i].kind = resp.out[i].kind
       /\ IsPrefixOf(resp.out[i].text, resp'.out[i].text)
       /\ ~resp.out[i].open => resp'.out[i] = resp.out[i]]_vars

(* The answer holds every piece of the messages the engine streamed, and   *)
(* what it shows of a message is in order, without gaps and not repeated,  *)
(* although each message is reported again when it is completed.           *)
SpeechIntact ==
  /\ \A i \in 1..Len(kinds), k \in 1..MaxPieces :
       kinds[i] = "message" /\ k <= streamed[i] => <<i, k>> \in Shown
  /\ \A a, b \in 1..Len(resp.output) :
       a < b /\ IsSpeech(resp.output[a]) /\ IsSpeech(resp.output[b]) =>
         Before(resp.output[a], resp.output[b])
  /\ \A p \in Speech : p[2] > 1 => <<p[1], p[2] - 1>> \in Speech

(* The engine said nothing but whitespace, and there are no files to speak *)
(* of instead.                                                             *)
OnlyBlank == Speech # {} /\ Speech \subseteq Blank /\ ~files.made /\ ~files.lost

(* A response that completes tells its reader something: speech, files or  *)
(* the reason why there is neither.  Whitespace, and the note about the    *)
(* profile, which every response carries, do not count.                    *)
NotSilent == phase = "completed" => Shown \ Blank # {ProfileNote}

(* The same events lead to the same answer in the console and in Teams:    *)
(* an error, an explanation, a pointer to the files, or speech.            *)
ChannelsAgree ==
  turn \in {"ok", "cancelled"} /\ phase \in {"completed", "error"} =>
    LET answer == TeamsAnswer(Speech)
    IN /\ phase = "error" <=> answer = "error"
       /\ Explanation \in Shown <=> answer = "explanation"
       /\ Ready \in Shown <=> answer = "files"

(* _respond, main.py:683: every response that completes says something to  *)
(* its reader, and says the same in the console and in Teams, whatever     *)
(* mixture of speech, whitespace, files, lost files and retries the turn   *)
(* was.  Excepted is a turn that said only whitespace and left no files:   *)
(* main.py:702 asks whether there is any output and completes with it,     *)
(* where main.py:362 strips it and Teams is given the reason, or an error. *)
AnswersAlike == ~OnlyBlank => NotSilent /\ ChannelsAgree

=============================================================================
