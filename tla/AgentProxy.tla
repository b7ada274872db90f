----------------------------- MODULE AgentProxy -----------------------------
(***************************************************************************)
(* How the console's server turns the stream of one response into the run  *)
(* a browser sees: the ReadableStream of POST in                           *)
(* src/webui/src/app/api/agent/route.ts with lib/agent-proxy.ts.           *)
(*                                                                         *)
(* Each operator maps the reply so far to the reply after one event of the *)
(* stream.  A piece <<i, k>> is the k-th piece of the text of the i-th     *)
(* message of the response; Separator stands between two messages.         *)
(***************************************************************************)
EXTENDS Naturals, Sequences, SequencesExt

Separator == <<0, 0>>

(* item and text are currentItemId and assistantText, open says that a     *)
(* message is being sent, frames are the messages sent, output is the text *)
(* of response.completed.                                                  *)
NewReply(previous) ==
  [prev |-> previous, frames |-> <<>>, open |-> FALSE, item |-> 0, text |-> <<>>,
   completed |-> FALSE, output |-> <<>>, end |-> "open"]

(* Mutant: text of another message goes on in the open one.                *)
NewFrameOnce(reply, item) == ~reply.open

NewFrame(reply, item) == ~reply.open \/ item # reply.item

OpenFrame(reply, item) ==
  [reply EXCEPT !.text = IF reply.open THEN Append(@, Separator) ELSE @,
                !.open = TRUE,
                !.item = item,
                !.frames = Append(@, [item |-> item, text |-> <<>>])]

EmitText(reply, delta, item) ==
  IF delta = <<>> THEN reply
  ELSE LET r == IF NewFrame(reply, item) THEN OpenFrame(reply, item) ELSE reply
       IN [r EXCEPT !.text = @ \o delta, !.frames[Len(r.frames)].text = @ \o delta]

(* responseTextDelta: what the completed text adds to what was streamed;   *)
(* nothing when the two diverge.                                           *)
TextDelta(streamed, completed) ==
  IF IsPrefix(streamed, completed)
  THEN SubSeq(completed, Len(streamed) + 1, Len(completed))
  ELSE IF streamed # <<>> THEN <<>> ELSE completed

Created(reply, id) == [reply EXCEPT !.prev = id]

Completed(reply, id, output) ==
  EmitText([reply EXCEPT !.prev = id, !.completed = TRUE, !.output = output],
           TextDelta(reply.text, output), reply.item)

(* The stream is over: RUN_FINISHED, unless nothing was said.              *)
StreamEnds(reply) ==
  [reply EXCEPT !.open = FALSE,
                !.end = IF reply.frames = <<>> THEN "error" ELSE "finished"]

(* An error event, a refused request or a broken connection: RUN_ERROR.    *)
StreamFails(reply) == [reply EXCEPT !.open = FALSE, !.end = "error"]

Said(reply) == FlattenSeq([i \in DOMAIN reply.frames |-> reply.frames[i].text])

(* A text without what stands between its messages.                        *)
Spoken(text) ==
  LET spoken[k \in 0..Len(text)] ==
        IF k = 0 THEN <<>>
        ELSE IF text[k] = Separator THEN spoken[k - 1] ELSE Append(spoken[k - 1], text[k])
  IN spoken[Len(text)]

=============================================================================
