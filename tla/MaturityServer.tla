--------------------------- MODULE MaturityServer ---------------------------
(***************************************************************************)
(* The tools of the maturity assessment over one session directory:        *)
(* toolkit.py behind the JSON-RPC connection of mcp/jsonrpc.py, with the   *)
(* answers file of session.py.                                             *)
(*                                                                         *)
(* The server reads one line at a time.  A tool call is served when it is  *)
(* read, except maturity_run_interview, which asks the customer through    *)
(* the client and waits; while it waits, further lines are served in a     *)
(* nested frame, and an answer to an outer frame is parked until that      *)
(* frame has the floor again.  The client may answer and call in any       *)
(* order, decline, send what does not fit, and the process may die: only   *)
(* the file survives.                                                      *)
(*                                                                         *)
(* heard, lost and the field judged of a document are read by properties   *)
(* only; spare bounds what a client does besides the straight interview.   *)
(***************************************************************************)
EXTENDS MaturityInterview

CONSTANTS NoFile,      \* the session directory holds no answers file
          Foreign,     \* answers files written by others that may be there
          Supplied,    \* the framing answers a session may be started with
          Quotas,      \* max_questions; 0 runs to the end
          MaxDepth,    \* interviews that may be waiting inside one another
          Spare        \* departures from the straight interview in a behaviour

\* A probe is passed only by an answer in own words, judged as it stands, at
\* an anchor that fires it.
Proven(e) ==
  e.passed = "pass" => e.qc \in Words /\ e.judged = e.qc /\ FiresProbe(e.anchor)

\* What the interview leaves behind as long as nothing is revised.
Straight(doc) ==
  /\ doc.tier # NoTier => "tier" \in doc.keys
  /\ \A d \in Dims : LET e == doc.answers[d] IN
       /\ Proven(e) /\ (e.qc = Offered => e.passed = "fail")
       /\ e.qc # Nothing => Probed(doc.tier) /\ FiresProbe(e.anchor)
       /\ e.passed # "unset" => FiresProbe(e.anchor)

ASSUME ServerConstants ==
  /\ Quotas \subseteq Nat /\ MaxDepth \in Nat \ {0} /\ Spare \in Nat
  /\ NoFile \notin Document
  /\ \A f \in Foreign : f \in Document /\ Straight(f)
  /\ \A s \in Supplied : /\ s \in Seq(ToSet(s))
                         /\ \A i \in DOMAIN s : s[i].q[1] = "framing" /\ s[i].a \in AnswersTo(s[i].q)

VARIABLES file, frames, heard, lost, spare
vars == <<file, frames, heard, lost, spare>>

-----------------------------------------------------------------------------
(* A frame of maturity_run_interview: the document it loaded, the question *)
(* put to the customer, the answer parked for it, the questions left, and  *)
(* whether the file was written by another call since it was loaded.       *)

Frame(doc, quota) ==
  [doc |-> doc, ask |-> NextQuestion(doc), reply |-> <<>>, quota |-> quota, stale |-> FALSE]

Top == Len(frames)
Listening == \A i \in DOMAIN frames : i = Top => frames[i].reply = <<>>
Departs == spare > 0 /\ spare' = spare - 1

Nobody == [d \in Dims |-> 0]

\* _advance: the status is derived and saved with the document.
Advanced(doc) ==
  [doc EXCEPT !.status = IF IsComplete(doc) THEN "complete" ELSE "in_progress"]

\* A call reads the file and writes it back in one piece.
SavedByCall(doc) ==
  /\ file' = doc
  /\ frames' = [i \in DOMAIN frames |-> [frames[i] EXCEPT !.stale = TRUE]]

Hear(q, a) ==
  heard' = IF q[2] = "qa" /\ ~lost THEN [heard EXCEPT ![q[1]] = a] ELSE heard

-----------------------------------------------------------------------------
(* maturity_start_session                                                  *)

\* A supplied answer is taken only where the interview would ask for it.
Prefill(doc, s) ==
  IF NextQuestion(doc) = s.q THEN Record(doc, s.q, s.a) ELSE doc

Prefilled(supplied) ==
  LET doc[i \in 0..Len(supplied)] ==
        IF i = 0 THEN NewDocument ELSE Prefill(doc[i - 1], supplied[i])
  IN doc[Len(supplied)]

StartSession(supplied) ==
  /\ Listening /\ file = NoFile
  /\ SavedByCall(Advanced(Prefilled(supplied)))
  /\ UNCHANGED <<heard, lost, spare>>

ResumeSession ==
  /\ Listening /\ file # NoFile /\ Departs
  /\ SavedByCall(Advanced(file))
  /\ UNCHANGED <<heard, lost>>

OverwriteSession(supplied) ==
  /\ Listening /\ file # NoFile /\ Departs
  /\ SavedByCall(Advanced(Prefilled(supplied)))
  /\ heard' = Nobody
  /\ UNCHANGED <<lost>>

-----------------------------------------------------------------------------
(* maturity_record_answer, maturity_judge_probe                            *)

RecordCall(q, a) ==
  /\ Listening /\ file # NoFile /\ Accepts(file, q)
  /\ \E doc \in {Record(file, q, a)} : SavedByCall(Advanced(doc))
  /\ Hear(q, a)
  /\ UNCHANGED <<lost>>

RecordNext ==
  /\ frames = <<>> /\ file # NoFile
  /\ \E q \in {NextQuestion(file)} \ {NoQuestion} : \E a \in AnswersTo(q) : RecordCall(q, a)
  /\ UNCHANGED spare

\* An answer out of turn: a revision, or any answer while an interview runs.
RecordOther(q, a) ==
  /\ file # NoFile /\ (frames # <<>> \/ NextQuestion(file) # q)
  /\ Departs /\ RecordCall(q, a)

JudgeProbe(d, verdict) ==
  /\ Listening /\ file # NoFile /\ Judgeable(file, d, verdict)
  /\ frames # <<>> => spare > 0
  /\ spare' = IF frames = <<>> THEN spare ELSE spare - 1
  /\ SavedByCall(Advanced(Judge(file, d, verdict)))
  /\ UNCHANGED <<heard, lost>>

-----------------------------------------------------------------------------
(* maturity_run_interview                                                  *)

\* Mutant: the customer is asked even when nothing is left to ask.
RunInterviewUnchecked(quota) ==
  /\ Listening /\ file # NoFile /\ Top < MaxDepth
  /\ frames # <<>> => spare > 0
  /\ spare' = IF frames = <<>> THEN spare ELSE spare - 1
  /\ frames' = Append(frames, Frame(file, quota))
  /\ UNCHANGED <<file, heard, lost>>

RunInterview(quota) ==
  /\ Listening /\ file # NoFile /\ Top < MaxDepth
  /\ frames # <<>> => spare > 0
  /\ spare' = IF frames = <<>> THEN spare ELSE spare - 1
  /\ IF NextQuestion(file) = NoQuestion
       THEN SavedByCall(Advanced(file))
       ELSE frames' = Append(frames, Frame(file, quota)) /\ UNCHANGED file
  /\ UNCHANGED <<heard, lost>>

\* The frame that has the floor writes its document; the frames below it
\* hold what they loaded.  What others wrote since it was loaded is gone.
SavedByTop(doc, below) ==
  /\ file' = doc
  /\ lost' = (lost \/ frames[Top].stale)
  /\ frames' = [i \in DOMAIN below |->
                  IF i < Top THEN [below[i] EXCEPT !.stale = TRUE] ELSE below[i]]

\* Mutant: Answers are saved when the call ends.
TakeAnswerSavedAtEnd(q, a) ==
  LET f == frames[Top]
      rest == SubSeq(frames, 1, Top - 1)
  IN \E doc \in {Record(f.doc, q, a)} : \E next \in {NextQuestion(doc)} :
       /\ IF next = NoQuestion \/ f.quota = 1
            THEN SavedByTop(Advanced(doc), rest)
            ELSE /\ frames' = Append(rest, [f EXCEPT !.doc = doc, !.ask = next, !.reply = <<>>])
                 /\ UNCHANGED <<file, lost>>
       /\ heard' = IF lost' THEN Nobody
                   ELSE IF q[2] = "qa" THEN [heard EXCEPT ![q[1]] = a] ELSE heard

\* An accepted answer is saved before the next question is put, or before
\* the call returns.
TakeAnswer(q, a) ==
  LET f == frames[Top]
      rest == SubSeq(frames, 1, Top - 1)
  IN \E doc \in {Record(f.doc, q, a)} : \E next \in {NextQuestion(doc)} :
       /\ IF next = NoQuestion \/ f.quota = 1
            THEN SavedByTop(Advanced(doc), rest)
            ELSE SavedByTop(doc, Append(rest,
                   [f EXCEPT !.doc = doc, !.ask = next, !.reply = <<>>, !.stale = FALSE,
                             !.quota = IF @ = 0 THEN 0 ELSE @ - 1]))
       /\ heard' = IF lost' THEN Nobody
                   ELSE IF q[2] = "qa" THEN [heard EXCEPT ![q[1]] = a] ELSE heard

\* A decline or a cancel, and an answer that does not fit the question, save
\* the document as it stands and end the call; so does a client's error,
\* which saves nothing.
StopInterview(action) ==
  LET f == frames[Top]
      rest == SubSeq(frames, 1, Top - 1)
  IN IF action = "error"
       THEN frames' = rest /\ UNCHANGED <<file, heard, lost>>
       ELSE /\ SavedByTop(IF action = "misfit" THEN f.doc ELSE Advanced(f.doc), rest)
            /\ heard' = IF lost' THEN Nobody ELSE heard

\* What a client may send back: a text field never yields an option.
TypedAnswers(q) == IF q[2] = "qc" THEN AnswersTo(q) \ {Offered} ELSE AnswersTo(q)
Stops == {"decline", "misfit", "error"}

Respond(reply) ==
  IF reply.action = "accept" THEN TakeAnswer(reply.ask, reply.value)
                             ELSE StopInterview(reply.action)

\* The response to the question of the frame that waits on top.
Answer(a) ==
  /\ frames # <<>> /\ Listening
  /\ Respond([action |-> "accept", ask |-> frames[Top].ask, value |-> a])
  /\ UNCHANGED spare

Interrupt(action) ==
  /\ frames # <<>> /\ Listening /\ Departs
  /\ Respond([action |-> action])

\* The response to an outer question is read by an inner frame and parked.
AnswerOuter(i, a) ==
  /\ i < Top /\ Listening /\ frames[i].reply = <<>>
  /\ frames' = [frames EXCEPT ![i].reply =
                  <<[action |-> "accept", ask |-> frames[i].ask, value |-> a]>>]
  /\ UNCHANGED <<file, heard, lost, spare>>

\* Mutant: Parked responses are looked for only when the wait begins.
NothingTaken == FALSE

\* A frame that has the floor again looks for a parked response first.
TakeParked ==
  /\ frames # <<>> /\ frames[Top].reply # <<>>
  /\ Respond(frames[Top].reply[1])
  /\ UNCHANGED spare

\* The process dies; whoever waited is gone and the file stays.
Crash ==
  /\ frames # <<>> /\ Departs
  /\ frames' = <<>>
  /\ UNCHANGED <<file, heard, lost>>

Init ==
  /\ file \in {NoFile} \cup Foreign
  /\ frames = <<>> /\ lost = FALSE /\ spare = Spare
  /\ heard = [d \in Dims |-> IF file = NoFile THEN 0 ELSE file.answers[d].anchor]

Next ==
  \/ \E s \in Supplied : StartSession(s) \/ OverwriteSession(s)
  \/ ResumeSession
  \/ spare > 0 /\ \E q \in AllQuestions : \E a \in AnswersTo(q) : RecordOther(q, a)
  \/ RecordNext
  \/ \E d \in Dims, v \in {"pass", "fail"} : JudgeProbe(d, v)
  \/ \E n \in Quotas : RunInterview(n)
  \/ frames # <<>> /\ \E a \in TypedAnswers(frames[Top].ask) : Answer(a)
  \/ \E action \in Stops : Interrupt(action)
  \/ \E i \in DOMAIN frames : \E a \in TypedAnswers(frames[i].ask) : AnswerOuter(i, a)
  \/ TakeParked
  \/ Crash

Spec == Init /\ [][Next]_vars

\* The facilitator puts the questions and records the answers, the customer
\* answers the question in front of them, and the server reads on.
Fairness ==
  /\ WF_vars(\E s \in Supplied : StartSession(s))
  /\ WF_vars(RecordNext)
  /\ WF_vars(frames # <<>> /\ \E a \in TypedAnswers(frames[Top].ask) : Answer(a))
  /\ WF_vars(TakeParked)

FairSpec == Spec /\ Fairness

-----------------------------------------------------------------------------
(* Properties.                                                             *)

TypeOK ==
  /\ file = NoFile \/ file \in Document
  /\ Top <= MaxDepth
  /\ \A i \in DOMAIN frames :
       /\ frames[i].doc \in Document /\ frames[i].ask \in AllQuestions
       /\ frames[i].quota \in Nat /\ frames[i].stale \in BOOLEAN
       /\ \A k \in DOMAIN frames[i].reply :
            frames[i].reply[k].value \in AnswersTo(frames[i].ask)
  /\ heard \in [Dims -> Levels \cup {0}] /\ lost \in BOOLEAN /\ spare \in 0..Spare

\* A probe counts as passed only for an answer in the customer's own words
\* that was judged as it stands, at an anchor that fires the probe: not for
\* an option that was clicked, nor for an answer or an anchor given since
\* (interview.py, the branch for qc in record, _clear_stale_probe, judge_probe).
PassedMeansProven ==
  file # NoFile => \A d \in Dims : Proven(file.answers[d])

\* Whatever was revised, judged or interrupted, the validator accepts the
\* assessment of every document the scorer takes, and no level of three or
\* more stands without an artifact, none of four or more without a proven
\* answer (scoring.py score, apply_evidence_gate; validation.py validate).
ScoreIsValid ==
  file # NoFile /\ Scorable(file) /\ file.tier # NoTier =>
    LET a == Assessment(file) IN
    /\ Valid(a)
    /\ \A d \in Dims :
         /\ a.scores[d].level >= 3 => file.answers[d].evidence
         /\ a.scores[d].level >= 4 => file.answers[d].judged \in Words

\* An interview without revisions ends in a document the scorer takes, for
\* every tier and every answer, also when the customer said nothing to a
\* probe; except that a verdict was given on an answer nobody gave
\* (judge_probe takes passed=False there, score refuses it).
CompleteIsScorable ==
  file # NoFile /\ spare = Spare /\ IsComplete(file) =>
      \/ Scorable(file)
      \/ \E d \in Dims : file.answers[d].passed = "fail" /\ file.answers[d].qc = Nothing

\* While the customer is asked the next question every answer accepted so
\* far is in the file, so a crash, a decline or a cancel loses none
\* (toolkit.py run_interview saves before it asks again).
SavedBeforeAsked ==
  \A i \in DOMAIN frames :
    ~frames[i].stale => [frames[i].doc EXCEPT !.status = file.status] = file

\* As long as no waiting interview has written over what other calls saved,
\* the file holds the last level accepted for every dimension, through
\* nested calls, parked answers, resumed sessions and crashes.
HeardIsKept ==
  ~lost /\ file # NoFile => \A d \in Dims : file.answers[d].anchor = heard[d]

\* With an attentive facilitator and customer every interview completes:
\* a question answered with nothing is not put again for ever, and an answer
\* parked for an outer interview reaches it.
InterviewCompletes == <>(file # NoFile /\ IsComplete(file))
ParkedIsTaken ==
  \A i \in 1..MaxDepth :
  (i <= Top /\ frames[i].reply # <<>>) ~> ~(i <= Top /\ frames[i].reply # <<>>)

\* The score of an interview is honest, however often answers were revised,
\* judged, parked or interrupted: what counts as passed was proven, the
\* validator takes the assessment, and a finished interview can be scored
\* (scoring.py score; toolkit.py score).
ScoreIsHonest == TypeOK /\ PassedMeansProven /\ ScoreIsValid /\ CompleteIsScorable

\* An answer the customer gave survives: it is in the file before anything
\* else is asked, and stays there (toolkit.py run_interview).
AnswersAreKept == SavedBeforeAsked /\ HeardIsKept

\* Nobody waits for ever: every interview completes and every parked answer
\* reaches its interview (toolkit.py run_interview).
NobodyWaitsForEver == InterviewCompletes /\ ParkedIsTaken

=============================================================================
