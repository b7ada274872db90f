------------------------- MODULE ConsoleTurnsProofs -------------------------
(***************************************************************************)
(* Proofs about ConsoleTurns, for any number of turns, conversations,      *)
(* agents and messages: a turn stays with its conversation, a conversation *)
(* goes on where it stopped and with whom, and an answer is whole.         *)
(*                                                                         *)
(* The invariant has three parts.  Shape: what a turn, the queue of spoken *)
(* turns and the turn that waits for its conversation are.  Alone: why two *)
(* turns do not run beside each other: a typed turn is in `runs`, and in   *)
(* what the view has seen of it unless the commit is still to come, in     *)
(* which case no key press can be next.  Agents: why the agent stays: what *)
(* a conversation is bound to, what it continues and who answers in it     *)
(* agree as long as it has answered one turn at a time.                    *)
(*                                                                         *)
(* A second one is about what each turn has been told, in Replies: what    *)
(* was sent of it spells what came of it, piece by piece.                  *)
(***************************************************************************)
EXTENDS ConsoleTurns, SequenceTheorems, FiniteSetTheorems, WellFoundedInduction, TLAPS

Text == Seq(Nat \X Nat)

Reply ==
  [prev : Responses \union {None}, frames : Seq([item : Nat, text : Text]), open : BOOLEAN,
   item : Nat, text : Text, completed : BOOLEAN, output : Text,
   end : {"open", "finished", "error"}]

Turn ==
  [state : States, typed : BOOLEAN, meant : Nat, profile : Profiles \union {NoAgent},
   at : Nat, by : Profiles \union {NoAgent}, live : BOOLEAN, reply : Reply]

Conversation ==
  [prev : Responses \union {None}, bound : Profiles \union {NoAgent}, wanted : Profiles]

History == [last : Responses \union {None}, agents : SUBSET Profiles, unsigned : BOOLEAN]

UIState ==
  [seen : SUBSET Sessions, dirty : BOOLEAN, due : BOOLEAN, urgent : {"no", "flush", "commit"}]

(* Turns are taken in order: the unused ones are the last ones.            *)
InOrder == \E n \in 0..MaxTurns : \A t \in Turns : turns[t].state # "unused" <=> t <= n

InQueue(t) == \E k \in 1..Len(queue) : queue[k] = t

(* What a turn says of itself in each state.                               *)
TurnOK(t) ==
  LET x == turns[t]
  IN /\ x.at \in 0..created /\ x.meant \in 0..created
     /\ x.state = "running" => x.at = x.meant /\ x.at # 0
     /\ x.state \in {"recorded", "queued", "pending"} => ~x.typed /\ x.meant # 0
     /\ x.state \in {"recorded", "queued"} => x.profile = NoAgent
     /\ x.state = "pending" <=> t = pending
     /\ x.state = "queued" <=> InQueue(t)
     /\ Running(t) => x.at \in sessions /\ x.by \in Profiles
     /\ Running(t) => x.reply.frames = <<>> \/ x.reply.prev = <<t, x.by>>

Types ==
  /\ scope \in Scopes
  /\ created \in Sessions /\ sessions \subseteq 1..created /\ active \in sessions
  /\ identity \in BOOLEAN /\ dropped \in BOOLEAN
  /\ runs \subseteq 1..created /\ overlapped \subseteq Sessions
  /\ turns \in [Turns -> Turn]
  /\ conv \in [Sessions -> Conversation] /\ answers \in [Sessions -> History]
  /\ queue \in Seq(Turns) /\ pending \in {0} \union Turns
  /\ ui \in UIState

Shape ==
  /\ InOrder
  /\ \A t \in Turns : TurnOK(t)
  /\ \A i, j \in 1..Len(queue) : queue[i] = queue[j] => i = j
  /\ \A s \in Sessions : s > created => conv[s] = NewConversation /\ answers[s] = Unanswered

(* The turn addressed to another agent waits for the commit of its new     *)
(* conversation, which is untouched until then.                            *)
Waiting ==
  pending # 0 =>
    /\ ui.urgent \in {"flush", "commit"}
    /\ turns[pending].meant = created
    /\ conv[created].prev = None /\ conv[created].bound = NoAgent
    /\ \A t \in Turns : t # pending => turns[t].meant # created

(* Two turns of one conversation are counted as overlapping.               *)
OneLive ==
  \A t, u \in Turns :
    t # u /\ turns[t].state = "running" /\ turns[u].state = "running"
    /\ turns[t].at = turns[u].at /\ turns[t].at \in sessions
      => turns[t].at \in overlapped

TypedSeen ==
  \A t \in Turns :
    turns[t].state = "running" /\ turns[t].typed /\ turns[t].at \in sessions \ overlapped =>
      /\ turns[t].at \in runs
      /\ ui.urgent # "flush" => turns[t].at \in ui.seen

Alone == OneLive /\ TypedSeen

(* A conversation that has answered one turn at a time, and said by whom.  *)
Plain(s) == s \in sessions /\ s \notin overlapped /\ ~answers[s].unsigned

BoundTo(s) ==
  /\ conv[s].prev = answers[s].last
  /\ Plain(s) =>
       /\ answers[s].agents = IF conv[s].bound = NoAgent THEN {} ELSE {conv[s].bound}
       /\ conv[s].prev # None => conv[s].bound = conv[s].prev[2]

AskedOf(t) ==
  Running(t) /\ Plain(turns[t].at) =>
    /\ turns[t].profile \in {NoAgent, turns[t].by}
    /\ conv[turns[t].at].bound \in {NoAgent, turns[t].by}
    /\ turns[t].reply.completed => conv[turns[t].at].bound = turns[t].by

Agents == (\A s \in Sessions : BoundTo(s)) /\ \A t \in Turns : AskedOf(t)

Inv == Types /\ Shape /\ Waiting /\ Alone /\ Agents

-----------------------------------------------------------------------------
(* Replies                                                                 *)

(* Adding text to a reply changes its text and its frames only.            *)
LEMMA EmitTextFields ==
  ASSUME NEW r \in Reply, NEW delta \in Text, NEW item \in Nat
  PROVE  LET e == EmitText(r, delta, item) IN
         /\ e \in Reply /\ e.prev = r.prev /\ e.end = r.end
         /\ e.completed = r.completed /\ e.output = r.output
<1> DEFINE Frame == [item : Nat, text : Text]
           o == IF NewFrame(r, item) THEN OpenFrame(r, item) ELSE r
           n == Len(o.frames)
           frame == [o.frames[n] EXCEPT !.text = o.frames[n].text \o delta]
           frames == [o.frames EXCEPT ![n] = frame]
           e == [o EXCEPT !.text = o.text \o delta, !.frames = frames]
<1>1. /\ o \in Reply /\ o.prev = r.prev /\ o.end = r.end
      /\ o.completed = r.completed /\ o.output = r.output
  <2>1. CASE NewFrame(r, item)
    <3> DEFINE text == IF r.open THEN Append(r.text, Separator) ELSE r.text
               more == Append(r.frames, [item |-> item, text |-> <<>>])
    <3>1. o = [r EXCEPT !.text = text, !.open = TRUE, !.item = item, !.frames = more]
      BY <2>1 DEF OpenFrame
    <3>2. text \in Text
      <4>1. r.text \in Seq(Nat \X Nat) /\ Separator \in Nat \X Nat
        BY DEF Reply, Text, Separator
      <4> HIDE DEF text
      <4>2. Append(r.text, Separator) \in Seq(Nat \X Nat)
        BY <4>1
      <4>3. text = r.text \/ text = Append(r.text, Separator)
        BY DEF text
      <4> QED
        BY <4>1, <4>2, <4>3 DEF Text
    <3>3. more \in Seq(Frame)
      <4>1. r.frames \in Seq(Frame) /\ [item |-> item, text |-> <<>>] \in Frame
        BY DEF Reply, Text
      <4> QED
        BY <4>1
    <3> HIDE DEF text, more
    <3> QED
      BY <3>1, <3>2, <3>3 DEF Reply
  <2>2. CASE ~NewFrame(r, item)
    BY <2>2
  <2> QED
    BY <2>1, <2>2
<1> HIDE DEF o
<1>2. frames \in Seq(Frame)
  <2>1. o.frames \in Seq(Frame)
    BY <1>1 DEF Reply
  <2> DEFINE old == o.frames
  <2>2. CASE Len(old) = 0
    <3> HIDE DEF old, frame
    <3>1. frames = old
      BY <2>1, <2>2 DEF old
    <3> QED
      BY <2>1, <3>1 DEF old
  <2>3. CASE Len(old) # 0
    <3>1. Len(old) \in 1..Len(old) /\ old[Len(old)] \in Frame
      <4> HIDE DEF old, Frame
      <4> QED
        BY <2>1, <2>3 DEF old
    <3>2. old[Len(old)].text \o delta \in Text
      <4>1. old[Len(old)].text \in Text
        BY <3>1
      <4> HIDE DEF old
      <4> QED
        BY <4>1 DEF Text
    <3>3. frame \in Frame
      BY <3>1, <3>2
    <3> HIDE DEF frame, Frame, old
    <3>4. [old EXCEPT ![Len(old)] = frame] \in Seq(Frame)
      BY <2>1, <3>1, <3>3 DEF old
    <3> QED
      BY <3>4 DEF old
  <2> QED
    BY <2>2, <2>3
<1>3. o.text \o delta \in Text
  BY <1>1 DEF Reply, Text
<1>4. delta # <<>> => EmitText(r, delta, item) = e
  BY DEF EmitText, o
<1> HIDE DEF frames, frame, n
<1>5. e \in Reply /\ e.prev = o.prev /\ e.end = o.end /\ e.completed = o.completed /\ e.output = o.output
  BY <1>1, <1>2, <1>3 DEF Reply
<1>6. delta = <<>> => EmitText(r, delta, item) = r
  BY DEF EmitText
<1> QED
  BY <1>1, <1>4, <1>5, <1>6

(* The rest of a completed text is text.                                   *)
LEMMA TextDeltaType ==
  ASSUME NEW streamed \in Text, NEW completed \in Text
  PROVE  TextDelta(streamed, completed) \in Text
<1>1. SubSeq(completed, Len(streamed) + 1, Len(completed)) \in Text
  <2>1. Len(streamed) \in Nat /\ Len(completed) \in Nat
    BY DEF Text
  <2>2. \A i \in (Len(streamed) + 1)..Len(completed) : completed[i] \in Nat \X Nat
    BY <2>1 DEF Text
  <2> QED
    BY <2>1, <2>2, SubSeqProperties DEF Text
<1> QED
  BY <1>1 DEF TextDelta, Text

(* What each event leaves of a reply.                                      *)
LEMMA CreatedFields ==
  ASSUME NEW r \in Reply, NEW id \in Responses
  PROVE  LET c == Created(r, id) IN
         /\ c \in Reply /\ c.prev = id /\ c.end = r.end /\ c.completed = r.completed
         /\ c.frames = r.frames
BY DEF Reply, Created

LEMMA CompletedFields ==
  ASSUME NEW r \in Reply, NEW id \in Responses, NEW output \in Text
  PROVE  LET c == Completed(r, id, output) IN
         c \in Reply /\ c.prev = id /\ c.end = r.end /\ c.completed = TRUE
<1> DEFINE q == [r EXCEPT !.prev = id, !.completed = TRUE, !.output = output]
           delta == TextDelta(r.text, output)
<1>1. q \in Reply /\ q.prev = id /\ q.end = r.end /\ q.completed = TRUE
  BY DEF Reply
<1>2. delta \in Text /\ r.item \in Nat
  BY TextDeltaType DEF Reply
<1>3. Completed(r, id, output) = EmitText(q, delta, r.item)
  BY DEF Completed
<1> HIDE DEF q, delta
<1> QED
  BY <1>1, <1>2, <1>3, EmitTextFields

LEMMA EndFields ==
  ASSUME NEW r \in Reply
  PROVE  LET e == StreamEnds(r) IN
         /\ e.prev = r.prev /\ e.completed = r.completed
         /\ e.end = IF r.frames = <<>> THEN "error" ELSE "finished"
         /\ StreamFails(r).end = "error"
BY DEF Reply, StreamEnds, StreamFails
-----------------------------------------------------------------------------
(* Turns                                                                   *)

(* Setting one turn leaves the others.                                     *)
LEMMA SetTurn ==
  ASSUME Types, NEW t \in Turns, NEW x \in Turn, turns' = [turns EXCEPT ![t] = x]
  PROVE  /\ turns' \in [Turns -> Turn] /\ turns'[t] = x
         /\ \A u \in Turns : u # t => turns'[u] = turns[u]
BY DEF Types

(* The tuples that stand for no response and for one are told apart.       *)
LEMMA NoneIsNoResponse ==
  /\ None \notin Responses /\ None[1] = 0 /\ None[2] = NoAgent
  /\ \A t \in Turns, p \in Profiles : <<t, p>> \in Responses /\ <<t, p>>[2] = p
  /\ \A id \in Responses : id[2] \in Profiles /\ id # None
  /\ NoAgent \notin Profiles
BY ConsoleAssumption DEF None, Responses, Turns

(* A new reply has said nothing.                                           *)
LEMMA NewReplyFields ==
  ASSUME NEW prev \in Responses \union {None}
  PROVE  LET r == NewReply(prev) IN
         r \in Reply /\ r.prev = prev /\ r.frames = <<>> /\ r.completed = FALSE /\ r.end = "open"
BY DEF NewReply, Reply, Text

(* A turn nobody has used.                                                 *)
LEMMA NoTurnFields ==
  /\ NoTurn \in Turn
  /\ NoTurn.state = "unused" /\ NoTurn.typed = FALSE /\ NoTurn.meant = 0 /\ NoTurn.profile = NoAgent
  /\ NoTurn.at = 0 /\ NoTurn.by = NoAgent /\ NoTurn.live = FALSE /\ NoTurn.reply.end = "open"
  /\ NoTurn.reply \in Reply
<1>1. NewReply(None) \in Reply /\ NewReply(None).end = "open"
  BY NewReplyFields
<1> DEFINE r == NewReply(None)
<1>2. NoTurn = [state |-> "unused", typed |-> FALSE, meant |-> 0, profile |-> NoAgent,
                at |-> 0, by |-> NoAgent, live |-> FALSE, reply |-> r]
  BY DEF NoTurn
<1> HIDE DEF r
<1> QED
  BY <1>1, <1>2 DEF Turn, States, r

(* The turns made of it.                                                   *)
LEMMA MadeTurns ==
  /\ Gone \in Turn /\ Gone.state = "gone" /\ Gone.meant = 0 /\ Gone.at = 0 /\ Gone.typed = FALSE
  /\ \A s \in Nat :
       LET x == [NoTurn EXCEPT !.state = "recorded", !.meant = s] IN
       /\ x \in Turn /\ x.state = "recorded" /\ x.meant = s /\ x.profile = NoAgent
       /\ x.at = 0 /\ x.typed = FALSE
<1> DEFINE n == NoTurn
<1>1. n \in Turn /\ n.typed = FALSE /\ n.meant = 0 /\ n.profile = NoAgent /\ n.at = 0 /\ n.live = FALSE
  BY NoTurnFields
<1> HIDE DEF n
<1>2. LET x == [n EXCEPT !.state = "gone"] IN
      x \in Turn /\ x.state = "gone" /\ x.meant = 0 /\ x.at = 0 /\ x.typed = FALSE
  BY <1>1 DEF Turn, States
<1>3. \A s \in Nat :
        LET x == [n EXCEPT !.state = "recorded", !.meant = s] IN
        /\ x \in Turn /\ x.state = "recorded" /\ x.meant = s /\ x.profile = NoAgent
        /\ x.at = 0 /\ x.typed = FALSE
  BY <1>1 DEF Turn, States
<1> QED
  BY <1>2, <1>3 DEF Gone, n

(* A turn that waits for its conversation.                                 *)
Addressed(s, p) == [NoTurn EXCEPT !.state = "pending", !.meant = s, !.profile = p]

LEMMA AddressedFields ==
  ASSUME NEW s \in Nat, NEW p \in Profiles
  PROVE  LET x == Addressed(s, p) IN
         /\ x \in Turn /\ x.state = "pending" /\ x.meant = s /\ x.profile = p
         /\ x.at = 0 /\ x.typed = FALSE
<1> DEFINE n == NoTurn
<1>1. n \in Turn /\ n.typed = FALSE /\ n.at = 0
  BY NoTurnFields
<1> HIDE DEF n
<1>2. LET x == [n EXCEPT !.state = "pending", !.meant = s, !.profile = p] IN
      /\ x \in Turn /\ x.state = "pending" /\ x.meant = s /\ x.profile = p
      /\ x.at = 0 /\ x.typed = FALSE
  BY <1>1 DEF Turn, States
<1> QED
  BY <1>2 DEF Addressed, n

(* A turn that has been let go.                                            *)
Silenced(s, m) == [NoTurn EXCEPT !.state = "running", !.at = s, !.meant = m]

LEMMA SilencedFields ==
  ASSUME NEW s \in Nat, NEW m \in Nat
  PROVE  LET x == Silenced(s, m) IN
         /\ x \in Turn /\ x.state = "running" /\ x.meant = m /\ x.at = s
         /\ x.typed = FALSE /\ x.live = FALSE
<1> DEFINE n == NoTurn
<1>1. n \in Turn /\ n.typed = FALSE /\ n.live = FALSE
  BY NoTurnFields
<1> HIDE DEF n
<1>2. LET x == [n EXCEPT !.state = "running", !.at = s, !.meant = m] IN
      /\ x \in Turn /\ x.state = "running" /\ x.meant = m /\ x.at = s
      /\ x.typed = FALSE /\ x.live = FALSE
  BY <1>1 DEF Turn, States
<1> QED
  BY <1>2 DEF Silenced, n

(* A typed turn.                                                           *)
LEMMA TypedFields ==
  ASSUME active \in Nat, NEW p \in Profiles \union {NoAgent}
  PROVE  LET x == Typed(p) IN
         x \in Turn /\ x.typed = TRUE /\ x.meant = active /\ x.profile = p
<1> DEFINE n == NoTurn
<1>1. n \in Turn
  BY NoTurnFields
<1> HIDE DEF n
<1>2. LET x == [n EXCEPT !.typed = TRUE, !.meant = active, !.profile = p] IN
      x \in Turn /\ x.typed = TRUE /\ x.meant = active /\ x.profile = p
  BY <1>1 DEF Turn
<1> QED
  BY <1>2 DEF Typed, n

(* What is left of a turn whose answer has ended.                          *)
LEMMA EndedFields ==
  ASSUME Types, NEW t \in Turns, NEW end \in {"error", "finished"}
  PROVE  LET x == Ended(t, end) IN
         /\ x \in Turn /\ x.state = "running" /\ x.typed = turns[t].typed
         /\ x.meant = turns[t].meant /\ x.at = turns[t].at /\ x.reply.end = end
<1> DEFINE n == NoTurn
           r == [n.reply EXCEPT !.end = end]
           x == [n EXCEPT !.state = "running", !.live = TRUE, !.typed = turns[t].typed,
                          !.meant = turns[t].meant, !.at = turns[t].at, !.reply = r]
<1>1. n \in Turn /\ n.reply \in Reply
  BY NoTurnFields
<1>2. Ended(t, end) = x
  BY DEF Ended
<1> HIDE DEF n
<1>3. r \in Reply /\ r.end = end
  BY <1>1 DEF Reply
<1> HIDE DEF r
<1>4. turns[t].typed \in BOOLEAN /\ turns[t].meant \in Nat /\ turns[t].at \in Nat
  BY DEF Types, Turn
<1>5. /\ x \in Turn /\ x.state = "running" /\ x.typed = turns[t].typed
      /\ x.meant = turns[t].meant /\ x.at = turns[t].at /\ x.reply = r
  BY <1>1, <1>3, <1>4 DEF Turn, States
<1> QED
  BY <1>2, <1>3, <1>5

(* The first unused turn.                                                  *)
LEMMA FreshFields ==
  ASSUME scope \in Scopes, InOrder, Cardinality(Used) < scope.turns
  PROVE  /\ Fresh \in Turns /\ turns[Fresh].state = "unused"
         /\ \A t \in Turns : turns[t].state # "unused" <=> t < Fresh
<1>1. PICK n \in 0..MaxTurns : \A t \in Turns : turns[t].state # "unused" <=> t <= n
  BY DEF InOrder
<1>2. n \in Nat /\ MaxTurns \in Nat /\ scope.turns \in 1..MaxTurns
  BY ConsoleAssumption
<1>3. Used = 1..n
  BY <1>1, <1>2 DEF Used, Turns
<1>4. Cardinality(1..n) = n
  BY <1>2, FS_Interval
<1>5. Fresh = n + 1 /\ n < MaxTurns
  BY <1>2, <1>3, <1>4 DEF Fresh
<1> QED
  BY <1>1, <1>2, <1>5 DEF Turns

(* Using the first unused turn, or one in use, keeps the order.            *)
LEMMA InOrderKept ==
  ASSUME scope \in Scopes, InOrder, NEW t \in Turns, turns'[t].state # "unused",
         \A u \in Turns : u # t => (turns'[u].state # "unused" <=> turns[u].state # "unused"),
         \/ turns[t].state # "unused"
         \/ \A u \in Turns : turns[u].state # "unused" <=> u < t
  PROVE  InOrder'
<1>1. CASE turns[t].state # "unused"
  BY <1>1 DEF InOrder
<1>2. CASE \A u \in Turns : turns[u].state # "unused" <=> u < t
  <2>1. t \in 0..MaxTurns /\ \A u \in Turns : u \in Nat
    BY ConsoleAssumption DEF Turns
  <2>2. \A u \in Turns : turns'[u].state # "unused" <=> u <= t
    BY <1>2, <2>1
  <2> QED
    BY <2>1, <2>2 DEF InOrder
<1> QED
  BY <1>1, <1>2

-----------------------------------------------------------------------------
(* Sending                                                                 *)

(* A turn that is asked continues the conversation's response.             *)
LEMMA AskFields ==
  ASSUME Types, NEW turn \in Turn, NEW s \in Sessions
  PROVE  LET a == Ask(turn, s) IN
         /\ a \in Turn /\ a.state = "running" /\ a.at = s /\ a.live = TRUE
         /\ a.typed = turn.typed /\ a.meant = turn.meant /\ a.profile = turn.profile
         /\ a.by = AnsweredBy(conv[s].prev, Requested(turn, s)) /\ a.by \in Profiles
         /\ a.reply.end = "open" /\ a.reply.frames = <<>> /\ a.reply.completed = FALSE
<1> DEFINE prev == conv[s].prev
           by == AnsweredBy(prev, Requested(turn, s))
           r == NewReply(prev)
<1>1. conv[s] \in Conversation
  BY DEF Types
<1>2. prev \in Responses \union {None} /\ conv[s].bound \in Profiles \union {NoAgent}
      /\ conv[s].wanted \in Profiles /\ turn.profile \in Profiles \union {NoAgent}
  BY <1>1 DEF Conversation, Turn
<1>3. by \in Profiles
  BY <1>2, NoneIsNoResponse DEF AnsweredBy, Requested
<1>4. r \in Reply /\ r.end = "open" /\ r.frames = <<>> /\ r.completed = FALSE
  BY <1>2, NewReplyFields
<1>5. s \in Nat
  BY ConsoleAssumption DEF Sessions
<1>6. Ask(turn, s) = [turn EXCEPT !.state = "running", !.at = s, !.live = TRUE,
                                  !.reply = r, !.by = by]
  BY DEF Ask
<1> HIDE DEF prev, by, r
<1>7. LET a == [turn EXCEPT !.state = "running", !.at = s, !.live = TRUE,
                            !.reply = r, !.by = by] IN
      /\ a \in Turn /\ a.state = "running" /\ a.at = s /\ a.live = TRUE
      /\ a.typed = turn.typed /\ a.meant = turn.meant /\ a.profile = turn.profile
      /\ a.by = by /\ a.reply = r
  BY <1>3, <1>4, <1>5 DEF Turn, States
<1> QED
  BY <1>3, <1>4, <1>6, <1>7 DEF by, prev

(* A turn that is sent runs, or is gone.                                   *)
Started(t, turn, s) ==
  /\ Starts(s)
  /\ turns'[t] = Ask(turn, s)
  /\ runs' = runs \union {s}
  /\ overlapped' = overlapped \union
       {turns[u].at : u \in {v \in Turns : turns[v].state = "running" /\
          turns[v].at = s /\ ~(turn.typed /\ turns[v].typed)}}

Refused(t, s) ==
  ~Starts(s) /\ turns'[t] = Gone /\ runs' = runs /\ overlapped' = overlapped

(* What sending changes.                                                   *)
LEMMA SendFields ==
  ASSUME Types, NEW t \in Turns, NEW turn \in Turn, NEW s \in Sessions, NEW stored,
         Send(t, turn, s, stored)
  PROVE  /\ conv' = stored /\ answers' = answers
         /\ turns' \in [Turns -> Turn] /\ \A u \in Turns : u # t => turns'[u] = turns[u]
         /\ Started(t, turn, s) \/ Refused(t, s)
<1>1. CASE /\ Starts(s)
           /\ runs' = runs \union {s}
           /\ turns' = [turns EXCEPT ![t] = Ask(turn, s)]
           /\ overlapped' = overlapped \union
                {turns[u].at : u \in {v \in Turns : turns[v].state = "running" /\
                   turns[v].at = s /\ ~(turn.typed /\ turns[v].typed)}}
  <2>1. Ask(turn, s) \in Turn
    BY AskFields
  <2>2. /\ turns' \in [Turns -> Turn] /\ turns'[t] = Ask(turn, s)
        /\ \A u \in Turns : u # t => turns'[u] = turns[u]
    BY <1>1, <2>1, SetTurn
  <2> QED
    BY <1>1, <2>2 DEF Send, Started
<1>2. CASE ~Starts(s) /\ turns' = [turns EXCEPT ![t] = Gone] /\ UNCHANGED <<runs, overlapped>>
  <2>1. /\ turns' \in [Turns -> Turn] /\ turns'[t] = Gone
        /\ \A u \in Turns : u # t => turns'[u] = turns[u]
    BY <1>2, MadeTurns, SetTurn
  <2> QED
    BY <1>2, <2>1 DEF Send, Refused
<1> QED
  BY <1>1, <1>2 DEF Send

-----------------------------------------------------------------------------
(* Steps                                                                   *)

(* Bounds are numbers.                                                     *)
LEMMA Numbers ==
  ASSUME Types
  PROVE  /\ created \in Nat /\ created # 0 /\ active \in Nat /\ active \in 1..created
         /\ \A s \in Sessions : s \in Nat
         /\ \A s \in 1..created : s \in Sessions /\ s # 0
         /\ \A t \in Turns : t \in Nat /\ t # 0 /\ turns[t] \in Turn
BY ConsoleAssumption DEF Types, Sessions, Turns

(* A turn that a step leaves alone.                                        *)
LEMMA TurnKept ==
  ASSUME Types, created' \in Nat, created <= created',
         NEW t \in Turns, TurnOK(t), turns'[t] = turns[t],
         pending' = t <=> pending = t, InQueue(t)' <=> InQueue(t),
         Running(t) => turns[t].at \in sessions'
  PROVE  TurnOK(t)'
<1>1. created \in Nat /\ turns[t].at \in Nat /\ turns[t].meant \in Nat
  BY Numbers DEF Turn
<1> QED
  BY <1>1 DEF TurnOK, Running

(* The queue holds each turn once.                                         *)
Once == \A i, j \in 1..Len(queue) : queue[i] = queue[j] => i = j

(* Conversations to come.                                                  *)
Untouched ==
  \A s \in Sessions : s > created => conv[s] = NewConversation /\ answers[s] = Unanswered

(* What a step leaves alone of the other turns.                            *)
Beside(t) ==
  \A u \in Turns : u # t =>
    /\ turns'[u] = turns[u]
    /\ pending' = u <=> pending = u
    /\ InQueue(u)' <=> InQueue(u)
    /\ Running(u) => turns[u].at \in sessions'

(* A step of one turn keeps the shape of all.                              *)
LEMMA ShapeKept ==
  ASSUME Types, Shape, created' \in Nat, created <= created',
         NEW t \in Turns, Beside(t), TurnOK(t)', InOrder', Once', Untouched'
  PROVE  Shape'
<1>1. ASSUME NEW u \in Turns, u # t PROVE TurnOK(u)'
  <2>1. TurnOK(u)
    BY DEF Shape
  <2> QED
    BY <1>1, <2>1, TurnKept DEF Beside
<1> QED
  BY <1>1 DEF Shape, Once, Untouched

(* A step that moves no turn keeps the shape.                              *)
LEMMA ShapeStays ==
  ASSUME Types, Shape, created' \in Nat, created <= created', UNCHANGED <<turns, pending, queue>>,
         \A u \in Turns : Running(u) => turns[u].at \in sessions', Untouched'
  PROVE  Shape'
<1>1. ASSUME NEW u \in Turns PROVE TurnOK(u)'
  <2>1. TurnOK(u)
    BY DEF Shape
  <2>2. InQueue(u)' <=> InQueue(u)
    BY DEF InQueue
  <2> QED
    BY <2>1, <2>2, TurnKept
<1>2. InOrder' /\ Once'
  BY DEF Shape, InOrder, Once
<1> QED
  BY <1>1, <1>2 DEF Shape, Once, Untouched

(* Sending a turn keeps the shape: it runs in the conversation it was      *)
(* meant for, which exists, or it is gone.                                 *)
LEMMA SendShape ==
  ASSUME Types, Shape, created' = created, sessions' = sessions,
         NEW t \in Turns, NEW turn \in Turn, NEW s \in 1..created,
         turn.meant = s, Started(t, turn, s) \/ Refused(t, s),
         Beside(t), pending' # t, ~InQueue(t)', Once', Untouched',
         \/ turns[t].state # "unused"
         \/ \A u \in Turns : turns[u].state # "unused" <=> u < t
  PROVE  Shape'
<1>1. created \in Nat /\ s \in Sessions /\ s \in Nat /\ s # 0
  BY Numbers
<1>2. CASE Started(t, turn, s)
  <2>1. /\ turns'[t].state = "running" /\ turns'[t].at = s /\ turns'[t].meant = s
        /\ turns'[t].by \in Profiles /\ turns'[t].reply.frames = <<>>
    <3> DEFINE a == Ask(turn, s)
    <3>1. /\ a.state = "running" /\ a.at = s /\ a.meant = turn.meant
          /\ a.by \in Profiles /\ a.reply.frames = <<>>
      BY <1>1, AskFields
    <3>2. turns'[t] = a
      BY <1>2 DEF Started
    <3> HIDE DEF a
    <3> QED
      BY <3>1, <3>2
  <2>2. s \in sessions'
    BY <1>2 DEF Started, Starts
  <2>3. TurnOK(t)'
    BY <1>1, <2>1, <2>2 DEF TurnOK, Running
  <2>4. InOrder'
    BY <2>1, InOrderKept DEF Beside, Types, Shape
  <2> QED
    BY <1>1, <2>3, <2>4, ShapeKept
<1>3. CASE Refused(t, s)
  <2>1. turns'[t].state = "gone" /\ turns'[t].at = 0 /\ turns'[t].meant = 0
    BY <1>3, MadeTurns DEF Refused
  <2>2. TurnOK(t)'
    BY <1>1, <2>1 DEF TurnOK, Running
  <2>3. InOrder'
    BY <2>1, InOrderKept DEF Beside, Types, Shape
  <2> QED
    BY <1>1, <2>2, <2>3, ShapeKept
<1> QED
  BY <1>2, <1>3

(* Sending a turn keeps typed turns seen and counts the others.            *)
LEMMA SendAlone ==
  ASSUME Types, Alone, sessions' = sessions,
         NEW t \in Turns, NEW turn \in Turn, NEW s \in 1..created,
         turns[t].state # "running",
         \A u \in Turns : u # t => turns'[u] = turns[u],
         Started(t, turn, s) \/ Refused(t, s),
         ui'.seen = ui.seen, ui'.urgent # "flush" => ui.urgent # "flush",
         turn.typed => Calm /\ (Starts(s) => ui'.urgent = "flush")
  PROVE  Alone'
<1>1. s \in Sessions
  BY Numbers
<1>2. CASE Started(t, turn, s)
  <2>1. turns'[t].state = "running" /\ turns'[t].at = s /\ turns'[t].typed = turn.typed
    <3> DEFINE a == Ask(turn, s)
    <3>1. a.state = "running" /\ a.at = s /\ a.typed = turn.typed
      BY <1>1, AskFields
    <3>2. turns'[t] = a
      BY <1>2 DEF Started
    <3> HIDE DEF a
    <3> QED
      BY <3>1, <3>2
  <2>2. /\ s \in runs' /\ runs \subseteq runs' /\ overlapped \subseteq overlapped'
        /\ s \in sessions /\ s \notin ui.seen
        /\ \A v \in Turns : turns[v].state = "running" /\ turns[v].at = s
             /\ ~(turn.typed /\ turns[v].typed) => s \in overlapped'
    BY <1>2 DEF Started, Starts
  <2>3. ASSUME NEW u \in Turns, u # t, turns[u].state = "running", turns[u].at = s
        PROVE  s \in overlapped'
    <3>1. CASE turn.typed /\ turns[u].typed
      BY <2>2, <2>3, <3>1 DEF Alone, TypedSeen, Calm
    <3>2. CASE ~(turn.typed /\ turns[u].typed)
      BY <2>2, <2>3, <3>2
    <3> QED
      BY <3>1, <3>2
  <2>4. OneLive'
    BY <2>1, <2>2, <2>3 DEF Alone, OneLive
  <2>5. TypedSeen'
    <3> SUFFICES ASSUME NEW u \in Turns, turns'[u].state = "running", turns'[u].typed,
                        turns'[u].at \in sessions' \ overlapped'
                 PROVE  /\ turns'[u].at \in runs'
                        /\ ui'.urgent # "flush" => turns'[u].at \in ui'.seen
      BY DEF TypedSeen
    <3>1. CASE u = t
      BY <1>2, <2>1, <2>2, <3>1 DEF Started
    <3>2. CASE u # t
      BY <2>2, <3>2 DEF Alone, TypedSeen
    <3> QED
      BY <3>1, <3>2
  <2> QED
    BY <2>4, <2>5 DEF Alone
<1>3. CASE Refused(t, s)
  <2>1. turns'[t].state = "gone" /\ runs' = runs /\ overlapped' = overlapped
    BY <1>3, MadeTurns DEF Refused
  <2> QED
    BY <2>1 DEF Alone, OneLive, TypedSeen
<1> QED
  BY <1>2, <1>3

(* A step that lets no turn run keeps Alone.                               *)
StillRuns(t) ==
  turns'[t].state = "running" =>
    /\ turns[t].state = "running" /\ turns'[t].at = turns[t].at
    /\ turns'[t].typed => turns[t].typed
    /\ turns[t].at \in sessions' \ overlapped' =>
         /\ turns[t].at \in sessions \ overlapped
         /\ turns'[t].typed => (turns[t].at \in runs => turns[t].at \in runs')

LEMMA AloneKept ==
  ASSUME Alone, \A t \in Turns : StillRuns(t),
         \/ ui'.seen = ui.seen /\ (ui'.urgent # "flush" => ui.urgent # "flush")
         \/ ui'.seen = runs
  PROVE  Alone'
<1>1. OneLive'
  <2> SUFFICES ASSUME NEW t \in Turns, NEW u \in Turns, t # u, turns'[t].state = "running",
                      turns'[u].state = "running", turns'[t].at = turns'[u].at,
                      turns'[t].at \in sessions', turns'[t].at \notin overlapped'
               PROVE  FALSE
    BY DEF OneLive
  <2>1. StillRuns(t) /\ StillRuns(u)
    OBVIOUS
  <2> QED
    BY <2>1 DEF StillRuns, Alone, OneLive
<1>2. TypedSeen'
  <2> SUFFICES ASSUME NEW t \in Turns, turns'[t].state = "running", turns'[t].typed,
                      turns'[t].at \in sessions' \ overlapped'
               PROVE  /\ turns'[t].at \in runs'
                      /\ ui'.urgent # "flush" => turns'[t].at \in ui'.seen
    BY DEF TypedSeen
  <2>1. StillRuns(t)
    OBVIOUS
  <2> QED
    BY <2>1 DEF StillRuns, Alone, TypedSeen
<1> QED
  BY <1>1, <1>2 DEF Alone

(* What a step may do to the story of a conversation without changing it.  *)
SameStory(s) ==
  /\ conv'[s].prev = conv[s].prev /\ conv'[s].bound = conv[s].bound
  /\ answers'[s] = answers[s]
  /\ Plain(s)' => Plain(s)

(* A conversation in which nothing happened.                               *)
Blank(s) == conv[s].prev = None /\ conv[s].bound = NoAgent /\ answers[s] = Unanswered

SameAsked(t) ==
  Running(t)' =>
    /\ Running(t) /\ SameStory(turns[t].at)
    /\ turns'[t].at = turns[t].at /\ turns'[t].by = turns[t].by
    /\ turns'[t].profile = turns[t].profile
    /\ turns'[t].reply.completed = turns[t].reply.completed

(* The conversation of a turn is plain.                                    *)
OnPlain(t) == Plain(turns[t].at)

LEMMA BoundKept ==
  ASSUME NEW s \in Sessions, BoundTo(s), SameStory(s) \/ Blank(s)'
  PROVE  BoundTo(s)'
<1>1. CASE SameStory(s)
  BY <1>1 DEF SameStory, BoundTo
<1>2. CASE Blank(s)'
  BY <1>2 DEF Blank, BoundTo, Unanswered
<1> QED
  BY <1>1, <1>2

LEMMA AskedKept ==
  ASSUME NEW t \in Turns, AskedOf(t), SameAsked(t)
  PROVE  AskedOf(t)'
<1>1. SUFFICES ASSUME Running(t)', OnPlain(t)'
               PROVE  /\ turns'[t].profile \in {NoAgent, turns'[t].by}
                      /\ conv'[turns'[t].at].bound \in {NoAgent, turns'[t].by}
                      /\ turns'[t].reply.completed => conv'[turns'[t].at].bound = turns'[t].by
  BY DEF AskedOf, OnPlain
<1> DEFINE s == turns[t].at
<1>2. /\ Running(t) /\ SameStory(s) /\ turns'[t].at = s
      /\ turns'[t].by = turns[t].by /\ turns'[t].profile = turns[t].profile
      /\ turns'[t].reply.completed = turns[t].reply.completed
  BY <1>1 DEF SameAsked
<1>3. Plain(s)' => Plain(s)
  BY <1>2 DEF SameStory
<1>4. OnPlain(t)' => Plain(s)
  BY <1>2, <1>3 DEF Plain, OnPlain
<1>5. conv'[s].bound = conv[s].bound
  BY <1>2 DEF SameStory
<1> QED
  BY <1>1, <1>2, <1>4, <1>5 DEF AskedOf

LEMMA AgentsKept ==
  ASSUME Agents, \A s \in Sessions : SameStory(s) \/ Blank(s)', \A t \in Turns : SameAsked(t)
  PROVE  Agents'
BY BoundKept, AskedKept DEF Agents

(* Sending a turn that is addressed to no other agent than the one its     *)
(* conversation is bound to: this agent answers.                           *)
LEMMA SendAgents ==
  ASSUME Types, Agents, sessions' = sessions,
         NEW t \in Turns, NEW turn \in Turn, NEW s \in 1..created,
         \A u \in Turns : u # t => turns'[u] = turns[u],
         Started(t, turn, s) \/ Refused(t, s),
         \A v \in Sessions : conv'[v].prev = conv[v].prev /\ conv'[v].bound = conv[v].bound,
         answers' = answers,
         turn.profile = NoAgent \/ conv[s].bound \in {NoAgent, turn.profile}
  PROVE  Agents'
<1>1. s \in Sessions /\ \A u \in Turns : turns[u] \in Turn
  BY Numbers
<1>2. overlapped \subseteq overlapped'
  BY DEF Started, Refused
<1>3. \A v : Plain(v)' => Plain(v)
  BY <1>2 DEF Plain
<1>4. \A v \in Sessions : SameStory(v)
  BY <1>3 DEF SameStory
<1>5. \A v \in Sessions : BoundTo(v)'
  BY <1>4, BoundKept DEF Agents
<1>6. ASSUME NEW u \in Turns, u # t PROVE AskedOf(u)'
  <2>1. CASE Running(u)'
    <3>1. Running(u) /\ turns'[u] = turns[u]
      BY <1>6, <2>1 DEF Running
    <3>2. CASE turns[u].at \in Sessions
      <4>1. SameAsked(u)
        BY <1>4, <3>1, <3>2 DEF SameAsked
      <4> QED
        BY <4>1, AskedKept DEF Agents
    <3>3. CASE turns[u].at \notin Sessions
      <4>1. sessions \subseteq Sessions
        BY Numbers DEF Types
      <4> QED
        BY <3>1, <3>3, <4>1 DEF AskedOf, Plain
    <3> QED
      BY <3>2, <3>3
  <2>2. CASE ~Running(u)'
    BY <2>2 DEF AskedOf
  <2> QED
    BY <2>1, <2>2
<1>7. AskedOf(t)'
  <2>1. CASE Started(t, turn, s)
    <3> DEFINE a == Ask(turn, s)
    <3>1. /\ a.at = s /\ a.profile = turn.profile
          /\ a.by = AnsweredBy(conv[s].prev, Requested(turn, s))
          /\ a.reply.completed = FALSE
      BY <1>1, AskFields
    <3>2. turns'[t] = a
      BY <2>1 DEF Started
    <3> HIDE DEF a
    <3>3. conv[s].prev \in Responses \union {None} /\ conv[s].bound \in Profiles \union {NoAgent}
      BY <1>1 DEF Types, Conversation
    <3>4. BoundTo(s)
      BY <1>1 DEF Agents
    <3>5. ASSUME Plain(s)
          PROVE  turn.profile \in {NoAgent, a.by} /\ conv[s].bound \in {NoAgent, a.by}
      <4>1. CASE conv[s].prev = None
        <5>1. a.by = Requested(turn, s)
          BY <3>1, <4>1 DEF AnsweredBy
        <5> QED
          BY <5>1 DEF Requested
      <4>2. CASE conv[s].prev # None
        <5>1. a.by = conv[s].prev[2] /\ conv[s].bound = conv[s].prev[2]
          BY <3>1, <3>4, <3>5, <4>2 DEF AnsweredBy, BoundTo
        <5>2. conv[s].prev[2] \in Profiles /\ NoAgent \notin Profiles
          BY <3>3, <4>2, NoneIsNoResponse
        <5> QED
          BY <5>1, <5>2
      <4> QED
        BY <4>1, <4>2
    <3>6. OnPlain(t)' => Plain(s)
      BY <1>3, <3>1, <3>2 DEF Plain, OnPlain
    <3>7. conv'[turns'[t].at].bound = conv[s].bound
      BY <1>1, <3>1, <3>2
    <3> QED
      BY <3>1, <3>2, <3>5, <3>6, <3>7 DEF AskedOf, OnPlain
  <2>2. CASE Refused(t, s)
    <3>1. turns'[t].state = "gone"
      BY <2>2, MadeTurns DEF Refused
    <3> QED
      BY <3>1 DEF AskedOf, Running
  <2> QED
    BY <2>1, <2>2
<1> QED
  BY <1>5, <1>6, <1>7 DEF Agents

(* A key press or a click leaves what the view has seen, and is followed   *)
(* by its commit when it started a run or a turn waits.                    *)
LEMMA DiscreteFields ==
  ASSUME Types, NEW started \in BOOLEAN, NEW waits \in BOOLEAN, Discrete(started, waits)
  PROVE  /\ ui' \in UIState /\ ui'.seen = ui.seen /\ ui'.urgent \in {"flush", "no"}
         /\ started \/ waits => ui'.urgent = "flush"
BY DEF Types, UIState, Discrete

(* No turn waits for its conversation while nothing is urgent.             *)
LEMMA CalmWaits ==
  ASSUME Waiting, Calm
  PROVE  pending = 0
BY DEF Waiting, Calm

-----------------------------------------------------------------------------
(* Steps that move no turn                                                 *)

(* Choosing an agent touches what is wanted only.                          *)
LEMMA SetWanted ==
  ASSUME Types, NEW s \in Sessions, NEW p \in Profiles
  PROVE  LET c == [conv EXCEPT ![s].wanted = p] IN
         /\ c \in [Sessions -> Conversation]
         /\ \A v \in Sessions : /\ c[v].prev = conv[v].prev /\ c[v].bound = conv[v].bound
                                /\ v # s => c[v] = conv[v]
<1> DEFINE x == [conv[s] EXCEPT !.wanted = p]
           c == [conv EXCEPT ![s] = x]
<1>1. conv \in [Sessions -> Conversation]
  BY DEF Types
<1>2. x \in Conversation /\ x.prev = conv[s].prev /\ x.bound = conv[s].bound
  BY <1>1 DEF Conversation
<1>3. [conv EXCEPT ![s].wanted = p] = c
  OBVIOUS
<1> HIDE DEF x
<1>4. /\ c \in [Sessions -> Conversation]
      /\ \A v \in Sessions : /\ c[v].prev = conv[v].prev /\ c[v].bound = conv[v].bound
                             /\ v # s => c[v] = conv[v]
  BY <1>1, <1>2
<1> HIDE DEF c
<1> QED
  BY <1>3, <1>4

(* A step that moves no turn, answers nothing and loses no conversation.   *)
Quiet ==
  /\ UNCHANGED <<turns, queue, pending, runs, history>>
  /\ created <= created' /\ sessions \subseteq sessions'
  /\ \A s \in sessions' : s \in sessions \/ s > created
  /\ \A s \in Sessions : conv'[s].prev = conv[s].prev /\ conv'[s].bound = conv[s].bound
  /\ \A s \in Sessions : s > created' => conv'[s] = conv[s]
  /\ \/ ui'.seen = ui.seen /\ (ui'.urgent # "flush" => ui.urgent # "flush")
     \/ ui'.seen = runs

LEMMA QuietKept ==
  ASSUME Inv, Types', Waiting', Quiet
  PROVE  Inv'
<1>1. created \in Nat /\ created' \in Nat /\ sessions' \subseteq Sessions
  BY ConsoleAssumption DEF Inv, Types, Sessions
<1>2. /\ turns' = turns /\ answers' = answers /\ runs' = runs /\ overlapped' = overlapped
      /\ pending' = pending /\ queue' = queue
  BY DEF Quiet, history
<1>3. Shape'
  <2>1. \A u \in Turns : Running(u) => turns[u].at \in sessions'
    BY DEF Inv, Shape, TurnOK, Quiet
  <2>2. Untouched'
    BY <1>1, <1>2 DEF Inv, Shape, Quiet, Untouched, Sessions
  <2> QED
    BY <1>1, <1>2, <2>1, <2>2, ShapeStays DEF Inv, Quiet
<1>4. ASSUME NEW s \in sessions', s \notin sessions PROVE s > created
  BY <1>4 DEF Quiet
<1>5. Alone'
  <2>1. ASSUME NEW t \in Turns PROVE StillRuns(t)
    <3>1. turns[t].at \in 0..created
      BY DEF Inv, Shape, TurnOK
    <3>2. turns[t].at \in sessions' => turns[t].at \in sessions
      BY <1>1, <1>4, <3>1
    <3> QED
      BY <1>2, <3>2 DEF StillRuns
  <2> QED
    BY <2>1, AloneKept DEF Inv, Quiet
<1>6. Agents'
  <2>1. ASSUME NEW s \in Sessions, s \in sessions' => s \in sessions
        PROVE  SameStory(s)
    BY <1>2, <2>1 DEF SameStory, Plain, Quiet
  <2>2. ASSUME NEW s \in Sessions, s > created PROVE Blank(s)'
    <3>1. conv[s] = NewConversation /\ answers[s] = Unanswered
      BY <2>2 DEF Inv, Shape
    <3> QED
      BY <1>2, <3>1 DEF Blank, Quiet, NewConversation
  <2>3. \A s \in Sessions : SameStory(s) \/ Blank(s)'
    BY <1>4, <2>1, <2>2
  <2>4. ASSUME NEW t \in Turns PROVE SameAsked(t)
    <3>1. Running(t) => turns[t].at \in sessions /\ turns[t].at \in Sessions
      BY Numbers DEF Inv, Types, Shape, TurnOK
    <3>2. Running(t)' => Running(t)
      BY <1>2 DEF Running
    <3> QED
      BY <1>2, <2>1, <3>1, <3>2 DEF SameAsked
  <2> QED
    BY <2>3, <2>4, AgentsKept DEF Inv
<1> QED
  BY <1>3, <1>5, <1>6 DEF Inv

LEMMA ChooseStep ==
  ASSUME Inv, NEW p \in Listed, Choose(p)
  PROVE  Inv'
<1>1. p \in Profiles /\ active \in Sessions
  BY Numbers, ConsoleAssumption DEF Inv
<1>2. /\ conv' \in [Sessions -> Conversation]
      /\ \A v \in Sessions : /\ conv'[v].prev = conv[v].prev /\ conv'[v].bound = conv[v].bound
                             /\ v # active => conv'[v] = conv[v]
  BY <1>1, SetWanted DEF Choose, Inv
<1>3. ui' \in UIState /\ ui'.seen = ui.seen /\ ui.urgent = "no"
  BY DiscreteFields DEF Choose, Inv, Calm
<1>4. Types'
  BY <1>2, <1>3 DEF Choose, Inv, Types, history
<1>5. Waiting'
  BY CalmWaits DEF Choose, Inv, Waiting
<1>6. \A s \in Sessions : s > created' => s # active
  BY Numbers DEF Choose, Inv
<1>7. Quiet
  BY <1>2, <1>3, <1>6, Numbers DEF Choose, Inv, Quiet, history
<1> QED
  BY <1>4, <1>5, <1>7, QuietKept

LEMMA SelectStep ==
  ASSUME Inv, NEW s \in Sessions, Select(s)
  PROVE  Inv'
<1>1. ui' \in UIState /\ ui'.seen = ui.seen /\ ui.urgent = "no"
  BY DiscreteFields DEF Select, Inv, Calm
<1>2. Types'
  BY <1>1 DEF Select, Inv, Types, history
<1>3. Waiting'
  BY CalmWaits DEF Select, Inv, Waiting
<1>4. Quiet
  BY <1>1, Numbers DEF Select, Inv, Quiet, history
<1> QED
  BY <1>2, <1>3, <1>4, QuietKept

LEMMA CreateStep ==
  ASSUME Inv, Create
  PROVE  Inv'
<1>1. ui' \in UIState /\ ui'.seen = ui.seen /\ ui.urgent = "no"
  BY DiscreteFields DEF Create, Inv, Calm
<1>2. created + 1 \in Sessions /\ created \in Nat
  BY ConsoleAssumption, Numbers DEF Create, Inv, Types, Sessions
<1>3. Types'
  BY <1>1, <1>2 DEF Create, Inv, Types, history, Sessions
<1>4. Waiting'
  BY CalmWaits DEF Create, Inv, Waiting
<1>5. Quiet
  BY <1>1, <1>2 DEF Create, Inv, Quiet, history
<1> QED
  BY <1>3, <1>4, <1>5, QuietKept

LEMMA IdentityUnknownStep ==
  ASSUME Inv, IdentityUnknown
  PROVE  Inv'
<1>1. Types'
  BY DEF IdentityUnknown, Inv, Types, history
<1>2. Waiting'
  BY CalmWaits DEF IdentityUnknown, Inv, Waiting
<1>3. Quiet
  BY Numbers DEF IdentityUnknown, Inv, Quiet, history
<1> QED
  BY <1>1, <1>2, <1>3, QuietKept

LEMMA RenderStep ==
  ASSUME Inv, Render
  PROVE  Inv'
<1>1. /\ UNCHANGED <<scope, sessions, created, conv, active, identity, runs, turns, queue,
                     pending, answers, overlapped, dropped>>
      /\ ui.urgent \in {"flush", "no"}
  BY DEF Render, storeVars, history
<1>2. /\ ui'.seen = runs /\ ui'.dirty = FALSE /\ ui'.due = ui.dirty
      /\ ui'.urgent = IF ui.urgent = "flush" /\ (ui.dirty \/ pending # 0) THEN "commit" ELSE "no"
      /\ ui' = [seen |-> ui'.seen, dirty |-> ui'.dirty, due |-> ui'.due, urgent |-> ui'.urgent]
  BY DEF Render
<1>3. runs \subseteq Sessions /\ ui.dirty \in BOOLEAN
  BY Numbers DEF Inv, Types, UIState
<1>4. ui' \in UIState
  BY <1>2, <1>3 DEF UIState
<1>5. Types'
  BY <1>1, <1>4 DEF Inv, Types
<1>6. Waiting'
  BY <1>1, <1>2 DEF Inv, Waiting
<1>7. Quiet
  BY <1>1, <1>2, Numbers DEF Inv, Quiet, history
<1> QED
  BY <1>5, <1>6, <1>7, QuietKept

-----------------------------------------------------------------------------
(* Steps of a turn that does not run                                       *)

(* A step of a turn that does not run, before or after.                    *)
Aside(t) ==
  /\ turns[t].state # "running" /\ turns'[t].state # "running"
  /\ \A u \in Turns : u # t => turns'[u] = turns[u]
  /\ UNCHANGED <<runs, answers, overlapped>>
  /\ \A s \in sessions' : s \in sessions \/ s > created
  /\ \A s \in Sessions : conv'[s].prev = conv[s].prev /\ conv'[s].bound = conv[s].bound
  /\ ui'.seen = ui.seen /\ (ui'.urgent # "flush" => ui.urgent # "flush")

LEMMA AsideKept ==
  ASSUME Inv, sessions' \subseteq Sessions, NEW t \in Turns, Aside(t)
  PROVE  Alone' /\ Agents'
<1>1. created \in Nat
  BY Numbers DEF Inv
<1>2. answers' = answers /\ runs' = runs /\ overlapped' = overlapped
  BY DEF Aside
<1>3. \A s \in sessions' : s \in sessions \/ s > created
  BY DEF Aside
<1>4. Alone'
  <2>1. ASSUME NEW u \in Turns PROVE StillRuns(u)
    <3>1. turns[u].at \in 0..created
      BY DEF Inv, Shape, TurnOK
    <3>2. turns[u].at \in sessions' => turns[u].at \in sessions
      BY <1>1, <1>3, <3>1
    <3> QED
      BY <1>2, <3>2 DEF StillRuns, Aside
  <2> QED
    BY <2>1, AloneKept DEF Inv, Aside
<1>5. Agents'
  <2>1. ASSUME NEW s \in Sessions, s \in sessions' => s \in sessions
        PROVE  SameStory(s)
    BY <1>2, <2>1 DEF SameStory, Plain, Aside
  <2>2. ASSUME NEW s \in Sessions, s > created PROVE Blank(s)'
    <3>1. conv[s] = NewConversation /\ answers[s] = Unanswered
      BY <2>2 DEF Inv, Shape
    <3> QED
      BY <1>2, <3>1 DEF Blank, Aside, NewConversation
  <2>3. \A s \in Sessions : SameStory(s) \/ Blank(s)'
    BY <1>3, <2>1, <2>2
  <2>4. ASSUME NEW u \in Turns PROVE SameAsked(u)
    <3>1. Running(u) => turns[u].at \in sessions /\ turns[u].at \in Sessions
      BY Numbers DEF Inv, Types, Shape, TurnOK
    <3>2. Running(u)' => Running(u) /\ turns'[u] = turns[u]
      BY DEF Running, Aside
    <3> QED
      BY <2>1, <3>1, <3>2 DEF SameAsked
  <2> QED
    BY <2>3, <2>4, AgentsKept DEF Inv
<1> QED
  BY <1>4, <1>5

(* Appending an element adds it once, behind the others.                   *)
LEMMA Appended ==
  ASSUME NEW S, NEW q \in Seq(S), NEW a \in S,
         \A k \in 1..Len(q) : q[k] # a,
         \A i, j \in 1..Len(q) : q[i] = q[j] => i = j
  PROVE  LET r == Append(q, a) IN
         /\ r \in Seq(S)
         /\ \A u : (\E k \in 1..Len(r) : r[k] = u) <=> u = a \/ \E k \in 1..Len(q) : q[k] = u
         /\ \A i, j \in 1..Len(r) : r[i] = r[j] => i = j
<1> DEFINE r == Append(q, a)
<1>1. /\ r \in Seq(S) /\ Len(r) = Len(q) + 1 /\ r[Len(q) + 1] = a /\ Len(q) \in Nat
      /\ \A k \in 1..Len(q) : r[k] = q[k]
  OBVIOUS
<1> HIDE DEF r
<1>2. ASSUME NEW u
      PROVE  (\E k \in 1..Len(r) : r[k] = u) <=> u = a \/ \E k \in 1..Len(q) : q[k] = u
  BY <1>1
<1>3. ASSUME NEW i \in 1..Len(r), NEW j \in 1..Len(r), r[i] = r[j] PROVE i = j
  BY <1>1, <1>3
<1> QED
  BY <1>1, <1>2, <1>3 DEF r

(* Removing a place removes what is there.                                 *)
LEMMA Removed ==
  ASSUME NEW S, NEW q \in Seq(S), NEW k \in 1..Len(q),
         \A i, j \in 1..Len(q) : q[i] = q[j] => i = j
  PROVE  LET r == RemoveAt(q, k) IN
         /\ r \in Seq(S)
         /\ \A u : (\E i \in 1..Len(r) : r[i] = u) <=> u # q[k] /\ \E i \in 1..Len(q) : q[i] = u
         /\ \A i, j \in 1..Len(r) : r[i] = r[j] => i = j
<1> DEFINE b == SubSeq(q, 1, k - 1)
           e == SubSeq(q, k + 1, Len(q))
           r == RemoveAt(q, k)
<1>1. Len(q) \in Nat /\ k \in Nat /\ k >= 1 /\ k <= Len(q)
  OBVIOUS
<1>2. b \in Seq(S) /\ Len(b) = k - 1 /\ \A i \in 1..(k - 1) : b[i] = q[i]
  BY <1>1, SubSeqProperties
<1>3. e \in Seq(S) /\ Len(e) = Len(q) - k /\ \A i \in 1..(Len(q) - k) : e[i] = q[k + i]
  BY <1>1, SubSeqProperties
<1>4. r = b \o e
  BY DEF RemoveAt
<1> HIDE DEF b, e, r
<1>5. /\ r \in Seq(S) /\ Len(r) = Len(q) - 1
      /\ \A i \in 1..(k - 1) : r[i] = q[i]
      /\ \A i \in k..(Len(q) - 1) : r[i] = q[i + 1]
  <2>1. r \in Seq(S) /\ Len(r) = Len(q) - 1
    BY <1>1, <1>2, <1>3, <1>4
  <2>2. ASSUME NEW i \in 1..(k - 1) PROVE r[i] = q[i]
    BY <1>1, <1>2, <1>3, <1>4
  <2>3. ASSUME NEW i \in k..(Len(q) - 1) PROVE r[i] = q[i + 1]
    <3>1. i - (k - 1) \in 1..(Len(q) - k) /\ i \in (Len(b) + 1)..(Len(b) + Len(e))
      BY <1>1, <1>2, <1>3
    <3>2. r[i] = e[i - (k - 1)]
      BY <1>1, <1>2, <1>3, <1>4, <3>1
    <3>3. k + (i - (k - 1)) = i + 1
      BY <1>1
    <3> QED
      BY <1>3, <3>1, <3>2, <3>3
  <2> QED
    BY <2>1, <2>2, <2>3
<1> DEFINE at(i) == IF i < k THEN i ELSE i + 1
<1>6. ASSUME NEW i \in 1..Len(r)
      PROVE  at(i) \in 1..Len(q) /\ at(i) # k /\ r[i] = q[at(i)]
  BY <1>1, <1>5
<1>7. ASSUME NEW j \in 1..Len(q), j # k
      PROVE  \E i \in 1..Len(r) : r[i] = q[j]
  <2>1. CASE j < k
    BY <1>1, <1>5, <2>1
  <2>2. CASE j > k
    <3>1. j - 1 \in k..(Len(q) - 1) /\ j - 1 \in 1..Len(r) /\ (j - 1) + 1 = j
      BY <1>1, <1>5, <2>2
    <3>2. r[j - 1] = q[j]
      BY <1>5, <3>1
    <3> QED
      BY <3>1, <3>2
  <2> QED
    BY <1>1, <1>7, <2>1, <2>2
<1>8. ASSUME NEW i \in 1..Len(r), NEW j \in 1..Len(r), r[i] = r[j] PROVE i = j
  <2>1. at(i) = at(j)
    BY <1>6, <1>8
  <2> QED
    BY <1>1, <1>5, <2>1
<1> HIDE DEF at
<1>9. ASSUME NEW u
      PROVE  (\E i \in 1..Len(r) : r[i] = u) <=> u # q[k] /\ \E i \in 1..Len(q) : q[i] = u
  <2>1. ASSUME NEW i \in 1..Len(r), r[i] = u
        PROVE  u # q[k] /\ \E j \in 1..Len(q) : q[j] = u
    BY <1>6, <2>1
  <2>2. ASSUME u # q[k], NEW j \in 1..Len(q), q[j] = u
        PROVE  \E i \in 1..Len(r) : r[i] = u
    BY <1>7, <2>2
  <2> QED
    BY <2>1, <2>2
<1> QED
  BY <1>5, <1>8, <1>9 DEF r

(* The first unused turn is in no queue and waits for nothing.             *)
LEMMA FreshAside ==
  ASSUME Inv, Calm, Cardinality(Used) < scope.turns
  PROVE  /\ Fresh \in Turns /\ turns[Fresh].state = "unused"
         /\ \A u \in Turns : turns[u].state # "unused" <=> u < Fresh
         /\ pending = 0 /\ ~InQueue(Fresh)
<1>1. /\ Fresh \in Turns /\ turns[Fresh].state = "unused"
      /\ \A u \in Turns : turns[u].state # "unused" <=> u < Fresh
  BY FreshFields DEF Inv, Types, Shape
<1>2. pending = 0
  BY CalmWaits DEF Inv
<1>3. TurnOK(Fresh)
  BY <1>1 DEF Inv, Shape
<1> QED
  BY <1>1, <1>2, <1>3 DEF TurnOK

LEMMA RecordStep ==
  ASSUME Inv, Record
  PROVE  Inv'
<1> DEFINE x == [NoTurn EXCEPT !.state = "recorded", !.meant = active]
<1>1. PICK t \in Turns : /\ t = Fresh /\ turns[t].state = "unused"
                         /\ \A u \in Turns : turns[u].state # "unused" <=> u < t
                         /\ pending = 0 /\ ~InQueue(t)
  BY FreshAside DEF Record
<1>2. active \in Nat /\ active \in 1..created /\ created \in Nat /\ active # 0 /\ t # 0
  BY <1>1, Numbers DEF Inv
<1>3. /\ x \in Turn /\ x.state = "recorded" /\ x.meant = active /\ x.profile = NoAgent
      /\ x.at = 0 /\ x.typed = FALSE
  BY <1>2, MadeTurns
<1>4. turns' = [turns EXCEPT ![t] = x]
  BY <1>1 DEF Record
<1> HIDE DEF x
<1>5. /\ turns' \in [Turns -> Turn] /\ turns'[t] = x
      /\ \A u \in Turns : u # t => turns'[u] = turns[u]
  BY <1>1, <1>3, <1>4, SetTurn DEF Inv
<1>6. /\ UNCHANGED <<scope, sessions, created, conv, active, identity, runs, queue, pending,
                     answers, overlapped, dropped>>
      /\ ui.urgent = "no"
  BY DEF Record, storeVars, history, Calm
<1>7. ui' \in UIState /\ ui'.seen = ui.seen
  BY DiscreteFields DEF Record, Inv
<1>8. Types'
  BY <1>5, <1>6, <1>7 DEF Inv, Types
<1>9. Shape'
  <2>1. Beside(t)
    BY <1>5, <1>6 DEF Beside, InQueue, Inv, Shape, TurnOK
  <2>2. ~InQueue(t)'
    BY <1>1, <1>6 DEF InQueue
  <2>3. TurnOK(t)'
    BY <1>1, <1>2, <1>3, <1>5, <1>6, <2>2 DEF TurnOK, Running
  <2>4. InOrder'
    BY <1>1, <1>3, <1>5, InOrderKept DEF Inv, Types, Shape
  <2>5. Once' /\ Untouched'
    BY <1>6 DEF Inv, Shape, Once, Untouched
  <2> QED
    BY <1>1, <1>2, <1>6, <2>1, <2>3, <2>4, <2>5, ShapeKept DEF Inv
<1>10. Waiting'
  BY <1>1, <1>6 DEF Waiting
<1>11. Alone' /\ Agents'
  <2>1. Aside(t)
    BY <1>1, <1>3, <1>5, <1>6, <1>7 DEF Aside
  <2>2. sessions' \subseteq Sessions
    BY <1>6, Numbers DEF Inv, Types
  <2> QED
    BY <1>1, <2>1, <2>2, AsideKept
<1> QED
  BY <1>8, <1>9, <1>10, <1>11 DEF Inv

LEMMA MentionAnotherStep ==
  ASSUME Inv, NEW p \in Listed, MentionAnother(p)
  PROVE  Inv'
<1>1. PICK t \in Turns : /\ t = Fresh /\ turns[t].state = "unused"
                         /\ \A u \in Turns : turns[u].state # "unused" <=> u < t
                         /\ pending = 0 /\ ~InQueue(t)
  BY FreshAside DEF MentionAnother
<1>2. PICK n \in Sessions : n = created + 1 /\ created \in Nat /\ n \in Nat /\ p \in Profiles
  BY Numbers, ConsoleAssumption DEF MentionAnother, Inv, Types, Sessions
<1> DEFINE x == Addressed(n, p)
<1>3. /\ x \in Turn /\ x.state = "pending" /\ x.meant = n /\ x.profile = p
      /\ x.at = 0 /\ x.typed = FALSE
  BY <1>2, AddressedFields
<1>4. turns' = [turns EXCEPT ![t] = x] /\ pending' = t /\ created' = n
  BY <1>1, <1>2 DEF MentionAnother, Addressed
<1>5. /\ conv' \in [Sessions -> Conversation]
      /\ \A v \in Sessions : /\ conv'[v].prev = conv[v].prev /\ conv'[v].bound = conv[v].bound
                             /\ v # n => conv'[v] = conv[v]
  BY <1>2, SetWanted DEF MentionAnother, Inv
<1>6. /\ UNCHANGED <<scope, identity, runs, queue, answers, overlapped, dropped>>
      /\ ui.urgent = "no" /\ sessions' = sessions \union {n} /\ active' = n
  BY <1>2 DEF MentionAnother, history, Calm
<1> HIDE DEF x
<1>7. /\ turns' \in [Turns -> Turn] /\ turns'[t] = x
      /\ \A u \in Turns : u # t => turns'[u] = turns[u]
  BY <1>1, <1>3, <1>4, SetTurn DEF Inv
<1>8. ui' \in UIState /\ ui'.seen = ui.seen /\ ui'.urgent = "flush"
  BY DiscreteFields DEF MentionAnother, Inv
<1>9. Types'
  BY <1>1, <1>2, <1>4, <1>5, <1>6, <1>7, <1>8 DEF Inv, Types, Sessions
<1>10. Shape'
  <2>1. \A u \in Turns : Running(u) => turns[u].at \in sessions'
    BY <1>6 DEF Inv, Shape, TurnOK
  <2>2. \A u \in Turns : u # t => u # 0 /\ (InQueue(u)' <=> InQueue(u))
    BY <1>6, Numbers DEF InQueue, Inv
  <2>3. Beside(t)
    BY <1>1, <1>4, <1>7, <2>1, <2>2 DEF Beside
  <2>4. ~InQueue(t)'
    BY <1>1, <1>6 DEF InQueue
  <2>5. TurnOK(t)'
    BY <1>1, <1>2, <1>3, <1>4, <1>7, <2>4 DEF TurnOK, Running
  <2>6. InOrder'
    BY <1>1, <1>3, <1>7, InOrderKept DEF Inv, Types, Shape
  <2>7. Once'
    BY <1>6 DEF Inv, Shape, Once
  <2>8. Untouched'
    <3>1. \A s \in Sessions : s \in Nat
      BY Numbers DEF Inv
    <3>2. \A s \in Sessions : s > n => s > created /\ s # n
      BY <1>2, <3>1
    <3> QED
      BY <1>4, <1>5, <1>6, <3>2 DEF Inv, Shape, Untouched
  <2> QED
    BY <1>1, <1>2, <1>4, <2>3, <2>5, <2>6, <2>7, <2>8, ShapeKept DEF Inv
<1>11. Waiting'
  <2>1. conv[n] = NewConversation
    BY <1>2 DEF Inv, Shape
  <2>2. conv'[n].prev = None /\ conv'[n].bound = NoAgent
    BY <1>2, <1>5, <2>1 DEF NewConversation
  <2>3. \A u \in Turns : u # t => turns'[u].meant # n
    <3>1. \A u \in Turns : turns[u].meant \in 0..created
      BY DEF Inv, Shape, TurnOK
    <3> QED
      BY <1>2, <1>7, <3>1
  <2> QED
    BY <1>3, <1>4, <1>7, <1>8, <2>2, <2>3 DEF Waiting
<1>12. Alone' /\ Agents'
  <2>1. Aside(t)
    BY <1>1, <1>2, <1>3, <1>5, <1>6, <1>7, <1>8 DEF Aside
  <2>2. sessions' \subseteq Sessions
    BY <1>2, <1>6, Numbers DEF Inv, Types
  <2> QED
    BY <1>1, <2>1, <2>2, AsideKept
<1> QED
  BY <1>9, <1>10, <1>11, <1>12 DEF Inv

LEMMA RecordingFailsStep ==
  ASSUME Inv, NEW t \in Turns, RecordingFails(t)
  PROVE  Inv'
<1>1. turns[t].state = "recorded" /\ pending = 0 /\ TurnOK(t)
  BY CalmWaits DEF RecordingFails, Inv, Shape
<1>2. ~InQueue(t)
  BY <1>1 DEF TurnOK
<1>3. Gone \in Turn /\ Gone.state = "gone" /\ Gone.meant = 0 /\ Gone.at = 0
  BY MadeTurns
<1>4. /\ turns' \in [Turns -> Turn] /\ turns'[t] = Gone
      /\ \A u \in Turns : u # t => turns'[u] = turns[u]
  BY <1>3, SetTurn DEF Inv, RecordingFails
<1>5. UNCHANGED <<scope, sessions, created, conv, active, identity, runs, queue, pending, ui,
                  answers, overlapped, dropped>>
  BY DEF RecordingFails, storeVars, history
<1>6. created \in Nat /\ t # 0
  BY Numbers DEF Inv
<1>7. Types'
  BY <1>4, <1>5 DEF Inv, Types
<1>8. Shape'
  <2>1. Beside(t)
    BY <1>4, <1>5 DEF Beside, InQueue, Inv, Shape, TurnOK
  <2>2. TurnOK(t)'
    BY <1>1, <1>2, <1>3, <1>4, <1>5, <1>6 DEF TurnOK, Running, InQueue
  <2>3. InOrder'
    BY <1>1, <1>3, <1>4, InOrderKept DEF Inv, Types, Shape
  <2>4. Once' /\ Untouched'
    BY <1>5 DEF Inv, Shape, Once, Untouched
  <2> QED
    BY <1>5, <1>6, <2>1, <2>2, <2>3, <2>4, ShapeKept DEF Inv
<1>9. Waiting'
  BY <1>1, <1>5 DEF Waiting
<1>10. Alone' /\ Agents'
  <2>1. Aside(t)
    BY <1>1, <1>3, <1>4, <1>5 DEF Aside
  <2>2. sessions' \subseteq Sessions
    BY <1>5, Numbers DEF Inv, Types
  <2> QED
    BY <2>1, <2>2, AsideKept
<1> QED
  BY <1>7, <1>8, <1>9, <1>10 DEF Inv

-----------------------------------------------------------------------------
(* Steps that send a turn                                                  *)

(* What a step may do around the turn it sends.                            *)
AroundSending(t, turn, s) ==
  /\ UNCHANGED <<scope, sessions, created, active, identity>>
  /\ queue' \in Seq(Turns) /\ pending' \in {0} \union Turns /\ dropped' \in BOOLEAN
  /\ \A u \in Turns : u # t => (pending' = u <=> pending = u) /\ (InQueue(u)' <=> InQueue(u))
  /\ pending' # t /\ ~InQueue(t)'
  /\ ui' \in UIState /\ ui'.seen = ui.seen
  /\ ui'.urgent # "flush" => ui.urgent # "flush"
  /\ turn.typed => Calm /\ (Starts(s) => ui'.urgent = "flush")

LEMMA SendKept ==
  ASSUME Inv, NEW t \in Turns, NEW turn \in Turn, NEW s \in 1..created,
         NEW stored \in [Sessions -> Conversation],
         Send(t, turn, s, stored), AroundSending(t, turn, s), Once', Waiting',
         \A v \in Sessions : /\ stored[v].prev = conv[v].prev /\ stored[v].bound = conv[v].bound
                             /\ v > created => stored[v] = conv[v],
         turns[t].state # "running", turn.meant = s,
         turn.profile = NoAgent \/ conv[s].bound \in {NoAgent, turn.profile},
         \/ turns[t].state # "unused"
         \/ \A u \in Turns : turns[u].state # "unused" <=> u < t
  PROVE  Inv'
<1>1. s \in Sessions /\ created \in Nat
  BY Numbers DEF Inv
<1>2. /\ conv' = stored /\ answers' = answers
      /\ turns' \in [Turns -> Turn] /\ \A u \in Turns : u # t => turns'[u] = turns[u]
      /\ Started(t, turn, s) \/ Refused(t, s)
  BY <1>1, SendFields DEF Inv
<1>3. /\ scope' = scope /\ sessions' = sessions /\ created' = created /\ active' = active
      /\ identity' = identity
  BY DEF AroundSending
<1>4. runs' \subseteq 1..created /\ overlapped' \subseteq Sessions
  BY <1>1, <1>2 DEF Started, Refused, Inv, Types
<1>5. Types'
  BY <1>2, <1>3, <1>4 DEF Inv, Types, AroundSending
<1>6. Shape'
  <2>1. \A u \in Turns : Running(u) => turns[u].at \in sessions'
    BY <1>3 DEF Inv, Shape, TurnOK
  <2>2. Beside(t)
    BY <1>2, <2>1 DEF Beside, AroundSending
  <2>3. Untouched'
    BY <1>2, <1>3 DEF Inv, Shape, Untouched
  <2> QED
    BY <1>2, <1>3, <2>2, <2>3, SendShape DEF Inv, AroundSending
<1>7. Alone'
  BY <1>2, <1>3, SendAlone DEF Inv, AroundSending
<1>8. Agents'
  BY <1>2, <1>3, SendAgents DEF Inv
<1> QED
  BY <1>5, <1>6, <1>7, <1>8 DEF Inv

LEMMA SubmitStep ==
  ASSUME Inv, Submit
  PROVE  Inv'
<1>1. PICK t \in Turns : /\ t = Fresh /\ turns[t].state = "unused"
                         /\ \A u \in Turns : turns[u].state # "unused" <=> u < t
                         /\ pending = 0 /\ ~InQueue(t)
  BY FreshAside DEF Submit
<1>2. PICK s \in 1..created : s = active
  BY Numbers DEF Inv
<1>3. PICK turn \in Turn : turn = Typed(NoAgent) /\ turn.meant = s /\ turn.profile = NoAgent
  BY <1>2, Numbers, TypedFields DEF Inv
<1>4. Send(t, turn, s, conv)
  BY <1>1, <1>2, <1>3 DEF Submit
<1>5. /\ UNCHANGED <<scope, sessions, created, active, identity, queue, pending, dropped>>
      /\ Calm /\ Discrete(Starts(s), FALSE) /\ Starts(s) \in BOOLEAN
  BY <1>2 DEF Submit, Starts
<1>6. /\ ui' \in UIState /\ ui'.seen = ui.seen
      /\ Starts(s) => ui'.urgent = "flush"
  BY <1>5, DiscreteFields DEF Inv
<1>7. AroundSending(t, turn, s)
  <2>1. t # 0
    BY <1>1, Numbers DEF Inv
  <2>2. \A u : InQueue(u)' <=> InQueue(u)
    BY <1>5 DEF InQueue
  <2>3. queue \in Seq(Turns) /\ pending \in {0} \union Turns /\ dropped \in BOOLEAN
    BY DEF Inv, Types
  <2> QED
    BY <1>1, <1>5, <1>6, <2>1, <2>2, <2>3 DEF AroundSending, Calm
<1>8. Once' /\ Waiting'
  BY <1>1, <1>5 DEF Inv, Shape, Once, Waiting
<1>9. conv \in [Sessions -> Conversation]
  BY DEF Inv, Types
<1> QED
  BY <1>1, <1>3, <1>4, <1>7, <1>8, <1>9, SendKept

LEMMA MentionStep ==
  ASSUME Inv, NEW p \in Listed, Mention(p)
  PROVE  Inv'
<1>1. PICK t \in Turns : /\ t = Fresh /\ turns[t].state = "unused"
                         /\ \A u \in Turns : turns[u].state # "unused" <=> u < t
                         /\ pending = 0 /\ ~InQueue(t)
  BY FreshAside DEF Mention
<1>2. PICK s \in 1..created : s = active
  BY Numbers DEF Inv
<1>3. s \in Sessions /\ p \in Profiles /\ created \in Nat
  BY Numbers, ConsoleAssumption DEF Inv
<1>4. PICK turn \in Turn : turn = Typed(p) /\ turn.meant = s /\ turn.profile = p
  BY <1>2, <1>3, Numbers, TypedFields DEF Inv
<1>5. conv[s].bound \in {NoAgent, p}
  BY <1>2 DEF Mention, AnotherAgent
<1>6. PICK stored \in [Sessions -> Conversation] :
        /\ stored = IF conv[s].bound = NoAgent THEN [conv EXCEPT ![s].wanted = p] ELSE conv
        /\ \A v \in Sessions : /\ stored[v].prev = conv[v].prev /\ stored[v].bound = conv[v].bound
                               /\ v # s => stored[v] = conv[v]
  <2> DEFINE wanted == [conv EXCEPT ![s].wanted = p]
             stored == IF conv[s].bound = NoAgent THEN wanted ELSE conv
  <2>1. /\ wanted \in [Sessions -> Conversation]
        /\ \A v \in Sessions : /\ wanted[v].prev = conv[v].prev /\ wanted[v].bound = conv[v].bound
                               /\ v # s => wanted[v] = conv[v]
    BY <1>3, SetWanted DEF Inv
  <2>2. conv \in [Sessions -> Conversation]
    BY DEF Inv, Types
  <2> HIDE DEF wanted
  <2>3. /\ stored \in [Sessions -> Conversation]
        /\ \A v \in Sessions : /\ stored[v].prev = conv[v].prev /\ stored[v].bound = conv[v].bound
                               /\ v # s => stored[v] = conv[v]
    BY <2>1, <2>2
  <2> HIDE DEF stored
  <2>4. stored = IF conv[s].bound = NoAgent THEN wanted ELSE conv
    BY DEF stored
  <2> QED
    BY <2>3, <2>4 DEF wanted
<1>7. Send(t, turn, s, stored)
  BY <1>1, <1>2, <1>4, <1>6 DEF Mention
<1>8. /\ UNCHANGED <<scope, sessions, created, active, identity, queue, pending, dropped>>
      /\ Calm /\ Discrete(Starts(s), FALSE) /\ Starts(s) \in BOOLEAN
  BY <1>2 DEF Mention, Starts
<1>9. /\ ui' \in UIState /\ ui'.seen = ui.seen
      /\ Starts(s) => ui'.urgent = "flush"
  BY <1>8, DiscreteFields DEF Inv
<1>10. AroundSending(t, turn, s)
  <2>1. t # 0
    BY <1>1, Numbers DEF Inv
  <2>2. \A u : InQueue(u)' <=> InQueue(u)
    BY <1>8 DEF InQueue
  <2>3. queue \in Seq(Turns) /\ pending \in {0} \union Turns /\ dropped \in BOOLEAN
    BY DEF Inv, Types
  <2> QED
    BY <1>1, <1>8, <1>9, <2>1, <2>2, <2>3 DEF AroundSending, Calm
<1>11. Once' /\ Waiting'
  BY <1>1, <1>8 DEF Inv, Shape, Once, Waiting
<1>12. \A v \in Sessions : /\ stored[v].prev = conv[v].prev /\ stored[v].bound = conv[v].bound
                           /\ v > created => stored[v] = conv[v]
  <2>1. \A v \in Sessions : v > created => v # s
    BY <1>3, Numbers DEF Inv
  <2> QED
    BY <1>6, <2>1
<1>13. turns[t].state # "running" /\ (turn.profile = NoAgent \/ conv[s].bound \in {NoAgent, turn.profile})
  BY <1>1, <1>4, <1>5
<1> QED
  BY <1>1, <1>4, <1>7, <1>10, <1>11, <1>12, <1>13, SendKept

LEMMA TranscriptStep ==
  ASSUME Inv, NEW t \in Turns, Transcript(t)
  PROVE  Inv'
<1>1. /\ turns[t].state = "recorded" /\ pending = 0 /\ TurnOK(t) /\ ui.urgent = "no"
      /\ UNCHANGED <<scope, sessions, created, active, identity, pending, dropped>>
  BY CalmWaits DEF Transcript, Inv, Shape, Calm
<1>2. /\ ~turns[t].typed /\ turns[t].profile = NoAgent /\ turns[t].meant \in 1..created
      /\ ~InQueue(t) /\ turns[t] \in Turn /\ t # 0 /\ created \in Nat
  BY <1>1, Numbers DEF TurnOK, Inv
<1>3. Waiting'
  BY <1>1 DEF Waiting
<1>4. CASE /\ queue' = Append(queue, t)
           /\ turns' = [turns EXCEPT ![t].state = "queued"]
           /\ UNCHANGED <<conv, runs, ui, overlapped, answers>>
  <2> DEFINE x == [turns[t] EXCEPT !.state = "queued"]
  <2>1. turns' = [turns EXCEPT ![t] = x]
    BY <1>4
  <2>2. /\ x \in Turn /\ x.state = "queued" /\ x.meant = turns[t].meant /\ x.at = turns[t].at
        /\ x.typed = turns[t].typed /\ x.profile = turns[t].profile
    BY <1>2 DEF Turn, States
  <2> HIDE DEF x
  <2>3. /\ turns' \in [Turns -> Turn] /\ turns'[t] = x
        /\ \A u \in Turns : u # t => turns'[u] = turns[u]
    BY <2>1, <2>2, SetTurn DEF Inv
  <2>4. /\ queue' \in Seq(Turns) /\ Once'
        /\ \A u : InQueue(u)' <=> u = t \/ InQueue(u)
    <3>1. queue \in Seq(Turns) /\ \A k \in 1..Len(queue) : queue[k] # t
      BY <1>2 DEF Inv, Types, InQueue
    <3>2. \A i, j \in 1..Len(queue) : queue[i] = queue[j] => i = j
      BY DEF Inv, Shape
    <3> QED
      BY <1>4, <3>1, <3>2, Appended DEF InQueue, Once
  <2>5. Types'
    BY <1>1, <1>4, <2>3, <2>4 DEF Inv, Types
  <2>6. Shape'
    <3>1. Beside(t)
      BY <1>1, <2>3, <2>4 DEF Beside, Inv, Shape, TurnOK
    <3>2. TurnOK(t)'
      BY <1>1, <1>2, <2>2, <2>3, <2>4 DEF TurnOK, Running
    <3>3. InOrder'
      BY <1>1, <2>2, <2>3, InOrderKept DEF Inv, Types, Shape
    <3>4. Untouched'
      BY <1>1, <1>4 DEF Inv, Shape, Untouched
    <3> QED
      BY <1>1, <1>2, <2>4, <3>1, <3>2, <3>3, <3>4, ShapeKept DEF Inv
  <2>7. Alone' /\ Agents'
    <3>1. Aside(t)
      BY <1>1, <1>4, <2>2, <2>3 DEF Aside
    <3>2. sessions' \subseteq Sessions
      BY <1>1, Numbers DEF Inv, Types
    <3> QED
      BY <3>1, <3>2, AsideKept
  <2> QED
    BY <1>3, <2>5, <2>6, <2>7 DEF Inv
<1>5. CASE /\ Send(t, turns[t], Context(t), conv)
           /\ ui' = [ui EXCEPT !.dirty = @ \/ Starts(Context(t))]
           /\ UNCHANGED queue
  <2>1. PICK turn \in Turn : turn = turns[t]
    BY <1>2
  <2>2. PICK s \in 1..created : s = turns[t].meant
    BY <1>2
  <2>3. Send(t, turn, s, conv)
    BY <1>5, <2>1, <2>2 DEF Context
  <2>4. ui' \in UIState /\ ui'.seen = ui.seen /\ ui'.urgent = ui.urgent
    BY <1>5 DEF Inv, Types, UIState, Starts, Context
  <2>5. \A u : InQueue(u)' <=> InQueue(u)
    BY <1>5 DEF InQueue
  <2>6. queue \in Seq(Turns) /\ pending \in {0} \union Turns /\ dropped \in BOOLEAN
    BY DEF Inv, Types
  <2>7. AroundSending(t, turn, s)
    BY <1>1, <1>2, <1>5, <2>1, <2>4, <2>5, <2>6 DEF AroundSending
  <2>8. Once'
    BY <1>5 DEF Inv, Shape, Once
  <2>9. conv \in [Sessions -> Conversation]
    BY DEF Inv, Types
  <2>10. turns[t].state # "running" /\ turns[t].state # "unused" /\ turn.meant = s /\ turn.profile = NoAgent
    BY <1>1, <1>2, <2>1, <2>2
  <2> QED
    BY <1>3, <2>3, <2>7, <2>8, <2>9, <2>10, SendKept
<1> QED
  BY <1>4, <1>5 DEF Transcript

LEMMA PendingEffectStep ==
  ASSUME Inv, PendingEffect
  PROVE  Inv'
<1>1. PICK t \in Turns : t = pending /\ pending # 0
  BY DEF PendingEffect, Inv, Types
<1>2. TurnOK(t) /\ turns[t] \in Turn /\ t # 0 /\ created \in Nat
  BY Numbers DEF Inv, Shape
<1>3. turns[t].state = "pending" /\ ~turns[t].typed /\ ~InQueue(t)
  BY <1>1, <1>2 DEF TurnOK
<1>4. turns[t].meant = created /\ conv[created].bound = NoAgent /\ created \in 1..created
  BY <1>1, Numbers DEF Inv, Waiting
<1>5. PICK turn \in Turn : turn = turns[t]
  BY <1>2
<1>6. PICK s \in 1..created : s = turns[t].meant
  BY <1>4
<1>7. /\ Send(t, turn, s, conv) /\ pending' = 0 /\ ui.urgent = "commit"
      /\ UNCHANGED <<scope, sessions, created, active, identity, queue, dropped>>
  BY <1>1, <1>5, <1>6 DEF PendingEffect
<1>8. ui' \in UIState /\ ui'.seen = ui.seen
  BY DEF PendingEffect, Inv, Types, UIState
<1>9. \A u : InQueue(u)' <=> InQueue(u)
  BY <1>7 DEF InQueue
<1>10. queue \in Seq(Turns) /\ dropped \in BOOLEAN
  BY DEF Inv, Types
<1>11. \A u \in Turns : u # 0
  BY Numbers DEF Inv
<1>12. AroundSending(t, turn, s)
  BY <1>1, <1>2, <1>3, <1>5, <1>7, <1>8, <1>9, <1>10, <1>11 DEF AroundSending
<1>13. Once' /\ Waiting'
  BY <1>7 DEF Inv, Shape, Once, Waiting
<1>14. conv \in [Sessions -> Conversation]
  BY DEF Inv, Types
<1>15. turns[t].state # "running" /\ turns[t].state # "unused" /\ turn.meant = s /\ conv[s].bound = NoAgent
  BY <1>3, <1>4, <1>5, <1>6
<1> QED
  BY <1>7, <1>12, <1>13, <1>14, <1>15, SendKept

LEMMA AfterVoiceFields ==
  ASSUME Types, NEW started \in BOOLEAN
  PROVE  LET v == AfterVoice(started) IN
         /\ v \in UIState /\ v.seen = ui.seen
         /\ v.urgent = "flush" <=> ui.urgent = "flush"
BY DEF Types, UIState, AfterVoice

LEMMA VoiceEffectStep ==
  ASSUME Inv, VoiceEffect
  PROVE  Inv'
<1>1. /\ UNCHANGED <<scope, sessions, created, active, identity, pending>>
      /\ pending = 0 \/ ui.urgent = "flush"
  BY DEF VoiceEffect
<1>2. CASE ui' = AfterVoice(FALSE) /\ UNCHANGED <<conv, runs, turns, queue, history>>
  <2>1. ui' \in UIState /\ ui'.seen = ui.seen /\ (ui'.urgent = "flush" <=> ui.urgent = "flush")
    BY <1>2, AfterVoiceFields DEF Inv
  <2>2. Types'
    BY <1>1, <1>2, <2>1 DEF Inv, Types, history
  <2>3. Waiting'
    BY <1>1, <1>2, <2>1 DEF Inv, Waiting
  <2>4. Quiet
    <3>1. created' = created /\ created \in Nat /\ sessions' = sessions /\ pending' = pending
      BY <1>1, Numbers DEF Inv
    <3>2. conv' = conv /\ UNCHANGED <<turns, queue, runs, history>>
      BY <1>2
    <3> QED
      BY <2>1, <3>1, <3>2 DEF Quiet
  <2> QED
    BY <2>2, <2>3, <2>4, QuietKept
<1>3. CASE \E k \in Ready :
             /\ queue' = Take(k)
             /\ Send(queue[k], turns[queue[k]], turns[queue[k]].meant, conv)
             /\ ui' = AfterVoice(Starts(turns[queue[k]].meant))
             /\ dropped' = (dropped \/ ~Starts(turns[queue[k]].meant))
  <2>1. PICK k \in Ready :
             /\ queue' = Take(k)
             /\ Send(queue[k], turns[queue[k]], turns[queue[k]].meant, conv)
             /\ ui' = AfterVoice(Starts(turns[queue[k]].meant))
             /\ dropped' = (dropped \/ ~Starts(turns[queue[k]].meant))
    BY <1>3
  <2>2. queue \in Seq(Turns) /\ k \in 1..Len(queue)
    BY <2>1 DEF Inv, Types, Ready
  <2>3. PICK t \in Turns : t = queue[k]
    BY <2>2
  <2>4. TurnOK(t) /\ turns[t] \in Turn /\ t # 0 /\ created \in Nat /\ InQueue(t)
    BY <2>2, <2>3, Numbers DEF Inv, Shape, InQueue
  <2>5. turns[t].state = "queued" /\ ~turns[t].typed /\ turns[t].profile = NoAgent
        /\ turns[t].meant \in 1..created /\ t # pending
    BY <2>4, Numbers DEF TurnOK, Inv
  <2>6. PICK turn \in Turn : turn = turns[t]
    BY <2>4
  <2>7. PICK s \in 1..created : s = turns[t].meant
    BY <2>5
  <2>8. Send(t, turn, s, conv) /\ ui' = AfterVoice(Starts(s)) /\ dropped' \in BOOLEAN
    BY <2>1, <2>3, <2>6, <2>7
  <2>9. ui' \in UIState /\ ui'.seen = ui.seen /\ (ui'.urgent = "flush" <=> ui.urgent = "flush")
    <3>1. Starts(s) \in BOOLEAN
      BY DEF Starts
    <3> QED
      BY <2>8, <3>1, AfterVoiceFields DEF Inv
  <2>10. /\ queue' \in Seq(Turns) /\ Once'
         /\ \A u : InQueue(u)' <=> u # t /\ InQueue(u)
    <3>1. \A i, j \in 1..Len(queue) : queue[i] = queue[j] => i = j
      BY DEF Inv, Shape
    <3>2. queue' = RemoveAt(queue, k)
      BY <2>1 DEF Take
    <3>3. LET r == RemoveAt(queue, k) IN
          /\ r \in Seq(Turns)
          /\ \A u : (\E i \in 1..Len(r) : r[i] = u)
                    <=> u # queue[k] /\ \E i \in 1..Len(queue) : queue[i] = u
          /\ \A i, j \in 1..Len(r) : r[i] = r[j] => i = j
      BY <2>2, <3>1, Removed
    <3> QED
      BY <2>3, <3>2, <3>3, Zenon DEF InQueue, Once
  <2>11. AroundSending(t, turn, s)
    BY <1>1, <2>5, <2>6, <2>8, <2>9, <2>10 DEF AroundSending, Inv, Types
  <2>12. Waiting'
    <3> SUFFICES ASSUME pending # 0 PROVE Waiting'
      BY <1>1 DEF Waiting
    <3>1. /\ pending \in Turns /\ turns[pending].meant = created
          /\ conv[created].prev = None /\ conv[created].bound = NoAgent
          /\ \A u \in Turns : u # pending => turns[u].meant # created
      BY DEF Inv, Types, Waiting
    <3>2. s \in Sessions
      BY Numbers DEF Inv
    <3>3. /\ conv' = conv /\ \A u \in Turns : u # t => turns'[u] = turns[u]
          /\ Started(t, turn, s) \/ Refused(t, s)
      BY <2>8, <3>2, SendFields DEF Inv
    <3>4. turns'[t].meant = s \/ turns'[t].meant = 0
      <4>1. CASE Started(t, turn, s)
        <5> DEFINE a == Ask(turn, s)
        <5>1. a.meant = turn.meant
          BY <3>2, AskFields DEF Inv
        <5>2. turns'[t] = a
          BY <4>1 DEF Started
        <5> HIDE DEF a
        <5> QED
          BY <2>6, <2>7, <5>1, <5>2
      <4>2. CASE Refused(t, s)
        BY <4>2, MadeTurns DEF Refused
      <4> QED
        BY <3>3, <4>1, <4>2
    <3>5. s # created /\ created # 0
      BY <2>5, <2>7, <3>1, Numbers DEF Inv
    <3> QED
      BY <1>1, <2>5, <2>9, <3>1, <3>3, <3>4, <3>5 DEF Waiting
  <2>13. turns[t].state # "running" /\ turns[t].state # "unused" /\ turn.meant = s /\ turn.profile = NoAgent
    BY <2>5, <2>6, <2>7
  <2>14. conv \in [Sessions -> Conversation]
    BY DEF Inv, Types
  <2> QED
    BY <2>8, <2>10, <2>11, <2>12, <2>13, <2>14, SendKept
<1> QED
  BY <1>2, <1>3 DEF VoiceEffect

-----------------------------------------------------------------------------
(* Steps that end runs                                                     *)

LEMMA RunSettlesStep ==
  ASSUME Inv, NEW t \in Turns, RunSettles(t)
  PROVE  Inv'
<1>1. /\ turns[t].state = "running" /\ ui.urgent = "no" /\ pending = 0 /\ TurnOK(t)
      /\ runs' = runs \ {turns[t].at} /\ turns' = [turns EXCEPT ![t] = Gone]
      /\ UNCHANGED <<scope, sessions, created, conv, active, identity, queue, pending,
                     answers, overlapped, dropped>>
  BY CalmWaits DEF RunSettles, Over, Calm, Settled, storeVars, history, Inv, Shape
<1>2. ui' \in UIState /\ ui'.seen = ui.seen /\ ui'.urgent = ui.urgent
  BY DEF RunSettles, Inv, Types, UIState
<1>3. Gone \in Turn /\ Gone.state = "gone" /\ Gone.meant = 0 /\ Gone.at = 0
  BY MadeTurns
<1>4. /\ turns' \in [Turns -> Turn] /\ turns'[t] = Gone
      /\ \A u \in Turns : u # t => turns'[u] = turns[u]
  BY <1>1, <1>3, SetTurn DEF Inv
<1>5. created \in Nat /\ t # 0 /\ ~InQueue(t)
  BY <1>1, Numbers DEF Inv, TurnOK
<1>6. Types'
  BY <1>1, <1>2, <1>4 DEF Inv, Types
<1>7. Shape'
  <2>1. Beside(t)
    BY <1>1, <1>4 DEF Beside, InQueue, Inv, Shape, TurnOK
  <2>2. TurnOK(t)'
    BY <1>1, <1>3, <1>4, <1>5 DEF TurnOK, Running, InQueue
  <2>3. InOrder'
    BY <1>1, <1>3, <1>4, InOrderKept DEF Inv, Types, Shape
  <2>4. Once' /\ Untouched'
    BY <1>1 DEF Inv, Shape, Once, Untouched
  <2> QED
    BY <1>1, <1>5, <2>1, <2>2, <2>3, <2>4, ShapeKept DEF Inv
<1>8. Waiting'
  BY <1>1 DEF Waiting
<1>9. Alone'
  <2>1. ASSUME NEW u \in Turns PROVE StillRuns(u)
    <3>1. CASE u = t
      BY <1>3, <1>4, <3>1 DEF StillRuns
    <3>2. CASE u # t
      <4>1. /\ turns[u].state = "running" /\ turns[u].at \in sessions \ overlapped
            => turns[u].at # turns[t].at
        BY <1>1, <3>2 DEF Inv, Alone, OneLive
      <4> QED
        BY <1>1, <1>4, <3>2, <4>1 DEF StillRuns
    <3> QED
      BY <3>1, <3>2
  <2> QED
    BY <1>2, <2>1, AloneKept DEF Inv
<1>10. Agents'
  <2>1. \A s : SameStory(s)
    BY <1>1 DEF SameStory, Plain
  <2>2. \A u \in Turns : SameAsked(u)
    BY <1>3, <1>4, <2>1 DEF SameAsked, Running
  <2> QED
    BY <2>1, <2>2, AgentsKept DEF Inv
<1> QED
  BY <1>6, <1>7, <1>8, <1>9, <1>10 DEF Inv

(* A turn that is let go keeps its place and says nothing more.            *)
LetGo(t, R) == Running(t) /\ turns[t].at \in R

LEMMA ReleaseFields ==
  ASSUME Types, NEW R, Release(R)
  PROVE  /\ turns' \in [Turns -> Turn]
         /\ \A t \in Turns : ~LetGo(t, R) => turns'[t] = turns[t]
         /\ \A t \in Turns : LetGo(t, R) =>
              /\ turns'[t].state = "running" /\ turns'[t].at = turns[t].at
              /\ turns'[t].meant = turns[t].meant
              /\ turns'[t].typed = FALSE /\ turns'[t].live = FALSE
<1> DEFINE x(t) == Silenced(turns[t].at, turns[t].meant)
<1>1. ASSUME NEW t \in Turns
      PROVE  /\ x(t) \in Turn /\ x(t).state = "running" /\ x(t).at = turns[t].at
             /\ x(t).meant = turns[t].meant /\ x(t).typed = FALSE /\ x(t).live = FALSE
  <2>1. turns[t].at \in Nat /\ turns[t].meant \in Nat
    BY DEF Types, Turn
  <2> QED
    BY <2>1, SilencedFields
<1>2. turns' = [t \in Turns |-> IF LetGo(t, R) THEN x(t) ELSE turns[t]]
  BY DEF Release, LetGo, Silenced
<1> HIDE DEF x
<1>3. turns \in [Turns -> Turn]
  BY DEF Types
<1>4. \A t \in Turns : turns'[t] = IF LetGo(t, R) THEN x(t) ELSE turns[t]
  BY <1>2
<1>5. \A t \in Turns : (IF LetGo(t, R) THEN x(t) ELSE turns[t]) \in Turn
  BY <1>1, <1>3
<1>6. turns' \in [Turns -> Turn]
  BY <1>2, <1>5
<1> QED
  BY <1>1, <1>4, <1>6

(* Losing conversations: their turns are let go, and so is what is stored. *)
Losing(R) ==
  /\ Release(R) /\ R \subseteq sessions
  /\ UNCHANGED <<scope, queue, pending>> /\ pending = 0
  /\ created' \in {created, created + 1}
  /\ sessions \ R \subseteq sessions' /\ sessions' \subseteq (sessions \ R) \union {created + 1}
  /\ \A v \in sessions \ R : conv'[v] = conv[v] /\ answers'[v] = answers[v]
  /\ \A v \in Sessions :
       \/ conv'[v] = NewConversation /\ answers'[v] = Unanswered
       \/ v \notin R /\ conv'[v] = conv[v] /\ answers'[v] = answers[v]
  /\ \A v \in sessions \ R : (v \in overlapped => v \in overlapped') /\ (v \in runs => v \in runs')
  /\ ui'.seen = ui.seen /\ (ui'.urgent # "flush" => ui.urgent # "flush")

LEMMA LosingKept ==
  ASSUME Inv, NEW R, Losing(R), Types'
  PROVE  Inv'
<1>1. /\ \A t \in Turns : ~LetGo(t, R) => turns'[t] = turns[t]
      /\ \A t \in Turns : LetGo(t, R) =>
           /\ turns'[t].state = "running" /\ turns'[t].at = turns[t].at
           /\ turns'[t].meant = turns[t].meant
           /\ turns'[t].typed = FALSE /\ turns'[t].live = FALSE
  BY ReleaseFields DEF Losing, Inv
<1>2. /\ created \in Nat /\ created' \in Nat /\ created <= created'
      /\ \A t \in Turns : t # 0
      /\ pending = 0 /\ pending' = 0 /\ queue' = queue /\ scope' = scope
  BY Numbers DEF Losing, Inv
<1>3. ASSUME NEW t \in Turns
      PROVE  /\ turns[t].at \in 0..created /\ TurnOK(t)
             /\ Running(t) => turns[t].at \in sessions
             /\ turns[t].at \in sessions' => turns[t].at \in sessions \ R
  <2>1. turns[t].at \in 0..created /\ TurnOK(t) /\ (Running(t) => turns[t].at \in sessions)
    BY DEF Inv, Shape, TurnOK
  <2>2. turns[t].at # created + 1
    BY <1>2, <2>1
  <2> QED
    BY <2>1, <2>2 DEF Losing
<1>4. Shape'
  <2>1. ASSUME NEW t \in Turns PROVE TurnOK(t)'
    <3>1. CASE LetGo(t, R)
      <4>1. turns[t].state = "running" /\ ~InQueue(t) /\ ~InQueue(t)'
        BY <1>2, <1>3, <3>1 DEF LetGo, Running, TurnOK, InQueue
      <4>2. ~Running(t)'
        BY <1>1, <3>1 DEF Running
      <4>3. turns[t].at \in 0..created' /\ turns[t].meant \in 0..created'
        BY <1>2, <1>3 DEF TurnOK
      <4> QED
        BY <1>1, <1>2, <1>3, <3>1, <4>1, <4>2, <4>3 DEF TurnOK
    <3>2. CASE ~LetGo(t, R)
      <4>1. Running(t) => turns[t].at \in sessions'
        BY <1>3, <3>2 DEF LetGo, Losing
      <4>2. turns'[t] = turns[t] /\ (pending' = t <=> pending = t) /\ (InQueue(t)' <=> InQueue(t))
        BY <1>1, <1>2, <3>2 DEF InQueue
      <4> QED
        BY <1>2, <1>3, <4>1, <4>2, TurnKept DEF Inv
    <3> QED
      BY <3>1, <3>2
  <2>2. InOrder'
    <3>1. \A t \in Turns : turns'[t].state # "unused" <=> turns[t].state # "unused"
      BY <1>1 DEF LetGo, Running
    <3> QED
      BY <3>1 DEF Inv, Shape, InOrder
  <2>3. Once'
    BY <1>2 DEF Inv, Shape, Once
  <2>4. Untouched'
    <3>1. \A v \in Sessions : v > created' => v > created
      BY <1>2, Numbers DEF Inv
    <3> QED
      BY <3>1 DEF Untouched, Losing, Inv, Shape
  <2> QED
    BY <2>1, <2>2, <2>3, <2>4 DEF Shape, Once, Untouched
<1>5. Waiting'
  BY <1>2 DEF Waiting
<1>6. Alone'
  <2>1. ASSUME NEW t \in Turns PROVE StillRuns(t)
    BY <1>1, <1>3 DEF StillRuns, LetGo, Running, Losing
  <2> QED
    BY <2>1, AloneKept DEF Inv, Losing
<1>7. Agents'
  <2>1. ASSUME NEW v \in Sessions, v \notin R, conv'[v] = conv[v], answers'[v] = answers[v],
               v \in sessions' => v \in sessions \ R
        PROVE  SameStory(v)
    <3>1. Plain(v)' => Plain(v)
      BY <2>1 DEF Plain, Losing
    <3> QED
      BY <2>1, <3>1 DEF SameStory
  <2>2. ASSUME NEW v \in Sessions PROVE SameStory(v) \/ Blank(v)'
    <3>1. CASE conv'[v] = NewConversation /\ answers'[v] = Unanswered
      BY <3>1 DEF Blank, NewConversation
    <3>2. CASE v \notin R /\ conv'[v] = conv[v] /\ answers'[v] = answers[v]
      <4>1. CASE v = created + 1
        <5>1. conv[v] = NewConversation /\ answers[v] = Unanswered
          BY <1>2, <4>1 DEF Inv, Shape
        <5> QED
          BY <3>2, <5>1 DEF Blank, NewConversation
      <4>2. CASE v # created + 1
        BY <2>1, <3>2, <4>2 DEF Losing
      <4> QED
        BY <4>1, <4>2
    <3> QED
      BY <3>1, <3>2 DEF Losing
  <2>3. ASSUME NEW t \in Turns PROVE SameAsked(t)
    <3>1. Running(t)' => ~LetGo(t, R) /\ turns'[t] = turns[t] /\ Running(t)
      BY <1>1 DEF Running
    <3>2. Running(t)' => turns[t].at \in sessions \ R /\ turns[t].at \in Sessions
      BY <1>3, <3>1, Numbers DEF LetGo, Inv, Types
    <3>3. Running(t)' => SameStory(turns[t].at)
      BY <2>1, <3>2 DEF Losing
    <3> QED
      BY <3>1, <3>3 DEF SameAsked
  <2> QED
    BY <2>2, <2>3, AgentsKept DEF Inv
<1> QED
  BY <1>4, <1>5, <1>6, <1>7 DEF Inv

LEMMA DeleteStep ==
  ASSUME Inv, NEW s \in Sessions, Delete(s)
  PROVE  Inv'
<1>1. /\ s \in sessions /\ ui.urgent = "no" /\ Release({s}) /\ runs' = runs \ {s}
      /\ Keep(sessions \ {s}) /\ overlapped' = overlapped \ {s}
      /\ active' \in IF s = active THEN Newest(sessions \ {s}) ELSE {active}
      /\ UNCHANGED <<scope, identity, queue, pending, dropped>> /\ pending = 0
  BY CalmWaits DEF Delete, Calm, Inv
<1>2. created \in Nat
  BY Numbers DEF Inv
<1>3. ui' \in UIState /\ ui'.seen = ui.seen
  <2>1. (s \in runs) \in BOOLEAN
    OBVIOUS
  <2> QED
    BY <2>1, DiscreteFields DEF Delete, Inv
<1>4. /\ conv \in [Sessions -> Conversation] /\ answers \in [Sessions -> History]
      /\ conv' = [conv EXCEPT ![s] = NewConversation] /\ answers' = [answers EXCEPT ![s] = Unanswered]
  BY DEF Delete, Forget, Inv, Types
<1>5. NewConversation \in Conversation /\ Unanswered \in History
  BY ConsoleAssumption DEF NewConversation, Conversation, Unanswered, History
<1>6. /\ conv' \in [Sessions -> Conversation] /\ answers' \in [Sessions -> History]
      /\ conv'[s] = NewConversation /\ answers'[s] = Unanswered
      /\ \A v \in Sessions : v # s => conv'[v] = conv[v] /\ answers'[v] = answers[v]
  BY <1>4, <1>5
<1>7. /\ created' \in {created, created + 1} /\ created' \in Sessions
      /\ sessions \ {s} \subseteq sessions' /\ sessions' \subseteq (sessions \ {s}) \union {created + 1}
      /\ sessions' \subseteq 1..created'
  <2>1. sessions \subseteq 1..created /\ created \in Sessions /\ scope.sessions \in Sessions
    BY ConsoleAssumption DEF Inv, Types, Sessions
  <2>2. CASE sessions' = sessions \ {s} /\ created' = created
    BY <2>1, <2>2
  <2>3. CASE /\ sessions \ {s} = {} /\ created < scope.sessions
             /\ created' = created + 1 /\ sessions' = {created + 1}
    BY <1>2, <2>1, <2>3, ConsoleAssumption DEF Sessions
  <2> QED
    BY <1>1, <2>2, <2>3 DEF Keep
<1>8. active' \in sessions'
  BY <1>1 DEF Keep, Newest, Inv, Types
<1>9. turns' \in [Turns -> Turn]
  BY <1>1, ReleaseFields DEF Inv
<1>10. runs' \subseteq 1..created'
  BY <1>1, <1>2, <1>7 DEF Inv, Types
<1>11. Types'
  BY <1>1, <1>3, <1>6, <1>7, <1>8, <1>9, <1>10 DEF Inv, Types
<1>12. sessions \subseteq Sessions
  BY Numbers DEF Inv, Types
<1>13. Losing({s})
  BY <1>1, <1>3, <1>6, <1>7, <1>12 DEF Losing
<1> QED
  BY <1>11, <1>13, LosingKept

LEMMA IdentifiedStep ==
  ASSUME Inv, Identified
  PROVE  Inv'
<1>1. /\ Release(sessions) /\ ui.urgent = "no" /\ Keep({}) /\ overlapped' = {} /\ identity' = TRUE
      /\ conv' = [v \in Sessions |-> NewConversation] /\ answers' = [v \in Sessions |-> Unanswered]
      /\ active' \in Newest({})
      /\ UNCHANGED <<scope, runs, queue, pending, ui, dropped>> /\ pending = 0
  BY CalmWaits DEF Identified, Calm, Inv
<1>2. created \in Nat
  BY Numbers DEF Inv
<1>3. NewConversation \in Conversation /\ Unanswered \in History
  BY ConsoleAssumption DEF NewConversation, Conversation, Unanswered, History
<1>4. /\ conv' \in [Sessions -> Conversation] /\ answers' \in [Sessions -> History]
      /\ \A v \in Sessions : conv'[v] = NewConversation /\ answers'[v] = Unanswered
  BY <1>1, <1>3
<1>5. /\ created' = created + 1 /\ created' \in Sessions /\ sessions' = {created + 1}
      /\ active' = created + 1
  BY <1>1, <1>2, ConsoleAssumption DEF Keep, Newest, Inv, Types, Sessions
<1>6. turns' \in [Turns -> Turn]
  BY <1>1, ReleaseFields DEF Inv
<1>7. Types'
  BY <1>1, <1>2, <1>4, <1>5, <1>6 DEF Inv, Types
<1>8. Losing(sessions)
  BY <1>1, <1>4, <1>5 DEF Losing
<1> QED
  BY <1>7, <1>8, LosingKept

-----------------------------------------------------------------------------
(* The answer                                                              *)

(* A step of a turn that runs and goes on running, or has ended.           *)
Speaks(t) ==
  /\ Calm /\ Running(t)
  /\ UNCHANGED <<scope, sessions, created, active, identity, runs, queue, pending, ui,
                 overlapped, dropped>>
  /\ turns' \in [Turns -> Turn]
  /\ \A u \in Turns : u # t => turns'[u] = turns[u]
  /\ turns'[t].state = "running" /\ turns'[t].typed = turns[t].typed
  /\ turns'[t].meant = turns[t].meant /\ turns'[t].at = turns[t].at

LEMMA SpeaksKept ==
  ASSUME Inv, NEW t \in Turns, Speaks(t),
         conv' \in [Sessions -> Conversation], answers' \in [Sessions -> History],
         \A s \in Sessions : s # turns[t].at => conv'[s] = conv[s] /\ answers'[s] = answers[s],
         Running(t)' => /\ turns'[t].by = turns[t].by
                        /\ turns'[t].reply.frames = <<>> \/ turns'[t].reply.prev = Id(t),
         Agents'
  PROVE  Inv'
<1>1. /\ pending = 0 /\ TurnOK(t) /\ created \in Nat /\ t # 0 /\ turns[t].at \in sessions
      /\ turns[t].state = "running"
  BY CalmWaits, Numbers DEF Speaks, Inv, Shape, TurnOK, Running
<1>2. Types'
  BY DEF Speaks, Inv, Types
<1>3. Shape'
  <2>1. Beside(t)
    BY DEF Speaks, Beside, InQueue, Inv, Shape, TurnOK
  <2>2. TurnOK(t)'
    <3>1. ~InQueue(t) /\ ~InQueue(t)'
      BY <1>1 DEF TurnOK, Speaks, InQueue
    <3>2. Running(t)' => turns'[t].reply.frames = <<>> \/ turns'[t].reply.prev = <<t, turns'[t].by>>
      BY DEF Id
    <3>3. Running(t)' => turns'[t].at \in sessions' /\ turns'[t].by \in Profiles
      BY <1>1 DEF Speaks, TurnOK
    <3> QED
      BY <1>1, <3>1, <3>2, <3>3 DEF TurnOK, Speaks
  <2>3. InOrder'
    BY <1>1, InOrderKept DEF Speaks, Inv, Types, Shape
  <2>4. Once'
    BY DEF Speaks, Inv, Shape, Once
  <2>5. Untouched'
    <3>1. \A s \in Sessions : s > created => s # turns[t].at
      BY <1>1, Numbers DEF Inv, Types
    <3> QED
      BY <3>1 DEF Speaks, Inv, Shape, Untouched
  <2> QED
    BY <1>1, <2>1, <2>2, <2>3, <2>4, <2>5, ShapeKept DEF Speaks, Inv
<1>4. Waiting'
  BY <1>1 DEF Waiting, Speaks
<1>5. Alone'
  <2>1. ASSUME NEW u \in Turns PROVE StillRuns(u)
    BY <1>1 DEF StillRuns, Speaks
  <2> QED
    BY <2>1, AloneKept DEF Inv, Speaks
<1> QED
  BY <1>2, <1>3, <1>4, <1>5 DEF Inv

(* Hearing of a response changes its reply.                                *)
LEMMA HearsFields ==
  ASSUME Inv, NEW t \in Turns, NEW reply \in Reply, Hears(t, reply)
  PROVE  /\ Speaks(t) /\ turns[t].reply \in Reply
         /\ turns'[t].reply = reply
         /\ turns'[t].by = turns[t].by /\ turns'[t].profile = turns[t].profile
<1> DEFINE x == [turns[t] EXCEPT !.reply = reply]
<1>1. turns[t] \in Turn
  BY Numbers DEF Inv
<1>2. /\ x \in Turn /\ x.reply = reply /\ x.state = turns[t].state /\ x.typed = turns[t].typed
      /\ x.meant = turns[t].meant /\ x.at = turns[t].at /\ x.by = turns[t].by
      /\ x.profile = turns[t].profile /\ turns[t].reply \in Reply
  BY <1>1 DEF Turn
<1>3. turns' = [turns EXCEPT ![t] = x]
  BY DEF Hears
<1> HIDE DEF x
<1>4. /\ turns' \in [Turns -> Turn] /\ turns'[t] = x
      /\ \A u \in Turns : u # t => turns'[u] = turns[u]
  BY <1>2, <1>3, SetTurn DEF Inv
<1>5. /\ Calm /\ Running(t)
      /\ UNCHANGED <<scope, sessions, created, active, identity, runs, queue, pending, ui,
                     overlapped, dropped>>
  BY DEF Hears
<1>6. Speaks(t)
  BY <1>2, <1>4, <1>5 DEF Speaks, Running
<1> QED
  BY <1>2, <1>4, <1>6

(* A turn that says no more than before keeps the agents.                  *)
LEMMA SpeaksAgents ==
  ASSUME Inv, NEW t \in Turns, Speaks(t), UNCHANGED <<conv, answers>>,
         Running(t)' => /\ turns'[t].by = turns[t].by /\ turns'[t].profile = turns[t].profile
                        /\ turns'[t].reply.completed = turns[t].reply.completed
  PROVE  Agents'
<1>1. \A s : SameStory(s)
  BY DEF SameStory, Plain, Speaks
<1>2. \A u \in Turns : SameAsked(u)
  <2>1. ASSUME NEW u \in Turns, u # t PROVE SameAsked(u)
    BY <1>1, <2>1 DEF SameAsked, Speaks, Running
  <2>2. SameAsked(t)
    BY <1>1 DEF SameAsked, Speaks
  <2> QED
    BY <2>1, <2>2
<1> QED
  BY <1>1, <1>2, AgentsKept DEF Inv

(* Who answers a running turn, and what identifies the response.           *)
LEMMA IdIsResponse ==
  ASSUME Inv, NEW t \in Turns, Running(t)
  PROVE  Id(t) \in Responses /\ turns[t].by \in Profiles /\ turns[t].at \in sessions
         /\ turns[t].at \in Sessions /\ TurnOK(t) /\ turns[t].reply \in Reply
<1>1. TurnOK(t) /\ turns[t] \in Turn
  BY Numbers DEF Inv, Shape
<1>2. turns[t].by \in Profiles /\ turns[t].at \in sessions
  BY <1>1 DEF TurnOK
<1>3. turns[t].at \in Sessions
  BY <1>2, Numbers DEF Inv, Types
<1> QED
  BY <1>1, <1>2, <1>3 DEF Id, Responses, Turn

LEMMA HearsCreatedStep ==
  ASSUME Inv, NEW t \in Turns, HearsCreated(t)
  PROVE  Inv'
<1>1. PICK reply \in Reply : /\ reply = Created(turns[t].reply, Id(t)) /\ reply.prev = Id(t)
                             /\ reply.completed = turns[t].reply.completed
  <2>1. Running(t)
    BY DEF HearsCreated, Hears
  <2>2. Id(t) \in Responses /\ turns[t].reply \in Reply
    BY <2>1, IdIsResponse
  <2> DEFINE c == Created(turns[t].reply, Id(t))
  <2>3. c \in Reply /\ c.prev = Id(t) /\ c.completed = turns[t].reply.completed
    BY <2>2, CreatedFields
  <2> HIDE DEF c
  <2>4. c = Created(turns[t].reply, Id(t))
    BY DEF c
  <2> QED
    BY <2>3, <2>4
<1>2. Hears(t, reply) /\ UNCHANGED <<conv, answers>>
  BY <1>1 DEF HearsCreated
<1>3. /\ Speaks(t) /\ turns'[t].reply = reply
      /\ turns'[t].by = turns[t].by /\ turns'[t].profile = turns[t].profile
  BY <1>2, HearsFields
<1>4. Agents'
  BY <1>1, <1>2, <1>3, SpeaksAgents
<1> QED
  BY <1>1, <1>2, <1>3, <1>4, SpeaksKept DEF Inv, Types

LEMMA HearsTextStep ==
  ASSUME Inv, NEW t \in Turns, NEW p \in Pieces, HearsText(t, p)
  PROVE  Inv'
<1>1. Running(t) /\ turns[t].reply.prev = Id(t)
  BY DEF HearsText, Hears, Known
<1>2. PICK old \in Reply : old = turns[t].reply
  BY <1>1, IdIsResponse
<1>3. p \in Nat \X Nat /\ <<p>> \in Text /\ p[1] \in Nat
  <2>1. scope.items \in Nat /\ scope.pieces \in Nat
    BY ConsoleAssumption DEF Inv, Types
  <2>2. p \in Nat \X Nat
    BY <2>1 DEF Pieces
  <2> QED
    BY <2>2 DEF Text
<1>4. PICK reply \in Reply : /\ reply = EmitText(old, <<p>>, p[1]) /\ reply.prev = old.prev
                             /\ reply.completed = old.completed
  BY <1>3, EmitTextFields
<1>5. Hears(t, reply) /\ UNCHANGED <<conv, answers>>
  BY <1>2, <1>4 DEF HearsText
<1>6. /\ Speaks(t) /\ turns'[t].reply = reply
      /\ turns'[t].by = turns[t].by /\ turns'[t].profile = turns[t].profile
  BY <1>5, HearsFields
<1>7. Agents'
  BY <1>2, <1>4, <1>5, <1>6, SpeaksAgents
<1> QED
  BY <1>1, <1>2, <1>4, <1>5, <1>6, <1>7, SpeaksKept DEF Inv, Types

(* What a response may be in full is text.                                 *)
LEMMA OutputsType ==
  ASSUME scope \in Scopes, NEW text \in Text, NEW output \in Outputs(text)
  PROVE  output \in Text
<1>1. scope.items \in Nat /\ scope.pieces \in Nat
  BY ConsoleAssumption
<1>2. CASE output = text
  BY <1>2
<1>3. CASE \E p \in (1..scope.items) \X (2..scope.pieces) : output = Append(text, p)
  <2>1. PICK p \in (1..scope.items) \X (2..scope.pieces) : output = Append(text, p)
    BY <1>3
  <2>2. p \in Nat \X Nat
    BY <1>1, <2>1
  <2> QED
    BY <2>1, <2>2 DEF Text
<1>4. CASE \E i \in 2..scope.items : output = text \o <<Separator, <<i, 1>> >>
  <2>1. PICK i \in 2..scope.items : output = text \o <<Separator, <<i, 1>> >>
    BY <1>4
  <2>2. Separator \in Nat \X Nat /\ <<i, 1>> \in Nat \X Nat
    BY <1>1, <2>1 DEF Separator
  <2> DEFINE q == <<i, 1>>
             e == Separator
  <2>3. q \in Nat \X Nat /\ e \in Nat \X Nat /\ output = text \o <<e, q>>
    BY <2>1, <2>2
  <2> HIDE DEF q, e
  <2>4. <<e, q>> \in Seq(Nat \X Nat)
    BY <2>3
  <2> QED
    BY <2>3, <2>4 DEF Text
<1>5. CASE output = << <<1, 1>> >>
  <2> DEFINE q == <<1, 1>>
  <2>1. q \in Nat \X Nat /\ output = <<q>>
    BY <1>5
  <2> HIDE DEF q
  <2> QED
    BY <2>1 DEF Text
<1> QED
  BY <1>2, <1>3, <1>4, <1>5 DEF Outputs

(* The answer is whole: the conversation is bound to who gave it.          *)
LEMMA HearsCompletedStep ==
  ASSUME Inv, NEW t \in Turns, NEW output \in Outputs(turns[t].reply.text),
         HearsCompleted(t, output)
  PROVE  Inv'
<1>1. Running(t)
  BY DEF HearsCompleted, Hears
<1>2. /\ Id(t) \in Responses /\ turns[t].by \in Profiles /\ turns[t].at \in sessions
      /\ turns[t].at \in Sessions /\ TurnOK(t) /\ turns[t].reply \in Reply
  BY <1>1, IdIsResponse
<1>3. PICK a \in Sessions : a = turns[t].at
  BY <1>2
<1>4. PICK b \in Profiles : b = turns[t].by
  BY <1>2
<1>5. output \in Text
  <2>1. turns[t].reply.text \in Text /\ scope \in Scopes
    BY <1>2 DEF Reply, Inv, Types
  <2> QED
    BY <2>1, OutputsType
<1>6. PICK reply \in Reply : /\ reply = Completed(turns[t].reply, Id(t), output)
                             /\ reply.prev = Id(t)
  <2> DEFINE c == Completed(turns[t].reply, Id(t), output)
  <2>1. c \in Reply /\ c.prev = Id(t)
    BY <1>2, <1>5, CompletedFields
  <2> HIDE DEF c
  <2>2. c = Completed(turns[t].reply, Id(t), output)
    BY DEF c
  <2> QED
    BY <2>1, <2>2
<1>7. /\ Hears(t, reply)
      /\ conv' = [conv EXCEPT ![a].bound = b]
      /\ answers' = [answers EXCEPT ![a].agents = @ \union {b}]
  BY <1>3, <1>4, <1>6 DEF HearsCompleted
<1>8. /\ Speaks(t) /\ turns'[t].reply = reply
      /\ turns'[t].by = b /\ turns'[t].profile = turns[t].profile
  BY <1>4, <1>7, HearsFields
<1>9. /\ conv \in [Sessions -> Conversation] /\ answers \in [Sessions -> History]
  BY DEF Inv, Types
<1>10. /\ conv' \in [Sessions -> Conversation]
       /\ conv'[a].bound = b /\ conv'[a].prev = conv[a].prev
       /\ \A s \in Sessions : s # a => conv'[s] = conv[s]
  <2> DEFINE c == [conv[a] EXCEPT !.bound = b]
  <2>1. c \in Conversation /\ c.bound = b /\ c.prev = conv[a].prev
    BY <1>9 DEF Conversation
  <2>2. conv' = [conv EXCEPT ![a] = c]
    BY <1>7
  <2> HIDE DEF c
  <2> QED
    BY <1>9, <2>1, <2>2
<1>11. /\ answers' \in [Sessions -> History]
       /\ answers'[a].agents = answers[a].agents \union {b}
       /\ answers'[a].last = answers[a].last /\ answers'[a].unsigned = answers[a].unsigned
       /\ \A s \in Sessions : s # a => answers'[s] = answers[s]
  <2> DEFINE h == [answers[a] EXCEPT !.agents = @ \union {b}]
  <2>1. /\ h \in History /\ h.agents = answers[a].agents \union {b}
        /\ h.last = answers[a].last /\ h.unsigned = answers[a].unsigned
    BY <1>9 DEF History
  <2>2. answers' = [answers EXCEPT ![a] = h]
    BY <1>7
  <2> HIDE DEF h
  <2> QED
    BY <1>9, <2>1, <2>2
<1>12. \A s \in Sessions : Plain(s)' => Plain(s)
  <2>1. sessions' = sessions /\ overlapped' = overlapped
    BY <1>8 DEF Speaks
  <2> QED
    BY <1>11, <2>1 DEF Plain
<1>13. Agents'
  <2>1. ASSUME NEW s \in Sessions PROVE BoundTo(s)'
    <3>1. CASE s # a
      <4>1. SameStory(s)
        BY <1>10, <1>11, <1>12, <3>1 DEF SameStory
      <4> QED
        BY <4>1, BoundKept DEF Inv, Agents
    <3>2. CASE s = a
      <4>1. BoundTo(a) /\ AskedOf(t)
        BY DEF Inv, Agents
      <4>2. conv'[a].prev = answers'[a].last
        BY <1>10, <1>11, <4>1 DEF BoundTo
      <4>3. ASSUME Plain(a)
            PROVE  /\ answers'[a].agents = {b}
                   /\ conv'[a].prev # None => b = conv'[a].prev[2]
        <5>1. conv[a].bound \in {NoAgent, b}
          BY <1>1, <1>3, <1>4, <4>1, <4>3 DEF AskedOf
        <5>2. /\ answers[a].agents = IF conv[a].bound = NoAgent THEN {} ELSE {conv[a].bound}
              /\ conv[a].prev # None => conv[a].bound = conv[a].prev[2]
          BY <4>1, <4>3 DEF BoundTo
        <5>3. conv[a].prev \in Responses \union {None}
          BY <1>9 DEF Conversation
        <5>4. conv[a].prev # None => conv[a].prev[2] # NoAgent
          BY <5>3, NoneIsNoResponse
        <5> QED
          BY <1>10, <1>11, <5>1, <5>2, <5>4
      <4>4. b # NoAgent
        BY <1>4, NoneIsNoResponse
      <4>5. Plain(a)' => Plain(a)
        BY <1>12
      <4>6. BoundTo(a)'
        BY <1>10, <4>2, <4>3, <4>4, <4>5 DEF BoundTo
      <4> QED
        BY <3>2, <4>6
    <3> QED
      BY <3>1, <3>2
  <2>2. ASSUME NEW u \in Turns, u # t PROVE AskedOf(u)'
    <3>1. CASE Running(u)' /\ turns[u].at = a
      <4>1. turns'[u] = turns[u]
        BY <1>8, <2>2 DEF Speaks
      <4>2. a \in overlapped
        BY <1>1, <1>2, <1>3, <2>2, <3>1, <4>1 DEF Inv, Alone, OneLive, Running
      <4>3. a \in overlapped'
        BY <1>8, <4>2 DEF Speaks
      <4> QED
        BY <3>1, <4>1, <4>3 DEF AskedOf, Plain
    <3>2. CASE Running(u)' /\ turns[u].at # a
      <4>1. turns'[u] = turns[u] /\ Running(u)
        BY <1>8, <2>2, <3>2 DEF Speaks, Running
      <4>2. turns[u].at \in Sessions
        BY <4>1, IdIsResponse
      <4>3. SameAsked(u)
        BY <1>10, <1>11, <1>12, <3>2, <4>1, <4>2 DEF SameAsked, SameStory
      <4> QED
        BY <4>3, AskedKept DEF Inv, Agents
    <3>3. CASE ~Running(u)'
      BY <3>3 DEF AskedOf
    <3> QED
      BY <3>1, <3>2, <3>3
  <2>3. AskedOf(t)'
    <3>1. turns'[t].at = a
      BY <1>3, <1>8 DEF Speaks
    <3>2. OnPlain(t)' => Plain(a)
      BY <1>12, <3>1 DEF OnPlain, Plain
    <3>3. Plain(a) => turns[t].profile \in {NoAgent, b}
      BY <1>1, <1>3, <1>4 DEF Inv, Agents, AskedOf
    <3> QED
      BY <1>8, <1>10, <3>1, <3>2, <3>3 DEF AskedOf, OnPlain
  <2> QED
    BY <2>1, <2>2, <2>3 DEF Agents
<1> QED
  BY <1>3, <1>4, <1>6, <1>8, <1>10, <1>11, <1>13, SpeaksKept

(* The last that is heard of a turn.                                       *)
LEMMA LastFields ==
  ASSUME Inv, NEW t \in Turns, NEW end \in {"error", "finished"}, HearsLast(t, end)
  PROVE  Speaks(t) /\ ~Running(t)'
<1> DEFINE x == Ended(t, end)
<1>1. /\ x \in Turn /\ x.state = "running" /\ x.typed = turns[t].typed
      /\ x.meant = turns[t].meant /\ x.at = turns[t].at /\ x.reply.end = end
  BY EndedFields DEF Inv
<1>2. turns' = [turns EXCEPT ![t] = x]
  BY DEF HearsLast
<1> HIDE DEF x
<1>3. /\ turns' \in [Turns -> Turn] /\ turns'[t] = x
      /\ \A u \in Turns : u # t => turns'[u] = turns[u]
  BY <1>1, <1>2, SetTurn DEF Inv
<1>4. Speaks(t)
  BY <1>1, <1>3 DEF HearsLast, Speaks
<1>5. ~Running(t)'
  BY <1>1, <1>3 DEF Running
<1> QED
  BY <1>4, <1>5

LEMMA HearsFailureStep ==
  ASSUME Inv, NEW t \in Turns, HearsFailure(t)
  PROVE  Inv'
<1>1. Running(t)
  BY DEF HearsFailure, HearsLast
<1>2. StreamFails(turns[t].reply).end = "error"
  BY <1>1, IdIsResponse, EndFields
<1>3. HearsLast(t, "error") /\ UNCHANGED <<conv, answers>>
  BY <1>2 DEF HearsFailure
<1>4. Speaks(t) /\ ~Running(t)'
  BY <1>3, LastFields
<1>5. Agents'
  BY <1>3, <1>4, SpeaksAgents
<1> QED
  BY <1>3, <1>4, <1>5, SpeaksKept DEF Inv, Types

(* A run that finished is what the next turn continues.                    *)
LEMMA HearsEndStep ==
  ASSUME Inv, NEW t \in Turns, HearsEnd(t)
  PROVE  Inv'
<1>1. Running(t)
  BY DEF HearsEnd, HearsLast
<1>2. /\ Id(t) \in Responses /\ turns[t].by \in Profiles /\ turns[t].at \in sessions
      /\ turns[t].at \in Sessions /\ TurnOK(t) /\ turns[t].reply \in Reply
  BY <1>1, IdIsResponse
<1>3. PICK a \in Sessions : a = turns[t].at
  BY <1>2
<1>4. PICK id \in Responses : id = Id(t) /\ id[2] = turns[t].by
  BY <1>2, NoneIsNoResponse DEF Id
<1> DEFINE reply == StreamEnds(turns[t].reply)
<1>5. /\ reply.prev = turns[t].reply.prev /\ reply.completed = turns[t].reply.completed
      /\ reply.end = IF turns[t].reply.frames = <<>> THEN "error" ELSE "finished"
  BY <1>2, EndFields
<1>6. /\ HearsLast(t, reply.end)
      /\ conv' = IF reply.end = "finished" THEN [conv EXCEPT ![a].prev = reply.prev] ELSE conv
      /\ answers' = IF reply.end # "finished" THEN answers
                    ELSE [answers EXCEPT ![a].last = id,
                                         ![a].unsigned = @ \/ ~reply.completed]
  BY <1>3, <1>4 DEF HearsEnd
<1>7. reply.end = "finished" => reply.prev = id
  BY <1>1, <1>2, <1>4, <1>5 DEF TurnOK, Id
<1> HIDE DEF reply
<1>8. reply.end \in {"error", "finished"}
  BY <1>5
<1>9. Speaks(t) /\ ~Running(t)'
  <2>1. PICK end \in {"error", "finished"} : end = reply.end
    BY <1>8
  <2> QED
    BY <1>6, <2>1, LastFields
<1>10. conv \in [Sessions -> Conversation] /\ answers \in [Sessions -> History]
  BY DEF Inv, Types
<1>11. CASE reply.end # "finished"
  <2>1. UNCHANGED <<conv, answers>>
    BY <1>6, <1>11
  <2>2. Agents'
    BY <1>9, <2>1, SpeaksAgents
  <2> QED
    BY <1>9, <1>10, <2>1, <2>2, SpeaksKept
<1>12. CASE reply.end = "finished"
  <2>1. /\ conv' \in [Sessions -> Conversation]
        /\ conv'[a].prev = id /\ conv'[a].bound = conv[a].bound
        /\ \A s \in Sessions : s # a => conv'[s] = conv[s]
    <3> DEFINE c == [conv[a] EXCEPT !.prev = id]
    <3>1. c \in Conversation /\ c.prev = id /\ c.bound = conv[a].bound
      BY <1>10 DEF Conversation
    <3>2. conv' = [conv EXCEPT ![a] = c]
      BY <1>6, <1>7, <1>12
    <3> HIDE DEF c
    <3> QED
      BY <1>10, <3>1, <3>2
  <2>2. /\ answers' \in [Sessions -> History]
        /\ answers'[a].last = id /\ answers'[a].agents = answers[a].agents
        /\ answers'[a].unsigned = (answers[a].unsigned \/ ~reply.completed)
        /\ \A s \in Sessions : s # a => answers'[s] = answers[s]
    <3> DEFINE h == [answers[a] EXCEPT !.last = id, !.unsigned = @ \/ ~reply.completed]
    <3>1. answers[a] \in History /\ reply.completed \in BOOLEAN
      BY <1>2, <1>5, <1>10 DEF Reply
    <3>2. /\ h \in History /\ h.last = id /\ h.agents = answers[a].agents
          /\ h.unsigned = (answers[a].unsigned \/ ~reply.completed)
      BY <3>1 DEF History
    <3>3. answers' = [answers EXCEPT ![a] = h]
      BY <1>6, <1>10, <1>12
    <3> HIDE DEF h
    <3> QED
      BY <1>10, <3>2, <3>3
  <2>3. \A s \in Sessions : Plain(s)' => Plain(s)
    BY <1>9, <2>2 DEF Plain, Speaks
  <2>4. ASSUME NEW s \in Sessions, s # a PROVE SameStory(s)
    BY <2>1, <2>2, <2>3, <2>4 DEF SameStory
  <2>5. BoundTo(a)'
    <3>1. BoundTo(a) /\ AskedOf(t)
      BY DEF Inv, Agents
    <3>2. ASSUME Plain(a)'
          PROVE  /\ answers'[a].agents = IF conv'[a].bound = NoAgent THEN {} ELSE {conv'[a].bound}
                 /\ conv'[a].bound = conv'[a].prev[2]
      <4>1. Plain(a) /\ reply.completed
        BY <2>2, <2>3, <3>2 DEF Plain
      <4>2. conv[a].bound = turns[t].by
        BY <1>1, <1>3, <1>5, <3>1, <4>1 DEF AskedOf
      <4>3. answers[a].agents = IF conv[a].bound = NoAgent THEN {} ELSE {conv[a].bound}
        BY <3>1, <4>1 DEF BoundTo
      <4> QED
        BY <1>4, <2>1, <2>2, <4>2, <4>3
    <3> QED
      BY <2>1, <2>2, <3>2 DEF BoundTo
  <2>6. \A s \in Sessions : BoundTo(s)'
    BY <2>4, <2>5, BoundKept DEF Inv, Agents
  <2>7. ASSUME NEW u \in Turns PROVE AskedOf(u)'
    <3>1. CASE Running(u)'
      <4>1. u # t /\ turns'[u] = turns[u] /\ Running(u)
        BY <1>9, <3>1 DEF Speaks, Running
      <4>2. turns[u].at \in Sessions
        BY <4>1, IdIsResponse
      <4>3. conv'[turns[u].at].bound = conv[turns[u].at].bound
        BY <2>1, <4>2
      <4>4. OnPlain(u)' => Plain(turns[u].at)
        BY <2>3, <4>1, <4>2 DEF OnPlain, Plain
      <4>5. AskedOf(u)
        BY DEF Inv, Agents
      <4> QED
        BY <4>1, <4>3, <4>4, <4>5 DEF AskedOf, OnPlain
    <3>2. CASE ~Running(u)'
      BY <3>2 DEF AskedOf
    <3> QED
      BY <3>1, <3>2
  <2>8. Agents'
    BY <2>6, <2>7 DEF Agents
  <2> QED
    BY <1>3, <1>9, <2>1, <2>2, <2>8, SpeaksKept
<1> QED
  BY <1>11, <1>12

-----------------------------------------------------------------------------
(* The invariant holds                                                     *)

LEMMA InitInv ==
  ASSUME Init
  PROVE  Inv
<1>1. NewConversation \in Conversation /\ Unanswered \in History
  BY ConsoleAssumption DEF NewConversation, Conversation, Unanswered, History
<1>2. /\ NoTurn \in Turn /\ NoTurn.state = "unused" /\ NoTurn.at = 0 /\ NoTurn.meant = 0
  BY NoTurnFields
<1> DEFINE x == NoTurn
<1>3. /\ scope \in Scopes /\ sessions = {1} /\ created = 1 /\ active = 1 /\ identity = FALSE
      /\ runs = {} /\ queue = <<>> /\ pending = 0 /\ overlapped = {} /\ dropped = FALSE
      /\ conv = [s \in Sessions |-> NewConversation]
      /\ answers = [s \in Sessions |-> Unanswered]
      /\ turns = [t \in Turns |-> x]
      /\ ui = [seen |-> {}, dirty |-> FALSE, due |-> FALSE, urgent |-> "no"]
  BY DEF Init
<1> HIDE DEF x
<1>4. /\ x \in Turn /\ x.state = "unused" /\ x.at = 0 /\ x.meant = 0
  BY <1>2 DEF x
<1>5. \A t \in Turns : turns[t] = x /\ t # 0 /\ t \in Nat
  BY <1>3 DEF Turns
<1>6. Types
  <2>1. turns \in [Turns -> Turn]
    BY <1>3, <1>4
  <2>2. conv \in [Sessions -> Conversation] /\ answers \in [Sessions -> History]
    BY <1>1, <1>3
  <2>3. ui \in UIState
    BY <1>3 DEF UIState
  <2>4. created \in Sessions /\ sessions \subseteq 1..created /\ runs \subseteq 1..created
    BY <1>3, ConsoleAssumption DEF Sessions
  <2>5. queue \in Seq(Turns)
    BY <1>3
  <2>6. /\ scope \in Scopes /\ active \in sessions /\ identity \in BOOLEAN /\ dropped \in BOOLEAN
        /\ overlapped \subseteq Sessions /\ pending \in {0} \union Turns
    BY <1>3
  <2> QED
    BY <2>1, <2>2, <2>3, <2>4, <2>5, <2>6 DEF Types
<1>7. Shape
  <2>1. InOrder
    <3>1. 0 \in 0..MaxTurns
      BY ConsoleAssumption
    <3>2. \A t \in Turns : ~(t <= 0)
      BY <1>5
    <3> QED
      BY <1>4, <1>5, <3>1, <3>2 DEF InOrder
  <2>2. ASSUME NEW t \in Turns PROVE TurnOK(t)
    <3>1. ~InQueue(t)
      BY <1>3 DEF InQueue
    <3>2. /\ turns[t].state = "unused" /\ turns[t].at = 0 /\ turns[t].meant = 0
          /\ t # pending /\ created = 1
      BY <1>3, <1>4, <1>5
    <3> QED
      BY <3>1, <3>2 DEF TurnOK, Running
  <2>3. \A s \in Sessions : conv[s] = NewConversation /\ answers[s] = Unanswered
    BY <1>3
  <2> QED
    BY <1>3, <2>1, <2>2, <2>3 DEF Shape
<1>8. Waiting
  BY <1>3 DEF Waiting
<1>9. Alone
  BY <1>4, <1>5 DEF Alone, OneLive, TypedSeen
<1>10. Agents
  <2>1. \A s \in Sessions : conv[s] = NewConversation /\ answers[s] = Unanswered
    BY <1>3
  <2>2. \A s \in Sessions : BoundTo(s)
    BY <2>1 DEF BoundTo, NewConversation, Unanswered
  <2>3. \A t \in Turns : AskedOf(t)
    BY <1>4, <1>5 DEF AskedOf, Running
  <2> QED
    BY <2>2, <2>3 DEF Agents
<1> QED
  BY <1>6, <1>7, <1>8, <1>9, <1>10 DEF Inv

LEMMA StutterInv ==
  ASSUME Inv, UNCHANGED vars
  PROVE  Inv'
<1>1. Types' /\ Waiting'
  BY DEF Inv, Types, Waiting, vars, storeVars, history
<1>2. Quiet
  BY Numbers DEF Inv, Quiet, vars, storeVars, history
<1> QED
  BY <1>1, <1>2, QuietKept

LEMMA AnswerInv ==
  ASSUME Inv, NEW t \in Turns, Answer(t)
  PROVE  Inv'
BY HearsCreatedStep, HearsTextStep, HearsCompletedStep, HearsEndStep, HearsFailureStep DEF Answer

LEMMA UserInv ==
  ASSUME Inv, User
  PROVE  Inv'
BY SubmitStep, RecordStep, CreateStep, ChooseStep, MentionStep, MentionAnotherStep, SelectStep,
   DeleteStep DEF User

LEMMA NextInv ==
  ASSUME Inv, [Next]_vars
  PROVE  Inv'
<1>1. CASE User
  BY <1>1, UserInv
<1>2. CASE View
  BY <1>2, RenderStep, PendingEffectStep, VoiceEffectStep DEF View
<1>3. CASE Identified \/ IdentityUnknown
  BY <1>3, IdentifiedStep, IdentityUnknownStep
<1>4. ASSUME NEW t \in Turns, Transcript(t) \/ RecordingFails(t) \/ Answer(t) \/ RunSettles(t)
      PROVE  Inv'
  BY <1>4, TranscriptStep, RecordingFailsStep, AnswerInv, RunSettlesStep
<1>5. CASE UNCHANGED vars
  BY <1>5, StutterInv
<1> QED
  BY <1>1, <1>2, <1>3, <1>4, <1>5 DEF Next

LEMMA Invariance == Spec => []Inv
<1>1. Init => Inv
  BY InitInv
<1>2. Inv /\ [Next]_vars => Inv'
  BY NextInv
<1> QED
  BY <1>1, <1>2, PTL DEF Spec

-----------------------------------------------------------------------------
(* What it says                                                            *)

(* Each turn runs in the conversation it was meant for, alone unless a     *)
(* turn was sent by no key press, and while this conversation exists,      *)
(* whatever is selected, created, deleted or spoken meanwhile, page.tsx    *)
(* and session-runs.ts.                                                    *)
THEOREM TurnsTheorem == Spec => []TurnsKeepTheirConversation
<1>1. ASSUME Inv PROVE TypeOK
  <2>1. /\ sessions \subseteq 1..created /\ created \in Sessions /\ active \in sessions
        /\ identity \in BOOLEAN /\ pending \in {0} \union Turns /\ runs \subseteq Sessions
    BY <1>1, Numbers DEF Inv, Types
  <2>2. ASSUME NEW s \in Sessions
        PROVE  /\ conv[s].prev \in Responses \union {None}
               /\ {conv[s].bound, conv[s].wanted} \subseteq Profiles \union {NoAgent}
    BY <1>1 DEF Inv, Types, Conversation
  <2>3. ASSUME NEW t \in Turns
        PROVE  /\ turns[t].state \in States /\ turns[t].meant \in {0} \union Sessions
               /\ turns[t].state = "queued" <=> t \in ToSet(queue)
    <3>1. turns[t] \in Turn /\ TurnOK(t) /\ created \in Nat
      BY <1>1, Numbers DEF Inv, Shape
    <3>2. turns[t].meant \in 0..created
      BY <3>1 DEF TurnOK
    <3>3. turns[t].meant = 0 \/ turns[t].meant \in 1..created
      BY <3>1, <3>2
    <3>4. turns[t].meant \in {0} \union Sessions
      BY <1>1, <3>3, Numbers DEF Inv
    <3>5. t \in ToSet(queue) <=> InQueue(t)
      <4>1. queue \in Seq(Turns)
        BY <1>1 DEF Inv, Types
      <4> QED
        BY <4>1 DEF ToSet, InQueue
    <3> QED
      BY <3>1, <3>4, <3>5 DEF Turn, TurnOK
  <2>4. ui \in [seen : SUBSET Sessions, dirty : BOOLEAN, due : BOOLEAN,
                urgent : {"no", "flush", "commit"}]
    BY <1>1 DEF Inv, Types, UIState
  <2> QED
    BY <2>1, <2>2, <2>3, <2>4 DEF TypeOK
<1>2. ASSUME Inv PROVE OwnConversation /\ RunsHaveConversations
  BY <1>2 DEF Inv, Shape, TurnOK, OwnConversation, RunsHaveConversations
<1>3. ASSUME Inv PROVE OneRunPerConversation
  <2> SUFFICES ASSUME NEW t \in Turns, NEW u \in Turns, t # u, Running(t), Running(u),
                      turns[t].at = turns[u].at
               PROVE  turns[t].at \in overlapped
    BY DEF OneRunPerConversation
  <2>1. turns[t].at \in sessions
    BY <1>3 DEF Inv, Shape, TurnOK
  <2> QED
    BY <1>3, <2>1 DEF Inv, Alone, OneLive, Running
<1>4. Inv => TurnsKeepTheirConversation
  BY <1>1, <1>2, <1>3 DEF TurnsKeepTheirConversation
<1> QED
  BY <1>4, Invariance, PTL

(* A conversation is continued from its last finished answer, and as long  *)
(* as it answered one turn at a time and each answer came to its end, one  *)
(* agent gave them all, and it is the one a turn was addressed to,         *)
(* sessions.ts and page.tsx.                                               *)
THEOREM ConversationTheorem == Spec => []ConversationGoesOn
<1>1. ASSUME Inv PROVE ContinuesLastAnswer
  BY <1>1, Numbers DEF Inv, Types, Agents, BoundTo, ContinuesLastAnswer
<1>2. ASSUME Inv PROVE AgentKept
  <2>1. ASSUME NEW s \in sessions \ overlapped, ~answers[s].unsigned
        PROVE  Cardinality(answers[s].agents) <= 1
    <3>1. BoundTo(s) /\ Plain(s)
      BY <1>2, <2>1, Numbers DEF Inv, Types, Agents, Plain
    <3>2. answers[s].agents = {} \/ answers[s].agents = {conv[s].bound}
      BY <3>1 DEF BoundTo
    <3>3. Cardinality({}) = 0 /\ Cardinality({conv[s].bound}) = 1
      BY FS_EmptySet, FS_Singleton
    <3> QED
      BY <3>2, <3>3
  <2>2. ASSUME NEW t \in Turns, Running(t), ~answers[turns[t].at].unsigned,
               turns[t].at \notin overlapped
        PROVE  turns[t].profile \in {NoAgent, turns[t].by}
    <3>1. turns[t].at \in sessions /\ AskedOf(t)
      BY <1>2, <2>2 DEF Inv, Shape, TurnOK, Agents
    <3> QED
      BY <2>2, <3>1 DEF AskedOf, Plain
  <2> QED
    BY <2>1, <2>2 DEF AgentKept
<1>3. Inv => ConversationGoesOn
  BY <1>1, <1>2 DEF ConversationGoesOn
<1> QED
  BY <1>3, Invariance, PTL

-----------------------------------------------------------------------------
(* Text                                                                    *)

LEMMA Counting ==
  ASSUME NEW S, 0 \in S, \A n \in Nat : n \in S => n + 1 \in S
  PROVE  Nat \subseteq S
<1> DEFINE R == Nat \ S
<1>1. SUFFICES ASSUME R # {} PROVE FALSE
  OBVIOUS
<1>2. PICK n \in R : \A m \in R : <<m, n>> \notin OpToRel(<, Nat)
  BY <1>1, NatLessThanWellFounded, WFMin
<1>3. \A m \in R : ~(m < n)
  BY <1>2 DEF OpToRel
<1>4. n # 0 /\ n - 1 \in Nat /\ n - 1 \in S
  BY <1>3
<1> QED
  BY <1>4

LEMMA Joined ==
  ASSUME NEW T, NEW a \in Seq(T), NEW b \in Seq(T), NEW c \in Seq(T)
  PROVE  a \o (b \o c) = (a \o b) \o c
BY ConcatAssociative

(* A function that is defined step by step exists.                         *)
Unfolds(f, x, n, G) ==
  f[0] = x /\ \A i \in 1..n : f[i] = G[<<f[i - 1], i>>]

LEMMA StepwiseExists ==
  ASSUME NEW X, NEW x \in X, NEW N \in Nat, NEW G \in [X \X (1..N) -> X]
  PROVE  \E f \in [0..N -> X] : Unfolds(f, x, N, G)
<1> DEFINE S == {n \in Nat : n <= N => \E f \in [0..n -> X] : Unfolds(f, x, n, G)}
<1>1. 0 \in S
  <2>1. [i \in 0..0 |-> x] \in [0..0 -> X] /\ Unfolds([i \in 0..0 |-> x], x, 0, G)
    BY DEF Unfolds
  <2> QED
    BY <2>1
<1>2. ASSUME NEW n \in Nat, n \in S PROVE n + 1 \in S
  <2>1. SUFFICES ASSUME n + 1 <= N PROVE \E f \in [0..(n + 1) -> X] : Unfolds(f, x, n + 1, G)
    BY DEF S
  <2>2. PICK f \in [0..n -> X] : Unfolds(f, x, n, G)
    BY <1>2, <2>1
  <2> DEFINE h == [i \in 0..(n + 1) |-> IF i = n + 1 THEN G[<<f[n], n + 1>>] ELSE f[i]]
  <2>3. G[<<f[n], n + 1>>] \in X
    BY <2>1
  <2>4. h \in [0..(n + 1) -> X]
    BY <2>3
  <2>5. h[0] = x
    BY <2>2 DEF Unfolds
  <2>6. ASSUME NEW i \in 1..(n + 1) PROVE h[i] = G[<<h[i - 1], i>>]
    <3>1. CASE i = n + 1
      <4>1. h[i - 1] = f[n] /\ h[i] = G[<<f[n], n + 1>>]
        BY <3>1
      <4> QED
        BY <3>1, <4>1
    <3>2. CASE i # n + 1
      <4>1. i \in 1..n /\ h[i - 1] = f[i - 1] /\ h[i] = f[i]
        BY <3>2
      <4> QED
        BY <2>2, <4>1 DEF Unfolds
    <3> QED
      BY <3>1, <3>2
  <2>7. Unfolds(h, x, n + 1, G)
    BY <2>5, <2>6 DEF Unfolds
  <2> QED
    BY <2>4, <2>7
<1>3. Nat \subseteq S
  <2> HIDE DEF S
  <2> QED
    BY <1>1, <1>2, Counting
<1>4. N \in S
  BY <1>3
<1> QED
  BY <1>4

(* Texts one after the other.                                              *)
LEMMA FlattenBy ==
  ASSUME NEW T, NEW ss \in Seq(Seq(T)), Len(ss) # 0
  PROVE  \E flat : /\ FlattenSeq(ss) = flat[Len(ss)]
                   /\ \A i \in 1..Len(ss) :
                        /\ flat[i] \in Seq(T)
                        /\ flat[i] = IF i = 1 THEN ss[i] ELSE flat[i - 1] \o ss[i]
<1> DEFINE N == Len(ss)
           F(g) == [i \in 1..N |-> IF i = 1 THEN ss[i] ELSE g[i-1] \o ss[i]]
           flat == CHOOSE g : g = F(g)
           G == [p \in Seq(T) \X (1..N) |-> p[1] \o ss[p[2]]]
<1>1. FlattenSeq(ss) = flat[N]
  BY DEF FlattenSeq
<1>2. G \in [Seq(T) \X (1..N) -> Seq(T)] /\ N \in Nat /\ <<>> \in Seq(T)
  OBVIOUS
<1>3. PICK f \in [0..N -> Seq(T)] : Unfolds(f, <<>>, N, G)
  <2> HIDE DEF G, N
  <2> QED
    BY <1>2, StepwiseExists
<1>4. ASSUME NEW i \in 1..N
      PROVE  f[i - 1] \in Seq(T) /\ ss[i] \in Seq(T) /\ f[i] = f[i - 1] \o ss[i]
  <2>1. i - 1 \in 0..N /\ ss[i] \in Seq(T)
    BY <1>2
  <2>2. f[i - 1] \in Seq(T)
    BY <2>1, <1>3
  <2>3. f[i] = G[<<f[i - 1], i>>]
    BY <1>3 DEF Unfolds
  <2>4. G[<<f[i - 1], i>>] = f[i - 1] \o ss[i]
    BY <2>2
  <2> QED
    BY <2>1, <2>2, <2>3, <2>4
<1>5. f[0] = <<>>
  BY <1>3 DEF Unfolds
<1> DEFINE g == [i \in 1..N |-> f[i]]
<1>6. g = F(g)
  <2>1. ASSUME NEW i \in 1..N PROVE g[i] = F(g)[i]
    <3>1. CASE i = 1
      <4>1. f[i - 1] = <<>>
        BY <3>1, <1>5
      <4>2. f[i] = <<>> \o ss[i] /\ ss[i] \in Seq(T)
        BY <4>1, <1>4
      <4>3. f[i] = ss[i]
        BY <4>2
      <4> QED
        BY <3>1, <4>3
    <3>2. CASE i # 1
      <4>1. i - 1 \in 1..N
        BY <3>2
      <4>2. g[i - 1] = f[i - 1]
        BY <4>1
      <4> QED
        BY <3>2, <4>2, <1>4
    <3> QED
      BY <3>1, <3>2
  <2> QED
    BY <2>1
<1>7. flat = F(flat)
  <2> HIDE DEF F, g
  <2> QED
    BY <1>6
<1>8. \A i \in 1..N : flat[i] = IF i = 1 THEN ss[i] ELSE flat[i-1] \o ss[i]
  <2> HIDE DEF flat
  <2> QED
    BY <1>7
<1> HIDE DEF flat, G, g, F
<1> DEFINE S == {n \in Nat : n \in 1..N => flat[n] \in Seq(T)}
<1>9. 0 \in S
  OBVIOUS
<1>10. ASSUME NEW n \in Nat, n \in S PROVE n + 1 \in S
  <2>1. SUFFICES ASSUME n + 1 \in 1..N PROVE flat[n + 1] \in Seq(T)
    OBVIOUS
  <2>2. ss[n + 1] \in Seq(T)
    BY <2>1
  <2>3. CASE n = 0
    BY <2>1, <2>2, <2>3, <1>8
  <2>4. CASE n # 0
    <3>1. n \in 1..N /\ flat[n] \in Seq(T)
      BY <2>1, <2>4, <1>10
    <3>2. flat[n + 1] = flat[n] \o ss[n + 1]
      <4>1. n + 1 # 1 /\ (n + 1) - 1 = n
        BY <2>4
      <4> QED
        BY <2>1, <4>1, <1>8
    <3> QED
      BY <3>1, <3>2, <2>2
  <2> QED
    BY <2>3, <2>4
<1>11. Nat \subseteq S
  <2> HIDE DEF S
  <2> QED
    BY <1>9, <1>10, Counting
<1>12. \A n \in 1..N : flat[n] \in Seq(T)
  BY <1>11, <1>2
<1> QED
  BY <1>1, <1>8, <1>12

(* Texts that agree but for the end of the last one.                       *)
LEMMA FlattenGrown ==
  ASSUME NEW T, NEW ss \in Seq(Seq(T)), NEW tt \in Seq(Seq(T)), NEW d \in Seq(T), Len(tt) # 0,
         \/ /\ Len(tt) = Len(ss) /\ tt[Len(tt)] = ss[Len(tt)] \o d
         \/ /\ Len(tt) = Len(ss) + 1 /\ tt[Len(tt)] = d,
         \A i \in 1..(Len(tt) - 1) : tt[i] = ss[i]
  PROVE  FlattenSeq(tt) = FlattenSeq(ss) \o d /\ FlattenSeq(ss) \in Seq(T)
<1> DEFINE n == Len(tt)
           m == Len(ss)
<1>1. n \in Nat /\ m \in Nat /\ n \in 1..n
  OBVIOUS
<1>2. PICK g : /\ FlattenSeq(tt) = g[n]
               /\ \A i \in 1..n : /\ g[i] \in Seq(T)
                                  /\ g[i] = IF i = 1 THEN tt[i] ELSE g[i - 1] \o tt[i]
  BY FlattenBy
<1>3. CASE m = 0
  <2>1. ss = <<>> /\ FlattenSeq(ss) = <<>>
    BY <1>3 DEF FlattenSeq
  <2>2. n = 1 /\ tt[1] = d /\ g[1] = d
    BY <1>1, <1>2, <1>3
  <2>3. FlattenSeq(tt) = d
    BY <1>2, <2>2
  <2>4. <<>> \o d = d /\ <<>> \in Seq(T)
    OBVIOUS
  <2> QED
    BY <2>1, <2>3, <2>4
<1>4. CASE m # 0
  <2>1. PICK f : /\ FlattenSeq(ss) = f[m]
                 /\ \A i \in 1..m : /\ f[i] \in Seq(T)
                                    /\ f[i] = IF i = 1 THEN ss[i] ELSE f[i - 1] \o ss[i]
    BY <1>4, FlattenBy
  <2>2. m \in 1..m
    BY <1>1, <1>4
  <2>3. f[m] \in Seq(T)
    BY <2>1, <2>2
  <2> DEFINE S == {k \in Nat : k \in 1..(n - 1) => g[k] = f[k]}
  <2>4. 0 \in S
    OBVIOUS
  <2>5. ASSUME NEW k \in Nat, k \in S PROVE k + 1 \in S
    <3>1. SUFFICES ASSUME k + 1 \in 1..(n - 1) PROVE g[k + 1] = f[k + 1]
      OBVIOUS
    <3>2. k + 1 \in 1..n /\ k + 1 \in 1..m /\ tt[k + 1] = ss[k + 1]
      <4>1. n = m \/ n = m + 1
        OBVIOUS
      <4>2. tt[k + 1] = ss[k + 1]
        BY <3>1
      <4> HIDE DEF n, m
      <4>3. k + 1 \in 1..n /\ k + 1 \in 1..m
        BY <1>1, <3>1, <4>1
      <4> QED
        BY <4>2, <4>3
    <3>3. g[k + 1] = IF k + 1 = 1 THEN tt[k + 1] ELSE g[(k + 1) - 1] \o tt[k + 1]
      BY <1>2, <3>2
    <3>4. f[k + 1] = IF k + 1 = 1 THEN ss[k + 1] ELSE f[(k + 1) - 1] \o ss[k + 1]
      BY <2>1, <3>2
    <3>5. k + 1 # 1 => g[(k + 1) - 1] = f[(k + 1) - 1]
      BY <1>1, <2>5, <3>1
    <3> QED
      BY <3>2, <3>3, <3>4, <3>5
  <2>6. Nat \subseteq S
    <3> HIDE DEF S
    <3> QED
      BY <2>4, <2>5, Counting
  <2>7. \A k \in 1..(n - 1) : g[k] = f[k]
    BY <1>1, <2>6
  <2>8. g[n] = IF n = 1 THEN tt[n] ELSE g[n - 1] \o tt[n]
    BY <1>1, <1>2
  <2>9. f[m] = IF m = 1 THEN ss[m] ELSE f[m - 1] \o ss[m]
    BY <2>1, <2>2
  <2>10. CASE n = m + 1
    <3>1. tt[n] = d
      BY <1>1, <2>10
    <3>2. n # 1 /\ n - 1 = m /\ n - 1 \in 1..(n - 1)
      BY <1>1, <1>4, <2>10
    <3>3. g[n - 1] = f[m]
      BY <2>7, <3>2
    <3> QED
      BY <1>2, <2>1, <2>3, <2>8, <3>1, <3>2, <3>3
  <2>11. CASE n = m
    <3>1. tt[n] = ss[n] \o d
      BY <1>1, <2>11
    <3>2. ss[n] \in Seq(T)
      BY <2>2, <2>11
    <3>3. CASE n = 1
      BY <1>2, <2>1, <2>3, <2>8, <2>9, <2>11, <3>1, <3>3
    <3>4. CASE n # 1
      <4>1. n - 1 \in 1..(n - 1) /\ n - 1 \in 1..m
        BY <1>1, <2>11, <3>4
      <4>2. g[n - 1] = f[n - 1] /\ f[n - 1] \in Seq(T)
        BY <2>1, <2>7, <4>1
      <4>3. g[n] = f[n - 1] \o (ss[n] \o d)
        BY <2>8, <3>1, <3>4, <4>2
      <4>4. f[m] = f[n - 1] \o ss[n]
        BY <2>9, <2>11, <3>4
      <4> DEFINE a == f[n - 1]
                 b == ss[n]
      <4>5. a \in Seq(T) /\ b \in Seq(T)
        BY <3>2, <4>2
      <4> HIDE DEF a, b
      <4>6. a \o (b \o d) = (a \o b) \o d
        BY <4>5, Joined
      <4> QED
        BY <1>2, <2>1, <2>3, <4>3, <4>4, <4>6 DEF a, b
    <3> QED
      BY <3>3, <3>4
  <2> QED
    BY <1>1, <2>10, <2>11
<1> QED
  BY <1>3, <1>4

Piece == Nat \X Nat

(* What is spoken of a text, step by step.                                 *)
LEMMA SpokenBy ==
  ASSUME NEW text \in Seq(Piece)
  PROVE  \E f : /\ Spoken(text) = f[Len(text)]
                /\ f[0] = <<>>
                /\ \A k \in 0..Len(text) : f[k] \in Seq(Piece)
                /\ \A k \in 1..Len(text) :
                     f[k] = IF text[k] = Separator THEN f[k - 1] ELSE Append(f[k - 1], text[k])
<1> DEFINE N == Len(text)
           F(g) == [k \in 0..N |->
                     IF k = 0 THEN <<>>
                     ELSE IF text[k] = Separator THEN g[k - 1] ELSE Append(g[k - 1], text[k])]
           spoken == CHOOSE g : g = F(g)
           G == [p \in Seq(Piece) \X (1..N) |->
                  IF text[p[2]] = Separator THEN p[1] ELSE Append(p[1], text[p[2]])]
<1>1. Spoken(text) = spoken[N]
  BY DEF Spoken
<1>2. N \in Nat /\ <<>> \in Seq(Piece) /\ \A k \in 1..N : text[k] \in Piece
  OBVIOUS
<1>3. G \in [Seq(Piece) \X (1..N) -> Seq(Piece)]
  <2> SUFFICES ASSUME NEW s \in Seq(Piece), NEW k \in 1..N
               PROVE  (IF text[k] = Separator THEN s ELSE Append(s, text[k])) \in Seq(Piece)
    OBVIOUS
  <2>1. PICK q \in Piece : q = text[k]
    BY <1>2
  <2>2. Append(s, q) \in Seq(Piece)
    OBVIOUS
  <2> QED
    BY <2>1, <2>2
<1>4. PICK f \in [0..N -> Seq(Piece)] : Unfolds(f, <<>>, N, G)
  <2> HIDE DEF G, N
  <2> QED
    BY <1>2, <1>3, StepwiseExists
<1>5. f[0] = <<>>
  BY <1>4 DEF Unfolds
<1>6. ASSUME NEW k \in 1..N
      PROVE  f[k] = IF text[k] = Separator THEN f[k - 1] ELSE Append(f[k - 1], text[k])
  <2>1. k - 1 \in 0..N
    BY <1>2
  <2>2. f[k - 1] \in Seq(Piece)
    BY <2>1, <1>4
  <2>3. f[k] = G[<<f[k - 1], k>>]
    BY <1>4 DEF Unfolds
  <2>4. G[<<f[k - 1], k>>] =
          IF text[k] = Separator THEN f[k - 1] ELSE Append(f[k - 1], text[k])
    BY <2>2
  <2> QED
    BY <2>3, <2>4
<1>7. f = F(f)
  <2>1. ASSUME NEW k \in 0..N PROVE f[k] = F(f)[k]
    <3>1. CASE k = 0
      BY <3>1, <1>5
    <3>2. CASE k # 0
      <4>1. k \in 1..N
        BY <1>2, <3>2
      <4> QED
        BY <3>2, <4>1, <1>6
    <3> QED
      BY <3>1, <3>2
  <2>2. f \in [0..N -> Seq(Piece)]
    BY <1>4
  <2> QED
    BY <2>1, <2>2
<1>8. spoken = F(spoken)
  <2> HIDE DEF F
  <2> QED
    BY <1>7
<1>9. \A k \in 0..N : spoken[k] =
        IF k = 0 THEN <<>>
        ELSE IF text[k] = Separator THEN spoken[k - 1] ELSE Append(spoken[k - 1], text[k])
  <2> HIDE DEF spoken
  <2> QED
    BY <1>8
<1> HIDE DEF spoken, G, F
<1> DEFINE S == {k \in Nat : k \in 0..N => spoken[k] = f[k]}
<1>10. 0 \in S
  BY <1>2, <1>5, <1>9
<1>11. ASSUME NEW k \in Nat, k \in S PROVE k + 1 \in S
  <2>1. SUFFICES ASSUME k + 1 \in 0..N PROVE spoken[k + 1] = f[k + 1]
    OBVIOUS
  <2>2. k + 1 \in 1..N /\ k \in 0..N /\ (k + 1) - 1 = k /\ k + 1 # 0
    BY <1>2, <2>1
  <2>3. spoken[k] = f[k]
    BY <1>11, <2>2
  <2> QED
    BY <2>1, <2>2, <2>3, <1>6, <1>9
<1>12. Nat \subseteq S
  <2> HIDE DEF S
  <2> QED
    BY <1>10, <1>11, Counting
<1>13. spoken[N] = f[N]
  BY <1>2, <1>12
<1>14. \A k \in 0..N : f[k] \in Seq(Piece)
  BY <1>4
<1> QED
  BY <1>1, <1>5, <1>6, <1>13, <1>14

(* Nothing is spoken twice, and nothing is left out.                       *)
LEMMA SpokenJoined ==
  ASSUME NEW a \in Seq(Piece), NEW b \in Seq(Piece)
  PROVE  /\ Spoken(a \o b) = Spoken(a) \o Spoken(b)
         /\ Spoken(a) \in Seq(Piece) /\ Spoken(b) \in Seq(Piece)
<1> DEFINE m == Len(a)
           n == Len(b)
           c == a \o b
<1>1. m \in Nat /\ n \in Nat /\ c \in Seq(Piece) /\ Len(c) = m + n
  OBVIOUS
<1>2. \A k \in 1..m : c[k] = a[k]
  OBVIOUS
<1>3. \A k \in 1..n : c[m + k] = b[k]
  BY ConcatProperties
<1>4. \A k \in 1..n : b[k] \in Piece
  OBVIOUS
<1>5. PICK f : /\ Spoken(a) = f[m]
               /\ f[0] = <<>>
               /\ \A k \in 0..m : f[k] \in Seq(Piece)
               /\ \A k \in 1..m :
                    f[k] = IF a[k] = Separator THEN f[k - 1] ELSE Append(f[k - 1], a[k])
  BY SpokenBy
<1>6. PICK g : /\ Spoken(b) = g[n]
               /\ g[0] = <<>>
               /\ \A k \in 0..n : g[k] \in Seq(Piece)
               /\ \A k \in 1..n :
                    g[k] = IF b[k] = Separator THEN g[k - 1] ELSE Append(g[k - 1], b[k])
  BY SpokenBy
<1> HIDE DEF c
<1>7. PICK h : /\ Spoken(c) = h[Len(c)]
               /\ h[0] = <<>>
               /\ \A k \in 0..Len(c) : h[k] \in Seq(Piece)
               /\ \A k \in 1..Len(c) :
                    h[k] = IF c[k] = Separator THEN h[k - 1] ELSE Append(h[k - 1], c[k])
  BY <1>1, SpokenBy
<1> HIDE DEF m, n
<1> DEFINE S == {k \in Nat : k \in 0..m => h[k] = f[k]}
<1>8. 0 \in S
  BY <1>5, <1>7
<1>9. ASSUME NEW k \in Nat, k \in S PROVE k + 1 \in S
  <2>1. SUFFICES ASSUME k + 1 \in 0..m PROVE h[k + 1] = f[k + 1]
    OBVIOUS
  <2>2. k + 1 \in 1..m /\ k + 1 \in 1..Len(c) /\ k \in 0..m /\ (k + 1) - 1 = k
    BY <1>1, <2>1
  <2>3. h[k] = f[k] /\ c[k + 1] = a[k + 1]
    BY <1>2, <1>9, <2>2
  <2> QED
    BY <1>5, <1>7, <2>2, <2>3
<1>10. Nat \subseteq S
  <2> HIDE DEF S
  <2> QED
    BY <1>8, <1>9, Counting
<1>11. h[m] = f[m] /\ f[m] \in Seq(Piece) /\ g[n] \in Seq(Piece)
  BY <1>1, <1>5, <1>6, <1>10
<1> DEFINE Both(k) == h[m + k] = f[m] \o g[k]
           R == {k \in Nat : k \in 0..n => Both(k)}
<1>12. 0 \in R
  <2>1. f[m] \o g[0] = f[m]
    BY <1>6, <1>11, ConcatEmptySeq
  <2>2. m + 0 = m
    BY <1>1
  <2>3. Both(0)
    BY <1>11, <2>1, <2>2
  <2> HIDE DEF Both
  <2> QED
    BY <2>3
<1>13. ASSUME NEW k \in Nat, k \in R PROVE k + 1 \in R
  <2>1. SUFFICES ASSUME k + 1 \in 0..n PROVE Both(k + 1)
    <3> HIDE DEF Both
    <3> QED
      OBVIOUS
  <2>2. /\ k + 1 \in 1..n /\ m + (k + 1) \in 1..Len(c) /\ k \in 0..n
        /\ (k + 1) - 1 = k /\ (m + (k + 1)) - 1 = m + k
    BY <1>1, <2>1
  <2>3. Both(k) /\ c[m + (k + 1)] = b[k + 1]
    <3> HIDE DEF Both
    <3> QED
      BY <1>3, <1>13, <2>2
  <2>4. g[k + 1] = IF b[k + 1] = Separator THEN g[k] ELSE Append(g[k], b[k + 1])
    BY <1>6, <2>2
  <2>5. h[m + (k + 1)] = IF c[m + (k + 1)] = Separator THEN h[m + k]
                         ELSE Append(h[m + k], c[m + (k + 1)])
    BY <1>7, <2>2
  <2>6. PICK x \in Seq(Piece), y \in Seq(Piece), p \in Piece :
          x = f[m] /\ y = g[k] /\ p = b[k + 1]
    BY <1>4, <1>6, <1>11, <2>2
  <2>7. Append(x \o y, p) = x \o Append(y, p)
    <3>1. x \o y \in Seq(Piece) /\ <<p>> \in Seq(Piece)
      OBVIOUS
    <3>2. x \o (y \o <<p>>) = (x \o y) \o <<p>>
      BY <3>1, Joined
    <3>3. Append(y, p) = y \o <<p>>
      OBVIOUS
    <3>4. Append(x \o y, p) = (x \o y) \o <<p>>
      BY <3>1
    <3> QED
      BY <3>2, <3>3, <3>4
  <2> QED
    BY <2>3, <2>4, <2>5, <2>6, <2>7
<1>14. Nat \subseteq R
  <2> HIDE DEF R
  <2> QED
    BY <1>12, <1>13, Counting
<1>15. h[m + n] = f[m] \o g[n]
  <2>1. Both(n)
    <3> HIDE DEF Both
    <3> QED
      BY <1>1, <1>14
  <2> QED
    BY <2>1
<1> QED
  BY <1>1, <1>5, <1>6, <1>7, <1>11, <1>15 DEF c

(* A text that only separates says nothing.                                *)
LEMMA SpokenSeparator ==
  ASSUME NEW a \in Seq(Piece)
  PROVE  Spoken(<<>>) = <<>> /\ Spoken(Append(a, Separator)) = Spoken(a)
<1>1. Separator \in Piece /\ <<>> \in Seq(Piece)
  BY DEF Separator, Piece
<1>2. Spoken(<<>>) = <<>>
  <2>1. PICK f : Spoken(<<>>) = f[0] /\ f[0] = <<>>
    <3>1. Len(<<>>) = 0
      OBVIOUS
    <3> QED
      BY <1>1, <3>1, SpokenBy
  <2> QED
    BY <2>1
<1> DEFINE e == Separator
<1>3. e \in Piece /\ e = Separator
  BY <1>1
<1> HIDE DEF e
<1>4. <<e>> \in Seq(Piece) /\ Append(a, e) = a \o <<e>> /\ Len(<<e>>) = 1 /\ <<e>>[1] = e
  BY <1>3
<1>5. Spoken(<<e>>) = <<>>
  <2> DEFINE s == <<e>>
  <2>1. s \in Seq(Piece) /\ Len(s) = 1 /\ s[1] = e
    BY <1>4
  <2> HIDE DEF s
  <2>2. PICK f : /\ Spoken(s) = f[Len(s)] /\ f[0] = <<>>
                 /\ \A k \in 1..Len(s) :
                      f[k] = IF s[k] = Separator THEN f[k - 1] ELSE Append(f[k - 1], s[k])
    BY <2>1, SpokenBy
  <2>3. f[1] = f[1 - 1] /\ 1 - 1 = 0
    BY <1>3, <2>1, <2>2
  <2> QED
    BY <2>1, <2>2, <2>3 DEF s
<1>6. Spoken(a \o <<e>>) = Spoken(a) \o <<>> /\ Spoken(a) \in Seq(Piece)
  BY <1>4, <1>5, SpokenJoined
<1>7. Spoken(a) \o <<>> = Spoken(a)
  BY <1>6, ConcatEmptySeq
<1> QED
  BY <1>2, <1>3, <1>4, <1>6, <1>7

-----------------------------------------------------------------------------
(* Whole answers                                                           *)

Frame == [item : Nat, text : Text]

LastText(r) == r.frames[Len(r.frames)].text

(* What has been sent of a reply is what has come of it.                   *)
Told(r) ==
  /\ r.frames = <<>> <=> r.text = <<>>
  /\ r.open <=> r.frames # <<>>
  /\ Spoken(Said(r)) = Spoken(r.text)

(* No message runs into another, and the open one is the last that came.   *)
Apart(r) ==
  /\ \A i \in 1..Len(r.frames) : Unmixed(r.frames[i].text)
  /\ ~r.completed /\ r.text # <<>> =>
       /\ Last(r.text)[1] = r.item
       /\ LastText(r) # <<>> /\ Last(LastText(r)) = Last(r.text)

Coherent(r) == Told(r) /\ Apart(r) /\ (r.completed => r.output = r.text)

(* Nothing has been said.                                                  *)
Silent(r) == r.frames = <<>> /\ r.text = <<>> /\ ~r.open /\ ~r.completed

LEMMA SilentCoherent ==
  ASSUME NEW r \in Reply, Silent(r)
  PROVE  Coherent(r)
<1>1. Said(r) = <<>>
  <2> DEFINE ss == [i \in DOMAIN r.frames |-> r.frames[i].text]
  <2>1. DOMAIN r.frames = {}
    BY DEF Silent
  <2>2. ss = <<>>
    BY <2>1
  <2>3. FlattenSeq(<<>>) = <<>>
    BY DEF FlattenSeq
  <2> HIDE DEF ss
  <2>4. Said(r) = FlattenSeq(ss)
    BY DEF Said, ss
  <2> QED
    BY <2>2, <2>3, <2>4
<1>2. Told(r)
  BY <1>1 DEF Told, Silent
<1>3. Apart(r)
  BY DEF Apart, Silent
<1> QED
  BY <1>2, <1>3 DEF Coherent, Silent

(* The texts of the messages.                                              *)
LEMMA SaidFields ==
  ASSUME NEW r \in Reply
  PROVE  \E ss \in Seq(Seq(Piece)) :
           /\ Said(r) = FlattenSeq(ss) /\ Len(ss) = Len(r.frames)
           /\ \A i \in 1..Len(r.frames) : ss[i] = r.frames[i].text
<1> DEFINE frames == r.frames
           ss == [i \in DOMAIN frames |-> frames[i].text]
<1>1. frames \in Seq(Frame)
  BY DEF Reply, Frame
<1>2. DOMAIN frames = 1..Len(frames) /\ Len(frames) \in Nat
  BY <1>1
<1>3. \A i \in 1..Len(frames) : frames[i] \in Frame
  BY <1>1
<1>4. \A i \in 1..Len(frames) : frames[i].text \in Seq(Piece)
  BY <1>3 DEF Frame, Text, Piece
<1>5. Said(r) = FlattenSeq(ss)
  BY DEF Said
<1> HIDE DEF frames
<1>6. ss \in Seq(Seq(Piece)) /\ Len(ss) = Len(frames)
  BY <1>2, <1>4
<1>7. \A i \in 1..Len(frames) : ss[i] = frames[i].text
  BY <1>2
<1> HIDE DEF ss
<1> QED
  BY <1>5, <1>6, <1>7 DEF frames

(* Text goes on in the open message, or opens one.                         *)
Grows(r, delta, item, e) ==
  /\ e \in Reply /\ e.open /\ e.completed = r.completed /\ e.output = r.output
  /\ Len(e.frames) # 0
  /\ \A i \in 1..(Len(e.frames) - 1) : e.frames[i] = r.frames[i]
  /\ \/ /\ NewFrame(r, item)
        /\ e.item = item /\ Len(e.frames) = Len(r.frames) + 1 /\ LastText(e) = delta
        /\ e.text = (IF r.open THEN Append(r.text, Separator) ELSE r.text) \o delta
     \/ /\ r.open /\ item = r.item
        /\ e.item = r.item /\ Len(e.frames) = Len(r.frames) /\ LastText(e) = LastText(r) \o delta
        /\ e.text = r.text \o delta

LEMMA EmitGrows ==
  ASSUME NEW r \in Reply, NEW delta \in Text, NEW item \in Nat, delta # <<>>,
         r.open => r.frames # <<>>
  PROVE  Grows(r, delta, item, EmitText(r, delta, item))
<1> DEFINE o == IF NewFrame(r, item) THEN OpenFrame(r, item) ELSE r
           n == Len(o.frames)
           frame == [o.frames[n] EXCEPT !.text = o.frames[n].text \o delta]
           frames == [o.frames EXCEPT ![n] = frame]
           e == [o EXCEPT !.text = o.text \o delta, !.frames = frames]
<1>1. EmitText(r, delta, item) = e
  BY DEF EmitText
<1>2. e \in Reply /\ e.completed = r.completed /\ e.output = r.output
  <2> HIDE DEF e
  <2> QED
    BY <1>1, EmitTextFields
<1>3. r.frames \in Seq(Frame) /\ r.open \in BOOLEAN /\ r.text \in Seq(Piece)
  BY DEF Reply, Frame, Text, Piece
<1>4. /\ o.frames \in Seq(Frame) /\ o.open = TRUE /\ n \in Nat /\ n # 0
      /\ \A i \in 1..(n - 1) : o.frames[i] = r.frames[i]
      /\ DOMAIN o = DOMAIN r
      /\ \/ /\ NewFrame(r, item) /\ o.item = item
            /\ n = Len(r.frames) + 1 /\ o.frames[n].text = <<>>
            /\ o.text = IF r.open THEN Append(r.text, Separator) ELSE r.text
         \/ /\ r.open /\ item = r.item /\ o = r
  <2>1. CASE NewFrame(r, item)
    <3> DEFINE text == IF r.open THEN Append(r.text, Separator) ELSE r.text
               f == [item |-> item, text |-> <<>>]
               more == Append(r.frames, f)
    <3>1. o = [r EXCEPT !.text = text, !.open = TRUE, !.item = item, !.frames = more]
      BY <2>1 DEF OpenFrame
    <3>2. f \in Frame /\ f.text = <<>>
      BY DEF Frame, Text
    <3> HIDE DEF f
    <3>3. /\ more \in Seq(Frame) /\ Len(more) = Len(r.frames) + 1 /\ more[Len(more)] = f
          /\ Len(more) \in Nat /\ Len(more) # 0
          /\ \A i \in 1..(Len(more) - 1) : more[i] = r.frames[i]
      BY <1>3, <3>2
    <3> HIDE DEF text, more, o
    <3>4. o.text = text /\ o.open = TRUE /\ o.item = item /\ o.frames = more /\ DOMAIN o = DOMAIN r
      BY <3>1 DEF Reply
    <3> QED
      BY <2>1, <3>2, <3>3, <3>4 DEF text
  <2>2. CASE ~NewFrame(r, item)
    <3>1. o = r /\ r.open /\ item = r.item
      BY <2>2, <1>3 DEF NewFrame
    <3>2. Len(r.frames) \in Nat /\ Len(r.frames) # 0
      BY <1>3, <3>1
    <3> HIDE DEF o
    <3> QED
      BY <1>3, <3>1, <3>2
  <2> QED
    BY <2>1, <2>2
<1> HIDE DEF o
<1>5. n \in 1..n /\ o.frames[n] \in Frame
  <2> DEFINE fs == o.frames
  <2>1. fs \in Seq(Frame) /\ Len(fs) # 0
    BY <1>4
  <2> HIDE DEF fs
  <2>2. Len(fs) \in 1..Len(fs) /\ fs[Len(fs)] \in Frame
    BY <2>1
  <2> QED
    BY <2>2 DEF fs
<1>6. frame.text = o.frames[n].text \o delta
  BY <1>5 DEF Frame
<1> HIDE DEF frame
<1>7. /\ Len(frames) = n /\ frames[n] = frame
      /\ \A i \in 1..(n - 1) : frames[i] = o.frames[i]
  <2> DEFINE fs == o.frames
  <2>1. fs \in Seq(Frame) /\ Len(fs) \in 1..Len(fs)
    BY <1>4, <1>5
  <2> HIDE DEF fs
  <2>2. /\ Len([fs EXCEPT ![Len(fs)] = frame]) = Len(fs)
        /\ [fs EXCEPT ![Len(fs)] = frame][Len(fs)] = frame
        /\ \A i \in 1..(Len(fs) - 1) : [fs EXCEPT ![Len(fs)] = frame][i] = fs[i]
    BY <2>1
  <2> QED
    BY <2>2 DEF fs
<1> HIDE DEF frames
<1>8. /\ e.frames = frames /\ e.text = o.text \o delta /\ e.open = o.open /\ e.item = o.item
  BY <1>4 DEF Reply
<1> HIDE DEF e
<1>9. \A i \in 1..(Len(e.frames) - 1) : e.frames[i] = r.frames[i]
  BY <1>4, <1>7, <1>8
<1>10. Len(e.frames) = n /\ LastText(e) = o.frames[n].text \o delta
  BY <1>6, <1>7, <1>8 DEF LastText
<1>11. \/ /\ NewFrame(r, item)
          /\ e.item = item /\ Len(e.frames) = Len(r.frames) + 1 /\ LastText(e) = delta
          /\ e.text = (IF r.open THEN Append(r.text, Separator) ELSE r.text) \o delta
       \/ /\ r.open /\ item = r.item
          /\ e.item = r.item /\ Len(e.frames) = Len(r.frames) /\ LastText(e) = LastText(r) \o delta
          /\ e.text = r.text \o delta
  <2>1. <<>> \o delta = delta
    BY ConcatEmptySeq DEF Text
  <2>2. CASE o = r /\ r.open /\ item = r.item
    BY <1>8, <1>10, <2>2 DEF LastText
  <2>3. CASE /\ NewFrame(r, item) /\ o.item = item
             /\ n = Len(r.frames) + 1 /\ o.frames[n].text = <<>>
             /\ o.text = IF r.open THEN Append(r.text, Separator) ELSE r.text
    BY <1>8, <1>10, <2>1, <2>3
  <2> QED
    BY <1>4, <2>2, <2>3
<1>12. e \in Reply /\ e.open /\ Len(e.frames) # 0
  BY <1>1, <1>2, <1>4, <1>8, <1>10
<1> QED
  BY <1>1, <1>2, <1>9, <1>11, <1>12 DEF Grows

(* What has come of the response is sent, with all its pieces in order.    *)
LEMMA GrowsTold ==
  ASSUME NEW r \in Reply, NEW delta \in Text, NEW item \in Nat, delta # <<>>, Told(r),
         NEW e, Grows(r, delta, item, e)
  PROVE  Told(e)
<1>1. e \in Reply /\ r.text \in Seq(Piece) /\ e.text \in Seq(Piece) /\ delta \in Seq(Piece)
  BY DEF Grows, Reply, Text, Piece
<1>2. PICK ss \in Seq(Seq(Piece)) :
        /\ Said(r) = FlattenSeq(ss) /\ Len(ss) = Len(r.frames)
        /\ \A i \in 1..Len(r.frames) : ss[i] = r.frames[i].text
  BY SaidFields
<1>3. PICK tt \in Seq(Seq(Piece)) :
        /\ Said(e) = FlattenSeq(tt) /\ Len(tt) = Len(e.frames)
        /\ \A i \in 1..Len(e.frames) : tt[i] = e.frames[i].text
  BY <1>1, SaidFields
<1>4. /\ Len(tt) # 0 /\ Len(tt) \in Nat /\ Len(ss) \in Nat /\ Len(tt) \in 1..Len(tt)
      /\ Len(tt) = Len(ss) \/ Len(tt) = Len(ss) + 1
  BY <1>2, <1>3 DEF Grows
<1>5. tt[Len(tt)] = LastText(e)
  BY <1>3, <1>4 DEF LastText
<1>6. ASSUME NEW i \in 1..(Len(tt) - 1) PROVE tt[i] = ss[i]
  <2>1. i \in 1..Len(e.frames) /\ i \in 1..Len(r.frames)
    BY <1>2, <1>3, <1>4
  <2>2. e.frames[i] = r.frames[i]
    BY <1>3 DEF Grows
  <2> QED
    BY <1>2, <1>3, <2>1, <2>2
<1>7. \/ Len(tt) = Len(ss) /\ tt[Len(tt)] = ss[Len(tt)] \o delta
      \/ Len(tt) = Len(ss) + 1 /\ tt[Len(tt)] = delta
  <2>1. CASE Len(e.frames) = Len(r.frames) /\ LastText(e) = LastText(r) \o delta
    <3>1. Len(tt) = Len(ss) /\ Len(tt) \in 1..Len(r.frames)
      BY <1>2, <1>3, <1>4, <2>1
    <3>2. ss[Len(tt)] = LastText(r)
      BY <1>2, <1>3, <3>1, <2>1 DEF LastText
    <3> QED
      BY <1>5, <2>1, <3>1, <3>2
  <2>2. CASE Len(e.frames) = Len(r.frames) + 1 /\ LastText(e) = delta
    BY <1>2, <1>3, <1>5, <2>2
  <2> QED
    BY <2>1, <2>2 DEF Grows
<1>8. FlattenSeq(tt) = FlattenSeq(ss) \o delta /\ FlattenSeq(ss) \in Seq(Piece)
  BY <1>1, <1>4, <1>6, <1>7, FlattenGrown
<1>9. Spoken(Said(e)) = Spoken(r.text) \o Spoken(delta)
  <2>1. Spoken(FlattenSeq(ss) \o delta) = Spoken(FlattenSeq(ss)) \o Spoken(delta)
    BY <1>1, <1>8, SpokenJoined
  <2> QED
    BY <1>2, <1>3, <1>8, <2>1 DEF Told
<1>10. PICK before \in Seq(Piece) : /\ e.text = before \o delta /\ Spoken(before) = Spoken(r.text)
  <2>1. CASE e.text = r.text \o delta
    BY <1>1, <2>1
  <2>2. CASE e.text = Append(r.text, Separator) \o delta
    <3>1. Append(r.text, Separator) \in Seq(Piece)
      <4>1. Separator \in Piece
        BY DEF Separator, Piece
      <4> QED
        BY <1>1, <4>1
    <3> QED
      BY <1>1, <2>2, <3>1, SpokenSeparator
  <2> QED
    BY <2>1, <2>2 DEF Grows
<1>11. Spoken(e.text) = Spoken(r.text) \o Spoken(delta)
  <2>1. Spoken(before \o delta) = Spoken(before) \o Spoken(delta)
    BY <1>1, SpokenJoined
  <2> QED
    BY <1>10, <2>1
<1>12. e.text # <<>> /\ e.frames # <<>>
  <2>1. before \o delta # <<>>
    BY <1>1, ConcatEqualIffEmpty
  <2>2. e.frames # <<>>
    BY DEF Grows
  <2> QED
    BY <1>10, <2>1, <2>2
<1> QED
  BY <1>9, <1>11, <1>12 DEF Told, Grows

(* One more piece.                                                         *)
LEMMA UnmixedMore ==
  ASSUME NEW text \in Text, NEW p \in Piece, Unmixed(text),
         text # <<>> => Last(text)[1] = p[1] \/ Separator \in {Last(text), p}
  PROVE  Unmixed(text \o <<p>>) /\ Last(text \o <<p>>) = p /\ text \o <<p>> \in Text
<1> DEFINE more == text \o <<p>>
           n == Len(text)
<1>1. text \in Seq(Piece) /\ n \in Nat
  BY DEF Text, Piece
<1>2. /\ more \in Seq(Piece) /\ Len(more) = n + 1 /\ more[n + 1] = p
      /\ \A k \in 1..n : more[k] = text[k]
  BY <1>1
<1> HIDE DEF more
<1>3. ASSUME NEW k \in 1..(Len(more) - 1)
      PROVE  Separator \in {more[k], more[k + 1]} \/ more[k][1] = more[k + 1][1]
  <2>1. CASE k = n
    <3>1. more[k] = Last(text) /\ more[k + 1] = p /\ text # <<>>
      BY <1>1, <1>2, <2>1 DEF Last
    <3> QED
      BY <3>1
  <2>2. CASE k # n
    <3>1. k \in 1..(n - 1) /\ k \in 1..n /\ k + 1 \in 1..n
      BY <1>1, <1>2, <2>2
    <3> QED
      BY <1>2, <3>1 DEF Unmixed
  <2> QED
    BY <2>1, <2>2
<1>4. Last(more) = p
  BY <1>2 DEF Last
<1> QED
  BY <1>2, <1>3, <1>4 DEF Unmixed, more, Text, Piece

LEMMA UnmixedOne ==
  ASSUME NEW p \in Piece
  PROVE  Unmixed(<<p>>) /\ Last(<<p>>) = p /\ <<p>> # <<>> /\ <<p>> \in Text
<1> DEFINE s == <<p>>
<1>1. s \in Seq(Piece) /\ Len(s) = 1 /\ s[1] = p /\ s # <<>>
  OBVIOUS
<1> HIDE DEF s
<1> QED
  BY <1>1 DEF Unmixed, Last, s, Text, Piece

(* The messages that are not open stay as they are.                        *)
LEMMA GrowsUnmixed ==
  ASSUME NEW r \in Reply, NEW delta, NEW item, NEW e, Grows(r, delta, item, e),
         \A i \in 1..Len(r.frames) : Unmixed(r.frames[i].text),
         Unmixed(LastText(e))
  PROVE  \A i \in 1..Len(e.frames) : Unmixed(e.frames[i].text)
<1>1. Len(r.frames) \in Nat /\ Len(e.frames) \in Nat
  BY DEF Grows, Reply
<1>2. Len(e.frames) = Len(r.frames) \/ Len(e.frames) = Len(r.frames) + 1
  BY DEF Grows
<1>3. ASSUME NEW i \in 1..Len(e.frames) PROVE Unmixed(e.frames[i].text)
  <2>1. CASE i = Len(e.frames)
    BY <2>1 DEF LastText
  <2>2. CASE i # Len(e.frames)
    <3>1. i \in 1..(Len(e.frames) - 1) /\ i \in 1..Len(r.frames)
      BY <1>1, <1>2, <2>2
    <3>2. e.frames[i] = r.frames[i]
      BY <3>1 DEF Grows
    <3> QED
      BY <3>1, <3>2
  <2> QED
    BY <2>1, <2>2
<1> QED
  BY <1>3

(* What is sent of an open reply ends with what came last of it.           *)
LEMMA LastOfOpen ==
  ASSUME NEW r \in Reply, Coherent(r), ~r.completed, r.text # <<>>
  PROVE  /\ r.open /\ LastText(r) \in Text /\ LastText(r) # <<>> /\ Unmixed(LastText(r))
         /\ Last(LastText(r))[1] = r.item /\ Last(r.text)[1] = r.item
<1>1. r.frames # <<>> /\ r.open
  BY DEF Coherent, Told
<1> DEFINE fs == r.frames
<1>2. fs \in Seq(Frame) /\ fs # <<>>
  BY <1>1 DEF Reply, Frame
<1> HIDE DEF fs
<1>3. Len(fs) \in 1..Len(fs) /\ fs[Len(fs)] \in Frame
  BY <1>2
<1>4. LastText(r) \in Text /\ Unmixed(LastText(r))
  BY <1>3 DEF fs, LastText, Frame, Coherent, Apart
<1> QED
  BY <1>1, <1>4 DEF Coherent, Apart

LEMMA TextCoherent ==
  ASSUME NEW r \in Reply, Coherent(r), ~r.completed, NEW p \in Piece
  PROVE  Coherent(EmitText(r, <<p>>, p[1]))
<1>1. Unmixed(<<p>>) /\ Last(<<p>>) = p /\ <<p>> # <<>> /\ <<p>> \in Text /\ p[1] \in Nat
  BY UnmixedOne DEF Piece
<1> DEFINE d == <<p>>
           e == EmitText(r, d, p[1])
<1>2. Grows(r, d, p[1], e)
  <2>1. r.open => r.frames # <<>>
    BY DEF Coherent, Told
  <2> HIDE DEF d
  <2> QED
    BY <1>1, <2>1, EmitGrows DEF d
<1> HIDE DEF e
<1>3. Told(e)
  <2> HIDE DEF d
  <2> QED
    BY <1>1, <1>2, GrowsTold DEF Coherent, d
<1>4. e \in Reply /\ ~e.completed
  BY <1>2 DEF Grows
<1>5. Unmixed(LastText(e)) /\ LastText(e) # <<>> /\ Last(LastText(e)) = p /\ e.item = p[1]
  <2>1. CASE LastText(e) = d /\ e.item = p[1]
    BY <1>1, <2>1
  <2>2. CASE r.open /\ p[1] = r.item /\ e.item = r.item /\ LastText(e) = LastText(r) \o d
    <3>1. r.text # <<>>
      BY <2>2 DEF Coherent, Told
    <3>2. PICK text \in Text : /\ text = LastText(r) /\ Unmixed(text) /\ Last(text)[1] = p[1]
      BY <2>2, <3>1, LastOfOpen
    <3>3. Unmixed(text \o <<p>>) /\ Last(text \o <<p>>) = p
      BY <3>2, UnmixedMore
    <3>4. text \o <<p>> # <<>>
      BY DEF Text
    <3> QED
      BY <2>2, <3>2, <3>3, <3>4
  <2> QED
    BY <1>2, <2>1, <2>2 DEF Grows
<1>6. Last(e.text) = p
  <2>1. PICK before \in Text : e.text = before \o <<p>>
    <3>1. CASE e.text = r.text \o d
      BY <3>1 DEF Reply
    <3>2. CASE e.text = Append(r.text, Separator) \o d
      <4>1. Append(r.text, Separator) \in Text
        <5>1. Separator \in Nat \X Nat /\ r.text \in Seq(Nat \X Nat)
          BY DEF Separator, Reply, Text
        <5> QED
          BY <5>1 DEF Text
      <4> QED
        BY <3>2, <4>1
    <3> QED
      BY <1>2, <3>1, <3>2 DEF Grows
  <2>2. before \in Seq(Piece)
    BY DEF Text, Piece
  <2>3. Last(before \o <<p>>) = p
    BY <2>2 DEF Last
  <2> QED
    BY <2>1, <2>3
<1>7. \A i \in 1..Len(e.frames) : Unmixed(e.frames[i].text)
  BY <1>2, <1>5, GrowsUnmixed DEF Coherent, Apart
<1>8. Apart(e)
  BY <1>5, <1>6, <1>7 DEF Apart
<1> QED
  BY <1>3, <1>4, <1>8 DEF Coherent, d, e

LEMMA CreatedCoherent ==
  ASSUME NEW r \in Reply, NEW id \in Responses, Coherent(r)
  PROVE  Coherent(Created(r, id))
<1> DEFINE c == Created(r, id)
<1>1. /\ c.frames = r.frames /\ c.text = r.text /\ c.open = r.open /\ c.item = r.item
      /\ c.completed = r.completed /\ c.output = r.output
  BY DEF Created, Reply
<1> HIDE DEF c
<1>2. Told(c)
  BY <1>1 DEF Coherent, Told, Said
<1>3. Apart(c)
  BY <1>1 DEF Coherent, Apart, LastText
<1> QED
  BY <1>1, <1>2, <1>3 DEF Coherent, c

(* What the completed text adds to what was streamed of it.                *)
LEMMA DeltaIs ==
  ASSUME NEW text \in Text, NEW d \in Text
  PROVE  TextDelta(text, text \o d) = d
<1> DEFINE c == text \o d
           m == Len(text)
<1>1. /\ text \in Seq(Piece) /\ d \in Seq(Piece) /\ c \in Seq(Piece)
      /\ m \in Nat /\ Len(d) \in Nat /\ Len(c) = m + Len(d)
  BY DEF Text, Piece
<1>2. \A i \in 1..m : c[i] = text[i]
  BY <1>1
<1>3. \A i \in 1..Len(d) : c[m + i] = d[i]
  BY <1>1, ConcatProperties
<1> HIDE DEF c, m
<1>4. m = Len(text)
  BY DEF m
<1>5. SubSeq(text, 1, m) = SubSeq(c, 1, m)
  BY <1>1, <1>2, <1>4
<1>6. IsPrefix(text, c)
  BY <1>1, <1>4, <1>5 DEF IsPrefix
<1>7. SubSeq(c, m + 1, Len(c)) = d
  <2> DEFINE s == SubSeq(c, m + 1, Len(c))
  <2>1. s \in Seq(Piece) /\ Len(s) = Len(d)
    BY <1>1
  <2>2. ASSUME NEW i \in 1..Len(d) PROVE s[i] = d[i]
    <3>1. s[i] = c[m + i]
      BY <1>1
    <3> QED
      BY <1>3, <3>1
  <2> HIDE DEF s
  <2>3. s = d
    BY <1>1, <2>1, <2>2, SeqEqual
  <2> QED
    BY <2>3 DEF s
<1> QED
  BY <1>4, <1>6, <1>7 DEF TextDelta, c

(* What a response may be in full goes on where it was, or says what       *)
(* nobody has heard yet.                                                   *)
LEMMA OutputIs ==
  ASSUME scope \in Scopes, NEW text \in Text, NEW output \in Outputs(text)
  PROVE  \/ output = text
         \/ /\ text # <<>>
            /\ \E p \in Piece : Last(text)[1] = p[1] /\ output = text \o <<p>>
         \/ text # <<>> /\ \E p \in Piece : output = text \o <<Separator, p>>
         \/ text = <<>> /\ \E p \in Piece : output = <<p>>
<1>1. scope.items \in Nat /\ scope.pieces \in Nat
  BY ConsoleAssumption
<1>2. CASE \E p \in (1..scope.items) \X (2..scope.pieces) : NextPiece(text, p) /\ output = Append(text, p)
  <2>1. PICK p \in (1..scope.items) \X (2..scope.pieces) : NextPiece(text, p) /\ output = Append(text, p)
    BY <1>2
  <2>2. p \in Piece /\ p[2] # 1
    BY <1>1, <2>1 DEF Piece
  <2>3. text # <<>> /\ p[1] = Last(text)[1]
    BY <2>1, <2>2 DEF NextPiece
  <2>4. Append(text, p) = text \o <<p>>
    <3>1. text \in Seq(Piece)
      BY DEF Text, Piece
    <3> QED
      BY <2>2, <3>1
  <2> QED
    BY <2>1, <2>2, <2>3, <2>4
<1>3. CASE \E i \in 2..scope.items : text # <<>> /\ output = text \o <<Separator, <<i, 1>> >>
  <2>1. PICK i \in 2..scope.items : text # <<>> /\ output = text \o <<Separator, <<i, 1>> >>
    BY <1>3
  <2>2. <<i, 1>> \in Piece
    BY <1>1, <2>1 DEF Piece
  <2> QED
    BY <2>1, <2>2
<1>4. CASE text = <<>> /\ output = << <<1, 1>> >>
  <2>1. <<1, 1>> \in Piece
    BY DEF Piece
  <2> QED
    BY <1>4, <2>1
<1> QED
  BY <1>2, <1>3, <1>4 DEF Outputs

(* The rest of a response goes on in the open message, or opens the first. *)
LEMMA RestUnmixed ==
  ASSUME NEW r \in Reply, Coherent(r), ~r.completed, NEW d \in Text,
         \/ /\ r.text # <<>>
            /\ \/ \E p \in Piece : Last(r.text)[1] = p[1] /\ d = <<p>>
               \/ \E p \in Piece : d = <<Separator, p>>
         \/ r.text = <<>> /\ \E p \in Piece : d = <<p>>
  PROVE  Unmixed(IF r.text = <<>> THEN d ELSE LastText(r) \o d)
<1>1. CASE r.text # <<>>
  <2>1. PICK text \in Text : /\ text = LastText(r) /\ Unmixed(text)
                             /\ Last(text)[1] = Last(r.text)[1]
    BY <1>1, LastOfOpen
  <2>2. CASE \E p \in Piece : Last(r.text)[1] = p[1] /\ d = <<p>>
    BY <1>1, <2>1, <2>2, UnmixedMore
  <2>3. CASE \E p \in Piece : d = <<Separator, p>>
    <3>1. PICK p \in Piece : d = <<Separator, p>>
      BY <2>3
    <3>2. PICK e \in Piece : e = Separator
      BY DEF Separator, Piece
    <3>3. Unmixed(text \o <<e>>) /\ Last(text \o <<e>>) = e /\ text \o <<e>> \in Text
      BY <2>1, <3>2, UnmixedMore
    <3> DEFINE more == text \o <<e>>
    <3>4. Unmixed(more) /\ more \in Text /\ Last(more) = Separator
      BY <3>2, <3>3
    <3> HIDE DEF more
    <3>5. Unmixed(more \o <<p>>)
      BY <3>4, UnmixedMore
    <3>6. text \o <<e, p>> = more \o <<p>>
      <4>1. text \in Seq(Piece)
        BY DEF Text, Piece
      <4> QED
        BY <4>1 DEF more
    <3> QED
      BY <1>1, <2>1, <3>1, <3>2, <3>5, <3>6
  <2> QED
    BY <1>1, <2>2, <2>3
<1>2. CASE r.text = <<>>
  <2>1. PICK p \in Piece : d = <<p>>
    BY <1>2
  <2> QED
    BY <1>2, <2>1, UnmixedOne
<1> QED
  BY <1>1, <1>2

LEMMA CompletedCoherent ==
  ASSUME NEW r \in Reply, NEW id \in Responses, Coherent(r), ~r.completed,
         scope \in Scopes, NEW output \in Outputs(r.text)
  PROVE  Coherent(Completed(r, id, output))
<1> DEFINE q == [r EXCEPT !.prev = id, !.completed = TRUE, !.output = output]
<1>1. r.text \in Text /\ r.item \in Nat
  BY DEF Reply
<1>2. output \in Text
  BY <1>1, OutputsType
<1>3. /\ q \in Reply /\ q.frames = r.frames /\ q.text = r.text /\ q.open = r.open
      /\ q.item = r.item /\ q.completed = TRUE /\ q.output = output
  BY <1>2 DEF Reply
<1>4. PICK d \in Text :
        /\ output = r.text \o d
        /\ \/ d = <<>>
           \/ /\ r.text # <<>>
              /\ \/ \E p \in Piece : Last(r.text)[1] = p[1] /\ d = <<p>>
                 \/ \E p \in Piece : d = <<Separator, p>>
           \/ r.text = <<>> /\ \E p \in Piece : d = <<p>>
  <2>1. \A p \in Piece : <<p>> \in Text /\ <<Separator, p>> \in Text
    <3>1. PICK e \in Piece : e = Separator
      BY DEF Separator, Piece
    <3>2. \A p \in Piece : <<p>> \in Seq(Piece) /\ <<e, p>> \in Seq(Piece)
      OBVIOUS
    <3> QED
      BY <3>1, <3>2 DEF Text, Piece
  <2>2. CASE output = r.text
    <3>1. r.text \o <<>> = r.text /\ <<>> \in Text
      BY <1>1, ConcatEmptySeq DEF Text
    <3> QED
      BY <2>2, <3>1
  <2>3. CASE r.text = <<>> /\ \E p \in Piece : output = <<p>>
    <3>1. PICK p \in Piece : output = <<p>>
      BY <2>3
    <3>2. <<>> \o <<p>> = <<p>>
      OBVIOUS
    <3> QED
      BY <2>1, <2>3, <3>1, <3>2
  <2>4. CASE r.text # <<>> /\ \E p \in Piece : Last(r.text)[1] = p[1] /\ output = r.text \o <<p>>
    BY <2>1, <2>4
  <2>5. CASE r.text # <<>> /\ \E p \in Piece : output = r.text \o <<Separator, p>>
    BY <2>1, <2>5
  <2> QED
    BY <1>1, <2>2, <2>3, <2>4, <2>5, OutputIs
<1>5. TextDelta(r.text, output) = d
  BY <1>1, <1>4, DeltaIs
<1>6. Completed(r, id, output) = EmitText(q, d, r.item)
  BY <1>5 DEF Completed
<1> HIDE DEF q
<1>7. Told(q)
  BY <1>3 DEF Coherent, Told, Said
<1>8. \A i \in 1..Len(q.frames) : Unmixed(q.frames[i].text)
  BY <1>3 DEF Coherent, Apart
<1>9. CASE d = <<>>
  <2>1. Completed(r, id, output) = q
    BY <1>6, <1>9 DEF EmitText
  <2>2. r.text \o <<>> = r.text
    BY <1>1, ConcatEmptySeq DEF Text
  <2>3. Coherent(q)
    BY <1>3, <1>4, <1>7, <1>8, <1>9, <2>2 DEF Coherent, Apart
  <2> QED
    BY <2>1, <2>3
<1>10. CASE d # <<>>
  <2> DEFINE e == EmitText(q, d, r.item)
  <2>1. Grows(q, d, r.item, e)
    <3>1. q.open => q.frames # <<>>
      BY <1>7 DEF Told
    <3> QED
      BY <1>1, <1>3, <1>10, <3>1, EmitGrows
  <2> HIDE DEF e
  <2>2. Told(e)
    BY <1>1, <1>3, <1>7, <1>10, <2>1, GrowsTold
  <2>3. Unmixed(IF r.text = <<>> THEN d ELSE LastText(r) \o d)
    BY <1>4, <1>10, RestUnmixed
  <2>4. r.text # <<>> => r.open
    BY DEF Coherent, Told
  <2>5. Unmixed(LastText(e)) /\ e.text = output
    <3>1. CASE r.text # <<>>
      <4>1. ~NewFrame(q, r.item)
        BY <1>3, <2>4, <3>1 DEF NewFrame
      <4>2. LastText(e) = LastText(q) \o d /\ e.text = q.text \o d
        BY <2>1, <4>1 DEF Grows
      <4> QED
        BY <1>3, <1>4, <2>3, <3>1, <4>2 DEF LastText
    <3>2. CASE r.text = <<>>
      <4>1. ~r.open
        BY <3>2 DEF Coherent, Told
      <4>2. LastText(e) = d /\ e.text = q.text \o d
        BY <1>3, <2>1, <4>1 DEF Grows
      <4> QED
        BY <1>3, <1>4, <2>3, <3>2, <4>2
    <3> QED
      BY <3>1, <3>2
  <2>6. \A i \in 1..Len(e.frames) : Unmixed(e.frames[i].text)
    BY <1>3, <1>8, <2>1, <2>5, GrowsUnmixed
  <2>7. e.completed = TRUE /\ e.output = output
    BY <1>3, <2>1 DEF Grows
  <2>8. Coherent(e)
    BY <2>2, <2>5, <2>6, <2>7 DEF Coherent, Apart
  <2> QED
    BY <1>6, <2>8 DEF e
<1> QED
  BY <1>9, <1>10

Replies == \A t \in Turns : Coherent(turns[t].reply)

(* What a step does to the reply of a turn.                                *)
Heard(t) ==
  /\ Coherent(turns'[t].reply)
  /\ Running(t) /\ turns'[t].reply.end = "finished" => turns[t].reply.frames # <<>>

LEMMA SameHeard ==
  ASSUME Replies, NEW t \in Turns, turns'[t].reply = turns[t].reply
  PROVE  Heard(t)
BY DEF Replies, Heard, Running

LEMMA SilentHeard ==
  ASSUME NEW t \in Turns, NEW r \in Reply, Silent(r), turns'[t].reply = r, r.end # "finished"
  PROVE  Heard(t)
BY SilentCoherent DEF Heard

(* A turn of which nothing has been heard.                                 *)
Untold(x) == \E r \in Reply : x.reply = r /\ Silent(r) /\ r.end # "finished"

LEMMA NewUntold ==
  /\ \A previous \in Responses \union {None} :
       NewReply(previous) \in Reply /\ Silent(NewReply(previous)) /\ NewReply(previous).end = "open"
  /\ Silent(NoTurn.reply) /\ NoTurn.reply \in Reply /\ NoTurn.reply.end = "open"
<1>1. \A previous \in Responses \union {None} : NewReply(previous) \in Reply
  BY NewReplyFields
<1>2. \A previous : Silent(NewReply(previous)) /\ NewReply(previous).end = "open"
  BY DEF NewReply, Silent
<1>3. NoTurn.reply = NewReply(None)
  BY DEF NoTurn
<1> QED
  BY <1>1, <1>2, <1>3

(* One turn is used, recorded, asked or let go.                            *)
LEMMA OneUntold ==
  ASSUME Inv, Replies, NEW t, NEW x, turns' = [turns EXCEPT ![t] = x], Untold(x)
  PROVE  \A u \in Turns : Heard(u)
<1>1. turns \in [Turns -> Turn]
  BY DEF Inv, Types
<1>2. ASSUME NEW u \in Turns PROVE Heard(u)
  <2>1. CASE u = t
    <3>1. turns'[u] = x
      BY <1>1, <2>1
    <3> QED
      BY <3>1, SilentHeard DEF Untold
  <2>2. CASE u # t
    <3>1. turns'[u] = turns[u]
      BY <1>1, <2>2
    <3> QED
      BY <3>1, SameHeard
  <2> QED
    BY <2>1, <2>2
<1> QED
  BY <1>2

(* What is made of an unused turn.                                         *)
LEMMA MadeUntold ==
  /\ Untold(Gone)
  /\ \A s, p : Untold(Addressed(s, p)) /\ Untold(Silenced(s, p))
  /\ \A s : Untold([NoTurn EXCEPT !.state = "recorded", !.meant = s])
<1> DEFINE n == NoTurn
<1>1. n \in Turn /\ Untold(n)
  BY NoTurnFields, NewUntold DEF Untold
<1> HIDE DEF n
<1>2. Untold([n EXCEPT !.state = "gone"])
  BY <1>1 DEF Untold, Turn
<1>3. \A s, p : Untold([n EXCEPT !.state = "pending", !.meant = s, !.profile = p])
  BY <1>1 DEF Untold, Turn
<1>4. \A s, p : Untold([n EXCEPT !.state = "running", !.at = s, !.meant = p])
  BY <1>1 DEF Untold, Turn
<1>5. \A s : Untold([n EXCEPT !.state = "recorded", !.meant = s])
  BY <1>1 DEF Untold, Turn
<1> QED
  BY <1>2, <1>3, <1>4, <1>5 DEF Gone, Addressed, Silenced, n

(* A turn that is sent starts with nothing said.                           *)
LEMMA SendUntold ==
  ASSUME Inv, Replies, NEW t, NEW turn \in Turn, NEW s \in Sessions, NEW stored,
         Send(t, turn, s, stored)
  PROVE  \A u \in Turns : Heard(u)
<1>1. Untold(Ask(turn, s))
  <2> DEFINE previous == conv[s].prev
             r == NewReply(previous)
             by == AnsweredBy(previous, Requested(turn, s))
  <2>1. previous \in Responses \union {None}
    BY DEF Inv, Types, Conversation
  <2>2. r \in Reply /\ Silent(r) /\ r.end = "open"
    <3> HIDE DEF previous
    <3> QED
      BY <2>1, NewUntold
  <2>3. Ask(turn, s) = [turn EXCEPT !.state = "running", !.at = s, !.live = TRUE,
                                    !.reply = r, !.by = by]
    BY DEF Ask
  <2> HIDE DEF r, by
  <2>4. [turn EXCEPT !.state = "running", !.at = s, !.live = TRUE,
                     !.reply = r, !.by = by].reply = r
    BY DEF Turn
  <2> QED
    BY <2>2, <2>3, <2>4 DEF Untold
<1>2. \/ turns' = [turns EXCEPT ![t] = Ask(turn, s)]
      \/ turns' = [turns EXCEPT ![t] = Gone]
  BY DEF Send
<1> QED
  BY <1>1, <1>2, OneUntold, MadeUntold

(* A conversation that goes takes what was said in it along.               *)
LEMMA ReleaseHeard ==
  ASSUME Inv, Replies, NEW R, Release(R)
  PROVE  \A u \in Turns : Heard(u)
<1>1. ASSUME NEW u \in Turns PROVE Heard(u)
  <2>1. turns'[u] = turns[u] \/ turns'[u] = Silenced(turns[u].at, turns[u].meant)
    BY DEF Release, Silenced
  <2>2. CASE turns'[u] = turns[u]
    BY <2>2, SameHeard
  <2>3. CASE turns'[u] = Silenced(turns[u].at, turns[u].meant)
    <3>1. Untold(turns'[u])
      BY <2>3, MadeUntold
    <3> QED
      BY <3>1, SilentHeard DEF Untold
  <2> QED
    BY <2>1, <2>2, <2>3
<1> QED
  BY <1>1

LEMMA StillHeard ==
  ASSUME Replies, UNCHANGED turns
  PROVE  \A u \in Turns : Heard(u)
BY SameHeard

LEMMA UserHeard ==
  ASSUME Inv, Replies, User
  PROVE  \A u \in Turns : Heard(u)
<1>1. active \in Sessions /\ active \in Nat
  BY Numbers DEF Inv
<1>2. CASE Submit
  <2>1. Typed(NoAgent) \in Turn
    BY <1>1, TypedFields
  <2>2. Send(Fresh, Typed(NoAgent), active, conv)
    BY <1>2 DEF Submit
  <2> QED
    BY <1>1, <2>1, <2>2, SendUntold
<1>3. CASE Record
  <2>1. turns' = [turns EXCEPT ![Fresh] = [NoTurn EXCEPT !.state = "recorded", !.meant = active]]
    BY <1>3 DEF Record
  <2> QED
    BY <2>1, OneUntold, MadeUntold
<1>4. CASE Create
  BY <1>4, StillHeard DEF Create
<1>5. ASSUME NEW p \in Listed, Choose(p) PROVE \A u \in Turns : Heard(u)
  BY <1>5, StillHeard DEF Choose
<1>6. ASSUME NEW p \in Listed, Mention(p) PROVE \A u \in Turns : Heard(u)
  <2>1. Typed(p) \in Turn
    <3>1. p \in Profiles \union {NoAgent}
      BY ConsoleAssumption
    <3> QED
      BY <1>1, <3>1, TypedFields
  <2>2. \E stored : Send(Fresh, Typed(p), active, stored)
    BY <1>6 DEF Mention
  <2> QED
    BY <1>1, <2>1, <2>2, SendUntold
<1>7. ASSUME NEW p \in Listed, MentionAnother(p) PROVE \A u \in Turns : Heard(u)
  <2>1. turns' = [turns EXCEPT ![Fresh] = Addressed(created + 1, p)]
    BY <1>7 DEF MentionAnother, Addressed
  <2> QED
    BY <2>1, OneUntold, MadeUntold
<1>8. ASSUME NEW s \in Sessions, Select(s) PROVE \A u \in Turns : Heard(u)
  BY <1>8, StillHeard DEF Select
<1>9. ASSUME NEW s \in Sessions, Delete(s) PROVE \A u \in Turns : Heard(u)
  BY <1>9, ReleaseHeard DEF Delete
<1> QED
  BY <1>2, <1>3, <1>4, <1>5, <1>6, <1>7, <1>8, <1>9 DEF User

LEMMA ViewHeard ==
  ASSUME Inv, Replies, View
  PROVE  \A u \in Turns : Heard(u)
<1>1. \A t \in Turns : turns[t] \in Turn /\ TurnOK(t)
  BY Numbers DEF Inv, Shape
<1>2. CASE Render
  BY <1>2, StillHeard DEF Render
<1>3. CASE PendingEffect
  <2>1. pending \in Turns
    BY <1>3 DEF PendingEffect, Inv, Types
  <2>2. turns[pending].state = "pending" /\ turns[pending].meant # 0
        /\ turns[pending].meant \in 0..created
    BY <1>1, <2>1 DEF TurnOK
  <2>3. turns[pending].meant \in Sessions
    <3>1. turns[pending].meant \in 1..created
      BY <2>2, Numbers DEF Inv
    <3> QED
      BY <3>1, Numbers DEF Inv
  <2>4. Send(pending, turns[pending], turns[pending].meant, conv)
    BY <1>3 DEF PendingEffect
  <2> QED
    BY <1>1, <2>1, <2>3, <2>4, SendUntold
<1>4. CASE VoiceEffect
  <2>1. CASE UNCHANGED turns
    BY <2>1, StillHeard
  <2>2. CASE \E k \in Ready : Send(queue[k], turns[queue[k]], turns[queue[k]].meant, conv)
    <3>1. PICK k \in Ready : Send(queue[k], turns[queue[k]], turns[queue[k]].meant, conv)
      BY <2>2
    <3>2. queue \in Seq(Turns) /\ k \in 1..Len(queue)
      BY DEF Inv, Types, Ready
    <3>3. PICK t \in Turns : t = queue[k]
      BY <3>2
    <3>4. InQueue(t)
      BY <3>2, <3>3 DEF InQueue
    <3>5. turns[t].meant \in 0..created /\ turns[t].meant # 0
      BY <1>1, <3>4 DEF TurnOK
    <3>6. turns[t].meant \in Sessions
      <4>1. turns[t].meant \in 1..created
        BY <3>5, Numbers DEF Inv
      <4> QED
        BY <4>1, Numbers DEF Inv
    <3> QED
      BY <1>1, <3>1, <3>3, <3>6, SendUntold
  <2> QED
    BY <1>4, <2>1, <2>2 DEF VoiceEffect
<1> QED
  BY <1>2, <1>3, <1>4 DEF View

LEMMA TurnHeard ==
  ASSUME Inv, Replies, NEW t \in Turns, Transcript(t) \/ RecordingFails(t) \/ RunSettles(t)
  PROVE  \A u \in Turns : Heard(u)
<1>1. turns[t] \in Turn /\ TurnOK(t)
  BY Numbers DEF Inv, Shape
<1>2. CASE turns' = [turns EXCEPT ![t] = Gone]
  BY <1>2, OneUntold, MadeUntold
<1>3. CASE Transcript(t)
  <2>1. turns[t].meant \in Sessions
    <3>1. turns[t].meant \in 0..created /\ turns[t].meant # 0
      BY <1>1, <1>3 DEF Transcript, TurnOK
    <3>2. turns[t].meant \in 1..created
      BY <3>1, Numbers DEF Inv
    <3> QED
      BY <3>2, Numbers DEF Inv
  <2>2. CASE turns' = [turns EXCEPT ![t].state = "queued"]
    <3>1. ASSUME NEW u \in Turns PROVE turns'[u].reply = turns[u].reply
      <4>1. turns \in [Turns -> Turn] /\ turns[u] \in Turn
        BY Numbers DEF Inv, Types
      <4>2. turns'[u] = turns[u] \/ turns'[u] = [turns[u] EXCEPT !.state = "queued"]
        BY <2>2, <4>1
      <4> QED
        BY <4>1, <4>2 DEF Turn
    <3> QED
      BY <3>1, SameHeard
  <2>3. CASE Send(t, turns[t], turns[t].meant, conv)
    BY <1>1, <2>1, <2>3, SendUntold
  <2> QED
    BY <1>3, <2>2, <2>3 DEF Transcript, Context
<1> QED
  BY <1>2, <1>3 DEF RecordingFails, RunSettles

(* A running turn hears of its response.                                   *)
LEMMA HearsHeard ==
  ASSUME Inv, Replies, NEW t \in Turns, NEW reply \in Reply, Hears(t, reply),
         Coherent(reply), reply.end = turns[t].reply.end
  PROVE  \A u \in Turns : Heard(u)
<1>1. Speaks(t) /\ turns'[t].reply = reply
  BY HearsFields
<1>2. Heard(t)
  BY <1>1 DEF Heard, Running
<1>3. ASSUME NEW u \in Turns, u # t PROVE Heard(u)
  BY <1>1, <1>3, SameHeard DEF Speaks
<1> QED
  BY <1>2, <1>3

(* The last of it: a run that finishes has said something.                 *)
LEMMA LastHeard ==
  ASSUME Inv, Replies, NEW t \in Turns, NEW end \in {"error", "finished"}, HearsLast(t, end),
         end = "finished" => turns[t].reply.frames # <<>>
  PROVE  \A u \in Turns : Heard(u)
<1> DEFINE r == [NoTurn.reply EXCEPT !.end = end]
<1>1. r \in Reply /\ Silent(r) /\ r.end = end
  BY NewUntold DEF Reply, Silent
<1>2. Ended(t, end).reply = r
  <2> DEFINE n == NoTurn
             x == [n EXCEPT !.state = "running", !.live = TRUE, !.typed = turns[t].typed,
                            !.meant = turns[t].meant, !.at = turns[t].at, !.reply = r]
  <2>1. n \in Turn
    BY NoTurnFields
  <2>2. Ended(t, end) = x
    BY DEF Ended
  <2> HIDE DEF n, r
  <2>3. x.reply = r
    BY <2>1 DEF Turn
  <2> QED
    BY <2>2, <2>3
<1> HIDE DEF r
<1>3. turns' = [turns EXCEPT ![t] = Ended(t, end)] /\ turns \in [Turns -> Turn]
  BY DEF HearsLast, Inv, Types
<1>4. Heard(t)
  BY <1>1, <1>2, <1>3, SilentCoherent DEF Heard
<1>5. ASSUME NEW u \in Turns, u # t PROVE Heard(u)
  BY <1>3, <1>5, SameHeard
<1> QED
  BY <1>4, <1>5

LEMMA AnswerHeard ==
  ASSUME Inv, Replies, NEW t \in Turns, Answer(t)
  PROVE  \A u \in Turns : Heard(u)
<1>1. Running(t)
  BY DEF Answer, HearsCreated, HearsText, HearsCompleted, Hears, HearsEnd, HearsFailure, HearsLast
<1>2. PICK r \in Reply : r = turns[t].reply
  BY <1>1, IdIsResponse
<1>3. PICK id \in Responses : id = Id(t)
  BY <1>1, IdIsResponse
<1>4. Coherent(r) /\ scope \in Scopes
  BY <1>2 DEF Replies, Inv, Types
<1>5. CASE HearsCreated(t)
  <2> DEFINE c == Created(r, id)
  <2>1. c \in Reply /\ c.end = r.end /\ Coherent(c)
    BY <1>4, CreatedFields, CreatedCoherent
  <2>2. Hears(t, c)
    BY <1>2, <1>3, <1>5 DEF HearsCreated
  <2> HIDE DEF c
  <2> QED
    BY <1>2, <2>1, <2>2, HearsHeard
<1>6. ASSUME NEW p \in Pieces, HearsText(t, p) PROVE \A u \in Turns : Heard(u)
  <2>1. p \in Piece
    <3>1. scope.items \in Nat /\ scope.pieces \in Nat
      BY <1>4, ConsoleAssumption
    <3> QED
      BY <3>1 DEF Pieces, Piece
  <2>2. <<p>> \in Text /\ p[1] \in Nat
    BY <2>1 DEF Piece, Text
  <2> DEFINE d == <<p>>
             e == EmitText(r, d, p[1])
  <2>3. ~r.completed /\ Hears(t, e)
    BY <1>2, <1>6 DEF HearsText
  <2>4. Coherent(e)
    BY <1>4, <2>1, <2>3, TextCoherent
  <2>5. e \in Reply /\ e.end = r.end
    <3> HIDE DEF d
    <3> QED
      BY <2>2, EmitTextFields DEF d
  <2> HIDE DEF e
  <2> QED
    BY <1>2, <2>3, <2>4, <2>5, HearsHeard
<1>7. ASSUME NEW output \in Outputs(turns[t].reply.text), HearsCompleted(t, output)
      PROVE  \A u \in Turns : Heard(u)
  <2>1. output \in Outputs(r.text) /\ r.text \in Text
    BY <1>2, <1>7 DEF Reply
  <2>2. output \in Text
    BY <1>4, <2>1, OutputsType
  <2> DEFINE c == Completed(r, id, output)
  <2>3. ~r.completed /\ Hears(t, c)
    BY <1>2, <1>3, <1>7 DEF HearsCompleted
  <2>4. c \in Reply /\ c.end = r.end
    BY <2>2, CompletedFields
  <2>5. Coherent(c)
    BY <1>4, <2>1, <2>3, CompletedCoherent
  <2> HIDE DEF c
  <2> QED
    BY <1>2, <2>3, <2>4, <2>5, HearsHeard
<1>8. CASE HearsEnd(t)
  <2>1. PICK end \in {"error", "finished"} :
          /\ end = StreamEnds(r).end
          /\ end = IF r.frames = <<>> THEN "error" ELSE "finished"
    BY EndFields
  <2>2. HearsLast(t, end)
    BY <1>2, <1>8, <2>1 DEF HearsEnd
  <2> QED
    BY <1>2, <2>1, <2>2, LastHeard
<1>9. CASE HearsFailure(t)
  <2>1. StreamFails(r).end = "error"
    BY EndFields
  <2>2. HearsLast(t, "error")
    BY <1>2, <1>9, <2>1 DEF HearsFailure
  <2> QED
    BY <2>2, LastHeard
<1> QED
  BY <1>5, <1>6, <1>7, <1>8, <1>9 DEF Answer

LEMMA NextHeard ==
  ASSUME Inv, Replies, [Next]_vars
  PROVE  \A u \in Turns : Heard(u)
<1>1. CASE Identified
  BY <1>1, ReleaseHeard DEF Identified
<1>2. CASE IdentityUnknown
  BY <1>2, StillHeard DEF IdentityUnknown
<1>3. CASE UNCHANGED vars
  BY <1>3, StillHeard DEF vars
<1>4. ASSUME NEW t \in Turns, Transcript(t) \/ RecordingFails(t) \/ Answer(t) \/ RunSettles(t)
      PROVE  \A u \in Turns : Heard(u)
  BY <1>4, TurnHeard, AnswerHeard
<1> QED
  BY <1>1, <1>2, <1>3, <1>4, UserHeard, ViewHeard DEF Next

(* Whatever is streamed, completed or both, in however many messages, two  *)
(* messages never run into each other, and a run that finishes has said    *)
(* something, the whole completed text if there is one, route.ts:254.      *)
THEOREM WholeTheorem == Spec => AnswerIsWhole
<1>1. Init => Replies
  <2> SUFFICES ASSUME Init, NEW t \in Turns PROVE Coherent(turns[t].reply)
    BY DEF Replies
  <2>1. turns[t] = NoTurn
    BY DEF Init
  <2> QED
    BY <2>1, NewUntold, SilentCoherent
<1>2. Inv /\ Replies /\ [Next]_vars => Replies'
  BY NextHeard DEF Replies, Heard, Turns
<1>3. ASSUME Inv, Replies, [Next]_vars
      PROVE  \A t \in Turns :
               /\ \A i \in DOMAIN turns[t].reply.frames : Unmixed(turns[t].reply.frames[i].text)
               /\ Running(t) /\ turns'[t].reply.end = "finished" => Whole(turns[t].reply)
  <2> SUFFICES ASSUME NEW t \in Turns
               PROVE  /\ \A i \in DOMAIN turns[t].reply.frames :
                           Unmixed(turns[t].reply.frames[i].text)
                      /\ Running(t) /\ turns'[t].reply.end = "finished" => Whole(turns[t].reply)
    OBVIOUS
  <2>1. PICK r \in Reply : r = turns[t].reply
    BY <1>3, Numbers DEF Inv, Turn
  <2>2. Coherent(r)
    BY <1>3, <2>1 DEF Replies
  <2>3. DOMAIN r.frames = 1..Len(r.frames)
    BY DEF Reply
  <2>4. \A i \in DOMAIN r.frames : Unmixed(r.frames[i].text)
    BY <2>2, <2>3 DEF Coherent, Apart
  <2>5. Running(t) /\ turns'[t].reply.end = "finished" => r.frames # <<>>
    BY <1>3, <2>1, NextHeard DEF Heard
  <2>6. r.frames # <<>> => Whole(r)
    BY <2>2 DEF Coherent, Told, Whole
  <2> QED
    BY <2>1, <2>4, <2>5, <2>6
<1> QED
  BY <1>1, <1>2, <1>3, Invariance, PTL DEF Spec, AnswerIsWhole
=============================================================================
