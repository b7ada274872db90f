-------------------------- MODULE ActivityDelivery --------------------------
(***************************************************************************)
(* Delivery of Teams activities by src/hosted-agent/main.py.               *)
(*                                                                         *)
(* Bot Connector posts an activity, waits for the handler's response, and  *)
(* posts it again when the response is a failure (or, with EarlyRetry,     *)
(* while it is still waiting).  The handler runs one Codex turn per        *)
(* activity, keeps the computed reply until the channel accepts it and     *)
(* remembers a bounded window of finished activities, so that a retry      *)
(* neither repeats the turn nor loses the reply.  Handlers interleave at   *)
(* every await; _claim_activity, _cache_activity_reply and                 *)
(* _complete_activity contain no await under their lock, so each is a      *)
(* single step.                                                            *)
(***************************************************************************)
EXTENDS Naturals, Sequences, FiniteSets

CONSTANTS
  Activities,    (* inbound activities                                     *)
  Unidentified,  (* those that carry no id and so cannot be deduplicated   *)
  Calls,         (* concurrent invocations of the message handler          *)
  Limit,         (* _ACTIVITY_DEDUP_LIMIT                                  *)
  EarlyRetry,    (* may the connector retry before it has a response?      *)
  MaxRestarts    (* bound: restarts of the hosting process                 *)

ASSUME ActivityAssumption ==
  /\ Unidentified \subseteq Activities
  /\ Limit \in Nat \ {0}
  /\ EarlyRetry \in BOOLEAN
  /\ MaxRestarts \in Nat

(* The activities the process keeps state about: those with an event key.  *)
Tracked == Activities \ Unidentified

VARIABLES
  inflight,        (* _activity_inflight                                   *)
  completed,       (* _activity_completed                                  *)
  completedOrder,  (* _activity_completed_order, oldest first              *)
  pending,         (* keys of _activity_pending_replies                    *)
  pendingOrder,    (* _activity_pending_order, oldest first                *)
  pc,              (* where each invocation of the handler is              *)
  act,             (* the activity each invocation serves                  *)
  posted,          (* connector: activities posted so far                  *)
  responses,       (* connector: successful responses seen per activity    *)
  restarts,        (* process restarts so far                              *)
  unheard,         (* history: accepted, and the handler was not told      *)
  ghost            (* history of this process's life, for the properties   *)

memory == <<inflight, completed, completedOrder, pending, pendingOrder>>
vars == <<memory, pc, act, posted, responses, restarts, unheard, ghost>>

-----------------------------------------------------------------------------
(* Values                                                                  *)

Working == {"running"}
Delivering == {"streaming", "cancelled", "fallback", "sending"}
Leaving == {"accepted", "undelivered", "failed"}
(* The invocation holds its claim from _claim_activity to its finally.     *)
Claimed == Working \union Delivering \union Leaving
Places == {"idle", "arrived", "apologising"} \union Claimed

Outcomes == {"delivered", "apologised", "duplicate", "dropped"}

(* Per activity, since the process started: replies computed, replies the  *)
(* channel accepted from the first acceptance the handler learnt of (both  *)
(* saturate at 2), and how many replies were cached and activities         *)
(* completed after its first reply (both saturate at Limit).  Acceptances  *)
(* before that, each with a lost acknowledgement, only enter `unheard`.    *)
NoHistory == [replies |-> 0, accepts |-> 0, cachedAfter |-> 0, completedAfter |-> 0]
History == [replies : 0..2, accepts : 0..2,
            cachedAfter : 0..Limit, completedAfter : 0..Limit]

Saturate(n, top) == IF n < top THEN n + 1 ELSE n

TypeOK ==
  /\ inflight \subseteq Tracked
  /\ completed \subseteq Tracked
  /\ completedOrder \in Seq(Tracked)
  /\ pending \subseteq Tracked
  /\ pendingOrder \in Seq(Tracked)
  /\ pc \in [Calls -> Places]
  /\ act \in [Calls -> Activities]
  /\ posted \subseteq Activities
  /\ responses \in [Activities -> SUBSET Outcomes]
  /\ restarts \in 0..MaxRestarts
  /\ unheard \subseteq Tracked
  /\ ghost \in [Tracked -> History]

Init ==
  /\ inflight = {} /\ completed = {} /\ completedOrder = <<>>
  /\ pending = {} /\ pendingOrder = <<>>
  /\ pc = [c \in Calls |-> "idle"]
  /\ \E a \in Activities : act = [c \in Calls |-> a]
  /\ posted = {}
  /\ responses = [a \in Activities |-> {}]
  /\ restarts = 0
  /\ unheard = {}
  /\ ghost = [a \in Tracked |-> NoHistory]

-----------------------------------------------------------------------------
(* The two bounded queues.  Every operation appends at most one entry to a *)
(* queue that holds at most Limit, so each trimming loop runs at most once.*)

Overflows(order, a) == Len(Append(order, a)) > Limit

PushTrimmed(order, a) ==
  IF Overflows(order, a) THEN Tail(Append(order, a)) ELSE Append(order, a)

(* Append a to the completed window and forget what falls out of it.       *)
Remember(a) ==
  /\ completedOrder' = PushTrimmed(completedOrder, a)
  /\ completed' = IF Overflows(completedOrder, a)
                    THEN (completed \union {a}) \ {Head(completedOrder)}
                    ELSE completed \union {a}

(* Mutant: the test for an activity already remembered is missing.         *)
RememberAgain(a) == Remember(a)

RememberOnce(a) ==
  IF a \in completed THEN UNCHANGED <<completed, completedOrder>> ELSE Remember(a)

(* History: a's reply was cached; `done` are the activities that entered   *)
(* the completed window in the same step.                                  *)
NoteReply(a, appended, done) ==
  ghost' = [b \in Tracked |->
     IF b = a
       THEN [ghost[b] EXCEPT !.replies = Saturate(@, 2)]
       ELSE IF ghost[b].replies = 0 THEN ghost[b]
       ELSE [ghost[b] EXCEPT
               !.cachedAfter = IF appended THEN Saturate(@, Limit) ELSE @,
               !.completedAfter = IF done \ {b} # {} THEN Saturate(@, Limit) ELSE @]]

NoteCompleted(a) ==
  ghost' = [b \in Tracked |->
     IF b = a \/ ghost[b].replies = 0 \/ a \in completed THEN ghost[b]
     ELSE [ghost[b] EXCEPT !.completedAfter = Saturate(@, Limit)]]

NoteAccepted(a) ==
  ghost' = IF a \in Tracked THEN [ghost EXCEPT ![a].accepts = Saturate(@, 2)] ELSE ghost

-----------------------------------------------------------------------------
(* Mutant: the reply is queued for eviction but never stored.              *)
CacheReplyUnstored(a) ==
  /\ pendingOrder' = IF a \in pending THEN pendingOrder ELSE PushTrimmed(pendingOrder, a)
  /\ NoteReply(a, a \notin pending, {})
  /\ UNCHANGED <<pending, completed, completedOrder>>

(* _cache_activity_reply: keep the reply; the oldest kept reply beyond the *)
(* limit is dropped and its activity counted as completed.                 *)
CacheReply(a) ==
  LET appends == a \notin pending
      spills  == appends /\ Overflows(pendingOrder, a)
      expired == Head(Append(pendingOrder, a))
  IN /\ pendingOrder' = IF appends THEN PushTrimmed(pendingOrder, a) ELSE pendingOrder
     /\ pending' = IF spills THEN (pending \union {a}) \ {expired} ELSE pending \union {a}
     /\ IF spills THEN RememberOnce(expired) ELSE UNCHANGED <<completed, completedOrder>>
     /\ NoteReply(a, appends, IF spills THEN {expired} \ completed ELSE {})

(* Mutant: a delivered activity is released but not remembered.            *)
CompleteSuccessForgotten(a) ==
  /\ inflight' = inflight \ {a} /\ pending' = pending \ {a}
  /\ UNCHANGED <<completed, completedOrder, pendingOrder, ghost>>

(* _complete_activity.  The eviction entry in pendingOrder stays behind.   *)
CompleteSuccess(a) ==
  IF a \in Tracked
    THEN /\ inflight' = inflight \ {a}
         /\ pending' = pending \ {a}
         /\ RememberOnce(a)
         /\ NoteCompleted(a)
         /\ UNCHANGED pendingOrder
    ELSE UNCHANGED <<memory, ghost>>

(* Mutant: the early return for a failed delivery is missing.              *)
CompleteFailureAsSuccess(a) == CompleteSuccess(a)

(* Mutant: the kept reply is dropped before the early return.              *)
CompleteFailureDropsReply(a) ==
  /\ inflight' = inflight \ {a} /\ pending' = pending \ {a}
  /\ UNCHANGED <<completed, completedOrder, pendingOrder, ghost>>

(* Mutant: the claim is released only after the early return.              *)
CompleteFailureKeepsClaim(a) ==
  UNCHANGED <<inflight, completed, completedOrder, pending, pendingOrder, ghost>>

CompleteFailure(a) ==
  /\ inflight' = inflight \ {a}
  /\ UNCHANGED <<completed, completedOrder, pending, pendingOrder, ghost>>

-----------------------------------------------------------------------------
(* Bot Connector (outside src/) and the invocation of the handler          *)

Goto(c, place) == pc' = [pc EXCEPT ![c] = place]

Answer(a, outcome) == responses' = [responses EXCEPT ![a] = @ \union {outcome}]

Outstanding(a) == \E c \in Calls : pc[c] # "idle" /\ act[c] = a

(* Post an activity that has no successful response yet: for the first     *)
(* time, after a failure, or (EarlyRetry) after losing patience.           *)
Post(c, a) ==
  /\ pc[c] = "idle"
  /\ responses[a] = {}
  /\ EarlyRetry \/ ~Outstanding(a)
  /\ posted' = posted \union {a}
  /\ act' = [act EXCEPT ![c] = a]
  /\ Goto(c, "arrived")
  /\ UNCHANGED <<memory, responses, restarts, unheard, ghost>>

-----------------------------------------------------------------------------
(* handle_activity_message                                                 *)

(* Remembered as done although no acceptance of its reply was heard of:    *)
(* its cached reply was evicted.                                           *)
GivenUp(a) == a \in completed /\ ghost[a].accepts = 0

(* Not claimed: another invocation holds it, or it is remembered as done.  *)
(* The connector gets the same empty success whether the reply was sent    *)
(* ("duplicate") or is given up ("dropped").                               *)
DropDuplicate(c) ==
  /\ pc[c] = "arrived"
  /\ act[c] \in inflight \union completed
  /\ Goto(c, "idle")
  /\ Answer(act[c], IF GivenUp(act[c]) THEN "dropped" ELSE "duplicate")
  /\ UNCHANGED <<memory, act, posted, restarts, unheard, ghost>>

(* Mutant: only completed activities count as duplicates.                  *)
ClaimInFlightToo(c, streams) ==
  /\ pc[c] = "arrived"
  /\ act[c] \notin completed
  /\ inflight' = inflight \union ({act[c]} \intersect Tracked)
  /\ Goto(c, IF act[c] \notin pending THEN "running"
             ELSE IF streams THEN "streaming" ELSE "sending")
  /\ UNCHANGED <<completed, completedOrder, pending, pendingOrder,
                 act, posted, responses, restarts, unheard, ghost>>

(* Claimed: deliver the kept reply, or run a turn when there is none.  The *)
(* channel may or may not offer a streaming response.                      *)
Claim(c, streams) ==
  /\ pc[c] = "arrived"
  /\ act[c] \notin inflight \union completed
  /\ inflight' = inflight \union ({act[c]} \intersect Tracked)
  /\ Goto(c, IF act[c] \notin pending THEN "running"
             ELSE IF streams THEN "streaming" ELSE "sending")
  /\ UNCHANGED <<completed, completedOrder, pending, pendingOrder,
                 act, posted, responses, restarts, unheard, ghost>>

(* _activity_reply returns; the reply is cached before anything is sent.   *)
TurnReplies(c, streams) ==
  /\ pc[c] = "running"
  /\ IF act[c] \in Tracked THEN CacheReply(act[c])
     ELSE UNCHANGED <<completed, completedOrder, pending, pendingOrder, ghost>>
  /\ Goto(c, IF streams THEN "streaming" ELSE "sending")
  /\ UNCHANGED <<inflight, act, posted, responses, restarts, unheard>>

(* The channel accepts the reply, by stream or by send_activity, and the   *)
(* call returns.                                                           *)
ChannelAccepts(c) ==
  /\ pc[c] \in Delivering
  /\ Goto(c, "accepted")
  /\ NoteAccepted(act[c])
  /\ UNCHANGED <<memory, act, posted, responses, restarts, unheard>>

(* The channel accepts the reply, but the acknowledgement is lost and the  *)
(* call raises all the same: the handler goes on as if nothing was sent.   *)
AcceptedUnheard(c) ==
  /\ pc[c] \in Delivering
  /\ Goto(c, IF pc[c] \in {"streaming", "cancelled"} THEN "fallback" ELSE "undelivered")
  /\ IF act[c] \in Tracked /\ ghost[act[c]].accepts = 0
       THEN unheard' = unheard \union {act[c]} /\ UNCHANGED ghost
       ELSE NoteAccepted(act[c]) /\ UNCHANGED unheard
  /\ UNCHANGED <<memory, act, posted, responses, restarts>>

(* The stream ends without an exception but marked _cancelled: the reply   *)
(* is sent as an ordinary message.                                         *)
StreamCancelled(c) ==
  /\ pc[c] = "streaming"
  /\ Goto(c, "cancelled")
  /\ UNCHANGED <<memory, act, posted, responses, restarts, unheard, ghost>>

(* Streaming, or the ordinary message sent for a cancelled stream, raises  *)
(* with nothing accepted: the reply is sent (again) as an ordinary message.*)
StreamRaises(c) ==
  /\ pc[c] \in {"streaming", "cancelled"}
  /\ Goto(c, "fallback")
  /\ UNCHANGED <<memory, act, posted, responses, restarts, unheard, ghost>>

(* The last ordinary message is rejected: ActivityDeliveryError.           *)
SendRejected(c) ==
  /\ pc[c] \in {"fallback", "sending"}
  /\ Goto(c, "undelivered")
  /\ UNCHANGED <<memory, act, posted, responses, restarts, unheard, ghost>>

(* Any other exception: the turn fails, the progress task does, or the     *)
(* stream cannot be reset before the fallback.                             *)
HandlerFails(c) ==
  /\ pc[c] \in {"running", "streaming", "fallback"}
  /\ Goto(c, "failed")
  /\ UNCHANGED <<memory, act, posted, responses, restarts, unheard, ghost>>

(* finally, after an accepted delivery; the connector gets its response.   *)
ReturnDelivered(c) ==
  /\ pc[c] = "accepted"
  /\ CompleteSuccess(act[c])
  /\ Answer(act[c], "delivered")
  /\ Goto(c, "idle")
  /\ UNCHANGED <<act, posted, restarts, unheard>>

(* finally, then handle_activity_error re-raises ActivityDeliveryError: a  *)
(* failed response, so the connector is free to retry.                     *)
RaiseUndelivered(c) ==
  /\ pc[c] = "undelivered"
  /\ CompleteFailure(act[c])
  /\ Goto(c, "idle")
  /\ UNCHANGED <<act, posted, responses, restarts, unheard>>

(* finally, then handle_activity_error apologises for anything else ...    *)
RaiseFailed(c) ==
  /\ pc[c] = "failed"
  /\ CompleteFailure(act[c])
  /\ Goto(c, "apologising")
  /\ UNCHANGED <<act, posted, responses, restarts, unheard>>

(* ... which counts as success for the connector, unless it fails too.     *)
Apologise(c) ==
  /\ pc[c] = "apologising"
  /\ Goto(c, "idle")
  /\ Answer(act[c], "apologised")
  /\ UNCHANGED <<memory, act, posted, restarts, unheard, ghost>>

ApologyRejected(c) ==
  /\ pc[c] = "apologising"
  /\ Goto(c, "idle")
  /\ UNCHANGED <<memory, act, posted, responses, restarts, unheard, ghost>>

-----------------------------------------------------------------------------
(* The process restarts: its memory and its invocations are gone, and the  *)
(* requests they served fail.                                              *)
Restart ==
  /\ restarts < MaxRestarts
  /\ restarts' = restarts + 1
  /\ inflight' = {} /\ completed' = {} /\ completedOrder' = <<>>
  /\ pending' = {} /\ pendingOrder' = <<>>
  /\ pc' = [c \in Calls |-> "idle"]
  /\ unheard' = {}
  /\ ghost' = [a \in Tracked |-> NoHistory]
  /\ UNCHANGED <<act, posted, responses>>

Handler(c) ==
  \/ DropDuplicate(c)
  \/ \E streams \in BOOLEAN : Claim(c, streams) \/ TurnReplies(c, streams)
  \/ ChannelAccepts(c) \/ AcceptedUnheard(c)
  \/ StreamCancelled(c) \/ StreamRaises(c) \/ SendRejected(c) \/ HandlerFails(c)
  \/ ReturnDelivered(c) \/ RaiseUndelivered(c) \/ RaiseFailed(c)
  \/ Apologise(c) \/ ApologyRejected(c)

Next ==
  \/ \E c \in Calls, a \in Activities : Post(c, a)
  \/ \E c \in Calls : Handler(c)
  \/ Restart

Spec == Init /\ [][Next]_vars

(* The connector keeps retrying what has no successful response, handlers  *)
(* run to completion, and a channel that is tried again and again accepts  *)
(* in the end and says so (as does the apology).                           *)
Fairness ==
  /\ \A a \in Activities : SF_vars(\E c \in Calls : Post(c, a))
  /\ \A c \in Calls :
       /\ WF_vars(Handler(c))
       /\ \A a \in Activities :
            /\ SF_vars(act[c] = a /\ ChannelAccepts(c))
            /\ SF_vars(act[c] = a /\ Apologise(c))

FairSpec == Spec /\ Fairness

-----------------------------------------------------------------------------
(* Properties                                                              *)

Entries(order) == {order[i] : i \in 1..Len(order)}

Distinct(order) == \A i, j \in 1..Len(order) : order[i] = order[j] => i = j

(* Two handlers never work on the same identified activity, and the set of *)
(* activities in flight is exactly what handlers hold: no claim leaks past *)
(* any exit of handle_activity_message, and none is released early.        *)
OneHandlerPerActivity ==
  /\ inflight = {act[c] : c \in {d \in Calls : pc[d] \in Claimed}} \intersect Tracked
  /\ \A c, d \in Calls :
       pc[c] \in Claimed /\ pc[d] \in Claimed /\ act[c] = act[d] /\ act[c] \in Tracked
         => c = d

(* The memory stays within the limit and nothing escapes eviction: the     *)
(* completed set is its order without repetition, and every kept reply     *)
(* still has an entry in the eviction queue although _complete_activity    *)
(* leaves entries of delivered replies there.                              *)
MemoryBounded ==
  /\ Len(completedOrder) <= Limit
  /\ Len(pendingOrder) <= Limit
  /\ completed = Entries(completedOrder)
  /\ Distinct(completedOrder)
  /\ pending \subseteq Entries(pendingOrder)

(* _claim_activity, _cache_activity_reply and _complete_activity,          *)
(* main.py:281-327: through every mixture of deliveries, evictions and     *)
(* restarts the memory stays bounded, consistent and well typed.           *)
MemoryIsSound == TypeOK /\ MemoryBounded

(* A turn, with its side effects, is repeated for an activity that already *)
(* got a reply only after the window of remembered activities has passed   *)
(* over it.                                                                *)
RerunOnlyAfterWindow ==
  \A c \in Calls :
    pc[c] = "running" /\ act[c] \in Tracked /\ ghost[act[c]].replies > 0
      => ghost[act[c]].completedAfter = Limit

(* Once a handler learnt that the channel accepted the reply, the channel  *)
(* gets another one only after the window has passed, whatever mixture of  *)
(* streaming, fallback and retry delivered it.  Excepted is what came      *)
(* before: a call that raises although the channel accepted (a lost        *)
(* acknowledgement) makes the fallback and every retry send the kept reply *)
(* again, main.py:432-460, until an acceptance is heard of.                *)
DeliveredOnceWithinWindow ==
  \A a \in Tracked : ghost[a].accepts > 1 => ghost[a].completedAfter = Limit

(* A computed reply of which no acceptance was heard is given up (its      *)
(* activity counted as completed, main.py:302-307) only after Limit later  *)
(* replies were cached.                                                    *)
GivenUpOnlyAfterWindow ==
  \A a \in completed :
    ghost[a].replies > 0 /\ ghost[a].accepts = 0 => ghost[a].cachedAfter = Limit

(* The promise of the bounded memory, _cache_activity_reply and            *)
(* _complete_activity: whatever the order of evictions, retries,           *)
(* deliveries and lost acknowledgements, an activity is worked on again,   *)
(* answered again after an acceptance the handler learnt of, or given up   *)
(* only once the window has passed over it.                                *)
WithinWindow ==
  RerunOnlyAfterWindow /\ DeliveredOnceWithinWindow /\ GivenUpOnlyAfterWindow

(* handle_activity_error, main.py:484-488: after a failed delivery the     *)
(* connector retries and the handler resends the kept reply, so every      *)
(* posted activity ends with its reply or with an apology.  Excepted are   *)
(* the activities that Limit others overtake meanwhile: their unsent       *)
(* reply is evicted, they count as completed (main.py:302-307), and the    *)
(* retry that finds them so is dropped with nothing sent.                  *)
EveryActivityAnswered ==
  \A a \in Activities :
    a \in posted ~> responses[a] \intersect {"delivered", "apologised", "dropped"} # {}

-----------------------------------------------------------------------------
(* The abstract promise.  An activity's status, as its sender sees it.     *)

Status(a) ==
  IF ghost[a].accepts > 1 THEN "repeated"
  ELSE IF \E c \in Calls : pc[c] = "running" /\ act[c] = a THEN "working"
  ELSE IF ghost[a].accepts > 0 THEN "answered"
  ELSE IF a \notin pending THEN "waiting"
  ELSE IF a \in unheard THEN "unheard" ELSE "ready"

(* The memory has moved past a: Limit replies were cached, or Limit        *)
(* activities completed, since a got its reply.                            *)
Passed(a) == ghost[a].completedAfter = Limit \/ ghost[a].cachedAfter = Limit

Promise == INSTANCE ActivityAnswer
             WITH Activities <- Tracked, status <- [a \in Tracked |-> Status(a)],
                  lapsed <- {a \in Tracked : Passed(a)}, life <- restarts

(* As long as the memory has not moved past an activity and the process    *)
(* lives, delivery implements the abstract promise: no interleaving of     *)
(* retries and lost acknowledgements repeats a turn that replied, drops    *)
(* its reply before an acceptance was heard of, or sends it again after.   *)
ImplementsPromise == Promise!Spec

=============================================================================
