----------------------- MODULE ActivityDeliveryProofs -----------------------
(***************************************************************************)
(* Theorems about ActivityDelivery for every set of activities and         *)
(* handlers and every limit: type correctness, the bounds of the memory,   *)
(* mutual exclusion of handlers per activity, the window of remembered     *)
(* activities, and that delivery implements ActivityAnswer.                *)
(***************************************************************************)
EXTENDS ActivityDelivery, SequenceTheorems, TLAPS

-----------------------------------------------------------------------------
(* The bounded queues                                                      *)

(* Appending to a queue within its limit and trimming it keeps the limit,  *)
(* forgets nothing but the oldest entry, and only when the queue was full. *)
LEMMA PushTrimmedProperties ==
  ASSUME NEW order \in Seq(Tracked), Len(order) <= Limit, NEW a \in Tracked
  PROVE  /\ PushTrimmed(order, a) \in Seq(Tracked)
         /\ Len(PushTrimmed(order, a)) <= Limit
         /\ ~Overflows(order, a) => Entries(PushTrimmed(order, a)) = Entries(order) \union {a}
         /\ Overflows(order, a) =>
              /\ Head(order) \in Tracked
              /\ Head(Append(order, a)) = Head(order)
              /\ Entries(PushTrimmed(order, a)) \union {Head(order)} = Entries(order) \union {a}
         /\ Distinct(order) /\ a \notin Entries(order) =>
              /\ Distinct(PushTrimmed(order, a))
              /\ Overflows(order, a) => Head(order) \notin Entries(PushTrimmed(order, a))
<1> DEFINE o == Append(order, a)
           t == Tail(o)
<1>1. /\ o \in Seq(Tracked)
      /\ Len(o) = Len(order) + 1
      /\ \A i \in 1..Len(order) : o[i] = order[i]
      /\ o[Len(o)] = a
  BY AppendProperties
<1>2. Len(order) \in Nat /\ Limit \in Nat /\ Limit > 0
  BY ActivityAssumption
<1>3. Entries(o) = Entries(order) \union {a}
  BY <1>1, <1>2 DEF Entries
<1>4. Distinct(order) /\ a \notin Entries(order) => Distinct(o)
  BY <1>1, <1>2 DEF Entries, Distinct
<1>5. CASE ~Overflows(order, a)
  BY <1>5, <1>1, <1>2, <1>3, <1>4 DEF PushTrimmed, Overflows
<1>6. CASE Overflows(order, a)
  <2>1. Len(o) > Limit /\ PushTrimmed(order, a) = t /\ Len(order) = Limit
    BY <1>6, <1>1, <1>2 DEF PushTrimmed, Overflows
  <2>2. o # <<>> /\ order # <<>>
    BY <2>1, <1>1, <1>2, EmptySeq
  <2>3. /\ t \in Seq(Tracked)
        /\ Len(t) = Len(o) - 1
        /\ \A i \in 1..Len(t) : t[i] = o[i + 1]
        /\ Head(o) = o[1]
    BY <1>1, <2>2, HeadTailProperties
  <2>4. Head(order) = order[1] /\ order[1] \in Tracked /\ o[1] = order[1]
    BY <1>1, <1>2, <2>1, <2>2, HeadTailProperties, ElementOfSeq
  <2>5. Entries(t) \union {o[1]} = Entries(o)
    <3>1. Entries(t) \subseteq Entries(o)
      BY <2>3, <1>1, <1>2 DEF Entries
    <3>2. o[1] \in Entries(o)
      BY <1>1, <1>2, <2>1 DEF Entries
    <3>3. ASSUME NEW i \in 1..Len(o), i # 1 PROVE o[i] \in Entries(t)
      <4>1. i - 1 \in 1..Len(t) /\ t[i - 1] = o[i]
        BY <3>3, <2>3, <1>1, <1>2
      <4>2. QED
        BY <4>1 DEF Entries
    <3>4. QED
      BY <3>1, <3>2, <3>3 DEF Entries
  <2>6. ASSUME Distinct(o) PROVE Distinct(t) /\ o[1] \notin Entries(t)
    <3>1. ASSUME NEW i \in 1..Len(t), NEW j \in 1..Len(t), t[i] = t[j] PROVE i = j
      <4>1. i + 1 \in 1..Len(o) /\ j + 1 \in 1..Len(o) /\ o[i + 1] = o[j + 1]
        BY <3>1, <2>3, <1>1, <1>2
      <4>2. i + 1 = j + 1
        BY <4>1, <2>6 DEF Distinct
      <4>3. QED
        BY <4>2
    <3>2. ASSUME NEW i \in 1..Len(t), t[i] = o[1] PROVE FALSE
      <4>1. i + 1 \in 1..Len(o) /\ 1 \in 1..Len(o) /\ o[i + 1] = o[1] /\ i + 1 # 1
        BY <3>2, <2>3, <1>1, <1>2
      <4>2. QED
        BY <4>1, <2>6 DEF Distinct
    <3>3. QED
      BY <3>1, <3>2 DEF Distinct, Entries
  <2>7. QED
    BY <1>6, <2>1, <2>3, <2>4, <2>5, <2>6, <1>2, <1>3, <1>4, <1>1
<1>7. QED
  BY <1>5, <1>6

-----------------------------------------------------------------------------
(* The memory: what _cache_activity_reply and _complete_activity preserve  *)

CompletedInv ==
  /\ completedOrder \in Seq(Tracked)
  /\ Len(completedOrder) <= Limit
  /\ completed = Entries(completedOrder)
  /\ Distinct(completedOrder)

PendingInv ==
  /\ pendingOrder \in Seq(Tracked)
  /\ Len(pendingOrder) <= Limit
  /\ pending \subseteq Entries(pendingOrder)

(* The entries of a queue of activities are activities.                    *)
LEMMA EntriesTyped ==
  ASSUME NEW S, NEW s \in Seq(S)
  PROVE  Entries(s) \subseteq S
BY ElementOfSeq DEF Entries

(* Remembering a completed activity keeps the completed set, its queue and  *)
(* the limit in agreement.                                                 *)
LEMMA RememberOnceKeepsInv ==
  ASSUME CompletedInv, NEW a \in Tracked, RememberOnce(a)
  PROVE  CompletedInv'
<1>1. CASE a \in completed
  BY <1>1 DEF RememberOnce, CompletedInv, Entries, Distinct
<1>2. CASE a \notin completed
  <2>1. Remember(a) /\ a \notin Entries(completedOrder)
    BY <1>2 DEF RememberOnce, CompletedInv
  <2>2. /\ PushTrimmed(completedOrder, a) \in Seq(Tracked)
        /\ Len(PushTrimmed(completedOrder, a)) <= Limit
        /\ ~Overflows(completedOrder, a) =>
             Entries(PushTrimmed(completedOrder, a)) = Entries(completedOrder) \union {a}
        /\ Overflows(completedOrder, a) =>
             Entries(PushTrimmed(completedOrder, a)) \union {Head(completedOrder)}
               = Entries(completedOrder) \union {a}
        /\ Distinct(PushTrimmed(completedOrder, a))
        /\ Overflows(completedOrder, a) =>
             Head(completedOrder) \notin Entries(PushTrimmed(completedOrder, a))
    BY <2>1, PushTrimmedProperties DEF CompletedInv
  <2>3. completedOrder' = PushTrimmed(completedOrder, a)
    BY <2>1 DEF Remember
  <2>4. completed' = Entries(PushTrimmed(completedOrder, a))
    BY <2>1, <2>2 DEF Remember, CompletedInv
  <2>5. Entries(completedOrder)' = Entries(PushTrimmed(completedOrder, a))
    BY <2>3 DEF Entries
  <2>6. Distinct(completedOrder)'
    BY <2>2, <2>3 DEF Distinct
  <2>7. QED
    BY <2>2, <2>3, <2>4, <2>5, <2>6 DEF CompletedInv
<1>3. QED
  BY <1>1, <1>2

(* Keeping an undelivered reply keeps the kept replies and their queue in  *)
(* agreement, with at most the limit of them.                              *)
LEMMA CacheReplyKeepsInv ==
  ASSUME CompletedInv, PendingInv, NEW a \in Tracked, CacheReply(a)
  PROVE  CompletedInv' /\ PendingInv'
<1> DEFINE expired == Head(Append(pendingOrder, a))
<1>1. /\ PushTrimmed(pendingOrder, a) \in Seq(Tracked)
      /\ Len(PushTrimmed(pendingOrder, a)) <= Limit
      /\ ~Overflows(pendingOrder, a) =>
           Entries(PushTrimmed(pendingOrder, a)) = Entries(pendingOrder) \union {a}
      /\ Overflows(pendingOrder, a) =>
           /\ expired \in Tracked
           /\ Entries(PushTrimmed(pendingOrder, a)) \union {expired}
                = Entries(pendingOrder) \union {a}
  BY PushTrimmedProperties DEF PendingInv
<1>2. CASE a \in pending
  <2>1. /\ pendingOrder' = pendingOrder
        /\ pending' = pending
        /\ UNCHANGED <<completed, completedOrder>>
    BY <1>2 DEF CacheReply
  <2>2. QED
    BY <2>1 DEF CompletedInv, PendingInv, Entries, Distinct
<1>3. CASE a \notin pending /\ ~Overflows(pendingOrder, a)
  <2>1. /\ pendingOrder' = PushTrimmed(pendingOrder, a)
        /\ pending' = pending \union {a}
        /\ UNCHANGED <<completed, completedOrder>>
    BY <1>3 DEF CacheReply
  <2>2. Entries(pendingOrder)' = Entries(pendingOrder) \union {a}
    BY <2>1, <1>1, <1>3 DEF Entries
  <2>3. PendingInv'
    BY <2>1, <2>2, <1>1 DEF PendingInv
  <2>4. CompletedInv'
    BY <2>1 DEF CompletedInv, Entries, Distinct
  <2>5. QED
    BY <2>3, <2>4
<1>4. CASE a \notin pending /\ Overflows(pendingOrder, a)
  <2>1. /\ pendingOrder' = PushTrimmed(pendingOrder, a)
        /\ pending' = (pending \union {a}) \ {expired}
        /\ RememberOnce(expired)
    BY <1>4 DEF CacheReply
  <2>2. Entries(pendingOrder)' \union {expired} = Entries(pendingOrder) \union {a}
    BY <2>1, <1>1, <1>4 DEF Entries
  <2>3. PendingInv'
    BY <2>1, <2>2, <1>1 DEF PendingInv
  <2>4. CompletedInv'
    BY <2>1, <1>1, <1>4, RememberOnceKeepsInv
  <2>5. QED
    BY <2>3, <2>4
<1>5. QED
  BY <1>2, <1>3, <1>4

(* Completing an activity forgets its reply and remembers it, within the   *)
(* limits.                                                                 *)
LEMMA CompleteSuccessKeepsInv ==
  ASSUME CompletedInv, PendingInv, NEW a, CompleteSuccess(a)
  PROVE  CompletedInv' /\ PendingInv'
<1>1. CASE a \in Tracked
  <2>1. RememberOnce(a) /\ pending' = pending \ {a} /\ pendingOrder' = pendingOrder
    BY <1>1 DEF CompleteSuccess
  <2>2. CompletedInv'
    BY <2>1, <1>1, RememberOnceKeepsInv
  <2>3. PendingInv'
    BY <2>1 DEF PendingInv, Entries
  <2>4. QED
    BY <2>2, <2>3
<1>2. CASE a \notin Tracked
  BY <1>2 DEF CompleteSuccess, memory, CompletedInv, PendingInv, Entries, Distinct
<1>3. QED
  BY <1>1, <1>2

-----------------------------------------------------------------------------
(* The inductive invariant                                                 *)

Inv == TypeOK /\ MemoryBounded /\ OneHandlerPerActivity

(* The memory's bounds and types, as the steps below use them.             *)
LEMMA MemoryParts ==
  ASSUME TypeOK
  PROVE  MemoryBounded <=> CompletedInv /\ PendingInv
BY DEF TypeOK, MemoryBounded, CompletedInv, PendingInv

(* What every step does to the bounded memory.                             *)
LEMMA MemoryStep ==
  ASSUME Next
  PROVE  \/ \E c \in Calls : act[c] \in Tracked /\ CacheReply(act[c])
         \/ \E c \in Calls : CompleteSuccess(act[c])
         \/ /\ completed' = {} /\ completedOrder' = <<>>
            /\ pending' = {} /\ pendingOrder' = <<>>
            /\ ghost' = [a \in Tracked |-> NoHistory]
         \/ UNCHANGED <<completed, completedOrder, pending, pendingOrder>>
<1>1. ASSUME NEW c \in Calls, NEW a \in Activities, Post(c, a)
      PROVE  UNCHANGED <<completed, completedOrder, pending, pendingOrder>>
  BY <1>1 DEF Post, memory
<1>2. CASE Restart
  BY <1>2 DEF Restart
<1>3. ASSUME NEW c \in Calls, Handler(c)
      PROVE  \/ act[c] \in Tracked /\ CacheReply(act[c])
             \/ CompleteSuccess(act[c])
             \/ UNCHANGED <<completed, completedOrder, pending, pendingOrder>>
  BY <1>3 DEF Handler, DropDuplicate, Claim, TurnReplies, ChannelAccepts, AcceptedUnheard,
     StreamCancelled, StreamRaises, SendRejected, HandlerFails, ReturnDelivered, RaiseUndelivered, RaiseFailed,
     CompleteFailure, Apologise, ApologyRejected, memory
<1>4. QED
  BY <1>1, <1>2, <1>3 DEF Next

(* Every step keeps the memory bounded.                                    *)
LEMMA MemoryBoundedStep ==
  ASSUME Inv, [Next]_vars
  PROVE  CompletedInv' /\ PendingInv'
<1>1. CompletedInv /\ PendingInv
  BY MemoryParts DEF Inv
<1>2. ASSUME UNCHANGED <<completed, completedOrder, pending, pendingOrder>>
      PROVE  CompletedInv' /\ PendingInv'
  BY <1>1, <1>2 DEF CompletedInv, PendingInv, Entries, Distinct
<1>3. ASSUME completed' = {}, completedOrder' = <<>>, pending' = {}, pendingOrder' = <<>>
      PROVE  CompletedInv' /\ PendingInv'
  BY <1>3, ActivityAssumption DEF CompletedInv, PendingInv, Entries, Distinct
<1>4. CASE Next
  BY <1>1, <1>2, <1>3, <1>4, MemoryStep, CacheReplyKeepsInv, CompleteSuccessKeepsInv
<1>5. CASE UNCHANGED vars
  BY <1>2, <1>5 DEF vars, memory
<1>6. QED
  BY <1>4, <1>5

(* Every step keeps the types of the history variables.                    *)
LEMMA HistoryStep ==
  ASSUME TypeOK, [Next]_vars
  PROVE  ghost' \in [Tracked -> History]
<1>1. /\ ghost \in [Tracked -> History]
      /\ act \in [Calls -> Activities]
      /\ Limit \in Nat
  BY ActivityAssumption DEF TypeOK
<1>2. /\ NoHistory \in History
      /\ \A n \in 0..2 : Saturate(n, 2) \in 0..2
      /\ \A n \in 0..Limit : Saturate(n, Limit) \in 0..Limit
  BY <1>1 DEF NoHistory, History, Saturate
<1>3. ASSUME NEW a, NEW appended, NEW done, NoteReply(a, appended, done)
      PROVE  ghost' \in [Tracked -> History]
  BY <1>1, <1>2, <1>3 DEF NoteReply, History
<1>4. ASSUME NEW a, NoteCompleted(a)
      PROVE  ghost' \in [Tracked -> History]
  BY <1>1, <1>2, <1>4 DEF NoteCompleted, History
<1>5. ASSUME NEW a, CompleteSuccess(a)
      PROVE  ghost' \in [Tracked -> History]
  BY <1>1, <1>4, <1>5 DEF CompleteSuccess
<1>6. ASSUME NEW c \in Calls, ChannelAccepts(c) \/ AcceptedUnheard(c)
      PROVE  ghost' \in [Tracked -> History]
  BY <1>1, <1>2, <1>6 DEF ChannelAccepts, AcceptedUnheard, NoteAccepted, History
<1>7. ASSUME NEW c \in Calls, Handler(c)
      PROVE  ghost' \in [Tracked -> History]
  BY <1>1, <1>3, <1>5, <1>6, <1>7 DEF Handler, DropDuplicate, Claim, TurnReplies, CacheReply,
     StreamCancelled, StreamRaises, SendRejected, HandlerFails, ReturnDelivered,
     RaiseUndelivered, RaiseFailed, CompleteFailure, Apologise, ApologyRejected
<1>8. ASSUME NEW c \in Calls, NEW a \in Activities, Post(c, a)
      PROVE  ghost' \in [Tracked -> History]
  BY <1>1, <1>8 DEF Post
<1>9. CASE Restart
  BY <1>2, <1>9 DEF Restart
<1>10. CASE UNCHANGED vars
  BY <1>1, <1>10 DEF vars
<1>11. QED
  BY <1>7, <1>8, <1>9, <1>10 DEF Next

(* Every step keeps the types of the handlers and their claims.            *)
LEMMA HandlerTypes ==
  ASSUME TypeOK, [Next]_vars
  PROVE  /\ inflight' \subseteq Tracked
         /\ pc' \in [Calls -> Places]
         /\ act' \in [Calls -> Activities]
         /\ posted' \subseteq Activities
         /\ responses' \in [Activities -> SUBSET Outcomes]
         /\ restarts' \in 0..MaxRestarts
         /\ unheard' \subseteq Tracked
<1> DEFINE Goal == /\ inflight' \subseteq Tracked
                   /\ pc' \in [Calls -> Places]
                   /\ act' \in [Calls -> Activities]
                   /\ posted' \subseteq Activities
                   /\ responses' \in [Activities -> SUBSET Outcomes]
                   /\ restarts' \in 0..MaxRestarts
                   /\ unheard' \subseteq Tracked
<1> USE DEF TypeOK, Goto, Places, Claimed, Working, Delivering, Leaving, Outcomes
<1>1. ASSUME NEW c \in Calls, NEW a \in Activities, Post(c, a) PROVE Goal
  BY <1>1 DEF Post, memory
<1>2. ASSUME NEW c \in Calls, DropDuplicate(c) PROVE Goal
  BY <1>2 DEF DropDuplicate, Answer, memory
<1>3. ASSUME NEW c \in Calls, NEW streams \in BOOLEAN, Claim(c, streams) PROVE Goal
  BY <1>3 DEF Claim
<1>4. ASSUME NEW c \in Calls, NEW streams \in BOOLEAN, TurnReplies(c, streams) PROVE Goal
  BY <1>4 DEF TurnReplies
<1>5. ASSUME NEW c \in Calls, ChannelAccepts(c) \/ StreamCancelled(c) \/ StreamRaises(c)
                                 \/ SendRejected(c) \/ HandlerFails(c)
      PROVE Goal
  BY <1>5 DEF ChannelAccepts, StreamCancelled, StreamRaises, SendRejected, HandlerFails, memory
<1>12. ASSUME NEW c \in Calls, AcceptedUnheard(c) PROVE Goal
  BY <1>12 DEF AcceptedUnheard, memory
<1>6. ASSUME NEW c \in Calls, ReturnDelivered(c) PROVE Goal
  <2>1. inflight' \subseteq inflight
    BY <1>6 DEF ReturnDelivered, CompleteSuccess, memory
  <2>2. QED
    BY <2>1, <1>6 DEF ReturnDelivered, Answer
<1>7. ASSUME NEW c \in Calls, RaiseUndelivered(c) \/ RaiseFailed(c) PROVE Goal
  BY <1>7 DEF RaiseUndelivered, RaiseFailed, CompleteFailure
<1>8. ASSUME NEW c \in Calls, Apologise(c) \/ ApologyRejected(c) PROVE Goal
  BY <1>8 DEF Apologise, ApologyRejected, Answer, memory
<1>9. CASE Restart
  BY <1>9, ActivityAssumption DEF Restart
<1>10. CASE UNCHANGED vars
  BY <1>10 DEF vars, memory
<1>11. QED
  BY <1>1, <1>2, <1>3, <1>4, <1>5, <1>6, <1>7, <1>8, <1>9, <1>10, <1>12 DEF Next, Handler

(* Every step keeps the types.                                             *)
LEMMA TypeStep == Inv /\ [Next]_vars => TypeOK'
<1> SUFFICES ASSUME Inv, [Next]_vars PROVE TypeOK'
  OBVIOUS
<1>1. CompletedInv' /\ PendingInv'
  BY MemoryBoundedStep
<1>2. completedOrder' \in Seq(Tracked) /\ completed' \subseteq Tracked
  <2>1. completedOrder' \in Seq(Tracked) /\ completed' = Entries(completedOrder')
    BY <1>1 DEF CompletedInv, Entries
  <2>2. QED
    BY <2>1, EntriesTyped
<1>3. pendingOrder' \in Seq(Tracked) /\ pending' \subseteq Tracked
  <2>1. pendingOrder' \in Seq(Tracked) /\ pending' \subseteq Entries(pendingOrder')
    BY <1>1 DEF PendingInv, Entries
  <2>2. QED
    BY <2>1, EntriesTyped
<1>4. QED
  BY <1>2, <1>3, HandlerTypes, HistoryStep DEF TypeOK, Inv

(* Every step keeps claims and handlers in agreement.                      *)
LEMMA ExclusiveStep == Inv /\ [Next]_vars => OneHandlerPerActivity'
<1> SUFFICES ASSUME Inv, [Next]_vars PROVE OneHandlerPerActivity'
  OBVIOUS
<1> USE DEF Inv, TypeOK, OneHandlerPerActivity, Goto, Claimed, Working, Delivering, Leaving
<1>1. ASSUME NEW c \in Calls, NEW a \in Activities, Post(c, a)
      PROVE  OneHandlerPerActivity'
  BY <1>1 DEF Post, memory
<1>2. ASSUME NEW c \in Calls, DropDuplicate(c)
      PROVE  OneHandlerPerActivity'
  BY <1>2 DEF DropDuplicate, memory
<1>3. ASSUME NEW c \in Calls, NEW streams \in BOOLEAN, Claim(c, streams)
      PROVE  OneHandlerPerActivity'
  BY <1>3 DEF Claim
<1>4. ASSUME NEW c \in Calls, NEW streams \in BOOLEAN, TurnReplies(c, streams)
      PROVE  OneHandlerPerActivity'
  BY <1>4 DEF TurnReplies
<1>5. ASSUME NEW c \in Calls, ChannelAccepts(c) \/ AcceptedUnheard(c) \/ StreamCancelled(c)
                                 \/ StreamRaises(c) \/ SendRejected(c) \/ HandlerFails(c)
      PROVE  OneHandlerPerActivity'
  BY <1>5 DEF ChannelAccepts, AcceptedUnheard, StreamCancelled, StreamRaises, SendRejected,
              HandlerFails, memory
<1>6. ASSUME NEW c \in Calls, ReturnDelivered(c) \/ RaiseUndelivered(c) \/ RaiseFailed(c)
      PROVE  OneHandlerPerActivity'
  <2>1. /\ pc[c] \in Leaving
        /\ \E p \in {"idle", "apologising"} : pc' = [pc EXCEPT ![c] = p]
        /\ act' = act
    BY <1>6 DEF ReturnDelivered, RaiseUndelivered, RaiseFailed
  <2>2. inflight' = inflight \ {act[c]}
    BY <1>6 DEF ReturnDelivered, RaiseUndelivered, RaiseFailed, CompleteSuccess,
                CompleteFailure, memory
  <2>3. QED
    BY <2>1, <2>2
<1>7. ASSUME NEW c \in Calls, Apologise(c) \/ ApologyRejected(c)
      PROVE  OneHandlerPerActivity'
  <2>1. /\ pc[c] = "apologising"
        /\ pc' = [pc EXCEPT ![c] = "idle"]
        /\ act' = act
        /\ inflight' = inflight
    BY <1>7 DEF Apologise, ApologyRejected, memory
  <2>2. \A d \in Calls : pc'[d] \in Claimed <=> pc[d] \in Claimed
    BY <2>1
  <2>3. QED
    BY <2>1, <2>2
<1>8. CASE Restart
  BY <1>8 DEF Restart
<1>9. CASE UNCHANGED vars
  BY <1>9 DEF vars, memory
<1>10. QED
  BY <1>1, <1>2, <1>3, <1>4, <1>5, <1>6, <1>7, <1>8, <1>9 DEF Next, Handler

(* The initial state satisfies the invariant.                              *)
LEMMA InvInit == Init => Inv
<1> SUFFICES ASSUME Init PROVE Inv
  OBVIOUS
<1>1. TypeOK
  BY ActivityAssumption DEF Init, TypeOK, Places, NoHistory, History
<1>2. MemoryBounded
  BY ActivityAssumption DEF Init, MemoryBounded, Entries, Distinct
<1>3. OneHandlerPerActivity
  BY DEF Init, OneHandlerPerActivity, Claimed, Working, Delivering, Leaving
<1>4. QED
  BY <1>1, <1>2, <1>3 DEF Inv

(* Every step keeps the invariant.                                         *)
LEMMA InvStep == Inv /\ [Next]_vars => Inv'
<1> SUFFICES ASSUME Inv, [Next]_vars PROVE Inv'
  OBVIOUS
<1>1. TypeOK' /\ OneHandlerPerActivity'
  BY TypeStep, ExclusiveStep
<1>2. CompletedInv' /\ PendingInv'
  BY MemoryBoundedStep
<1>3. MemoryBounded'
  BY <1>2 DEF CompletedInv, PendingInv, MemoryBounded
<1>4. QED
  BY <1>1, <1>3 DEF Inv

(* The invariant holds of every behaviour.                                 *)
THEOREM InvHolds == Spec => []Inv
BY InvInit, InvStep, PTL DEF Spec

-----------------------------------------------------------------------------
(* The window of remembered activities                                     *)

(* The window of remembered activities has passed over the activity.       *)
Gone(a) == ghost[a].completedAfter = Limit

(* What the memory remembers had a reply, and a reply is remembered until  *)
(* the window has passed.                                                  *)
RepliesInv ==
  /\ \A a \in completed \union Entries(pendingOrder) : ghost[a].replies > 0
  /\ \A a \in Tracked : ghost[a].replies > 0 => Gone(a) \/ a \in pending \union completed

(* Whoever stands before others in a queue was passed by each of them.     *)
CompletedAges ==
  \A i \in 1..Len(completedOrder) :
    ghost[completedOrder[i]].completedAfter >= Len(completedOrder) - i

PendingAges ==
  \A i \in 1..Len(pendingOrder) :
    \/ ghost[pendingOrder[i]].accepts > 0
    \/ ghost[pendingOrder[i]].cachedAfter >= Len(pendingOrder) - i

(* Only delivered replies leave entries behind.                            *)
PendingEntries ==
  \A i \in 1..Len(pendingOrder) : ghost[pendingOrder[i]].accepts = 0 =>
    /\ pendingOrder[i] \in pending
    /\ \A j \in 1..Len(pendingOrder) : pendingOrder[i] = pendingOrder[j] => i = j

(* What a handler knows of the activity it holds.                          *)
HandlerInv(c) ==
  act[c] \in Tracked =>
    /\ pc[c] = "running" /\ ghost[act[c]].replies > 0 => Gone(act[c])
    /\ pc[c] \in Delivering \union {"accepted"} => ghost[act[c]].replies > 0
    /\ pc[c] \in Delivering /\ ghost[act[c]].accepts > 0 => Gone(act[c])
    /\ pc[c] \in Delivering /\ ghost[act[c]].accepts = 0 => act[c] \in pending \/ Passed(act[c])
    /\ pc[c] = "accepted" => ghost[act[c]].accepts > 0

HandlersInv == \A c \in Calls : HandlerInv(c)

(* An accepted reply is remembered, or about to be.                        *)
AcceptedInv ==
  \A a \in Tracked : ghost[a].accepts > 0 =>
    Gone(a) \/ a \in completed \/ \E c \in Calls : pc[c] = "accepted" /\ act[c] = a

(* What was accepted unheard was a reply.                                  *)
UnheardInv == \A a \in unheard : ghost[a].replies > 0

(* The parts about the memory alone, and those about handlers.             *)
QueuesInv ==
  /\ RepliesInv /\ CompletedAges /\ PendingAges /\ PendingEntries
  /\ DeliveredOnceWithinWindow /\ GivenUpOnlyAfterWindow

WindowInv == QueuesInv /\ HandlersInv /\ AcceptedInv

(* Entries of a trimmed queue: the last is the new one, the others moved up *)
(* by one place exactly when the queue was full.                           *)
LEMMA PushTrimmedPlaces ==
  ASSUME NEW order \in Seq(Tracked), Len(order) <= Limit, NEW a \in Tracked
  PROVE  LET p == PushTrimmed(order, a) IN
         /\ Len(p) \in 1..Limit /\ p[Len(p)] = a
         /\ ~Overflows(order, a) =>
              Len(p) = Len(order) + 1 /\ \A i \in 1..Len(order) : p[i] = order[i]
         /\ Overflows(order, a) =>
              /\ Len(order) = Limit /\ Len(p) = Limit
              /\ \A i \in 1..(Limit - 1) : p[i] = order[i + 1]
              /\ order # <<>> /\ Head(order) = order[1]
<1> DEFINE o == Append(order, a)
           t == Tail(o)
<1>1. /\ o \in Seq(Tracked)
      /\ Len(o) = Len(order) + 1
      /\ \A i \in 1..Len(order) : o[i] = order[i]
      /\ o[Len(o)] = a
  BY AppendProperties
<1>2. Len(order) \in Nat /\ Limit \in Nat /\ Limit > 0
  BY ActivityAssumption
<1>3. CASE ~Overflows(order, a)
  BY <1>3, <1>1, <1>2 DEF PushTrimmed, Overflows
<1>4. CASE Overflows(order, a)
  <2>1. Len(o) > Limit /\ PushTrimmed(order, a) = t /\ Len(order) = Limit
    BY <1>4, <1>1, <1>2 DEF PushTrimmed, Overflows
  <2>2. o # <<>> /\ order # <<>>
    BY <2>1, <1>1, <1>2, EmptySeq
  <2>3. /\ Len(t) = Len(o) - 1
        /\ \A i \in 1..Len(t) : t[i] = o[i + 1]
    BY <1>1, <2>2, HeadTailProperties
  <2>4. Head(order) = order[1]
    BY <2>2, HeadTailProperties
  <2>5. Len(t) = Limit /\ \A i \in 1..(Limit - 1) : t[i] = order[i + 1]
    BY <2>1, <2>3, <1>1, <1>2
  <2>6. t[Limit] = a
    BY <2>1, <2>3, <2>5, <1>1, <1>2
  <2>7. QED
    BY <1>2, <1>4, <2>1, <2>2, <2>4, <2>5, <2>6
<1>5. QED
  BY <1>3, <1>4

(* If an entry ages when another is pushed, its age still is at least the  *)
(* number of entries behind it, and what falls out has reached the limit.  *)
(* Activities in `exempt` need not age.                                    *)
LEMMA AgesPushed ==
  ASSUME NEW order \in Seq(Tracked), Len(order) <= Limit, NEW a \in Tracked,
         NEW exempt, NEW age \in [Tracked -> 0..Limit], NEW aged \in [Tracked -> 0..Limit],
         \A i \in 1..Len(order) : order[i] \in exempt \/ age[order[i]] >= Len(order) - i,
         \A b \in Entries(order) : b \in exempt \/ aged[b] = Limit \/ aged[b] = age[b] + 1
  PROVE  LET p == PushTrimmed(order, a) IN
         /\ \A i \in 1..Len(p) : p[i] \in exempt \/ aged[p[i]] >= Len(p) - i
         /\ Overflows(order, a) => Head(order) \in exempt \/ aged[Head(order)] = Limit
<1> DEFINE p == PushTrimmed(order, a)
<1>1. /\ Len(p) \in 1..Limit /\ p[Len(p)] = a
      /\ ~Overflows(order, a) =>
           Len(p) = Len(order) + 1 /\ \A i \in 1..Len(order) : p[i] = order[i]
      /\ Overflows(order, a) =>
           /\ Len(order) = Limit /\ Len(p) = Limit
           /\ \A i \in 1..(Limit - 1) : p[i] = order[i + 1]
           /\ order # <<>> /\ Head(order) = order[1]
  BY PushTrimmedPlaces
<1> HIDE DEF p
<1>2. Limit \in Nat \ {0} /\ Len(order) \in Nat
  BY ActivityAssumption
<1>3. ASSUME NEW j \in 1..Len(order)
      PROVE  /\ order[j] \in Tracked
             /\ \/ order[j] \in exempt
                \/ aged[order[j]] = Limit
                \/ aged[order[j]] >= Len(order) + 1 - j
  <2>1. order[j] \in Tracked /\ order[j] \in Entries(order)
    BY ElementOfSeq DEF Entries
  <2>2. /\ order[j] \in exempt \/ age[order[j]] >= Len(order) - j
        /\ order[j] \in exempt \/ aged[order[j]] = Limit \/ aged[order[j]] = age[order[j]] + 1
        /\ age[order[j]] \in 0..Limit /\ aged[order[j]] \in 0..Limit
    BY <2>1
  <2>3. QED
    BY <2>1, <2>2, <1>2
<1>4. ASSUME NEW i \in 1..Len(p) PROVE p[i] \in exempt \/ aged[p[i]] >= Len(p) - i
  <2>1. CASE i = Len(p)
    <3>1. p[i] \in Tracked
      BY <2>1, <1>1
    <3>2. aged[p[i]] \in 0..Limit
      BY <3>1
    <3>3. QED
      BY <2>1, <1>1, <3>2, <1>2
  <2>2. CASE i # Len(p) /\ ~Overflows(order, a)
    <3>1. i \in 1..Len(order) /\ p[i] = order[i] /\ Len(p) = Len(order) + 1
      BY <2>2, <1>1, <1>2
    <3>2. \/ p[i] \in exempt
          \/ aged[p[i]] = Limit
          \/ aged[p[i]] >= Len(order) + 1 - i
      BY <3>1, <1>3
    <3>3. QED
      BY <3>1, <3>2, <1>1, <1>2
  <2>3. CASE i # Len(p) /\ Overflows(order, a)
    <3>1. /\ i + 1 \in 1..Len(order) /\ i \in 1..(Limit - 1)
          /\ Len(p) = Limit /\ Len(order) = Limit
      BY <2>3, <1>1, <1>2
    <3>2. p[i] = order[i + 1]
      BY <2>3, <3>1, <1>1
    <3>3. \/ p[i] \in exempt
          \/ aged[p[i]] = Limit
          \/ aged[p[i]] >= Len(order) + 1 - (i + 1)
      BY <3>1, <3>2, <1>3
    <3>4. QED
      BY <3>1, <3>3, <1>2
  <2>4. QED
    BY <2>1, <2>2, <2>3
<1>5. ASSUME Overflows(order, a) PROVE Head(order) \in exempt \/ aged[Head(order)] = Limit
  <2>1. 1 \in 1..Len(order) /\ Head(order) = order[1] /\ Len(order) = Limit
    BY <1>5, <1>1, <1>2
  <2>2. aged[order[1]] \in 0..Limit
    BY <2>1, <1>3
  <2>3. QED
    BY <2>1, <2>2, <1>3, <1>2
<1>6. QED
  BY <1>4, <1>5 DEF p

-----------------------------------------------------------------------------
(* What the operations of the memory do to the window                      *)

(* The history of an activity is four small counters.                      *)
LEMMA HistoryFields ==
  ASSUME NEW h \in [Tracked -> History], NEW b \in Tracked
  PROVE  /\ h[b].replies \in 0..2 /\ h[b].accepts \in 0..2
         /\ h[b].cachedAfter \in 0..Limit /\ h[b].completedAfter \in 0..Limit
BY DEF History

(* What no step of one life of the process takes back.                     *)
Grows ==
  \A b \in Tracked :
    /\ ghost'[b].replies >= ghost[b].replies
    /\ ghost'[b].cachedAfter >= ghost[b].cachedAfter
    /\ ghost'[b].completedAfter >= ghost[b].completedAfter

(* Once the window has passed, it stays so.                                *)
LEMMA GrowsKeeps ==
  ASSUME ghost \in [Tracked -> History], ghost' \in [Tracked -> History], Grows,
         NEW b \in Tracked
  PROVE  (Gone(b) => Gone(b)') /\ (Passed(b) => Passed(b)')
<1>1. /\ ghost[b].completedAfter \in 0..Limit /\ ghost'[b].completedAfter \in 0..Limit
      /\ ghost[b].cachedAfter \in 0..Limit /\ ghost'[b].cachedAfter \in 0..Limit
  BY HistoryFields
<1>2. Limit \in Nat
  BY ActivityAssumption
<1>3. QED
  BY <1>1, <1>2 DEF Grows, Gone, Passed

(* The history after a reply was cached.                                   *)
LEMMA ReplyNoted ==
  ASSUME ghost \in [Tracked -> History], NEW a \in Tracked, NEW appended \in BOOLEAN, NEW done,
         NoteReply(a, appended, done)
  PROVE  /\ Grows
         /\ \A b \in Tracked : ghost'[b].accepts = ghost[b].accepts
         /\ ghost'[a].replies > 0
         /\ \A b \in Tracked \ {a} :
              /\ ghost'[b].replies = ghost[b].replies
              /\ ghost[b].replies > 0 /\ appended =>
                   Saturate(ghost[b].cachedAfter, Limit) = ghost'[b].cachedAfter
              /\ ghost[b].replies > 0 /\ done \ {b} # {} =>
                   Saturate(ghost[b].completedAfter, Limit) = ghost'[b].completedAfter
<1>1. Limit \in Nat
  BY ActivityAssumption
<1>2. ghost'[a] = [ghost[a] EXCEPT !.replies = Saturate(@, 2)]
  BY DEF NoteReply
<1>3. ASSUME NEW b \in Tracked \ {a}
      PROVE  ghost'[b] = IF ghost[b].replies = 0 THEN ghost[b]
                         ELSE [ghost[b] EXCEPT
                                 !.cachedAfter = IF appended THEN Saturate(@, Limit) ELSE @,
                                 !.completedAfter =
                                    IF done \ {b} # {} THEN Saturate(@, Limit) ELSE @]
  BY <1>3 DEF NoteReply
<1>4. \A b \in Tracked : ghost[b] \in History
  OBVIOUS
<1>5. /\ ghost'[a].replies = Saturate(ghost[a].replies, 2)
      /\ ghost'[a].accepts = ghost[a].accepts
      /\ ghost'[a].cachedAfter = ghost[a].cachedAfter
      /\ ghost'[a].completedAfter = ghost[a].completedAfter
  BY <1>2, <1>4 DEF History
<1>6. ASSUME NEW b \in Tracked \ {a}
      PROVE  /\ ghost'[b].replies = ghost[b].replies
             /\ ghost'[b].accepts = ghost[b].accepts
             /\ ghost[b].replies # 0 /\ appended =>
                  ghost'[b].cachedAfter = Saturate(ghost[b].cachedAfter, Limit)
             /\ ghost[b].replies = 0 \/ ~appended =>
                  ghost'[b].cachedAfter = ghost[b].cachedAfter
             /\ ghost[b].replies # 0 /\ done \ {b} # {} =>
                  ghost'[b].completedAfter = Saturate(ghost[b].completedAfter, Limit)
             /\ ghost[b].replies = 0 \/ done \ {b} = {} =>
                  ghost'[b].completedAfter = ghost[b].completedAfter
  <2>1. CASE ghost[b].replies = 0
    BY <2>1, <1>3
  <2>2. CASE ghost[b].replies # 0
    <3> DEFINE x == IF appended THEN Saturate(ghost[b].cachedAfter, Limit)
                    ELSE ghost[b].cachedAfter
               y == IF done \ {b} # {} THEN Saturate(ghost[b].completedAfter, Limit)
                    ELSE ghost[b].completedAfter
    <3>1. /\ appended => x = Saturate(ghost[b].cachedAfter, Limit)
          /\ ~appended => x = ghost[b].cachedAfter
          /\ done \ {b} # {} => y = Saturate(ghost[b].completedAfter, Limit)
          /\ done \ {b} = {} => y = ghost[b].completedAfter
      OBVIOUS
    <3> HIDE DEF x, y
    <3> DEFINE g == [ghost[b] EXCEPT !.cachedAfter = x, !.completedAfter = y]
    <3>2. ghost'[b] = g
      BY <2>2, <1>3 DEF x, y
    <3>3. /\ g.replies = ghost[b].replies /\ g.accepts = ghost[b].accepts
          /\ g.cachedAfter = x /\ g.completedAfter = y
      <4>1. ghost[b] \in History
        BY <1>4
      <4>2. QED
        BY <4>1, Zenon DEF History
    <3> HIDE DEF g
    <3>4. /\ ghost'[b].replies = ghost[b].replies /\ ghost'[b].accepts = ghost[b].accepts
          /\ ghost'[b].cachedAfter = x /\ ghost'[b].completedAfter = y
      BY <3>2, <3>3
    <3>5. QED
      BY <2>2, <3>1, <3>4
  <2>3. QED
    BY <2>1, <2>2
<1>7. ASSUME NEW b \in Tracked
      PROVE  /\ ghost[b].replies \in 0..2
             /\ ghost[b].cachedAfter \in 0..Limit /\ ghost[b].completedAfter \in 0..Limit
  BY HistoryFields
<1>8. ASSUME NEW n \in Nat, NEW m \in 0..n
      PROVE  Saturate(m, n) >= m /\ (n > 0 => Saturate(m, n) > 0)
  BY <1>8 DEF Saturate
<1>9. ASSUME NEW b \in Tracked
      PROVE  /\ ghost'[b].replies >= ghost[b].replies
             /\ ghost'[b].cachedAfter >= ghost[b].cachedAfter
             /\ ghost'[b].completedAfter >= ghost[b].completedAfter
  <2>1. CASE b = a
    BY <2>1, <1>5, <1>7, <1>8
  <2>2. CASE b # a
    BY <2>2, <1>1, <1>6, <1>7, <1>8
  <2>3. QED
    BY <2>1, <2>2
<1>10. ghost'[a].replies > 0
  BY <1>5, <1>7, <1>8
<1>11. QED
  BY <1>5, <1>6, <1>7, <1>9, <1>10 DEF Grows

(* The history after an activity was completed.                            *)
LEMMA CompletionNoted ==
  ASSUME ghost \in [Tracked -> History], NEW a \in Tracked, NoteCompleted(a)
  PROVE  /\ Grows
         /\ \A b \in Tracked :
              /\ ghost'[b].replies = ghost[b].replies
              /\ ghost'[b].accepts = ghost[b].accepts
              /\ ghost'[b].cachedAfter = ghost[b].cachedAfter
              /\ b # a /\ ghost[b].replies > 0 /\ a \notin completed =>
                   Saturate(ghost[b].completedAfter, Limit) = ghost'[b].completedAfter
<1>1. Limit \in Nat
  BY ActivityAssumption
<1>2. ASSUME NEW b \in Tracked
      PROVE  ghost'[b] = IF b = a \/ ghost[b].replies = 0 \/ a \in completed THEN ghost[b]
                         ELSE [ghost[b] EXCEPT !.completedAfter = Saturate(@, Limit)]
  BY <1>2 DEF NoteCompleted
<1>3. \A b \in Tracked : ghost[b] \in History
  OBVIOUS
<1>4. ASSUME NEW b \in Tracked
      PROVE  /\ ghost'[b].replies = ghost[b].replies
             /\ ghost'[b].accepts = ghost[b].accepts
             /\ ghost'[b].cachedAfter = ghost[b].cachedAfter
             /\ ghost'[b].completedAfter =
                  IF b = a \/ ghost[b].replies = 0 \/ a \in completed
                    THEN ghost[b].completedAfter
                    ELSE Saturate(ghost[b].completedAfter, Limit)
  BY <1>2, <1>3, <1>4 DEF History
<1>5. ASSUME NEW b \in Tracked
      PROVE  /\ ghost[b].replies \in 0..2
             /\ ghost[b].cachedAfter \in 0..Limit /\ ghost[b].completedAfter \in 0..Limit
  BY HistoryFields
<1>6. QED
  BY <1>1, <1>4, <1>5 DEF Grows, Saturate

(* An activity that is remembered passes all that were: they keep their    *)
(* ages, and the window has passed over the one that is forgotten.         *)
LEMMA RememberOnceAges ==
  ASSUME CompletedInv, CompletedAges, NEW a \in Tracked, RememberOnce(a),
         ghost \in [Tracked -> History], ghost' \in [Tracked -> History], Grows,
         a \notin completed =>
           \A b \in completed :
             Gone(b)' \/ ghost'[b].completedAfter = Saturate(ghost[b].completedAfter, Limit)
  PROVE  /\ CompletedAges'
         /\ a \in completed' /\ completed' \subseteq completed \union {a}
         /\ \A b \in completed \ completed' : Gone(b)'
<1>1. Limit \in Nat \ {0}
  BY ActivityAssumption
<1>2. /\ completedOrder \in Seq(Tracked) /\ Len(completedOrder) <= Limit
      /\ completed = Entries(completedOrder)
  BY DEF CompletedInv
<1>3. CASE a \in completed
  <2>1. completed' = completed /\ completedOrder' = completedOrder
    BY <1>3 DEF RememberOnce
  <2>2. ASSUME NEW i \in 1..Len(completedOrder)
        PROVE  ghost'[completedOrder[i]].completedAfter >= Len(completedOrder) - i
    <3>1. completedOrder[i] \in Tracked
      BY <1>2, ElementOfSeq
    <3>2. /\ ghost[completedOrder[i]].completedAfter \in 0..Limit
          /\ ghost'[completedOrder[i]].completedAfter \in 0..Limit
      BY <3>1, HistoryFields
    <3>3. /\ ghost[completedOrder[i]].completedAfter >= Len(completedOrder) - i
          /\ ghost'[completedOrder[i]].completedAfter
               >= ghost[completedOrder[i]].completedAfter
      BY <3>1 DEF CompletedAges, Grows
    <3>4. Len(completedOrder) \in Nat
      BY <1>2
    <3>5. QED
      BY <3>2, <3>3, <3>4, <1>1
  <2>3. QED
    BY <2>1, <2>2, <1>3 DEF CompletedAges
<1>4. CASE a \notin completed
  <2> DEFINE age == [b \in Tracked |-> ghost[b].completedAfter]
             aged == [b \in Tracked |-> ghost'[b].completedAfter]
             p == PushTrimmed(completedOrder, a)
             none == {}
  <2>1. /\ age \in [Tracked -> 0..Limit] /\ aged \in [Tracked -> 0..Limit]
        /\ \A b \in Tracked : age[b] = ghost[b].completedAfter
        /\ \A b \in Tracked : aged[b] = ghost'[b].completedAfter
    BY HistoryFields
  <2> HIDE DEF age, aged, p, none
  <2>2. \A i \in 1..Len(completedOrder) : completedOrder[i] \in Tracked
    BY <1>2, ElementOfSeq
  <2>3. \A i \in 1..Len(completedOrder) :
          completedOrder[i] \in none \/ age[completedOrder[i]] >= Len(completedOrder) - i
    BY <2>1, <2>2 DEF CompletedAges
  <2>4. ASSUME NEW b \in Entries(completedOrder)
        PROVE  b \in none \/ aged[b] = Limit \/ aged[b] = age[b] + 1
    <3>1. b \in completed /\ b \in Tracked
      BY <1>2, EntriesTyped
    <3>2. Gone(b)' \/ ghost'[b].completedAfter = Saturate(ghost[b].completedAfter, Limit)
      BY <3>1, <1>4
    <3>3. ghost[b].completedAfter \in 0..Limit
      BY <3>1, HistoryFields
    <3>4. /\ age[b] = ghost[b].completedAfter
          /\ aged[b] = ghost'[b].completedAfter
      BY <3>1, <2>1
    <3>5. aged[b] = Limit \/ aged[b] = Saturate(age[b], Limit)
      BY <3>2, <3>4 DEF Gone
    <3>6. QED
      BY <3>3, <3>4, <3>5, <1>1 DEF Saturate
  <2>5. /\ \A i \in 1..Len(p) : p[i] \in none \/ aged[p[i]] >= Len(p) - i
        /\ Overflows(completedOrder, a) =>
             Head(completedOrder) \in none \/ aged[Head(completedOrder)] = Limit
    BY <2>1, <2>3, <2>4, <1>2, AgesPushed DEF p
  <2>6. /\ Remember(a)
        /\ completedOrder' = p
        /\ completed' = IF Overflows(completedOrder, a)
                          THEN (completed \union {a}) \ {Head(completedOrder)}
                          ELSE completed \union {a}
    BY <1>4 DEF RememberOnce, Remember, p
  <2>7. p \in Seq(Tracked) /\ (Overflows(completedOrder, a) => Head(completedOrder) \in completed)
    <3>1. p \in Seq(Tracked)
      BY <1>2, PushTrimmedProperties DEF p
    <3>2. ASSUME Overflows(completedOrder, a) PROVE Head(completedOrder) \in completed
      <4>1. Len(completedOrder) = Limit /\ Head(completedOrder) = completedOrder[1]
        BY <3>2, <1>2, PushTrimmedPlaces
      <4>2. QED
        BY <4>1, <1>1, <1>2 DEF Entries
    <3>3. QED
      BY <3>1, <3>2
  <2>8. CompletedAges'
    <3>1. \A i \in 1..Len(p) : p[i] \in Tracked
      BY <2>7, ElementOfSeq
    <3>2. QED
      BY <2>1, <2>5, <2>6, <3>1 DEF CompletedAges, none
  <2>9. completed \subseteq Tracked
    BY <1>2, EntriesTyped
  <2>10. QED
    BY <2>1, <2>5, <2>6, <2>7, <2>8, <2>9, <1>4 DEF Gone, none
<1>5. QED
  BY <1>3, <1>4

(* What a step leaves of the window: histories grow, replies are dropped   *)
(* or forgotten only after the window has passed.                          *)
KeepsWindow ==
  /\ Grows
  /\ \A b \in Tracked : ghost'[b].accepts = ghost[b].accepts
  /\ \A b \in completed \ completed' : Gone(b)'
  /\ \A b \in pending \ pending' : b \in completed'

(* A reply that is cached passes all replies that are kept; one that is    *)
(* dropped for it was passed by as many as the window holds.               *)
LEMMA CacheReplyWindow ==
  ASSUME CompletedInv, PendingInv, QueuesInv, NEW a \in Tracked, CacheReply(a),
         ghost \in [Tracked -> History], ghost' \in [Tracked -> History],
         ghost[a].replies > 0 => Gone(a)
  PROVE  /\ QueuesInv' /\ KeepsWindow
         /\ ghost'[a].replies > 0
         /\ \A b \in Tracked \ {a} : ghost'[b].replies = ghost[b].replies
         /\ ghost[a].accepts = 0 => a \in pending'
         /\ \A b \in pending \ pending' : ghost[b].accepts = 0 => Passed(b)'
<1> DEFINE expired == Head(Append(pendingOrder, a))
           appends == a \notin pending
           spills  == appends /\ Overflows(pendingOrder, a)
           done == IF spills THEN {expired} \ completed ELSE {}
<1>1. /\ pendingOrder' = IF appends THEN PushTrimmed(pendingOrder, a) ELSE pendingOrder
      /\ pending' = IF spills THEN (pending \union {a}) \ {expired} ELSE pending \union {a}
      /\ IF spills THEN RememberOnce(expired) ELSE UNCHANGED <<completed, completedOrder>>
      /\ NoteReply(a, appends, done)
  BY DEF CacheReply
<1>2. /\ Limit \in Nat \ {0}
      /\ pendingOrder \in Seq(Tracked) /\ Len(pendingOrder) <= Limit /\ Len(pendingOrder) \in Nat
      /\ pending \subseteq Entries(pendingOrder)
      /\ completed \subseteq Tracked /\ Entries(pendingOrder) \subseteq Tracked
  BY ActivityAssumption, EntriesTyped DEF CompletedInv, PendingInv
<1>3. /\ Grows
      /\ \A b \in Tracked : ghost'[b].accepts = ghost[b].accepts
      /\ ghost'[a].replies > 0
      /\ \A b \in Tracked \ {a} :
           /\ ghost'[b].replies = ghost[b].replies
           /\ ghost[b].replies > 0 /\ appends =>
                Saturate(ghost[b].cachedAfter, Limit) = ghost'[b].cachedAfter
           /\ ghost[b].replies > 0 /\ done \ {b} # {} =>
                Saturate(ghost[b].completedAfter, Limit) = ghost'[b].completedAfter
  <2>1. appends \in BOOLEAN
    OBVIOUS
  <2> HIDE DEF done, appends
  <2>2. QED
    BY <1>1, <2>1, ReplyNoted
<1>4. /\ Len(PushTrimmed(pendingOrder, a)) \in 1..Limit
      /\ PushTrimmed(pendingOrder, a)[Len(PushTrimmed(pendingOrder, a))] = a
      /\ ~Overflows(pendingOrder, a) =>
           /\ Len(PushTrimmed(pendingOrder, a)) = Len(pendingOrder) + 1
           /\ \A i \in 1..Len(pendingOrder) : PushTrimmed(pendingOrder, a)[i] = pendingOrder[i]
      /\ Overflows(pendingOrder, a) =>
           /\ Len(pendingOrder) = Limit /\ Len(PushTrimmed(pendingOrder, a)) = Limit
           /\ \A i \in 1..(Limit - 1) : PushTrimmed(pendingOrder, a)[i] = pendingOrder[i + 1]
           /\ Head(pendingOrder) = pendingOrder[1]
  BY <1>2, PushTrimmedPlaces
<1>5. /\ ~Overflows(pendingOrder, a) =>
           Entries(PushTrimmed(pendingOrder, a)) = Entries(pendingOrder) \union {a}
      /\ Overflows(pendingOrder, a) =>
           /\ Head(pendingOrder) \in Tracked /\ expired = Head(pendingOrder)
           /\ Entries(PushTrimmed(pendingOrder, a)) \union {expired}
                = Entries(pendingOrder) \union {a}
  BY <1>2, PushTrimmedProperties
<1>6. spills => expired = pendingOrder[1] /\ expired \in Entries(pendingOrder) /\ expired \in Tracked
  <2>1. ASSUME spills PROVE expired = pendingOrder[1] /\ 1 \in 1..Len(pendingOrder)
    BY <2>1, <1>2, <1>4, <1>5
  <2>2. QED
    BY <2>1, <1>2 DEF Entries
\* What has a reply already and is kept, is not what is replied to.
<1>7. /\ \A b \in Entries(pendingOrder) : ghost[b].replies > 0
      /\ \A b \in completed : ghost[b].replies > 0
  BY DEF QueuesInv, RepliesInv
<1> HIDE DEF expired
<1>8. ASSUME NEW b \in completed, spills, expired \notin completed
      PROVE  Gone(b)' \/ ghost'[b].completedAfter = Saturate(ghost[b].completedAfter, Limit)
  <2>1. CASE b = a
    <3>1. Gone(b)
      BY <2>1, <1>7
    <3>2. QED
      BY <3>1, <2>1, <1>3, GrowsKeeps
  <2>2. CASE b # a
    <3>1. done \ {b} # {}
      BY <1>8
    <3>2. QED
      BY <2>2, <3>1, <1>2, <1>3, <1>7
  <2>3. QED
    BY <2>1, <2>2
<1>9. /\ CompletedAges'
      /\ completed' \subseteq completed \union (IF spills THEN {expired} ELSE {})
      /\ spills => expired \in completed'
      /\ \A b \in completed \ completed' : Gone(b)'
  <2>1. CASE spills
    <3>1. RememberOnce(expired) /\ expired \in Tracked /\ CompletedAges
      BY <2>1, <1>1, <1>6 DEF QueuesInv
    <3>2. expired \notin completed =>
            \A b \in completed :
              Gone(b)' \/ ghost'[b].completedAfter = Saturate(ghost[b].completedAfter, Limit)
      BY <2>1, <1>8
    <3>3. /\ CompletedAges'
          /\ expired \in completed' /\ completed' \subseteq completed \union {expired}
          /\ \A b \in completed \ completed' : Gone(b)'
      BY <3>1, <3>2, <1>3, RememberOnceAges
    <3>4. QED
      BY <2>1, <3>3
  <2>2. CASE ~spills
    <3>1. completed' = completed /\ completedOrder' = completedOrder
      BY <2>2, <1>1
    <3>2. CompletedAges'
      <4>1. SUFFICES ASSUME NEW i \in 1..Len(completedOrder)
                     PROVE  ghost'[completedOrder[i]].completedAfter >= Len(completedOrder) - i
        BY <3>1 DEF CompletedAges
      <4>2. completedOrder[i] \in Tracked /\ Len(completedOrder) \in Nat
        BY ElementOfSeq DEF CompletedInv
      <4>3. /\ ghost[completedOrder[i]].completedAfter \in 0..Limit
            /\ ghost'[completedOrder[i]].completedAfter \in 0..Limit
        BY <4>2, HistoryFields
      <4>4. /\ ghost[completedOrder[i]].completedAfter >= Len(completedOrder) - i
            /\ ghost'[completedOrder[i]].completedAfter >= ghost[completedOrder[i]].completedAfter
        BY <4>2, <1>3 DEF QueuesInv, CompletedAges, Grows
      <4>5. QED
        BY <4>2, <4>3, <4>4, <1>2
    <3>3. QED
      BY <2>2, <3>1, <3>2
  <2>3. QED
    BY <2>1, <2>2
<1>10. \A i \in 1..Len(pendingOrder) : pendingOrder[i] \in Tracked /\ pendingOrder[i] \in Entries(pendingOrder)
  BY <1>2, ElementOfSeq DEF Entries
\* Without an accepted reply, what is not kept has no entry.
<1>11. ASSUME ghost[a].accepts = 0, appends PROVE a \notin Entries(pendingOrder)
  BY <1>11 DEF QueuesInv, PendingEntries, Entries
<1>12. /\ PendingAges'
       /\ spills => ghost[expired].accepts > 0 \/ ghost'[expired].cachedAfter = Limit
  <2>1. CASE appends
    <3> DEFINE age == [b \in Tracked |-> ghost[b].cachedAfter]
               aged == [b \in Tracked |-> ghost'[b].cachedAfter]
               exempt == {b \in Tracked : ghost[b].accepts > 0}
               p == PushTrimmed(pendingOrder, a)
    <3>1. /\ age \in [Tracked -> 0..Limit] /\ aged \in [Tracked -> 0..Limit]
          /\ \A b \in Tracked : age[b] = ghost[b].cachedAfter
          /\ \A b \in Tracked : aged[b] = ghost'[b].cachedAfter
          /\ \A b \in Tracked : b \in exempt <=> ghost[b].accepts > 0
      BY HistoryFields
    <3> HIDE DEF age, aged, exempt, p
    <3>2. \A i \in 1..Len(pendingOrder) :
            pendingOrder[i] \in exempt \/ age[pendingOrder[i]] >= Len(pendingOrder) - i
      BY <3>1, <1>10 DEF QueuesInv, PendingAges
    <3>3. ASSUME NEW b \in Entries(pendingOrder)
          PROVE  b \in exempt \/ aged[b] = Limit \/ aged[b] = age[b] + 1
      <4>1. b \in Tracked /\ ghost[b].accepts \in 0..2 /\ age[b] \in 0..Limit
        BY <3>1, <1>2, HistoryFields
      <4>2. CASE b = a
        BY <4>1, <4>2, <3>1, <1>11, <2>1
      <4>3. CASE b # a
        <5>1. aged[b] = Saturate(age[b], Limit)
          BY <4>1, <4>3, <3>1, <2>1, <1>3, <1>7
        <5>2. QED
          BY <5>1, <4>1, <1>2 DEF Saturate
      <4>4. QED
        BY <4>2, <4>3
    <3>4. /\ \A i \in 1..Len(p) : p[i] \in exempt \/ aged[p[i]] >= Len(p) - i
          /\ Overflows(pendingOrder, a) =>
               Head(pendingOrder) \in exempt \/ aged[Head(pendingOrder)] = Limit
      BY <3>1, <3>2, <3>3, <1>2, AgesPushed DEF p
    <3>5. pendingOrder' = p /\ \A i \in 1..Len(p) : p[i] \in Tracked
      <4>1. pendingOrder' = p
        BY <2>1, <1>1 DEF p
      <4>2. p \in Seq(Tracked)
        BY <1>2, PushTrimmedProperties DEF p
      <4>3. QED
        BY <4>1, <4>2, ElementOfSeq
    <3>6. PendingAges'
      BY <3>1, <3>4, <3>5, <1>3 DEF PendingAges
    <3>7. spills => ghost[expired].accepts > 0 \/ ghost'[expired].cachedAfter = Limit
      BY <3>1, <3>4, <1>5
    <3>8. QED
      BY <3>6, <3>7
  <2>2. CASE ~appends
    <3>1. pendingOrder' = pendingOrder
      BY <2>2, <1>1
    <3>2. SUFFICES ASSUME NEW i \in 1..Len(pendingOrder)
                   PROVE  \/ ghost'[pendingOrder[i]].accepts > 0
                          \/ ghost'[pendingOrder[i]].cachedAfter >= Len(pendingOrder) - i
      BY <2>2, <3>1 DEF PendingAges
    <3>3. /\ ghost[pendingOrder[i]].cachedAfter \in 0..Limit
          /\ ghost'[pendingOrder[i]].cachedAfter \in 0..Limit
          /\ ghost'[pendingOrder[i]].cachedAfter >= ghost[pendingOrder[i]].cachedAfter
          /\ ghost'[pendingOrder[i]].accepts = ghost[pendingOrder[i]].accepts
      BY <1>3, <1>10, HistoryFields DEF Grows
    <3>4. \/ ghost[pendingOrder[i]].accepts > 0
          \/ ghost[pendingOrder[i]].cachedAfter >= Len(pendingOrder) - i
      BY DEF QueuesInv, PendingAges
    <3>5. QED
      BY <3>3, <3>4, <1>2
  <2>3. QED
    BY <2>1, <2>2
<1>13. ASSUME NEW i \in 1..Len(pendingOrder), ghost[pendingOrder[i]].accepts = 0
       PROVE  /\ pendingOrder[i] \in pending
              /\ \A j \in 1..Len(pendingOrder) : pendingOrder[i] = pendingOrder[j] => i = j
  BY <1>13 DEF QueuesInv, PendingEntries
\* In the trimmed queue an entry is the new one, or an old one but the first.
<1>14. ASSUME appends, NEW i \in 1..Len(pendingOrder')
       PROVE  \/ pendingOrder'[i] = a /\ i = Len(pendingOrder')
              \/ /\ ~spills /\ i \in 1..Len(pendingOrder)
                 /\ pendingOrder'[i] = pendingOrder[i] /\ i # Len(pendingOrder')
              \/ /\ spills /\ i + 1 \in 1..Len(pendingOrder) /\ i \in Nat
                 /\ pendingOrder'[i] = pendingOrder[i + 1] /\ i # Len(pendingOrder')
  <2> DEFINE p == PushTrimmed(pendingOrder, a)
  <2>1. pendingOrder' = p
    BY <1>1, <1>14
  <2>2. CASE i = Len(p)
    BY <2>1, <2>2, <1>4
  <2>3. CASE i # Len(p) /\ ~Overflows(pendingOrder, a)
    <3>1. i \in 1..Len(pendingOrder)
      BY <2>1, <2>3, <1>2, <1>4, <1>14
    <3>2. QED
      BY <2>1, <2>3, <3>1, <1>4
  <2>4. CASE i # Len(p) /\ Overflows(pendingOrder, a)
    <3>1. i \in 1..(Limit - 1) /\ i + 1 \in 1..Len(pendingOrder) /\ i \in Nat
      BY <2>1, <2>4, <1>2, <1>4, <1>14
    <3>2. p[i] = pendingOrder[i + 1]
      BY <2>4, <3>1, <1>4
    <3>3. QED
      BY <2>1, <2>4, <3>1, <3>2, <1>14
  <2>5. QED
    BY <2>2, <2>3, <2>4
<1>15. ghost[a].accepts = 0 => a \in pending'
  <2>1. CASE spills
    <3>1. ghost[a].accepts = 0 => a # expired
      BY <2>1, <1>6, <1>11
    <3>2. QED
      BY <2>1, <3>1, <1>1 DEF expired
  <2>2. CASE ~spills
    BY <2>2, <1>1
  <2>3. QED
    BY <2>1, <2>2
<1>16. PendingEntries'
  <2>1. CASE ~appends
    <3>1. pendingOrder' = pendingOrder /\ pending' = pending
      BY <2>1, <1>1
    <3>2. QED
      BY <3>1, <1>3, <1>10, <1>13 DEF PendingEntries
  <2>2. CASE appends
    <3>1. SUFFICES ASSUME NEW i \in 1..Len(pendingOrder'), ghost'[pendingOrder'[i]].accepts = 0
                   PROVE  /\ pendingOrder'[i] \in pending'
                          /\ \A j \in 1..Len(pendingOrder') :
                               pendingOrder'[i] = pendingOrder'[j] => i = j
      BY DEF PendingEntries
    <3>2. CASE pendingOrder'[i] = a /\ i = Len(pendingOrder')
      <4>1. ghost[a].accepts = 0
        BY <3>1, <3>2, <1>3
      <4>2. ASSUME NEW j \in 1..Len(pendingOrder'), pendingOrder'[j] = a PROVE i = j
        <5>1. \A k \in 1..Len(pendingOrder) : pendingOrder[k] # a
          BY <4>1, <2>2, <1>10, <1>11
        <5>2. QED
          BY <2>2, <3>2, <4>2, <5>1, <1>14
      <4>3. QED
        BY <3>2, <4>1, <4>2, <1>15
    <3>3. CASE /\ ~spills /\ i \in 1..Len(pendingOrder)
               /\ pendingOrder'[i] = pendingOrder[i]
      <4>1. ghost[pendingOrder[i]].accepts = 0 /\ pendingOrder[i] \in pending
        BY <3>1, <3>3, <1>3, <1>10, <1>13
      <4>2. pendingOrder[i] # a /\ pendingOrder'[i] \in pending'
        BY <4>1, <2>2, <3>3, <1>1
      <4>3. ASSUME NEW j \in 1..Len(pendingOrder'), pendingOrder'[i] = pendingOrder'[j]
            PROVE  i = j
        <5>1. j \in 1..Len(pendingOrder) /\ pendingOrder'[j] = pendingOrder[j]
          BY <4>2, <4>3, <2>2, <3>3, <1>14
        <5>2. QED
          BY <5>1, <4>1, <4>3, <3>3, <1>13
      <4>4. QED
        BY <4>2, <4>3
    <3>4. CASE /\ spills /\ i + 1 \in 1..Len(pendingOrder) /\ i \in Nat
               /\ pendingOrder'[i] = pendingOrder[i + 1]
      <4>1. ghost[pendingOrder[i + 1]].accepts = 0 /\ pendingOrder[i + 1] \in pending
        BY <3>1, <3>4, <1>3, <1>10, <1>13
      <4>2. pendingOrder[i + 1] # expired
        <5>1. 1 \in 1..Len(pendingOrder) /\ i + 1 # 1
          BY <3>1, <3>4, <1>2, <1>4
        <5>2. QED
          BY <5>1, <4>1, <3>4, <1>6, <1>13
      <4>3. pendingOrder[i + 1] # a /\ pendingOrder'[i] \in pending'
        BY <4>1, <4>2, <2>2, <3>4, <1>1 DEF expired
      <4>4. ASSUME NEW j \in 1..Len(pendingOrder'), pendingOrder'[i] = pendingOrder'[j]
            PROVE  i = j
        <5>1. /\ j + 1 \in 1..Len(pendingOrder) /\ j \in Nat
              /\ pendingOrder'[j] = pendingOrder[j + 1]
          BY <4>3, <4>4, <2>2, <3>4, <1>14
        <5>2. i + 1 = j + 1
          BY <5>1, <4>1, <4>4, <3>4, <1>13
        <5>3. QED
          BY <5>1, <5>2, <3>4
      <4>5. QED
        BY <4>3, <4>4
    <3>5. QED
      BY <2>2, <3>2, <3>3, <3>4, <1>14
  <2>3. QED
    BY <2>1, <2>2
<1>17. KeepsWindow
  <2>1. ASSUME NEW b \in pending \ pending' PROVE b \in completed'
    BY <2>1, <1>1, <1>9 DEF expired
  <2>2. QED
    BY <2>1, <1>3, <1>9 DEF KeepsWindow
<1>18. \A b \in pending \ pending' : ghost[b].accepts = 0 => Passed(b)'
  <2>1. ASSUME NEW b \in pending \ pending' PROVE spills /\ b = expired
    BY <2>1, <1>1 DEF expired
  <2>2. QED
    BY <2>1, <1>12 DEF Passed
<1>19. RepliesInv'
  <2>1. completed' \union Entries(pendingOrder') \subseteq completed \union Entries(pendingOrder) \union {a}
    BY <1>1, <1>5, <1>6, <1>9 DEF expired
  <2>2. ASSUME NEW b \in completed' \union Entries(pendingOrder') PROVE ghost'[b].replies > 0
    <3>1. CASE b = a
      BY <3>1, <1>3
    <3>2. CASE b # a
      <4>1. b \in Tracked /\ ghost[b].replies > 0
        BY <2>1, <2>2, <3>2, <1>2, <1>7
      <4>2. QED
        BY <4>1, <3>2, <1>3
    <3>3. QED
      BY <3>1, <3>2
  <2>3. ASSUME NEW b \in Tracked, ghost'[b].replies > 0, ~Gone(b)'
        PROVE  b \in pending' \union completed'
    <3>1. ~Gone(b)
      BY <2>3, <1>3, GrowsKeeps
    <3>2. CASE b = a
      <4>1. a \in pending \union {a} /\ (a \notin pending' => a \in completed')
        BY <1>1, <1>9 DEF expired
      <4>2. QED
        BY <3>2, <4>1
    <3>3. CASE b # a
      <4>1. b \in pending \union completed
        BY <2>3, <3>1, <3>3, <1>3 DEF QueuesInv, RepliesInv
      <4>2. QED
        BY <4>1, <2>3, <1>9, <1>17 DEF KeepsWindow
    <3>4. QED
      BY <3>2, <3>3
  <2>4. Entries(pendingOrder)' = Entries(pendingOrder')
    BY DEF Entries
  <2>5. QED
    BY <2>2, <2>3, <2>4 DEF RepliesInv
<1>20. DeliveredOnceWithinWindow'
  BY <1>3, GrowsKeeps DEF QueuesInv, DeliveredOnceWithinWindow, Gone
<1>21. GivenUpOnlyAfterWindow'
  <2>1. SUFFICES ASSUME NEW b \in completed', ghost'[b].accepts = 0
                 PROVE  ghost'[b].cachedAfter = Limit
    BY DEF GivenUpOnlyAfterWindow
  <2>2. CASE b \in completed
    <3>1. b \in Tracked /\ ghost[b].replies > 0 /\ ghost[b].accepts = 0
      BY <2>1, <2>2, <1>2, <1>3, <1>7
    <3>2. ghost[b].cachedAfter = Limit
      BY <2>2, <3>1 DEF QueuesInv, GivenUpOnlyAfterWindow
    <3>3. ghost'[b].cachedAfter \in 0..Limit /\ ghost'[b].cachedAfter >= ghost[b].cachedAfter
      BY <3>1, <1>3, HistoryFields DEF Grows
    <3>4. QED
      BY <3>2, <3>3, <1>2
  <2>3. CASE b \notin completed
    <3>1. spills /\ b = expired
      BY <2>1, <2>3, <1>9
    <3>2. ghost[expired].accepts = 0
      BY <2>1, <3>1, <1>3, <1>6
    <3>3. QED
      BY <3>1, <3>2, <1>12
  <2>4. QED
    BY <2>2, <2>3
<1>22. QED
  BY <1>3, <1>9, <1>12, <1>15, <1>16, <1>17, <1>18, <1>19, <1>20, <1>21 DEF QueuesInv

(* A completed activity passes all that are remembered; its reply is kept  *)
(* no longer, because it was accepted.                                     *)
LEMMA CompleteSuccessWindow ==
  ASSUME CompletedInv, PendingInv, QueuesInv, NEW a \in Tracked, CompleteSuccess(a),
         ghost \in [Tracked -> History], ghost' \in [Tracked -> History],
         ghost[a].replies > 0, ghost[a].accepts > 0
  PROVE  /\ QueuesInv' /\ KeepsWindow
         /\ a \in completed'
         /\ pending' = pending \ {a}
         /\ \A b \in Tracked : ghost'[b].replies = ghost[b].replies
<1>1. /\ pending' = pending \ {a} /\ pendingOrder' = pendingOrder
      /\ RememberOnce(a) /\ NoteCompleted(a)
  BY DEF CompleteSuccess
<1>2. /\ Limit \in Nat \ {0}
      /\ pendingOrder \in Seq(Tracked) /\ Len(pendingOrder) \in Nat
      /\ completed \subseteq Tracked /\ Entries(pendingOrder) \subseteq Tracked
  BY ActivityAssumption, EntriesTyped DEF CompletedInv, PendingInv
<1>3. /\ Grows
      /\ \A b \in Tracked :
           /\ ghost'[b].replies = ghost[b].replies
           /\ ghost'[b].accepts = ghost[b].accepts
           /\ ghost'[b].cachedAfter = ghost[b].cachedAfter
           /\ b # a /\ ghost[b].replies > 0 /\ a \notin completed =>
                Saturate(ghost[b].completedAfter, Limit) = ghost'[b].completedAfter
  BY <1>1, CompletionNoted
<1>4. /\ \A b \in Entries(pendingOrder) : ghost[b].replies > 0
      /\ \A b \in completed : ghost[b].replies > 0
  BY DEF QueuesInv, RepliesInv
<1>5. ASSUME a \notin completed, NEW b \in completed
      PROVE  Gone(b)' \/ ghost'[b].completedAfter = Saturate(ghost[b].completedAfter, Limit)
  BY <1>5, <1>2, <1>3, <1>4
<1>6. /\ CompletedAges'
      /\ a \in completed' /\ completed' \subseteq completed \union {a}
      /\ \A b \in completed \ completed' : Gone(b)'
  BY <1>1, <1>3, <1>5, RememberOnceAges DEF QueuesInv
<1>7. KeepsWindow
  BY <1>1, <1>3, <1>6 DEF KeepsWindow
<1>8. \A i \in 1..Len(pendingOrder) : pendingOrder[i] \in Tracked
  BY <1>2, ElementOfSeq
<1>9. PendingAges'
  BY <1>1, <1>3, <1>8 DEF QueuesInv, PendingAges
<1>10. PendingEntries'
  <2>1. \A i \in 1..Len(pendingOrder) : ghost'[pendingOrder[i]].accepts = 0 =>
          ghost[pendingOrder[i]].accepts = 0 /\ pendingOrder[i] # a
    BY <1>3, <1>8
  <2>2. QED
    BY <1>1, <2>1 DEF QueuesInv, PendingEntries
<1>11. RepliesInv'
  <2>1. ASSUME NEW b \in completed' \union Entries(pendingOrder) PROVE ghost'[b].replies > 0
    <3>1. b \in Tracked /\ ghost[b].replies > 0
      BY <2>1, <1>2, <1>4, <1>6
    <3>2. QED
      BY <3>1, <1>3
  <2>2. ASSUME NEW b \in Tracked, ghost'[b].replies > 0, ~Gone(b)'
        PROVE  b \in pending' \union completed'
    <3>1. ~Gone(b) /\ ghost[b].replies > 0
      BY <2>2, <1>3, GrowsKeeps
    <3>2. b \in pending \union completed
      BY <3>1 DEF QueuesInv, RepliesInv
    <3>3. QED
      BY <2>2, <3>2, <1>1, <1>6
  <2>3. Entries(pendingOrder)' = Entries(pendingOrder)
    BY <1>1 DEF Entries
  <2>4. QED
    BY <2>1, <2>2, <2>3 DEF RepliesInv
<1>12. DeliveredOnceWithinWindow'
  BY <1>3, GrowsKeeps DEF QueuesInv, DeliveredOnceWithinWindow, Gone
<1>13. GivenUpOnlyAfterWindow'
  <2>1. SUFFICES ASSUME NEW b \in completed', ghost'[b].accepts = 0, ghost'[b].replies > 0
                 PROVE  ghost'[b].cachedAfter = Limit
    BY DEF GivenUpOnlyAfterWindow
  <2>2. b \in completed /\ b \in Tracked
    BY <2>1, <1>2, <1>3, <1>6
  <2>3. QED
    BY <2>1, <2>2, <1>3 DEF QueuesInv, GivenUpOnlyAfterWindow
<1>14. QED
  BY <1>1, <1>3, <1>6, <1>7, <1>9, <1>10, <1>11, <1>12, <1>13 DEF QueuesInv

(* A step that leaves the memory and the history alone keeps what is said  *)
(* of them.                                                                *)
LEMMA QueuesUnchanged ==
  ASSUME QueuesInv, ghost \in [Tracked -> History],
         UNCHANGED <<completed, completedOrder, pending, pendingOrder, ghost>>
  PROVE  QueuesInv' /\ KeepsWindow
<1>1. RepliesInv' /\ CompletedAges' /\ PendingAges' /\ PendingEntries'
  BY DEF QueuesInv, RepliesInv, CompletedAges, PendingAges, PendingEntries, Entries, Gone
<1>2. DeliveredOnceWithinWindow' /\ GivenUpOnlyAfterWindow'
  BY DEF QueuesInv, DeliveredOnceWithinWindow, GivenUpOnlyAfterWindow
<1>3. Grows
  <2>1. \A b \in Tracked :
          /\ ghost[b].replies \in 0..2
          /\ ghost[b].cachedAfter \in 0..Limit /\ ghost[b].completedAfter \in 0..Limit
    BY HistoryFields
  <2>2. Limit \in Nat
    BY ActivityAssumption
  <2>3. QED
    BY <2>1, <2>2 DEF Grows
<1>4. QED
  BY <1>1, <1>2, <1>3 DEF QueuesInv, KeepsWindow

(* The channel accepts a reply: for the first time, or after the window.   *)
LEMMA AcceptanceWindow ==
  ASSUME Inv, QueuesInv, HandlersInv, NEW c \in Calls, pc[c] \in Delivering,
         NoteAccepted(act[c]), UNCHANGED <<completed, completedOrder, pending, pendingOrder>>
  PROVE  /\ QueuesInv' /\ Grows
         /\ \A b \in Tracked :
              /\ ghost'[b].replies = ghost[b].replies
              /\ b # act[c] => ghost'[b].accepts = ghost[b].accepts
              /\ b = act[c] => /\ ghost'[b].accepts > 0
                               /\ ghost'[b].accepts = Saturate(ghost[b].accepts, 2)
<1>1. /\ UNCHANGED <<completed, completedOrder, pending, pendingOrder>>
      /\ ghost' = IF act[c] \in Tracked
                    THEN [ghost EXCEPT ![act[c]].accepts = Saturate(@, 2)] ELSE ghost
      /\ pc[c] \in Delivering
  BY DEF NoteAccepted
<1>2. /\ ghost \in [Tracked -> History] /\ Limit \in Nat
      /\ completed \subseteq Tracked
      /\ pendingOrder \in Seq(Tracked) /\ completedOrder \in Seq(Tracked)
  BY ActivityAssumption DEF Inv, TypeOK
<1>3. \A b \in Tracked : /\ ghost[b].replies \in 0..2 /\ ghost[b].accepts \in 0..2
                         /\ ghost[b].cachedAfter \in 0..Limit
                         /\ ghost[b].completedAfter \in 0..Limit
  BY <1>2, HistoryFields
<1>4. \A b \in Tracked :
        /\ ghost'[b].replies = ghost[b].replies
        /\ ghost'[b].cachedAfter = ghost[b].cachedAfter
        /\ ghost'[b].completedAfter = ghost[b].completedAfter
        /\ ghost'[b].accepts =
             IF b = act[c] THEN Saturate(ghost[b].accepts, 2) ELSE ghost[b].accepts
  BY <1>1, <1>2 DEF History
<1>5. \A b \in Tracked :
        /\ ghost'[b].accepts >= ghost[b].accepts
        /\ b = act[c] => ghost'[b].accepts > 0
        /\ b # act[c] => ghost'[b].accepts = ghost[b].accepts
        /\ ghost'[b].accepts = 0 => ghost[b].accepts = 0
        /\ ghost'[b].accepts > 1 => ghost[b].accepts > 1 \/ (b = act[c] /\ ghost[b].accepts > 0)
  BY <1>3, <1>4 DEF Saturate
<1>6. Grows
  BY <1>3, <1>4 DEF Grows
<1>7. /\ \A i \in 1..Len(pendingOrder) : pendingOrder[i] \in Tracked
      /\ \A i \in 1..Len(completedOrder) : completedOrder[i] \in Tracked
      /\ Entries(pendingOrder) \subseteq Tracked
  BY <1>2, ElementOfSeq, EntriesTyped
<1>8. RepliesInv'
  BY <1>1, <1>2, <1>4, <1>7 DEF QueuesInv, RepliesInv, Entries, Gone
<1>9. CompletedAges'
  BY <1>1, <1>4, <1>7 DEF QueuesInv, CompletedAges
<1>10. PendingAges'
  <2>1. \A i \in 1..Len(pendingOrder) :
          /\ ghost'[pendingOrder[i]].cachedAfter = ghost[pendingOrder[i]].cachedAfter
          /\ ghost[pendingOrder[i]].accepts > 0 => ghost'[pendingOrder[i]].accepts > 0
    BY <1>3, <1>4, <1>5, <1>7
  <2>2. QED
    BY <1>1, <2>1 DEF QueuesInv, PendingAges
<1>11. PendingEntries'
  BY <1>1, <1>5, <1>7 DEF QueuesInv, PendingEntries
<1>12. DeliveredOnceWithinWindow'
  <2>1. act[c] \in Tracked /\ ghost[act[c]].accepts > 0 => ghost[act[c]].completedAfter = Limit
    BY <1>1 DEF HandlersInv, HandlerInv, Gone
  <2>2. QED
    BY <1>4, <1>5, <2>1 DEF QueuesInv, DeliveredOnceWithinWindow
<1>13. GivenUpOnlyAfterWindow'
  BY <1>1, <1>2, <1>4, <1>5 DEF QueuesInv, GivenUpOnlyAfterWindow
<1>14. QED
  BY <1>4, <1>5, <1>6, <1>8, <1>9, <1>10, <1>11, <1>12, <1>13 DEF QueuesInv

(* A handler that a step does not concern knows what it knew.              *)
LEMMA HandlerKept ==
  ASSUME NEW d \in Calls, HandlerInv(d), act'[d] = act[d], pc'[d] = pc[d],
         ghost \in [Tracked -> History], ghost' \in [Tracked -> History], Grows,
         act[d] \in Tracked /\ pc[d] \in Claimed =>
           /\ ghost'[act[d]].replies = ghost[act[d]].replies
           /\ ghost'[act[d]].accepts = ghost[act[d]].accepts
           /\ act[d] \in pending /\ ghost[act[d]].accepts = 0 =>
                act[d] \in pending' \/ Passed(act[d])'
  PROVE  HandlerInv(d)'
<1>1. SUFFICES ASSUME act[d] \in Tracked, pc[d] \in Claimed PROVE HandlerInv(d)'
  BY DEF HandlerInv, Claimed, Working, Delivering, Leaving
<1> DEFINE a == act[d]
<1>2. (Gone(a) => Gone(a)') /\ (Passed(a) => Passed(a)')
  BY <1>1, GrowsKeeps
<1>3. /\ Gone(act[d])' <=> ghost'[a].completedAfter = Limit
      /\ Gone(a)' <=> ghost'[a].completedAfter = Limit
      /\ Passed(act[d])' <=> ghost'[a].completedAfter = Limit \/ ghost'[a].cachedAfter = Limit
      /\ Passed(a)' <=> ghost'[a].completedAfter = Limit \/ ghost'[a].cachedAfter = Limit
  BY DEF Gone, Passed
<1>4. QED
  BY <1>1, <1>2, <1>3 DEF HandlerInv

-----------------------------------------------------------------------------
(* The window in every step                                                *)

(* Steps of a handler that touch neither the memory nor the history: it    *)
(* stays within the delivery, or leaves it.                                *)
Quiet(c) ==
  \/ DropDuplicate(c) \/ StreamCancelled(c) \/ StreamRaises(c) \/ SendRejected(c)
  \/ HandlerFails(c) \/ RaiseUndelivered(c) \/ RaiseFailed(c)
  \/ Apologise(c) \/ ApologyRejected(c)

(* What such a step does.                                                  *)
LEMMA QuietAlone ==
  ASSUME TypeOK, NEW c \in Calls, Quiet(c)
  PROVE  /\ UNCHANGED <<completed, completedOrder, pending, pendingOrder, ghost, act>>
         /\ \A d \in Calls \ {c} : pc'[d] = pc[d]
         /\ pc'[c] \notin {"running", "accepted"} /\ pc[c] # "accepted"
         /\ pc'[c] \in Delivering => pc[c] \in Delivering
BY DEF Quiet, DropDuplicate, StreamCancelled, StreamRaises, SendRejected, HandlerFails,
   RaiseUndelivered, RaiseFailed, CompleteFailure, Apologise, ApologyRejected, Goto, memory,
   Delivering, TypeOK

(* Two handlers at work have different activities.                         *)
LEMMA Apart ==
  ASSUME OneHandlerPerActivity, NEW c \in Calls, NEW d \in Calls, c # d,
         pc[c] \in Claimed, pc[d] \in Claimed, act[d] \in Tracked
  PROVE  act[d] # act[c]
BY DEF OneHandlerPerActivity

(* The window, after a step that leaves the memory and the history alone.  *)
LEMMA WindowStill ==
  ASSUME Inv, WindowInv, ghost' \in [Tracked -> History], NEW c \in Calls,
         UNCHANGED <<completed, completedOrder, pending, pendingOrder, ghost, act>>,
         \A d \in Calls \ {c} : pc'[d] = pc[d],
         pc'[c] \notin {"running", "accepted"}, pc[c] # "accepted",
         pc'[c] \in Delivering => pc[c] \in Delivering
  PROVE  WindowInv'
<1>2. ghost \in [Tracked -> History]
  BY DEF Inv, TypeOK
<1>3. QueuesInv' /\ KeepsWindow
  BY <1>2, QueuesUnchanged DEF WindowInv
<1>4. ASSUME NEW d \in Calls, d # c PROVE HandlerInv(d)'
  BY <1>2, <1>3, <1>4, HandlerKept DEF WindowInv, HandlersInv, KeepsWindow
<1>5. HandlerInv(c)'
  BY DEF WindowInv, HandlersInv, HandlerInv, Gone, Passed
<1>6. AcceptedInv'
  BY DEF WindowInv, AcceptedInv, Gone
<1>7. QED
  BY <1>3, <1>4, <1>5, <1>6 DEF WindowInv, HandlersInv

(* The steps of a delivery that nothing came of.                           *)
LEMMA WindowQuiet ==
  ASSUME Inv, WindowInv, ghost' \in [Tracked -> History], NEW c \in Calls, Quiet(c)
  PROVE  WindowInv'
BY QuietAlone, WindowStill DEF Inv

(* A claim for delivery finds a kept reply that nobody accepted, and one   *)
(* for a turn no reply, unless the window has passed.                      *)
LEMMA WindowClaim ==
  ASSUME Inv, WindowInv, ghost' \in [Tracked -> History],
         NEW c \in Calls, NEW streams \in BOOLEAN, Claim(c, streams)
  PROVE  WindowInv'
<1>1. /\ UNCHANGED <<completed, completedOrder, pending, pendingOrder, ghost, act>>
      /\ pc \in [Calls -> Places]
      /\ ghost \in [Tracked -> History]
      /\ pending \subseteq Entries(pendingOrder)
  BY DEF Claim, Inv, TypeOK, MemoryBounded
<1>2. /\ \A d \in Calls \ {c} : pc'[d] = pc[d]
      /\ pc[c] = "arrived"
      /\ act[c] \notin inflight \union completed
      /\ act[c] \notin pending => pc'[c] = "running"
      /\ act[c] \in pending => pc'[c] \in Delivering /\ pc'[c] # "running"
      /\ pc'[c] # "accepted"
  BY <1>1 DEF Claim, Goto, Delivering
<1>3. QueuesInv' /\ KeepsWindow
  BY <1>1, QueuesUnchanged DEF WindowInv
<1>4. ASSUME NEW d \in Calls, d # c PROVE HandlerInv(d)'
  BY <1>1, <1>2, <1>3, <1>4, HandlerKept DEF WindowInv, HandlersInv, KeepsWindow
<1>5. ASSUME act[c] \in Tracked PROVE ghost[act[c]].accepts > 0 => Gone(act[c])
  <2>1. \A d \in Calls : ~(pc[d] = "accepted" /\ act[d] = act[c])
    BY <1>2, <1>5 DEF Inv, OneHandlerPerActivity, Claimed, Leaving
  <2>2. QED
    BY <2>1, <1>2, <1>5 DEF WindowInv, AcceptedInv
<1>6. ASSUME act[c] \in Tracked
      PROVE  /\ act[c] \in pending => ghost[act[c]].replies > 0
             /\ act[c] \notin pending /\ ghost[act[c]].replies > 0 => Gone(act[c])
  BY <1>1, <1>2, <1>6 DEF WindowInv, QueuesInv, RepliesInv
<1>7. HandlerInv(c)'
  <2>1. Delivering \intersect {"running", "accepted"} = {}
    BY DEF Delivering
  <2>2. QED
    BY <2>1, <1>1, <1>2, <1>5, <1>6 DEF HandlerInv, Gone, Passed
<1>8. AcceptedInv'
  BY <1>1, <1>2 DEF WindowInv, AcceptedInv, Gone
<1>9. QED
  BY <1>3, <1>4, <1>7, <1>8 DEF WindowInv, HandlersInv

(* A turn replies.                                                         *)
LEMMA WindowReplies ==
  ASSUME Inv, WindowInv, ghost' \in [Tracked -> History],
         NEW c \in Calls, NEW streams \in BOOLEAN, TurnReplies(c, streams)
  PROVE  WindowInv'
<1>1. /\ pc[c] = "running" /\ act' = act
      /\ \A d \in Calls \ {c} : pc'[d] = pc[d]
      /\ pc'[c] \in Delivering /\ pc'[c] # "running" /\ pc'[c] # "accepted"
      /\ pc \in [Calls -> Places] /\ ghost \in [Tracked -> History]
      /\ pc[c] \in Claimed
  BY DEF TurnReplies, Goto, Delivering, Inv, TypeOK, Claimed, Working
<1>2. CASE act[c] \in Tracked
  <2>1. CompletedInv /\ PendingInv /\ QueuesInv
    BY MemoryParts DEF Inv, WindowInv
  <2>2. CacheReply(act[c])
    BY <1>2 DEF TurnReplies
  <2>3. ghost[act[c]].replies > 0 => Gone(act[c])
    BY <1>1, <1>2 DEF WindowInv, HandlersInv, HandlerInv
  <2>4. PICK a \in Tracked : a = act[c]
    BY <1>2
  <2>5. /\ QueuesInv' /\ KeepsWindow
        /\ ghost'[a].replies > 0
        /\ \A b \in Tracked \ {a} : ghost'[b].replies = ghost[b].replies
        /\ ghost[a].accepts = 0 => a \in pending'
        /\ \A b \in pending \ pending' : ghost[b].accepts = 0 => Passed(b)'
    BY <2>1, <2>2, <2>3, <2>4, <1>1, CacheReplyWindow
  <2>6. ASSUME NEW d \in Calls, d # c PROVE HandlerInv(d)'
    <3>1. act[d] \in Tracked /\ pc[d] \in Claimed => act[d] # a
      BY <2>4, <2>6, <1>1, Apart DEF Inv
    <3>2. act[d] \in Tracked /\ pc[d] \in Claimed =>
            /\ ghost'[act[d]].replies = ghost[act[d]].replies
            /\ ghost'[act[d]].accepts = ghost[act[d]].accepts
            /\ act[d] \in pending /\ ghost[act[d]].accepts = 0 =>
                 act[d] \in pending' \/ Passed(act[d])'
      <4>1. ASSUME act[d] \in pending, ghost[act[d]].accepts = 0, act[d] \notin pending'
            PROVE  Passed(act[d])'
        <5>1. PICK b \in pending \ pending' : b = act[d]
          BY <4>1
        <5>2. Passed(b)'
          BY <5>1, <4>1, <2>5
        <5>3. act'[d] = act[d]
          BY <1>1
        <5>4. QED
          BY <5>1, <5>2, <5>3 DEF Passed
      <4>2. QED
        BY <3>1, <4>1, <2>5 DEF KeepsWindow
    <3>3. HandlerInv(d) /\ act'[d] = act[d] /\ pc'[d] = pc[d] /\ Grows
      BY <2>5, <2>6, <1>1 DEF WindowInv, HandlersInv, KeepsWindow
    <3>4. QED
      BY <3>2, <3>3, <1>1, HandlerKept
  <2>7. HandlerInv(c)'
    <3>1. ghost[a].accepts > 0 => Gone(a)'
      <4>1. ghost[a].accepts > 0 => ghost[a].replies > 0 \/ Gone(a)
        <5>1. ASSUME ghost[a].accepts > 0, ~Gone(a) PROVE ghost[a].replies > 0
          <6>1. a \in completed \/ \E d \in Calls : pc[d] = "accepted" /\ act[d] = a
            BY <5>1 DEF WindowInv, AcceptedInv
          <6>2. ASSUME NEW d \in Calls, pc[d] = "accepted", act[d] = a PROVE ghost[a].replies > 0
            BY <6>2 DEF WindowInv, HandlersInv, HandlerInv
          <6>3. QED
            BY <6>1, <6>2 DEF WindowInv, QueuesInv, RepliesInv
        <5>2. QED
          BY <5>1
      <4>2. ghost[a].accepts > 0 => Gone(a)
        BY <4>1, <2>3, <2>4
      <4>3. QED
        BY <4>2, <2>5, <1>1, GrowsKeeps DEF KeepsWindow
    <3>2. /\ ghost'[a].replies > 0 /\ ghost'[a].accepts = ghost[a].accepts
          /\ ghost[a].accepts = 0 => a \in pending'
          /\ ghost[a].accepts \in 0..2
      BY <2>5, <1>1, HistoryFields DEF KeepsWindow
    <3>3. act'[c] = a
      BY <2>4, <1>1
    <3>4. QED
      BY <3>1, <3>2, <3>3, <1>1 DEF HandlerInv, Gone
  <2>8. AcceptedInv'
    <3>1. SUFFICES ASSUME NEW b \in Tracked, ghost'[b].accepts > 0, ~Gone(b)', b \notin completed'
                   PROVE  \E d \in Calls : pc'[d] = "accepted" /\ act'[d] = b
      BY DEF AcceptedInv
    <3>2. ghost[b].accepts > 0 /\ ~Gone(b) /\ b \notin completed
      BY <3>1, <2>5, <1>1, GrowsKeeps DEF KeepsWindow
    <3>3. PICK d \in Calls : pc[d] = "accepted" /\ act[d] = b
      BY <3>2 DEF WindowInv, AcceptedInv
    <3>4. QED
      BY <3>3, <1>1
  <2>9. QED
    BY <2>5, <2>6, <2>7, <2>8 DEF WindowInv, HandlersInv
<1>3. CASE act[c] \notin Tracked
  <2>1. UNCHANGED <<completed, completedOrder, pending, pendingOrder, ghost>>
    BY <1>3 DEF TurnReplies
  <2>2. QueuesInv' /\ KeepsWindow
    BY <2>1, <1>1, QueuesUnchanged DEF WindowInv
  <2>3. ASSUME NEW d \in Calls, d # c PROVE HandlerInv(d)'
    BY <2>1, <2>2, <2>3, <1>1, HandlerKept DEF WindowInv, HandlersInv, KeepsWindow
  <2>4. HandlerInv(c)'
    BY <1>1, <1>3 DEF HandlerInv
  <2>5. AcceptedInv'
    BY <1>1, <2>1 DEF WindowInv, AcceptedInv, Gone
  <2>6. QED
    BY <2>2, <2>3, <2>4, <2>5 DEF WindowInv, HandlersInv
<1>4. QED
  BY <1>2, <1>3

(* The channel accepts a reply.                                            *)
LEMMA WindowAccepts ==
  ASSUME Inv, WindowInv, ghost' \in [Tracked -> History], NEW c \in Calls,
         pc[c] \in Delivering, NoteAccepted(act[c]),
         UNCHANGED <<completed, completedOrder, pending, pendingOrder, act>>,
         \A d \in Calls \ {c} : pc'[d] = pc[d],
         \/ pc'[c] = "accepted"
         \/ /\ pc'[c] \in {"fallback", "undelivered"}
            /\ act[c] \in Tracked => ghost[act[c]].accepts > 0
  PROVE  WindowInv'
<1>1. /\ pc[c] \in Claimed
      /\ pc \in [Calls -> Places] /\ ghost \in [Tracked -> History]
  BY DEF Inv, TypeOK, Claimed
<1>7. act[c] \in Tracked /\ ghost[act[c]].accepts > 0 => Gone(act[c])
  BY DEF WindowInv, HandlersInv, HandlerInv
<1>2. /\ QueuesInv' /\ Grows
      /\ \A b \in Tracked :
           /\ ghost'[b].replies = ghost[b].replies
           /\ b # act[c] => ghost'[b].accepts = ghost[b].accepts
           /\ b = act[c] => ghost'[b].accepts > 0
  BY AcceptanceWindow DEF WindowInv
<1>3. ASSUME NEW d \in Calls, d # c PROVE HandlerInv(d)'
  <2>1. act[d] \in Tracked /\ pc[d] \in Claimed => act[d] # act[c]
    BY <1>1, <1>3, Apart DEF Inv
  <2>2. act[d] \in Tracked /\ pc[d] \in Claimed =>
          /\ ghost'[act[d]].replies = ghost[act[d]].replies
          /\ ghost'[act[d]].accepts = ghost[act[d]].accepts
          /\ act[d] \in pending /\ ghost[act[d]].accepts = 0 =>
               act[d] \in pending' \/ Passed(act[d])'
    BY <2>1, <1>1, <1>2
  <2>3. HandlerInv(d) /\ act'[d] = act[d] /\ pc'[d] = pc[d]
    BY <1>1, <1>3 DEF WindowInv, HandlersInv
  <2>4. QED
    BY <2>2, <2>3, <1>1, <1>2, HandlerKept
<1>4. HandlerInv(c)'
  <2>1. act[c] \in Tracked => ghost[act[c]].replies > 0
    BY <1>1 DEF WindowInv, HandlersInv, HandlerInv
  <2>2. act[c] \in Tracked => ghost'[act[c]].replies > 0 /\ ghost'[act[c]].accepts > 0
    BY <2>1, <1>2
  <2>3. CASE pc'[c] = "accepted"
    BY <2>2, <2>3 DEF HandlerInv, Delivering
  <2>4. CASE pc'[c] # "accepted"
    <3>1. act[c] \in Tracked => ghost'[act[c]].completedAfter = Limit
      BY <2>4, <1>1, <1>2, <1>7, GrowsKeeps DEF Gone
    <3>2. pc'[c] \in {"fallback", "undelivered"} /\ act'[c] = act[c]
      BY <2>4
    <3>3. act[c] \in Tracked => ~(ghost'[act[c]].accepts = 0)
      BY <2>2
    <3>4. QED
      BY <2>2, <3>1, <3>2, <3>3 DEF HandlerInv, Delivering, Gone
  <2>5. QED
    BY <2>3, <2>4
<1>5. AcceptedInv'
  <2>1. SUFFICES ASSUME NEW b \in Tracked, ghost'[b].accepts > 0, ~Gone(b)', b \notin completed
                 PROVE  \E d \in Calls : pc'[d] = "accepted" /\ act'[d] = b
    BY <1>1 DEF AcceptedInv
  <2>2. CASE b = act[c]
    <3>1. pc'[c] # "accepted" => Gone(b)'
      BY <2>2, <1>1, <1>2, <1>7, GrowsKeeps
    <3>2. QED
      BY <2>1, <2>2, <3>1
  <2>3. CASE b # act[c]
    <3>1. ghost[b].accepts > 0 /\ ~Gone(b)
      BY <2>1, <2>3, <1>1, <1>2, GrowsKeeps
    <3>2. PICK d \in Calls : pc[d] = "accepted" /\ act[d] = b
      BY <2>1, <3>1 DEF WindowInv, AcceptedInv
    <3>3. QED
      BY <3>2, <2>3, <1>1
  <2>4. QED
    BY <2>2, <2>3
<1>6. QED
  BY <1>2, <1>3, <1>4, <1>5 DEF WindowInv, HandlersInv

(* The channel accepts a reply and the handler hears an exception.         *)
LEMMA WindowUnheard ==
  ASSUME Inv, WindowInv, ghost' \in [Tracked -> History], NEW c \in Calls, AcceptedUnheard(c)
  PROVE  WindowInv'
<1>1. /\ pc[c] \in Delivering /\ pc[c] # "accepted"
      /\ UNCHANGED <<completed, completedOrder, pending, pendingOrder, act>>
      /\ \A d \in Calls \ {c} : pc'[d] = pc[d]
      /\ pc'[c] \in {"fallback", "undelivered"}
  BY DEF AcceptedUnheard, Delivering, Goto, memory, Inv, TypeOK
<1>2. CASE act[c] \in Tracked /\ ghost[act[c]].accepts = 0
  <2>1. ghost' = ghost
    BY <1>2 DEF AcceptedUnheard
  <2>2. QED
    BY <2>1, <1>1, WindowStill
<1>3. CASE ~(act[c] \in Tracked /\ ghost[act[c]].accepts = 0)
  <2>1. NoteAccepted(act[c])
    BY <1>3 DEF AcceptedUnheard
  <2>2. act[c] \in Tracked => ghost[act[c]].accepts > 0
    <3>1. ghost \in [Tracked -> History]
      BY DEF Inv, TypeOK
    <3>2. act[c] \in Tracked => ghost[act[c]].accepts \in 0..2
      BY <3>1, HistoryFields
    <3>3. QED
      BY <1>3, <3>2
  <2>3. QED
    BY <2>1, <2>2, <1>1, WindowAccepts
<1>4. QED
  BY <1>2, <1>3

(* An accepted activity is completed.                                      *)
LEMMA WindowReturns ==
  ASSUME Inv, WindowInv, ghost' \in [Tracked -> History], NEW c \in Calls, ReturnDelivered(c)
  PROVE  WindowInv'
<1>1. /\ pc[c] = "accepted" /\ act' = act /\ pc[c] \in Claimed
      /\ \A d \in Calls \ {c} : pc'[d] = pc[d]
      /\ pc'[c] = "idle"
      /\ pc \in [Calls -> Places] /\ ghost \in [Tracked -> History]
      /\ CompleteSuccess(act[c])
  BY DEF ReturnDelivered, Goto, Inv, TypeOK, Claimed, Leaving
<1>2. HandlerInv(c)'
  BY <1>1 DEF HandlerInv, Delivering
<1>3. CASE act[c] \in Tracked
  <2>1. PICK a \in Tracked : a = act[c]
    BY <1>3
  <2>2. ghost[a].replies > 0 /\ ghost[a].accepts > 0
    BY <2>1, <1>1 DEF WindowInv, HandlersInv, HandlerInv
  <2>3. /\ QueuesInv' /\ KeepsWindow
        /\ a \in completed'
        /\ pending' = pending \ {a}
        /\ \A b \in Tracked : ghost'[b].replies = ghost[b].replies
    BY <2>1, <2>2, <1>1, MemoryParts, CompleteSuccessWindow DEF Inv, WindowInv
  <2>4. ASSUME NEW d \in Calls, d # c PROVE HandlerInv(d)'
    <3>1. act[d] \in Tracked /\ pc[d] \in Claimed => act[d] # a
      BY <2>1, <2>4, <1>1, Apart DEF Inv
    <3>2. act[d] \in Tracked /\ pc[d] \in Claimed =>
            /\ ghost'[act[d]].replies = ghost[act[d]].replies
            /\ ghost'[act[d]].accepts = ghost[act[d]].accepts
            /\ act[d] \in pending /\ ghost[act[d]].accepts = 0 =>
                 act[d] \in pending' \/ Passed(act[d])'
      BY <3>1, <2>3 DEF KeepsWindow
    <3>3. HandlerInv(d) /\ act'[d] = act[d] /\ pc'[d] = pc[d] /\ Grows
      BY <2>3, <2>4, <1>1 DEF WindowInv, HandlersInv, KeepsWindow
    <3>4. QED
      BY <3>2, <3>3, <1>1, HandlerKept
  <2>5. AcceptedInv'
    <3>1. SUFFICES ASSUME NEW b \in Tracked, ghost'[b].accepts > 0, ~Gone(b)', b \notin completed'
                   PROVE  \E d \in Calls : pc'[d] = "accepted" /\ act'[d] = b
      BY DEF AcceptedInv
    <3>2. ghost[b].accepts > 0 /\ ~Gone(b) /\ b \notin completed /\ b # a
      BY <3>1, <2>3, <1>1, GrowsKeeps DEF KeepsWindow
    <3>3. PICK d \in Calls : pc[d] = "accepted" /\ act[d] = b
      BY <3>2 DEF WindowInv, AcceptedInv
    <3>4. QED
      BY <3>2, <3>3, <2>1, <1>1
  <2>6. QED
    BY <2>3, <2>4, <2>5, <1>2 DEF WindowInv, HandlersInv
<1>4. CASE act[c] \notin Tracked
  <2>1. UNCHANGED <<completed, completedOrder, pending, pendingOrder, ghost>>
    BY <1>1, <1>4 DEF CompleteSuccess, memory
  <2>2. QueuesInv' /\ KeepsWindow
    BY <2>1, <1>1, QueuesUnchanged DEF WindowInv
  <2>3. ASSUME NEW d \in Calls, d # c PROVE HandlerInv(d)'
    BY <2>1, <2>2, <2>3, <1>1, HandlerKept DEF WindowInv, HandlersInv, KeepsWindow
  <2>4. AcceptedInv'
    BY <1>1, <1>4, <2>1 DEF WindowInv, AcceptedInv, Gone
  <2>5. QED
    BY <2>2, <2>3, <2>4, <1>2 DEF WindowInv, HandlersInv
<1>5. QED
  BY <1>3, <1>4

(* A handler is called.                                                    *)
LEMMA WindowPost ==
  ASSUME Inv, WindowInv, ghost' \in [Tracked -> History],
         NEW c \in Calls, NEW a \in Activities, Post(c, a)
  PROVE  WindowInv'
<1>1. /\ UNCHANGED <<completed, completedOrder, pending, pendingOrder, ghost>>
      /\ \A d \in Calls \ {c} : pc'[d] = pc[d] /\ act'[d] = act[d]
      /\ pc[c] = "idle" /\ pc'[c] = "arrived"
      /\ ghost \in [Tracked -> History]
  BY DEF Post, Goto, memory, Inv, TypeOK
<1>2. QueuesInv' /\ KeepsWindow
  BY <1>1, QueuesUnchanged DEF WindowInv
<1>3. ASSUME NEW d \in Calls, d # c PROVE HandlerInv(d)'
  BY <1>1, <1>2, <1>3, HandlerKept DEF WindowInv, HandlersInv, KeepsWindow
<1>4. HandlerInv(c)'
  BY <1>1 DEF HandlerInv, Delivering
<1>5. AcceptedInv'
  <2>1. SUFFICES ASSUME NEW b \in Tracked, ghost[b].accepts > 0, ~Gone(b), b \notin completed
                 PROVE  \E d \in Calls : pc'[d] = "accepted" /\ act'[d] = b
    BY <1>1 DEF AcceptedInv, Gone
  <2>2. PICK d \in Calls : pc[d] = "accepted" /\ act[d] = b
    BY <2>1 DEF WindowInv, AcceptedInv
  <2>3. d # c
    BY <2>2, <1>1
  <2>4. QED
    BY <2>2, <2>3, <1>1
<1>6. QED
  BY <1>2, <1>3, <1>4, <1>5 DEF WindowInv, HandlersInv

(* A process starts with nothing remembered and no history.                *)
Fresh ==
  /\ completed = {} /\ completedOrder = <<>> /\ pending = {} /\ pendingOrder = <<>>
  /\ pc = [c \in Calls |-> "idle"] /\ ghost = [a \in Tracked |-> NoHistory]

(* Nothing the window is about has happened yet.                           *)
LEMMA WindowFresh == Fresh => WindowInv
<1> SUFFICES ASSUME Fresh PROVE WindowInv
  OBVIOUS
<1> USE DEF Fresh
<1>1. \A a \in Tracked : ghost[a].replies = 0 /\ ghost[a].accepts = 0
  BY DEF NoHistory
<1>2. Entries(pendingOrder) = {} /\ Len(pendingOrder) = 0 /\ Len(completedOrder) = 0
  BY DEF Entries
<1>3. RepliesInv /\ CompletedAges /\ PendingAges /\ PendingEntries
  BY <1>1, <1>2 DEF RepliesInv, CompletedAges, PendingAges, PendingEntries
<1>4. DeliveredOnceWithinWindow /\ GivenUpOnlyAfterWindow
  BY <1>1 DEF DeliveredOnceWithinWindow, GivenUpOnlyAfterWindow
<1>5. HandlersInv /\ AcceptedInv
  BY <1>1 DEF HandlersInv, HandlerInv, AcceptedInv, Delivering
<1>6. QED
  BY <1>3, <1>4, <1>5 DEF WindowInv, QueuesInv

(* Every step keeps the window.                                            *)
LEMMA WindowStep == Inv /\ WindowInv /\ [Next]_vars => WindowInv'
<1> SUFFICES ASSUME Inv, WindowInv, [Next]_vars PROVE WindowInv'
  OBVIOUS
<1>1. ghost' \in [Tracked -> History]
  BY HistoryStep DEF Inv
<1>2. ASSUME NEW c \in Calls, Handler(c) PROVE WindowInv'
  <2>1. \/ Quiet(c) \/ ChannelAccepts(c) \/ AcceptedUnheard(c) \/ ReturnDelivered(c)
        \/ \E streams \in BOOLEAN : Claim(c, streams) \/ TurnReplies(c, streams)
    BY <1>2 DEF Handler, Quiet
  <2>2. CASE ChannelAccepts(c)
    <3>1. /\ pc[c] \in Delivering /\ NoteAccepted(act[c])
          /\ UNCHANGED <<completed, completedOrder, pending, pendingOrder, act>>
          /\ \A d \in Calls \ {c} : pc'[d] = pc[d]
          /\ pc'[c] = "accepted"
      BY <2>2 DEF ChannelAccepts, Goto, memory, Inv, TypeOK
    <3>2. QED
      BY <3>1, <1>1, WindowAccepts
  <2>3. QED
    BY <2>1, <2>2, <1>1, WindowQuiet, WindowUnheard, WindowReturns, WindowClaim, WindowReplies
<1>3. CASE Restart
  <2>1. Fresh'
    BY <1>3 DEF Restart, Fresh
  <2>2. QED
    BY <2>1, WindowFresh, PTL
<1>4. CASE UNCHANGED vars
  BY <1>4 DEF vars, memory, WindowInv, QueuesInv, RepliesInv, CompletedAges, PendingAges,
     PendingEntries, HandlersInv, HandlerInv, AcceptedInv, DeliveredOnceWithinWindow,
     GivenUpOnlyAfterWindow, Entries, Gone, Passed
<1>5. QED
  BY <1>1, <1>2, <1>3, <1>4, WindowPost DEF Next

(* In one life of the process no step takes a reply back.                  *)
LEMMA RepliesGrow ==
  ASSUME TypeOK, [Next]_vars
  PROVE  Restart \/ \A b \in Tracked : ghost[b].replies > 0 => ghost'[b].replies > 0
<1>1. ghost \in [Tracked -> History] /\ act \in [Calls -> Activities]
  BY DEF TypeOK
<1>2. \A b \in Tracked : ghost[b].replies \in 0..2
  BY <1>1, HistoryFields
<1> DEFINE Kept == \A b \in Tracked : ghost[b].replies > 0 => ghost'[b].replies > 0
<1>3. ASSUME NEW c \in Calls, act[c] \in Tracked, CacheReply(act[c]) PROVE Kept
  <2>1. PICK a \in Tracked : a = act[c]
    BY <1>3
  <2>2. PICK appended \in BOOLEAN : appended = (a \notin pending)
    OBVIOUS
  <2>3. PICK done : NoteReply(a, appended, done)
    BY <1>3, <2>1, <2>2 DEF CacheReply
  <2>4. /\ ghost'[a].replies > 0
        /\ \A b \in Tracked \ {a} : ghost'[b].replies = ghost[b].replies
    BY <2>3, <1>1, ReplyNoted
  <2>5. QED
    BY <2>4
<1>4. ASSUME NEW c \in Calls, CompleteSuccess(act[c]) PROVE Kept
  <2>1. CASE act[c] \in Tracked
    <3>1. NoteCompleted(act[c])
      BY <1>4, <2>1 DEF CompleteSuccess
    <3>2. \A b \in Tracked : ghost'[b].replies = ghost[b].replies
      BY <2>1, <3>1, <1>1, CompletionNoted
    <3>3. QED
      BY <3>2
  <2>2. CASE act[c] \notin Tracked
    BY <1>4, <2>2 DEF CompleteSuccess
  <2>3. QED
    BY <2>1, <2>2
<1>5. ASSUME NEW c \in Calls, NoteAccepted(act[c]) PROVE Kept
  <2>1. \A b \in Tracked : ghost'[b].replies = ghost[b].replies
    BY <1>1, <1>5 DEF NoteAccepted, History
  <2>2. QED
    BY <2>1
<1>6. ASSUME NEW c \in Calls, Handler(c) PROVE Kept
  <2>1. \/ act[c] \in Tracked /\ CacheReply(act[c])
        \/ CompleteSuccess(act[c]) \/ NoteAccepted(act[c]) \/ ghost' = ghost
    BY <1>6 DEF Handler, DropDuplicate, Claim, TurnReplies, ChannelAccepts, AcceptedUnheard,
       StreamCancelled, StreamRaises, SendRejected, HandlerFails, ReturnDelivered,
       RaiseUndelivered, RaiseFailed, CompleteFailure, Apologise, ApologyRejected
  <2>2. QED
    BY <2>1, <1>3, <1>4, <1>5
<1>7. ASSUME NEW c \in Calls, NEW a \in Activities, Post(c, a) PROVE Kept
  BY <1>7 DEF Post
<1>8. CASE UNCHANGED vars
  BY <1>8 DEF vars
<1>9. QED
  BY <1>6, <1>7, <1>8 DEF Next

(* Only a delivery is accepted, and it delivers a reply.                   *)
LEMMA UnheardStep == Inv /\ WindowInv /\ UnheardInv /\ [Next]_vars => UnheardInv'
<1> SUFFICES ASSUME Inv, WindowInv, UnheardInv, [Next]_vars PROVE UnheardInv'
  OBVIOUS
<1>1. Restart \/ \A b \in Tracked : ghost[b].replies > 0 => ghost'[b].replies > 0
  BY RepliesGrow DEF Inv
<1>2. unheard \subseteq Tracked
  BY DEF Inv, TypeOK
<1>3. CASE Restart
  BY <1>3 DEF Restart, UnheardInv
<1>4. ASSUME ~Restart, unheard' = unheard PROVE UnheardInv'
  BY <1>1, <1>2, <1>4 DEF UnheardInv
<1>5. ASSUME ~Restart, NEW c \in Calls, AcceptedUnheard(c) PROVE UnheardInv'
  <2>1. CASE act[c] \in Tracked /\ ghost[act[c]].accepts = 0
    <3>1. pc[c] \in Delivering /\ unheard' = unheard \union {act[c]}
      BY <1>5, <2>1 DEF AcceptedUnheard
    <3>2. ghost[act[c]].replies > 0
      BY <2>1, <3>1 DEF WindowInv, HandlersInv, HandlerInv
    <3>3. QED
      BY <2>1, <3>1, <3>2, <1>1, <1>2, <1>5 DEF UnheardInv
  <2>2. CASE ~(act[c] \in Tracked /\ ghost[act[c]].accepts = 0)
    BY <2>2, <1>4, <1>5 DEF AcceptedUnheard
  <2>3. QED
    BY <2>1, <2>2
<1>6. ASSUME NEW c \in Calls, Handler(c), ~AcceptedUnheard(c) PROVE unheard' = unheard
  BY <1>6 DEF Handler, DropDuplicate, Claim, TurnReplies, ChannelAccepts, StreamCancelled,
     StreamRaises, SendRejected, HandlerFails, ReturnDelivered, RaiseUndelivered, RaiseFailed,
     Apologise, ApologyRejected
<1>7. ASSUME NEW c \in Calls, NEW a \in Activities, Post(c, a) PROVE unheard' = unheard
  BY <1>7 DEF Post
<1>8. CASE UNCHANGED vars
  BY <1>8, <1>3, <1>4 DEF vars
<1>9. QED
  BY <1>3, <1>4, <1>5, <1>6, <1>7, <1>8 DEF Next

(* What the handlers know excludes a turn within the window.               *)
LEMMA WindowKept == WindowInv => WithinWindow
BY DEF WindowInv, QueuesInv, HandlersInv, HandlerInv, WithinWindow, RerunOnlyAfterWindow, Gone

(* The window holds in every behaviour.                                    *)
LEMMA WindowHolds == Spec => [](Inv /\ WindowInv /\ UnheardInv)
<1>1. Init => WindowInv
  BY WindowFresh DEF Init, Fresh
<1>2. Init => UnheardInv
  BY DEF Init, UnheardInv
<1>3. QED
  BY <1>1, <1>2, InvInit, InvStep, WindowStep, UnheardStep, PTL DEF Spec

-----------------------------------------------------------------------------
(* The promise                                                             *)

(* An activity's status is one of six.                                     *)
LEMMA StatusTyped == \A a \in Tracked : Status(a) \in Promise!Statuses
BY DEF Status, Promise!Statuses

(* At the beginning nothing was promised.                                  *)
LEMMA PromiseInit == Init => Promise!Init
<1> SUFFICES ASSUME Init PROVE Promise!Init
  OBVIOUS
<1>1. \A a \in Tracked : ghost[a].accepts = 0 /\ ghost[a].completedAfter = 0 /\ ghost[a].cachedAfter = 0
  BY DEF Init, NoHistory
<1>2. \A a \in Tracked : Status(a) = "waiting" /\ ~Passed(a)
  BY <1>1, ActivityAssumption DEF Init, Status, Passed
<1>3. QED
  BY <1>2 DEF Init, Promise!Init

(* Some handler runs the turn of the activity.                             *)
AtWork(b) == \E c \in Calls : pc[c] = "running" /\ act[c] = b

(* Whatever is accepted, kept or at work within its window is as expected: *)
(* accepted and kept replies are replies, and no turn runs for them.       *)
LEMMA WithinStatus ==
  ASSUME Inv, WindowInv, UnheardInv, NEW b \in Tracked, ~Gone(b)
  PROVE  /\ ghost[b].accepts \in 0..2 /\ ~(ghost[b].accepts > 1)
         /\ AtWork(b) => ghost[b].replies = 0
         /\ ghost[b].replies = 0 =>
              ghost[b].accepts = 0 /\ b \notin pending /\ b \notin unheard
<1>1. ghost[b].accepts \in 0..2 /\ ghost[b].replies \in 0..2
  BY HistoryFields DEF Inv, TypeOK
<1>2. ~(ghost[b].accepts > 1)
  BY DEF WindowInv, QueuesInv, DeliveredOnceWithinWindow, Gone
<1>3. AtWork(b) => ghost[b].replies = 0
  BY <1>1 DEF AtWork, WindowInv, HandlersInv, HandlerInv
<1>4. b \in pending \/ b \in completed \/ b \in unheard => ghost[b].replies > 0
  BY DEF WindowInv, QueuesInv, RepliesInv, Inv, MemoryBounded, UnheardInv
<1>5. ghost[b].accepts > 0 => ghost[b].replies > 0
  <2>1. SUFFICES ASSUME ghost[b].accepts > 0 PROVE ghost[b].replies > 0
    OBVIOUS
  <2>2. b \in completed \/ \E d \in Calls : pc[d] = "accepted" /\ act[d] = b
    BY <2>1 DEF WindowInv, AcceptedInv
  <2>3. ASSUME NEW d \in Calls, pc[d] = "accepted", act[d] = b PROVE ghost[b].replies > 0
    BY <2>3 DEF WindowInv, HandlersInv, HandlerInv
  <2>4. QED
    BY <2>2, <2>3, <1>4
<1>6. QED
  BY <1>1, <1>2, <1>3, <1>4, <1>5

(* A step that takes nothing back and changes the status of at most one    *)
(* activity within its window, by a move of the promise, keeps the promise.*)
LEMMA PromiseKept ==
  ASSUME ghost \in [Tracked -> History], ghost' \in [Tracked -> History], Grows,
         restarts' = restarts, NEW a,
         \A b \in Tracked : ~Passed(b)' /\ Status(b)' # Status(b) =>
                              b = a /\ <<Status(b), Status(b)'>> \in Promise!Moves
  PROVE  Promise!Next
<1> DEFINE status == [b \in Tracked |-> Status(b)]
           lapsed == {b \in Tracked : Passed(b)}
<1>1. lapsed \subseteq lapsed'
  BY GrowsKeeps
<1>2. status' \in [Tracked -> Promise!Statuses]
  BY DEF Status, Promise!Statuses
<1>3. ASSUME NEW b \in Tracked \ lapsed', NEW d \in Tracked \ lapsed'
      PROVE  /\ status'[b] # status[b] => <<status[b], status'[b]>> \in Promise!Moves
             /\ status'[b] # status[b] /\ status'[d] # status[d] => b = d
  OBVIOUS
<1>4. Promise!Step
  BY <1>1, <1>2, <1>3 DEF Promise!Step
<1>5. QED
  BY <1>4 DEF Promise!Next

(* Only a step of the handler that runs a turn, or begins one, changes     *)
(* which activities are at work.                                           *)
LEMMA WorkUnchanged ==
  ASSUME NEW c \in Calls, \A d \in Calls \ {c} : pc'[d] = pc[d] /\ act'[d] = act[d],
         NEW b, ~(pc[c] = "running" /\ act[c] = b), ~(pc'[c] = "running" /\ act'[c] = b)
  PROVE  AtWork(b)' <=> AtWork(b)
<1>1. ASSUME AtWork(b) PROVE AtWork(b)'
  <2>1. PICK d \in Calls : pc[d] = "running" /\ act[d] = b
    BY <1>1 DEF AtWork
  <2>2. pc'[d] = "running" /\ act'[d] = b
    BY <2>1
  <2>3. QED
    BY <2>2 DEF AtWork
<1>2. ASSUME AtWork(b)' PROVE AtWork(b)
  <2>1. PICK d \in Calls : pc'[d] = "running" /\ act'[d] = b
    BY <1>2 DEF AtWork
  <2>2. pc[d] = "running" /\ act[d] = b
    BY <2>1
  <2>3. QED
    BY <2>2 DEF AtWork
<1>3. QED
  BY <1>1, <1>2

(* The status of an activity, by what it depends on.                       *)
LEMMA StatusUnchanged ==
  ASSUME NEW b, ghost'[b].accepts = ghost[b].accepts, AtWork(b)' <=> AtWork(b),
         \/ ghost[b].accepts > 0
         \/ (b \in pending' <=> b \in pending) /\ (b \in unheard' <=> b \in unheard)
  PROVE  Status(b)' = Status(b)
BY DEF Status, AtWork

(* A handler whose turn ends without a reply leaves its activity waiting.  *)
LEMMA PromiseQuiet ==
  ASSUME Inv, WindowInv, UnheardInv, ghost' \in [Tracked -> History], NEW c \in Calls, Quiet(c)
  PROVE  Promise!Next
<1>1. /\ UNCHANGED <<completed, completedOrder, pending, pendingOrder, ghost, act>>
      /\ \A d \in Calls \ {c} : pc'[d] = pc[d]
      /\ pc'[c] \notin {"running", "accepted"}
      /\ ghost \in [Tracked -> History]
  BY QuietAlone DEF Inv, TypeOK
<1>2. restarts' = restarts /\ unheard' = unheard
  BY DEF Quiet, DropDuplicate, StreamCancelled, StreamRaises, SendRejected, HandlerFails,
     RaiseUndelivered, RaiseFailed, Apologise, ApologyRejected
<1>3. Grows
  BY <1>1, QueuesUnchanged DEF WindowInv, KeepsWindow
<1>4. ASSUME NEW b \in Tracked, ~Passed(b)', Status(b)' # Status(b)
      PROVE  b = act[c] /\ <<Status(b), Status(b)'>> \in Promise!Moves
  <2>1. ~(AtWork(b)' <=> AtWork(b))
    BY <1>1, <1>2, <1>4, StatusUnchanged
  <2>2. pc[c] = "running" /\ act[c] = b
    BY <2>1, <1>1, WorkUnchanged
  <2>3. ~AtWork(b)'
    <3>1. ASSUME NEW d \in Calls, pc'[d] = "running", act'[d] = b PROVE FALSE
      <4>1. d # c /\ pc[d] = "running" /\ act[d] = b
        BY <3>1, <1>1
      <4>2. QED
        BY <4>1, <2>2, Apart DEF Inv, Claimed, Working
    <3>2. QED
      BY <3>1 DEF AtWork
  <2>4. AtWork(b)
    BY <2>1, <2>3
  <2>5. ~Gone(b)
    BY <1>1, <1>4 DEF Passed, Gone
  <2>6. ghost[b].accepts = 0 /\ b \notin pending /\ b \notin unheard
    BY <2>4, <2>5, WithinStatus
  <2>7. Status(b) = "working" /\ Status(b)' = "waiting"
    BY <2>3, <2>4, <2>6, <1>1, <1>2 DEF Status, AtWork
  <2>8. QED
    BY <2>2, <2>7 DEF Promise!Moves
<1>5. QED
  BY <1>1, <1>2, <1>3, <1>4, PromiseKept

(* A claim without a kept reply begins a turn.                             *)
LEMMA PromiseClaim ==
  ASSUME Inv, WindowInv, UnheardInv, ghost' \in [Tracked -> History],
         NEW c \in Calls, NEW streams \in BOOLEAN, Claim(c, streams)
  PROVE  Promise!Next
<1>1. /\ UNCHANGED <<completed, completedOrder, pending, pendingOrder, ghost, act, unheard>>
      /\ \A d \in Calls \ {c} : pc'[d] = pc[d]
      /\ pc[c] = "arrived"
      /\ act[c] \notin pending => pc'[c] = "running"
      /\ act[c] \in pending => pc'[c] # "running"
      /\ ghost \in [Tracked -> History]
      /\ restarts' = restarts
  BY DEF Claim, Goto, Inv, TypeOK
<1>2. Grows
  BY <1>1, QueuesUnchanged DEF WindowInv, KeepsWindow
<1>3. ASSUME NEW b \in Tracked, ~Passed(b)', Status(b)' # Status(b)
      PROVE  b = act[c] /\ <<Status(b), Status(b)'>> \in Promise!Moves
  <2>1. ~(AtWork(b)' <=> AtWork(b))
    BY <1>1, <1>3, StatusUnchanged
  <2>2. pc'[c] = "running" /\ act[c] = b
    BY <2>1, <1>1, WorkUnchanged
  <2>3. AtWork(b)' /\ ~AtWork(b)
    <3>1. AtWork(b)'
      BY <2>2, <1>1 DEF AtWork
    <3>2. QED
      BY <3>1, <2>1
  <2>4. ~Gone(b)
    BY <1>1, <1>3 DEF Passed, Gone
  <2>5. ghost[b].replies = 0
    <3>1. b \notin pending /\ b \notin completed
      BY <2>2, <1>1 DEF Claim
    <3>2. ~(ghost[b].replies > 0)
      BY <3>1, <2>4 DEF WindowInv, QueuesInv, RepliesInv
    <3>3. QED
      BY <3>2, <1>1, HistoryFields
  <2>6. ghost[b].accepts = 0 /\ b \notin pending
    BY <2>4, <2>5, WithinStatus
  <2>7. Status(b) = "waiting" /\ Status(b)' = "working"
    BY <2>3, <2>6, <1>1 DEF Status, AtWork
  <2>8. QED
    BY <2>2, <2>7 DEF Promise!Moves
<1>4. QED
  BY <1>1, <1>2, <1>3, PromiseKept

(* A reply is ready as soon as it is cached.                               *)
LEMMA PromiseReplies ==
  ASSUME Inv, WindowInv, UnheardInv, ghost' \in [Tracked -> History],
         NEW c \in Calls, NEW streams \in BOOLEAN, TurnReplies(c, streams)
  PROVE  Promise!Next
<1>1. /\ pc[c] = "running" /\ act' = act /\ unheard' = unheard
      /\ \A d \in Calls \ {c} : pc'[d] = pc[d]
      /\ pc'[c] # "running"
      /\ ghost \in [Tracked -> History]
      /\ restarts' = restarts
  BY DEF TurnReplies, Goto, Inv, TypeOK
<1>2. CASE act[c] \in Tracked
  <2>1. PICK a \in Tracked : a = act[c]
    BY <1>2
  <2>2. CacheReply(a)
    BY <2>1 DEF TurnReplies
  <2>3. ghost[a].replies > 0 => Gone(a)
    BY <2>1, <1>1 DEF WindowInv, HandlersInv, HandlerInv
  <2>4. /\ KeepsWindow
        /\ ghost[a].accepts = 0 => a \in pending'
        /\ \A b \in pending \ pending' : ghost[b].accepts = 0 => Passed(b)'
    BY <2>2, <2>3, <1>1, MemoryParts, CacheReplyWindow DEF Inv, WindowInv
  <2>5. pending' \subseteq pending \union {a}
    BY <2>2 DEF CacheReply
  <2>6. ASSUME NEW b \in Tracked, ~Passed(b)', Status(b)' # Status(b)
        PROVE  b = a /\ <<Status(b), Status(b)'>> \in Promise!Moves
    <3>1. ghost'[b].accepts = ghost[b].accepts /\ ghost[b].accepts \in 0..2
      BY <2>4, <1>1, HistoryFields DEF KeepsWindow
    <3>2. ~Gone(b)
      BY <2>4, <2>6, <1>1, GrowsKeeps DEF KeepsWindow, Passed, Gone
    <3>3. ghost[b].accepts = 0 /\ b \in pending => b \in pending'
      BY <2>4, <2>6
    <3>4. b = a
      <4>1. SUFFICES ASSUME b # a PROVE FALSE
        OBVIOUS
      <4>2. ghost[b].accepts > 0 \/ (b \in pending' <=> b \in pending)
        BY <4>1, <3>1, <3>3, <2>5
      <4>3. AtWork(b)' <=> AtWork(b)
        BY <4>1, <2>1, <1>1, WorkUnchanged
      <4>4. QED
        BY <4>2, <4>3, <3>1, <2>6, <1>1, StatusUnchanged
    <3>5. AtWork(b)
      BY <3>4, <2>1, <1>1 DEF AtWork
    <3>6. ghost[b].accepts = 0 /\ b \notin pending /\ b \notin unheard
      BY <3>2, <3>5, WithinStatus
    <3>7. ~AtWork(b)'
      <4>1. ASSUME NEW d \in Calls, pc'[d] = "running", act'[d] = b PROVE FALSE
        <5>1. d # c /\ pc[d] = "running" /\ act[d] = b
          BY <4>1, <1>1
        <5>2. QED
          BY <5>1, <3>4, <2>1, <1>1, Apart DEF Inv, Claimed, Working
      <4>2. QED
        BY <4>1 DEF AtWork
    <3>8. Status(b) = "working"
      BY <3>5, <3>6 DEF Status, AtWork
    <3>9. Status(b)' = "ready"
      <4>1. b \in pending' /\ b \notin unheard' /\ ghost'[b].accepts = 0
        BY <3>1, <3>4, <3>6, <2>4, <1>1
      <4>2. QED
        BY <4>1, <3>7 DEF Status, AtWork
    <3>10. QED
      BY <3>4, <3>8, <3>9 DEF Promise!Moves
  <2>7. QED
    BY <2>4, <2>6, <1>1, PromiseKept DEF KeepsWindow
<1>3. CASE act[c] \notin Tracked
  <2>1. UNCHANGED <<completed, completedOrder, pending, pendingOrder, ghost>>
    BY <1>3 DEF TurnReplies
  <2>2. Grows
    BY <2>1, <1>1, QueuesUnchanged DEF WindowInv, KeepsWindow
  <2>3. ASSUME NEW b \in Tracked PROVE Status(b)' = Status(b)
    <3>1. AtWork(b)' <=> AtWork(b)
      BY <1>1, <1>3, WorkUnchanged
    <3>2. QED
      BY <3>1, <2>1, <1>1, StatusUnchanged
  <2>4. QED
    BY <2>2, <2>3, <1>1, PromiseKept
<1>4. QED
  BY <1>2, <1>3

(* A kept reply that the channel accepts is answered, heard of or not; an  *)
(* answered one is accepted again only when the promise has lapsed.        *)
LEMMA PromiseAccepts ==
  ASSUME Inv, WindowInv, UnheardInv, ghost' \in [Tracked -> History], NEW c \in Calls,
         ChannelAccepts(c) \/ AcceptedUnheard(c)
  PROVE  Promise!Next
<1>1. /\ pc[c] \in Delivering /\ pc[c] # "running" /\ act' = act
      /\ \A d \in Calls \ {c} : pc'[d] = pc[d]
      /\ pc'[c] # "running"
      /\ ghost \in [Tracked -> History]
      /\ UNCHANGED <<completed, completedOrder, pending, pendingOrder>> /\ restarts' = restarts
  BY DEF ChannelAccepts, AcceptedUnheard, Goto, memory, Inv, TypeOK, Delivering
<1>2. \A b \in Tracked : AtWork(b)' <=> AtWork(b)
  BY <1>1, WorkUnchanged
<1>3. CASE NoteAccepted(act[c]) /\ unheard' = unheard
  <2>1. /\ Grows
        /\ \A b \in Tracked :
             /\ b # act[c] => ghost'[b].accepts = ghost[b].accepts
             /\ b = act[c] => ghost'[b].accepts = Saturate(ghost[b].accepts, 2)
    BY <1>1, <1>3, AcceptanceWindow DEF WindowInv
  <2>2. ASSUME NEW b \in Tracked, ~Passed(b)', Status(b)' # Status(b)
        PROVE  b = act[c] /\ <<Status(b), Status(b)'>> \in Promise!Moves
    <3>1. b = act[c]
      BY <2>1, <2>2, <1>1, <1>2, <1>3, StatusUnchanged
    <3>2. ~Gone(b) /\ ~Passed(b)
      BY <2>1, <2>2, <1>1, GrowsKeeps DEF Passed, Gone
    <3>3. ghost[b].accepts = 0 /\ b \in pending
      <4>1. ~(ghost[b].accepts > 0) /\ ghost[b].accepts \in 0..2
        BY <3>1, <3>2, <1>1, HistoryFields DEF WindowInv, HandlersInv, HandlerInv
      <4>2. ghost[b].accepts = 0
        BY <4>1
      <4>3. b \in pending \/ Passed(b)
        BY <3>1, <4>2, <1>1 DEF WindowInv, HandlersInv, HandlerInv
      <4>4. QED
        BY <3>2, <4>2, <4>3
    <3>4. ~AtWork(b)
      <4>1. SUFFICES ASSUME AtWork(b) PROVE FALSE
        OBVIOUS
      <4>2. ghost[b].replies = 0
        BY <3>2, <4>1, WithinStatus
      <4>3. QED
        BY <3>2, <3>3, <4>2, WithinStatus
    <3>5. Status(b) \in {"ready", "unheard"}
      BY <3>3, <3>4 DEF Status, AtWork
    <3>6. ghost'[b].accepts = 1
      BY <3>1, <3>3, <2>1 DEF Saturate
    <3>7. Status(b)' = "answered"
      BY <3>4, <3>6, <1>2 DEF Status, AtWork
    <3>8. QED
      BY <3>1, <3>5, <3>7 DEF Promise!Moves
  <2>3. QED
    BY <2>1, <2>2, <1>1, PromiseKept
<1>4. CASE act[c] \in Tracked /\ unheard' = unheard \union {act[c]} /\ ghost' = ghost
  <2>1. Grows
    BY <1>1, <1>4, QueuesUnchanged DEF WindowInv, KeepsWindow
  <2>2. ASSUME NEW b \in Tracked, ~Passed(b)', Status(b)' # Status(b)
        PROVE  b = act[c] /\ <<Status(b), Status(b)'>> \in Promise!Moves
    <3>1. b = act[c]
      BY <2>2, <1>1, <1>2, <1>4, StatusUnchanged
    <3>2. <<Status(b), Status(b)'>> = <<"ready", "unheard">>
      BY <3>1, <2>2, <1>1, <1>2, <1>4 DEF Status, AtWork
    <3>3. QED
      BY <3>1, <3>2 DEF Promise!Moves
  <2>3. QED
    BY <2>1, <2>2, <1>1, PromiseKept
<1>5. QED
  BY <1>3, <1>4 DEF ChannelAccepts, AcceptedUnheard

(* Completing an answered activity is not seen by its sender.              *)
LEMMA PromiseReturns ==
  ASSUME Inv, WindowInv, ghost' \in [Tracked -> History], NEW c \in Calls, ReturnDelivered(c)
  PROVE  Promise!Next
<1>1. /\ pc[c] = "accepted" /\ act' = act /\ unheard' = unheard
      /\ \A d \in Calls \ {c} : pc'[d] = pc[d]
      /\ pc'[c] = "idle"
      /\ ghost \in [Tracked -> History]
      /\ CompleteSuccess(act[c]) /\ restarts' = restarts
  BY DEF ReturnDelivered, Goto, Inv, TypeOK
<1>2. ASSUME NEW b \in Tracked PROVE AtWork(b)' <=> AtWork(b)
  BY <1>1, WorkUnchanged
<1>3. CASE act[c] \in Tracked
  <2>1. PICK a \in Tracked : a = act[c]
    BY <1>3
  <2>2. ghost[a].replies > 0 /\ ghost[a].accepts > 0
    BY <2>1, <1>1 DEF WindowInv, HandlersInv, HandlerInv
  <2>3. KeepsWindow /\ pending' = pending \ {a}
    BY <2>1, <2>2, <1>1, MemoryParts, CompleteSuccessWindow DEF Inv, WindowInv
  <2>4. ASSUME NEW b \in Tracked PROVE Status(b)' = Status(b)
    <3>1. ghost'[b].accepts = ghost[b].accepts
      BY <2>3 DEF KeepsWindow
    <3>2. b # a => (b \in pending' <=> b \in pending)
      BY <2>3
    <3>3. QED
      BY <3>1, <3>2, <2>1, <2>2, <1>1, <1>2, StatusUnchanged
  <2>5. QED
    BY <2>3, <2>4, <1>1, PromiseKept DEF KeepsWindow
<1>4. CASE act[c] \notin Tracked
  <2>1. UNCHANGED <<completed, completedOrder, pending, pendingOrder, ghost>>
    BY <1>1, <1>4 DEF CompleteSuccess, memory
  <2>2. Grows
    BY <2>1, <1>1, QueuesUnchanged DEF WindowInv, KeepsWindow
  <2>3. ASSUME NEW b \in Tracked PROVE Status(b)' = Status(b)
    BY <2>1, <1>1, <1>2, StatusUnchanged
  <2>4. QED
    BY <2>2, <2>3, <1>1, PromiseKept
<1>5. QED
  BY <1>3, <1>4

(* Nor is a call of a handler.                                             *)
LEMMA PromisePost ==
  ASSUME Inv, WindowInv, ghost' \in [Tracked -> History],
         NEW c \in Calls, NEW a \in Activities, Post(c, a)
  PROVE  Promise!Next
<1>1. /\ UNCHANGED <<completed, completedOrder, pending, pendingOrder, ghost, unheard>>
      /\ \A d \in Calls \ {c} : pc'[d] = pc[d] /\ act'[d] = act[d]
      /\ pc[c] = "idle" /\ pc'[c] = "arrived"
      /\ ghost \in [Tracked -> History] /\ restarts' = restarts
  BY DEF Post, Goto, memory, Inv, TypeOK
<1>2. Grows
  BY <1>1, QueuesUnchanged DEF WindowInv, KeepsWindow
<1>3. ASSUME NEW b \in Tracked PROVE Status(b)' = Status(b)
  <2>1. AtWork(b)' <=> AtWork(b)
    BY <1>1, WorkUnchanged
  <2>2. QED
    BY <2>1, <1>1, StatusUnchanged
<1>4. QED
  BY <1>1, <1>2, <1>3, PromiseKept

(* A restart begins a new life with the promise as at the start.           *)
LEMMA PromiseRestart ==
  ASSUME Restart
  PROVE  Promise!Next
<1>1. \A a \in Tracked : /\ ghost'[a].accepts = 0
                         /\ ghost'[a].completedAfter = 0 /\ ghost'[a].cachedAfter = 0
  BY DEF Restart, NoHistory
<1>2. \A a \in Tracked : Status(a)' = "waiting" /\ ~Passed(a)'
  BY <1>1, ActivityAssumption DEF Restart, Status, Passed
<1>3. restarts' = restarts + 1
  BY DEF Restart
<1>4. Promise!Restart
  BY <1>2, <1>3 DEF Promise!Restart
<1>5. QED
  BY <1>4 DEF Promise!Next

(* The status, the lapsed activities and the life of a stuttering step.    *)
LEMMA PromiseStutters ==
  ASSUME UNCHANGED vars
  PROVE  UNCHANGED <<[a \in Tracked |-> Status(a)], {a \in Tracked : Passed(a)}, restarts>>
<1>1. \A a \in Tracked : Status(a)' = Status(a) /\ (Passed(a)' <=> Passed(a))
  BY DEF vars, memory, Status, Passed
<1>2. QED
  BY <1>1 DEF vars

(* Every step is one of the promise's, or is not seen by the sender.       *)
LEMMA PromiseStep ==
  Inv /\ WindowInv /\ UnheardInv /\ [Next]_vars =>
    [Promise!Next]_<<[a \in Tracked |-> Status(a)], {a \in Tracked : Passed(a)}, restarts>>
<1> SUFFICES ASSUME Inv, WindowInv, UnheardInv, [Next]_vars
             PROVE  \/ Promise!Next
                    \/ UNCHANGED <<[a \in Tracked |-> Status(a)],
                                   {a \in Tracked : Passed(a)}, restarts>>
  OBVIOUS
<1>1. ghost' \in [Tracked -> History]
  BY HistoryStep DEF Inv
<1>2. ASSUME NEW c \in Calls, Handler(c) PROVE Promise!Next
  <2>1. \/ Quiet(c) \/ ChannelAccepts(c) \/ AcceptedUnheard(c) \/ ReturnDelivered(c)
        \/ \E streams \in BOOLEAN : Claim(c, streams) \/ TurnReplies(c, streams)
    BY <1>2 DEF Handler, Quiet
  <2>2. QED
    BY <2>1, <1>1, PromiseQuiet, PromiseAccepts, PromiseReturns, PromiseClaim, PromiseReplies
<1>3. CASE UNCHANGED vars
  BY <1>3, PromiseStutters
<1>4. QED
  BY <1>1, <1>2, <1>3, PromisePost, PromiseRestart DEF Next


-----------------------------------------------------------------------------
(* The results                                                             *)

(* However many activities arrive, deliveries fail and retries race, the   *)
(* queues of the dedup memory stay within _ACTIVITY_DEDUP_LIMIT, the       *)
(* completed set agrees with its queue, and no kept reply escapes eviction.*)
THEOREM MemoryStaysSound == Spec => []MemoryIsSound
<1>1. Inv => MemoryIsSound
  BY DEF Inv, MemoryIsSound
<1>2. QED
  BY <1>1, InvHolds, PTL

(* At most one handler works on an identified activity, and every claim is *)
(* released exactly when its handler leaves.                               *)
THEOREM ExclusiveHandling == Spec => []OneHandlerPerActivity
BY InvHolds, PTL DEF Inv

(* _cache_activity_reply and _complete_activity: whatever the order of     *)
(* evictions, retries, failures, lost acknowledgements and restarts, an    *)
(* activity is worked on again, answered again after an acceptance its     *)
(* handler learnt of, or given up only once the window has passed over it. *)
THEOREM WithinWindowHolds == Spec => []WithinWindow
BY WindowHolds, WindowKept, PTL

(* Delivery implements the promise: as long as the memory has not moved    *)
(* past an activity and the process lives, a turn that replied is not      *)
(* repeated, its reply stays available until an acceptance is heard of,    *)
(* and it is not accepted again after that.                                *)
THEOREM DeliveryKeepsPromise == Spec => ImplementsPromise
<1>1. Init => Promise!Init
  BY PromiseInit
<1>2. QED
  BY <1>1, WindowHolds, PromiseStep, PTL DEF Spec, ImplementsPromise, Promise!Spec
=============================================================================
