--------------------------- MODULE ActivityAnswer ---------------------------
(***************************************************************************)
(* What the delivery of Teams activities promises: an activity's turn is   *)
(* repeated only as long as no attempt produced a reply; the reply then    *)
(* stays available until an acceptance by the channel is heard of, and is  *)
(* sent again only before that, when the acknowledgement of an earlier     *)
(* acceptance was lost; after that nothing more happens.  The promise      *)
(* lapses for an activity when the bounded memory has moved past it, and   *)
(* for all of them when the process restarts.                              *)
(***************************************************************************)
EXTENDS Naturals

CONSTANT Activities

VARIABLES
  status,   (* of each activity, as its sender sees it                     *)
  lapsed,   (* activities the memory has moved past                        *)
  life      (* lives of the process so far                                 *)

(* "unheard": accepted, and only the channel knows.  Nothing moves to      *)
(* "repeated", accepted again after an acceptance that was heard of.       *)
Statuses == {"waiting", "working", "ready", "unheard", "answered", "repeated"}

(* A turn starts, fails or replies, or the reply is accepted.              *)
Moves == {<<"waiting", "working">>, <<"working", "waiting">>,
          <<"working", "ready">>, <<"ready", "answered">>,
          <<"ready", "unheard">>, <<"unheard", "answered">>}

Init ==
  /\ status = [a \in Activities |-> "waiting"]
  /\ lapsed = {}
  /\ life = 0

(* At most one activity that has not lapsed moves, others may lapse.       *)
Step ==
  /\ lapsed \subseteq lapsed'
  /\ status' \in [Activities -> Statuses]
  /\ \A a, b \in Activities \ lapsed' :
       /\ status'[a] # status[a] => <<status[a], status'[a]>> \in Moves
       /\ status'[a] # status[a] /\ status'[b] # status[b] => a = b
  /\ UNCHANGED life

Restart ==
  /\ life' = life + 1
  /\ status' = [a \in Activities |-> "waiting"]
  /\ lapsed' = {}

Next == Step \/ Restart

Spec == Init /\ [][Next]_<<status, lapsed, life>>

=============================================================================
