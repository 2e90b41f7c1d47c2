-------------------------- MODULE AbstractSchedule --------------------------
(***************************************************************************)
(* What PushActivityInSchedule and PopActivityInSchedule promise to their  *)
(* caller (components/utils/schedule_management.h): a queue of activities  *)
(* released by increasing timestamp and, among equal timestamps, in the    *)
(* order they were pushed.  Nothing is said here of nodes, links or files. *)
(***************************************************************************)
EXTENDS Naturals, Sequences, FiniteSets

CONSTANTS Capacity, Time, Data

VARIABLES
    queue,      \* the activities scheduled, next one first
    delivered,  \* what the last pop handed out
    broken      \* a fault tore the schedule: nothing is promised till Clear

vars == <<queue, delivered, broken>>

Activity == [timestamp : Time, data : Data]
Nothing  == [timestamp |-> 0, data |-> 0]

Init == queue = <<>> /\ delivered = Nothing /\ broken = FALSE

(* a goes in after p activities, none of them later than a, and before     *)
(* activities that are all later than a.                                   *)
Push(a) ==
    /\ ~broken
    /\ Len(queue) < Capacity
    /\ \E p \in 0 .. Len(queue) :
          /\ \A k \in 1 .. p : queue[k].timestamp <= a.timestamp
          /\ \A k \in p + 1 .. Len(queue) : queue[k].timestamp > a.timestamp
          /\ queue' = [k \in 1 .. Len(queue) + 1 |->
                          IF k <= p THEN queue[k]
                          ELSE IF k = p + 1 THEN a
                          ELSE queue[k - 1]]
    /\ UNCHANGED <<delivered, broken>>

(* At time t the first activity is due: it leaves the queue. *)
Pop(t) ==
    /\ ~broken
    /\ queue # <<>>
    /\ queue[1].timestamp <= t
    /\ queue' = Tail(queue)
    /\ delivered' = queue[1]
    /\ UNCHANGED broken

PopNothing(t) ==
    /\ ~broken
    /\ queue = <<>> \/ queue[1].timestamp > t
    /\ delivered' = Nothing
    /\ UNCHANGED <<queue, broken>>

(* The queue is emptied, and is whole again. *)
Clear ==
    /\ queue' = <<>>
    /\ broken' = FALSE
    /\ IF broken THEN delivered' \in Activity ELSE UNCHANGED delivered

(* A fault at the wrong point of a push or a pop. *)
Break == queue' = <<>> /\ delivered' = Nothing /\ broken' = TRUE

Next ==
    \/ \E a \in Activity : Push(a)
    \/ \E t \in Time : Pop(t) \/ PopNothing(t)
    \/ Clear
    \/ Break

Spec == Init /\ [][Next]_vars
=============================================================================
