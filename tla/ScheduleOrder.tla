--------------------------- MODULE ScheduleOrder ---------------------------
(***************************************************************************)
(* Schedule with three auxiliary variables that no action depends on:      *)
(*   order      the node indices in the order their activities are to be   *)
(*              released, as the completed calls determine it;             *)
(*   torn       a call was interrupted between two writes that had to go   *)
(*              together, and the file has not been reset since;           *)
(*   disturbed  how many calls were interrupted, anywhere, since the file  *)
(*              was last reset; InterruptionLimit bounds it.               *)
(* With them the file can be compared with the queue it represents.        *)
(***************************************************************************)
EXTENDS Schedule, Sequences, SequencesExt

CONSTANT InterruptionLimit

ASSUME InterruptionAssumption == InterruptionLimit \in Nat

VARIABLES order, torn, disturbed

orderVars == <<scheduleVars, order, torn, disturbed>>

(* The new node comes right after its previous node, or first. *)
Insertion ==
    IF previous_node_index = UNEXISTING_NODE_INDEX THEN 1
    ELSE 1 + CHOOSE k \in 1 .. Len(order) : order[k] = previous_node_index

(* Points of a call at which the nodes in the file disagree with each      *)
(* other or with the header.                                               *)
Exposed ==
    \/ pc = "linkPrevious" /\ next_node_index # UNEXISTING_NODE_INDEX
    \/ pc = "count" /\ \/ next_node_index # UNEXISTING_NODE_INDEX
                       \/ previous_node_index # UNEXISTING_NODE_INDEX
    \/ pc \in {"unlink", "uncount"}

OrderInit == Init /\ order = <<>> /\ torn = FALSE /\ disturbed = 0

Quiet(A) == A /\ UNCHANGED <<order, torn, disturbed>>

OrderedCount ==
    /\ CountActivity
    /\ order' = IF torn THEN <<>> ELSE InsertAt(order, Insertion, new_node_index)
    /\ UNCHANGED <<torn, disturbed>>

OrderedFree(t) ==
    /\ FreeOldestNode(t)
    /\ order' = IF torn THEN <<>> ELSE Tail(order)
    /\ UNCHANGED <<torn, disturbed>>

OrderedReset ==
    Reset /\ order' = <<>> /\ torn' = FALSE /\ disturbed' = 0

OrderedInterrupt ==
    /\ Interrupt
    /\ torn' = (torn \/ Exposed)
    /\ order' = IF torn' THEN <<>> ELSE order
    /\ disturbed < InterruptionLimit
    /\ disturbed' = disturbed + 1

OrderedPushStart(a) == Quiet(PushStart(a))

OrderedPopStart(t) ==
    \/ Quiet(PopNothing \/ PopReadFails \/ PopTooEarly(t))
    \/ OrderedFree(t)

OrderedContinue ==
    \/ Quiet(\/ InsertInEmptySchedule \/ StartWalk \/ WalkReadFails
             \/ Walk \/ WalkFullLap \/ WriteNewNode
             \/ LinkNext \/ LinkPrevious
             \/ PopContinue)
    \/ OrderedCount

OrderedNext ==
    \/ \E a \in Activity : OrderedPushStart(a)
    \/ \E t \in Time : OrderedPopStart(t)
    \/ OrderedContinue
    \/ OrderedReset

OrderedFaultySpec ==
    /\ OrderInit
    /\ [][OrderedNext \/ OrderedInterrupt]_orderVars
    /\ WF_orderVars(OrderedContinue)

-----------------------------------------------------------------------------
L == Len(order)

Neighbour(k) == IF k \in 1 .. L THEN order[k] ELSE UNEXISTING_NODE_INDEX

(* The links a node of the list has, at each point of the calls. *)
ExpectedNext(k) ==
    IF pc = "count" /\ previous_node_index = order[k]
      THEN new_node_index ELSE Neighbour(k + 1)

ExpectedPrevious(k) ==
    IF pc \in {"linkPrevious", "count"} /\ next_node_index = order[k]
      THEN new_node_index
    ELSE IF pc = "unlink" /\ k = 1 THEN info.oldest
    ELSE Neighbour(k - 1)

NoRepetition == \A j, k \in 1 .. L : order[j] = order[k] => j = k

Linked ==
    \A k \in 1 .. L :
       /\ Occupied(order[k])
       /\ node[order[k]].next = ExpectedNext(k)
       /\ node[order[k]].previous = ExpectedPrevious(k)

(* The nodes of the list come by increasing timestamp. *)
Sorted ==
    \A j, k \in 1 .. L : j < k =>
       node[order[j]].activity.timestamp <= node[order[k]].activity.timestamp

HeaderAgrees ==
    IF pc \in {"unlink", "uncount"}
      THEN /\ info.nb_activities = L + 1
           /\ next_node_index = Neighbour(1)
           /\ info.oldest \in NodeIndex
           /\ \A k \in 1 .. L : order[k] # info.oldest
      ELSE /\ info.nb_activities = L
           /\ L > 0 => info.oldest = order[1]
           /\ pc = "report" => next_node_index = Neighbour(1)

(* What a push in progress knows of the list. *)
NewNodeAside ==
    pc \in PushSteps =>
       /\ new_node_index \in NodeIndex
       /\ \A k \in 1 .. L : order[k] # new_node_index
       /\ L < MAXIMUM_ACTIVITIES_PER_SCHEDULE

WalkPosition ==
    pc = "walk" =>
       /\ nodes_visited < L
       /\ next_node_index = order[nodes_visited + 1]
       /\ \A k \in 1 .. nodes_visited :
             node[order[k]].activity.timestamp <= activity.timestamp

(* The gap the new node goes into, after the p-th node of the list. *)
Gap(p) ==
    /\ previous_node_index = Neighbour(p)
    /\ next_node_index = Neighbour(p + 1)
    /\ \A k \in 1 .. p : node[order[k]].activity.timestamp <= activity.timestamp
    /\ \A k \in p + 1 .. L : node[order[k]].activity.timestamp > activity.timestamp

InsertionPoint ==
    pc \in {"linkNext", "linkPrevious", "count"} =>
       /\ node[new_node_index] = NewNode(previous_node_index, next_node_index)
       /\ \E p \in 0 .. L : Gap(p)

(* Unless torn, the file holds exactly the list of the activities whose    *)
(* push succeeded and that were not popped yet, doubly linked, counted and *)
(* sorted, at every point of every call up to the writes in progress.      *)
ListIntact ==
    ~torn => /\ order \in Seq(NodeIndex)
             /\ NoRepetition
             /\ Linked
             /\ Sorted
             /\ HeaderAgrees
             /\ NewNodeAside
             /\ WalkPosition
             /\ InsertionPoint

(* Unless a call was interrupted since the last reset, every occupied node *)
(* is in the list or about to be: no node leaks, so a schedule that is not *)
(* full always has a node to give (GetAvailableNode never goes full        *)
(* circle), and a reset takes back the ones an interruption lost.          *)
NoNodeLeaks ==
    disturbed = 0 =>
       \A i \in NodeIndex :
          Occupied(i) =>
             \/ \E k \in 1 .. L : order[k] = i
             \/ /\ pc \in {"linkNext", "linkPrevious", "count"}
                /\ i = new_node_index

(* Unless a call was interrupted since the last reset, no call ends in     *)
(* error: the RET_ERROR outcomes of the code are all unreachable.          *)
NoErrorWithoutFault == disturbed = 0 => return_value # "RET_ERROR"

Contents == [k \in 1 .. L |-> node[order[k]].activity]

(* The file implements the queue its header promises: an interruption      *)
(* changes nothing of the queue, or tears it until the next reset.         *)
Abstract == INSTANCE AbstractSchedule WITH
    Capacity <- MAXIMUM_ACTIVITIES_PER_SCHEDULE,
    queue <- Contents,
    delivered <- IF torn THEN ZeroActivity ELSE released,
    broken <- torn

ImplementsQueue == Abstract!Spec
=============================================================================
