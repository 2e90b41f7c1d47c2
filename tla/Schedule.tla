------------------------------ MODULE Schedule ------------------------------
(***************************************************************************)
(* The activity schedule of components/utils/src/schedule_management.c: a  *)
(* doubly linked list of activities, ordered by timestamp, kept in a file  *)
(* (one info header and a fixed number of nodes) that survives a restart.  *)
(*                                                                         *)
(* Every action is one write to the file together with the reads that      *)
(* precede it, or one step of the walk that looks for the insertion point. *)
(* Between two actions a device access may fail or the power may go        *)
(* (Interrupt): the file then keeps what was written so far.               *)
(*                                                                         *)
(* The calls are serialised, as in a system where one task owns the        *)
(* schedule.  A write of the header or of a node is taken as atomic.       *)
(***************************************************************************)
EXTENDS Naturals

CONSTANTS
    MAXIMUM_ACTIVITIES_PER_SCHEDULE,  \* number of nodes in the file
    UNEXISTING_NODE_INDEX,            \* 0xffffffff: no node
    INVALID_TIME,                     \* date returned when nothing is left
    Time,                             \* the timestamps considered
    Data                              \* the payloads considered

NodeIndex == 0 .. (MAXIMUM_ACTIVITIES_PER_SCHEDULE - 1)

ASSUME ScheduleAssumption ==
    /\ MAXIMUM_ACTIVITIES_PER_SCHEDULE \in Nat \ {0}
    /\ UNEXISTING_NODE_INDEX \in Nat \ NodeIndex
    /\ Time \subseteq Nat /\ 0 \in Time
    /\ Data \subseteq Nat /\ 0 \in Data

VARIABLES
    info,                   \* the header, in the file
    node,                   \* the nodes, in the file
    pc,                     \* where the call in progress is
    activity,               \* the activity to push
    new_node_index,         \* locals of the insertion ...
    previous_node_index,
    next_node_index,        \* ... also the node the walk looks at
    nodes_visited,
    released,               \* output of the pop: the activity
    next_activity_date,     \* output of the pop: date of the next one
    return_value            \* what the last call returned

file   == <<info, node>>
locals == <<pc, activity, new_node_index, previous_node_index,
            next_node_index, nodes_visited>>
output == <<released, next_activity_date, return_value>>
scheduleVars == <<file, locals, output>>

Activity == [timestamp : Time, data : Data]
Link     == NodeIndex \union {UNEXISTING_NODE_INDEX}
Node     == [status : {"AVAILABLE", "OCCUPIED"}, activity : Activity,
             next : Link, previous : Link]
Info     == [nb_activities : 0 .. MAXIMUM_ACTIVITIES_PER_SCHEDULE,
             write_index : NodeIndex, oldest : Link]

ZeroActivity == [timestamp |-> 0, data |-> 0]
ZeroNode     == [status |-> "AVAILABLE", activity |-> ZeroActivity,
                 next |-> 0, previous |-> 0]
ZeroInfo     == [nb_activities |-> 0, write_index |-> 0, oldest |-> 0]

PushSteps == {"insert", "walk", "linkNext", "linkPrevious", "count"}
PopSteps  == {"unlink", "uncount", "report"}

Init ==
    /\ info = ZeroInfo
    /\ node = [i \in NodeIndex |-> ZeroNode]
    /\ pc = "idle"
    /\ activity = ZeroActivity
    /\ new_node_index = UNEXISTING_NODE_INDEX
    /\ previous_node_index = UNEXISTING_NODE_INDEX
    /\ next_node_index = UNEXISTING_NODE_INDEX
    /\ nodes_visited = 0
    /\ released = ZeroActivity
    /\ next_activity_date = INVALID_TIME
    /\ return_value = "RET_SUCCESSFUL"

(* The call is over: its locals are gone and its result is known. *)
Return(value) ==
    /\ pc' = "idle"
    /\ activity' = ZeroActivity
    /\ new_node_index' = UNEXISTING_NODE_INDEX
    /\ previous_node_index' = UNEXISTING_NODE_INDEX
    /\ next_node_index' = UNEXISTING_NODE_INDEX
    /\ nodes_visited' = 0
    /\ return_value' = value

Occupied(i) == node[i].status = "OCCUPIED"

-----------------------------------------------------------------------------
(* PushActivityInSchedule *)

(* i is the first node that is not occupied, searching from the write      *)
(* index and wrapping at the end of the buffer.                            *)
ClosestFree(i) ==
    /\ ~Occupied(i)
    /\ \A j \in NodeIndex :
          (IF info.write_index <= i
             THEN info.write_index <= j /\ j < i
             ELSE info.write_index <= j \/ j < i) => Occupied(j)

(* Mutant: the write index does not wrap. *)
AfterWithoutWrap(i) == i + 1

After(i) == IF i >= MAXIMUM_ACTIVITIES_PER_SCHEDULE - 1 THEN 0 ELSE i + 1

PushRefused ==
    /\ pc = "idle"
    /\ info.nb_activities >= MAXIMUM_ACTIVITIES_PER_SCHEDULE
    /\ Return("RET_NOT_AVAILABLE")
    /\ UNCHANGED <<file, released, next_activity_date>>

(* Mutant: the search gives up at the first occupied node. *)
PushGivesUpAtOnce ==
    /\ pc = "idle"
    /\ info.nb_activities < MAXIMUM_ACTIVITIES_PER_SCHEDULE
    /\ Occupied(info.write_index)
    /\ Return("RET_ERROR")
    /\ UNCHANGED <<file, released, next_activity_date>>

(* GetAvailableNode went full circle. *)
PushFindsNoNode ==
    /\ pc = "idle"
    /\ info.nb_activities < MAXIMUM_ACTIVITIES_PER_SCHEDULE
    /\ \A i \in NodeIndex : Occupied(i)
    /\ Return("RET_ERROR")
    /\ UNCHANGED <<file, released, next_activity_date>>

GetAvailableNode(a) ==
    /\ pc = "idle"
    /\ info.nb_activities < MAXIMUM_ACTIVITIES_PER_SCHEDULE
    /\ \E i \in NodeIndex :
          /\ ClosestFree(i)
          /\ new_node_index' = i
          /\ info' = [info EXCEPT !.write_index = After(i)]
    /\ activity' = a
    /\ pc' = "insert"
    /\ UNCHANGED <<node, previous_node_index, next_node_index, nodes_visited,
                   output>>

(* BuildAndWriteNewNode: what is written at new_node_index. *)
NewNode(previous, next) ==
    [status |-> "OCCUPIED", activity |-> activity,
     next |-> next, previous |-> previous]

(* InsertNodeInSchedule, empty schedule. *)
InsertInEmptySchedule ==
    /\ pc = "insert"
    /\ info.nb_activities = 0
    /\ node' = [node EXCEPT ![new_node_index] =
                   NewNode(UNEXISTING_NODE_INDEX, UNEXISTING_NODE_INDEX)]
    /\ pc' = "count"
    /\ UNCHANGED <<info, activity, new_node_index, previous_node_index,
                   next_node_index, nodes_visited, output>>

StartWalk ==
    /\ pc = "insert"
    /\ info.nb_activities # 0
    /\ info.oldest # UNEXISTING_NODE_INDEX
    /\ next_node_index' = info.oldest
    /\ nodes_visited' = 0
    /\ pc' = "walk"
    /\ UNCHANGED <<file, activity, new_node_index, previous_node_index, output>>

(* Reading the node of index UNEXISTING_NODE_INDEX is past the end of the  *)
(* file: the read fails.                                                   *)
WalkReadFails ==
    /\ pc = "insert"
    /\ info.nb_activities # 0
    /\ info.oldest = UNEXISTING_NODE_INDEX
    /\ Return("RET_ERROR")
    /\ UNCHANGED <<file, released, next_activity_date>>

Here == node[next_node_index]

(* Mutant: an activity goes before those of the same date. *)
StrictlyEarlier == Here.activity.timestamp < activity.timestamp

NotLater == Here.activity.timestamp <= activity.timestamp

KeepWalking ==
    /\ NotLater
    /\ Here.next # UNEXISTING_NODE_INDEX
    /\ nodes_visited < MAXIMUM_ACTIVITIES_PER_SCHEDULE

(* Mutant: the walk does not count the nodes it visits. *)
WalkUncounted ==
    /\ pc = "walk"
    /\ KeepWalking
    /\ next_node_index' = Here.next
    /\ UNCHANGED <<file, pc, activity, new_node_index, previous_node_index,
                   nodes_visited, output>>

Walk ==
    /\ pc = "walk"
    /\ KeepWalking
    /\ next_node_index' = Here.next
    /\ nodes_visited' = nodes_visited + 1
    /\ UNCHANGED <<file, pc, activity, new_node_index, previous_node_index,
                   output>>

WalkFullLap ==
    /\ pc = "walk"
    /\ nodes_visited >= MAXIMUM_ACTIVITIES_PER_SCHEDULE
    /\ Return("RET_ERROR")
    /\ UNCHANGED <<file, released, next_activity_date>>

(* The walk is over: the new node is written with its two neighbours, at   *)
(* the tail or just before the node the walk stopped at.                   *)
WriteNewNode ==
    /\ pc = "walk"
    /\ ~KeepWalking
    /\ nodes_visited < MAXIMUM_ACTIVITIES_PER_SCHEDULE
    /\ IF Here.next = UNEXISTING_NODE_INDEX /\ NotLater
         THEN /\ previous_node_index' = next_node_index
              /\ next_node_index' = UNEXISTING_NODE_INDEX
         ELSE /\ previous_node_index' = Here.previous
              /\ UNCHANGED next_node_index
    /\ node' = [node EXCEPT ![new_node_index] =
                   NewNode(previous_node_index', next_node_index')]
    /\ pc' = "linkNext"
    /\ UNCHANGED <<info, activity, new_node_index, nodes_visited, output>>

(* Mutant: the next node keeps its old previous link. *)
LinkNextForgotten ==
    /\ pc = "linkNext"
    /\ pc' = "linkPrevious"
    /\ UNCHANGED <<file, activity, new_node_index, previous_node_index,
                   next_node_index, nodes_visited, output>>

(* InsertNodeInBetween, its three last writes. *)
LinkNext ==
    /\ pc = "linkNext"
    /\ node' = IF next_node_index = UNEXISTING_NODE_INDEX THEN node
               ELSE [node EXCEPT ![next_node_index].previous = new_node_index]
    /\ pc' = "linkPrevious"
    /\ UNCHANGED <<info, activity, new_node_index, previous_node_index,
                   next_node_index, nodes_visited, output>>

LinkPrevious ==
    /\ pc = "linkPrevious"
    /\ node' = IF previous_node_index = UNEXISTING_NODE_INDEX THEN node
               ELSE [node EXCEPT ![previous_node_index].next = new_node_index]
    /\ pc' = "count"
    /\ UNCHANGED <<info, activity, new_node_index, previous_node_index,
                   next_node_index, nodes_visited, output>>

CountActivity ==
    /\ pc = "count"
    /\ info' = [nb_activities |-> info.nb_activities + 1,
                write_index   |-> info.write_index,
                oldest |-> IF previous_node_index = UNEXISTING_NODE_INDEX
                             THEN new_node_index ELSE info.oldest]
    /\ Return("RET_SUCCESSFUL")
    /\ UNCHANGED <<node, released, next_activity_date>>

PushStart(a)  == PushRefused \/ PushFindsNoNode \/ GetAvailableNode(a)
PushContinue == \/ InsertInEmptySchedule \/ StartWalk \/ WalkReadFails
                \/ Walk \/ WalkFullLap \/ WriteNewNode
                \/ LinkNext \/ LinkPrevious \/ CountActivity

-----------------------------------------------------------------------------
(* PopActivityInSchedule; t is what GetTime answers. *)

PopNothing ==
    /\ pc = "idle"
    /\ info.nb_activities = 0
    /\ released' = ZeroActivity
    /\ next_activity_date' = INVALID_TIME
    /\ Return("RET_NOT_AVAILABLE")
    /\ UNCHANGED file

PopReadFails ==
    /\ pc = "idle"
    /\ info.nb_activities # 0
    /\ info.oldest = UNEXISTING_NODE_INDEX
    /\ released' = ZeroActivity
    /\ Return("RET_ERROR")
    /\ UNCHANGED <<file, next_activity_date>>

PopTooEarly(t) ==
    /\ pc = "idle"
    /\ info.nb_activities # 0
    /\ info.oldest # UNEXISTING_NODE_INDEX
    /\ node[info.oldest].activity.timestamp > t
    /\ released' = ZeroActivity
    /\ next_activity_date' = node[info.oldest].activity.timestamp
    /\ Return("RET_NOT_AVAILABLE")
    /\ UNCHANGED file

(* ReleaseNextActivity: copy the activity out and zero its node. *)
FreeOldestNode(t) ==
    /\ pc = "idle"
    /\ info.nb_activities # 0
    /\ info.oldest # UNEXISTING_NODE_INDEX
    /\ node[info.oldest].activity.timestamp <= t
    /\ released' = node[info.oldest].activity
    /\ next_node_index' = node[info.oldest].next
    /\ node' = [node EXCEPT ![info.oldest] = ZeroNode]
    /\ pc' = "unlink"
    /\ UNCHANGED <<info, activity, new_node_index, previous_node_index,
                   nodes_visited, next_activity_date, return_value>>

UnlinkNewOldest ==
    /\ pc = "unlink"
    /\ node' = IF next_node_index = UNEXISTING_NODE_INDEX THEN node
               ELSE [node EXCEPT
                       ![next_node_index].previous = UNEXISTING_NODE_INDEX]
    /\ pc' = "uncount"
    /\ UNCHANGED <<info, activity, new_node_index, previous_node_index,
                   next_node_index, nodes_visited, output>>

UncountActivity ==
    /\ pc = "uncount"
    /\ info' = [nb_activities |-> info.nb_activities - 1,
                write_index   |-> info.write_index,
                oldest        |-> next_node_index]
    /\ pc' = "report"
    /\ UNCHANGED <<node, activity, new_node_index, previous_node_index,
                   next_node_index, nodes_visited, output>>

(* Back in PopActivityInSchedule: the date of the new oldest activity. *)
ReportNextDate ==
    /\ pc = "report"
    /\ info.nb_activities > 0 => next_node_index # UNEXISTING_NODE_INDEX
    /\ next_activity_date' = IF info.nb_activities > 0
                               THEN node[next_node_index].activity.timestamp
                               ELSE INVALID_TIME
    /\ Return("RET_SUCCESSFUL")
    /\ UNCHANGED <<file, released>>

ReportReadFails ==
    /\ pc = "report"
    /\ info.nb_activities > 0
    /\ next_node_index = UNEXISTING_NODE_INDEX
    /\ Return("RET_ERROR")
    /\ UNCHANGED <<file, released, next_activity_date>>

PopStart(t)  == \/ PopNothing \/ PopReadFails
                \/ PopTooEarly(t) \/ FreeOldestNode(t)
PopContinue == \/ UnlinkNewOldest \/ UncountActivity
               \/ ReportNextDate \/ ReportReadFails

-----------------------------------------------------------------------------

(* Mutant: only the header is cleared. *)
ResetHeaderOnly ==
    /\ pc = "idle"
    /\ info' = ZeroInfo
    /\ Return("RET_SUCCESSFUL")
    /\ UNCHANGED <<node, released, next_activity_date>>

(* ResetScheduleAndData of pus11.c zero-fills the file in one write (its   *)
(* size is below the 512 bytes written at a time).                         *)
Reset ==
    /\ pc = "idle"
    /\ info' = ZeroInfo
    /\ node' = [i \in NodeIndex |-> ZeroNode]
    /\ Return("RET_SUCCESSFUL")
    /\ UNCHANGED <<released, next_activity_date>>

(* The next device access of the call fails, or the power goes before it.  *)
Interrupt ==
    /\ Return("RET_ERROR")
    /\ UNCHANGED <<file, released, next_activity_date>>

Continue == PushContinue \/ PopContinue

Next ==
    \/ \E a \in Activity : PushStart(a)
    \/ \E t \in Time : PopStart(t)
    \/ Continue
    \/ Reset

(* No fault, and a call once started is carried on by its task. *)
Spec == Init /\ [][Next]_scheduleVars /\ WF_scheduleVars(Continue)

(* Device errors and power losses at any point. *)
FaultySpec ==
    Init /\ [][Next \/ Interrupt]_scheduleVars /\ WF_scheduleVars(Continue)

-----------------------------------------------------------------------------
(* Every index the code keeps names a node of the file or none, the count  *)
(* and the write index stay in range: no access is ever computed outside   *)
(* the file, whatever was interrupted before.                              *)
ScheduleTypeOK ==
    /\ info \in Info
    /\ node \in [NodeIndex -> Node]
    /\ pc \in {"idle"} \union PushSteps \union PopSteps
    /\ activity \in Activity
    /\ new_node_index \in Link
    /\ previous_node_index \in Link
    /\ next_node_index \in Link
    /\ nodes_visited \in 0 .. MAXIMUM_ACTIVITIES_PER_SCHEDULE
    /\ released \in Activity
    /\ next_activity_date \in Time \union {INVALID_TIME}
    /\ return_value \in {"RET_SUCCESSFUL", "RET_NOT_AVAILABLE", "RET_ERROR"}

(* Every call returns: the walk leaves a list that an interruption made    *)
(* circular (zeroed nodes point at node 0) after a bounded number of nodes.*)
CallReturns == pc # "idle" ~> pc = "idle"
=============================================================================
