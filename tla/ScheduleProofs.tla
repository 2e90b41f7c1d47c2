--------------------------- MODULE ScheduleProofs ---------------------------
(***************************************************************************)
(* Proofs about the schedule, for every capacity, every set of timestamps  *)
(* and payloads, and any number of interrupted calls.                      *)
(***************************************************************************)
EXTENDS ScheduleOrder, SequenceTheorems, FiniteSetTheorems, TLAPS

(* ScheduleTypeOK is not inductive: that a count is not incremented past   *)
(* the capacity nor decremented below zero comes from the guard of the     *)
(* call, several writes earlier.                                           *)
CallFacts ==
    /\ pc \in PushSteps =>
          /\ info.nb_activities < MAXIMUM_ACTIVITIES_PER_SCHEDULE
          /\ new_node_index \in NodeIndex
    /\ pc \in {"idle", "insert"} =>
          /\ previous_node_index = UNEXISTING_NODE_INDEX
          /\ next_node_index = UNEXISTING_NODE_INDEX
    /\ pc = "walk" => next_node_index \in NodeIndex
    /\ pc \in {"unlink", "uncount"} => info.nb_activities > 0

TypeInv == ScheduleTypeOK /\ CallFacts

FaultyNext == Next \/ Interrupt

USE DEF Occupied

LEMMA NextSplit ==
    ASSUME Next
    PROVE  \/ PushRefused \/ PushFindsNoNode
           \/ \E a \in Activity : GetAvailableNode(a)
           \/ InsertInEmptySchedule \/ StartWalk \/ WalkReadFails
           \/ Walk \/ WalkFullLap \/ WriteNewNode
           \/ LinkNext \/ LinkPrevious \/ CountActivity
           \/ PopNothing \/ PopReadFails
           \/ \E t \in Time : PopTooEarly(t)
           \/ \E t \in Time : FreeOldestNode(t)
           \/ UnlinkNewOldest \/ UncountActivity
           \/ ReportNextDate \/ ReportReadFails
           \/ Reset
BY DEF Next, PushStart, PopStart, Continue, PushContinue, PopContinue

LEMMA ZeroTyped ==
    ZeroActivity \in Activity /\ ZeroNode \in Node /\ ZeroInfo \in Info
BY ScheduleAssumption
   DEF ZeroActivity, ZeroNode, ZeroInfo, Activity, Node, Info, Link, NodeIndex

LEMMA TypeInit == Init => TypeInv
BY ScheduleAssumption, ZeroTyped
   DEF Init, TypeInv, ScheduleTypeOK, CallFacts, PushSteps, PopSteps, Link

(* A call that returns leaves well-typed locals, whatever it returns. *)
LEMMA ReturnTyped ==
    ASSUME TypeInv,
           NEW value \in {"RET_SUCCESSFUL", "RET_NOT_AVAILABLE", "RET_ERROR"},
           Return(value),
           info' \in Info, node' \in [NodeIndex -> Node],
           released' \in Activity,
           next_activity_date' \in Time \union {INVALID_TIME}
    PROVE  TypeInv'
BY ScheduleAssumption, ZeroTyped
   DEF Return, TypeInv, ScheduleTypeOK, CallFacts, PushSteps, PopSteps, Link

LEMMA TypeStep ==
    ASSUME TypeInv, [FaultyNext]_scheduleVars
    PROVE  TypeInv'
<1> USE ScheduleAssumption DEF TypeInv, ScheduleTypeOK
<1>1. CASE UNCHANGED scheduleVars
  BY <1>1 DEF scheduleVars, file, locals, output, CallFacts
<1>2. CASE PushRefused
  BY <1>2, ReturnTyped DEF PushRefused, file
<1>3. CASE PushFindsNoNode
  BY <1>3, ReturnTyped DEF PushFindsNoNode, file
<1>4. ASSUME NEW a \in Activity, GetAvailableNode(a) PROVE TypeInv'
  <2>1. PICK i \in NodeIndex : /\ new_node_index' = i
                               /\ info' = [info EXCEPT !.write_index = After(i)]
    BY <1>4 DEF GetAvailableNode
  <2>2. After(i) \in NodeIndex
    BY DEF After, NodeIndex
  <2>3. /\ info' \in Info
        /\ info'.nb_activities = info.nb_activities
    BY <2>1, <2>2 DEF Info
  <2> QED
    BY <1>4, <2>1, <2>3
       DEF GetAvailableNode, CallFacts, PushSteps, PopSteps, Link, output
<1>5. CASE InsertInEmptySchedule
  <2>1. node' \in [NodeIndex -> Node]
    BY <1>5 DEF InsertInEmptySchedule, NewNode, Node, Link, CallFacts, PushSteps
  <2> QED
    BY <1>5, <2>1
       DEF InsertInEmptySchedule, CallFacts, PushSteps, PopSteps, output
<1>6. CASE StartWalk
  BY <1>6 DEF StartWalk, CallFacts, PushSteps, PopSteps, output, file, Info, Link
<1>7. CASE WalkReadFails
  BY <1>7, ReturnTyped DEF WalkReadFails, file
<1>8. CASE Walk
  <2>1. next_node_index \in NodeIndex
    BY <1>8 DEF Walk, CallFacts
  <2>2. node[next_node_index].next \in Link
    BY <2>1 DEF Node
  <2>3. next_node_index' \in NodeIndex
    BY <1>8, <2>2 DEF Walk, KeepWalking, Here, Link
  <2>4. nodes_visited' \in 0 .. MAXIMUM_ACTIVITIES_PER_SCHEDULE
    BY <1>8 DEF Walk, KeepWalking
  <2> QED
    BY <1>8, <2>3, <2>4
       DEF Walk, CallFacts, PushSteps, PopSteps, output, file, Link
<1>9. CASE WalkFullLap
  BY <1>9, ReturnTyped DEF WalkFullLap, file
<1>10. CASE WriteNewNode
  <2>1. next_node_index \in NodeIndex
    BY <1>10 DEF WriteNewNode, CallFacts
  <2>2. Here.previous \in Link
    BY <2>1 DEF Node, Here
  <2>3. previous_node_index' \in Link /\ next_node_index' \in Link
    BY <1>10, <2>1, <2>2 DEF WriteNewNode, Link
  <2>4. NewNode(previous_node_index', next_node_index') \in Node
    BY <2>3 DEF NewNode, Node
  <2>5. node' \in [NodeIndex -> Node]
    BY <1>10, <2>4 DEF WriteNewNode
  <2> QED
    BY <1>10, <2>3, <2>5
       DEF WriteNewNode, CallFacts, PushSteps, PopSteps, output
<1>11. CASE LinkNext
  <2>1. node' \in [NodeIndex -> Node]
    BY <1>11 DEF LinkNext, Node, Link
  <2> QED
    BY <1>11, <2>1 DEF LinkNext, CallFacts, PushSteps, PopSteps, output
<1>12. CASE LinkPrevious
  <2>1. node' \in [NodeIndex -> Node]
    BY <1>12 DEF LinkPrevious, Node, Link
  <2> QED
    BY <1>12, <2>1 DEF LinkPrevious, CallFacts, PushSteps, PopSteps, output
<1>13. CASE CountActivity
  <2>1. /\ info.nb_activities < MAXIMUM_ACTIVITIES_PER_SCHEDULE
        /\ new_node_index \in NodeIndex
    BY <1>13 DEF CountActivity, CallFacts, PushSteps
  <2>2. info.nb_activities + 1 \in 0 .. MAXIMUM_ACTIVITIES_PER_SCHEDULE
    BY <2>1 DEF Info
  <2>3. (IF previous_node_index = UNEXISTING_NODE_INDEX
           THEN new_node_index ELSE info.oldest) \in Link
    BY <2>1 DEF Info, Link
  <2>4. info' \in Info
    BY <1>13, <2>2, <2>3 DEF CountActivity, Info
  <2> QED
    BY <1>13, <2>4, ReturnTyped DEF CountActivity
<1>14. CASE PopNothing
  BY <1>14, ReturnTyped, ZeroTyped DEF PopNothing, file
<1>15. CASE PopReadFails
  BY <1>15, ReturnTyped, ZeroTyped DEF PopReadFails, file
<1>16. ASSUME NEW t \in Time, PopTooEarly(t) PROVE TypeInv'
  <2>1. info.oldest \in NodeIndex
    BY <1>16 DEF PopTooEarly, Info, Link
  <2>2. node[info.oldest].activity.timestamp \in Time
    BY <2>1 DEF Node, Activity
  <2> QED
    BY <1>16, <2>2, ReturnTyped, ZeroTyped DEF PopTooEarly, file
<1>17. ASSUME NEW t \in Time, FreeOldestNode(t) PROVE TypeInv'
  <2>1. info.oldest \in NodeIndex
    BY <1>17 DEF FreeOldestNode, Info, Link
  <2>2. node[info.oldest].activity \in Activity /\ node[info.oldest].next \in Link
    BY <2>1 DEF Node
  <2>3. node' \in [NodeIndex -> Node]
    BY <1>17, ZeroTyped DEF FreeOldestNode
  <2>4. info.nb_activities > 0
    BY <1>17 DEF FreeOldestNode, Info
  <2> QED
    BY <1>17, <2>2, <2>3, <2>4
       DEF FreeOldestNode, CallFacts, PushSteps, PopSteps
<1>18. CASE UnlinkNewOldest
  <2>1. node' \in [NodeIndex -> Node]
    BY <1>18 DEF UnlinkNewOldest, Node, Link
  <2> QED
    BY <1>18, <2>1 DEF UnlinkNewOldest, CallFacts, PushSteps, PopSteps, output
<1>19. CASE UncountActivity
  <2>1. info' \in Info
    BY <1>19 DEF UncountActivity, CallFacts, Info
  <2> QED
    BY <1>19, <2>1 DEF UncountActivity, CallFacts, PushSteps, PopSteps, output
<1>20. CASE ReportNextDate
  <2>1. info.nb_activities > 0 =>
           node[next_node_index].activity.timestamp \in Time
    BY <1>20 DEF ReportNextDate, Link, Node, Activity
  <2> QED
    BY <1>20, <2>1, ReturnTyped DEF ReportNextDate, file
<1>21. CASE ReportReadFails
  BY <1>21, ReturnTyped DEF ReportReadFails, file
<1>22. CASE Reset
  BY <1>22, ReturnTyped, ZeroTyped DEF Reset
<1>23. CASE Interrupt
  BY <1>23, ReturnTyped DEF Interrupt, file
<1> QED
  BY <1>1, <1>2, <1>3, <1>4, <1>5, <1>6, <1>7, <1>8, <1>9, <1>10, <1>11, <1>12,
     <1>13, <1>14, <1>15, <1>16, <1>17, <1>18, <1>19, <1>20, <1>21, <1>22, <1>23,
     NextSplit
     DEF FaultyNext

(* Whatever calls are interrupted and wherever, the indices and counters   *)
(* the code computes stay within the file.                                 *)
THEOREM FaultyTypeCorrect == FaultySpec => []ScheduleTypeOK
<1>1. Init => TypeInv
  BY TypeInit
<1>2. TypeInv /\ [Next \/ Interrupt]_scheduleVars => TypeInv'
  BY TypeStep DEF FaultyNext
<1>3. TypeInv => ScheduleTypeOK
  BY DEF TypeInv
<1> QED
  BY <1>1, <1>2, <1>3, PTL DEF FaultySpec

HIDE DEF Occupied

-----------------------------------------------------------------------------
(* The schedule file is at all times the doubly linked, counted and sorted *)
(* list of the scheduled activities, unless a call was interrupted between *)
(* two writes that belong together.                                        *)

ListInv == TypeInv /\ torn \in BOOLEAN /\ ListIntact

ListParts == /\ order \in Seq(NodeIndex)
             /\ NoRepetition
             /\ Linked
             /\ Sorted
             /\ HeaderAgrees
             /\ NewNodeAside
             /\ WalkPosition
             /\ InsertionPoint

OrderedFaultyNext == OrderedNext \/ OrderedInterrupt

LEMMA InsertAtProperties ==
    ASSUME NEW S, NEW s \in Seq(S), NEW i \in 1 .. Len(s) + 1, NEW e \in S
    PROVE  /\ InsertAt(s, i, e) \in Seq(S)
           /\ Len(InsertAt(s, i, e)) = Len(s) + 1
           /\ \A k \in 1 .. Len(s) + 1 :
                 InsertAt(s, i, e)[k] = IF k < i THEN s[k]
                                        ELSE IF k = i THEN e
                                        ELSE s[k - 1]
<1> DEFINE front == SubSeq(s, 1, i - 1)
           back  == SubSeq(s, i, Len(s))
<1>1. /\ front \in Seq(S) /\ Len(front) = i - 1
      /\ \A k \in 1 .. i - 1 : front[k] = s[k]
  BY SubSeqProperties
<1>2. /\ back \in Seq(S) /\ Len(back) = Len(s) - i + 1
      /\ \A k \in 1 .. Len(s) - i + 1 : back[k] = s[i + k - 1]
  BY SubSeqProperties
<1>3. /\ <<e>> \in Seq(S) /\ Len(<<e>>) = 1 /\ <<e>>[1] = e
  OBVIOUS
<1> HIDE DEF front, back
<1>4. /\ front \o <<e>> \in Seq(S) /\ Len(front \o <<e>>) = i
      /\ \A k \in 1 .. i : (front \o <<e>>)[k] = IF k < i THEN s[k] ELSE e
  BY <1>1, <1>3, ConcatProperties
<1> DEFINE start == front \o <<e>>
<1>5. InsertAt(s, i, e) = start \o back
  BY DEF InsertAt, front, back
<1> HIDE DEF start
<1>6. start \in Seq(S) /\ Len(start) = i
  BY <1>4 DEF start
<1>7. /\ start \o back \in Seq(S)
      /\ Len(start \o back) = Len(start) + Len(back)
      /\ \A k \in 1 .. Len(start) + Len(back) :
            (start \o back)[k] = IF k <= Len(start) THEN start[k]
                                 ELSE back[k - Len(start)]
  BY <1>2, <1>6, ConcatProperties
<1>8. Len(start) + Len(back) = Len(s) + 1
  BY <1>2, <1>6
<1>9. ASSUME NEW k \in 1 .. Len(s) + 1
      PROVE  (start \o back)[k] = IF k < i THEN s[k]
                                  ELSE IF k = i THEN e
                                  ELSE s[k - 1]
  <2>1. CASE k <= i
    <3>1. k \in 1 .. i
      BY <2>1
    <3>2. start[k] = IF k < i THEN s[k] ELSE e
      BY <3>1, <1>4 DEF start
    <3>3. (start \o back)[k] = start[k]
      BY <2>1, <1>6, <1>7, <1>8
    <3> QED
      BY <3>1, <3>2, <3>3
  <2>2. CASE k > i
    <3>1. (start \o back)[k] = back[k - i] /\ k - i \in 1 .. Len(s) - i + 1
      BY <2>2, <1>6, <1>7, <1>8
    <3>2. back[k - i] = s[i + (k - i) - 1] /\ i + (k - i) - 1 = k - 1
      BY <3>1, <1>2
    <3> QED
      BY <2>2, <3>1, <3>2
  <2>3. k <= i \/ k > i
    OBVIOUS
  <2> QED
    BY <2>1, <2>2, <2>3, Zenon
<1>10. start \o back \in Seq(S) /\ Len(start \o back) = Len(s) + 1
  BY <1>7, <1>8
<1> QED
  BY <1>5, <1>9, <1>10, Zenon

LEMMA ListInit == OrderInit => ListInv
<1> SUFFICES ASSUME OrderInit PROVE ListInv
  OBVIOUS
<1>1. TypeInv
  BY TypeInit DEF OrderInit
<1>2. order = <<>> /\ L = 0 /\ order \in Seq(NodeIndex)
  BY DEF OrderInit, L
<1>3. NoRepetition /\ Linked /\ Sorted
  BY <1>2 DEF NoRepetition, Linked, Sorted
<1>4. HeaderAgrees /\ NewNodeAside /\ WalkPosition /\ InsertionPoint
  BY <1>2 DEF OrderInit, Init, HeaderAgrees, NewNodeAside, WalkPosition,
              InsertionPoint, PushSteps, ZeroInfo
<1> QED
  BY <1>1, <1>2, <1>3, <1>4 DEF ListInv, ListIntact, OrderInit

LEMMA LinkFacts ==
    ASSUME TypeInv, order \in Seq(NodeIndex)
    PROVE  /\ L \in Nat
           /\ UNEXISTING_NODE_INDEX \notin NodeIndex
           /\ \A k \in 1 .. L : /\ order[k] \in NodeIndex
                                /\ node[order[k]] \in Node
                                /\ node[order[k]].activity.timestamp \in Nat
<1>1. L \in Nat /\ UNEXISTING_NODE_INDEX \notin NodeIndex
  BY ScheduleAssumption DEF L
<1>2. ASSUME NEW k \in 1 .. L
      PROVE  /\ order[k] \in NodeIndex
             /\ node[order[k]] \in Node
             /\ node[order[k]].activity.timestamp \in Nat
  <2>1. order[k] \in NodeIndex
    BY DEF L
  <2>2. node[order[k]] \in Node
    BY <2>1 DEF TypeInv, ScheduleTypeOK
  <2> QED
    BY <2>1, <2>2, ScheduleAssumption DEF Node, Activity
<1> QED
  BY <1>1, <1>2

(* A call that ends before it changed a link leaves the list as it was. *)
LEMMA ReturnKeepsList ==
    ASSUME TypeInv, ListParts, ~Exposed, NEW v, Return(v),
           UNCHANGED <<info, node, order>>
    PROVE  ListParts'
<1>1. /\ L \in Nat /\ L' = L
      /\ \A k \in 1 .. L : order[k] \in NodeIndex
      /\ UNEXISTING_NODE_INDEX \notin NodeIndex
  BY LinkFacts DEF ListParts, L
<1>2. pc' = "idle"
  BY DEF Return
<1>3. order' \in Seq(NodeIndex) /\ NoRepetition' /\ Sorted'
  BY DEF ListParts, NoRepetition, Sorted, L
<1>4. Linked'
  <2> SUFFICES ASSUME NEW k \in 1 .. L
               PROVE  /\ ExpectedNext(k)' = ExpectedNext(k)
                      /\ ExpectedPrevious(k)' = ExpectedPrevious(k)
    <3>1. node' = node /\ order' = order
      OBVIOUS
    <3> QED
      BY <1>1, <3>1 DEF ListParts, Linked, Occupied
  <2> QED
    BY <1>1, <1>2 DEF ExpectedNext, ExpectedPrevious, Exposed, Neighbour, L
<1>5. HeaderAgrees'
  BY <1>1, <1>2 DEF ListParts, HeaderAgrees, Exposed, L
<1>6. NewNodeAside' /\ WalkPosition' /\ InsertionPoint'
  BY <1>2 DEF NewNodeAside, WalkPosition, InsertionPoint, PushSteps
<1> QED
  BY <1>3, <1>4, <1>5, <1>6 DEF ListParts

-----------------------------------------------------------------------------
(* The push, one lemma per write or step of the walk. *)

LEMMA GetAvailableNodeStep ==
    ASSUME TypeInv, ListParts, NEW a \in Activity, GetAvailableNode(a),
           UNCHANGED order
    PROVE  ListParts'
<1>1. /\ L \in Nat /\ L' = L
      /\ \A k \in 1 .. L : order[k] \in NodeIndex
  BY LinkFacts DEF ListParts, L
<1>2. PICK i \in NodeIndex : /\ ~Occupied(i)
                             /\ new_node_index' = i
                             /\ info' = [info EXCEPT !.write_index = After(i)]
  BY DEF GetAvailableNode, ClosestFree
<1>3. /\ pc = "idle" /\ pc' = "insert" /\ UNCHANGED <<node, order>>
      /\ info.nb_activities < MAXIMUM_ACTIVITIES_PER_SCHEDULE
  BY DEF GetAvailableNode
<1>4. info'.nb_activities = info.nb_activities /\ info'.oldest = info.oldest
  BY <1>2 DEF TypeInv, ScheduleTypeOK, Info
<1>5. order' \in Seq(NodeIndex) /\ NoRepetition' /\ Sorted'
  BY <1>3 DEF ListParts, NoRepetition, Sorted, L
<1>6. Linked'
  BY <1>1, <1>3
     DEF ListParts, Linked, ExpectedNext, ExpectedPrevious, Neighbour, Occupied
<1>7. HeaderAgrees'
  BY <1>1, <1>3, <1>4 DEF ListParts, HeaderAgrees
<1>8. NewNodeAside'
  BY <1>1, <1>2, <1>3 DEF ListParts, NewNodeAside, Linked, HeaderAgrees
<1>9. WalkPosition' /\ InsertionPoint'
  BY <1>3 DEF WalkPosition, InsertionPoint
<1> QED
  BY <1>5, <1>6, <1>7, <1>8, <1>9 DEF ListParts

LEMMA InsertInEmptyStep ==
    ASSUME TypeInv, ListParts, InsertInEmptySchedule, UNCHANGED order
    PROVE  ListParts'
<1>1. pc = "insert" /\ pc' = "count" /\ info' = info /\ info.nb_activities = 0
  BY DEF InsertInEmptySchedule
<1>2. L = 0 /\ L' = 0
  BY <1>1 DEF ListParts, HeaderAgrees, L
<1>3. order' \in Seq(NodeIndex) /\ NoRepetition' /\ Sorted' /\ Linked'
  BY <1>2 DEF ListParts, NoRepetition, Sorted, Linked
<1>4. HeaderAgrees'
  BY <1>1, <1>2 DEF HeaderAgrees
<1>5. NewNodeAside' /\ WalkPosition'
  BY <1>1, <1>2 DEF ListParts, NewNodeAside, WalkPosition, PushSteps,
                    InsertInEmptySchedule
<1>6. InsertionPoint'
  <2>1. /\ previous_node_index' = UNEXISTING_NODE_INDEX
        /\ next_node_index' = UNEXISTING_NODE_INDEX
        /\ UNCHANGED <<new_node_index, activity>>
    BY <1>1 DEF InsertInEmptySchedule, TypeInv, CallFacts
  <2>2. node'[new_node_index] =
           NewNode(UNEXISTING_NODE_INDEX, UNEXISTING_NODE_INDEX)
    BY <1>1 DEF InsertInEmptySchedule, TypeInv, ScheduleTypeOK, CallFacts,
                PushSteps
  <2>3. Gap(0)'
    BY <1>2, <2>1 DEF Gap, Neighbour
  <2> QED
    BY <1>2, <2>1, <2>2, <2>3 DEF InsertionPoint, NewNode
<1> QED
  BY <1>3, <1>4, <1>5, <1>6 DEF ListParts

LEMMA StartWalkStep ==
    ASSUME TypeInv, ListParts, StartWalk, UNCHANGED order
    PROVE  ListParts'
<1>1. /\ L \in Nat /\ L' = L
      /\ \A k \in 1 .. L : order[k] \in NodeIndex
  BY LinkFacts DEF ListParts, L
<1>2. /\ pc = "insert" /\ pc' = "walk" /\ info' = info /\ node' = node
      /\ new_node_index' = new_node_index /\ nodes_visited' = 0
      /\ next_node_index' = info.oldest /\ info.nb_activities # 0
  BY DEF StartWalk, file
<1>3. L > 0 /\ info.oldest = order[1]
  BY <1>1, <1>2 DEF ListParts, HeaderAgrees
<1>4. order' \in Seq(NodeIndex) /\ NoRepetition' /\ Sorted'
  BY <1>2 DEF ListParts, NoRepetition, Sorted, L
<1>5. Linked'
  BY <1>1, <1>2
     DEF ListParts, Linked, ExpectedNext, ExpectedPrevious, Neighbour, Occupied
<1>6. HeaderAgrees' /\ NewNodeAside' /\ InsertionPoint'
  BY <1>1, <1>2 DEF ListParts, HeaderAgrees, NewNodeAside, InsertionPoint,
                    PushSteps
<1>7. WalkPosition'
  BY <1>1, <1>2, <1>3 DEF WalkPosition
<1> QED
  BY <1>4, <1>5, <1>6, <1>7 DEF ListParts

(* The node the walk looks at, and what its links say. *)
LEMMA WalkFacts ==
    ASSUME TypeInv, ListParts, pc = "walk"
    PROVE  /\ nodes_visited \in Nat /\ nodes_visited < L
           /\ next_node_index = order[nodes_visited + 1]
           /\ Here.next = Neighbour(nodes_visited + 2)
           /\ Here.previous = Neighbour(nodes_visited)
           /\ \A k \in 1 .. nodes_visited :
                 node[order[k]].activity.timestamp <= activity.timestamp
<1>1. nodes_visited \in Nat /\ L \in Nat
  BY LinkFacts, ScheduleAssumption DEF TypeInv, ScheduleTypeOK, ListParts
<1>2. /\ nodes_visited < L
      /\ next_node_index = order[nodes_visited + 1]
      /\ \A k \in 1 .. nodes_visited :
                 node[order[k]].activity.timestamp <= activity.timestamp
  BY DEF ListParts, WalkPosition
<1>3. nodes_visited + 1 \in 1 .. L
  BY <1>1, <1>2
<1>4. /\ Here.next = ExpectedNext(nodes_visited + 1)
      /\ Here.previous = ExpectedPrevious(nodes_visited + 1)
  BY <1>2, <1>3 DEF ListParts, Linked, Here
<1>5. /\ ExpectedNext(nodes_visited + 1) = Neighbour((nodes_visited + 1) + 1)
      /\ ExpectedPrevious(nodes_visited + 1) = Neighbour((nodes_visited + 1) - 1)
  BY DEF ExpectedNext, ExpectedPrevious
<1>6. (nodes_visited + 1) + 1 = nodes_visited + 2 /\ (nodes_visited + 1) - 1 = nodes_visited
  BY <1>1
<1> QED
  BY <1>1, <1>2, <1>4, <1>5, <1>6

LEMMA WalkStep ==
    ASSUME TypeInv, ListParts, Walk, UNCHANGED order
    PROVE  ListParts'
<1>1. /\ L \in Nat /\ L' = L
      /\ \A k \in 1 .. L : order[k] \in NodeIndex
      /\ UNEXISTING_NODE_INDEX \notin NodeIndex
  BY LinkFacts DEF ListParts, L
<1>2. /\ pc = "walk" /\ pc' = "walk" /\ info' = info /\ node' = node
      /\ new_node_index' = new_node_index /\ activity' = activity
      /\ nodes_visited' = nodes_visited + 1
      /\ next_node_index' = Here.next
      /\ NotLater /\ Here.next # UNEXISTING_NODE_INDEX
  BY DEF Walk, KeepWalking, file
<1>3. /\ nodes_visited \in Nat /\ nodes_visited < L
      /\ next_node_index = order[nodes_visited + 1]
      /\ Here.next = Neighbour(nodes_visited + 2)
      /\ \A k \in 1 .. nodes_visited :
            node[order[k]].activity.timestamp <= activity.timestamp
  BY <1>2, WalkFacts
<1>4. nodes_visited + 2 \in 1 .. L /\ Here.next = order[nodes_visited + 2]
  BY <1>2, <1>3 DEF Neighbour
<1>5. order' \in Seq(NodeIndex) /\ NoRepetition' /\ Sorted'
  BY <1>2 DEF ListParts, NoRepetition, Sorted, L
<1>6. Linked'
  BY <1>1, <1>2
     DEF ListParts, Linked, ExpectedNext, ExpectedPrevious, Neighbour, Occupied
<1>7. HeaderAgrees' /\ NewNodeAside' /\ InsertionPoint'
  BY <1>1, <1>2 DEF ListParts, HeaderAgrees, NewNodeAside, InsertionPoint,
                    PushSteps
<1>8. ASSUME NEW k \in 1 .. nodes_visited + 1
      PROVE  node[order[k]].activity.timestamp <= activity.timestamp
  <2>1. CASE k \in 1 .. nodes_visited
    BY <1>3, <2>1
  <2>2. CASE k = nodes_visited + 1
    BY <1>2, <1>3, <2>2 DEF NotLater, Here
  <2> QED
    BY <1>3, <2>1, <2>2
<1>9. WalkPosition'
  <2>1. /\ nodes_visited' < L'
        /\ next_node_index' = order'[nodes_visited' + 1]
    BY <1>1, <1>2, <1>3, <1>4
  <2> QED
    BY <1>2, <1>8, <2>1 DEF WalkPosition
<1> QED
  BY <1>5, <1>6, <1>7, <1>9 DEF ListParts

(* The neighbours the walk chose are consecutive in the list, and the new  *)
(* activity fits between them.                                             *)
LEMMA WalkFindsGap ==
    ASSUME TypeInv, ListParts, WriteNewNode, UNCHANGED order
    PROVE  \E p \in 0 .. L :
              /\ previous_node_index' = Neighbour(p)
              /\ next_node_index' = Neighbour(p + 1)
              /\ \A k \in 1 .. p :
                    node[order[k]].activity.timestamp <= activity.timestamp
              /\ \A k \in p + 1 .. L :
                    node[order[k]].activity.timestamp > activity.timestamp
<1> DEFINE v == nodes_visited
<1>1. /\ L \in Nat
      /\ \A k \in 1 .. L : /\ order[k] \in NodeIndex
                           /\ node[order[k]].activity.timestamp \in Nat
      /\ UNEXISTING_NODE_INDEX \notin NodeIndex
  BY LinkFacts DEF ListParts
<1>2. pc = "walk" /\ ~KeepWalking /\ v < MAXIMUM_ACTIVITIES_PER_SCHEDULE
  BY DEF WriteNewNode
<1>3. /\ v \in Nat /\ v < L
      /\ next_node_index = order[v + 1]
      /\ Here.next = Neighbour(v + 2)
      /\ Here.previous = Neighbour(v)
      /\ \A k \in 1 .. v :
            node[order[k]].activity.timestamp <= activity.timestamp
  BY <1>2, WalkFacts
<1>4. activity.timestamp \in Nat
  BY ScheduleAssumption DEF TypeInv, ScheduleTypeOK, Activity
<1>5. v + 1 \in 1 .. L /\ Neighbour(v + 1) = order[v + 1]
  BY <1>1, <1>3 DEF Neighbour
<1>6. CASE Here.next = UNEXISTING_NODE_INDEX /\ NotLater
  <2>1. v + 2 \notin 1 .. L
    BY <1>1, <1>3, <1>6 DEF Neighbour
  <2>2. v + 1 = L
    BY <1>1, <1>3, <2>1
  <2>3. /\ previous_node_index' = Neighbour(L)
        /\ next_node_index' = Neighbour(L + 1)
    BY <1>1, <1>3, <1>5, <1>6, <2>2 DEF WriteNewNode, Neighbour
  <2>4. \A k \in 1 .. L : node[order[k]].activity.timestamp <= activity.timestamp
    BY <1>1, <1>3, <1>6, <2>2 DEF NotLater, Here
  <2> QED
    BY <1>1, <2>3, <2>4
<1>7. CASE ~(Here.next = UNEXISTING_NODE_INDEX /\ NotLater)
  <2>1. ~NotLater
    BY <1>2, <1>7 DEF KeepWalking
  <2>2. node[order[v + 1]].activity.timestamp > activity.timestamp
    BY <1>1, <1>3, <1>4, <1>5, <2>1 DEF NotLater, Here
  <2>3. ASSUME NEW k \in v + 1 .. L
        PROVE  node[order[k]].activity.timestamp > activity.timestamp
    <3>1. k \in 1 .. L
      BY <1>3
    <3>2. CASE k = v + 1
      BY <2>2, <3>2
    <3>3. CASE v + 1 < k
      <4>1. node[order[v + 1]].activity.timestamp
              <= node[order[k]].activity.timestamp
        BY <1>5, <3>1, <3>3 DEF ListParts, Sorted
      <4> QED
        BY <1>1, <1>4, <1>5, <2>2, <3>1, <4>1
    <3> QED
      BY <1>3, <3>2, <3>3
  <2>4. /\ previous_node_index' = Neighbour(v)
        /\ next_node_index' = Neighbour(v + 1)
    BY <1>3, <1>5, <1>7 DEF WriteNewNode
  <2> QED
    BY <1>1, <1>3, <2>3, <2>4
<1> QED
  BY <1>6, <1>7

LEMMA WriteNewNodeStep ==
    ASSUME TypeInv, ListParts, WriteNewNode, UNCHANGED order
    PROVE  ListParts'
<1>1. /\ L \in Nat /\ L' = L
      /\ \A k \in 1 .. L : order[k] \in NodeIndex
  BY LinkFacts DEF ListParts, L
<1>2. /\ pc = "walk" /\ pc' = "linkNext" /\ info' = info
      /\ new_node_index' = new_node_index /\ activity' = activity
      /\ node' = [node EXCEPT ![new_node_index] =
                     NewNode(previous_node_index', next_node_index')]
  BY DEF WriteNewNode
<1>3. /\ new_node_index \in NodeIndex
      /\ \A k \in 1 .. L : order[k] # new_node_index
  BY <1>2 DEF ListParts, NewNodeAside, PushSteps
<1>4. /\ node'[new_node_index] = NewNode(previous_node_index', next_node_index')
      /\ \A k \in 1 .. L : node'[order[k]] = node[order[k]]
  BY <1>1, <1>2, <1>3 DEF TypeInv, ScheduleTypeOK
<1>5. order' \in Seq(NodeIndex) /\ NoRepetition' /\ Sorted'
  BY <1>1, <1>4 DEF ListParts, NoRepetition, Sorted
<1>6. Linked'
  <2> SUFFICES ASSUME NEW k \in 1 .. L
               PROVE  /\ Occupied(order[k])'
                      /\ node'[order[k]].next = ExpectedNext(k)'
                      /\ node'[order[k]].previous = ExpectedPrevious(k)'
    BY <1>1 DEF Linked
  <2>1. /\ Occupied(order[k])
        /\ node[order[k]].next = Neighbour(k + 1)
        /\ node[order[k]].previous = Neighbour(k - 1)
    BY <1>2 DEF ListParts, Linked, ExpectedNext, ExpectedPrevious
  <2>2. Neighbour(k + 1)' = Neighbour(k + 1) /\ Neighbour(k - 1)' = Neighbour(k - 1)
    BY <1>1 DEF Neighbour
  <2> QED
    BY <1>2, <1>4, <2>1, <2>2 DEF Occupied, ExpectedNext, ExpectedPrevious
<1>7. HeaderAgrees' /\ NewNodeAside' /\ WalkPosition'
  BY <1>1, <1>2, <1>3 DEF ListParts, HeaderAgrees, NewNodeAside, WalkPosition,
                          PushSteps
<1>8. InsertionPoint'
  <2>1. PICK p \in 0 .. L :
           /\ previous_node_index' = Neighbour(p)
           /\ next_node_index' = Neighbour(p + 1)
           /\ \A k \in 1 .. p :
                 node[order[k]].activity.timestamp <= activity.timestamp
           /\ \A k \in p + 1 .. L :
                 node[order[k]].activity.timestamp > activity.timestamp
    BY WalkFindsGap
  <2>2. Gap(p)'
    BY <1>1, <1>2, <1>4, <2>1 DEF Gap, Neighbour
  <2>3. node'[new_node_index'] = NewNode(previous_node_index, next_node_index)'
    BY <1>2, <1>4 DEF NewNode
  <2> QED
    BY <1>1, <2>2, <2>3 DEF InsertionPoint
<1> QED
  BY <1>5, <1>6, <1>7, <1>8 DEF ListParts

(* A write that changes only links, never the status or activity of a node *)
(* of the list, keeps what is sorted sorted and the gap a gap.             *)
LEMMA LinkWriteKeeps ==
    ASSUME TypeInv, ListParts, UNCHANGED <<order, activity, new_node_index,
              previous_node_index, next_node_index, info>>,
           pc \in {"linkNext", "linkPrevious"},
           pc' \in {"linkPrevious", "count"},
           node'[new_node_index] = node[new_node_index],
           \A k \in 1 .. L : node'[order[k]].activity = node[order[k]].activity
    PROVE  /\ order' \in Seq(NodeIndex) /\ NoRepetition' /\ Sorted'
           /\ HeaderAgrees' /\ NewNodeAside' /\ WalkPosition'
           /\ InsertionPoint'
<1>1. L \in Nat /\ L' = L
  BY LinkFacts DEF ListParts, L
<1>2. order' \in Seq(NodeIndex) /\ NoRepetition' /\ Sorted'
  BY <1>1 DEF ListParts, NoRepetition, Sorted
<1>3. HeaderAgrees' /\ NewNodeAside' /\ WalkPosition'
  BY <1>1 DEF ListParts, HeaderAgrees, NewNodeAside, WalkPosition, PushSteps
<1>4. InsertionPoint'
  <2>1. PICK p \in 0 .. L : Gap(p)
    BY DEF ListParts, InsertionPoint
  <2>2. Gap(p)'
    BY <1>1, <2>1 DEF Gap, Neighbour
  <2>3. node'[new_node_index'] = NewNode(previous_node_index, next_node_index)'
    BY DEF ListParts, InsertionPoint, NewNode
  <2> QED
    BY <1>1, <2>2, <2>3 DEF InsertionPoint
<1> QED
  BY <1>2, <1>3, <1>4

LEMMA LinkNextStep ==
    ASSUME TypeInv, ListParts, LinkNext, UNCHANGED order
    PROVE  ListParts'
<1>1. /\ L \in Nat /\ L' = L
      /\ \A k \in 1 .. L : order[k] \in NodeIndex /\ node[order[k]] \in Node
      /\ UNEXISTING_NODE_INDEX \notin NodeIndex
  BY LinkFacts DEF ListParts, L
<1>2. /\ pc = "linkNext" /\ pc' = "linkPrevious"
      /\ UNCHANGED <<order, activity, new_node_index, previous_node_index,
                     next_node_index, info>>
      /\ node' = IF next_node_index = UNEXISTING_NODE_INDEX THEN node
                 ELSE [node EXCEPT ![next_node_index].previous = new_node_index]
  BY DEF LinkNext
<1>3. PICK p \in 0 .. L : Gap(p)
  BY <1>2 DEF ListParts, InsertionPoint
<1>4. next_node_index # new_node_index
  BY <1>1, <1>2, <1>3 DEF Gap, Neighbour, ListParts, NewNodeAside, PushSteps
<1>5. node'[new_node_index] = node[new_node_index]
  BY <1>2, <1>4 DEF TypeInv, ScheduleTypeOK, CallFacts, PushSteps
<1>6. ASSUME NEW k \in 1 .. L
      PROVE  /\ node'[order[k]].activity = node[order[k]].activity
             /\ node'[order[k]].status = node[order[k]].status
             /\ node'[order[k]].next = node[order[k]].next
             /\ node'[order[k]].previous = IF next_node_index = order[k]
                                             THEN new_node_index
                                             ELSE node[order[k]].previous
  BY <1>1, <1>2 DEF TypeInv, ScheduleTypeOK, Node
<1>7. ASSUME NEW k \in 1 .. L
      PROVE  /\ Occupied(order[k])'
             /\ node'[order[k]].next = ExpectedNext(k)'
             /\ node'[order[k]].previous = ExpectedPrevious(k)'
  <2>1. /\ Occupied(order[k])
        /\ node[order[k]].next = Neighbour(k + 1)
        /\ node[order[k]].previous = Neighbour(k - 1)
    BY <1>2 DEF ListParts, Linked, ExpectedNext, ExpectedPrevious
  <2>2. Neighbour(k + 1)' = Neighbour(k + 1) /\ Neighbour(k - 1)' = Neighbour(k - 1)
    BY <1>1, <1>2 DEF Neighbour
  <2> QED
    BY <1>2, <1>6, <2>1, <2>2 DEF Occupied, ExpectedNext, ExpectedPrevious
<1> QED
  BY <1>1, <1>2, <1>5, <1>6, <1>7, LinkWriteKeeps DEF ListParts, Linked

LEMMA LinkPreviousStep ==
    ASSUME TypeInv, ListParts, LinkPrevious, UNCHANGED order
    PROVE  ListParts'
<1>1. /\ L \in Nat /\ L' = L
      /\ \A k \in 1 .. L : order[k] \in NodeIndex /\ node[order[k]] \in Node
      /\ UNEXISTING_NODE_INDEX \notin NodeIndex
  BY LinkFacts DEF ListParts, L
<1>2. /\ pc = "linkPrevious" /\ pc' = "count"
      /\ UNCHANGED <<order, activity, new_node_index, previous_node_index,
                     next_node_index, info>>
      /\ node' = IF previous_node_index = UNEXISTING_NODE_INDEX THEN node
                 ELSE [node EXCEPT ![previous_node_index].next = new_node_index]
  BY DEF LinkPrevious
<1>3. PICK p \in 0 .. L : Gap(p)
  BY <1>2 DEF ListParts, InsertionPoint
<1>4. previous_node_index # new_node_index
  BY <1>1, <1>2, <1>3 DEF Gap, Neighbour, ListParts, NewNodeAside, PushSteps
<1>5. node'[new_node_index] = node[new_node_index]
  BY <1>2, <1>4 DEF TypeInv, ScheduleTypeOK, CallFacts, PushSteps
<1>6. ASSUME NEW k \in 1 .. L
      PROVE  /\ node'[order[k]].activity = node[order[k]].activity
             /\ node'[order[k]].status = node[order[k]].status
             /\ node'[order[k]].previous = node[order[k]].previous
             /\ node'[order[k]].next = IF previous_node_index = order[k]
                                         THEN new_node_index
                                         ELSE node[order[k]].next
  BY <1>1, <1>2 DEF TypeInv, ScheduleTypeOK, Node
<1>7. ASSUME NEW k \in 1 .. L
      PROVE  /\ Occupied(order[k])'
             /\ node'[order[k]].next = ExpectedNext(k)'
             /\ node'[order[k]].previous = ExpectedPrevious(k)'
  <2>1. /\ Occupied(order[k])
        /\ node[order[k]].next = Neighbour(k + 1)
        /\ node[order[k]].previous = IF next_node_index = order[k]
                                       THEN new_node_index
                                       ELSE Neighbour(k - 1)
    BY <1>2 DEF ListParts, Linked, ExpectedNext, ExpectedPrevious
  <2>2. Neighbour(k + 1)' = Neighbour(k + 1) /\ Neighbour(k - 1)' = Neighbour(k - 1)
    BY <1>1, <1>2 DEF Neighbour
  <2> QED
    BY <1>2, <1>6, <2>1, <2>2 DEF Occupied, ExpectedNext, ExpectedPrevious
<1> QED
  BY <1>1, <1>2, <1>5, <1>6, <1>7, LinkWriteKeeps DEF ListParts, Linked

(* The node enters the list right after the node it was linked to. *)
LEMMA InsertionIsGap ==
    ASSUME ListParts, TypeInv, NEW p \in 0 .. L, Gap(p)
    PROVE  Insertion = p + 1
<1>1. /\ L \in Nat
      /\ \A k \in 1 .. L : order[k] \in NodeIndex
      /\ UNEXISTING_NODE_INDEX \notin NodeIndex
  BY LinkFacts DEF ListParts
<1>2. previous_node_index = Neighbour(p)
  BY DEF Gap
<1>3. CASE p = 0
  BY <1>2, <1>3 DEF Neighbour, Insertion
<1>4. CASE p \in 1 .. L
  <2>1. previous_node_index = order[p]
    BY <1>2, <1>4 DEF Neighbour
  <2>2. previous_node_index # UNEXISTING_NODE_INDEX
    BY <1>1, <1>4, <2>1
  <2>3. \A k \in 1 .. L : order[k] = previous_node_index => k = p
    BY <1>4, <2>1 DEF ListParts, NoRepetition
  <2>4. (CHOOSE k \in 1 .. Len(order) : order[k] = previous_node_index) = p
    BY <1>4, <2>1, <2>3 DEF L
  <2>5. Insertion = 1 + p
    BY <2>2, <2>4, Zenon DEF Insertion
  <2> QED
    BY <2>5
<1> QED
  BY <1>1, <1>3, <1>4

(* The node enters the list where its activity belongs. *)
LEMMA CountInserts ==
    ASSUME TypeInv, ListParts, OrderedCount, ~torn
    PROVE  \E p \in 0 .. L :
              /\ Gap(p)
              /\ order' \in Seq(NodeIndex) /\ L' = L + 1
              /\ \A k \in 1 .. L + 1 :
                    order'[k] = IF k < p + 1 THEN order[k]
                                ELSE IF k = p + 1 THEN new_node_index
                                ELSE order[k - 1]
<1>1. L \in Nat
  BY LinkFacts DEF ListParts
<1>2. /\ pc = "count"
      /\ order' = InsertAt(order, Insertion, new_node_index)
  BY DEF OrderedCount, CountActivity
<1>3. PICK p \in 0 .. L : Gap(p)
  BY <1>2 DEF ListParts, InsertionPoint
<1>4. Insertion = p + 1 /\ p + 1 \in 1 .. L + 1
  BY <1>1, <1>3, InsertionIsGap
<1>5. new_node_index \in NodeIndex
  BY <1>2 DEF ListParts, NewNodeAside, PushSteps
<1>6. /\ order' = InsertAt(order, p + 1, new_node_index)
      /\ order \in Seq(NodeIndex) /\ p + 1 \in 1 .. Len(order) + 1
  BY <1>2, <1>4 DEF ListParts, L
<1>7. /\ order' \in Seq(NodeIndex) /\ Len(order') = Len(order) + 1
      /\ \A k \in 1 .. Len(order) + 1 :
            order'[k] = IF k < p + 1 THEN order[k]
                        ELSE IF k = p + 1 THEN new_node_index
                        ELSE order[k - 1]
  <2> HIDE DEF NodeIndex
  <2>1. PICK q \in 1 .. Len(order) + 1 : q = p + 1
    BY <1>6
  <2>2. /\ InsertAt(order, q, new_node_index) \in Seq(NodeIndex)
        /\ Len(InsertAt(order, q, new_node_index)) = Len(order) + 1
        /\ \A k \in 1 .. Len(order) + 1 :
              InsertAt(order, q, new_node_index)[k] =
                 IF k < q THEN order[k]
                 ELSE IF k = q THEN new_node_index
                 ELSE order[k - 1]
    BY <1>5, <1>6, InsertAtProperties
  <2> QED
    BY <1>6, <2>1, <2>2
<1>8. /\ order' \in Seq(NodeIndex) /\ L' = L + 1
      /\ \A k \in 1 .. L + 1 :
            order'[k] = IF k < p + 1 THEN order[k]
                        ELSE IF k = p + 1 THEN new_node_index
                        ELSE order[k - 1]
  BY <1>7 DEF L
<1> QED
  BY <1>3, <1>8

LEMMA OrderedCountStep ==
    ASSUME TypeInv, ListParts, OrderedCount, ~torn
    PROVE  ListParts'
<1>1. /\ L \in Nat
      /\ \A k \in 1 .. L : /\ order[k] \in NodeIndex
                           /\ node[order[k]].activity.timestamp \in Nat
      /\ UNEXISTING_NODE_INDEX \notin NodeIndex
  BY LinkFacts DEF ListParts
<1>2. /\ pc = "count" /\ pc' = "idle" /\ node' = node
      /\ info'.nb_activities = info.nb_activities + 1
      /\ info'.oldest = IF previous_node_index = UNEXISTING_NODE_INDEX
                          THEN new_node_index ELSE info.oldest
      /\ order' = InsertAt(order, Insertion, new_node_index)
  BY DEF OrderedCount, CountActivity, Return
<1>3. PICK p \in 0 .. L :
         /\ Gap(p)
         /\ order' \in Seq(NodeIndex) /\ L' = L + 1
         /\ \A k \in 1 .. L + 1 :
               order'[k] = IF k < p + 1 THEN order[k]
                           ELSE IF k = p + 1 THEN new_node_index
                           ELSE order[k - 1]
  BY CountInserts
<1>4. p + 1 \in 1 .. L + 1
  BY <1>1
<1>5. /\ new_node_index \in NodeIndex
      /\ \A k \in 1 .. L : order[k] # new_node_index
      /\ node[new_node_index] = NewNode(previous_node_index, next_node_index)
  BY <1>2 DEF ListParts, NewNodeAside, InsertionPoint, PushSteps
<1>6. /\ order' \in Seq(NodeIndex) /\ L' = L + 1
      /\ \A k \in 1 .. L + 1 : order'[k] = IF k < p + 1 THEN order[k]
                                           ELSE IF k = p + 1 THEN new_node_index
                                           ELSE order[k - 1]
  BY <1>3
<1>7. NoRepetition'
  <2> SUFFICES ASSUME NEW j \in 1 .. L + 1, NEW k \in 1 .. L + 1,
                      order'[j] = order'[k]
               PROVE  j = k
    BY <1>6 DEF NoRepetition
  <2>1. \A x, y \in 1 .. L : order[x] = order[y] => x = y
    BY DEF ListParts, NoRepetition
  <2>2. CASE j = p + 1 \/ k = p + 1
    <3>1. order'[j] = new_node_index /\ order'[k] = new_node_index
      BY <1>6, <2>2
    <3> QED
      BY <1>1, <1>5, <1>6, <3>1
  <2>3. CASE j # p + 1 /\ k # p + 1
    <3> DEFINE x == IF j < p + 1 THEN j ELSE j - 1
               y == IF k < p + 1 THEN k ELSE k - 1
    <3>1. x \in 1 .. L /\ y \in 1 .. L /\ (x = y => j = k)
      BY <1>1, <2>3
    <3>2. order'[j] = order[x] /\ order'[k] = order[y]
      BY <1>1, <1>6, <2>3
    <3> QED
      BY <2>1, <3>1, <3>2
  <2> QED
    BY <2>2, <2>3
<1>8. /\ previous_node_index = Neighbour(p)
      /\ next_node_index = Neighbour(p + 1)
      /\ \A k \in 1 .. p :
            node[order[k]].activity.timestamp <= activity.timestamp
      /\ \A k \in p + 1 .. L :
            node[order[k]].activity.timestamp > activity.timestamp
  BY <1>3 DEF Gap
<1>9. \A x, y \in 1 .. L : order[x] = order[y] => x = y
  BY DEF ListParts, NoRepetition
<1>10. ASSUME NEW k \in 1 .. L
       PROVE  /\ Occupied(order[k])
              /\ node[order[k]].next = IF k = p THEN new_node_index
                                       ELSE Neighbour(k + 1)
              /\ node[order[k]].previous = IF k = p + 1 THEN new_node_index
                                           ELSE Neighbour(k - 1)
  <2>1. /\ Occupied(order[k])
        /\ node[order[k]].next = ExpectedNext(k)
        /\ node[order[k]].previous = ExpectedPrevious(k)
    BY DEF ListParts, Linked
  <2>2. previous_node_index = order[k] <=> k = p
    BY <1>1, <1>8, <1>9 DEF Neighbour
  <2>3. next_node_index = order[k] <=> k = p + 1
    BY <1>1, <1>8, <1>9 DEF Neighbour
  <2> QED
    BY <1>2, <2>1, <2>2, <2>3 DEF ExpectedNext, ExpectedPrevious
<1>11. ASSUME NEW k \in 1 .. L + 1
       PROVE  /\ Occupied(order'[k])
              /\ node[order'[k]].next = Neighbour(k + 1)'
              /\ node[order'[k]].previous = Neighbour(k - 1)'
  <2>1. CASE k < p + 1
    <3>1. k \in 1 .. L /\ order'[k] = order[k]
      BY <1>1, <1>6, <2>1
    <3>2. Neighbour(k - 1)' = Neighbour(k - 1)
      BY <1>1, <1>6, <2>1 DEF Neighbour
    <3>3. Neighbour(k + 1)' = IF k = p THEN new_node_index ELSE Neighbour(k + 1)
      BY <1>1, <1>6, <2>1 DEF Neighbour
    <3> QED
      BY <1>10, <2>1, <3>1, <3>2, <3>3
  <2>2. CASE k = p + 1
    <3>1. order'[k] = new_node_index
      BY <1>6, <2>2
    <3>2. Neighbour(k - 1)' = previous_node_index
      BY <1>1, <1>6, <1>8, <2>2 DEF Neighbour
    <3>3. Neighbour(k + 1)' = next_node_index
      BY <1>1, <1>6, <1>8, <2>2 DEF Neighbour
    <3> QED
      BY <1>5, <3>1, <3>2, <3>3 DEF NewNode, Occupied
  <2>3. CASE k > p + 1
    <3>1. k - 1 \in 1 .. L /\ order'[k] = order[k - 1]
      BY <1>1, <1>6, <2>3
    <3>2. Neighbour(k + 1)' = Neighbour((k - 1) + 1)
      BY <1>1, <1>6, <2>3 DEF Neighbour
    <3>3. Neighbour(k - 1)' = IF k - 1 = p + 1 THEN new_node_index
                              ELSE Neighbour((k - 1) - 1)
      BY <1>1, <1>6, <2>3 DEF Neighbour
    <3>4. k - 1 # p
      BY <2>3
    <3> QED
      BY <1>10, <3>1, <3>2, <3>3, <3>4
  <2> QED
    BY <1>1, <2>1, <2>2, <2>3
<1>12. Linked'
  BY <1>2, <1>6, <1>11 DEF Linked, ExpectedNext, ExpectedPrevious, Occupied
<1>13. Sorted'
  <2> SUFFICES ASSUME NEW j \in 1 .. L + 1, NEW k \in 1 .. L + 1, j < k
               PROVE  node[order'[j]].activity.timestamp
                        <= node[order'[k]].activity.timestamp
    BY <1>2, <1>6 DEF Sorted
  <2>1. \A x, y \in 1 .. L : x < y =>
           node[order[x]].activity.timestamp <= node[order[y]].activity.timestamp
    BY DEF ListParts, Sorted
  <2>2. /\ node[new_node_index].activity.timestamp = activity.timestamp
        /\ activity.timestamp \in Nat
    <3>1. activity.timestamp \in Nat
      BY ScheduleAssumption DEF TypeInv, ScheduleTypeOK, Activity
    <3> QED
      BY <1>5, <3>1 DEF NewNode
  <2>3. CASE j = p + 1
    <3>1. k - 1 \in p + 1 .. L /\ order'[k] = order[k - 1]
      BY <1>1, <1>6, <2>3
    <3>2. node[order[k - 1]].activity.timestamp > activity.timestamp
          /\ k - 1 \in 1 .. L
      BY <1>8, <3>1
    <3> QED
      BY <1>1, <1>6, <2>2, <2>3, <3>1, <3>2
  <2>4. CASE k = p + 1
    <3>1. j \in 1 .. p /\ order'[j] = order[j] /\ order'[k] = new_node_index
      BY <1>1, <1>6, <2>4
    <3> QED
      BY <1>8, <2>2, <3>1
  <2>5. CASE j # p + 1 /\ k # p + 1
    <3> DEFINE x == IF j < p + 1 THEN j ELSE j - 1
               y == IF k < p + 1 THEN k ELSE k - 1
    <3>1. x \in 1 .. L /\ y \in 1 .. L /\ x < y
      BY <1>1, <2>5
    <3>2. order'[j] = order[x] /\ order'[k] = order[y]
      BY <1>1, <1>6, <2>5
    <3> QED
      BY <2>1, <3>1, <3>2
  <2> QED
    BY <2>3, <2>4, <2>5
<1>14. HeaderAgrees'
  <2>1. info.nb_activities = L /\ (L > 0 => info.oldest = order[1])
    BY <1>2 DEF ListParts, HeaderAgrees
  <2>2. info'.oldest = order'[1]
    BY <1>1, <1>2, <1>6, <1>8, <2>1 DEF Neighbour
  <2> QED
    BY <1>2, <1>6, <2>1, <2>2 DEF HeaderAgrees
<1>15. NewNodeAside' /\ WalkPosition' /\ InsertionPoint'
  BY <1>2 DEF NewNodeAside, WalkPosition, InsertionPoint, PushSteps
<1> QED
  BY <1>6, <1>7, <1>12, <1>13, <1>14, <1>15 DEF ListParts

-----------------------------------------------------------------------------
(* The pop and the reset. *)

LEMMA OrderedFreeStep ==
    ASSUME TypeInv, ListParts, NEW t \in Time, OrderedFree(t), ~torn
    PROVE  ListParts'
<1>1. /\ L \in Nat
      /\ \A k \in 1 .. L : order[k] \in NodeIndex
  BY LinkFacts DEF ListParts
<1>2. /\ pc = "idle" /\ pc' = "unlink" /\ info' = info
      /\ node' = [node EXCEPT ![info.oldest] = ZeroNode]
      /\ next_node_index' = node[info.oldest].next
      /\ info.nb_activities # 0 /\ order' = Tail(order)
  BY DEF OrderedFree, FreeOldestNode
<1>3. L > 0 /\ info.oldest = order[1] /\ info.nb_activities = L
  BY <1>1, <1>2 DEF ListParts, HeaderAgrees
<1>4. /\ order' \in Seq(NodeIndex) /\ L' = L - 1
      /\ \A k \in 1 .. L - 1 : order'[k] = order[k + 1]
  BY <1>1, <1>2, <1>3, HeadTailProperties DEF ListParts, L
<1>5. \A x, y \in 1 .. L : order[x] = order[y] => x = y
  BY DEF ListParts, NoRepetition
<1>6. NoRepetition'
  BY <1>1, <1>4, <1>5 DEF NoRepetition
<1>7. ASSUME NEW k \in 1 .. L - 1
      PROVE  /\ k + 1 \in 1 .. L
             /\ order'[k] # info.oldest
             /\ node'[order'[k]] = node[order[k + 1]]
  <2>1. k + 1 \in 1 .. L /\ 1 \in 1 .. L
    BY <1>1, <1>3
  <2>2. order'[k] # order[1]
    BY <1>4, <1>5, <2>1
  <2> QED
    BY <1>1, <1>2, <1>3, <1>4, <2>1, <2>2 DEF TypeInv, ScheduleTypeOK
<1>8. ASSUME NEW k \in 1 .. L
      PROVE  /\ Occupied(order[k])
             /\ node[order[k]].next = Neighbour(k + 1)
             /\ node[order[k]].previous = Neighbour(k - 1)
  BY <1>2 DEF ListParts, Linked, ExpectedNext, ExpectedPrevious
<1>9. Linked'
  <2> SUFFICES ASSUME NEW k \in 1 .. L - 1
               PROVE  /\ Occupied(order[k])'
                      /\ node'[order'[k]].next = ExpectedNext(k)'
                      /\ node'[order'[k]].previous = ExpectedPrevious(k)'
    BY <1>4 DEF Linked
  <2>1. k + 1 \in 1 .. L /\ node'[order'[k]] = node[order[k + 1]]
    BY <1>7
  <2>2. Neighbour(k + 1)' = Neighbour((k + 1) + 1)
    BY <1>1, <1>4, <2>1 DEF Neighbour
  <2>3. k # 1 => Neighbour(k - 1)' = Neighbour((k + 1) - 1)
    BY <1>1, <1>4, <2>1 DEF Neighbour
  <2>4. k = 1 => info'.oldest = Neighbour((k + 1) - 1)
    BY <1>1, <1>2, <1>3 DEF Neighbour
  <2>5. /\ Occupied(order[k + 1])
        /\ node[order[k + 1]].next = Neighbour((k + 1) + 1)
        /\ node[order[k + 1]].previous = Neighbour((k + 1) - 1)
    BY <1>8, <2>1
  <2>6. ExpectedNext(k)' = Neighbour(k + 1)'
    BY <1>2 DEF ExpectedNext
  <2>7. ExpectedPrevious(k)' = IF k = 1 THEN info'.oldest ELSE Neighbour(k - 1)'
    BY <1>2 DEF ExpectedPrevious
  <2> QED
    BY <2>1, <2>2, <2>3, <2>4, <2>5, <2>6, <2>7 DEF Occupied
<1>10. Sorted'
  <2>1. \A x, y \in 1 .. L : x < y =>
           node[order[x]].activity.timestamp <= node[order[y]].activity.timestamp
    BY DEF ListParts, Sorted
  <2> SUFFICES ASSUME NEW j \in 1 .. L - 1, NEW k \in 1 .. L - 1, j < k
               PROVE  node'[order'[j]].activity.timestamp
                        <= node'[order'[k]].activity.timestamp
    BY <1>4 DEF Sorted
  <2>2. j + 1 < k + 1 /\ j + 1 \in 1 .. L /\ k + 1 \in 1 .. L
    BY <1>7
  <2> QED
    BY <1>7, <2>1, <2>2
<1>11. HeaderAgrees'
  <2>1. next_node_index' = Neighbour(1)'
    <3>1. next_node_index' = Neighbour(2)
      BY <1>1, <1>2, <1>3, <1>8
    <3>2. Neighbour(1)' = Neighbour(2)
      BY <1>1, <1>3, <1>4 DEF Neighbour
    <3> QED
      BY <3>1, <3>2
  <2>2. info'.oldest \in NodeIndex
    BY <1>1, <1>2, <1>3
  <2>3. \A k \in 1 .. L' : order'[k] # info'.oldest
    BY <1>2, <1>4, <1>7
  <2>4. info'.nb_activities = L' + 1
    BY <1>1, <1>2, <1>3, <1>4
  <2> QED
    BY <1>2, <2>1, <2>2, <2>3, <2>4 DEF HeaderAgrees
<1>12. NewNodeAside' /\ WalkPosition' /\ InsertionPoint'
  BY <1>2 DEF NewNodeAside, WalkPosition, InsertionPoint, PushSteps
<1> QED
  BY <1>4, <1>6, <1>9, <1>10, <1>11, <1>12 DEF ListParts

LEMMA UnlinkStep ==
    ASSUME TypeInv, ListParts, UnlinkNewOldest, UNCHANGED order
    PROVE  ListParts'
<1>1. /\ L \in Nat /\ L' = L
      /\ \A k \in 1 .. L : order[k] \in NodeIndex /\ node[order[k]] \in Node
      /\ UNEXISTING_NODE_INDEX \notin NodeIndex
  BY LinkFacts DEF ListParts, L
<1>2. /\ pc = "unlink" /\ pc' = "uncount"
      /\ info' = info /\ next_node_index' = next_node_index
      /\ node' = IF next_node_index = UNEXISTING_NODE_INDEX THEN node
                 ELSE [node EXCEPT
                         ![next_node_index].previous = UNEXISTING_NODE_INDEX]
  BY DEF UnlinkNewOldest
<1>3. next_node_index = Neighbour(1)
  BY <1>2 DEF ListParts, HeaderAgrees
<1>4. \A x, y \in 1 .. L : order[x] = order[y] => x = y
  BY DEF ListParts, NoRepetition
<1>5. ASSUME NEW k \in 1 .. L
      PROVE  /\ node'[order[k]].activity = node[order[k]].activity
             /\ node'[order[k]].status = node[order[k]].status
             /\ node'[order[k]].next = node[order[k]].next
             /\ node'[order[k]].previous = IF k = 1 THEN UNEXISTING_NODE_INDEX
                                             ELSE node[order[k]].previous
  <2>1. next_node_index = order[1] /\ (order[k] = order[1] <=> k = 1)
    BY <1>1, <1>3, <1>4 DEF Neighbour
  <2>2. /\ order[1] \in NodeIndex /\ order[k] \in NodeIndex
        /\ node \in [NodeIndex -> Node]
    BY <1>1 DEF TypeInv, ScheduleTypeOK
  <2>3. node' = [node EXCEPT ![order[1]].previous = UNEXISTING_NODE_INDEX]
    BY <1>1, <1>2, <2>1, <2>2
  <2>4. CASE k = 1
    BY <2>2, <2>3, <2>4 DEF Node
  <2>5. CASE k # 1
    <3>1. node'[order[k]] = node[order[k]]
      BY <2>1, <2>2, <2>3, <2>5
    <3> QED
      BY <3>1, <2>5
  <2> QED
    BY <2>4, <2>5
<1>6. order' \in Seq(NodeIndex) /\ NoRepetition' /\ Sorted'
  BY <1>1, <1>5 DEF ListParts, NoRepetition, Sorted
<1>7. Linked'
  <2> SUFFICES ASSUME NEW k \in 1 .. L
               PROVE  /\ Occupied(order[k])'
                      /\ node'[order[k]].next = ExpectedNext(k)'
                      /\ node'[order[k]].previous = ExpectedPrevious(k)'
    BY <1>1 DEF Linked
  <2>1. /\ Occupied(order[k])
        /\ node[order[k]].next = Neighbour(k + 1)
        /\ k # 1 => node[order[k]].previous = Neighbour(k - 1)
    BY <1>2 DEF ListParts, Linked, ExpectedNext, ExpectedPrevious
  <2>2. /\ Neighbour(k + 1)' = Neighbour(k + 1)
        /\ Neighbour(k - 1)' = Neighbour(k - 1)
        /\ k = 1 => Neighbour(k - 1) = UNEXISTING_NODE_INDEX
    BY <1>1 DEF Neighbour
  <2> QED
    BY <1>2, <1>5, <2>1, <2>2 DEF Occupied, ExpectedNext, ExpectedPrevious
<1>8. HeaderAgrees'
  BY <1>1, <1>2 DEF ListParts, HeaderAgrees, Neighbour
<1>9. NewNodeAside' /\ WalkPosition' /\ InsertionPoint'
  BY <1>2 DEF NewNodeAside, WalkPosition, InsertionPoint, PushSteps
<1> QED
  BY <1>6, <1>7, <1>8, <1>9 DEF ListParts

LEMMA UncountStep ==
    ASSUME TypeInv, ListParts, UncountActivity, UNCHANGED order
    PROVE  ListParts'
<1>1. L \in Nat /\ L' = L
  BY LinkFacts DEF ListParts, L
<1>2. /\ pc = "uncount" /\ pc' = "report" /\ node' = node
      /\ next_node_index' = next_node_index
      /\ info'.nb_activities = info.nb_activities - 1
      /\ info'.oldest = next_node_index
  BY DEF UncountActivity
<1>3. info.nb_activities = L + 1 /\ next_node_index = Neighbour(1)
  BY <1>2 DEF ListParts, HeaderAgrees
<1>4. order' \in Seq(NodeIndex) /\ NoRepetition' /\ Sorted'
  BY <1>2 DEF ListParts, NoRepetition, Sorted, L
<1>5. Linked'
  BY <1>1, <1>2
     DEF ListParts, Linked, ExpectedNext, ExpectedPrevious, Neighbour, Occupied
<1>6. HeaderAgrees'
  BY <1>1, <1>2, <1>3 DEF HeaderAgrees, Neighbour
<1>7. NewNodeAside' /\ WalkPosition' /\ InsertionPoint'
  BY <1>2 DEF NewNodeAside, WalkPosition, InsertionPoint, PushSteps
<1> QED
  BY <1>4, <1>5, <1>6, <1>7 DEF ListParts

LEMMA ResetStep ==
    ASSUME OrderedReset
    PROVE  ListParts'
<1>1. /\ pc' = "idle" /\ info' = ZeroInfo /\ order' = <<>>
  BY DEF OrderedReset, Reset, Return
<1>2. L' = 0 /\ order' \in Seq(NodeIndex)
  BY <1>1 DEF L
<1>3. NoRepetition' /\ Linked' /\ Sorted'
  BY <1>2 DEF NoRepetition, Linked, Sorted
<1>4. HeaderAgrees' /\ NewNodeAside' /\ WalkPosition' /\ InsertionPoint'
  BY <1>1, <1>2 DEF HeaderAgrees, NewNodeAside, WalkPosition, InsertionPoint,
                    PushSteps, ZeroInfo
<1> QED
  BY <1>2, <1>3, <1>4 DEF ListParts

-----------------------------------------------------------------------------
LEMMA OrderedNextSplit ==
    ASSUME OrderedFaultyNext
    PROVE  \/ Quiet(\/ PushRefused \/ PushFindsNoNode \/ WalkReadFails
                    \/ WalkFullLap \/ PopNothing \/ PopReadFails
                    \/ ReportNextDate \/ ReportReadFails)
           \/ \E t \in Time : Quiet(PopTooEarly(t))
           \/ \E a \in Activity : Quiet(GetAvailableNode(a))
           \/ Quiet(InsertInEmptySchedule) \/ Quiet(StartWalk)
           \/ Quiet(Walk) \/ Quiet(WriteNewNode)
           \/ Quiet(LinkNext) \/ Quiet(LinkPrevious)
           \/ OrderedCount
           \/ \E t \in Time : OrderedFree(t)
           \/ Quiet(UnlinkNewOldest) \/ Quiet(UncountActivity)
           \/ OrderedReset \/ OrderedInterrupt
BY DEF OrderedFaultyNext, OrderedNext, OrderedPushStart, OrderedPopStart,
       OrderedContinue, Quiet, PushStart, PopContinue

(* The auxiliary variables only watch: each step is one of the schedule. *)
LEMMA OrderedRefines ==
    ASSUME [OrderedFaultyNext]_orderVars
    PROVE  [FaultyNext]_scheduleVars
BY DEF OrderedFaultyNext, OrderedNext, OrderedPushStart, OrderedPopStart,
       OrderedContinue, OrderedCount, OrderedFree, OrderedReset,
       OrderedInterrupt, Quiet, orderVars, FaultyNext, Next, PushStart, PopStart,
       Continue, PushContinue

LEMMA ListStep ==
    ASSUME ListInv, [OrderedFaultyNext]_orderVars
    PROVE  ListInv'
<1>1. TypeInv /\ TypeInv'
  BY OrderedRefines, TypeStep DEF ListInv
<1>2. torn' \in BOOLEAN
  BY DEF ListInv, OrderedFaultyNext, OrderedNext, OrderedPushStart,
         OrderedPopStart, OrderedContinue, OrderedCount, OrderedFree,
         OrderedReset, OrderedInterrupt, Quiet, orderVars
<1> SUFFICES ASSUME ~torn' PROVE ListParts'
  BY <1>1, <1>2 DEF ListInv, ListIntact, ListParts
<1>3. CASE torn
  <2>1. OrderedReset
    BY <1>3, OrderedNextSplit
       DEF Quiet, OrderedCount, OrderedFree, OrderedInterrupt, orderVars
  <2> QED
    BY <2>1, ResetStep
<1>4. CASE ~torn
  <2>1. ListParts
    BY <1>4 DEF ListInv, ListIntact, ListParts
  <2>2. CASE UNCHANGED orderVars
    BY <2>1, <2>2 DEF ListParts, orderVars, scheduleVars, file, locals, output,
         NoRepetition, Linked, Sorted, HeaderAgrees, NewNodeAside, WalkPosition,
         InsertionPoint, L, Neighbour, ExpectedNext, ExpectedPrevious, Gap,
         NewNode, Occupied
  <2>3. CASE Quiet(\/ PushRefused \/ PushFindsNoNode \/ WalkReadFails
                   \/ WalkFullLap \/ PopNothing \/ PopReadFails
                   \/ ReportNextDate \/ ReportReadFails)
    <3>1. ~Exposed /\ UNCHANGED <<info, node, order>> /\ \E v : Return(v)
      BY <2>3 DEF Quiet, Exposed, file, PushRefused, PushFindsNoNode,
                  WalkReadFails, WalkFullLap, PopNothing, PopReadFails,
                  ReportNextDate, ReportReadFails
    <3> QED
      BY <1>1, <2>1, <3>1, ReturnKeepsList
  <2>4. ASSUME NEW t \in Time, Quiet(PopTooEarly(t)) PROVE ListParts'
    <3>1. ~Exposed /\ UNCHANGED <<info, node, order>> /\ \E v : Return(v)
      BY <2>4 DEF Quiet, Exposed, file, PopTooEarly
    <3> QED
      BY <1>1, <2>1, <3>1, ReturnKeepsList
  <2>5. ASSUME NEW a \in Activity, Quiet(GetAvailableNode(a)) PROVE ListParts'
    BY <1>1, <2>1, <2>5, GetAvailableNodeStep DEF Quiet
  <2>6. CASE Quiet(InsertInEmptySchedule)
    BY <1>1, <2>1, <2>6, InsertInEmptyStep DEF Quiet
  <2>7. CASE Quiet(StartWalk)
    BY <1>1, <2>1, <2>7, StartWalkStep DEF Quiet
  <2>8. CASE Quiet(Walk)
    BY <1>1, <2>1, <2>8, WalkStep DEF Quiet
  <2>9. CASE Quiet(WriteNewNode)
    BY <1>1, <2>1, <2>9, WriteNewNodeStep DEF Quiet
  <2>10. CASE Quiet(LinkNext)
    BY <1>1, <2>1, <2>10, LinkNextStep DEF Quiet
  <2>11. CASE Quiet(LinkPrevious)
    BY <1>1, <2>1, <2>11, LinkPreviousStep DEF Quiet
  <2>12. CASE OrderedCount
    BY <1>1, <1>4, <2>1, <2>12, OrderedCountStep
  <2>13. ASSUME NEW t \in Time, OrderedFree(t) PROVE ListParts'
    BY <1>1, <1>4, <2>1, <2>13, OrderedFreeStep
  <2>14. CASE Quiet(UnlinkNewOldest)
    BY <1>1, <2>1, <2>14, UnlinkStep DEF Quiet
  <2>15. CASE Quiet(UncountActivity)
    BY <1>1, <2>1, <2>15, UncountStep DEF Quiet
  <2>16. CASE OrderedReset
    BY <2>16, ResetStep
  <2>17. CASE OrderedInterrupt
    <3>1. ~Exposed /\ UNCHANGED <<info, node, order>> /\ \E v : Return(v)
      BY <2>17 DEF OrderedInterrupt, Interrupt, file
    <3> QED
      BY <1>1, <2>1, <3>1, ReturnKeepsList
  <2> QED
    BY <2>2, <2>3, <2>4, <2>5, <2>6, <2>7, <2>8, <2>9, <2>10, <2>11, <2>12,
       <2>13, <2>14, <2>15, <2>16, <2>17, OrderedNextSplit
<1> QED
  BY <1>3, <1>4

(* For every capacity and any number of interrupted calls: as long as no   *)
(* interruption fell between two writes that belong together, the file is  *)
(* the doubly linked, counted and sorted list of the scheduled activities. *)
THEOREM ListStaysIntact == OrderedFaultySpec => []ListIntact
<1>1. OrderInit => ListInv
  BY ListInit
<1>2. ListInv /\ [OrderedNext \/ OrderedInterrupt]_orderVars => ListInv'
  BY ListStep DEF OrderedFaultyNext
<1>3. ListInv => ListIntact
  BY DEF ListInv
<1> QED
  BY <1>1, <1>2, <1>3, PTL DEF OrderedFaultySpec

-----------------------------------------------------------------------------
(* No call interrupted since the last reset: no node leaks and no call     *)
(* fails.                                                                  *)

USE DEF Occupied

Undisturbed == /\ disturbed \in Nat
               /\ disturbed = 0 => ~torn

CleanInv == ListInv /\ Undisturbed /\ NoNodeLeaks /\ NoErrorWithoutFault

(* A schedule that is not full has a node to give. *)
LEMMA FreeNodeExists ==
    ASSUME TypeInv, ListParts, NoNodeLeaks, disturbed = 0, pc = "idle",
           info.nb_activities < MAXIMUM_ACTIVITIES_PER_SCHEDULE
    PROVE  \E i \in NodeIndex : ~Occupied(i)
<1> SUFFICES ASSUME \A i \in NodeIndex : Occupied(i)
             PROVE  FALSE
  OBVIOUS
<1>1. order \in [1 .. L -> NodeIndex] /\ L \in Nat
  BY DEF ListParts, L
<1>2. \A i \in NodeIndex : \E k \in 1 .. L : order[k] = i
  BY DEF NoNodeLeaks
<1>3. order \in Surjection(1 .. L, NodeIndex)
  BY <1>1, <1>2 DEF Surjection
<1>4. Cardinality(NodeIndex) <= L
  BY <1>1, <1>3, FS_SurjCardinalityBound DEF ExistsSurjection
<1>5. Cardinality(NodeIndex) = MAXIMUM_ACTIVITIES_PER_SCHEDULE
  <2>1. /\ 0 \in Int /\ MAXIMUM_ACTIVITIES_PER_SCHEDULE - 1 \in Int
        /\ MAXIMUM_ACTIVITIES_PER_SCHEDULE > 0
    BY ScheduleAssumption
  <2>2. ASSUME NEW b \in Int, 0 <= b
        PROVE  Cardinality(0 .. b) = b + 1
    <3>1. Cardinality(0 .. b) = IF 0 > b THEN 0 ELSE b - 0 + 1
      BY FS_Interval
    <3> QED
      BY <2>2, <3>1
  <2> QED
    BY <2>1, <2>2, ScheduleAssumption DEF NodeIndex
<1>6. info.nb_activities = L
  BY DEF ListParts, HeaderAgrees
<1> QED
  BY <1>1, <1>4, <1>5, <1>6, ScheduleAssumption

LEMMA OldestExists ==
    ASSUME TypeInv, ListParts, pc \in {"idle", "insert"},
           info.nb_activities # 0
    PROVE  /\ L > 0 /\ info.oldest = order[1]
           /\ info.oldest \in NodeIndex /\ Occupied(info.oldest)
           /\ info.oldest # UNEXISTING_NODE_INDEX
<1>1. /\ L \in Nat
      /\ \A k \in 1 .. L : order[k] \in NodeIndex
      /\ UNEXISTING_NODE_INDEX \notin NodeIndex
  BY LinkFacts DEF ListParts
<1>2. L > 0 /\ info.oldest = order[1]
  BY <1>1 DEF ListParts, HeaderAgrees
<1> QED
  BY <1>1, <1>2 DEF ListParts, Linked

(* The outcomes RET_ERROR of the code, one by one. *)
LEMMA NoCallFails ==
    ASSUME TypeInv, ListParts, NoNodeLeaks, disturbed = 0
    PROVE  /\ ~PushFindsNoNode /\ ~WalkReadFails /\ ~WalkFullLap
           /\ ~PopReadFails /\ ~ReportReadFails
<1>1. /\ L \in Nat
      /\ \A k \in 1 .. L : order[k] \in NodeIndex
      /\ UNEXISTING_NODE_INDEX \notin NodeIndex
      /\ info.nb_activities \in Nat
  BY LinkFacts DEF ListParts, TypeInv, ScheduleTypeOK, Info
<1>2. ~PushFindsNoNode
  BY FreeNodeExists DEF PushFindsNoNode
<1>3. ~WalkReadFails /\ ~PopReadFails
  BY OldestExists DEF WalkReadFails, PopReadFails
<1>4. pc = "walk" => nodes_visited < MAXIMUM_ACTIVITIES_PER_SCHEDULE
  BY <1>1, ScheduleAssumption
     DEF ListParts, WalkPosition, NewNodeAside, PushSteps, TypeInv,
         ScheduleTypeOK
<1>5. ~WalkFullLap
  BY <1>4, ScheduleAssumption DEF WalkFullLap, TypeInv, ScheduleTypeOK
<1>6. pc = "report" /\ info.nb_activities > 0 =>
         next_node_index # UNEXISTING_NODE_INDEX
  BY <1>1 DEF ListParts, HeaderAgrees, Neighbour
<1> QED
  BY <1>2, <1>3, <1>5, <1>6 DEF ReportReadFails

LEMMA ErrorStep ==
    ASSUME CleanInv, OrderedFaultyNext, disturbed' = 0
    PROVE  return_value' # "RET_ERROR"
<1>1. CASE OrderedReset
  BY <1>1 DEF OrderedReset, Reset, Return
<1>2. CASE OrderedInterrupt
  BY <1>2 DEF OrderedInterrupt, CleanInv, Undisturbed
<1>3. CASE ~OrderedReset /\ ~OrderedInterrupt
  <2>1. disturbed = 0
    BY <1>3, OrderedNextSplit DEF Quiet, OrderedCount, OrderedFree
  <2>2. /\ ~PushFindsNoNode /\ ~WalkReadFails /\ ~WalkFullLap
        /\ ~PopReadFails /\ ~ReportReadFails
    BY <2>1, NoCallFails
       DEF CleanInv, Undisturbed, ListInv, ListIntact, ListParts
  <2>3. return_value # "RET_ERROR"
    BY <2>1 DEF CleanInv, NoErrorWithoutFault
  <2> QED
    BY <1>3, <2>2, <2>3, OrderedNextSplit
       DEF Quiet, PushRefused, PopNothing, ReportNextDate, PopTooEarly,
           GetAvailableNode, InsertInEmptySchedule, StartWalk, Walk,
           WriteNewNode, LinkNext, LinkPrevious, OrderedCount, CountActivity,
           OrderedFree, FreeOldestNode, UnlinkNewOldest, UncountActivity,
           Return, output
<1> QED
  BY <1>1, <1>2, <1>3

(* A step that occupies no node and leaves the list alone.  The new node   *)
(* may only stop being aside by joining the list.                          *)
LEMMA NothingOccupied ==
    ASSUME NoNodeLeaks, disturbed = 0, UNCHANGED order,
           \A i \in NodeIndex : Occupied(i)' => Occupied(i),
           pc \in {"linkNext", "linkPrevious", "count"} =>
              /\ pc' \in {"linkNext", "linkPrevious", "count"}
              /\ new_node_index' = new_node_index
    PROVE  NoNodeLeaks'
BY DEF NoNodeLeaks, L

LEMMA LeakStep ==
    ASSUME CleanInv, OrderedFaultyNext, ListInv'
    PROVE  NoNodeLeaks'
<1> DEFINE Linking == {"linkNext", "linkPrevious", "count"}
<1> SUFFICES ASSUME disturbed' = 0 PROVE NoNodeLeaks'
  BY DEF NoNodeLeaks
<1>1. CASE OrderedReset
  BY <1>1 DEF OrderedReset, Reset, NoNodeLeaks, ZeroNode
<1>2. CASE OrderedInterrupt
  BY <1>2 DEF OrderedInterrupt, CleanInv, Undisturbed
<1>3. CASE ~OrderedReset /\ ~OrderedInterrupt
  <2>1. disturbed = 0
    BY <1>3, OrderedNextSplit DEF Quiet, OrderedCount, OrderedFree
  <2>2. TypeInv /\ ListParts /\ ~torn /\ NoNodeLeaks
    BY <2>1 DEF CleanInv, Undisturbed, ListInv, ListIntact, ListParts
  <2>3. CASE Quiet(\/ PushRefused \/ PushFindsNoNode \/ WalkReadFails
                   \/ WalkFullLap \/ PopNothing \/ PopReadFails
                   \/ ReportNextDate \/ ReportReadFails)
    <3>1. /\ UNCHANGED <<node, order>>
          /\ pc \notin Linking
      BY <2>3 DEF Quiet, file, PushRefused, PushFindsNoNode,
                  WalkReadFails, WalkFullLap, PopNothing, PopReadFails,
                  ReportNextDate, ReportReadFails
    <3> QED
      BY <2>1, <2>2, <3>1, NothingOccupied
  <2>4. ASSUME NEW t \in Time, Quiet(PopTooEarly(t)) PROVE NoNodeLeaks'
    <3>1. UNCHANGED <<node, order>> /\ pc \notin Linking
      BY <2>4 DEF Quiet, file, PopTooEarly
    <3> QED
      BY <2>1, <2>2, <3>1, NothingOccupied
  <2>5. ASSUME NEW a \in Activity, Quiet(GetAvailableNode(a)) PROVE NoNodeLeaks'
    <3>1. UNCHANGED <<node, order>> /\ pc \notin Linking
      BY <2>5 DEF Quiet, GetAvailableNode
    <3> QED
      BY <2>1, <2>2, <3>1, NothingOccupied
  <2>6. CASE Quiet(StartWalk) \/ Quiet(Walk) \/ Quiet(UncountActivity)
    <3>1. UNCHANGED <<node, order>> /\ pc \notin Linking
      BY <2>6 DEF Quiet, StartWalk, Walk, UncountActivity, file
    <3> QED
      BY <2>1, <2>2, <3>1, NothingOccupied
  <2>7. CASE Quiet(InsertInEmptySchedule) \/ Quiet(WriteNewNode)
    <3>1. /\ UNCHANGED <<order, new_node_index>> /\ pc' \in Linking
          /\ pc \notin Linking
          /\ \A i \in NodeIndex : i # new_node_index => node'[i] = node[i]
      BY <2>2, <2>7 DEF Quiet, InsertInEmptySchedule, WriteNewNode, TypeInv,
                        ScheduleTypeOK
    <3> QED
      BY <2>1, <2>2, <3>1 DEF NoNodeLeaks, L
  <2>8. CASE Quiet(LinkNext) \/ Quiet(LinkPrevious)
    <3>1. /\ UNCHANGED <<order, new_node_index>> /\ pc' \in Linking
          /\ \A i \in NodeIndex : node'[i].status = node[i].status
      BY <2>2, <2>8 DEF Quiet, LinkNext, LinkPrevious, TypeInv,
                        ScheduleTypeOK, Node
    <3> QED
      BY <2>1, <2>2, <3>1, NothingOccupied
  <2>9. CASE Quiet(UnlinkNewOldest)
    <3>1. /\ UNCHANGED order /\ pc \notin Linking
          /\ \A i \in NodeIndex : node'[i].status = node[i].status
      BY <2>2, <2>9 DEF Quiet, UnlinkNewOldest, TypeInv, ScheduleTypeOK, Node
    <3> QED
      BY <2>1, <2>2, <3>1, NothingOccupied
  <2>10. CASE OrderedCount
    <3>1. node' = node
      BY <2>10 DEF OrderedCount, CountActivity
    <3>2. PICK p \in 0 .. L :
             /\ L' = L + 1
             /\ \A k \in 1 .. L + 1 : order'[k] = IF k < p + 1 THEN order[k]
                                      ELSE IF k = p + 1 THEN new_node_index
                                      ELSE order[k - 1]
      BY <2>2, <2>10, CountInserts
    <3>3. L \in Nat
      BY <2>2, LinkFacts DEF ListParts
    <3> SUFFICES ASSUME NEW i \in NodeIndex, Occupied(i)
                 PROVE  \E k \in 1 .. L + 1 : order'[k] = i
      BY <3>1, <3>2 DEF NoNodeLeaks
    <3>4. CASE i = new_node_index
      BY <3>2, <3>3, <3>4
    <3>5. CASE i # new_node_index
      <4>1. PICK k \in 1 .. L : order[k] = i
        BY <2>1, <2>2, <3>5 DEF NoNodeLeaks
      <4>2. CASE k < p + 1
        BY <3>2, <3>3, <4>1, <4>2
      <4>3. CASE k >= p + 1
        <5>1. k + 1 \in 1 .. L + 1 /\ ~(k + 1 < p + 1) /\ k + 1 # p + 1
              /\ (k + 1) - 1 = k
          BY <3>3, <4>3
        <5>2. order'[k + 1] = order[(k + 1) - 1]
          BY <3>2, <5>1
        <5> QED
          BY <4>1, <5>1, <5>2
      <4> QED
        BY <3>3, <4>2, <4>3
    <3> QED
      BY <3>4, <3>5
  <2>11. ASSUME NEW t \in Time, OrderedFree(t) PROVE NoNodeLeaks'
    <3>1. /\ pc = "idle" /\ order' = Tail(order) /\ info.nb_activities # 0
          /\ node' = [node EXCEPT ![info.oldest] = ZeroNode]
      BY <2>2, <2>11 DEF OrderedFree, FreeOldestNode
    <3>2. /\ L \in Nat /\ L > 0 /\ info.oldest = order[1]
          /\ order[1] \in NodeIndex
      BY <2>2, <3>1, LinkFacts DEF ListParts, HeaderAgrees
    <3>3. /\ L' = L - 1
          /\ \A k \in 1 .. L - 1 : order'[k] = order[k + 1]
      BY <2>2, <3>1, <3>2, HeadTailProperties DEF ListParts, L
    <3> SUFFICES ASSUME NEW i \in NodeIndex, Occupied(i)'
                 PROVE  \E k \in 1 .. L - 1 : order'[k] = i
      BY <3>3 DEF NoNodeLeaks
    <3>4. i # order[1] /\ node'[i] = node[i]
      BY <2>2, <3>1, <3>2 DEF TypeInv, ScheduleTypeOK, ZeroNode
    <3>5. PICK k \in 1 .. L : order[k] = i
      BY <2>1, <2>2, <3>1, <3>4 DEF NoNodeLeaks
    <3>6. k # 1 /\ k - 1 \in 1 .. L - 1 /\ (k - 1) + 1 = k
      BY <3>2, <3>4, <3>5
    <3>7. order'[k - 1] = order[(k - 1) + 1]
      BY <3>3, <3>6
    <3> QED
      BY <3>5, <3>6, <3>7
  <2> QED
    BY <1>3, <2>3, <2>4, <2>5, <2>6, <2>7, <2>8, <2>9, <2>10, <2>11,
       OrderedNextSplit
<1> QED
  BY <1>1, <1>2, <1>3

LEMMA CleanStep ==
    ASSUME CleanInv, [OrderedFaultyNext]_orderVars
    PROVE  CleanInv'
<1>1. ListInv'
  BY ListStep DEF CleanInv
<1>2. CASE UNCHANGED orderVars
  BY <1>1, <1>2 DEF CleanInv, Undisturbed, NoNodeLeaks, NoErrorWithoutFault, L,
                    orderVars, scheduleVars, file, locals, output
<1>3. CASE OrderedFaultyNext
  <2>1. \/ UNCHANGED <<torn, disturbed>>
        \/ torn' = FALSE /\ disturbed' = 0
        \/ disturbed' = disturbed + 1
    BY <1>3, OrderedNextSplit
       DEF Quiet, OrderedCount, OrderedFree, OrderedReset, OrderedInterrupt
  <2>2. Undisturbed'
    BY <2>1 DEF CleanInv, Undisturbed
  <2>3. NoErrorWithoutFault'
    BY <1>3, ErrorStep DEF NoErrorWithoutFault
  <2> QED
    BY <1>1, <1>3, <2>2, <2>3, LeakStep DEF CleanInv
<1> QED
  BY <1>2, <1>3

LEMMA CleanInit == OrderInit => CleanInv
BY ListInit DEF OrderInit, Init, CleanInv, Undisturbed, NoNodeLeaks,
                NoErrorWithoutFault, ZeroNode

(* For every capacity: until a call is interrupted, a node is occupied only*)
(* if it is in the list or being added to it, so that every node comes     *)
(* back to the pool of free nodes when its activity is released.           *)
THEOREM NodesNeverLeak == OrderedFaultySpec => []NoNodeLeaks
<1>1. OrderInit => CleanInv
  BY CleanInit
<1>2. CleanInv /\ [OrderedNext \/ OrderedInterrupt]_orderVars => CleanInv'
  BY CleanStep DEF OrderedFaultyNext
<1>3. CleanInv => NoNodeLeaks
  BY DEF CleanInv
<1> QED
  BY <1>1, <1>2, <1>3, PTL DEF OrderedFaultySpec

(* For every capacity: until a call is interrupted, no call returns        *)
(* RET_ERROR; the search for a free node, the walk and the reads of the    *)
(* oldest node cannot fail.                                                *)
THEOREM ErrorsComeFromFaults == OrderedFaultySpec => []NoErrorWithoutFault
<1>1. OrderInit => CleanInv
  BY CleanInit
<1>2. CleanInv /\ [OrderedNext \/ OrderedInterrupt]_orderVars => CleanInv'
  BY CleanStep DEF OrderedFaultyNext
<1>3. CleanInv => NoErrorWithoutFault
  BY DEF CleanInv
<1> QED
  BY <1>1, <1>2, <1>3, PTL DEF OrderedFaultySpec

-----------------------------------------------------------------------------
(* The file implements the queue.                                          *)

QueueInv == ListInv /\ (torn => order = <<>>)

AbstractStep == [Abstract!Next]_(Abstract!vars)

LEMMA ContentsFacts ==
    ASSUME order \in Seq(NodeIndex)
    PROVE  /\ L \in Nat /\ Len(Contents) = L
           /\ \A k \in 1 .. L : Contents[k] = node[order[k]].activity
           /\ L = 0 => Contents = <<>>
           /\ Contents = <<>> => L = 0
<1>1. L \in Nat
  BY DEF L
<1>2. Contents = [k \in 1 .. L |-> node[order[k]].activity]
  BY DEF Contents
<1>3. Len(Contents) = L
  BY <1>1, <1>2
<1> QED
  BY <1>1, <1>2, <1>3

LEMMA SameContents ==
    ASSUME order' = order,
           \A k \in 1 .. L : node'[order[k]].activity = node[order[k]].activity
    PROVE  Contents' = Contents
BY DEF Contents, L

LEMMA Unseen ==
    ASSUME Contents' = Contents, UNCHANGED <<released, torn>>
    PROVE  AbstractStep
BY DEF AbstractStep, Abstract!vars

(* What the observer of the queue sees of a push: its last write. *)
LEMMA CountIsPush ==
    ASSUME TypeInv, ListParts, ~torn, OrderedCount
    PROVE  AbstractStep
<1>1. PICK p \in 0 .. L :
         /\ Gap(p)
         /\ order' \in Seq(NodeIndex) /\ L' = L + 1
         /\ \A k \in 1 .. L + 1 :
               order'[k] = IF k < p + 1 THEN order[k]
                           ELSE IF k = p + 1 THEN new_node_index
                           ELSE order[k - 1]
  BY CountInserts
<1>2. /\ L \in Nat /\ Len(Contents) = L
      /\ \A k \in 1 .. L : Contents[k] = node[order[k]].activity
  BY ContentsFacts DEF ListParts
<1>3. /\ pc = "count" /\ node' = node /\ released' = released /\ torn' = torn
  BY DEF OrderedCount, CountActivity
<1>4. /\ L < MAXIMUM_ACTIVITIES_PER_SCHEDULE
      /\ node[new_node_index].activity = activity
  BY <1>3 DEF ListParts, NewNodeAside, PushSteps, InsertionPoint, NewNode
<1>5. /\ \A k \in 1 .. p : Contents[k].timestamp <= activity.timestamp
      /\ \A k \in p + 1 .. L : Contents[k].timestamp > activity.timestamp
  <2>1. /\ \A k \in 1 .. p : node[order[k]].activity.timestamp <= activity.timestamp
        /\ \A k \in p + 1 .. L : node[order[k]].activity.timestamp > activity.timestamp
    BY <1>1 DEF Gap
  <2>2. \A k \in 1 .. p : k \in 1 .. L
    BY <1>2
  <2>3. \A k \in p + 1 .. L : k \in 1 .. L
    BY <1>2
  <2> QED
    BY <1>2, <2>1, <2>2, <2>3
<1>6. Contents' = [k \in 1 .. L + 1 |-> IF k <= p THEN Contents[k]
                                        ELSE IF k = p + 1 THEN activity
                                        ELSE Contents[k - 1]]
  <2>1. Contents' = [k \in 1 .. L + 1 |-> node[order'[k]].activity]
    BY <1>1, <1>3 DEF Contents
  <2>2. ASSUME NEW k \in 1 .. L + 1
        PROVE  node[order'[k]].activity = IF k <= p THEN Contents[k]
                                          ELSE IF k = p + 1 THEN activity
                                          ELSE Contents[k - 1]
    <3>1. CASE k <= p
      BY <1>1, <1>2, <3>1
    <3>2. CASE k = p + 1
      BY <1>1, <1>2, <1>4, <3>2
    <3>3. CASE k > p + 1
      <4>1. k - 1 \in 1 .. L /\ order'[k] = order[k - 1]
        BY <1>1, <1>2, <3>3
      <4> QED
        BY <1>1, <1>2, <3>3, <4>1
    <3> QED
      BY <1>1, <3>1, <3>2, <3>3
  <2> QED
    BY <2>1, <2>2
<1>7. activity \in Activity
  BY DEF TypeInv, ScheduleTypeOK
<1>8. Abstract!Push(activity)
  BY <1>2, <1>3, <1>4, <1>5, <1>6 DEF Abstract!Push
<1> QED
  BY <1>7, <1>8 DEF AbstractStep, Abstract!Next, Abstract!Activity, Activity

(* What it sees of a pop: the write that frees the oldest node. *)
LEMMA FreeIsPop ==
    ASSUME TypeInv, ListParts, ~torn, NEW t \in Time, OrderedFree(t)
    PROVE  AbstractStep
<1>1. /\ pc = "idle" /\ info.nb_activities # 0 /\ torn' = torn
      /\ node[info.oldest].activity.timestamp <= t
      /\ released' = node[info.oldest].activity
      /\ node' = [node EXCEPT ![info.oldest] = ZeroNode]
      /\ order' = Tail(order)
  BY DEF OrderedFree, FreeOldestNode
<1>2. /\ L \in Nat /\ Len(Contents) = L
      /\ \A k \in 1 .. L : Contents[k] = node[order[k]].activity
      /\ Contents = <<>> => L = 0
  BY ContentsFacts DEF ListParts
<1>3. L > 0 /\ info.oldest = order[1]
  BY <1>1, <1>2 DEF ListParts, HeaderAgrees
<1>4. /\ L' = L - 1
      /\ \A k \in 1 .. L - 1 : order'[k] = order[k + 1]
  BY <1>1, <1>2, <1>3, HeadTailProperties DEF ListParts, L
<1>5. ASSUME NEW k \in 1 .. L - 1
      PROVE  node'[order'[k]].activity = Contents[k + 1]
  <2>1. k + 1 \in 1 .. L /\ 1 \in 1 .. L /\ k + 1 # 1
    BY <1>2, <1>3
  <2>2. order[k + 1] # order[1]
    BY <2>1 DEF ListParts, NoRepetition
  <2>3. order[k + 1] \in NodeIndex
    BY <2>1, LinkFacts DEF ListParts
  <2>4. node'[order'[k]] = node[order[k + 1]]
    BY <1>1, <1>3, <1>4, <2>2, <2>3 DEF TypeInv, ScheduleTypeOK
  <2> QED
    BY <1>2, <2>1, <2>4
<1>6. Contents' = Tail(Contents)
  <2>1. Contents' = [k \in 1 .. L - 1 |-> node'[order'[k]].activity]
    BY <1>4 DEF Contents
  <2>2. Contents = [k \in 1 .. L |-> node[order[k]].activity]
    BY DEF Contents
  <2>3. Contents \in Seq(Activity)
    BY <1>2, <2>2, LinkFacts DEF ListParts, Node
  <2>4. Tail(Contents) = [k \in 1 .. L - 1 |-> Contents[k + 1]]
    <3>1. PICK q \in Seq(Activity) : q = Contents
      BY <2>3
    <3>2. q # <<>> /\ Len(q) = L
      BY <1>2, <1>3, <3>1
    <3>3. /\ Tail(q) \in Seq(Activity)
          /\ Len(Tail(q)) = L - 1
          /\ \A k \in 1 .. L - 1 : Tail(q)[k] = q[k + 1]
      BY <3>2, HeadTailProperties
    <3>4. Tail(q) = [k \in 1 .. Len(Tail(q)) |-> Tail(q)[k]]
      <4>1. Tail(q) \in [1 .. Len(Tail(q)) -> Activity]
        BY <3>3, LenProperties
      <4> QED
        BY <4>1
    <3> QED
      BY <3>1, <3>3, <3>4
  <2> QED
    BY <1>5, <2>1, <2>4
<1>7. /\ Contents # <<>>
      /\ Contents[1] = node[info.oldest].activity
  BY <1>2, <1>3, ContentsFacts DEF ListParts
<1>8. Abstract!Pop(t)
  BY <1>1, <1>6, <1>7 DEF Abstract!Pop
<1> QED
  BY <1>8 DEF AbstractStep, Abstract!Next

LEMMA NothingPopped ==
    ASSUME TypeInv, ListParts, ~torn,
           \/ Quiet(PopNothing)
           \/ \E t \in Time : Quiet(PopTooEarly(t))
    PROVE  AbstractStep
<1>1. /\ L \in Nat
      /\ \A k \in 1 .. L : Contents[k] = node[order[k]].activity
      /\ L = 0 => Contents = <<>>
  BY ContentsFacts DEF ListParts
<1>2. /\ UNCHANGED <<node, order, torn>> /\ released' = ZeroActivity
      /\ pc = "idle"
  BY DEF Quiet, PopNothing, PopTooEarly, file
<1>3. Contents' = Contents
  BY <1>2, SameContents
<1>4. CASE Quiet(PopNothing)
  <2>1. Contents = <<>>
    BY <1>1, <1>4 DEF Quiet, PopNothing, ListParts, HeaderAgrees
  <2>2. Abstract!PopNothing(0)
    BY <1>2, <1>3, <2>1 DEF Abstract!PopNothing, Abstract!Nothing, ZeroActivity
  <2> QED
    BY <2>2, ScheduleAssumption DEF AbstractStep, Abstract!Next
<1>5. ASSUME NEW t \in Time, Quiet(PopTooEarly(t)) PROVE AbstractStep
  <2>1. /\ info.nb_activities # 0
        /\ node[info.oldest].activity.timestamp > t
    BY <1>5 DEF Quiet, PopTooEarly
  <2>2. L > 0 /\ info.oldest = order[1]
    BY <1>1, <1>2, <2>1 DEF ListParts, HeaderAgrees
  <2>3. Contents[1].timestamp > t
    BY <1>1, <2>1, <2>2
  <2>4. Abstract!PopNothing(t)
    BY <1>2, <1>3, <2>3 DEF Abstract!PopNothing, Abstract!Nothing, ZeroActivity
  <2> QED
    BY <2>4 DEF AbstractStep, Abstract!Next
<1> QED
  BY <1>4, <1>5

(* The other steps of a call change no activity of the list. *)
LEMMA WorkIsUnseen ==
    ASSUME TypeInv, ListParts,
           \/ \E a \in Activity : Quiet(GetAvailableNode(a))
           \/ Quiet(InsertInEmptySchedule) \/ Quiet(StartWalk)
           \/ Quiet(Walk) \/ Quiet(WriteNewNode)
           \/ Quiet(LinkNext) \/ Quiet(LinkPrevious)
           \/ Quiet(UnlinkNewOldest) \/ Quiet(UncountActivity)
           \/ Quiet(ReportNextDate) \/ Quiet(ReportReadFails)
           \/ Quiet(PushRefused) \/ Quiet(PushFindsNoNode)
           \/ Quiet(WalkReadFails) \/ Quiet(WalkFullLap)
    PROVE  AbstractStep
<1>1. UNCHANGED <<order, torn, released>>
  BY DEF Quiet, GetAvailableNode, InsertInEmptySchedule, StartWalk, Walk,
         WriteNewNode, LinkNext, LinkPrevious, UnlinkNewOldest, UncountActivity,
         ReportNextDate, ReportReadFails, PushRefused, PushFindsNoNode,
         WalkReadFails, WalkFullLap, output
<1>2. \A k \in 1 .. L : order[k] \in NodeIndex
  BY LinkFacts DEF ListParts
<1>3. CASE Quiet(InsertInEmptySchedule) \/ Quiet(WriteNewNode)
  <2>1. /\ \A i \in NodeIndex : i # new_node_index => node'[i] = node[i]
        /\ pc \in PushSteps
    BY <1>3 DEF Quiet, InsertInEmptySchedule, WriteNewNode, TypeInv,
                ScheduleTypeOK, PushSteps
  <2>2. \A k \in 1 .. L : order[k] # new_node_index
    BY <2>1 DEF ListParts, NewNodeAside
  <2>3. Contents' = Contents
    BY <1>1, <1>2, <2>1, <2>2, SameContents
  <2> QED
    BY <1>1, <2>3, Unseen
<1>4. CASE ~(Quiet(InsertInEmptySchedule) \/ Quiet(WriteNewNode))
  <2>1. \A i \in NodeIndex : node'[i].activity = node[i].activity
    BY <1>4 DEF Quiet, GetAvailableNode, StartWalk, Walk, LinkNext,
         LinkPrevious, UnlinkNewOldest, UncountActivity, ReportNextDate,
         ReportReadFails, PushRefused, PushFindsNoNode, WalkReadFails,
         WalkFullLap, file, TypeInv, ScheduleTypeOK, Node
  <2>2. Contents' = Contents
    BY <1>1, <1>2, <2>1, SameContents
  <2> QED
    BY <1>1, <2>2, Unseen
<1> QED
  BY <1>3, <1>4

LEMMA ResetIsClear ==
    ASSUME TypeInv, torn \in BOOLEAN, OrderedReset
    PROVE  AbstractStep
<1>1. /\ order' = <<>> /\ torn' = FALSE /\ released' = released
      /\ released \in Activity
  BY DEF OrderedReset, Reset, TypeInv, ScheduleTypeOK
<1>2. Contents' = <<>>
  BY <1>1, ContentsFacts DEF L, Contents
<1>3. Abstract!Clear
  BY <1>1, <1>2 DEF Abstract!Clear, Abstract!Activity, Activity
<1> QED
  BY <1>3 DEF AbstractStep, Abstract!Next

LEMMA InterruptBreaks ==
    ASSUME torn \in BOOLEAN, torn => order = <<>>, OrderedInterrupt
    PROVE  AbstractStep
<1>1. /\ torn' = (torn \/ Exposed) /\ UNCHANGED <<node, released>>
      /\ order' = IF torn' THEN <<>> ELSE order
  BY DEF OrderedInterrupt, Interrupt, file
<1>2. CASE torn'
  <2>1. Contents' = <<>> /\ torn' = TRUE
    BY <1>1, <1>2 DEF L, Contents
  <2>2. Abstract!Break
    BY <1>2, <2>1 DEF Abstract!Break, Abstract!Nothing, ZeroActivity
  <2> QED
    BY <2>2 DEF AbstractStep, Abstract!Next
<1>3. CASE ~torn'
  <2>1. Contents' = Contents
    BY <1>1, <1>3, SameContents
  <2>2. torn' = torn
    BY <1>1, <1>3
  <2> QED
    BY <1>1, <2>1, <2>2, Unseen
<1> QED
  BY <1>2, <1>3

LEMMA QueueStep ==
    ASSUME QueueInv, [OrderedFaultyNext]_orderVars
    PROVE  QueueInv' /\ AbstractStep
<1>1. TypeInv /\ torn \in BOOLEAN /\ ListInv'
  BY ListStep DEF QueueInv, ListInv
<1>2. CASE UNCHANGED orderVars
  <2>1. UNCHANGED <<node, order, torn, released>>
    BY <1>2 DEF orderVars, scheduleVars, file, output
  <2> QED
    BY <1>1, <2>1, SameContents, Unseen DEF QueueInv
<1>3. CASE OrderedFaultyNext
  <2>1. torn' => order' = <<>>
    BY <1>1, <1>3, OrderedNextSplit
       DEF QueueInv, Quiet, OrderedCount, OrderedFree, OrderedReset,
           OrderedInterrupt
  <2>2. CASE OrderedReset
    BY <1>1, <2>1, <2>2, ResetIsClear DEF QueueInv
  <2>3. CASE OrderedInterrupt
    BY <1>1, <2>1, <2>3, InterruptBreaks DEF QueueInv
  <2>4. CASE torn /\ ~OrderedReset /\ ~OrderedInterrupt
    <3>1. torn' = torn
      BY <1>3, <2>4, OrderedNextSplit DEF Quiet, OrderedCount, OrderedFree
    <3>2. order = <<>> /\ order' = <<>>
      BY <2>1, <2>4, <3>1 DEF QueueInv
    <3>3. Contents' = Contents
      BY <3>2 DEF Contents, L
    <3>4. AbstractStep
      BY <2>4, <3>1, <3>3 DEF AbstractStep, Abstract!vars
    <3> QED
      BY <1>1, <2>1, <3>4 DEF QueueInv
  <2>5. CASE ~torn /\ ~OrderedReset /\ ~OrderedInterrupt
    <3>1. ListParts
      BY <2>5 DEF QueueInv, ListInv, ListIntact, ListParts
    <3>2. ~PopReadFails
      BY <1>1, <3>1, OldestExists DEF PopReadFails
    <3>3. AbstractStep
      BY <1>1, <1>3, <2>5, <3>1, <3>2, OrderedNextSplit, CountIsPush,
         FreeIsPop, NothingPopped, WorkIsUnseen DEF Quiet
    <3> QED
      BY <1>1, <2>1, <3>3 DEF QueueInv
  <2> QED
    BY <2>2, <2>3, <2>4, <2>5
<1> QED
  BY <1>2, <1>3

LEMMA QueueInit == OrderInit => QueueInv /\ Abstract!Init
<1> SUFFICES ASSUME OrderInit PROVE QueueInv /\ Abstract!Init
  OBVIOUS
<1>1. order = <<>> /\ torn = FALSE /\ released = ZeroActivity
  BY DEF OrderInit, Init
<1>2. Contents = <<>>
  BY <1>1 DEF Contents, L
<1> QED
  BY <1>1, <1>2, ListInit
     DEF QueueInv, Abstract!Init, Abstract!Nothing, ZeroActivity

(* For every capacity, timestamps and payloads, the calls on the file      *)
(* behave as pushes and pops of a queue of activities, released by         *)
(* increasing timestamp and first come first served among equal ones.  An  *)
(* interruption changes nothing of it, unless it falls between two exposed *)
(* writes: the queue is then lost until the next reset.                    *)
THEOREM FileImplementsQueue == OrderedFaultySpec => ImplementsQueue
<1>1. OrderInit => QueueInv /\ Abstract!Init
  BY QueueInit
<1>2. QueueInv /\ [OrderedNext \/ OrderedInterrupt]_orderVars
         => QueueInv' /\ [Abstract!Next]_(Abstract!vars)
  BY QueueStep DEF OrderedFaultyNext, AbstractStep
<1> QED
  BY <1>1, <1>2, PTL DEF OrderedFaultySpec, ImplementsQueue, Abstract!Spec
=============================================================================
