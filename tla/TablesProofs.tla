----------------------------- MODULE TablesProofs -----------------------------
(***************************************************************************)
(* The bisection of Tables is right for every table and every width of the *)
(* indices: what it answers is exact and it reads rows of the table only.  *)
(***************************************************************************)
EXTENDS Tables, TLAPS

USE TablesAssumption

-----------------------------------------------------------------------------
(* The inductive invariant. *)

(* The types of the variables. *)
TablesTypeOK ==
    /\ size \in 0 .. MaxSize /\ entries \in [Row -> Key]
    /\ dev_route \subseteq Row
    /\ pc \in {"check", "refused", "ready", "search"}
    /\ i \in 0 .. size /\ last_key \in Nat
    /\ key \in Nat
    /\ {left, right, cursor, entry} \subseteq 0 .. (Word - 1)
    /\ return_value \in {"RET_SUCCESSFUL", "RET_ERROR", "RET_INVALID_PARAM",
                         "RET_NOT_AVAILABLE"}

(* The first i rows were seen: their keys increase up to last_key. *)
Checked ==
    /\ i = 0 => last_key = 0
    /\ i > 0 => last_key = entries[i - 1]
    /\ \A j, k \in 0 .. (i - 1) : j < k => entries[j] < entries[k]
    /\ return_value = "RET_SUCCESSFUL" => dev_route = 0 .. (i - 1)

(* right is a row, or one below zero. *)
Below == right = Word - 1 /\ left = 0

(* The key can only be between left and right, where cursor is. *)
Narrowed ==
    /\ left <= size
    /\ right < size => left <= right + 1
    /\ right >= size => Below /\ \A j \in Row : entries[j] > key
    /\ \A j \in Row : j < left => entries[j] < key
    /\ right < size => \A j \in Row : j > right => entries[j] > key
    /\ Loops => left <= cursor /\ cursor <= right
    /\ return_value \in {"RET_SUCCESSFUL", "RET_NOT_AVAILABLE"}
    /\ return_value = "RET_SUCCESSFUL" => entry \in Row /\ entries[entry] = key

TablesInv ==
    /\ TablesTypeOK
    /\ pc = "check" => Checked
    /\ AcceptedIsUsable
    /\ pc = "search" => Narrowed

-----------------------------------------------------------------------------
(* Between two indices in order, the middle is between them. *)
LEMMA MiddleBetween ==
    ASSUME NEW l \in 0 .. (Word - 1), NEW r \in 0 .. (Word - 1), l <= r
    PROVE  l <= Middle(l, r) /\ Middle(l, r) <= r
BY DEF Middle, Unsigned

(* Out of order too, the result is an index. *)
LEMMA MiddleIsIndex ==
    ASSUME NEW l \in 0 .. (Word - 1), NEW r \in 0 .. (Word - 1)
    PROVE  Middle(l, r) \in 0 .. (Word - 1)
BY DEF Middle, Unsigned

LEMMA InitTablesInv == Init => TablesInv
BY DEF Init, TablesInv, TablesTypeOK, Checked, AcceptedIsUsable, Row

LEMMA CheckEntryKeeps ==
    ASSUME TablesInv, CheckEntry
    PROVE  TablesInv'
<1> USE DEF Row
<1>1. /\ pc = "check" /\ pc' = "check" /\ i < size /\ i' = i + 1
      /\ last_key' = entries[i] /\ entries[i] > last_key
      /\ return_value = "RET_SUCCESSFUL"
      /\ UNCHANGED <<size, entries, key, left, right, cursor, entry>>
  BY DEF CheckEntry, Increasing, table, searchVars
<1>2. /\ size \in 0 .. MaxSize /\ entries \in [Row -> Key] /\ i \in 0 .. size
      /\ last_key \in Nat /\ dev_route = 0 .. (i - 1) /\ Checked
  BY <1>1 DEF TablesInv, TablesTypeOK, Checked
<1>3. /\ i \in Row /\ entries[i] \in Nat
      /\ \A j \in 0 .. (i - 1) : entries[j] \in Nat
  <2>1. \A j \in Row : entries[j] \in Nat
    BY <1>2
  <2>2. i \in Row /\ \A j \in 0 .. (i - 1) : j \in Row
    BY <1>1, <1>2
  <2> QED
    BY <2>1, <2>2
<1>4. \A j \in 0 .. (i - 1) : entries[j] < entries[i]
  BY <1>1, <1>2, <1>3 DEF Checked
<1>5. TablesTypeOK'
  BY <1>1, <1>2, <1>3 DEF TablesInv, TablesTypeOK, CheckEntry
<1>6. Checked'
  <2>1. \A j, k \in 0 .. i : j < k => entries[j] < entries[k]
    BY <1>2, <1>4 DEF Checked
  <2>2. return_value' = "RET_SUCCESSFUL" => dev_route' = 0 .. i
    <3>1. 0 .. i = (0 .. (i - 1)) \union {i}
      BY <1>2
    <3>2. return_value' = "RET_SUCCESSFUL" => dev_route' = dev_route \union {i}
      BY DEF CheckEntry
    <3> QED
      BY <1>2, <3>1, <3>2
  <2> QED
    BY <1>1, <1>2, <2>1, <2>2 DEF Checked
<1> QED
  BY <1>1, <1>5, <1>6 DEF TablesInv, AcceptedIsUsable

LEMMA CheckEndsKeeps ==
    ASSUME TablesInv, RefuseEmpty \/ CheckEnds
    PROVE  TablesInv'
<1>1. CASE RefuseEmpty
  BY <1>1 DEF TablesInv, TablesTypeOK, RefuseEmpty, AcceptedIsUsable, Row,
              table, checkVars, searchVars
<1>2. CASE CheckEnds
  <2>1. TablesTypeOK'
    BY <1>2 DEF TablesInv, TablesTypeOK, CheckEnds, Row, table, checkVars, searchVars
  <2>2. AcceptedIsUsable'
    <3>1. CASE pc' = "ready"
      <4>1. i = size /\ return_value = "RET_SUCCESSFUL" /\ size > 0
        BY <1>2, <3>1 DEF CheckEnds
      <4> QED
        BY <1>2, <4>1 DEF TablesInv, TablesTypeOK, CheckEnds, Checked, Row, Ordered,
                          AcceptedIsUsable, table, checkVars
    <3>2. CASE pc' = "refused"
      BY <3>2 DEF AcceptedIsUsable
    <3> QED
      BY <1>2, <3>1, <3>2 DEF CheckEnds
  <2> QED
    BY <1>2, <2>1, <2>2 DEF TablesInv, CheckEnds
<1> QED
  BY <1>1, <1>2

LEMMA RouteSearchKeeps ==
    ASSUME TablesInv, NEW k \in Key, RouteSearch(k)
    PROVE  TablesInv'
<1> USE DEF Row
<1>1. /\ AcceptedIsUsable' /\ size > 0
      /\ size \in 0 .. MaxSize /\ entries \in [Row -> Key]
      /\ UNCHANGED <<size, entries>>
  BY DEF RouteSearch, TablesInv, TablesTypeOK, AcceptedIsUsable, Answered, Ordered,
         table, checkVars
<1>2. right' = size - 1 /\ left' = 0 /\ right' \in 0 .. (Word - 1)
  BY <1>1 DEF RouteSearch, Unsigned
<1>3. /\ cursor' = Middle(0, right') /\ 0 <= cursor' /\ cursor' <= right'
      /\ cursor' \in 0 .. (Word - 1)
  BY <1>2, MiddleBetween, MiddleIsIndex DEF RouteSearch
<1>4. TablesTypeOK'
  <2>1. /\ dev_route' = dev_route /\ i' = i /\ last_key' = last_key
        /\ pc' = "search" /\ key' \in Nat /\ entry' = 0
        /\ return_value' = "RET_NOT_AVAILABLE" /\ Row' = Row
    BY <1>1 DEF RouteSearch, checkVars
  <2>2. {left, right, cursor, entry}' \subseteq 0 .. (Word - 1)
    BY <1>2, <1>3, <2>1
  <2> QED
    BY <1>1, <2>1, <2>2 DEF TablesInv, TablesTypeOK
<1>5. Narrowed'
  BY <1>1, <1>2, <1>3 DEF RouteSearch, Narrowed, Below
<1> QED
  BY <1>1, <1>4, <1>5 DEF TablesInv, RouteSearch

LEMMA SearchStepKeeps ==
    ASSUME TablesInv, SearchStep
    PROVE  TablesInv'
<1> USE DEF Row
<1>1. /\ pc = "search" /\ pc' = "search" /\ Loops /\ Narrowed
      /\ UNCHANGED <<table, checkVars, key>>
  BY DEF SearchStep, FindEntry, GoRight, GoLeft, TablesInv
<1>2. /\ size \in 0 .. MaxSize /\ size > 0 /\ entries \in [Row -> Key]
      /\ key \in Nat /\ Ordered
      /\ left \in 0 .. (Word - 1) /\ right \in 0 .. (Word - 1)
  BY <1>1 DEF TablesInv, TablesTypeOK, AcceptedIsUsable
<1>3. /\ right < size /\ left <= cursor /\ cursor <= right /\ cursor \in Row
      /\ return_value = "RET_NOT_AVAILABLE"
  BY <1>1, <1>2 DEF Narrowed, Loops, TablesInv, TablesTypeOK
<1>4. AcceptedIsUsable'
  BY <1>1 DEF TablesInv, AcceptedIsUsable, Ordered, table, checkVars
<1>5. \A j \in Row : entries[j] \in Nat
  BY <1>2
<1>6. CASE FindEntry
  <2>1. TablesTypeOK'
    BY <1>1, <1>2, <1>3, <1>6 DEF FindEntry, TablesInv, TablesTypeOK, table, checkVars
  <2>2. Narrowed'
    BY <1>1, <1>2, <1>3, <1>6 DEF FindEntry, Narrowed, Loops, Below, table
  <2> QED
    BY <1>1, <1>4, <2>1, <2>2 DEF TablesInv
<1>7. CASE GoRight
  <2>1. left' = cursor + 1 /\ right' = right /\ left' \in 0 .. (Word - 1)
    BY <1>2, <1>3, <1>7 DEF GoRight, Unsigned
  <2>2. /\ cursor' \in 0 .. (Word - 1)
        /\ left' <= right' => left' <= cursor' /\ cursor' <= right'
    BY <1>2, <1>7, <2>1, MiddleBetween, MiddleIsIndex DEF GoRight
  <2>3. \A j \in Row : j < left' => entries[j] < key
    BY <1>2, <1>3, <1>5, <1>7, <2>1 DEF GoRight, Ordered
  <2>4. TablesTypeOK'
    BY <1>1, <1>2, <1>7, <2>1, <2>2 DEF GoRight, TablesInv, TablesTypeOK, table, checkVars
  <2>5. Narrowed'
    BY <1>1, <1>2, <1>3, <1>7, <2>1, <2>2, <2>3
       DEF GoRight, Narrowed, Loops, Below, table
  <2> QED
    BY <1>1, <1>4, <2>4, <2>5 DEF TablesInv
<1>8. CASE GoLeft
  <2>1. left' = left /\ right' = IF cursor = 0 THEN Word - 1 ELSE cursor - 1
    BY <1>2, <1>3, <1>8 DEF GoLeft, Unsigned
  <2>2. right' \in 0 .. (Word - 1)
    BY <1>2, <1>3, <2>1
  <2>3. /\ cursor' \in 0 .. (Word - 1)
        /\ left' <= right' => left' <= cursor' /\ cursor' <= right'
    BY <1>2, <1>8, <2>1, <2>2, MiddleBetween, MiddleIsIndex DEF GoLeft
  <2>4. \A j \in Row : j >= cursor => entries[j] > key
    BY <1>2, <1>3, <1>5, <1>8 DEF GoLeft, Ordered
  <2>5. TablesTypeOK'
    BY <1>1, <1>2, <1>8, <2>1, <2>2, <2>3
       DEF GoLeft, TablesInv, TablesTypeOK, table, checkVars
  <2>6. Narrowed'
    <3>1. /\ size' = size /\ entries' = entries /\ key' = key
          /\ return_value' = return_value /\ entry' = entry
      BY <1>1, <1>8 DEF GoLeft, table
    <3>2. CASE cursor = 0
      BY <1>1, <1>2, <1>3, <2>1, <2>3, <2>4, <3>1, <3>2 DEF Narrowed, Loops, Below
    <3>3. CASE cursor # 0
      BY <1>1, <1>2, <1>3, <2>1, <2>3, <2>4, <3>1, <3>3 DEF Narrowed, Loops, Below
    <3> QED
      BY <3>2, <3>3
  <2> QED
    BY <1>1, <1>4, <2>5, <2>6 DEF TablesInv
<1> QED
  BY <1>6, <1>7, <1>8 DEF SearchStep

LEMMA StutterKeeps ==
    ASSUME TablesInv, UNCHANGED vars
    PROVE  TablesInv'
BY DEF TablesInv, TablesTypeOK, Checked, AcceptedIsUsable, Ordered, Narrowed, Below,
       Loops, Row, vars, table, checkVars, searchVars

(* The invariant holds of every table, accepted or not. *)
THEOREM TablesInvariant == Spec => []TablesInv
<1>1. Init => TablesInv
  BY InitTablesInv
<1>2. TablesInv /\ [Next]_vars => TablesInv'
  BY CheckEntryKeeps, CheckEndsKeeps, RouteSearchKeeps, SearchStepKeeps, StutterKeeps
     DEF Next, CheckStep
<1> QED
  BY <1>1, <1>2, PTL DEF Spec

(* A table that passed the check of its order has increasing keys and all  *)
(* its devices open.                                                       *)
THEOREM AcceptedTablesAreUsable == Spec => []AcceptedIsUsable
<1>1. TablesInv => AcceptedIsUsable
  BY DEF TablesInv
<1> QED
  BY <1>1, TablesInvariant, PTL

(* The search reads no row outside the table. *)
THEOREM ReadsStayInside == Spec => []ReadsInside
<1>1. TablesInv => ReadsInside
  BY DEF TablesInv, TablesTypeOK, Narrowed, ReadsInside, Loops, Row
<1> QED
  BY <1>1, TablesInvariant, PTL

(* The search finds a key exactly when the table has it. *)
THEOREM SearchAnswersExactly == Spec => []SearchIsExact
<1>1. ASSUME TablesInv, Answered
      PROVE  IF return_value = "RET_SUCCESSFUL"
               THEN entry \in Row /\ entries[entry] = key
               ELSE \A j \in Row : entries[j] # key
  <2>1. Narrowed /\ TablesTypeOK /\ ~Loops
    BY <1>1 DEF TablesInv, Answered
  <2>2. CASE return_value = "RET_SUCCESSFUL"
    BY <2>1, <2>2 DEF Narrowed
  <2>3. CASE return_value # "RET_SUCCESSFUL"
    <3>1. \A j \in Row : entries[j] \in Nat
      BY <2>1 DEF TablesTypeOK
    <3>2. CASE right >= size
      BY <2>1, <3>1, <3>2 DEF Narrowed, TablesTypeOK, Row
    <3>3. CASE right < size
      <4>1. left = right + 1
        BY <2>1, <2>3, <3>3 DEF Narrowed, Loops, TablesTypeOK
      <4> QED
        BY <2>1, <2>3, <3>1, <3>3, <4>1 DEF Narrowed, TablesTypeOK, Row
    <3> QED
      BY <2>1, <2>3, <3>2, <3>3 DEF TablesTypeOK
  <2> QED
    BY <2>2, <2>3
<1>2. TablesInv => SearchIsExact
  BY <1>1 DEF SearchIsExact
<1> QED
  BY <1>2, TablesInvariant, PTL
=============================================================================
