-------------------------------- MODULE Tables --------------------------------
(***************************************************************************)
(* The routing and execution tables                                        *)
(* (components/utils/src/tables_managements.c): a table is accepted if its *)
(* keys increase, then searched by bisection on unsigned indices.          *)
(* ExecutionSearch, and GetLinenoFromHKID of pus3.c, are RouteSearch on    *)
(* another table; the initialisation of an execution table is that of a    *)
(* routing table none of whose devices fails to open.                      *)
(***************************************************************************)
EXTENDS Integers

CONSTANTS
    Word,     \* an index is an integer modulo Word (2^32 in the code)
    MaxSize,  \* the largest table considered
    Key       \* the keys of the tables and of the searches

ASSUME TablesAssumption ==
    /\ Word \in Nat /\ MaxSize \in Nat /\ 0 < MaxSize /\ MaxSize < Word
    /\ Key \subseteq Nat

VARIABLES
    size, entries,         \* the table: the keys of its rows
    dev_route,             \* the rows whose device is open
    pc,                    \* "check", "refused", "ready" or "search"
    i, last_key,           \* locals of InitRoutingTable
    key,                   \* the key searched
    left, right, cursor,   \* locals of RouteSearch
    entry,                 \* its output
    return_value

table      == <<size, entries>>
checkVars  == <<dev_route, i, last_key>>
searchVars == <<key, left, right, cursor, entry>>
vars       == <<table, checkVars, searchVars, pc, return_value>>

Row == 0 .. (size - 1)

Init ==
    /\ size \in 0 .. MaxSize
    /\ entries \in [Row -> Key]
    /\ dev_route = {}
    /\ pc = "check" /\ i = 0 /\ last_key = 0
    /\ key = 0 /\ left = 0 /\ right = 0 /\ cursor = 0 /\ entry = 0
    /\ return_value = "RET_SUCCESSFUL"

-----------------------------------------------------------------------------
(* InitRoutingTable *)

RefuseEmpty ==
    /\ pc = "check" /\ size = 0
    /\ pc' = "refused"
    /\ return_value' = "RET_INVALID_PARAM"
    /\ UNCHANGED <<table, checkVars, searchVars>>

(* Mutant: equal keys pass. *)
NotDecreasing == i < size /\ entries[i] >= last_key

Increasing == i < size /\ entries[i] > last_key

(* DeviceOpen may fail: the row is counted and the loop ends. *)
CheckEntry ==
    /\ pc = "check" /\ size > 0
    /\ Increasing /\ return_value = "RET_SUCCESSFUL"
    /\ \/ dev_route' = dev_route \union {i} /\ UNCHANGED return_value
       \/ return_value' = "RET_ERROR" /\ UNCHANGED dev_route
    /\ last_key' = entries[i]
    /\ i' = i + 1
    /\ UNCHANGED <<table, searchVars, pc>>

(* Not all rows were seen: the table is not ordered. *)
CheckEnds ==
    /\ pc = "check" /\ size > 0
    /\ ~(Increasing /\ return_value = "RET_SUCCESSFUL")
    /\ return_value' = IF i # size THEN "RET_ERROR" ELSE return_value
    /\ pc' = IF return_value' = "RET_SUCCESSFUL" THEN "ready" ELSE "refused"
    /\ UNCHANGED <<table, checkVars, searchVars>>

-----------------------------------------------------------------------------
(* RouteSearch, in a table that was accepted.                              *)

(* Modulo Word, for results at most one turn away from an index.           *)
Unsigned(n) == IF n < 0 THEN n + Word ELSE IF n >= Word THEN n - Word ELSE n

Middle(l, r) == Unsigned(l + Unsigned(r - l) \div 2)

(* Mutant: without the comparison with the size. *)
LoopsUnbounded == left <= right /\ return_value # "RET_SUCCESSFUL"

(* Mutant: the last row left is not looked at. *)
LoopsStrict == left < right /\ right < size /\ return_value # "RET_SUCCESSFUL"

Loops == left <= right /\ right < size /\ return_value # "RET_SUCCESSFUL"

Answered == pc = "search" /\ ~Loops

RouteSearch(k) ==
    /\ pc = "ready" \/ Answered
    /\ pc' = "search"
    /\ key' = k
    /\ left' = 0
    /\ right' = Unsigned(size - 1)
    /\ cursor' = Middle(0, right')
    /\ entry' = 0
    /\ return_value' = "RET_NOT_AVAILABLE"
    /\ UNCHANGED <<table, checkVars>>

FindEntry ==
    /\ pc = "search" /\ Loops
    /\ entries[cursor] = key
    /\ entry' = cursor
    /\ return_value' = "RET_SUCCESSFUL"
    /\ UNCHANGED <<table, checkVars, pc, key, left, right, cursor>>

(* Mutant: the row just read stays in the range. *)
GoRightFromCursor ==
    /\ pc = "search" /\ Loops
    /\ entries[cursor] < key
    /\ left' = cursor
    /\ cursor' = Middle(left', right)
    /\ UNCHANGED <<table, checkVars, pc, key, right, entry, return_value>>

GoRight ==
    /\ pc = "search" /\ Loops
    /\ entries[cursor] < key
    /\ left' = Unsigned(cursor + 1)
    /\ cursor' = Middle(left', right)
    /\ UNCHANGED <<table, checkVars, pc, key, right, entry, return_value>>

GoLeft ==
    /\ pc = "search" /\ Loops
    /\ entries[cursor] > key
    /\ right' = Unsigned(cursor - 1)
    /\ cursor' = Middle(left, right')
    /\ UNCHANGED <<table, checkVars, pc, key, left, entry, return_value>>

CheckStep  == RefuseEmpty \/ CheckEntry \/ CheckEnds
SearchStep == FindEntry \/ GoRight \/ GoLeft

Next == CheckStep \/ (\E k \in Key : RouteSearch(k)) \/ SearchStep

(* A loop once entered goes on. *)
Spec == Init /\ [][Next]_vars /\ WF_vars(SearchStep)

-----------------------------------------------------------------------------
(* A table that was accepted is not empty, its keys increase and every     *)
(* route has its device open, whatever the table and the failures were.    *)
Ordered == \A j, k \in Row : j < k => entries[j] < entries[k]

AcceptedIsUsable ==
    pc \in {"ready", "search"} => size > 0 /\ Ordered /\ dev_route = Row

(* No row outside the table is read, though right goes below zero and the  *)
(* distance of two indices may.                                            *)
ReadsInside == pc = "search" /\ Loops => cursor \in Row

(* The answer is the row with the key, or that there is none. *)
SearchIsExact ==
    Answered => IF return_value = "RET_SUCCESSFUL"
                  THEN entry \in Row /\ entries[entry] = key
                  ELSE \A j \in Row : entries[j] # key

(* Every search answers. *)
SearchEnds == (pc = "search" /\ Loops) ~> Answered
=============================================================================
