------------------------------ MODULE MCPus11 ------------------------------
(* Small instances of service 11 for TLC: two telecommands for the same    *)
(* date and a later one.                                                   *)
EXTENDS Pus11

CONSTANTS t1, t2, t3, t4

MCTC      == {t1, t2, t3, t4}
MCThreeTC == {t1, t2, t4}
MCDueDate == [tc \in TC |-> IF tc = t4 THEN 2 ELSE 1]
MCDueDateSoon == [tc \in TC |-> IF tc = t4 THEN 0 ELSE 1]

(* The faulty service under a clock that is never set back. *)
MCForwardSpec ==
    Pus11Init /\ [][FaultyStep /\ now' >= now]_pus11Vars
=============================================================================
