--------------------------- MODULE MCTcManagement ---------------------------
(* Small systems for TLC: two executing tasks, six telecommands of which   *)
(* the ground sends three.                                                 *)
EXTENDS TcManagement

CONSTANTS A, B, t1, t2, t3, t4, t5, t6

(* Three telecommands for one task, one for the other, one without a       *)
(* route; the last one is incorrect.                                       *)
MCRoute == [tc \in TC |-> IF tc \in {t1, t2, t3} THEN A
                         ELSE IF tc = t4 THEN B ELSE NoTask]

(* One that succeeds, one that may end without an error code, one that     *)
(* fails; t4 has no handler.                                               *)
MCOutcomes == [tc \in TC |-> IF tc = t2 THEN {"success", "silent"}
                            ELSE IF tc = t3 THEN {"failure"} ELSE {"success"}]
=============================================================================
