----------------------------- MODULE MCTelemetry -----------------------------
(* Small systems for TLC: A writes its reports and its other TMs to two    *)
(* buffers, B both to the first of them.                                   *)
EXTENDS Telemetry

CONSTANTS A, B

MCBufferOf ==
    [p \in Producer |-> [kind \in Kind |-> IF p = A /\ kind = "specific" THEN 2 ELSE 1]]
=============================================================================
