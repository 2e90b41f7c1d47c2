----------------------------- MODULE MCTcParser -----------------------------
(* Small uplinks for TLC, in cells: a packet id, a length, data. *)
EXTENDS TcParser

CONSTANTS short, long, corrupted, misrouted, noise

Id        == [header |-> TRUE, length |-> 3]
Length(n) == [header |-> FALSE, length |-> n]
Rest(n)   == [header |-> FALSE, length |-> n]

(* Two valid packets, one that has no route, noise whose second cell, read *)
(* as a length, is more than the array of the parser holds, and a          *)
(* corrupted packet in whose middle a header seems to start again, with a  *)
(* length that reaches far behind it.  All have an even number of cells    *)
(* and packet ids on odd cells: in a buffer of even size, none is on the   *)
(* last place.                                                             *)
MCCells == [p \in Packet |->
    IF p = long THEN <<Id, Length(4), Rest(3), Rest(2)>>
    ELSE IF p = noise THEN <<Rest(4), Rest(7)>>
    ELSE IF p = corrupted THEN <<Id, Length(2), Id, Length(6)>>
    ELSE <<Id, Length(2)>>]

(* A corrupted packet whose last cell passes for a packet id. *)
MCCellsEdge == [p \in Packet |->
    IF p = corrupted THEN <<Id, Length(2), Id>> ELSE <<Id, Length(2)>>]
=============================================================================
