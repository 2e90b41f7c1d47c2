------------------------------ MODULE MCTables ------------------------------
(* Every table of up to five rows, with indices of three bits, for TLC. *)
EXTENDS Tables
=============================================================================
