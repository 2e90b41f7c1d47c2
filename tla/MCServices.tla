------------------------------- MODULE MCServices ------------------------------
(***************************************************************************)
(* A file of two cells; TCs of two blocks that overlap or that pass the    *)
(* end of the file, of the TC, of the TM or of a word; two software images *)
(* and every kind of request of service 160.                               *)
(***************************************************************************)
EXTENDS Services

B(offset, data) == [offset |-> offset, data |-> data]
Wrapping        == [n \in 1..(Word - 1) |-> 0]
Load(f, blocks) == [subservice |-> 1, base |-> f, blocks |-> blocks]
Dump(f, blocks) == [subservice |-> 3, base |-> f, blocks |-> blocks]

MCFileTCs ==
    {Load("f", <<B(0, <<1>>), B(0, <<0, 1>>)>>),     \* two blocks overlap
     Load("f", <<B(0, <<0>>), B(1, <<1, 1>>)>>),     \* the file ends
     Load("f", <<B(1, <<0>>), B(0, <<1, 1, 1>>)>>),  \* the TC ends
     Dump("f", <<B(1, <<0>>), B(0, <<0>>)>>),
     Dump("f", <<B(0, <<0, 0>>), B(0, <<0, 0>>)>>),  \* the TM ends
     Load("f", <<B(0, Wrapping)>>),                  \* the sum of the header
     Dump("f", <<B(0, Wrapping)>>)}                  \* and the length wraps

S(ss, sized, state, id) == [subservice |-> ss, sized |-> sized, state |-> state, id |-> id]

MCSystemTCs ==
    {S(1, TRUE, "NOMINAL", 1), S(1, FALSE, "NOMINAL", 1),
     S(2, TRUE, "NOMINAL", 2), S(2, TRUE, "SAFE", 1),
     S(2, FALSE, "SAFE", 1), S(2, TRUE, "other", 1),
     S(17, TRUE, "other", 1), S(23, TRUE, "other", 1), S(37, TRUE, "other", 1)}
=============================================================================
