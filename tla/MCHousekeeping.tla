---------------------------- MODULE MCHousekeeping ----------------------------
(* Small systems for TLC: a table of three lines and those InitS3 refuses. *)
EXTENDS Housekeeping

Entry(hkid, st, rate, ok) ==
    [hkid |-> hkid, status |-> st, collection_rate |-> rate, sound |-> ok]

MCHKTables ==
    { <<Entry(1, "ENABLE", 3, TRUE), Entry(3, "DISABLE", 1, TRUE),
         Entry(4, "ENABLE", 3, TRUE)>>,
      <<Entry(0, "ENABLE", 1, TRUE), Entry(3, "ENABLE", 1, TRUE)>>,
      <<Entry(3, "ENABLE", 1, TRUE), Entry(1, "ENABLE", 1, TRUE)>>,
      <<Entry(1, "ENABLE", 1, TRUE), Entry(3, "ENABLE", 0, TRUE)>>,
      <<Entry(1, "ENABLE", 1, TRUE), Entry(3, "ENABLE", 1, FALSE)>>,
      <<>> }

TC(subservice, items, more) ==
    [subservice |-> subservice, short |-> FALSE, items |-> items, more |-> more]
ID(hkid) == [hkid |-> hkid, rate |-> 1]

(* Identifiers 0 and 2: every line, and no line.  Pairs name a line twice, *)
(* two lines, and stop at either item.                                     *)
MCRequests ==
    {[subservice |-> 5, short |-> TRUE, items |-> <<>>, more |-> FALSE],
     TC(6, <<>>, FALSE), TC(5, <<ID(3), ID(1)>>, TRUE),
     TC(31, <<[hkid |-> 3, rate |-> 3], [hkid |-> 3, rate |-> 1]>>, FALSE),
     TC(31, <<[hkid |-> 1, rate |-> 1], [hkid |-> 0, rate |-> 1]>>, FALSE),
     TC(9, <<ID(3), ID(1)>>, FALSE), TC(9, <<ID(1), ID(0)>>, FALSE)}
    \union {TC(ss, <<ID(a)>>, FALSE) : ss \in {5, 6}, a \in {1, 3}}
    \union {TC(6, <<ID(a), ID(b)>>, FALSE) : a \in {0, 1}, b \in {2, 3}}
    \union {TC(5, <<ID(2), ID(0)>>, FALSE), TC(5, <<ID(0)>>, FALSE), TC(9, <<ID(1), ID(3), ID(1)>>, FALSE)}
    \union {TC(31, <<[hkid |-> a, rate |-> r]>>, FALSE) : a \in {1, 3}, r \in {0, 1, 3}}
=============================================================================
