------------------------------ MODULE MCHealth ------------------------------
(* Health with three devices and two receive threads: one device both of    *)
(* them hear and two that only the second hears, so that a ledger of two    *)
(* gives up one of them for the third and keeps the other.  Time lasts      *)
(* beyond either timeout, the one a reload made longer included.            *)
EXTENDS Health

CONSTANTS r1, r2, d1, d2, d3

TwoThreads == {<<r1, d1>>, <<r2, d1>>, <<r2, d2>>, <<r2, d3>>}

ShortTwo == [period |-> 1, multiple |-> 1, limit |-> 2]
LongOne == [period |-> 2, multiple |-> 1, limit |-> 1]
ShortAndLong == {ShortTwo, LongOne}
=============================================================================
