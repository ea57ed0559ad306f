------------------------------ MODULE MCPoints ------------------------------
(* Points with two access points and a packet of each kind.                 *)
EXTENDS Points, FiniteSets

CONSTANTS p1, p2, i1, q1, q2

Pair == [size |-> "fits", parse |-> "ok", events |-> 2]
Oversized == [size |-> "over", parse |-> "ok", events |-> 0]
Refused == [size |-> "fits", parse |-> "fails", events |-> 0]
Throwing == [size |-> "fits", parse |-> "throws", events |-> 0]
Empty == [size |-> "none", parse |-> "fails", events |-> 0]
Either == Permutations({q1, q2})

Kinds == {Pair, Oversized, Refused, Throwing, Empty}
=============================================================================
