---------------------------- MODULE MCStatsClock ----------------------------
(* StatsClock with one receive thread and two devices.                      *)
EXTENDS StatsClock

CONSTANTS r1, d1, d2

OneThread == {<<r1, d1>>, <<r1, d2>>}
ShortOnly == [period : {1}, multiple : {1}, limit : {1, 2}]
=============================================================================
