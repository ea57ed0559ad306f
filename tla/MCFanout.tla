------------------------------ MODULE MCFanout ------------------------------
(* Fanout with a receive thread that comes and goes, two devices and a       *)
(* queue limit that is none or two.                                         *)
EXTENDS Fanout

CONSTANTS r1, d1, d2

=============================================================================
