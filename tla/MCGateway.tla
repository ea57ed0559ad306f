----------------------------- MODULE MCGateway -----------------------------
(* Gateway with two ids and two ports: configurations that swap ports,      *)
(* drop, disable, rename the topic of or name an unknown parser for a point.*)
EXTENDS Gateway

CONSTANTS c1, c2, a, b

Point(id, port, parser, enabled) ==
  [id |-> id, port |-> port, parserId |-> parser, enabled |-> enabled, topic |-> "old"]

A1 == Point(a, 1, "json", TRUE)
A2 == Point(a, 2, "json", TRUE)
A1Topic == [A1 EXCEPT !.topic = "new"]
A2Unknown == Point(a, 2, "none", TRUE)
B1 == Point(b, 1, "json", TRUE)
B2 == Point(b, 2, "json", TRUE)
B2Off == Point(b, 2, "json", FALSE)

MixedPoints == {A1, A1Topic, A2Unknown, B2}
MixedConfigs == {<<A1, B2>>, <<A1Topic>>, <<A2Unknown>>}

SwapPoints == {A1, A2, B1, B2, B2Off}
SwapConfigs == {<<A1, B2>>, <<A2, B1>>, <<A1, B2Off>>}
=============================================================================
