------------------------------ MODULE MCConfig ------------------------------
(***************************************************************************)
(* Every text of up to MaxKeys keys and MaxPoints points and every         *)
(* environment of up to MaxEnv variables, with the values in RootValues,   *)
(* PointValues and EnvValues, grown one at a time; the host reads the text *)
(* and then overrides from the environment, or leaves both to              *)
(* startFromConfigText.                                                    *)
(***************************************************************************)
EXTENDS Config

CONSTANTS
  RootValues, EnvValues,  \* the values each key or variable may have
  PointValues,            \* the points of an array
  id1, id2, parser1, group1, group2, colon1,
  MaxKeys, MaxPoints, MaxEnv  \* bounds

ASSUME MCConfigAssumption ==
  /\ \A k \in DOMAIN RootValues : \A x \in RootValues[k] : IsSetting(x)
  /\ \A k \in DOMAIN EnvValues : \A x \in EnvValues[k] : IsSetting(x)
  /\ \A p \in PointValues : \A k \in DOMAIN p : IsSetting(p[k])

Num(n) == [type |-> "int", v |-> n]
Float(n) == [type |-> "float", v |-> n]
Bool(x) == [type |-> "bool", v |-> x]
Str(s) == [type |-> "text", v |-> s]

TestDefaults == [k \in Ints \cup Limits \cup Flags |->
                   IF k = "enabled" THEN TRUE ELSE IF k = "emitRawEvents" THEN FALSE ELSE 5]

TestRootValues ==
  [heartbeatPeriodMs |-> {Num(0), Float(0), Num(Word32 + 7), Str(id1)},
   cmdMaxRetries |-> {Num(0), Num(-1), Bool(TRUE)},
   queueLimit |-> {Num(9), Bool(TRUE)},
   emitRawEvents |-> {Bool(TRUE), Num(1)}]

TestPointValues ==
  {[id |-> i, port |-> p, parserId |-> Str(parser1), group |-> Str(group1)] :
     i \in {Str(id1), Str(id2)}, p \in {Num(1), Num(2), Num(Word32 + 3)}}
  \cup {[id |-> Str(id1), port |-> Str(id1), parserId |-> Str(parser1)],
        [id |-> Str(id1), port |-> Num(5), parserId |-> Str(parser1), group |-> Str(colon1)],
        [id |-> Num(1), port |-> Num(3), parserId |-> Str(parser1)],
        [id |-> Str(LegacyId), port |-> Num(MaxPort + 1), parserId |-> Str(parser1)]}

TestEnvValues ==
  [MAPAPP_UDP_PORT |-> {Num(2), Str(id1)}, MAPAPP_UDP_GROUP |-> {Str(group2), Num(2)},
   MAPAPP_UDP_ENABLED |-> {Num(0), [type |-> "flag", v |-> FALSE], Str(id1)},
   heartbeatPeriodMs |-> {Num(8)}, queueLimit |-> {Num(-1), Num(6)}]

VARIABLES
  root, array,  \* the text
  env,          \* the environment
  stage,        \* "written", "accepted", "refused", "overridden", "starting"
  read,         \* the configuration fromJson has made
  cfg           \* the configuration as it is

vars == <<root, array, env, stage, read, cfg>>

With(f, k, v) == [key \in DOMAIN f \cup {k} |-> IF key = k THEN v ELSE f[key]]

ConfigInit ==
  /\ root = <<>> /\ array \in {NoArray, <<>>} /\ env = <<>>
  /\ stage = "written" /\ read = NewConfig /\ cfg = NewConfig

AddKey ==
  /\ Cardinality(DOMAIN root) < MaxKeys
  /\ \E k \in DOMAIN RootValues \ DOMAIN root : \E v \in RootValues[k] : root' = With(root, k, v)
  /\ UNCHANGED <<array, env>>

AddPoint ==
  /\ array # NoArray /\ Len(array) < MaxPoints
  /\ \E p \in PointValues : array' = Append(array, p)
  /\ UNCHANGED <<root, env>>

AddVariable ==
  /\ Cardinality(DOMAIN env) < MaxEnv
  /\ \E k \in DOMAIN EnvValues \ DOMAIN env : \E v \in EnvValues[k] : env' = With(env, k, v)
  /\ UNCHANGED <<root, array>>

Write ==
  /\ stage = "written"
  /\ AddKey \/ AddPoint \/ AddVariable
  /\ UNCHANGED <<stage, read, cfg>>

ReadText ==
  /\ stage = "written"
  /\ cfg' = fromJson(NewConfig, root, array) /\ read' = cfg'
  /\ stage' = IF validate(cfg') THEN "accepted" ELSE "refused"
  /\ UNCHANGED <<root, array, env>>

Override ==
  /\ stage = "accepted"
  /\ cfg' = applyEnvOverrides(cfg, env)
  /\ stage' = "overridden"
  /\ UNCHANGED <<root, array, env, read>>

StartFromText ==
  /\ stage = "accepted"
  /\ cfg' = startFromConfigText(cfg, env)
  /\ stage' = "starting"
  /\ UNCHANGED <<root, array, env, read>>

ConfigNext == Write \/ ReadText \/ Override \/ StartFromText

ConfigSpec == ConfigInit /\ [][ConfigNext]_vars

-----------------------------------------------------------------------------

Sound(c) ==
  /\ \A m, n \in DOMAIN c.points :
       m # n => c.points[m].id # c.points[n].id /\ c.points[m].port # c.points[n].port
  /\ \A n \in DOMAIN c.points : LET p == c.points[n] IN
       /\ p.id # EmptyText /\ p.parserId # EmptyText /\ p.port >= 1 /\ p.port <= MaxPort
       /\ p.group \notin NotAddresses
  /\ \A k \in Positive : c.globals[k] >= 1
  /\ \A k \in NotNegative : c.globals[k] >= 0

(* The configuration as it has been read, its numbers after the casts, is   *)
(* accepted exactly when no two of its points share an id or a port, every  *)
(* point has an id, a parser, a port within range and a group without ':',  *)
(* the window, heartbeat, multiple and command timeout are positive and     *)
(* merge window and retries not negative (config.h:19 and R6).  The         *)
(* intervals of the offline check and of the statistics are not looked at,  *)
(* and a port of the text too large for an int is judged by what is left.   *)
AcceptedIffSound ==
  /\ stage = "accepted" => Sound(cfg)
  /\ stage = "refused" => ~Sound(cfg)

(* The points that start are those of the text, of which the environment    *)
(* changes group and enabled of the one on the port it names and nothing    *)
(* else; or, if the text has none, the fallback alone (contract chapter 9,  *)
(* the comment at config.cc:232): the gateway never starts without.         *)
StartsThePoints ==
  stage \in {"overridden", "starting"} =>
    /\ cfg.points # <<>>
    /\ read.points = <<>> => Len(cfg.points) = 1 /\ cfg.points[1].id = LegacyId
    /\ read.points # <<>> =>
         /\ Len(cfg.points) = Len(read.points)
         /\ \A n \in DOMAIN read.points :
              LET was == read.points[n]
                  is == cfg.points[n]
              IN /\ [is EXCEPT !.group = was.group, !.enabled = was.enabled] = was
                 /\ is # was => /\ stage = "overridden" /\ "MAPAPP_UDP_PORT" \in DOMAIN env
                                /\ env["MAPAPP_UDP_PORT"] = Num(was.port)

=============================================================================
