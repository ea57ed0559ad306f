------------------------------- MODULE Config -------------------------------
(***************************************************************************)
(* The configuration's way from a JSON text and the environment to what    *)
(* start() is called with: src/config.cc and startFromConfigText           *)
(* (src/gateway.cc).                                                       *)
(*                                                                         *)
(* A JSON object is a function from keys to values, a value a record       *)
(* [type, v]; a "float" v stands for v and a fraction.  The root of a text *)
(* is its "ingest" object or else the text itself.  Values of the          *)
(* environment have the types "int", a numeral stoi reads, "flag", a word  *)
(* for true or false, and "text".  Texts are model values.  Numbers are    *)
(* smaller than the program's: MaxPort, Word32 and Word64 stand for 65535, *)
(* 2^32 and 2^64.                                                          *)
(***************************************************************************)
EXTENDS Integers, Sequences, FiniteSets

CONSTANTS
  EmptyText,      \* the empty text
  NotAddresses,   \* the texts with a ':'
  NoArray,        \* in the place of a text's array of points it does not have
  LegacyId, LegacyGroup, LegacyPort, LegacyParser,  \* fallbackPoint's values
  Defaults,       \* the numbers and flags of a new IngestConfig
  MaxPort, Word32, Word64

Positive == {"healthWindowSec", "heartbeatPeriodMs", "defaultTimeoutMultiple", "cmdTimeoutMs"}
NotNegative == {"mergeWindowMs", "cmdMaxRetries"}
Unchecked == {"offlineCheckIntervalMs", "statsPushIntervalMs"}
Limits == {"queueLimit", "ledgerLimit", "commandLogLimit"}
Flags == {"enabled", "emitRawEvents"}
Ints == Positive \cup NotNegative \cup Unchecked

ASSUME ConfigAssumption ==
  /\ DOMAIN Defaults = Ints \cup Limits \cup Flags
  /\ \A k \in Ints \cup Limits : Defaults[k] \in Nat \ {0}
  /\ {MaxPort, Word32, Word64, LegacyPort} \subseteq Nat \ {0}
  /\ LegacyPort <= MaxPort /\ MaxPort < Word32 \div 2 /\ Word32 <= Word64
  /\ EmptyText \notin {LegacyId, LegacyGroup, LegacyParser} \cup NotAddresses

(* A value of a text or of the environment.                                 *)
IsSetting(x) ==
  /\ x = [type |-> x.type, v |-> x.v]
  /\ x.type \in {"int", "float"} => x.v \in Int
  /\ x.type \in {"bool", "flag"} => x.v \in BOOLEAN

-----------------------------------------------------------------------------
(* Reading values.                                                         *)

(* getIf for an int: numbers are cast, to 32 bits; true and false are       *)
(* numbers too; anything else leaves the default.                           *)
GotInt(j, k, default) ==
  IF k \notin DOMAIN j THEN default
  ELSE IF j[k].type \in {"int", "float"} THEN ((j[k].v + Word32 \div 2) % Word32) - Word32 \div 2
  ELSE IF j[k].type = "bool" THEN IF j[k].v THEN 1 ELSE 0
  ELSE default

(* getIf for a size_t, a bool and a string.                                 *)
GotSize(j, k, default) ==
  IF k \in DOMAIN j /\ j[k].type \in {"int", "float"} THEN j[k].v % Word64 ELSE default
GotBool(j, k, default) ==
  IF k \in DOMAIN j /\ j[k].type = "bool" THEN j[k].v ELSE default
GotText(j, k, default) ==
  IF k \in DOMAIN j /\ j[k].type = "text" THEN j[k].v ELSE default

(* The environment: envInt, envBool, envStr.  An empty variable is none,    *)
(* any other one is a text.                                                 *)
EnvInt(env, k, default) ==
  IF k \in DOMAIN env /\ env[k].type = "int" THEN env[k].v ELSE default
EnvBool(env, k, default) ==
  IF k \notin DOMAIN env THEN default
  ELSE IF env[k].type = "flag" THEN env[k].v
  ELSE IF env[k].type = "int" /\ env[k].v \in {0, 1} THEN env[k].v = 1
  ELSE default
EnvStr(env, k, default) == IF k \in DOMAIN env THEN env[k].v ELSE default

-----------------------------------------------------------------------------
(* fromJson.                                                               *)

pointFromJson(j) ==
  [id |-> GotText(j, "id", EmptyText), group |-> GotText(j, "group", EmptyText),
   port |-> GotInt(j, "port", 0), parserId |-> GotText(j, "parserId", EmptyText),
   enabled |-> GotBool(j, "enabled", TRUE), timeoutMultiple |-> GotInt(j, "timeoutMultiple", 0)]

(* PointConfig::validate; all it asks of a group is to have no ':'.         *)
PointValid(p) ==
  /\ p.id # EmptyText /\ p.port \in 1..MaxPort /\ p.parserId # EmptyText
  /\ p.group \notin NotAddresses

(* Bug: a point is only compared with the one before it.                    *)
SeenNeighbour(points, n) == {points[i] : i \in {n - 1} \cap DOMAIN points}

(* The points the loop of validate has seen before the n-th.                *)
Seen(points, n) == {points[i] : i \in 1..(n - 1)}

(* IngestConfig::validate finds nothing.                                    *)
validate(cfg) ==
  /\ \A n \in DOMAIN cfg.points :
       /\ PointValid(cfg.points[n])
       /\ \A p \in Seen(cfg.points, n) : p.id # cfg.points[n].id /\ p.port # cfg.points[n].port
  /\ \A k \in Positive : cfg.globals[k] > 0
  /\ \A k \in NotNegative : cfg.globals[k] >= 0

NewConfig == [globals |-> Defaults, points |-> <<>>]

(* The configuration fromJson makes of a root and its array of points; what *)
(* is no object in the array is passed over.  It is written over the old    *)
(* one whether it is valid or not.                                          *)
fromJson(cfg, root, array) ==
  [globals |-> [k \in DOMAIN cfg.globals |->
                  CASE k \in Flags -> GotBool(root, k, cfg.globals[k])
                    [] k \in Limits -> GotSize(root, k, cfg.globals[k])
                    [] OTHER -> GotInt(root, k, cfg.globals[k])],
   points |-> IF array = NoArray THEN cfg.points
              ELSE [n \in DOMAIN array |-> pointFromJson(array[n])]]

-----------------------------------------------------------------------------
(* The environment, and a configuration without points.                    *)

fallbackPoint(env) ==
  [id |-> LegacyId, group |-> EnvStr(env, "MAPAPP_UDP_GROUP", LegacyGroup),
   port |-> EnvInt(env, "MAPAPP_UDP_PORT", LegacyPort), parserId |-> LegacyParser,
   enabled |-> EnvBool(env, "MAPAPP_UDP_ENABLED", TRUE), timeoutMultiple |-> 0]

(* Bug: the environment's group and flag go to every point.                 *)
SamePortAny(env, p) == "MAPAPP_UDP_PORT" \in DOMAIN env

(* The point is the one the environment speaks of.                          *)
SamePort(env, p) == EnvInt(env, "MAPAPP_UDP_PORT", 0) = p.port
                    /\ "MAPAPP_UDP_PORT" \in DOMAIN env /\ env["MAPAPP_UDP_PORT"].type = "int"

Overridden(env, p) ==
  IF SamePort(env, p)
  THEN [p EXCEPT !.group = EnvStr(env, "MAPAPP_UDP_GROUP", @),
                 !.enabled = EnvBool(env, "MAPAPP_UDP_ENABLED", @)]
  ELSE p

WithFallback(cfg, env) ==
  IF cfg.points = <<>> THEN [cfg EXCEPT !.points = <<fallbackPoint(env)>>]
  ELSE [cfg EXCEPT !.points = [n \in DOMAIN @ |-> Overridden(env, @[n])]]

(* The variables DEVICE_INGEST_*, under the names of what they override;    *)
(* the queue limit only if positive.                                        *)
applyEnvOverrides(cfg, env) ==
  LET globals ==
        [k \in DOMAIN cfg.globals |->
           CASE k = "enabled" -> EnvBool(env, k, cfg.globals[k])
             [] k = "queueLimit" -> IF EnvInt(env, k, 0) > 0 THEN EnvInt(env, k, 0)
                                    ELSE cfg.globals[k]
             [] k \in Positive \cup NotNegative -> EnvInt(env, k, cfg.globals[k])
             [] OTHER -> cfg.globals[k]]
  IN WithFallback([cfg EXCEPT !.globals = globals], env)

(* startFromConfigText, up to the call of start: the environment counts for *)
(* the fallback only.                                                       *)
startFromConfigText(cfg, env) ==
  IF cfg.points = <<>> THEN [cfg EXCEPT !.points = <<fallbackPoint(env)>>] ELSE cfg

=============================================================================
