----------------------------- MODULE Normalize -----------------------------
(***************************************************************************)
(* One packet's way to the event the front end gets: the parsers           *)
(* (src/prs/parsers, and one of the host's), normalize and its field       *)
(* checks (src/nrm), NormalizedEvent::toJson (src/types.cc), the event     *)
(* name and the event data.                                                *)
(*                                                                         *)
(* A JSON object is a function from keys to values, a value a record       *)
(* [type, v].  Numbers are counted in halves, so that there are whole ones *)
(* and others; "digits" is a string that reads as a number, "text" one     *)
(* that does not, "nested" an array or object, "blank" null, true or       *)
(* false.  Of floating point only halves are modelled.  Texts are          *)
(* model values.  quality is copied as it is and left out.                 *)
(***************************************************************************)
EXTENDS Integers, Sequences, FiniteSets, Functions

CONSTANTS
  UavPos, LinkQuality, TargetState, NodeState,  \* the legacy kinds
  Raw,          \* the kind "raw"
  Server, Device, Unknown, NoText,  \* the texts "server", "device", "unknown", ""
  Digest,       \* what hexDigest makes of the packet
  Malformed,    \* a packet that is not JSON, or no object
  Source,       \* the event's source object: access point, peer, bytes
  RecvAt,       \* when the packet came, in halves like every number of an object
  Wide          \* 2^64: numbers of 64 bits are taken modulo it

ASSUME NormalizeAssumption ==
  /\ Cardinality({UavPos, LinkQuality, TargetState, NodeState, Raw}) = 5
  /\ Cardinality({Server, Device, Unknown, NoText}) = 4
  /\ RecvAt \in Nat \ {0} /\ RecvAt % 2 = 0
  /\ Wide \in Nat /\ Wide % 2 = 0 /\ RecvAt < Wide

(* A value as JSON has it: whole numbers end below 2^64.                    *)
IsValue(x) ==
  /\ x.type = "int" => x.v \in Int /\ x.v % 2 = 0 /\ x.v < 2 * Wide
  /\ x.type \in {"float", "digits"} => x.v \in Int

LegacyKinds == {UavPos, LinkQuality, TargetState, NodeState}
Placed == {"lng", "lat", "alt", "heading", "speed", "battery"}

Text(s) == [type |-> "text", v |-> s]
Whole(n) == [type |-> "int", v |-> 2 * n]
Real(v) == [type |-> "float", v |-> v]
HasText(j, k) == k \in DOMAIN j /\ j[k].type \in {"text", "digits"}

-----------------------------------------------------------------------------
(* Reading a field (src/nrm/validate.cc): the set of what it reads as,      *)
(* empty when the field counts as missing.                                  *)

(* An unsigned number of 64 bits taken for a signed one.                    *)
Signed(n) == IF n >= Wide \div 2 THEN n - Wide ELSE n

asDouble(j, k) ==
  {j[key].v : key \in {key \in {k} \cap DOMAIN j : j[key].type \in {"int", "float", "digits"}}}

(* Halves are no integers; a number too long for stoll or the cast is       *)
(* missing at either end (the cast's 9.2e18 is taken for 2^63), an unsigned *)
(* JSON number is cast whatever it is.                                      *)
asInt(j, k) ==
  LET Reads(val) == \/ val.type = "int"
                    \/ /\ val.type \in {"float", "digits"}
                       /\ val.v % 2 = 0 /\ val.v \in -Wide..(Wide - 1)
  IN {Signed(j[key].v \div 2) : key \in {key \in {k} \cap DOMAIN j : Reads(j[key])}}

asString(j, k) == {j[key].v : key \in {key \in {k} : HasText(j, key)}}

validLng(v) == v \in -360..360
validLat(v) == v \in -180..180
validBattery(n) == n \in 0..100

(* Bug: fmod without the correction for what is negative.                   *)
fmodOnly(v) == IF v < 0 THEN -((-v) % 720) ELSE v % 720

(* fmod and 360 more for what is negative, which is TLA+'s remainder.       *)
normalizeHeading(v) == v % 720

-----------------------------------------------------------------------------
(* The parsers: a set with the one event they make, empty for a refusal.    *)

(* The time stamp and sequence number of a packet, 0 and -1 if missing.     *)
StampOf(j) == IF \E n \in asInt(j, "ts") : n > 0 THEN CHOOSE n \in asInt(j, "ts") : TRUE ELSE 0
SeqOf(j) == IF \E n \in asInt(j, "seq") : n >= 0 THEN CHOOSE n \in asInt(j, "seq") : TRUE ELSE -1

legacyKind(packet) ==
  IF packet = Malformed \/ ~ \E s \in asString(packet, "kind") : s \in LegacyKinds THEN {}
  ELSE {[kind |-> packet["kind"].v, deviceId |-> NoText, ts |-> StampOf(packet),
         seq |-> SeqOf(packet), fields |-> packet, raw |-> FALSE, passthrough |-> FALSE]}

(* Any bytes but none at all; the port is in the fields if splitPeer finds  *)
(* one in the peer.                                                         *)
rawPassthrough(peer) ==
  LET fields == [kind |-> Text(Raw), peer |-> Text(peer.text), ip |-> Text(peer.ip),
                 port |-> Whole(peer.port), bytes |-> Whole(1), payload |-> Text(Digest)]
  IN {[kind |-> Raw, deviceId |-> NoText, ts |-> 0, seq |-> -1, raw |-> TRUE,
       passthrough |-> TRUE,
       fields |-> IF peer.port > 0 THEN fields
                  ELSE Restrict(fields, DOMAIN fields \ {"port"})]}

(* A parser of the host may fill in everything (include/.../parser.h).      *)
hostParser(packet, kind, id, passthrough) ==
  IF packet = Malformed THEN {}
  ELSE {[kind |-> kind, deviceId |-> id, ts |-> StampOf(packet), seq |-> SeqOf(packet),
         fields |-> packet, raw |-> FALSE, passthrough |-> passthrough]}

-----------------------------------------------------------------------------
(* normalize (src/nrm/normalize.cc).                                        *)

idFieldsForKind(kind) ==
  IF kind \in LegacyKinds
  THEN <<CASE kind = UavPos -> "uavId" [] kind = LinkQuality -> "linkId"
           [] kind = TargetState -> "targetId" [] kind = NodeState -> "nodeId",
         "deviceId", "id">>
  ELSE <<"deviceId", "uavId", "nodeId", "targetId", "linkId", "id">>

(* Bug: the first identifier field there is, were it empty.                 *)
ChosenPresent(pe) ==
  LET keys == idFieldsForKind(pe.kind)
      usable == {k \in DOMAIN keys : HasText(pe.fields, keys[k])}
  IN {pe.fields[keys[k]].v : k \in {k \in usable : \A m \in usable : k <= m}}

(* The device's identifier out of the fields: the first that is not empty.  *)
Chosen(pe) ==
  LET keys == idFieldsForKind(pe.kind)
      usable == {k \in DOMAIN keys :
                   HasText(pe.fields, keys[k]) /\ pe.fields[keys[k]].v # NoText}
  IN {pe.fields[keys[k]].v : k \in {k \in usable : \A m \in usable : k <= m}}

Fallback(peer) == IF peer.text = NoText THEN Unknown ELSE peer.text

(* Bug: coordinates are checked as a pair.                                  *)
LegalPaired(fields, f, v) ==
  /\ f \in {"lng", "lat"} => /\ \A w \in asDouble(fields, "lng") : validLng(w)
                             /\ \A w \in asDouble(fields, "lat") : validLat(w)
  /\ f = "speed" => v >= 0
  /\ f = "battery" => validBattery(v)

(* Whether the value read for a field is taken.                             *)
Legal(fields, f, v) ==
  /\ f = "lng" => validLng(v)
  /\ f = "lat" => validLat(v)
  /\ f = "speed" => v >= 0
  /\ f = "battery" => validBattery(v)

Read(fields, f) == IF f = "battery" THEN asInt(fields, f) ELSE asDouble(fields, f)
ReadableFields(fields) == {f \in Placed : Read(fields, f) # {}}
ValueOf(fields, f) == CHOOSE v \in Read(fields, f) : TRUE
KeptFields(fields) == {f \in ReadableFields(fields) : Legal(fields, f, ValueOf(fields, f))}

Stamped(pe) == IF pe.ts > 0 THEN [ts |-> pe.ts, source |-> Device]
               ELSE [ts |-> RecvAt \div 2, source |-> Server]

normalize(pe, peer) ==
  LET chosen == IF pe.deviceId # NoText THEN {pe.deviceId} ELSE Chosen(pe)
      id == IF chosen = {} THEN NoText ELSE CHOOSE s \in chosen : TRUE
      stamp == Stamped(pe)
  IN
  [kind |-> pe.kind, deviceId |-> IF id = NoText THEN Fallback(peer) ELSE id,
   ts |-> stamp.ts, tsSource |-> stamp.source,
   values |-> [f \in KeptFields(pe.fields) |->
                 IF f = "heading" THEN normalizeHeading(ValueOf(pe.fields, f))
                 ELSE ValueOf(pe.fields, f)],
   seq |-> IF pe.seq >= 0 THEN {pe.seq} ELSE {},
   raw |-> pe.raw]

(* Whether normalize counts a coordinate as dropped.                        *)
CoordDropped(fields, f) == f \in ReadableFields(fields) \ KeptFields(fields)

(* NormalizeStats: what normalize adds one to.  headingDropped is never     *)
(* raised, what asDouble returns is finite.                                 *)
counted(pe, ev) ==
  [dropped |-> {f \in {"lng", "lat"} : CoordDropped(pe.fields, f)}
                 \cup ({"battery"} \cap (ReadableFields(pe.fields) \ KeptFields(pe.fields))),
   headingFixed |-> /\ "heading" \in DOMAIN ev.values
                    /\ ev.values["heading"] # ValueOf(pe.fields, "heading"),
   tsFromServer |-> ev.tsSource = Server,
   deviceIdFallback |-> pe.deviceId = NoText /\ Chosen(pe) = {},
   seqMissing |-> ev.seq = {}]

-----------------------------------------------------------------------------
(* The event that goes into the queue.                                      *)

legacyEventName(kind) ==
  IF kind \in {UavPos, LinkQuality} THEN <<"telemetry", kind>> ELSE <<kind>>

resolveEventName(kind, topic) ==
  IF kind \in LegacyKinds THEN legacyEventName(kind)
  ELSE IF topic # NoText THEN <<topic>>
  ELSE <<"telemetry", IF kind = NoText THEN "event" ELSE kind>>

(* Two objects in one: what both have is as in the first.                   *)
Over(a, b) == [k \in DOMAIN a \cup DOMAIN b |-> IF k \in DOMAIN a THEN a[k] ELSE b[k]]

(* NormalizedEvent::toJson: keys only for what the event has.               *)
ToJson(ev, type) ==
  LET fixed == [deviceId |-> Text(ev.deviceId), deviceType |-> Text(type),
                kind |-> Text(ev.kind), ts |-> Whole(ev.ts), tsSource |-> Text(ev.tsSource),
                recvAt |-> [type |-> "int", v |-> RecvAt],
                source |-> [type |-> "nested", v |-> Source]]
      values == [f \in DOMAIN ev.values |->
                   IF f = "battery" THEN Whole(ev.values[f]) ELSE Real(ev.values[f])]
      seq == [k \in {"seq" : n \in ev.seq} |-> Whole(CHOOSE n \in ev.seq : TRUE)]
      raw == [k \in IF ev.raw THEN {"raw"} ELSE {} |-> Text(Digest)]
  IN Over(fixed, Over(values, Over(seq, raw)))

(* Bug: the normalized fields replace the packet's.                         *)
LegacyDataOver(ev, fields) ==
  Over([ts |-> Whole(ev.ts), deviceId |-> Text(ev.deviceId), tsSource |-> Text(ev.tsSource),
        source |-> [type |-> "nested", v |-> Source]], fields)

(* The packet's fields as they came, and what they lack.                    *)
LegacyData(ev, fields) ==
  LET coords == {"lng", "lat"} \cap DOMAIN ev.values
      added == [ts |-> Whole(ev.ts), deviceId |-> Text(ev.deviceId),
                tsSource |-> Text(ev.tsSource), source |-> [type |-> "nested", v |-> Source]]
      seq == [k \in {"seq" : n \in ev.seq} |-> Whole(CHOOSE n \in ev.seq : TRUE)]
  IN Over(fields, Over(added, Over(seq, [f \in coords |-> Real(ev.values[f])])))

(* The normalized object and what else the parser passes through, except    *)
(* what is an object or an array.                                           *)
PassedThrough(json, fields) ==
  Over(json, Restrict(fields, {k \in DOMAIN fields : fields[k].type # "nested"}))

toEventData(ev, pe, type) ==
  IF ev.kind \in LegacyKinds THEN LegacyData(ev, pe.fields)
  ELSE IF pe.passthrough THEN PassedThrough(ToJson(ev, type), pe.fields)
  ELSE ToJson(ev, type)

=============================================================================
