---------------------------- MODULE MCNormalize ----------------------------
(***************************************************************************)
(* Every packet of up to MaxFields fields with the values in Values, grown *)
(* one field at a time, put through each parser, normalize and             *)
(* toEventData, and checked against what the contract says of the event    *)
(* (docs, chapter 2 and 5).                                                *)
(***************************************************************************)
EXTENDS Normalize

CONSTANTS
  Values,       \* the values each key may have
  Peers, Topics,
  Kinds, Ids,   \* what a host's parser may fill in
  deviceType,
  n1, n2, topic1,
  MaxFields     \* bound: fields of a packet

ASSUME MCNormalizeAssumption ==
  /\ \A k \in DOMAIN Values : \A x \in Values[k] : IsValue(x)
  /\ \A peer \in Peers : peer.port \in 0..(Wide - 1)

Digits(n) == [type |-> "digits", v |-> 2 * n]
Nested == [type |-> "nested", v |-> Source]
Null == [type |-> "blank", v |-> NoText]

TestValues ==
  [kind |-> {Text(UavPos), Text(TargetState), Text(n1), Nested},
   uavId |-> {Text(n1), Text(NoText), Whole(1)},
   deviceId |-> {Text(n2), Null},
   ts |-> {Whole(5), Whole(-1), Text(n1), Digits(7)},
   seq |-> {Whole(0), Real(3), Whole(Wide \div 2)},
   tsSource |-> {Text(n2)},
   lng |-> {Whole(180), Real(361), Digits(-180), Text(n1)},
   lat |-> {Whole(-90), Digits(91), Null},
   alt |-> {Whole(-1)},
   heading |-> {Real(-1), Whole(360), Whole(1)},
   speed |-> {Whole(-1), Real(1)},
   battery |-> {Whole(100), Whole(101), Real(1), Digits(-Wide)}]

TestPeers == {[text |-> NoText, ip |-> NoText, port |-> 0], [text |-> n1, ip |-> n2, port |-> 1]}
TestTopics == {NoText, topic1}
TestKinds == {NoText, UavPos, n1}
TestIds == {NoText, n2}

VARIABLES
  packet,       \* the bytes: a JSON object, or Malformed
  result        \* set of the one event made of them, empty before that

(* What handlePacket makes of one parsed event.                             *)
Result(parser, pe, peer, topic) ==
  LET ev == normalize(pe, peer) IN
  [parser |-> parser, pe |-> pe, ev |-> ev, stats |-> counted(pe, ev),
   name |-> resolveEventName(ev.kind, topic), data |-> toEventData(ev, pe, deviceType),
   peer |-> peer, topic |-> topic]

Init == packet \in {<<>>, Malformed} /\ result = {}

AddField ==
  /\ result = {} /\ packet # Malformed /\ Cardinality(DOMAIN packet) < MaxFields
  /\ \E k \in DOMAIN Values \ DOMAIN packet : \E v \in Values[k] :
       packet' = Over(packet, [key \in {k} |-> v])
  /\ UNCHANGED result

Handle ==
  /\ result = {}
  /\ \E peer \in Peers, topic \in Topics :
       \/ result' = {Result("legacy", pe, peer, topic) : pe \in legacyKind(packet)}
       \/ result' = {Result("raw", pe, peer, topic) : pe \in rawPassthrough(peer)}
       \/ \E kind \in Kinds, id \in Ids, through \in BOOLEAN :
            result' = {Result("host", pe, peer, topic) :
                         pe \in hostParser(packet, kind, id, through)}
  /\ UNCHANGED packet

Next == AddField \/ Handle

Spec == Init /\ [][Next]_<<packet, result>>

-----------------------------------------------------------------------------

(* The event has no value that the device did not send and none out of      *)
(* range: coordinates, battery and speed as sent, the heading as sent up to *)
(* whole turns and in [0, 360), a sequence number that is not negative; its *)
(* time says whose it is: a positive one the device sent, or that of        *)
(* arrival (ING-NRM-02, ING-NRM-03, contract chapter 2).                    *)
NothingInvented ==
  \A r \in result :
    LET sent(k) == {r.pe.fields[key].v : key \in {k} \cap DOMAIN r.pe.fields} IN
    /\ \A f \in DOMAIN r.ev.values : LET v == r.ev.values[f] IN
         /\ CASE f = "heading" -> v \in 0..719 /\ \E w \in sent(f) : (w - v) % 720 = 0
              [] f = "battery" -> v \in 0..100 /\ 2 * v \in sent(f)
              [] OTHER -> v \in sent(f)
         /\ f = "lng" => v >= -360 /\ v <= 360
         /\ f = "lat" => v >= -180 /\ v <= 180
         /\ f = "speed" => v >= 0
    /\ \A n \in r.ev.seq : n >= 0 /\ 2 * n \in sent("seq")
    /\ r.ev.ts > 0
    /\ 2 * r.ev.ts \in IF r.ev.tsSource = Device THEN sent("ts") ELSE {RecvAt}

(* A bad value costs its own field and nothing else: without the fields     *)
(* that were not taken the packet gives the same event, and each of them    *)
(* alone gives none; a coordinate that is lost is counted exactly if it was *)
(* a number (types.h:6, validate.cc:4).                                     *)
OnlyTheFieldIsLost ==
  \A r \in result :
    LET lost == (DOMAIN r.pe.fields \cap Placed) \ DOMAIN r.ev.values
        with(keys) == normalize([r.pe EXCEPT !.fields = Restrict(@, keys)], r.peer)
    IN /\ with(DOMAIN r.pe.fields \ lost) = r.ev
       /\ \A f \in lost : DOMAIN with({f}).values = {}
       /\ r.stats.dropped \cap {"lng", "lat"} =
            {f \in lost \cap {"lng", "lat"} : r.pe.fields[f].type \in {"int", "float", "digits"}}

(* What the front end gets: a packet of the legacy parser with every field  *)
(* as it came and under its kind's name, whatever the access point's topic, *)
(* and with no field added but those of the contract (ING-PRS-05); of any   *)
(* other kind the normalized event, whatever its parser passes through      *)
(* besides (contract chapter 2).                                            *)
DataAsPromised ==
  \A r \in result :
    /\ r.parser = "legacy" =>
         /\ Restrict(r.data, DOMAIN packet) = packet
         /\ DOMAIN r.data \ DOMAIN packet \subseteq
              {"ts", "deviceId", "seq", "tsSource", "source", "lng", "lat"}
         /\ r.name = IF packet["kind"].v \in {UavPos, LinkQuality}
                     THEN <<"telemetry", packet["kind"].v>> ELSE <<packet["kind"].v>>
    /\ r.ev.kind \notin LegacyKinds =>
         LET json == ToJson(r.ev, deviceType) IN
         /\ Restrict(r.data, DOMAIN json) = json
         /\ ~r.pe.passthrough => r.data = json

Naming(kind) == Range(idFieldsForKind(kind))

(* The peer stands for the device only if neither the parser nor any of the *)
(* kind's identifier fields names it, and then it is counted; no event is   *)
(* without an identifier (ING-NRM-01).                                      *)
PeerIsLastResort ==
  \A r \in result :
    LET named == ({r.pe.deviceId} \cup {r.pe.fields[k].v :
                    k \in {k \in Naming(r.pe.kind) : HasText(r.pe.fields, k)}}) \ {NoText}
    IN /\ r.stats.deviceIdFallback <=> named = {}
       /\ r.ev.deviceId \in IF named # {} THEN named ELSE {r.peer.text, Unknown} \ {NoText}

=============================================================================
