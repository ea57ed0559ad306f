---------------------------- MODULE InputProofs ----------------------------
(***************************************************************************)
(* What holds of every input.  Of a packet with whatever fields and values,*)
(* from whatever peer and through whichever parser (MCNormalize, whose     *)
(* Values, Peers, Topics, Kinds and Ids are parameters): the event made of *)
(* it has nothing invented, a bad value costs its own field only, the data *)
(* are as promised, the peer names the device as a last resort.  Of a      *)
(* configuration's text and environment (MCConfig, likewise): it is        *)
(* accepted exactly if it is sound, and what starts is what was read.      *)
(***************************************************************************)
EXTENDS MCNormalize, MCConfig, DataLemmas, SequenceTheorems, TLAPS

-----------------------------------------------------------------------------
(* The way of a packet.                                                     *)

(* A JSON object.                                                           *)
IsObject(f) == f = [k \in DOMAIN f |-> f[k]] /\ \A k \in DOMAIN f : IsValue(f[k])

(* What any of the parsers makes of a packet.                               *)
Parsed(pe) ==
  /\ DOMAIN pe = {"kind", "deviceId", "ts", "seq", "fields", "raw", "passthrough"}
  /\ IsObject(pe.fields)
  /\ pe.ts \in {0, StampOf(pe.fields)} /\ pe.seq \in {-1, SeqOf(pe.fields)}

(* The result is what normalize and what follows it make of that.           *)
Handled ==
  /\ packet # Malformed => IsObject(packet)
  /\ \A r \in result :
       /\ Parsed(r.pe)
       /\ r.ev = normalize(r.pe, r.peer) /\ r.stats = counted(r.pe, r.ev)
       /\ r.name = resolveEventName(r.ev.kind, r.topic)
       /\ r.data = toEventData(r.ev, r.pe, deviceType)
       /\ r.parser = "legacy" => packet # Malformed /\ r.pe \in legacyKind(packet)

LEMMA ResultIsHandled ==
  ASSUME NEW parser, NEW pe, NEW peer, NEW topic, Parsed(pe),
         NEW r, r = Result(parser, pe, peer, topic)
  PROVE  /\ Parsed(r.pe) /\ r.pe = pe /\ r.parser = parser
         /\ r.ev = normalize(r.pe, r.peer) /\ r.stats = counted(r.pe, r.ev)
         /\ r.name = resolveEventName(r.ev.kind, r.topic)
         /\ r.data = toEventData(r.ev, r.pe, deviceType)
<1>1. PICK ev : ev = normalize(pe, peer)
  OBVIOUS
<1>2. r = [parser |-> parser, pe |-> pe, ev |-> ev, stats |-> counted(pe, ev),
           name |-> resolveEventName(ev.kind, topic), data |-> toEventData(ev, pe, deviceType),
           peer |-> peer, topic |-> topic]
  BY <1>1 DEF Result
<1>3. /\ r.parser = parser /\ r.pe = pe /\ r.ev = ev /\ r.stats = counted(pe, ev)
      /\ r.name = resolveEventName(ev.kind, topic) /\ r.data = toEventData(ev, pe, deviceType)
      /\ r.peer = peer /\ r.topic = topic
  BY <1>2
<1>4. QED
  BY <1>1, <1>3

LEMMA LegacyIsParsed ==
  ASSUME NEW p, p # Malformed, IsObject(p), NEW pe \in legacyKind(p)
  PROVE  Parsed(pe) /\ pe.fields = p /\ pe.kind = p["kind"].v /\ pe.kind \in LegacyKinds
<1>1. /\ \E s \in asString(p, "kind") : s \in LegacyKinds
      /\ pe = [kind |-> p["kind"].v, deviceId |-> NoText, ts |-> StampOf(p),
               seq |-> SeqOf(p), fields |-> p, raw |-> FALSE, passthrough |-> FALSE]
  BY DEF legacyKind
<1>2. p["kind"].v \in LegacyKinds
  BY <1>1 DEF asString
<1>3. QED
  BY <1>1, <1>2 DEF Parsed

LEMMA HostIsParsed ==
  ASSUME NEW p, p # Malformed => IsObject(p), NEW kind, NEW id, NEW through,
         NEW pe \in hostParser(p, kind, id, through)
  PROVE  Parsed(pe)
<1>1. pe = [kind |-> kind, deviceId |-> id, ts |-> StampOf(p), seq |-> SeqOf(p),
            fields |-> p, raw |-> FALSE, passthrough |-> through]
  BY DEF hostParser
<1>2. IsObject(p)
  BY DEF hostParser
<1>3. QED
  BY <1>1, <1>2 DEF Parsed

LEMMA RawIsParsed ==
  ASSUME NEW peer, peer.port \in 0..(Wide - 1), NEW pe \in rawPassthrough(peer)
  PROVE  Parsed(pe)
<1>1. PICK fields : fields = [kind |-> Text(Raw), peer |-> Text(peer.text), ip |-> Text(peer.ip),
                              port |-> Whole(peer.port), bytes |-> Whole(1),
                              payload |-> Text(Digest)]
  OBVIOUS
<1>2. PICK f : f = IF peer.port > 0 THEN fields ELSE Restrict(fields, DOMAIN fields \ {"port"})
  OBVIOUS
<1>3. pe = [kind |-> Raw, deviceId |-> NoText, ts |-> 0, seq |-> -1, raw |-> TRUE,
            passthrough |-> TRUE, fields |-> f]
  BY <1>1, <1>2 DEF rawPassthrough
<1>4. IsValue(Whole(peer.port)) /\ IsValue(Whole(1)) /\ \A s : IsValue(Text(s))
  BY NormalizeAssumption DEF IsValue, Whole, Text
<1>5. IsObject(fields)
  <2>1. \A k \in DOMAIN fields : fields[k] \in {Whole(peer.port), Whole(1)}
                                  \/ \E s : fields[k] = Text(s)
    BY <1>1
  <2>2. fields = [k \in DOMAIN fields |-> fields[k]]
    BY <1>1
  <2>3. QED
    BY <1>4, <2>1, <2>2 DEF IsObject
<1>6. IsObject(f)
  BY <1>2, <1>5 DEF IsObject, Restrict
<1>7. QED
  BY <1>3, <1>6 DEF Parsed

(* A packet is an object, and what is made of it follows the code.          *)
LEMMA AlwaysHandled == Spec => []Handled
<1>1. Init => Handled
  <2> SUFFICES ASSUME Init PROVE Handled
    OBVIOUS
  <2>1. result = {} /\ (packet # Malformed => packet = <<>>)
    BY DEF Init
  <2>2. IsObject(<<>>)
    BY DEF IsObject
  <2>3. QED
    BY <2>1, <2>2 DEF Handled
<1>2. ASSUME Handled, AddField PROVE Handled'
  <2>1. result' = {} /\ packet # Malformed
    BY <1>2 DEF AddField
  <2>2. PICK k \in DOMAIN Values : \E v \in Values[k] :
               packet' = Over(packet, [key \in {k} |-> v])
    BY <1>2 DEF AddField
  <2>3. PICK v \in Values[k] : packet' = Over(packet, [key \in {k} |-> v])
    BY <2>2
  <2>4. IsValue(v)
    BY MCNormalizeAssumption
  <2>5. packet' = [x \in DOMAIN packet \cup {k} |-> IF x \in DOMAIN packet THEN packet[x] ELSE v]
    BY <2>3 DEF Over
  <2>6. PICK q : q = packet'
    OBVIOUS
  <2>7. IsObject(q)
    BY <1>2, <2>1, <2>4, <2>5, <2>6 DEF Handled, IsObject
  <2>8. IsObject(packet)'
    BY <2>6, <2>7 DEF IsObject, IsValue
  <2>9. QED
    BY <2>1, <2>8 DEF Handled
<1>3. ASSUME Handled, Handle PROVE Handled'
  <2>1. UNCHANGED packet /\ (packet # Malformed => IsObject(packet))
    BY <1>3 DEF Handle, Handled
  <2>2. ASSUME NEW r \in result'
        PROVE  \E parser, pe, peer, topic :
                 /\ r = Result(parser, pe, peer, topic) /\ Parsed(pe)
                 /\ parser = "legacy" => packet # Malformed /\ pe \in legacyKind(packet)
    <3>1. PICK peer \in Peers, topic \in Topics :
             \/ result' = {Result("legacy", pe, peer, topic) : pe \in legacyKind(packet)}
             \/ result' = {Result("raw", pe, peer, topic) : pe \in rawPassthrough(peer)}
             \/ \E kind \in Kinds, id \in Ids, through \in BOOLEAN :
                  result' = {Result("host", pe, peer, topic) :
                               pe \in hostParser(packet, kind, id, through)}
      BY <1>3 DEF Handle
    <3>2. CASE result' = {Result("legacy", pe, peer, topic) : pe \in legacyKind(packet)}
      <4>1. PICK pe \in legacyKind(packet) : r = Result("legacy", pe, peer, topic)
        BY <2>2, <3>2
      <4>2. packet # Malformed
        BY <4>1 DEF legacyKind
      <4>3. Parsed(pe)
        BY <2>1, <4>2, LegacyIsParsed
      <4>4. QED
        BY <4>1, <4>2, <4>3
    <3>3. CASE result' = {Result("raw", pe, peer, topic) : pe \in rawPassthrough(peer)}
      <4>1. PICK pe \in rawPassthrough(peer) : r = Result("raw", pe, peer, topic)
        BY <2>2, <3>3
      <4>2. Parsed(pe)
        BY MCNormalizeAssumption, RawIsParsed
      <4>3. QED
        BY <4>1, <4>2
    <3>4. ASSUME NEW kind \in Kinds, NEW id \in Ids, NEW through \in BOOLEAN,
                 result' = {Result("host", pe, peer, topic) :
                              pe \in hostParser(packet, kind, id, through)}
          PROVE  \E pe : r = Result("host", pe, peer, topic) /\ Parsed(pe)
      BY <2>1, <2>2, <3>4, HostIsParsed
    <3>5. QED
      BY <3>1, <3>2, <3>3, <3>4
  <2>3. ASSUME NEW r \in result'
        PROVE  /\ Parsed(r.pe)
               /\ r.ev = normalize(r.pe, r.peer) /\ r.stats = counted(r.pe, r.ev)
               /\ r.name = resolveEventName(r.ev.kind, r.topic)
               /\ r.data = toEventData(r.ev, r.pe, deviceType)
               /\ r.parser = "legacy" => packet # Malformed /\ r.pe \in legacyKind(packet)
    <3>1. PICK parser, pe, peer, topic :
                 /\ r = Result(parser, pe, peer, topic) /\ Parsed(pe)
                 /\ parser = "legacy" => packet # Malformed /\ pe \in legacyKind(packet)
      BY <2>2
    <3>2. QED
      BY <3>1, ResultIsHandled
  <2>4. QED
    BY <2>1, <2>3 DEF Handled
<1>4. Handled /\ UNCHANGED <<packet, result>> => Handled'
  BY DEF Handled
<1>5. QED
  BY <1>1, <1>2, <1>3, <1>4, PTL DEF Spec, Next

-----------------------------------------------------------------------------
(* Reading a field.                                                         *)

LEMMA DoubleRead ==
  ASSUME NEW j, NEW k
  PROVE  asDouble(j, k) = IF k \in DOMAIN j /\ j[k].type \in {"int", "float", "digits"}
                          THEN {j[k].v} ELSE {}
BY DEF asDouble

(* An integer that is read and not negative is as sent.                     *)
LEMMA IntRead ==
  ASSUME NEW j, IsObject(j), NEW k
  PROVE  /\ asInt(j, k) = {} \/ \E n : asInt(j, k) = {n}
         /\ \A n \in asInt(j, k) : k \in DOMAIN j /\ n \in Int /\ (n >= 0 => j[k].v = 2 * n)
<1>1. CASE k \notin DOMAIN j
  BY <1>1 DEF asInt
<1>2. CASE k \in DOMAIN j
  <2>1. PICK t, x : t = j[k].type /\ x = j[k].v
    OBVIOUS
  <2>2. asInt(j, k) = IF t = "int" \/ (t \in {"float", "digits"} /\ x % 2 = 0 /\ x \in -Wide..(Wide - 1))
                      THEN {Signed(x \div 2)} ELSE {}
    BY <1>2, <2>1 DEF asInt
  <2>3. /\ t = "int" => x \in Int /\ x % 2 = 0 /\ x < 2 * Wide
        /\ t \in {"float", "digits"} => x \in Int
    BY <1>2, <2>1 DEF IsObject, IsValue
  <2>4. Wide \in Nat /\ Wide % 2 = 0
    BY NormalizeAssumption
  <2>5. ASSUME t = "int" \/ (t \in {"float", "digits"} /\ x % 2 = 0 /\ x \in -Wide..(Wide - 1))
        PROVE  LET n == Signed(x \div 2) IN n \in Int /\ (n >= 0 => x = 2 * n)
    <3>1. x \in Int /\ x % 2 = 0 /\ x < 2 * Wide
      BY <2>3, <2>4, <2>5
    <3>2. PICK h \in Int : x = 2 * h /\ x \div 2 = h
      BY <3>1
    <3>3. h < Wide /\ Signed(h) \in Int /\ (Signed(h) >= 0 => Signed(h) = h)
      BY <2>4, <3>1, <3>2 DEF Signed
    <3>4. QED
      BY <3>2, <3>3
  <2>6. QED
    BY <1>2, <2>1, <2>2, <2>5
<1>3. QED
  BY <1>1, <1>2

(* Every field reads as one value at most, and the value taken is that.     *)
LEMMA ValueRead ==
  ASSUME NEW j, IsObject(j), NEW f \in ReadableFields(j)
  PROVE  /\ f \in Placed /\ f \in DOMAIN j
         /\ ValueOf(j, f) \in Int
         /\ f # "battery" => /\ ValueOf(j, f) = j[f].v
                             /\ j[f].type \in {"int", "float", "digits"}
         /\ f = "battery" /\ ValueOf(j, f) >= 0 => j[f].v = 2 * ValueOf(j, f)
<1>1. f \in Placed /\ ValueOf(j, f) \in Read(j, f)
  BY DEF ReadableFields, ValueOf
<1>2. CASE f = "battery"
  BY <1>1, <1>2, IntRead DEF Read
<1>3. CASE f # "battery"
  BY <1>1, <1>3, DoubleRead DEF Read, IsObject, IsValue
<1>4. QED
  BY <1>2, <1>3, <1>1

(* The number a packet is stamped with is positive or 0.                    *)
LEMMA StampAndSeq ==
  ASSUME NEW j, IsObject(j)
  PROVE  /\ StampOf(j) \in Nat
         /\ StampOf(j) > 0 => "ts" \in DOMAIN j /\ j["ts"].v = 2 * StampOf(j)
         /\ SeqOf(j) \in Int
         /\ SeqOf(j) >= 0 => "seq" \in DOMAIN j /\ j["seq"].v = 2 * SeqOf(j)
<1>1. /\ StampOf(j) \in Nat
      /\ StampOf(j) > 0 => "ts" \in DOMAIN j /\ j["ts"].v = 2 * StampOf(j)
  <2>1. CASE \E n \in asInt(j, "ts") : n > 0
    <3>1. PICK n : asInt(j, "ts") = {n}
      BY <2>1, IntRead
    <3>2. StampOf(j) = n /\ n > 0
      BY <2>1, <3>1 DEF StampOf
    <3>3. n \in Int /\ (n >= 0 => j["ts"].v = 2 * n) /\ "ts" \in DOMAIN j
      BY <3>1, IntRead
    <3>4. QED
      BY <3>2, <3>3
  <2>2. CASE ~ \E n \in asInt(j, "ts") : n > 0
    BY <2>2 DEF StampOf
  <2>3. QED
    BY <2>1, <2>2
<1>2. /\ SeqOf(j) \in Int
      /\ SeqOf(j) >= 0 => "seq" \in DOMAIN j /\ j["seq"].v = 2 * SeqOf(j)
  <2>1. CASE \E n \in asInt(j, "seq") : n >= 0
    <3>1. PICK n : asInt(j, "seq") = {n}
      BY <2>1, IntRead
    <3>2. SeqOf(j) = n /\ n >= 0
      BY <2>1, <3>1 DEF SeqOf
    <3>3. n \in Int /\ (n >= 0 => j["seq"].v = 2 * n) /\ "seq" \in DOMAIN j
      BY <3>1, IntRead
    <3>4. QED
      BY <3>2, <3>3
  <2>2. CASE ~ \E n \in asInt(j, "seq") : n >= 0
    BY <2>2 DEF SeqOf
  <2>3. QED
    BY <2>1, <2>2
<1>3. QED
  BY <1>1, <1>2

(* What normalize fills in.                                                 *)
Taken(fields) ==
  [f \in KeptFields(fields) |-> IF f = "heading" THEN normalizeHeading(ValueOf(fields, f))
                               ELSE ValueOf(fields, f)]

Named(pe) == IF pe.deviceId # NoText THEN {pe.deviceId} ELSE Chosen(pe)
OneOf(names) == IF names = {} THEN NoText ELSE CHOOSE s \in names : TRUE
NameOf(pe) == OneOf(Named(pe))

EventOf(pe, peer) ==
  [kind |-> pe.kind, deviceId |-> IF NameOf(pe) = NoText THEN Fallback(peer) ELSE NameOf(pe),
   ts |-> Stamped(pe).ts, tsSource |-> Stamped(pe).source, values |-> Taken(pe.fields),
   seq |-> IF pe.seq >= 0 THEN {pe.seq} ELSE {}, raw |-> pe.raw]

LEMMA EventFields ==
  ASSUME NEW pe, NEW peer, NEW ev, ev = normalize(pe, peer)
  PROVE  /\ ev.kind = pe.kind /\ ev.raw = pe.raw
         /\ ev.ts = Stamped(pe).ts /\ ev.tsSource = Stamped(pe).source
         /\ ev.seq = IF pe.seq >= 0 THEN {pe.seq} ELSE {}
         /\ ev.values = Taken(pe.fields)
         /\ ev.deviceId = IF NameOf(pe) = NoText THEN Fallback(peer) ELSE NameOf(pe)
<1>1. ev = EventOf(pe, peer)
  BY DEF normalize, EventOf, NameOf, OneOf, Named, Taken
<1>2. QED
  BY <1>1 DEF EventOf

LEMMA TextsDiffer == Server # Device /\ Unknown # NoText
<1>1. IsFiniteSet({}) /\ Cardinality({}) = 0
  BY FS_EmptySet
<1>2. ASSUME NEW S, IsFiniteSet(S), NEW x, NEW T, T = S \cup {x}
      PROVE  IsFiniteSet(T) /\ Cardinality(T) \in Nat /\ Cardinality(T) <= Cardinality(S) + 1
  <2>1. IsFiniteSet(T) /\ Cardinality(S) \in Nat
    BY <1>2, FS_AddElement, FS_CardinalityType
  <2>2. Cardinality(T) = Cardinality(S) \/ Cardinality(T) = Cardinality(S) + 1
    BY <1>2, FS_AddElement
  <2>3. QED
    BY <2>1, <2>2
<1>3. ASSUME NEW x, NEW y, NEW z, {Server, Device, Unknown, NoText} = {x, y, z} PROVE FALSE
  <2>1. IsFiniteSet({x}) /\ Cardinality({x}) = 1
    BY FS_Singleton
  <2>2. PICK A : A = {x} \cup {y}
    OBVIOUS
  <2>3. IsFiniteSet(A) /\ Cardinality(A) \in Nat /\ Cardinality(A) <= 2
    <3>1. PICK X : X = {x}
      OBVIOUS
    <3>2. IsFiniteSet(X) /\ Cardinality(X) = 1 /\ A = X \cup {y}
      BY <2>1, <2>2, <3>1
    <3>3. IsFiniteSet(A) /\ Cardinality(A) \in Nat /\ Cardinality(A) <= Cardinality(X) + 1
      BY <1>2, <3>2
    <3>4. QED
      BY <3>2, <3>3
  <2>4. PICK B : B = A \cup {z}
    OBVIOUS
  <2>5. Cardinality(B) \in Nat /\ Cardinality(B) <= 3
    <3>1. Cardinality(B) \in Nat /\ Cardinality(B) <= Cardinality(A) + 1
      BY <1>2, <2>3, <2>4
    <3>2. QED
      BY <2>3, <3>1
  <2>6. B = {Server, Device, Unknown, NoText}
    BY <1>3, <2>2, <2>4
  <2>7. QED
    BY <2>5, <2>6, NormalizeAssumption
<1>4. Server # Device
  <2>1. Server = Device => {Server, Device, Unknown, NoText} = {Server, Unknown, NoText}
    OBVIOUS
  <2>2. QED
    BY <1>3, <2>1
<1>5. Unknown # NoText
  <2>1. Unknown = NoText => {Server, Device, Unknown, NoText} = {Server, Device, NoText}
    OBVIOUS
  <2>2. QED
    BY <1>3, <2>1
<1>6. QED
  BY <1>4, <1>5

(* The remainder of a heading.                                              *)
LEMMA Heading ==
  ASSUME NEW w \in Int
  PROVE  normalizeHeading(w) \in 0..719 /\ (w - normalizeHeading(w)) % 720 = 0
BY DEF normalizeHeading

(* Whatever the packet, the parser and the peer: the event has no value the *)
(* device did not send and none out of range.                               *)
THEOREM NothingIsInvented == Spec => []NothingInvented
<1>1. Handled => NothingInvented
  <2> SUFFICES ASSUME Handled, NEW r \in result
      PROVE  LET sent(k) == {r.pe.fields[key].v : key \in {k} \cap DOMAIN r.pe.fields} IN
             /\ \A f \in DOMAIN r.ev.values : LET v == r.ev.values[f] IN
                  /\ CASE f = "heading" -> v \in 0..719 /\ \E w \in sent(f) : (w - v) % 720 = 0
                       [] f = "battery" -> v \in 0..100 /\ 2 * v \in sent(f)
                       [] OTHER -> v \in sent(f)
                  /\ f = "lng" => v >= -360 /\ v <= 360
                  /\ f = "lat" => v >= -180 /\ v <= 180
                  /\ f = "speed" => v >= 0
             /\ \A n \in r.ev.seq : n >= 0 /\ 2 * n \in sent("seq")
             /\ r.ev.ts > 0
             /\ 2 * r.ev.ts \in IF r.ev.tsSource = Device THEN sent("ts") ELSE {RecvAt}
    BY DEF NothingInvented
  <2> DEFINE sent(k) == {r.pe.fields[key].v : key \in {k} \cap DOMAIN r.pe.fields}
  <2>1. PICK j, ev, pe : j = r.pe.fields /\ ev = r.ev /\ pe = r.pe
    OBVIOUS
  <2>2. /\ IsObject(j) /\ j = pe.fields /\ pe.ts \in {0, StampOf(j)} /\ pe.seq \in {-1, SeqOf(j)}
        /\ ev = normalize(pe, r.peer)
    BY <2>1 DEF Handled, Parsed
  <2>3. /\ ev.ts = Stamped(pe).ts /\ ev.tsSource = Stamped(pe).source
        /\ ev.seq = IF pe.seq >= 0 THEN {pe.seq} ELSE {}
        /\ ev.values = Taken(j)
    BY <2>2, EventFields
  <2>4. \A k \in DOMAIN j : sent(k) = {j[k].v}
    BY <2>1
  <2> HIDE DEF sent
  <2>5. ASSUME NEW f \in DOMAIN ev.values, NEW v, v = ev.values[f]
        PROVE  /\ CASE f = "heading" -> v \in 0..719 /\ \E w \in sent(f) : (w - v) % 720 = 0
                    [] f = "battery" -> v \in 0..100 /\ 2 * v \in sent(f)
                    [] OTHER -> v \in sent(f)
               /\ f = "lng" => v >= -360 /\ v <= 360
               /\ f = "lat" => v >= -180 /\ v <= 180
               /\ f = "speed" => v >= 0
    <3>1. f \in ReadableFields(j) /\ Legal(j, f, ValueOf(j, f))
      BY <2>3 DEF Taken, KeptFields
    <3>2. PICK x : x = ValueOf(j, f)
      OBVIOUS
    <3>3. /\ f \in DOMAIN j /\ x \in Int /\ (f # "battery" => x = j[f].v)
          /\ f = "battery" /\ x >= 0 => j[f].v = 2 * x
      BY <2>2, <3>1, <3>2, ValueRead
    <3>4. v = IF f = "heading" THEN normalizeHeading(x) ELSE x
      BY <2>3, <2>5, <3>2 DEF Taken
    <3>5. sent(f) = {j[f].v}
      BY <2>4, <3>3
    <3>6. CASE f = "heading"
      BY <3>3, <3>4, <3>5, <3>6, Heading
    <3>7. CASE f = "battery"
      <4>1. x \in 0..100
        BY <3>1, <3>2, <3>7 DEF Legal, validBattery
      <4>2. QED
        BY <3>3, <3>4, <3>5, <3>7, <4>1
    <3>8. CASE f \notin {"heading", "battery"}
      <4>1. v = x /\ x \in sent(f)
        BY <3>3, <3>4, <3>5, <3>8
      <4>2. /\ f = "lng" => x \in -360..360
            /\ f = "lat" => x \in -180..180
            /\ f = "speed" => x >= 0
        BY <3>1, <3>2 DEF Legal, validLng, validLat
      <4>3. QED
        BY <3>3, <3>8, <4>1, <4>2
    <3>9. QED
      BY <3>6, <3>7, <3>8
  <2>6. ASSUME NEW n \in ev.seq PROVE n >= 0 /\ 2 * n \in sent("seq")
    <3>1. n = SeqOf(j) /\ n >= 0
      BY <2>2, <2>3, <2>6
    <3>2. QED
      BY <2>2, <2>4, <3>1, StampAndSeq
  <2>7. ev.ts > 0 /\ 2 * ev.ts \in IF ev.tsSource = Device THEN sent("ts") ELSE {RecvAt}
    <3>1. CASE pe.ts > 0
      <4>1. ev.ts = StampOf(j) /\ ev.tsSource = Device /\ ev.ts > 0
        BY <2>2, <2>3, <3>1 DEF Stamped
      <4>2. QED
        BY <2>2, <2>4, <4>1, StampAndSeq
    <3>2. CASE ~(pe.ts > 0)
      <4>1. ev.ts = RecvAt \div 2 /\ ev.tsSource = Server
        BY <2>3, <3>2 DEF Stamped
      <4>2. RecvAt \div 2 > 0 /\ 2 * (RecvAt \div 2) = RecvAt
        BY NormalizeAssumption
      <4>3. QED
        BY <4>1, <4>2, TextsDiffer
    <3>3. QED
      BY <3>1, <3>2
  <2>8. QED
    BY <2>1, <2>5, <2>6, <2>7, SMTT(30) DEF sent
<1>2. QED
  BY <1>1, AlwaysHandled, PTL

-----------------------------------------------------------------------------
(* Parts of a packet.                                                       *)

(* A field reads the same in any part of the packet that has it.            *)
LEMMA PartReads ==
  ASSUME NEW j, NEW K \in SUBSET DOMAIN j, NEW p, p = Restrict(j, K), NEW f
  PROVE  Read(p, f) = IF f \in K THEN Read(j, f) ELSE {}
<1>1. DOMAIN p = K /\ \A k \in K : p[k] = j[k]
  BY DEF Restrict
<1>2. asDouble(p, f) = IF f \in K THEN asDouble(j, f) ELSE {}
  BY <1>1, DoubleRead
<1>3. asInt(p, f) = IF f \in K THEN asInt(j, f) ELSE {}
  <2>1. CASE f \in K
    <3>1. p[f] = j[f] /\ {f} \cap DOMAIN p = {f} /\ {f} \cap DOMAIN j = {f}
      BY <1>1, <2>1
    <3>2. QED
      BY <2>1, <3>1 DEF asInt
  <2>2. CASE f \notin K
    BY <1>1, <2>2 DEF asInt
  <2>3. QED
    BY <2>1, <2>2
<1>4. QED
  BY <1>2, <1>3 DEF Read

(* So it is taken from the part if it is taken from the packet.             *)
LEMMA PartKeeps ==
  ASSUME NEW j, NEW K \in SUBSET DOMAIN j, NEW p, p = Restrict(j, K)
  PROVE  /\ KeptFields(p) = KeptFields(j) \cap K
         /\ \A f \in K : ValueOf(p, f) = ValueOf(j, f)
<1>1. \A f : Read(p, f) = IF f \in K THEN Read(j, f) ELSE {}
  BY PartReads
<1>2. \A f \in K : ValueOf(p, f) = ValueOf(j, f)
  BY <1>1 DEF ValueOf
<1>3. ReadableFields(p) = ReadableFields(j) \cap K
  BY <1>1 DEF ReadableFields
<1>4. \A f \in K : Legal(p, f, ValueOf(p, f)) <=> Legal(j, f, ValueOf(j, f))
  BY <1>2 DEF Legal
<1>5. QED
  BY <1>2, <1>3, <1>4 DEF KeptFields

(* The identifier fields are none of those that normalize places.           *)
LEMMA IdFields ==
  ASSUME NEW kind
  PROVE  LET keys == idFieldsForKind(kind) IN
         /\ \E n \in Nat : DOMAIN keys = 1..n
         /\ \A i \in DOMAIN keys : keys[i] \notin Placed
<1>1. PICK first : first = CASE kind = UavPos -> "uavId" [] kind = LinkQuality -> "linkId"
                             [] kind = TargetState -> "targetId" [] kind = NodeState -> "nodeId"
  OBVIOUS
<1>2. kind \in LegacyKinds => first \in {"uavId", "linkId", "targetId", "nodeId"}
  BY <1>1 DEF LegacyKinds
<1>3. PICK keys : keys = idFieldsForKind(kind)
  OBVIOUS
<1>4. \/ keys = <<first, "deviceId", "id">> /\ first \in {"uavId", "linkId", "targetId", "nodeId"}
      \/ keys = <<"deviceId", "uavId", "nodeId", "targetId", "linkId", "id">>
  BY <1>1, <1>2, <1>3 DEF idFieldsForKind
<1>5. \/ /\ DOMAIN keys = 1..3 /\ keys[1] \in {"uavId", "linkId", "targetId", "nodeId"}
         /\ keys[2] = "deviceId" /\ keys[3] = "id"
      \/ /\ DOMAIN keys = 1..6 /\ keys[1] = "deviceId" /\ keys[2] = "uavId" /\ keys[3] = "nodeId"
         /\ keys[4] = "targetId" /\ keys[5] = "linkId" /\ keys[6] = "id"
  BY <1>4
<1>6. (\E n \in Nat : DOMAIN keys = 1..n) /\ \A i \in DOMAIN keys : keys[i] \notin Placed
  <2>1. CASE /\ DOMAIN keys = 1..3 /\ keys[1] \in {"uavId", "linkId", "targetId", "nodeId"}
             /\ keys[2] = "deviceId" /\ keys[3] = "id"
    <3>1. \A i \in 1..3 : i = 1 \/ i = 2 \/ i = 3
      OBVIOUS
    <3>2. keys[1] \notin Placed /\ keys[2] \notin Placed /\ keys[3] \notin Placed
      BY <2>1 DEF Placed
    <3>3. QED
      BY <2>1, <3>1, <3>2
  <2>2. CASE /\ DOMAIN keys = 1..6 /\ keys[1] = "deviceId" /\ keys[2] = "uavId"
             /\ keys[3] = "nodeId" /\ keys[4] = "targetId" /\ keys[5] = "linkId" /\ keys[6] = "id"
    <3>1. \A i \in 1..6 : i = 1 \/ i = 2 \/ i = 3 \/ i = 4 \/ i = 5 \/ i = 6
      OBVIOUS
    <3>2. /\ keys[1] \notin Placed /\ keys[2] \notin Placed /\ keys[3] \notin Placed
          /\ keys[4] \notin Placed /\ keys[5] \notin Placed /\ keys[6] \notin Placed
      BY <2>2 DEF Placed
    <3>3. QED
      BY <2>2, <3>1, <3>2
  <2>3. QED
    BY <1>5, <2>1, <2>2
<1>7. QED
  BY <1>3, <1>6

(* The same identifier is chosen from a part that lacks only fields that    *)
(* normalize places.                                                        *)
LEMMA PartNames ==
  ASSUME NEW pe, NEW K \in SUBSET DOMAIN pe.fields, DOMAIN pe.fields \ K \subseteq Placed,
         NEW part, part.fields = Restrict(pe.fields, K), part.kind = pe.kind
  PROVE  Chosen(part) = Chosen(pe)
<1>1. PICK keys : keys = idFieldsForKind(pe.kind)
  OBVIOUS
<1>2. \A i \in DOMAIN keys : keys[i] \notin Placed
  BY <1>1, IdFields
<1>3. PICK f, g : f = pe.fields /\ g = part.fields
  OBVIOUS
<1>4. DOMAIN g = K /\ \A k \in K : g[k] = f[k]
  BY <1>3 DEF Restrict
<1>5. ASSUME NEW i \in DOMAIN keys
      PROVE  /\ HasText(g, keys[i]) <=> HasText(f, keys[i])
             /\ HasText(f, keys[i]) => g[keys[i]].v = f[keys[i]].v
  <2>1. keys[i] \in DOMAIN g <=> keys[i] \in DOMAIN f
    BY <1>2, <1>3, <1>4
  <2>2. QED
    BY <1>4, <2>1 DEF HasText
<1>6. PICK U : U = {k \in DOMAIN keys : HasText(f, keys[k]) /\ f[keys[k]].v # NoText}
  OBVIOUS
<1>7. U = {k \in DOMAIN keys : HasText(g, keys[k]) /\ g[keys[k]].v # NoText}
  BY <1>5, <1>6
<1>8. Chosen(pe) = {f[keys[k]].v : k \in {k \in U : \A m \in U : k <= m}}
  BY <1>1, <1>3, <1>6 DEF Chosen
<1>9. Chosen(part) = {g[keys[k]].v : k \in {k \in U : \A m \in U : k <= m}}
  BY <1>1, <1>3, <1>7 DEF Chosen
<1>10. \A k \in U : g[keys[k]].v = f[keys[k]].v
  BY <1>5, <1>6
<1>11. QED
  BY <1>8, <1>9, <1>10

(* A part that keeps everything that was taken gives the same event.        *)
LEMMA PartGivesTheSame ==
  ASSUME NEW pe, Parsed(pe), NEW peer, NEW K \in SUBSET DOMAIN pe.fields,
         DOMAIN pe.fields \ K \subseteq Placed \ KeptFields(pe.fields),
         NEW part, part = [pe EXCEPT !.fields = Restrict(pe.fields, K)]
  PROVE  normalize(part, peer) = normalize(pe, peer)
<1>1. /\ part.fields = Restrict(pe.fields, K) /\ part.kind = pe.kind
      /\ part.deviceId = pe.deviceId /\ part.ts = pe.ts /\ part.seq = pe.seq /\ part.raw = pe.raw
  BY DEF Parsed
<1>2. Named(part) = Named(pe)
  BY <1>1, PartNames DEF Named
<1>3. Stamped(part) = Stamped(pe)
  BY <1>1 DEF Stamped
<1>4. Taken(part.fields) = Taken(pe.fields)
  <2>1. PICK j, p : j = pe.fields /\ p = part.fields
    OBVIOUS
  <2>2. KeptFields(p) = KeptFields(j) \cap K /\ \A f \in K : ValueOf(p, f) = ValueOf(j, f)
    BY <1>1, <2>1, PartKeeps
  <2>3. KeptFields(j) \subseteq K
    <3>1. \A f \in KeptFields(j) : f \in DOMAIN j
      BY <2>1, ValueRead DEF KeptFields, Parsed
    <3>2. QED
      BY <2>1, <3>1
  <2>4. KeptFields(p) = KeptFields(j) /\ \A f \in KeptFields(j) : ValueOf(p, f) = ValueOf(j, f)
    BY <2>2, <2>3
  <2>5. Taken(p) = Taken(j)
    BY <2>4 DEF Taken
  <2>6. QED
    BY <2>1, <2>5
<1>5. NameOf(part) = NameOf(pe)
  BY <1>2 DEF NameOf
<1>6. /\ normalize(pe, peer) = EventOf(pe, peer)
      /\ normalize(part, peer) = EventOf(part, peer)
  BY DEF normalize, EventOf, NameOf, OneOf, Named, Taken
<1>7. QED
  BY <1>1, <1>3, <1>4, <1>5, <1>6 DEF EventOf

(* A bad value costs its own field and nothing else.                        *)
THEOREM OnlyTheFieldGoes == Spec => []OnlyTheFieldIsLost
<1>1. Handled => OnlyTheFieldIsLost
  <2> SUFFICES ASSUME Handled, NEW r \in result
      PROVE  LET lost == (DOMAIN r.pe.fields \cap Placed) \ DOMAIN r.ev.values
                 with(keys) == normalize([r.pe EXCEPT !.fields = Restrict(@, keys)], r.peer)
             IN /\ with(DOMAIN r.pe.fields \ lost) = r.ev
                /\ \A f \in lost : DOMAIN with({f}).values = {}
                /\ r.stats.dropped \cap {"lng", "lat"} =
                     {f \in lost \cap {"lng", "lat"} :
                        r.pe.fields[f].type \in {"int", "float", "digits"}}
    BY DEF OnlyTheFieldIsLost
  <2>1. PICK j, ev, pe : j = r.pe.fields /\ ev = r.ev /\ pe = r.pe
    OBVIOUS
  <2>2. /\ Parsed(pe) /\ j = pe.fields /\ ev = normalize(pe, r.peer)
        /\ r.stats = counted(pe, ev)
    BY <2>1 DEF Handled
  <2>3. DOMAIN ev.values = KeptFields(j)
    <3>1. ev.values = Taken(j)
      BY <2>2, EventFields
    <3>2. QED
      BY <3>1 DEF Taken
  <2>4. PICK lost : lost = (DOMAIN j \cap Placed) \ KeptFields(j)
    OBVIOUS
  <2> DEFINE with(keys) == normalize([pe EXCEPT !.fields = Restrict(j, keys)], r.peer)
  <2>5. with(DOMAIN j \ lost) = ev
    <3>1. DOMAIN j \ (DOMAIN j \ lost) \subseteq Placed \ KeptFields(j)
      BY <2>4
    <3>2. QED
      BY <2>2, <3>1, PartGivesTheSame
  <2>6. ASSUME NEW f \in lost PROVE DOMAIN with({f}).values = {}
    <3>1. PICK part : part = [pe EXCEPT !.fields = Restrict(j, {f})]
      OBVIOUS
    <3>2. part.fields = Restrict(j, {f})
      BY <2>2, <3>1 DEF Parsed
    <3>3. PICK e : e = normalize(part, r.peer)
      OBVIOUS
    <3>4. DOMAIN e.values = KeptFields(Restrict(j, {f}))
      <4>1. e.values = Taken(part.fields)
        BY <3>3, EventFields
      <4>2. e.values = Taken(Restrict(j, {f}))
        BY <3>2, <4>1
      <4>3. QED
        BY <4>2 DEF Taken
    <3>5. {f} \in SUBSET DOMAIN j /\ f \notin KeptFields(j)
      BY <2>4
    <3>6. KeptFields(Restrict(j, {f})) = KeptFields(j) \cap {f}
      BY <3>5, PartKeeps
    <3>7. QED
      BY <3>1, <3>3, <3>4, <3>5, <3>6
  <2>7. r.stats.dropped \cap {"lng", "lat"} =
          {f \in lost \cap {"lng", "lat"} : j[f].type \in {"int", "float", "digits"}}
    <3>1. \A f \in {"lng", "lat"} :
             f \in ReadableFields(j) <=> f \in DOMAIN j /\ j[f].type \in {"int", "float", "digits"}
      BY DoubleRead DEF ReadableFields, Read, Placed
    <3>2. KeptFields(j) \subseteq ReadableFields(j)
      BY DEF KeptFields
    <3>3. r.stats.dropped \cap {"lng", "lat"} = {f \in {"lng", "lat"} : CoordDropped(j, f)}
      BY <2>2 DEF counted
    <3>4. \A f \in {"lng", "lat"} :
             CoordDropped(j, f) <=> f \in lost /\ j[f].type \in {"int", "float", "digits"}
      BY <2>4, <3>1, <3>2 DEF CoordDropped, Placed
    <3>5. QED
      BY <3>3, <3>4
  <2>8. QED
    BY <2>1, <2>3, <2>4, <2>5, <2>6, <2>7
<1>2. QED
  BY <1>1, AlwaysHandled, PTL

-----------------------------------------------------------------------------
(* The event data.                                                          *)

LEMMA OverKeeps ==
  ASSUME NEW f, NEW g
  PROVE  /\ DOMAIN Over(f, g) = DOMAIN f \cup DOMAIN g
         /\ \A k \in DOMAIN f : Over(f, g)[k] = f[k]
BY DEF Over

(* What the front end gets: legacy packets as they came, of any other kind  *)
(* the normalized event.                                                    *)
THEOREM DataIsAsPromised == Spec => []DataAsPromised
<1>1. Handled => DataAsPromised
  <2> SUFFICES ASSUME Handled, NEW r \in result
      PROVE  /\ r.parser = "legacy" =>
                  /\ Restrict(r.data, DOMAIN packet) = packet
                  /\ DOMAIN r.data \ DOMAIN packet \subseteq
                       {"ts", "deviceId", "seq", "tsSource", "source", "lng", "lat"}
                  /\ r.name = IF packet["kind"].v \in {UavPos, LinkQuality}
                              THEN <<"telemetry", packet["kind"].v>> ELSE <<packet["kind"].v>>
             /\ r.ev.kind \notin LegacyKinds =>
                  LET json == ToJson(r.ev, deviceType) IN
                  /\ Restrict(r.data, DOMAIN json) = json
                  /\ ~r.pe.passthrough => r.data = json
    BY DEF DataAsPromised
  <2>1. PICK pe, ev, peer : pe = r.pe /\ ev = r.ev /\ peer = r.peer
    OBVIOUS
  <2>2. /\ Parsed(pe) /\ ev = normalize(pe, peer) /\ ev.kind = pe.kind
        /\ r.name = resolveEventName(ev.kind, r.topic)
        /\ r.data = toEventData(ev, pe, deviceType)
    <3>1. /\ Parsed(pe) /\ ev = normalize(pe, peer)
          /\ r.name = resolveEventName(ev.kind, r.topic)
          /\ r.data = toEventData(ev, pe, deviceType)
      BY <2>1 DEF Handled
    <3>2. ev.kind = pe.kind
      BY <3>1 DEF normalize
    <3>3. QED
      BY <3>1, <3>2
  <2>3. ASSUME r.parser = "legacy"
        PROVE  /\ Restrict(r.data, DOMAIN packet) = packet
               /\ DOMAIN r.data \ DOMAIN packet \subseteq
                    {"ts", "deviceId", "seq", "tsSource", "source", "lng", "lat"}
               /\ r.name = IF packet["kind"].v \in {UavPos, LinkQuality}
                           THEN <<"telemetry", packet["kind"].v>> ELSE <<packet["kind"].v>>
    <3>1. IsObject(packet) /\ packet # Malformed /\ pe \in legacyKind(packet)
      BY <2>1, <2>3 DEF Handled
    <3>2. pe.fields = packet /\ pe.kind = packet["kind"].v /\ pe.kind \in LegacyKinds
      BY <3>1, LegacyIsParsed
    <3>3. r.data = LegacyData(ev, packet)
      BY <2>2, <3>2 DEF toEventData
    <3>4. PICK added : /\ r.data = Over(packet, added)
                       /\ DOMAIN added \subseteq
                            {"ts", "deviceId", "seq", "tsSource", "source", "lng", "lat"}
      <4>1. PICK own, seq, coords :
               /\ own = [ts |-> Whole(ev.ts), deviceId |-> Text(ev.deviceId),
                         tsSource |-> Text(ev.tsSource),
                         source |-> [type |-> "nested", v |-> Source]]
               /\ seq = [k \in {"seq" : n \in ev.seq} |-> Whole(CHOOSE n \in ev.seq : TRUE)]
               /\ coords = [f \in {"lng", "lat"} \cap DOMAIN ev.values |-> Real(ev.values[f])]
        OBVIOUS
      <4>2. PICK rest : rest = Over(seq, coords)
        OBVIOUS
      <4>3. PICK all : all = Over(own, rest)
        OBVIOUS
      <4>4. r.data = Over(packet, all)
        BY <3>3, <4>1, <4>2, <4>3 DEF LegacyData
      <4>5. /\ DOMAIN own = {"ts", "deviceId", "tsSource", "source"}
            /\ DOMAIN seq \subseteq {"seq"} /\ DOMAIN coords \subseteq {"lng", "lat"}
        BY <4>1
      <4>6. DOMAIN rest = DOMAIN seq \cup DOMAIN coords /\ DOMAIN all = DOMAIN own \cup DOMAIN rest
        BY <4>2, <4>3, OverKeeps
      <4>7. QED
        BY <4>4, <4>5, <4>6
    <3>5. DOMAIN r.data = DOMAIN packet \cup DOMAIN added
          /\ \A k \in DOMAIN packet : r.data[k] = packet[k]
      BY <3>4, OverKeeps
    <3>6. Restrict(r.data, DOMAIN packet) = packet
      BY <3>1, <3>5 DEF IsObject, Restrict
    <3>7. r.name = IF pe.kind \in {UavPos, LinkQuality}
                   THEN <<"telemetry", pe.kind>> ELSE <<pe.kind>>
      BY <2>2, <3>2 DEF resolveEventName, legacyEventName
    <3>8. QED
      BY <3>2, <3>4, <3>5, <3>6, <3>7
  <2>4. ASSUME ev.kind \notin LegacyKinds
        PROVE  LET json == ToJson(ev, deviceType) IN
               /\ Restrict(r.data, DOMAIN json) = json
               /\ ~pe.passthrough => r.data = json
    <3>1. PICK json : json = ToJson(ev, deviceType)
      OBVIOUS
    <3>2. json = [k \in DOMAIN json |-> json[k]]
      BY <3>1 DEF ToJson, Over
    <3>3. r.data = IF pe.passthrough THEN PassedThrough(json, pe.fields) ELSE json
      BY <2>2, <2>4, <3>1 DEF toEventData
    <3>4. \A k \in DOMAIN json : r.data[k] = json[k]
      <4>1. PICK more : PassedThrough(json, pe.fields) = Over(json, more)
        BY DEF PassedThrough
      <4>2. r.data = Over(json, more) \/ r.data = json
        BY <3>3, <4>1
      <4>3. \A k \in DOMAIN json : Over(json, more)[k] = json[k]
        BY OverKeeps
      <4>4. QED
        BY <4>2, <4>3
    <3>5. Restrict(r.data, DOMAIN json) = json
      BY <3>2, <3>4 DEF Restrict
    <3>6. QED
      BY <3>1, <3>3, <3>5
  <2>5. QED
    BY <2>1, <2>3, <2>4
<1>2. QED
  BY <1>1, AlwaysHandled, PTL

-----------------------------------------------------------------------------
(* The identifier.                                                          *)

(* A name is chosen out of the fields exactly if one of them has one: the   *)
(* first such field.                                                        *)
LEMMA ChosenNames ==
  ASSUME NEW pe, NEW names,
         names = {pe.fields[k].v : k \in {k \in Naming(pe.kind) : HasText(pe.fields, k)}} \ {NoText}
  PROVE  Chosen(pe) \subseteq names /\ (Chosen(pe) = {} <=> names = {})
<1>1. PICK keys, f : keys = idFieldsForKind(pe.kind) /\ f = pe.fields
  OBVIOUS
<1>2. PICK n \in Nat : DOMAIN keys = 1..n
  BY <1>1, IdFields
<1>3. PICK U : U = {k \in DOMAIN keys : HasText(f, keys[k]) /\ f[keys[k]].v # NoText}
  OBVIOUS
<1>4. Chosen(pe) = {f[keys[k]].v : k \in {k \in U : \A m \in U : k <= m}}
  BY <1>1, <1>3 DEF Chosen
<1>5. names = {f[keys[k]].v : k \in U}
  <2>1. Naming(pe.kind) = {keys[k] : k \in DOMAIN keys}
    BY <1>1 DEF Naming, Range
  <2>2. QED
    BY <1>1, <1>3, <2>1
<1>6. U # {} => \E k \in U : \A m \in U : k <= m
  <2>1. U \in SUBSET Nat
    BY <1>2, <1>3
  <2>2. QED
    BY <2>1, LeastNumber
<1>7. Chosen(pe) \subseteq names
  BY <1>4, <1>5
<1>8. U = {} <=> names = {}
  BY <1>5
<1>9. U = {} <=> Chosen(pe) = {}
  BY <1>4, <1>6
<1>10. QED
  BY <1>7, <1>8, <1>9

(* The peer stands for the device only if nothing in the packet names it.   *)
THEOREM PeerOnlyIfNothingElse == Spec => []PeerIsLastResort
<1>1. Handled => PeerIsLastResort
  <2> SUFFICES ASSUME Handled, NEW r \in result
      PROVE  LET named == ({r.pe.deviceId} \cup
                             {r.pe.fields[k].v :
                                k \in {k \in Naming(r.pe.kind) : HasText(r.pe.fields, k)}})
                          \ {NoText}
             IN /\ r.stats.deviceIdFallback <=> named = {}
                /\ r.ev.deviceId \in IF named # {} THEN named ELSE {r.peer.text, Unknown} \ {NoText}
    BY DEF PeerIsLastResort
  <2>1. PICK pe, ev, peer : pe = r.pe /\ ev = r.ev /\ peer = r.peer
    OBVIOUS
  <2>2. /\ ev = normalize(pe, peer) /\ r.stats = counted(pe, ev)
        /\ ev.deviceId = IF NameOf(pe) = NoText THEN Fallback(peer) ELSE NameOf(pe)
    <3>1. ev = normalize(pe, peer) /\ r.stats = counted(pe, ev)
      BY <2>1 DEF Handled
    <3>2. QED
      BY <3>1, EventFields
  <2>3. PICK names : names = {pe.fields[k].v :
                                k \in {k \in Naming(pe.kind) : HasText(pe.fields, k)}} \ {NoText}
    OBVIOUS
  <2>4. Chosen(pe) \subseteq names /\ (Chosen(pe) = {} <=> names = {}) /\ NoText \notin names
    BY <2>3, ChosenNames
  <2>5. PICK named : named = IF pe.deviceId = NoText THEN names ELSE {pe.deviceId} \cup names
    OBVIOUS
  <2>6. named = ({pe.deviceId} \cup {pe.fields[k].v :
                    k \in {k \in Naming(pe.kind) : HasText(pe.fields, k)}}) \ {NoText}
    BY <2>3, <2>5
  <2>7. r.stats.deviceIdFallback <=> pe.deviceId = NoText /\ Chosen(pe) = {}
    <3>1. counted(pe, ev).deviceIdFallback <=> pe.deviceId = NoText /\ Chosen(pe) = {}
      BY DEF counted
    <3>2. QED
      BY <2>2, <3>1
  <2>8. Named(pe) \subseteq named /\ (Named(pe) = {} <=> named = {}) /\ NoText \notin named
    BY <2>4, <2>5 DEF Named
  <2>9. NameOf(pe) \in IF named = {} THEN {NoText} ELSE named
    BY <2>8 DEF NameOf, OneOf
  <2>10. Fallback(peer) \in {peer.text, Unknown} \ {NoText}
    BY TextsDiffer DEF Fallback
  <2>11. ev.deviceId \in IF named # {} THEN named ELSE {peer.text, Unknown} \ {NoText}
    BY <2>2, <2>8, <2>9, <2>10
  <2>12. r.stats.deviceIdFallback <=> named = {}
    BY <2>4, <2>5, <2>7
  <2>13. QED
    BY <2>1, <2>6, <2>11, <2>12
<1>2. QED
  BY <1>1, AlwaysHandled, PTL

-----------------------------------------------------------------------------
(* The configuration.                                                      *)

(* A sequence given as a table of its elements.                             *)
LEMMA TableIsSeq ==
  ASSUME NEW n \in Nat, NEW S, NEW f \in [1..n -> S]
  PROVE  DOMAIN f = 1..n /\ Len(f) = n /\ (f = <<>> <=> n = 0)
<1>1. f \in Seq(S)
  BY SMT
<1>2. Len(f) \in Nat /\ DOMAIN f = 1..Len(f)
  BY <1>1, LenProperties
<1>3. 1..Len(f) = 1..n
  BY <1>2
<1>4. Len(f) = n
  BY <1>2, <1>3
<1>5. f # <<>> => Len(f) > 0
  BY <1>1, EmptySeq
<1>6. Len(<<>>) = 0
  BY EmptySeq
<1>7. QED
  BY <1>3, <1>4, <1>5, <1>6

(* A point and a configuration in the program.                              *)
IsPoint(p) ==
  /\ p = [id |-> p.id, group |-> p.group, port |-> p.port, parserId |-> p.parserId,
          enabled |-> p.enabled, timeoutMultiple |-> p.timeoutMultiple]
  /\ p.port \in Int

IsPoints(s) ==
  /\ Len(s) \in Nat /\ DOMAIN s = 1..Len(s) /\ (s = <<>> <=> Len(s) = 0)
  /\ \A n \in DOMAIN s : IsPoint(s[n])

IsConfig(c) ==
  /\ c = [globals |-> c.globals, points |-> c.points]
  /\ IsPoints(c.points)
  /\ DOMAIN c.globals = DOMAIN Defaults
  /\ \A k \in Ints : c.globals[k] \in Int

(* getIf returns an int when the default is one.                            *)
LEMMA GotIntIsInt ==
  ASSUME NEW j, \A k \in DOMAIN j : IsSetting(j[k]),
         NEW k, NEW d \in Int
  PROVE  GotInt(j, k, d) \in Int
<1>1. Word32 \in Nat \ {0}
  <2>1. MaxPort \in Nat /\ MaxPort < Word32 \div 2 /\ Word32 <= Word64
    BY ConfigAssumption
  <2>2. QED
    BY ConfigAssumption
<1>2. CASE k \in DOMAIN j
  <2>1. PICK x : x = j[k]
    OBVIOUS
  <2>2. /\ x.type \in {"int", "float"} => x.v \in Int
        /\ x.type = "bool" => x.v \in BOOLEAN
    BY <1>2, <2>1 DEF IsSetting
  <2>3. GotInt(j, k, d) =
          IF x.type \in {"int", "float"} THEN ((x.v + Word32 \div 2) % Word32) - Word32 \div 2
          ELSE IF x.type = "bool" THEN IF x.v THEN 1 ELSE 0 ELSE d
    BY <1>2, <2>1 DEF GotInt
  <2>4. QED
    BY <1>1, <2>2, <2>3
<1>3. CASE k \notin DOMAIN j
  BY <1>3 DEF GotInt
<1>4. QED
  BY <1>2, <1>3

LEMMA PointIsRead ==
  ASSUME NEW j, \A k \in DOMAIN j : IsSetting(j[k])
  PROVE  IsPoint(pointFromJson(j))
<1>1. GotInt(j, "port", 0) \in Int
  BY GotIntIsInt
<1>2. QED
  BY <1>1 DEF IsPoint, pointFromJson

(* A text gives a configuration of the right shape.                         *)
LEMMA ReadIsConfig ==
  ASSUME \A k \in DOMAIN root : IsSetting(root[k]),
         array = NoArray \/ array \in Seq(PointValues)
  PROVE  IsConfig(fromJson(NewConfig, root, array))
<1> DEFINE c == fromJson(NewConfig, root, array)
<1>1. /\ c = [globals |-> c.globals, points |-> c.points]
      /\ c.globals = [k \in DOMAIN Defaults |->
                  CASE k \in Flags -> GotBool(root, k, Defaults[k])
                    [] k \in Limits -> GotSize(root, k, Defaults[k])
                    [] OTHER -> GotInt(root, k, Defaults[k])]
      /\ c.points = IF array = NoArray THEN <<>>
                    ELSE [n \in DOMAIN array |-> pointFromJson(array[n])]
  BY DEF fromJson, NewConfig
<1> HIDE DEF c
<1>2. ASSUME NEW k \in Ints PROVE c.globals[k] \in Int
  <2>1. k \in DOMAIN Defaults /\ Defaults[k] \in Int
    BY ConfigAssumption
  <2>2. k \notin Flags /\ k \notin Limits
    BY DEF Ints, Positive, NotNegative, Unchecked, Flags, Limits
  <2>3. c.globals[k] = GotInt(root, k, Defaults[k])
    BY <1>1, <2>1, <2>2
  <2>4. QED
    BY <2>1, <2>3, GotIntIsInt
<1>3. IsPoints(c.points)
  <2>1. CASE array = NoArray
    <3>1. c.points = <<>> /\ Len(<<>>) = 0 /\ DOMAIN <<>> = {} /\ 1..0 = {}
      BY <1>1, <2>1, EmptySeq
    <3>2. QED
      BY <3>1 DEF IsPoints
  <2>2. CASE array # NoArray
    <3>1. Len(array) \in Nat /\ DOMAIN array = 1..Len(array) /\ array \in Seq(PointValues)
      BY <2>2, LenProperties
    <3>2. \A n \in DOMAIN array : IsPoint(pointFromJson(array[n]))
      BY <3>1, ElementOfSeq, PointIsRead, MCConfigAssumption
    <3>3. PICK S : S = {pointFromJson(array[n]) : n \in DOMAIN array}
      OBVIOUS
    <3>4. c.points \in [1..Len(array) -> S] /\ \A n \in 1..Len(array) : IsPoint(c.points[n])
      BY <1>1, <2>2, <3>1, <3>2, <3>3
    <3>5. PICK l : l = Len(array)
      OBVIOUS
    <3>6. DOMAIN c.points = 1..l /\ Len(c.points) = l /\ (c.points = <<>> <=> l = 0)
      BY <3>1, <3>4, <3>5, TableIsSeq
    <3>7. QED
      BY <3>1, <3>4, <3>5, <3>6 DEF IsPoints
  <2>3. QED
    BY <2>1, <2>2
<1>4. DOMAIN c.globals = DOMAIN Defaults
  BY <1>1
<1>5. QED
  BY <1>1, <1>2, <1>3, <1>4 DEF IsConfig, c

(* validate finds what Sound speaks of: comparing each point with those     *)
(* before it compares every two.                                            *)
LEMMA ValidIffSound ==
  ASSUME NEW c, IsConfig(c)
  PROVE  validate(c) <=> Sound(c)
<1>1. PICK l \in Nat : l = Len(c.points) /\ DOMAIN c.points = 1..l
  BY DEF IsConfig, IsPoints
<1>2. MaxPort \in Nat
  BY ConfigAssumption
<1>3. ASSUME NEW n \in 1..l
      PROVE  LET p == c.points[n] IN
             PointValid(p) <=> p.id # EmptyText /\ p.parserId # EmptyText /\ p.port >= 1
                                    /\ p.port <= MaxPort /\ p.group \notin NotAddresses
  <2>1. c.points[n].port \in Int
    BY <1>1 DEF IsConfig, IsPoints, IsPoint
  <2>2. QED
    BY <1>2, <2>1 DEF PointValid
<1>4. (\A n \in DOMAIN c.points : \A p \in Seen(c.points, n) :
          p.id # c.points[n].id /\ p.port # c.points[n].port)
      <=> (\A m, n \in DOMAIN c.points :
             m # n => c.points[m].id # c.points[n].id /\ c.points[m].port # c.points[n].port)
  <2>1. ASSUME \A n \in DOMAIN c.points : \A p \in Seen(c.points, n) :
                  p.id # c.points[n].id /\ p.port # c.points[n].port,
               NEW m \in DOMAIN c.points, NEW n \in DOMAIN c.points, m < n
        PROVE  c.points[m].id # c.points[n].id /\ c.points[m].port # c.points[n].port
    <3>1. c.points[m] \in Seen(c.points, n)
      BY <1>1, <2>1 DEF Seen
    <3>2. QED
      BY <2>1, <3>1
  <2>2. ASSUME \A m, n \in DOMAIN c.points :
                 m # n => c.points[m].id # c.points[n].id /\ c.points[m].port # c.points[n].port,
               NEW n \in DOMAIN c.points, NEW p \in Seen(c.points, n)
        PROVE  p.id # c.points[n].id /\ p.port # c.points[n].port
    <3>1. PICK m \in 1..(n - 1) : p = c.points[m]
      BY DEF Seen
    <3>2. m \in DOMAIN c.points /\ m # n
      BY <1>1
    <3>3. QED
      BY <2>2, <3>1, <3>2
  <2>3. ASSUME \A n \in DOMAIN c.points : \A p \in Seen(c.points, n) :
                  p.id # c.points[n].id /\ p.port # c.points[n].port,
               NEW m \in DOMAIN c.points, NEW n \in DOMAIN c.points, m # n
        PROVE  c.points[m].id # c.points[n].id /\ c.points[m].port # c.points[n].port
    <3>1. CASE m < n
      BY <2>1, <2>3, <3>1
    <3>2. CASE n < m
      BY <2>1, <2>3, <3>2
    <3>3. m < n \/ n < m
      BY <1>1, <2>3
    <3>4. QED
      BY <3>1, <3>2, <3>3
  <2>4. QED
    BY <2>2, <2>3
<1>5. \A k \in Positive : c.globals[k] \in Int
  BY DEF IsConfig, Ints
<1>6. (\A k \in Positive : c.globals[k] > 0) <=> (\A k \in Positive : c.globals[k] >= 1)
  BY <1>5
<1>7. QED
  BY <1>1, <1>3, <1>4, <1>6 DEF validate, Sound

(* The stages and what each has made of the text.                           *)
ConfInv ==
  /\ \A k \in DOMAIN root : IsSetting(root[k])
  /\ \A k \in DOMAIN env : IsSetting(env[k])
  /\ array = NoArray \/ array \in Seq(PointValues)
  /\ stage \in {"written", "accepted", "refused", "overridden", "starting"}
  /\ stage # "written" => IsConfig(read)
  /\ stage \in {"accepted", "refused"} => cfg = read /\ (stage = "accepted" <=> validate(cfg))
  /\ stage = "overridden" => cfg = applyEnvOverrides(read, env)
  /\ stage = "starting" => cfg = startFromConfigText(read, env)

LEMMA WithIsValue ==
  ASSUME NEW f, \A k \in DOMAIN f : IsSetting(f[k]), NEW key, NEW v, IsSetting(v)
  PROVE  \A k \in DOMAIN With(f, key, v) : IsSetting(With(f, key, v)[k])
BY DEF With

LEMMA ConfSteps ==
  /\ ConfigInit => ConfInv
  /\ ConfInv /\ [ConfigNext]_vars => ConfInv'
<1>1. ConfigInit => ConfInv
  <2> SUFFICES ASSUME ConfigInit PROVE ConfInv
    OBVIOUS
  <2>1. DOMAIN root = {} /\ DOMAIN env = {} /\ stage = "written"
    BY DEF ConfigInit
  <2>2. array = NoArray \/ array \in Seq(PointValues)
    BY EmptySeq DEF ConfigInit
  <2>3. QED
    BY <2>1, <2>2 DEF ConfInv
<1>2. ASSUME ConfInv, Write PROVE ConfInv'
  <2>1. stage = "written" /\ UNCHANGED <<stage, read, cfg>>
    BY <1>2 DEF Write
  <2>2. CASE AddKey
    <3>1. PICK k \in DOMAIN RootValues : \E v \in RootValues[k] : root' = With(root, k, v)
      BY <2>2 DEF AddKey
    <3>2. \A key \in DOMAIN root' : IsSetting(root'[key])
      BY <1>2, <3>1, WithIsValue, MCConfigAssumption DEF ConfInv
    <3>3. UNCHANGED <<array, env>>
      BY <2>2 DEF AddKey
    <3>4. QED
      BY <1>2, <2>1, <3>2, <3>3 DEF ConfInv
  <2>3. CASE AddPoint
    <3>1. array # NoArray /\ (\E p \in PointValues : array' = Append(array, p))
          /\ UNCHANGED <<root, env>>
      BY <2>3 DEF AddPoint
    <3>2. array' \in Seq(PointValues)
      BY <1>2, <3>1 DEF ConfInv
    <3>3. QED
      BY <1>2, <2>1, <3>1, <3>2 DEF ConfInv
  <2>4. CASE AddVariable
    <3>1. PICK k \in DOMAIN EnvValues : \E v \in EnvValues[k] : env' = With(env, k, v)
      BY <2>4 DEF AddVariable
    <3>2. \A key \in DOMAIN env' : IsSetting(env'[key])
      BY <1>2, <3>1, WithIsValue, MCConfigAssumption DEF ConfInv
    <3>3. UNCHANGED <<root, array>>
      BY <2>4 DEF AddVariable
    <3>4. QED
      BY <1>2, <2>1, <3>2, <3>3 DEF ConfInv
  <2>5. QED
    BY <1>2, <2>2, <2>3, <2>4 DEF Write
<1>3. ASSUME ConfInv, ReadText PROVE ConfInv'
  <2>1. /\ cfg' = fromJson(NewConfig, root, array) /\ read' = cfg'
        /\ stage' = IF validate(cfg') THEN "accepted" ELSE "refused"
        /\ UNCHANGED <<root, array, env>>
    BY <1>3 DEF ReadText
  <2>2. IsConfig(read')
    BY <1>3, <2>1, ReadIsConfig DEF ConfInv
  <2>3. PICK c : c = cfg'
    OBVIOUS
  <2>4. /\ stage' \in {"accepted", "refused"} /\ (stage' = "accepted" <=> validate(c))
    BY <2>1, <2>3
  <2>5. stage' = "accepted" <=> validate(cfg)'
    BY <2>3, <2>4 DEF validate, PointValid, Seen
  <2>6. QED
    BY <1>3, <2>1, <2>2, <2>4, <2>5 DEF ConfInv
<1>4. ASSUME ConfInv, Override PROVE ConfInv'
  <2>1. /\ stage = "accepted" /\ stage' = "overridden" /\ cfg' = applyEnvOverrides(cfg, env)
        /\ UNCHANGED <<root, array, env, read>>
    BY <1>4 DEF Override
  <2>2. cfg = read
    BY <1>4, <2>1 DEF ConfInv
  <2>3. QED
    BY <1>4, <2>1, <2>2 DEF ConfInv
<1>5. ASSUME ConfInv, StartFromText PROVE ConfInv'
  <2>1. /\ stage = "accepted" /\ stage' = "starting" /\ cfg' = startFromConfigText(cfg, env)
        /\ UNCHANGED <<root, array, env, read>>
    BY <1>5 DEF StartFromText
  <2>2. cfg = read
    BY <1>5, <2>1 DEF ConfInv
  <2>3. QED
    BY <1>5, <2>1, <2>2 DEF ConfInv
<1>6. ASSUME ConfInv, UNCHANGED vars PROVE ConfInv'
  BY <1>6 DEF ConfInv, vars
<1>7. QED
  BY <1>1, <1>2, <1>3, <1>4, <1>5, <1>6 DEF ConfigNext

(* What has been read of a text is accepted exactly when it is sound: no    *)
(* two points with the same id or port, every point complete and its group  *)
(* without ':', and the six numbers in range that validate looks at         *)
(* (config.h:19).  It is judged after the casts that reading it makes.      *)
THEOREM AcceptedExactlyIfSound == ConfigSpec => []AcceptedIffSound
<1>1. ConfInv => AcceptedIffSound
  <2> SUFFICES ASSUME ConfInv, stage \in {"accepted", "refused"}
               PROVE  stage = "accepted" <=> Sound(cfg)
    BY DEF AcceptedIffSound
  <2>1. IsConfig(cfg) /\ (stage = "accepted" <=> validate(cfg))
    BY DEF ConfInv
  <2>2. QED
    BY <2>1, ValidIffSound
<1>2. QED
  BY <1>1, ConfSteps, PTL DEF ConfigSpec

(* The fallback alone, or the points of the text of which the environment   *)
(* touches the one on its port.                                             *)
LEMMA FallbackAlone ==
  ASSUME NEW c, c = [globals |-> c.globals, points |-> c.points], NEW d,
         d = [c EXCEPT !.points = <<fallbackPoint(env)>>]
  PROVE  d.points # <<>> /\ Len(d.points) = 1 /\ d.points[1].id = LegacyId
<1>1. d.points = <<fallbackPoint(env)>>
  OBVIOUS
<1>2. fallbackPoint(env).id = LegacyId
  BY DEF fallbackPoint
<1>3. QED
  BY <1>1, <1>2

LEMMA OverriddenPoint ==
  ASSUME NEW p, IsPoint(p), \A k \in DOMAIN env : IsSetting(env[k])
  PROVE  LET is == Overridden(env, p) IN
         /\ [is EXCEPT !.group = p.group, !.enabled = p.enabled] = p
         /\ is # p => /\ "MAPAPP_UDP_PORT" \in DOMAIN env
                      /\ env["MAPAPP_UDP_PORT"] = Num(p.port)
<1>1. CASE SamePort(env, p)
  <2>1. PICK x : x = env["MAPAPP_UDP_PORT"]
    OBVIOUS
  <2>2. "MAPAPP_UDP_PORT" \in DOMAIN env /\ x.type = "int" /\ x.v = p.port
    BY <1>1, <2>1 DEF SamePort, EnvInt
  <2>3. x = [type |-> x.type, v |-> x.v]
    BY <2>1, <2>2 DEF IsSetting
  <2>4. x = Num(p.port)
    BY <2>2, <2>3 DEF Num
  <2>5. PICK g, e : Overridden(env, p) = [p EXCEPT !.group = g, !.enabled = e]
    BY <1>1 DEF Overridden
  <2>6. [[p EXCEPT !.group = g, !.enabled = e] EXCEPT !.group = p.group, !.enabled = p.enabled] = p
    BY DEF IsPoint
  <2>7. QED
    BY <2>1, <2>2, <2>4, <2>5, <2>6
<1>2. CASE ~SamePort(env, p)
  <2>1. Overridden(env, p) = p
    BY <1>2 DEF Overridden
  <2>2. [p EXCEPT !.group = p.group, !.enabled = p.enabled] = p
    BY DEF IsPoint
  <2>3. QED
    BY <2>1, <2>2
<1>3. QED
  BY <1>1, <1>2

(* The gateway starts with the points of the text, of which the environment *)
(* changes group and enabled of the one on its port only, or with the       *)
(* fallback alone (the comment at config.cc:232); never without a point.    *)
THEOREM StartsWhatWasRead == ConfigSpec => []StartsThePoints
<1>1. ConfInv => StartsThePoints
  <2> SUFFICES ASSUME ConfInv, stage \in {"overridden", "starting"}
               PROVE  StartsThePoints
    BY DEF StartsThePoints
  <2>1. IsConfig(read) /\ \A k \in DOMAIN env : IsSetting(env[k])
    BY DEF ConfInv
  <2>2. CASE read.points = <<>>
    <3>1. PICK c : c = [globals |-> c.globals, points |-> c.points]
                   /\ cfg = [c EXCEPT !.points = <<fallbackPoint(env)>>]
      <4>1. CASE stage = "starting"
        BY <2>1, <2>2, <4>1 DEF ConfInv, IsConfig, startFromConfigText
      <4>2. CASE stage = "overridden"
        <5>1. PICK g : cfg = WithFallback([read EXCEPT !.globals = g], env)
          BY <4>2 DEF ConfInv, applyEnvOverrides
        <5>2. PICK c : c = [read EXCEPT !.globals = g]
          OBVIOUS
        <5>3. c = [globals |-> g, points |-> <<>>]
          BY <2>1, <2>2, <5>2 DEF IsConfig
        <5>4. c.globals = g /\ c.points = <<>>
          BY <5>3
        <5>5. c = [globals |-> c.globals, points |-> c.points]
          BY <5>3, <5>4
        <5>6. cfg = [c EXCEPT !.points = <<fallbackPoint(env)>>]
          BY <5>1, <5>2, <5>4 DEF WithFallback
        <5>7. QED
          BY <5>5, <5>6
      <4>3. QED
        BY <4>1, <4>2
    <3>2. cfg.points # <<>> /\ Len(cfg.points) = 1 /\ cfg.points[1].id = LegacyId
      BY <3>1, FallbackAlone
    <3>3. QED
      BY <2>2, <3>2 DEF StartsThePoints
  <2>3. CASE read.points # <<>>
    <3>1. PICK l \in Nat : Len(read.points) = l /\ DOMAIN read.points = 1..l /\ l # 0
                           /\ \A n \in 1..l : IsPoint(read.points[n])
      BY <2>1, <2>3 DEF IsConfig, IsPoints
    <3>2. CASE stage = "starting"
      <4>1. cfg = read
        BY <2>3, <3>2 DEF ConfInv, startFromConfigText
      <4>2. \A n \in 1..l : LET p == read.points[n] IN
              [p EXCEPT !.group = p.group, !.enabled = p.enabled] = p
        BY <3>1 DEF IsPoint
      <4>3. QED
        BY <2>3, <3>1, <4>1, <4>2 DEF StartsThePoints
    <3>3. CASE stage = "overridden"
      <4>1. cfg.points = [n \in 1..l |-> Overridden(env, read.points[n])]
        <5>1. PICK g : cfg = WithFallback([read EXCEPT !.globals = g], env)
          BY <3>3 DEF ConfInv, applyEnvOverrides
        <5>2. PICK c : c = [read EXCEPT !.globals = g]
          OBVIOUS
        <5>3. c = [globals |-> g, points |-> read.points]
          BY <2>1, <5>2 DEF IsConfig
        <5>4. c.points = read.points /\ "points" \in DOMAIN c
          BY <5>3
        <5>5. cfg = [c EXCEPT !.points = [n \in 1..l |-> Overridden(env, read.points[n])]]
          BY <2>3, <3>1, <5>1, <5>2, <5>4 DEF WithFallback
        <5>6. QED
          BY <5>4, <5>5
      <4>2. PICK S : S = {Overridden(env, read.points[n]) : n \in 1..l}
        OBVIOUS
      <4>3. cfg.points \in [1..l -> S]
        BY <4>1, <4>2
      <4>4. DOMAIN cfg.points = 1..l /\ Len(cfg.points) = l /\ cfg.points # <<>>
        BY <3>1, <4>3, TableIsSeq
      <4>5. ASSUME NEW n \in 1..l
            PROVE  LET was == read.points[n]
                       is == cfg.points[n]
                   IN /\ [is EXCEPT !.group = was.group, !.enabled = was.enabled] = was
                      /\ is # was => /\ "MAPAPP_UDP_PORT" \in DOMAIN env
                                     /\ env["MAPAPP_UDP_PORT"] = Num(was.port)
        <5>1. PICK p : p = read.points[n]
          OBVIOUS
        <5>2. IsPoint(p) /\ cfg.points[n] = Overridden(env, p)
          BY <3>1, <4>1, <5>1
        <5>3. QED
          BY <2>1, <5>1, <5>2, OverriddenPoint
      <4>6. QED
        BY <2>3, <3>1, <3>3, <4>4, <4>5 DEF StartsThePoints
    <3>4. QED
      BY <3>2, <3>3
  <2>4. QED
    BY <2>2, <2>3
<1>2. QED
  BY <1>1, ConfSteps, PTL DEF ConfigSpec

=============================================================================
