----------------------------- MODULE PointsProofs ---------------------------
(***************************************************************************)
(* What Points satisfies for any access points, injectors and packets:     *)
(* every packet counted on a running point ends exactly once, in a failure *)
(* that is counted there or without one; inject answers for the id it was  *)
(* called with; listPoints shows every point, in the state it was in; and  *)
(* no packet is credited to two of the rates gatewayHealth shows.          *)
(***************************************************************************)
EXTENDS Points, DataLemmas, SequenceTheorems

Threads == Objs \cup Injectors

(* A sequence, whatever is in it.                                           *)
IsSeq(s) == s \in Seq({s[i] : i \in DOMAIN s})

IsPoint(p) ==
  /\ DOMAIN p = {"id", "up", "packets", "empty", "truncated", "dropped", "parseFailed", "events"}
  /\ p.packets \in Nat /\ p.parseFailed \in Nat

(* The object is the one the manager has under its id.                      *)
Registered(o) == obj[o].id \in DOMAIN manager /\ manager[obj[o].id] = o

(* A thread with a packet: it was counted on an object of the id the thread *)
(* goes by.  What manager->get found is that object as long as it is        *)
(* registered; any other object found has a packet gone astray.             *)
FrameInv(f) ==
  /\ "at" \in DOMAIN f
  /\ f.at \notin {"idle", "returned"} =>
       /\ {"id", "packet", "on", "pt", "left"} \subseteq DOMAIN f
       /\ f.packet \in Packets
       /\ f.on # NoPoint => f.on \in DOMAIN obj /\ f.id = obj[f.on].id
  /\ f.at \in {"parse", "fail"} =>
       /\ f.pt \notin {NoPoint, f.on} => f.pt \in astray
       /\ f.pt # NoPoint => f.pt \in DOMAIN obj
       /\ f.on # NoPoint /\ Registered(f.on) => f.pt = f.on

ObjectInv ==
  /\ IsSeq(obj) /\ DOMAIN obj \subseteq Objs
  /\ \A o \in DOMAIN obj : IsPoint(obj[o])
  /\ \A id \in DOMAIN manager : manager[id] \in DOMAIN obj /\ obj[manager[id]].id = id
  /\ settled \in [Objs -> Nat] /\ \A o \in Objs \ DOMAIN obj : settled[o] = 0

ThreadInv == DOMAIN thread = Threads /\ \A t \in Threads : FrameInv(thread[t])

(* The account of PacketsAccounted.                                         *)
Balanced(o) == obj[o].packets = obj[o].parseFailed + settled[o] + Cardinality(Pending(o))

CountInv ==
  /\ \A o \in Objs : IsFiniteSet(Pending(o))
  /\ \A o \in DOMAIN obj : Registered(o) /\ o \notin astray => Balanced(o)

PacketInv == ObjectInv /\ ThreadInv /\ CountInv

-----------------------------------------------------------------------------
(* Lemmas.                                                                 *)

(* A function on the indices of a sequence is one, too.                     *)
LEMMA SameIndices ==
  ASSUME NEW s, IsSeq(s), NEW f, f = [i \in DOMAIN s |-> f[i]]
  PROVE  IsSeq(f) /\ DOMAIN f = DOMAIN s
<1>1. Len(s) \in Nat /\ DOMAIN s = 1..Len(s)
  BY DEF IsSeq
<1> DEFINE S == {f[i] : i \in DOMAIN f}
<1>2. DOMAIN f = DOMAIN s
  OBVIOUS
<1>3. f \in [1..Len(s) -> S]
  BY <1>1, <1>2
<1> HIDE DEF S
<1>4. f \in Seq(S)
  BY <1>1, <1>3
<1>5. QED
  BY <1>2, <1>4 DEF IsSeq, S

LEMMA Appended ==
  ASSUME NEW s, IsSeq(s), NEW x
  PROVE  /\ IsSeq(Append(s, x)) /\ Append(s, x)[Len(s) + 1] = x
         /\ Len(s) \in Nat /\ DOMAIN s = 1..Len(s)
         /\ DOMAIN Append(s, x) = DOMAIN s \cup {Len(s) + 1}
         /\ \A i \in DOMAIN s : Append(s, x)[i] = s[i]
<1> DEFINE S == {s[i] : i \in DOMAIN s} \cup {x}
           a == Append(s, x)
<1>1. Len(s) \in Nat /\ DOMAIN s = 1..Len(s)
  BY DEF IsSeq
<1>2. s = [i \in 1..Len(s) |-> s[i]]
  BY <1>1 DEF IsSeq
<1>3. s \in [1..Len(s) -> S]
  BY <1>1, <1>2
<1> HIDE DEF S
<1>4. s \in Seq(S)
  BY <1>1, <1>3
<1>5. x \in S
  BY DEF S
<1>6. /\ a \in Seq(S) /\ Len(a) = Len(s) + 1 /\ a[Len(s) + 1] = x
      /\ \A i \in 1..Len(s) : a[i] = s[i]
  BY <1>4, <1>5
<1>7. DOMAIN a = 1..(Len(s) + 1)
  BY <1>6
<1> DEFINE T == {a[i] : i \in DOMAIN a}
<1> HIDE DEF a
<1>8. a = [i \in 1..(Len(s) + 1) |-> a[i]]
  <2>1. a = [i \in 1..Len(a) |-> a[i]]
    BY <1>6
  <2>2. QED
    BY <1>6, <2>1
<1>9. a \in [1..(Len(s) + 1) -> T]
  BY <1>7, <1>8
<1> HIDE DEF T
<1>10. a \in Seq(T)
  BY <1>1, <1>9
<1>11. 1..(Len(s) + 1) = 1..Len(s) \cup {Len(s) + 1}
  BY <1>1
<1>12. IsSeq(a)
  BY <1>10 DEF IsSeq, T
<1>13. QED
  BY <1>1, <1>6, <1>7, <1>11, <1>12 DEF a

LEMMA InitInv == Init => PacketInv
<1> SUFFICES ASSUME Init PROVE PacketInv
  OBVIOUS
<1>1. obj = <<NewPoint(cfg[1])>> /\ manager = [id \in {cfg[1]} |-> 1]
  BY DEF Init
<1> DEFINE p == NewPoint(cfg[1])
<1>2. DOMAIN obj = {1} /\ obj[1] = p /\ IsSeq(obj)
  BY <1>1 DEF IsSeq
<1>3. p.id = cfg[1] /\ p.packets = 0 /\ p.parseFailed = 0 /\ IsPoint(p)
  BY DEF NewPoint, IsPoint
<1> HIDE DEF p
<1>4. 1 \in Objs
  BY FS_CardinalityType, FS_EmptySet, PointsAssumption
<1>5. settled = [o \in Objs |-> 0]
  BY DEF Init
<1>6. ObjectInv
  BY <1>1, <1>2, <1>3, <1>4, <1>5 DEF ObjectInv
<1>7. DOMAIN thread = Threads /\ \A t \in Threads : thread[t] = Idle
  BY DEF Init, Threads
<1>8. Idle.at = "idle" /\ "at" \in DOMAIN Idle
  BY DEF Idle
<1>9. ThreadInv
  BY <1>7, <1>8 DEF ThreadInv, FrameInv
<1>10. \A o : Pending(o) = {}
  BY <1>7, <1>8 DEF Pending, Threads
<1>11. \A o \in DOMAIN obj : Balanced(o)
  BY <1>2, <1>3, <1>4, <1>5, <1>10, FS_EmptySet DEF Balanced
<1>12. CountInv
  BY <1>10, <1>11, FS_EmptySet DEF CountInv
<1>13. QED
  BY <1>6, <1>9, <1>12 DEF PacketInv

(* The frame of a thread as far as packets are accounted for.               *)
Same(f, g) ==
  /\ g.at = f.at /\ DOMAIN g = DOMAIN f
  /\ f.at \notin {"idle", "returned"} =>
       g.id = f.id /\ g.packet = f.packet /\ g.on = f.on /\ g.pt = f.pt

(* No packet in this frame waits to be settled.                             *)
Calm(f) == f.at \notin {"find", "parse", "fail"}

(* Objects keep their ids and the figures of the account.                   *)
KeepObjects ==
  /\ IsSeq(obj') /\ DOMAIN obj' = DOMAIN obj
  /\ \A o \in DOMAIN obj :
       /\ IsPoint(obj'[o]) /\ obj'[o].id = obj[o].id
       /\ obj'[o].packets = obj[o].packets /\ obj'[o].parseFailed = obj[o].parseFailed

(* A step on which no packet is counted or settled: points may leave the    *)
(* manager, threads may do other things.                                    *)
LEMMA OtherStep ==
  ASSUME PacketInv, KeepObjects, UNCHANGED <<settled, astray>>,
         DOMAIN manager' \subseteq DOMAIN manager,
         \A id \in DOMAIN manager' : manager'[id] = manager[id],
         DOMAIN thread' = Threads,
         \A t \in Threads :
           \/ Same(thread[t], thread'[t])
           \/ Calm(thread[t]) /\ Calm(thread'[t]) /\ FrameInv(thread[t])'
  PROVE  PacketInv'
<1>1. \A o \in DOMAIN obj : Registered(o)' => Registered(o)
  BY DEF KeepObjects, Registered
<1>2. ObjectInv'
  BY DEF PacketInv, ObjectInv, KeepObjects
<1>3. ASSUME NEW t \in Threads PROVE FrameInv(thread[t])'
  <2>1. CASE Same(thread[t], thread'[t])
    <3>1. FrameInv(thread[t])
      BY DEF PacketInv, ThreadInv
    <3>2. QED
      BY <1>1, <2>1, <3>1 DEF FrameInv, Same, KeepObjects
  <2>2. QED
    BY <2>1
<1>4. \A o : Pending(o)' = Pending(o)
  <2>1. ASSUME NEW o, NEW t \in Threads
        PROVE  (~Calm(thread'[t]) /\ thread'[t].on = o) <=> (~Calm(thread[t]) /\ thread[t].on = o)
    BY DEF Same, Calm
  <2>2. QED
    BY <2>1 DEF Pending, Calm, Threads
<1>5. ASSUME NEW o \in DOMAIN obj, Registered(o)', o \notin astray PROVE Balanced(o)'
  BY <1>1, <1>4, <1>5 DEF PacketInv, CountInv, Balanced, KeepObjects
<1>6. CountInv'
  BY <1>4, <1>5 DEF PacketInv, CountInv, KeepObjects
<1>7. QED
  BY <1>2, <1>3, <1>6 DEF PacketInv, ThreadInv

-----------------------------------------------------------------------------
(* The steps on which no packet is counted or settled.                      *)

LEMMA SameObjects ==
  ASSUME PacketInv, UNCHANGED obj
  PROVE  KeepObjects
  BY DEF PacketInv, ObjectInv, KeepObjects, IsSeq, IsPoint

(* A query changes nothing but the samples.                                 *)
LEMMA QueriesLook ==
  ASSUME NEW r \in Queriers, Query(r)
  PROVE  UNCHANGED <<manager, cfg, control, registered, obj, totalEvents, thread, settled, astray,
                     removed>>
  BY DEF Query, QueryBegins, ReadMetrics, ListPoints, ReadClock, SampleBandwidth, points, counters,
         history

(* addPoint's and removePoint's writes, the queries, time and the parsers.  *)
LEMMA AsideInv ==
  ASSUME PacketInv,
         \/ Tick \/ AddPointWritesBack \/ RemovePointWritesBack \/ UNCHANGED vars
         \/ \E r \in Queriers : Query(r)
  PROVE  PacketInv'
<1>1. UNCHANGED <<obj, manager, thread, settled, astray>>
  BY QueriesLook DEF Tick, AddPointWritesBack, RemovePointWritesBack, vars, points, counters,
     history
<1>2. \A t \in Threads : Same(thread[t], thread'[t])
  BY <1>1 DEF Same
<1>3. DOMAIN thread' = Threads
  BY <1>1 DEF PacketInv, ThreadInv
<1>4. QED
  BY <1>1, <1>2, <1>3, SameObjects, OtherStep

(* Marks of the history are set on the frames of injectors.                 *)
LEMMA MarkedSame ==
  ASSUME NEW f, "at" \in DOMAIN f
  PROVE  /\ \A b : Same(f, [f EXCEPT !.intact = b])
         /\ \A e : Same(f, [f EXCEPT !.expect = e])
         /\ Same(f, f)
  BY DEF Same

LEMMA JoinedSame ==
  ASSUME NEW f, "at" \in DOMAIN f
  PROVE  Same(f, [f EXCEPT !.others = @ + 1])
  BY DEF Same

LEMMA MarkInv ==
  ASSUME PacketInv, ResetState \/ ChangeParsers \/ (\E id \in Ids : RemovePoint(id))
  PROVE  PacketInv'
<1>1. UNCHANGED <<obj, settled, astray>>
  BY DEF ResetState, ChangeParsers, RemovePoint, points, counters, history
<1>2. /\ DOMAIN manager' \subseteq DOMAIN manager
      /\ \A id \in DOMAIN manager' : manager'[id] = manager[id]
  BY DEF ResetState, ChangeParsers, RemovePoint, points, Restrict
<1>3. DOMAIN thread = Threads /\ \A t \in Threads : "at" \in DOMAIN thread[t]
  BY DEF PacketInv, ThreadInv, FrameInv
<1>4. /\ DOMAIN thread' = Threads
      /\ \A t \in Threads : \/ thread'[t] = thread[t]
                           \/ thread'[t] = [thread[t] EXCEPT !.intact = FALSE]
                           \/ thread'[t] = [thread[t] EXCEPT !.expect = "either"]
  BY <1>3 DEF ResetState, ChangeParsers, RemovePoint, Disturb, Unsettle
<1>5. \A t \in Threads : Same(thread[t], thread'[t])
  BY <1>3, <1>4, MarkedSame
<1>6. QED
  BY <1>1, <1>2, <1>4, <1>5, SameObjects, OtherStep

(* A step that changes what the account does not look at.                   *)
LEMMA TouchObject ==
  ASSUME PacketInv, NEW v,
         \/ obj' = [obj EXCEPT ![v].up = FALSE]
         \/ obj' = [obj EXCEPT ![v].events = @ + 1]
  PROVE  KeepObjects
<1>1. DOMAIN obj' = DOMAIN obj /\ IsSeq(obj')
  BY SameIndices DEF PacketInv, ObjectInv
<1>2. ASSUME NEW o \in DOMAIN obj
      PROVE  /\ IsPoint(obj'[o]) /\ obj'[o].id = obj[o].id
             /\ obj'[o].packets = obj[o].packets /\ obj'[o].parseFailed = obj[o].parseFailed
  <2> DEFINE p == [obj[o] EXCEPT !.up = FALSE]
             q == [obj[o] EXCEPT !.events = @ + 1]
  <2>1. IsPoint(obj[o])
    BY DEF PacketInv, ObjectInv
  <2>2. /\ IsPoint(p) /\ p.id = obj[o].id
        /\ p.packets = obj[o].packets /\ p.parseFailed = obj[o].parseFailed
    BY <2>1 DEF IsPoint
  <2>3. /\ IsPoint(q) /\ q.id = obj[o].id
        /\ q.packets = obj[o].packets /\ q.parseFailed = obj[o].parseFailed
    BY <2>1 DEF IsPoint
  <2>4. obj'[o] \in {p, q, obj[o]}
    OBVIOUS
  <2> HIDE DEF p, q
  <2>5. QED
    BY <2>1, <2>2, <2>3, <2>4
<1>3. QED
  BY <1>1, <1>2 DEF KeepObjects

(* removePoint joins the thread of the point.                               *)
LEMMA JoinInv ==
  ASSUME PacketInv, JoinVictim
  PROVE  PacketInv'
<1>1. KeepObjects /\ UNCHANGED <<manager, thread, settled, astray>>
  BY TouchObject DEF JoinVictim, history
<1>2. \A t \in Threads : Same(thread[t], thread'[t])
  BY <1>1 DEF Same
<1>3. DOMAIN thread' = Threads
  BY <1>1 DEF PacketInv, ThreadInv
<1>4. QED
  BY <1>1, <1>2, <1>3, OtherStep

(* A frame with no packet to be settled.                                    *)
Loose(f) ==
  /\ "at" \in DOMAIN f /\ Calm(f)
  /\ f.at \notin {"idle", "returned"} =>
       /\ {"id", "packet", "on", "pt", "left"} \subseteq DOMAIN f
       /\ f.packet \in Packets
       /\ f.on # NoPoint => f.on \in DOMAIN obj /\ f.id = obj[f.on].id

(* One thread goes on, before its packet is counted or after it is settled. *)
LEMMA CalmStep ==
  ASSUME PacketInv, KeepObjects, UNCHANGED <<manager, settled, astray>>,
         NEW t \in Threads, NEW g, DOMAIN thread' = Threads, thread'[t] = g,
         \A u \in Threads \ {t} : Same(thread[u], thread'[u]),
         Calm(thread[t]), Loose(g)
  PROVE  PacketInv'
<1>1. FrameInv(g)'
  BY DEF FrameInv, Loose, Calm, KeepObjects
<1>2. FrameInv(thread[t])'
  BY <1>1 DEF FrameInv
<1>3. QED
  BY <1>2, OtherStep DEF Loose

(* Where a thread's own steps leave its frame.                              *)
LEMMA Moved ==
  ASSUME NEW f, FrameInv(f), f.at \notin {"idle", "returned"}
  PROVE  /\ \A at : at \notin {"find", "parse", "fail"} => Loose([f EXCEPT !.at = at])
         /\ \A at, left : at \notin {"find", "parse", "fail"} =>
                            Loose([f EXCEPT !.at = at, !.left = left])
<1>1. /\ {"at", "id", "packet", "on", "pt", "left"} \subseteq DOMAIN f
      /\ f.packet \in Packets
      /\ f.on # NoPoint => f.on \in DOMAIN obj /\ f.id = obj[f.on].id
  BY DEF FrameInv
<1>2. ASSUME NEW at, at \notin {"find", "parse", "fail"} PROVE Loose([f EXCEPT !.at = at])
  BY <1>1, <1>2 DEF Loose, Calm
<1>3. ASSUME NEW at, NEW left, at \notin {"find", "parse", "fail"}
      PROVE  Loose([f EXCEPT !.at = at, !.left = left])
  BY <1>1, <1>3 DEF Loose, Calm
<1>4. QED
  BY <1>2, <1>3

LEMMA LeavesLoose ==
  ASSUME PacketInv, NEW t \in Threads, thread[t].at \notin {"idle", "returned"}
  PROVE  Loose(Leaves(t))
<1>1. FrameInv(thread[t])
  BY DEF PacketInv, ThreadInv
<1>2. Loose(Idle)
  BY DEF Loose, Calm, Idle
<1>3. Loose([thread[t] EXCEPT !.at = "back"])
  BY <1>1, Moved
<1>4. QED
  BY <1>2, <1>3 DEF Leaves

LEMMA ReturnedLoose ==
  ASSUME NEW i, NEW result
  PROVE  Loose(Returned(i, result))
<1> DEFINE f == Returned(i, result)
<1>1. "at" \in DOMAIN f /\ f.at = "returned"
  BY DEF Returned
<1> HIDE DEF f
<1>2. Loose(f)
  BY <1>1 DEF Loose, Calm
<1>3. QED
  BY <1>2 DEF f

(* countEvent, the total, and the ends of inject.                           *)
LEMMA EventInv ==
  ASSUME PacketInv, NEW t \in Threads, CountEvent(t) \/ CountTotal(t)
  PROVE  PacketInv'
<1>1. FrameInv(thread[t]) /\ DOMAIN thread = Threads
  BY DEF PacketInv, ThreadInv
<1>2. \A u \in Threads : "at" \in DOMAIN thread[u]
  BY DEF PacketInv, ThreadInv, FrameInv
<1>3. CASE CountEvent(t)
  <2> DEFINE g == [thread[t] EXCEPT !.at = "total"]
  <2>1. /\ thread' = [thread EXCEPT ![t] = g] /\ thread[t].at = "event"
        /\ UNCHANGED <<manager, settled, astray>>
    BY <1>3 DEF CountEvent, points, history
  <2>2. Loose(g)
    BY <1>1, <2>1, Moved
  <2>3. KeepObjects
    BY <1>3, TouchObject, SameObjects DEF CountEvent
  <2> HIDE DEF g
  <2>4. \A u \in Threads \ {t} : Same(thread[u], thread'[u])
    BY <1>1, <1>2, <2>1, MarkedSame
  <2>5. QED
    BY <1>1, <2>1, <2>2, <2>3, <2>4, CalmStep DEF Calm
<1>4. CASE CountTotal(t)
  <2> DEFINE next == IF LastRound(t) THEN Leaves(t)
                     ELSE [thread[t] EXCEPT !.at = "event", !.left = @ - 1]
  <2>1. /\ thread' = Join([thread EXCEPT ![t] = next], Injectors \ {t})
        /\ thread[t].at = "total" /\ UNCHANGED <<obj, manager, settled, astray>>
    BY <1>4 DEF CountTotal, points, history
  <2>2. Loose(next)
    BY <1>1, <2>1, Moved, LeavesLoose
  <2> HIDE DEF next
  <2>3. /\ DOMAIN thread' = Threads /\ thread'[t] = next
        /\ \A u \in Threads \ {t} : \/ thread'[u] = thread[u]
                                   \/ thread'[u] = [thread[u] EXCEPT !.others = @ + 1]
    BY <1>1, <2>1 DEF Join
  <2>4. \A u \in Threads \ {t} : Same(thread[u], thread'[u])
    BY <1>2, <2>3, MarkedSame, JoinedSame
  <2>5. QED
    BY <2>1, <2>2, <2>3, <2>4, CalmStep, SameObjects DEF Calm
<1>5. QED
  BY <1>3, <1>4

LEMMA InjectInv ==
  ASSUME PacketInv, NEW i \in Injectors,
         \/ InjectLooks(i) \/ InjectReturns(i)
         \/ \E id \in Ids, p \in Packets : InjectFinds(i, id, p)
  PROVE  PacketInv'
<1>1. i \in Threads /\ FrameInv(thread[i]) /\ DOMAIN thread = Threads
  BY DEF PacketInv, ThreadInv, Threads
<1>2. \A u \in Threads : "at" \in DOMAIN thread[u]
  BY DEF PacketInv, ThreadInv, FrameInv
<1>3. ASSUME NEW g, thread' = [thread EXCEPT ![i] = g], UNCHANGED <<obj, manager, settled, astray>>,
             Calm(thread[i]), Loose(g)
      PROVE  PacketInv'
  <2>1. \A u \in Threads \ {i} : Same(thread[u], thread'[u])
    BY <1>1, <1>2, <1>3, MarkedSame
  <2>2. QED
    BY <1>1, <1>3, <2>1, CalmStep, SameObjects
<1>4. CASE InjectLooks(i)
  <2> DEFINE g == [thread[i] EXCEPT !.at = "arrive"]
             h == Returned(i, -1)
  <2>1. /\ thread[i].at = "look" /\ UNCHANGED <<obj, manager, settled, astray>>
        /\ thread' = [thread EXCEPT ![i] = g] \/ thread' = [thread EXCEPT ![i] = h]
    BY <1>4 DEF InjectLooks, points, counters, history
  <2>2. Loose(g) /\ Loose(h)
    BY <1>1, <2>1, Moved, ReturnedLoose
  <2> HIDE DEF g, h
  <2>3. QED
    BY <1>3, <2>1, <2>2 DEF Calm
<1>5. CASE InjectReturns(i)
  <2> DEFINE h == Returned(i, totalEvents - thread[i].before)
  <2>1. /\ thread[i].at = "back" /\ UNCHANGED <<obj, manager, settled, astray>>
        /\ thread' = [thread EXCEPT ![i] = h]
    BY <1>5 DEF InjectReturns, points, counters, history
  <2>2. Loose(h)
    BY ReturnedLoose
  <2> HIDE DEF h
  <2>3. QED
    BY <1>3, <2>1, <2>2 DEF Calm
<1>6. ASSUME NEW id \in Ids, NEW p \in Packets, InjectFinds(i, id, p) PROVE PacketInv'
  <2>1. PICK g : /\ thread' = [thread EXCEPT ![i] = g]
                 /\ g = [at |-> IF id \in DOMAIN manager THEN "arrive" ELSE "look", id |-> id,
                         packet |-> p, on |-> IF id \in DOMAIN manager THEN manager[id] ELSE NoPoint,
                         pt |-> NoPoint, left |-> 0, before |-> 0, others |-> 0, intact |-> TRUE,
                         expect |-> Expected(id), parser |-> registered]
    BY <1>6 DEF InjectFinds
  <2>2. g.on # NoPoint => g.on \in DOMAIN obj /\ obj[g.on].id = id
    BY <2>1 DEF PacketInv, ObjectInv, NoPoint
  <2>3. Loose(g)
    BY <2>1, <2>2 DEF Loose, Calm
  <2>4. Calm(thread[i]) /\ UNCHANGED <<obj, manager, settled, astray>>
    BY <1>6 DEF InjectFinds, Resting, Calm, points, counters, history
  <2>5. QED
    BY <1>3, <2>1, <2>3, <2>4
<1>7. QED
  BY <1>4, <1>5, <1>6

-----------------------------------------------------------------------------
(* The steps that count or settle a packet.                                 *)

(* Thread frame f has a packet counted on o that waits to be settled.       *)
Waits(f, o) == ~Calm(f) /\ f.on = o
Share(f, o) == IF Waits(f, o) THEN 1 ELSE 0

LEMMA PendingMoves ==
  ASSUME PacketInv, NEW t \in Threads, NEW g, thread' = [thread EXCEPT ![t] = g],
         NEW o \in Objs
  PROVE  /\ IsFiniteSet(Pending(o)') /\ Cardinality(Pending(o)) \in Nat
         /\ Cardinality(Pending(o)') = Cardinality(Pending(o)) - Share(thread[t], o) + Share(g, o)
<1>1. DOMAIN thread = Threads /\ IsFiniteSet(Pending(o))
  BY DEF PacketInv, ThreadInv, CountInv
<1>2. \A u : u \in Pending(o) <=> u \in Threads /\ Waits(thread[u], o)
  BY DEF Pending, Waits, Calm, Threads
<1>3. \A u : u \in Pending(o)' <=> u \in Threads /\ Waits(thread'[u], o)
  BY DEF Pending, Waits, Calm, Threads
<1>4. thread'[t] = g /\ \A u \in Threads : u # t => thread'[u] = thread[u]
  BY <1>1
<1>5. Cardinality(Pending(o)) \in Nat
  BY <1>1, FS_CardinalityType
<1>6. CASE Waits(thread[t], o) /\ Waits(g, o)
  <2>1. Pending(o)' = Pending(o)
    BY <1>2, <1>3, <1>4, <1>6
  <2>2. QED
    BY <1>1, <1>5, <1>6, <2>1 DEF Share
<1>7. CASE ~Waits(thread[t], o) /\ ~Waits(g, o)
  <2>1. Pending(o)' = Pending(o)
    BY <1>2, <1>3, <1>4, <1>7
  <2>2. QED
    BY <1>1, <1>5, <1>7, <2>1 DEF Share
<1>8. CASE Waits(thread[t], o) /\ ~Waits(g, o)
  <2>1. Pending(o)' = Pending(o) \ {t} /\ t \in Pending(o)
    BY <1>2, <1>3, <1>4, <1>8
  <2>2. QED
    BY <1>1, <1>5, <1>8, <2>1, FS_RemoveElement DEF Share
<1>9. CASE ~Waits(thread[t], o) /\ Waits(g, o)
  <2>1. Pending(o)' = Pending(o) \cup {t} /\ t \notin Pending(o)
    BY <1>2, <1>3, <1>4, <1>9
  <2>2. QED
    BY <1>1, <1>5, <1>9, <2>1, FS_AddElement DEF Share
<1>10. QED
  BY <1>6, <1>7, <1>8, <1>9

(* A thread goes on, and what it counts and settles of a registered object  *)
(* balances.                                                                *)
LEMMA AccountStep ==
  ASSUME PacketInv, UNCHANGED manager, NEW t \in Threads, NEW g,
         thread' = [thread EXCEPT ![t] = g], FrameInv(g)',
         IsSeq(obj'), DOMAIN obj' = DOMAIN obj, astray \subseteq astray',
         \A o \in DOMAIN obj : IsPoint(obj'[o]) /\ obj'[o].id = obj[o].id,
         settled' \in [Objs -> Nat], \A o \in Objs \ DOMAIN obj : settled'[o] = 0,
         \A o \in DOMAIN obj : Registered(o) /\ o \notin astray' =>
           obj'[o].packets - obj'[o].parseFailed - settled'[o] - Share(g, o)
             = obj[o].packets - obj[o].parseFailed - settled[o] - Share(thread[t], o)
  PROVE  PacketInv'
<1>1. \A o \in DOMAIN obj : Registered(o)' <=> Registered(o)
  BY DEF Registered
<1>2. ObjectInv'
  BY DEF PacketInv, ObjectInv
<1>3. /\ DOMAIN thread = Threads /\ DOMAIN thread' = Threads /\ thread'[t] = g
      /\ \A u \in Threads : u # t => thread'[u] = thread[u]
  BY DEF PacketInv, ThreadInv
<1>4. ASSUME NEW u \in Threads PROVE FrameInv(thread[u])'
  <2>1. CASE u = t
    <3>1. thread'[u] = g
      BY <1>3, <2>1
    <3>2. QED
      BY <3>1 DEF FrameInv
  <2>2. CASE u # t
    <3>1. thread'[u] = thread[u] /\ FrameInv(thread[u])
      BY <1>3, <2>2 DEF PacketInv, ThreadInv
    <3>2. QED
      BY <1>1, <3>1 DEF FrameInv
  <2>3. QED
    BY <2>1, <2>2
<1>5. ASSUME NEW o \in DOMAIN obj, Registered(o), o \notin astray' PROVE Balanced(o)'
  <2>1. Balanced(o) /\ o \in Objs
    BY <1>5 DEF PacketInv, CountInv, ObjectInv
  <2>2. /\ Cardinality(Pending(o)) \in Nat
        /\ Cardinality(Pending(o)') = Cardinality(Pending(o)) - Share(thread[t], o) + Share(g, o)
    BY <2>1, PendingMoves
  <2>3. /\ obj[o].packets \in Nat /\ obj[o].parseFailed \in Nat
        /\ obj'[o].packets \in Nat /\ obj'[o].parseFailed \in Nat
        /\ settled[o] \in Nat /\ settled'[o] \in Nat
    BY <2>1 DEF PacketInv, ObjectInv, IsPoint
  <2>4. Share(thread[t], o) \in Int /\ Share(g, o) \in Int
    BY DEF Share
  <2>5. obj'[o].packets - obj'[o].parseFailed - settled'[o] - Share(g, o)
          = obj[o].packets - obj[o].parseFailed - settled[o] - Share(thread[t], o)
    BY <1>5
  <2>6. obj[o].packets = obj[o].parseFailed + settled[o] + Cardinality(Pending(o))
    BY <2>1 DEF Balanced
  <2>7. obj'[o].packets = obj'[o].parseFailed + settled'[o] + Cardinality(Pending(o)')
    BY <2>2, <2>3, <2>4, <2>5, <2>6
  <2>8. QED
    BY <2>7 DEF Balanced
<1>6. \A o \in Objs : IsFiniteSet(Pending(o)')
  BY PendingMoves
<1>7. CountInv'
  BY <1>1, <1>5, <1>6 DEF CountInv
<1>8. QED
  BY <1>2, <1>3, <1>4, <1>7 DEF PacketInv, ThreadInv

(* What countPacket leaves of a point.                                      *)
LEMMA CountedPoint ==
  ASSUME NEW x, IsPoint(x), NEW p
  PROVE  LET y == Counted(x, p) IN
         /\ IsPoint(y) /\ y.id = x.id
         /\ y.packets = x.packets + 1 /\ y.parseFailed = x.parseFailed
  BY DEF IsPoint, Counted

(* recvfrom on a receive thread.                                            *)
LEMMA ReceiveInv ==
  ASSUME PacketInv, NEW o \in Objs, NEW p \in Packets, Receive(o, p)
  PROVE  PacketInv'
<1>1. /\ o \in DOMAIN obj /\ o \in Threads /\ IsPoint(obj[o])
      /\ UNCHANGED <<manager, settled, astray>>
  BY DEF Receive, points, history, Threads, PacketInv, ObjectInv
<1>2. o # NoPoint
  BY PointsAssumption, FS_CardinalityType DEF NoPoint
<1>3. CASE p.size = "none"
  <2>1. /\ obj' = [obj EXCEPT ![o].empty = @ + 1, ![o].dropped = @ + 1]
        /\ UNCHANGED thread
    BY <1>3 DEF Receive
  <2> DEFINE q == [[obj[o] EXCEPT !.empty = @ + 1] EXCEPT !.dropped = @ + 1]
  <2>2. obj' = [obj EXCEPT ![o] = q]
    BY <1>1, <2>1 DEF IsPoint
  <2>3. /\ IsPoint(q) /\ q.id = obj[o].id
        /\ q.packets = obj[o].packets /\ q.parseFailed = obj[o].parseFailed
    BY <1>1 DEF IsPoint
  <2> HIDE DEF q
  <2>4. DOMAIN obj' = DOMAIN obj /\ IsSeq(obj')
    BY <2>2, SameIndices DEF PacketInv, ObjectInv
  <2>5. KeepObjects
    BY <1>1, <2>2, <2>3, <2>4 DEF KeepObjects, PacketInv, ObjectInv
  <2>6. \A t \in Threads : Same(thread[t], thread'[t])
    BY <2>1 DEF Same
  <2>7. DOMAIN thread' = Threads
    BY <2>1 DEF PacketInv, ThreadInv
  <2>8. QED
    BY <1>1, <2>5, <2>6, <2>7, OtherStep
<1>4. CASE p.size # "none"
  <2> DEFINE q == Counted(obj[o], p)
  <2>1. PICK g : /\ obj' = [obj EXCEPT ![o] = q] /\ thread' = [thread EXCEPT ![o] = g]
                 /\ g = Handling(obj[o].id, p, o)
    BY <1>4 DEF Receive
  <2>2. /\ IsPoint(q) /\ q.id = obj[o].id
        /\ q.packets = obj[o].packets + 1 /\ q.parseFailed = obj[o].parseFailed
    BY <1>1, CountedPoint
  <2>3. /\ g.at = "find" /\ g.on = o /\ g.id = obj[o].id /\ g.packet = p
        /\ DOMAIN g = {"at", "id", "packet", "on", "pt", "left"}
    BY <2>1 DEF Handling
  <2> HIDE DEF q
  <2>4. DOMAIN obj' = DOMAIN obj /\ IsSeq(obj')
    BY <2>1, SameIndices DEF PacketInv, ObjectInv
  <2>5. /\ obj'[o] = q /\ \A k \in DOMAIN obj : k # o => obj'[k] = obj[k]
    BY <1>1, <2>1
  <2>6. \A k \in DOMAIN obj : IsPoint(obj'[k]) /\ obj'[k].id = obj[k].id
    BY <2>2, <2>5 DEF PacketInv, ObjectInv
  <2>7. FrameInv(g)'
    BY <1>1, <2>2, <2>3, <2>4, <2>5 DEF FrameInv
  <2>8. \A k : Share(thread[o], k) = 0 /\ Share(g, k) = IF k = o THEN 1 ELSE 0
    BY <2>3 DEF Share, Waits, Calm, Receive, Resting
  <2>9. ASSUME NEW k \in DOMAIN obj
        PROVE  obj'[k].packets - obj'[k].parseFailed - settled'[k] - Share(g, k)
                 = obj[k].packets - obj[k].parseFailed - settled[k] - Share(thread[o], k)
    <3>1. /\ obj[k].packets \in Nat /\ obj[k].parseFailed \in Nat /\ settled[k] \in Nat
          /\ settled'[k] = settled[k]
      BY <1>1 DEF PacketInv, ObjectInv, IsPoint
    <3>2. CASE k = o
      BY <2>2, <2>5, <2>8, <3>1, <3>2
    <3>3. CASE k # o
      <4>1. obj'[k] = obj[k] /\ Share(g, k) = 0 /\ Share(thread[o], k) = 0
        BY <2>5, <2>8, <3>3
      <4>2. QED
        BY <3>1, <4>1
    <3>4. QED
      BY <3>2, <3>3
  <2>10. settled' \in [Objs -> Nat] /\ \A k \in Objs \ DOMAIN obj : settled'[k] = 0
    BY <1>1 DEF PacketInv, ObjectInv
  <2>11. QED
    BY <1>1, <2>1, <2>4, <2>6, <2>7, <2>9, <2>10, AccountStep
<1>5. QED
  BY <1>3, <1>4

(* parsers.find and manager->get: a registered point is found under its id. *)
LEMMA FindInv ==
  ASSUME PacketInv, NEW t \in Threads, Find(t)
  PROVE  PacketInv'
<1> DEFINE f == thread[t]
           found == IF f.id \in DOMAIN manager THEN manager[f.id] ELSE NoPoint
<1>1. FrameInv(f) /\ f.at = "find" /\ UNCHANGED <<obj, manager, settled>>
  BY DEF Find, PacketInv, ThreadInv, points, counters
<1>2. /\ {"at", "id", "packet", "on", "pt", "left"} \subseteq DOMAIN f /\ f.packet \in Packets
      /\ f.on # NoPoint => f.on \in DOMAIN obj /\ f.id = obj[f.on].id
  BY <1>1 DEF FrameInv
<1>3. PICK at \in {"parse", "fail"} :
         thread' = [thread EXCEPT ![t] = [f EXCEPT !.at = at, !.pt = found]]
  <2>1. thread' = [thread EXCEPT ![t].at = IF registered THEN "parse" ELSE "fail", ![t].pt = found]
    BY DEF Find
  <2>2. t \in DOMAIN thread
    BY DEF PacketInv, ThreadInv
  <2>3. thread' = [thread EXCEPT ![t] = [f EXCEPT !.at = IF registered THEN "parse" ELSE "fail",
                                                  !.pt = found]]
    BY <2>1, <2>2
  <2>4. QED
    BY <2>3
<1>4. astray' = IF found \in {NoPoint, f.on} THEN astray ELSE astray \cup {found}
  BY DEF Find
<1>5. PICK g : g = [f EXCEPT !.at = at, !.pt = found]
  OBVIOUS
<1>6. /\ "at" \in DOMAIN g /\ {"id", "packet", "on", "pt", "left"} \subseteq DOMAIN g
      /\ g.at = at /\ g.pt = found /\ g.id = f.id /\ g.packet = f.packet /\ g.on = f.on
  BY <1>2, <1>5
<1>7. found # NoPoint => found \in DOMAIN obj
  BY DEF PacketInv, ObjectInv
<1>8. f.on # NoPoint /\ Registered(f.on) => found = f.on
  BY <1>2 DEF Registered
<1> HIDE DEF found
<1>9. FrameInv(g)'
  <2>1. Registered(g.on)' <=> Registered(g.on)
    BY <1>1 DEF Registered
  <2>2. QED
    BY <1>1, <1>2, <1>4, <1>6, <1>7, <1>8, <2>1 DEF FrameInv, Registered
<1>10. \A o : Share(g, o) = Share(f, o)
  BY <1>1, <1>3, <1>6 DEF Share, Waits, Calm
<1>11. thread' = [thread EXCEPT ![t] = g] /\ astray \subseteq astray'
  BY <1>3, <1>4, <1>5
<1> HIDE DEF f
<1>12. ObjectInv
  BY DEF PacketInv
<1>13. QED
  BY <1>1, <1>9, <1>10, <1>11, <1>12, AccountStep DEF f, ObjectInv

(* A frame with no packet to be settled satisfies the invariant.            *)
LEMMA LooseFrame ==
  ASSUME NEW g, Loose(g), DOMAIN obj' = DOMAIN obj, \A o \in DOMAIN obj : obj'[o].id = obj[o].id
  PROVE  FrameInv(g)' /\ \A o : Share(g, o) = 0
  BY DEF Loose, FrameInv, Share, Waits, Calm

LEMMA NoPointNowhere == ASSUME ObjectInv PROVE NoPoint \notin DOMAIN obj
  BY DEF ObjectInv, IsSeq, NoPoint

(* parser->parse: what is no failure is settled on the object the packet    *)
(* was counted on.                                                          *)
LEMMA ParseInv ==
  ASSUME PacketInv, NEW t \in Threads, Parse(t)
  PROVE  PacketInv'
<1>1. PICK f, g : /\ f = thread[t] /\ g = Parsed(t) /\ thread' = [thread EXCEPT ![t] = g]
  BY DEF Parse
<1>2. FrameInv(f) /\ f.at = "parse" /\ UNCHANGED <<obj, manager, astray>>
  BY <1>1 DEF Parse, PacketInv, ThreadInv, points, counters
<1>3. /\ {"at", "id", "packet", "on", "pt", "left"} \subseteq DOMAIN f /\ f.packet \in Packets
      /\ f.on # NoPoint => f.on \in DOMAIN obj /\ f.id = obj[f.on].id
  BY <1>2 DEF FrameInv
<1>4. f.packet.parse \in {"ok", "fails", "throws"}
  BY <1>3, PointsAssumption
<1>5. ObjectInv /\ NoPoint \notin DOMAIN obj
  BY NoPointNowhere DEF PacketInv
<1>6. \A o : Share(f, o) = IF f.on = o THEN 1 ELSE 0
  BY <1>2 DEF Share, Waits, Calm
<1>7. CASE f.packet.parse # "ok"
  <2>1. g = [f EXCEPT !.at = "fail"]
    BY <1>1, <1>4, <1>7 DEF Parsed
  <2>2. /\ DOMAIN g = DOMAIN f /\ g.at = "fail" /\ g.id = f.id /\ g.packet = f.packet
        /\ g.on = f.on /\ g.pt = f.pt
    BY <1>3, <2>1
  <2>3. FrameInv(g)'
    <3>1. Registered(g.on)' <=> Registered(g.on)
      BY <1>2 DEF Registered
    <3>2. QED
      BY <1>2, <2>2, <3>1 DEF FrameInv
  <2>4. \A o : Share(g, o) = Share(f, o)
    BY <1>6, <2>2 DEF Share, Waits, Calm
  <2>5. settled' = settled
    BY <1>1, <1>7 DEF Parse
  <2>6. QED
    BY <1>1, <1>2, <1>5, <2>3, <2>4, <2>5, AccountStep DEF ObjectInv
<1>8. CASE f.packet.parse = "ok"
  <2>1. Loose(g)
    <3>1. Loose(Leaves(t))
      BY <1>1, <1>2, LeavesLoose
    <3>2. Loose([f EXCEPT !.at = "event", !.left = f.packet.events])
      BY <1>2, Moved
    <3>3. g = Leaves(t) \/ g = [f EXCEPT !.at = "event", !.left = f.packet.events]
      BY <1>1, <1>8 DEF Parsed
    <3>4. QED
      BY <3>1, <3>2, <3>3
  <2>2. FrameInv(g)' /\ \A o : Share(g, o) = 0
    BY <1>2, <2>1, LooseFrame
  <2>3. settled' = IF f.on = NoPoint THEN settled ELSE [settled EXCEPT ![f.on] = @ + 1]
    BY <1>1, <1>8 DEF Parse, SettledBy
  <2>4. /\ settled' \in [Objs -> Nat] /\ \A k \in Objs \ DOMAIN obj : settled'[k] = 0
        /\ \A k \in DOMAIN obj : settled'[k] = IF k = f.on THEN settled[k] + 1 ELSE settled[k]
    <3>1. CASE f.on = NoPoint
      BY <1>5, <2>3, <3>1 DEF ObjectInv
    <3>2. CASE f.on # NoPoint
      <4>1. f.on \in DOMAIN obj /\ settled' = [settled EXCEPT ![f.on] = @ + 1]
        BY <1>3, <2>3, <3>2
      <4>2. /\ settled \in [Objs -> Nat] /\ DOMAIN obj \subseteq Objs
            /\ \A k \in Objs \ DOMAIN obj : settled[k] = 0
        BY <1>5 DEF ObjectInv
      <4>3. QED
        BY <4>1, <4>2
    <3>3. QED
      BY <3>1, <3>2
  <2>5. ASSUME NEW o \in DOMAIN obj
        PROVE  obj'[o].packets - obj'[o].parseFailed - settled'[o] - Share(g, o)
                 = obj[o].packets - obj[o].parseFailed - settled[o] - Share(thread[t], o)
    <3>1. obj[o].packets \in Nat /\ obj[o].parseFailed \in Nat /\ settled[o] \in Nat
      BY <1>5 DEF ObjectInv, IsPoint
    <3>2. obj' = obj /\ thread[t] = f
      BY <1>1, <1>2
    <3>3. CASE o = f.on
      <4>1. settled'[o] = settled[o] + 1 /\ Share(g, o) = 0 /\ Share(f, o) = 1
        BY <1>6, <2>2, <2>4, <3>3
      <4>2. QED
        BY <3>1, <3>2, <4>1
    <3>4. CASE o # f.on
      <4>1. settled'[o] = settled[o] /\ Share(g, o) = 0 /\ Share(f, o) = 0
        BY <1>6, <2>2, <2>4, <3>4
      <4>2. QED
        BY <3>1, <3>2, <4>1
    <3>5. QED
      BY <3>3, <3>4
  <2>6. /\ UNCHANGED manager /\ thread' = [thread EXCEPT ![t] = g] /\ FrameInv(g)'
        /\ IsSeq(obj') /\ DOMAIN obj' = DOMAIN obj /\ astray \subseteq astray'
        /\ \A o \in DOMAIN obj : IsPoint(obj'[o]) /\ obj'[o].id = obj[o].id
        /\ settled' \in [Objs -> Nat] /\ \A o \in Objs \ DOMAIN obj : settled'[o] = 0
    <3>1. IsSeq(obj) /\ \A o \in DOMAIN obj : IsPoint(obj[o])
      BY <1>5 DEF ObjectInv
    <3>2. obj' = obj /\ manager' = manager /\ astray' = astray
      BY <1>2
    <3>3. QED
      BY <1>1, <2>2, <2>4, <3>1, <3>2
  <2>7. QED
    BY <2>5, <2>6, AccountStep
<1>9. QED
  BY <1>7, <1>8

(* countParseFailed: on the object the packet was counted on, or on one     *)
(* that has a packet gone astray.                                           *)
LEMMA FailureInv ==
  ASSUME PacketInv, NEW t \in Threads, CountFailure(t)
  PROVE  PacketInv'
<1>1. PICK f, g : /\ f = thread[t] /\ g = Leaves(t) /\ thread' = [thread EXCEPT ![t] = g]
  BY DEF CountFailure
<1>2. /\ FrameInv(f) /\ f.at = "fail" /\ UNCHANGED <<manager, settled, astray>>
      /\ obj' = IF f.pt = NoPoint THEN obj ELSE [obj EXCEPT ![f.pt].parseFailed = @ + 1]
  BY <1>1 DEF CountFailure, PacketInv, ThreadInv, points, history
<1>3. /\ f.pt \notin {NoPoint, f.on} => f.pt \in astray
      /\ f.pt # NoPoint => f.pt \in DOMAIN obj
      /\ f.on # NoPoint /\ Registered(f.on) => f.pt = f.on
  BY <1>2 DEF FrameInv
<1>4. ObjectInv /\ NoPoint \notin DOMAIN obj
  BY NoPointNowhere DEF PacketInv
<1>5. \A o : Share(f, o) = IF f.on = o THEN 1 ELSE 0
  BY <1>2 DEF Share, Waits, Calm
<1>6. DOMAIN obj' = DOMAIN obj /\ IsSeq(obj')
  BY <1>2, <1>4, SameIndices DEF ObjectInv
<1>7. ASSUME NEW o \in DOMAIN obj
      PROVE  /\ IsPoint(obj'[o]) /\ obj'[o].id = obj[o].id /\ obj'[o].packets = obj[o].packets
             /\ obj'[o].parseFailed = IF o = f.pt THEN obj[o].parseFailed + 1
                                      ELSE obj[o].parseFailed
  <2> DEFINE q == [obj[o] EXCEPT !.parseFailed = @ + 1]
  <2>1. IsPoint(obj[o])
    BY <1>4 DEF ObjectInv
  <2>2. /\ IsPoint(q) /\ q.id = obj[o].id /\ q.packets = obj[o].packets
        /\ q.parseFailed = obj[o].parseFailed + 1
    BY <2>1 DEF IsPoint
  <2>3. o = f.pt => obj'[o] = q
    BY <1>2, <1>4
  <2>4. o # f.pt => obj'[o] = obj[o]
    BY <1>2
  <2> HIDE DEF q
  <2>5. QED
    BY <2>1, <2>2, <2>3, <2>4
<1>8. Loose(g)
  BY <1>1, <1>2, LeavesLoose
<1>9. FrameInv(g)' /\ \A o : Share(g, o) = 0
  BY <1>6, <1>7, <1>8, LooseFrame
<1>10. ASSUME NEW o \in DOMAIN obj, Registered(o), o \notin astray'
       PROVE  obj'[o].packets - obj'[o].parseFailed - settled'[o] - Share(g, o)
                = obj[o].packets - obj[o].parseFailed - settled[o] - Share(thread[t], o)
  <2>1. obj[o].packets \in Nat /\ obj[o].parseFailed \in Nat /\ settled[o] \in Nat
    BY <1>4 DEF ObjectInv, IsPoint
  <2>2. o = f.on <=> o = f.pt
    BY <1>2, <1>3, <1>4, <1>10
  <2>3. obj'[o].packets = obj[o].packets /\ settled'[o] = settled[o] /\ thread[t] = f
    BY <1>1, <1>2, <1>7
  <2>4. CASE o = f.pt
    <3>1. obj'[o].parseFailed = obj[o].parseFailed + 1 /\ Share(f, o) = 1 /\ Share(g, o) = 0
      BY <1>5, <1>7, <1>9, <2>2, <2>4
    <3>2. QED
      BY <2>1, <2>3, <3>1
  <2>5. CASE o # f.pt
    <3>1. obj'[o].parseFailed = obj[o].parseFailed /\ Share(f, o) = 0 /\ Share(g, o) = 0
      BY <1>5, <1>7, <1>9, <2>2, <2>5
    <3>2. QED
      BY <2>1, <2>3, <3>1
  <2>6. QED
    BY <2>4, <2>5
<1>11. settled' \in [Objs -> Nat] /\ \A o \in Objs \ DOMAIN obj : settled'[o] = 0
  BY <1>2, <1>4 DEF ObjectInv
<1>12. \A o \in DOMAIN obj : IsPoint(obj'[o]) /\ obj'[o].id = obj[o].id
  BY <1>7
<1>13. astray \subseteq astray' /\ UNCHANGED manager
  BY <1>2
<1>14. QED
  BY <1>1, <1>6, <1>9, <1>10, <1>11, <1>12, <1>13, AccountStep

(* countPacket of inject; an empty packet is settled at once.               *)
LEMMA ArriveInv ==
  ASSUME PacketInv, NEW i \in Injectors, InjectArrives(i)
  PROVE  PacketInv'
<1>1. i \in Threads /\ DOMAIN thread = Threads
  BY DEF PacketInv, ThreadInv, Threads
<1>2. PICK f, next : /\ f = thread[i]
                     /\ next = IF f.packet.size = "none" THEN "back" ELSE "find"
  OBVIOUS
<1>3. /\ FrameInv(f) /\ f.at = "arrive" /\ UNCHANGED <<manager, astray>>
      /\ obj' = IF f.on = NoPoint THEN obj ELSE [obj EXCEPT ![f.on] = Counted(@, f.packet)]
      /\ settled' = IF next = "back" THEN SettledBy(i) ELSE settled
  BY <1>1, <1>2 DEF InjectArrives, PacketInv, ThreadInv, points
<1>4. PICK g : /\ thread' = [thread EXCEPT ![i] = g]
               /\ g = [f EXCEPT !.before = totalEvents, !.others = 0, !.at = next]
  <2>1. thread' = [thread EXCEPT ![i].before = totalEvents, ![i].others = 0, ![i].at = next]
    BY <1>2 DEF InjectArrives
  <2>2. thread' = [thread EXCEPT ![i] = [f EXCEPT !.before = totalEvents, !.others = 0, !.at = next]]
    BY <1>1, <1>2, <2>1
  <2>3. QED
    BY <2>2
<1>5. /\ {"at", "id", "packet", "on", "pt", "left"} \subseteq DOMAIN f /\ f.packet \in Packets
      /\ f.on # NoPoint => f.on \in DOMAIN obj /\ f.id = obj[f.on].id
  BY <1>3 DEF FrameInv
<1>6. /\ {"at", "id", "packet", "on", "pt", "left"} \subseteq DOMAIN g /\ g.at = next
      /\ g.id = f.id /\ g.packet = f.packet /\ g.on = f.on
  BY <1>4, <1>5
<1>7. ObjectInv /\ NoPoint \notin DOMAIN obj
  BY NoPointNowhere DEF PacketInv
<1>8. DOMAIN obj' = DOMAIN obj /\ IsSeq(obj')
  BY <1>3, <1>7, SameIndices DEF ObjectInv
<1>9. ASSUME NEW o \in DOMAIN obj
      PROVE  /\ IsPoint(obj'[o]) /\ obj'[o].id = obj[o].id
             /\ obj'[o].parseFailed = obj[o].parseFailed
             /\ obj'[o].packets = IF o = f.on THEN obj[o].packets + 1 ELSE obj[o].packets
  <2> DEFINE q == Counted(obj[o], f.packet)
  <2>1. IsPoint(obj[o])
    BY <1>7 DEF ObjectInv
  <2>2. /\ IsPoint(q) /\ q.id = obj[o].id /\ q.packets = obj[o].packets + 1
        /\ q.parseFailed = obj[o].parseFailed
    BY <2>1, CountedPoint
  <2> HIDE DEF q
  <2>3. o = f.on => obj'[o] = q
    BY <1>3, <1>7 DEF q
  <2>4. o # f.on => obj'[o] = obj[o]
    BY <1>3
  <2>5. QED
    BY <2>1, <2>2, <2>3, <2>4
<1>10. FrameInv(g)'
  BY <1>2, <1>5, <1>6, <1>8, <1>9 DEF FrameInv
<1>11. /\ \A o : Share(f, o) = 0
       /\ \A o : Share(g, o) = IF next = "find" /\ o = f.on THEN 1 ELSE 0
  BY <1>2, <1>3, <1>6 DEF Share, Waits, Calm
<1>12. /\ settled' \in [Objs -> Nat] /\ \A k \in Objs \ DOMAIN obj : settled'[k] = 0
       /\ \A k \in DOMAIN obj : settled'[k] = IF next = "back" /\ k = f.on THEN settled[k] + 1
                                             ELSE settled[k]
  <2>1. /\ settled \in [Objs -> Nat] /\ DOMAIN obj \subseteq Objs
        /\ \A k \in Objs \ DOMAIN obj : settled[k] = 0
    BY <1>7 DEF ObjectInv
  <2>2. CASE next = "back" /\ f.on # NoPoint
    <3>1. f.on \in DOMAIN obj /\ settled' = [settled EXCEPT ![f.on] = @ + 1]
      BY <1>2, <1>3, <1>5, <2>2 DEF SettledBy
    <3>2. QED
      BY <2>1, <2>2, <3>1
  <2>3. CASE ~(next = "back" /\ f.on # NoPoint)
    <3>1. settled' = settled
      BY <1>2, <1>3, <2>3 DEF SettledBy
    <3>2. QED
      BY <1>7, <2>1, <2>3, <3>1
  <2>4. QED
    BY <2>2, <2>3
<1>13. ASSUME NEW o \in DOMAIN obj
       PROVE  obj'[o].packets - obj'[o].parseFailed - settled'[o] - Share(g, o)
                = obj[o].packets - obj[o].parseFailed - settled[o] - Share(thread[i], o)
  <2>1. obj[o].packets \in Nat /\ obj[o].parseFailed \in Nat /\ settled[o] \in Nat
    BY <1>7 DEF ObjectInv, IsPoint
  <2>2. obj'[o].parseFailed = obj[o].parseFailed /\ Share(thread[i], o) = 0
    BY <1>2, <1>9, <1>11
  <2>3. CASE o = f.on
    <3>1. obj'[o].packets = obj[o].packets + 1
      BY <1>9, <2>3
    <3>2. \/ settled'[o] = settled[o] + 1 /\ Share(g, o) = 0
          \/ settled'[o] = settled[o] /\ Share(g, o) = 1
      BY <1>2, <1>11, <1>12, <2>3
    <3>3. QED
      BY <2>1, <2>2, <3>1, <3>2
  <2>4. CASE o # f.on
    <3>1. obj'[o].packets = obj[o].packets /\ settled'[o] = settled[o] /\ Share(g, o) = 0
      BY <1>9, <1>11, <1>12, <2>4
    <3>2. QED
      BY <2>1, <2>2, <3>1
  <2>5. QED
    BY <2>3, <2>4
<1>14. \A o \in DOMAIN obj : IsPoint(obj'[o]) /\ obj'[o].id = obj[o].id
  BY <1>9
<1>15. UNCHANGED manager /\ astray \subseteq astray'
  BY <1>3
<1>16. thread' = [thread EXCEPT ![i] = g] /\ i \in Threads
  BY <1>1, <1>4
<1>17. settled' \in [Objs -> Nat] /\ \A k \in Objs \ DOMAIN obj : settled'[k] = 0
  BY <1>12
<1>18. QED
  BY <1>8, <1>10, <1>13, <1>14, <1>15, <1>16, <1>17, AccountStep

(* A new point: nothing was counted on its object yet.                      *)
LEMMA AddInv ==
  ASSUME PacketInv, NEW id \in Ids, AddPoint(id)
  PROVE  PacketInv'
<1> DEFINE n == Len(obj) + 1
           p == NewPoint(id)
<1>1. /\ obj' = Append(obj, p) /\ n \in Objs /\ id \notin DOMAIN manager
      /\ manager' = [k \in DOMAIN manager \cup {id} |-> IF k = id THEN n ELSE manager[k]]
      /\ thread' = Unsettle(thread, id) /\ UNCHANGED <<settled, astray>>
  BY DEF AddPoint
<1>2. ObjectInv /\ NoPoint \notin DOMAIN obj
  BY NoPointNowhere DEF PacketInv
<1>3. p.id = id /\ p.packets = 0 /\ p.parseFailed = 0 /\ IsPoint(p)
  BY DEF NewPoint, IsPoint
<1> HIDE DEF p
<1>4. /\ IsSeq(obj') /\ obj'[n] = p /\ Len(obj) \in Nat /\ DOMAIN obj = 1..Len(obj)
      /\ DOMAIN obj' = DOMAIN obj \cup {n}
      /\ \A o \in DOMAIN obj : obj'[o] = obj[o]
  BY <1>1, <1>2, Appended DEF ObjectInv
<1>5. n \notin DOMAIN obj /\ n # NoPoint
  BY <1>4 DEF NoPoint
<1> HIDE DEF n
<1>6. ObjectInv'
  BY <1>1, <1>2, <1>3, <1>4 DEF ObjectInv
<1>7. /\ DOMAIN thread = Threads
      /\ \A t \in Threads : FrameInv(thread[t]) /\ "at" \in DOMAIN thread[t]
  BY DEF PacketInv, ThreadInv, FrameInv
<1>8. DOMAIN thread' = Threads /\ \A t \in Threads : Same(thread[t], thread'[t])
  <2>1. /\ DOMAIN thread' = Threads
        /\ \A t \in Threads : \/ thread'[t] = thread[t]
                             \/ thread'[t] = [thread[t] EXCEPT !.expect = "either"]
    BY <1>1, <1>7 DEF Unsettle
  <2>2. QED
    BY <1>7, <2>1, MarkedSame
<1>9. \A o \in DOMAIN obj : Registered(o)' <=> Registered(o)
  BY <1>1, <1>4, <1>5 DEF Registered
<1>10. ASSUME NEW t \in Threads PROVE FrameInv(thread[t])'
  BY <1>1, <1>4, <1>7, <1>8, <1>9 DEF FrameInv, Same
<1>11. \A o : Pending(o)' = Pending(o)
  <2>1. ASSUME NEW o, NEW t \in Threads
        PROVE  (~Calm(thread'[t]) /\ thread'[t].on = o) <=> (~Calm(thread[t]) /\ thread[t].on = o)
    BY <1>8 DEF Same, Calm
  <2>2. QED
    BY <2>1 DEF Pending, Calm, Threads
<1>12. Pending(n) = {}
  <2>1. ASSUME NEW t \in Threads, ~Calm(thread[t]) PROVE thread[t].on # n
    BY <1>5, <1>7, <2>1 DEF FrameInv, Calm
  <2>2. QED
    BY <2>1 DEF Pending, Calm, Threads
<1>13. ASSUME NEW o \in DOMAIN obj', Registered(o)', o \notin astray PROVE Balanced(o)'
  <2>1. CASE o \in DOMAIN obj
    <3>1. Balanced(o) /\ obj'[o] = obj[o]
      BY <1>4, <1>9, <1>13, <2>1 DEF PacketInv, CountInv
    <3>2. QED
      BY <1>1, <1>11, <3>1 DEF Balanced
  <2>2. CASE o = n
    <3>1. obj'[o].packets = 0 /\ obj'[o].parseFailed = 0 /\ settled'[o] = 0
      BY <1>1, <1>2, <1>3, <1>4, <1>5, <2>2 DEF ObjectInv
    <3>2. Cardinality(Pending(o)') = 0
      BY <1>11, <1>12, <2>2, FS_EmptySet
    <3>3. QED
      BY <3>1, <3>2 DEF Balanced
  <2>3. QED
    BY <1>4, <2>1, <2>2
<1>14. CountInv'
  BY <1>1, <1>11, <1>13 DEF PacketInv, CountInv
<1>15. QED
  BY <1>6, <1>8, <1>10, <1>14 DEF PacketInv, ThreadInv

-----------------------------------------------------------------------------
(* The invariant and the theorem.                                          *)

LEMMA NextInv == PacketInv /\ [Next]_vars => PacketInv'
<1> SUFFICES ASSUME PacketInv, [Next]_vars PROVE PacketInv'
  OBVIOUS
<1>1. ASSUME NEW t \in Threads, Handle(t) PROVE PacketInv'
  BY <1>1, FindInv, ParseInv, FailureInv, EventInv DEF Handle
<1>2. ASSUME NEW i \in Injectors, Inject(i) PROVE PacketInv'
  BY <1>2, InjectInv, ArriveInv DEF Inject
<1>3. QED
  BY <1>1, <1>2, ReceiveInv, InjectInv, MarkInv, AddInv, JoinInv, AsideInv DEF Next, Threads

LEMMA Invariant == Spec => []PacketInv
  BY InitInv, NextInv, PTL DEF Spec

(* Every packet counted on a running point fails to parse and is counted as *)
(* that, or is parsed, or is at hand (ING-ACC-06): PacketsAccounted, for    *)
(* any number of access points, injectors and packets.                      *)
THEOREM EveryPacketAccounted == Spec => []PacketsAccounted
<1>1. PacketInv => PacketsAccounted
  <2> SUFFICES ASSUME PacketInv, NEW id \in DOMAIN manager, manager[id] \notin astray
               PROVE  Balanced(manager[id])
    BY DEF PacketsAccounted, Balanced
  <2>1. manager[id] \in DOMAIN obj /\ Registered(manager[id])
    BY DEF PacketInv, ObjectInv, Registered
  <2>2. QED
    BY <2>1 DEF PacketInv, CountInv
<1>2. QED
  BY <1>1, Invariant, PTL

-----------------------------------------------------------------------------
(* What inject and listPoints say of the points.                           *)

(* The id of the point that is being added or removed.                      *)
Busy == IF control = Idle THEN {} ELSE {control.id}

IsControl ==
  \/ control = Idle
  \/ control.id \in Ids /\ \/ control = [at |-> "added", id |-> control.id]
                           \/ control = [at |-> "removed", id |-> control.id,
                                          victim |-> control.victim]
                           \/ control = [at |-> "joined", id |-> control.id]

IsConfig(ps) == ps \in Seq(Ids) /\ \A j, k \in DOMAIN ps : ps[j] = ps[k] => j = k

(* Each point that nobody adds or removes is listed or has been removed.    *)
ConfigInv ==
  /\ IsConfig(cfg) /\ DOMAIN manager \subseteq Ids /\ removed \subseteq Ids /\ IsControl
  /\ \A id \in removed : id \notin DOMAIN manager /\ ~Listed(id) /\ id \notin Busy
  /\ \A id \in Ids : Listed(id) \/ id \in removed \/ id \in Busy
  /\ control.at \in {"removed", "joined"} => control.id \notin DOMAIN manager

-----------------------------------------------------------------------------
(* Lemmas: a finite set as a sequence.                                     *)

LEMMA SetAsSequence ==
  ASSUME NEW S, IsFiniteSet(S)
  PROVE  /\ SetToSeq(S) \in Seq(S) /\ Len(SetToSeq(S)) = Cardinality(S)
         /\ \A j, k \in DOMAIN SetToSeq(S) : SetToSeq(S)[j] = SetToSeq(S)[k] => j = k
         /\ \A x \in S : \E k \in DOMAIN SetToSeq(S) : SetToSeq(S)[k] = x
<1>1. PICK n \in Nat : n = Cardinality(S)
  BY FS_CardinalityType
<1>2. IsFiniteSet(1..n) /\ Cardinality(1..n) = n
  BY FS_Interval
<1>3. PICK b \in [1..n -> S] : IsInjective(b)
  <2>1. ExistsBijection(1..n, S)
    BY <1>1, <1>2, FS_SameCardinalityBij
  <2>2. \E b : b \in Bijection(1..n, S)
    BY <2>1, Zenon DEF ExistsBijection
  <2>3. QED
    BY <2>2 DEF Bijection, Injection
<1>4. PICK f : f = SetToSeq(S)
  OBVIOUS
<1>5. f \in [1..n -> S] /\ IsInjective(f)
  BY <1>1, <1>3, <1>4 DEF SetToSeq
<1>6. f \in Seq(S) /\ Len(f) = n /\ DOMAIN f = 1..n
  BY <1>1, <1>5
<1>7. f \in Surjection(1..n, S)
  <2>1. f \in Injection(1..n, S)
    BY <1>5 DEF Injection
  <2>2. QED
    BY <2>1, <1>1, <1>2, FS_Injection
<1>8. QED
  BY <1>1, <1>4, <1>5, <1>6, <1>7 DEF IsInjective, Surjection

(* What is written back of a point.                                         *)

LEMMA AppendConfig ==
  ASSUME IsConfig(cfg), NEW id \in Ids, ~Listed(id)
  PROVE  /\ IsConfig(Append(cfg, id))
         /\ \A x : (\E k \in DOMAIN Append(cfg, id) : Append(cfg, id)[k] = x)
                      <=> (Listed(x) \/ x = id)
<1>1. PICK s : s = Append(cfg, id)
  OBVIOUS
<1>2. /\ s \in Seq(Ids) /\ DOMAIN s = 1..(Len(cfg) + 1) /\ s[Len(cfg) + 1] = id
      /\ Len(cfg) \in Nat /\ DOMAIN cfg = 1..Len(cfg)
      /\ \A k \in 1..Len(cfg) : s[k] = cfg[k]
  BY <1>1 DEF IsConfig
<1>3. \A k \in 1..Len(cfg) : cfg[k] # id
  BY <1>2 DEF Listed
<1>4. ASSUME NEW j \in 1..(Len(cfg) + 1), NEW k \in 1..(Len(cfg) + 1), s[j] = s[k]
      PROVE  j = k
  BY <1>2, <1>3, <1>4 DEF IsConfig
<1>5. ASSUME NEW x PROVE (\E k \in DOMAIN s : s[k] = x) <=> (Listed(x) \/ x = id)
  <2>1. ASSUME NEW k \in 1..(Len(cfg) + 1), s[k] = x PROVE Listed(x) \/ x = id
    BY <1>2, <2>1 DEF Listed
  <2>2. ASSUME Listed(x) PROVE \E k \in DOMAIN s : s[k] = x
    <3>1. PICK k \in 1..Len(cfg) : cfg[k] = x
      BY <1>2, <2>2 DEF Listed
    <3>2. k \in DOMAIN s /\ s[k] = x
      BY <1>2, <3>1
    <3>3. QED
      BY <3>2
  <2>3. Len(cfg) + 1 \in DOMAIN s
    BY <1>2
  <2>4. QED
    BY <1>2, <2>1, <2>2, <2>3
<1>6. QED
  BY <1>1, <1>2, <1>4, <1>5 DEF IsConfig

LEMMA ErasedConfig ==
  ASSUME IsConfig(cfg), NEW id
  PROVE  /\ IsConfig(Erased(id))
         /\ \A x : (\E k \in DOMAIN Erased(id) : Erased(id)[k] = x) <=> (Listed(x) /\ x # id)
<1>1. CASE ~Listed(id)
  <2>1. Erased(id) = cfg
    BY <1>1 DEF Erased
  <2>2. QED
    BY <1>1, <2>1 DEF Listed
<1>2. CASE Listed(id)
  <2>0. Len(cfg) \in Nat /\ DOMAIN cfg = 1..Len(cfg) /\ cfg \in Seq(Ids)
    BY DEF IsConfig
  <2>1. PICK first : first = CHOOSE k \in DOMAIN cfg :
                       cfg[k] = id /\ \A j \in DOMAIN cfg : cfg[j] = id => k <= j
    OBVIOUS
  <2>2. \E k \in DOMAIN cfg : cfg[k] = id /\ \A j \in DOMAIN cfg : cfg[j] = id => k <= j
    BY <1>2, <2>0 DEF Listed, IsConfig
  <2>3. first \in 1..Len(cfg) /\ cfg[first] = id
    BY <2>0, <2>1, <2>2
  <2>4. PICK l, r : l = SubSeq(cfg, 1, first - 1) /\ r = SubSeq(cfg, first + 1, Len(cfg))
    OBVIOUS
  <2>5. PICK e : e = l \o r
    OBVIOUS
  <2>6. Erased(id) = e
    BY <1>2, <2>1, <2>4, <2>5 DEF Erased
  <2>7. /\ l \in Seq(Ids) /\ Len(l) = first - 1
        /\ \A k \in 1..(first - 1) : l[k] = cfg[k]
    BY <2>0, <2>3, <2>4
  <2>8. /\ r \in Seq(Ids) /\ Len(r) = Len(cfg) - first
        /\ \A k \in 1..(Len(cfg) - first) : r[k] = cfg[first + k]
    <3>1. first + 1 \in Int /\ Len(cfg) \in Int
          /\ \A k \in (first + 1)..Len(cfg) : cfg[k] \in Ids
      BY <2>0, <2>3
    <3>2. /\ r \in Seq(Ids)
          /\ Len(r) = IF first + 1 <= Len(cfg) THEN Len(cfg) - (first + 1) + 1 ELSE 0
          /\ \A k \in 1..(Len(cfg) - (first + 1) + 1) : r[k] = cfg[(first + 1) + k - 1]
      BY <2>4, <3>1, SubSeqProperties
    <3>3. Len(cfg) - (first + 1) + 1 = Len(cfg) - first
      BY <2>0, <2>3
    <3>4. ASSUME NEW k \in 1..(Len(cfg) - first) PROVE r[k] = cfg[first + k]
      <4>1. (first + 1) + k - 1 = first + k
        BY <2>0, <2>3
      <4>2. QED
        BY <3>2, <3>3, <4>1
    <3>5. Len(r) = Len(cfg) - first
      <4>1. Len(r) = IF first + 1 <= Len(cfg) THEN Len(cfg) - (first + 1) + 1 ELSE 0
        BY <3>2
      <4>2. first \in Nat /\ first <= Len(cfg) /\ Len(cfg) \in Nat
        BY <2>0, <2>3
      <4>3. QED
        BY <4>1, <4>2
    <3>6. QED
      BY <3>2, <3>4, <3>5
  <2>9. /\ e \in Seq(Ids) /\ DOMAIN e = 1..(Len(cfg) - 1)
        /\ \A k \in 1..(Len(cfg) - 1) : e[k] = IF k < first THEN cfg[k] ELSE cfg[k + 1]
    <3>0. /\ e \in Seq(Ids) /\ Len(e) = Len(l) + Len(r)
          /\ \A k \in 1..(Len(l) + Len(r)) : e[k] = IF k <= Len(l) THEN l[k] ELSE r[k - Len(l)]
      BY <2>5, <2>7, <2>8, ConcatProperties
    <3>1. DOMAIN e = 1..(Len(cfg) - 1) /\ Len(l) + Len(r) = Len(cfg) - 1
      BY <2>0, <2>3, <2>7, <2>8, <3>0
    <3>2. ASSUME NEW k \in 1..(Len(cfg) - 1), k < first PROVE e[k] = cfg[k]
      BY <2>0, <2>3, <2>7, <3>0, <3>1, <3>2
    <3>3. ASSUME NEW k \in 1..(Len(cfg) - 1), ~(k < first) PROVE e[k] = cfg[k + 1]
      <4>1. PICK m \in 1..(Len(cfg) - first) : m = k - Len(l)
        BY <2>0, <2>3, <2>7, <3>3
      <4>2. k \in 1..(Len(l) + Len(r)) /\ ~(k <= Len(l)) /\ first + m = k + 1
        BY <2>0, <2>3, <2>7, <3>1, <3>3, <4>1
      <4>3. r[m] = cfg[first + m]
        BY <2>8
      <4>4. QED
        BY <3>0, <4>1, <4>2, <4>3
    <3>4. QED
      BY <3>0, <3>1, <3>2, <3>3
  <2>10. ASSUME NEW k \in 1..(Len(cfg) - 1)
         PROVE  \E m \in 1..Len(cfg) : /\ m = (IF k < first THEN k ELSE k + 1)
                                       /\ m # first /\ e[k] = cfg[m]
    BY <2>0, <2>3, <2>9
  <2>11. ASSUME NEW j \in DOMAIN e, NEW k \in DOMAIN e, e[j] = e[k] PROVE j = k
    <3>1. PICK u \in 1..Len(cfg) : u = (IF j < first THEN j ELSE j + 1) /\ e[j] = cfg[u]
      BY <2>9, <2>10
    <3>2. PICK v \in 1..Len(cfg) : v = (IF k < first THEN k ELSE k + 1) /\ e[k] = cfg[v]
      BY <2>9, <2>10
    <3>3. u = v
      BY <2>0, <2>11, <3>1, <3>2 DEF IsConfig
    <3>4. QED
      BY <2>0, <2>3, <2>9, <3>1, <3>2, <3>3
  <2>12. ASSUME NEW k \in DOMAIN e PROVE Listed(e[k]) /\ e[k] # id
    <3>1. PICK u \in 1..Len(cfg) : u # first /\ e[k] = cfg[u]
      BY <2>9, <2>10
    <3>2. cfg[u] # id
      BY <2>0, <2>3, <3>1 DEF IsConfig
    <3>3. QED
      BY <2>0, <3>1, <3>2 DEF Listed
  <2>13. ASSUME NEW x, Listed(x), x # id PROVE \E k \in DOMAIN e : e[k] = x
    <3>1. PICK u \in 1..Len(cfg) : cfg[u] = x
      BY <2>0, <2>13 DEF Listed
    <3>2. CASE u < first
      <4>1. u \in DOMAIN e /\ e[u] = x
        BY <2>0, <2>3, <2>9, <3>1, <3>2
      <4>2. QED
        BY <4>1
    <3>3. CASE u > first
      <4>1. u - 1 \in 1..(Len(cfg) - 1) /\ ~(u - 1 < first) /\ (u - 1) + 1 = u
        BY <2>0, <2>3, <3>3
      <4>2. u - 1 \in DOMAIN e /\ e[u - 1] = x
        BY <2>9, <3>1, <4>1
      <4>3. QED
        BY <4>2
    <3>4. u # first
      BY <2>3, <2>13, <3>1
    <3>5. QED
      BY <2>0, <2>3, <3>2, <3>3, <3>4
  <2>14. QED
    BY <2>6, <2>9, <2>11, <2>12, <2>13 DEF IsConfig
<1>3. QED
  BY <1>1, <1>2

LEMMA InitConfig == Init => ConfigInv
<1> SUFFICES ASSUME Init PROVE ConfigInv
  OBVIOUS
<1>1. /\ cfg = SetToSeq(Ids) /\ removed = {} /\ control = Idle
      /\ DOMAIN manager = {cfg[1]}
  BY DEF Init
<1>2. /\ cfg \in Seq(Ids) /\ Len(cfg) = Cardinality(Ids)
      /\ \A j, k \in DOMAIN cfg : cfg[j] = cfg[k] => j = k
      /\ \A x \in Ids : \E k \in DOMAIN cfg : cfg[k] = x
  BY <1>1, SetAsSequence, PointsAssumption
<1>3. cfg[1] \in Ids
  <2>1. Cardinality(Ids) \in Nat /\ Cardinality(Ids) # 0
    BY PointsAssumption, FS_CardinalityType, FS_EmptySet
  <2>2. QED
    BY <1>2, <2>1
<1>4. QED
  BY <1>1, <1>2, <1>3 DEF ConfigInv, IsConfig, IsControl, Listed, Idle

LEMMA AddConfig ==
  ASSUME ConfigInv, NEW id \in Ids, AddPoint(id)
  PROVE  ConfigInv' /\ Busy' = {id} /\ removed' = removed \ {id}
<1>1. /\ control = Idle /\ control' = [at |-> "added", id |-> id]
      /\ DOMAIN manager' = DOMAIN manager \cup {id}
      /\ cfg' = cfg /\ removed' = removed \ {id}
  BY DEF AddPoint
<1>2. IsControl' /\ Busy' = {id} /\ Busy = {}
  BY <1>1 DEF IsControl, Busy, Idle
<1>3. \A x : Listed(x)' <=> Listed(x)
  BY <1>1 DEF Listed
<1>4. QED
  BY <1>1, <1>2, <1>3 DEF ConfigInv

LEMMA RemoveConfig ==
  ASSUME ConfigInv, NEW id \in Ids, RemovePoint(id)
  PROVE  ConfigInv' /\ Busy' = {id} /\ removed' = removed
<1>1. /\ control = Idle /\ control' = [at |-> "removed", id |-> id, victim |-> manager[id]]
      /\ id \in DOMAIN manager /\ DOMAIN manager' = DOMAIN manager \ {id}
      /\ cfg' = cfg /\ removed' = removed
  BY DEF RemovePoint, Restrict
<1>2. IsControl' /\ Busy' = {id} /\ Busy = {}
  BY <1>1 DEF IsControl, Busy, Idle
<1>3. \A x : Listed(x)' <=> Listed(x)
  BY <1>1 DEF Listed
<1>4. QED
  BY <1>1, <1>2, <1>3 DEF ConfigInv

LEMMA AddedConfig ==
  ASSUME ConfigInv, AddPointWritesBack
  PROVE  ConfigInv' /\ Busy' = {} /\ removed' = removed
<1>1. PICK id : id = control.id
  OBVIOUS
<1>2. /\ control.at = "added" /\ control' = Idle /\ UNCHANGED <<manager, removed>>
      /\ cfg' = IF Listed(id) THEN cfg ELSE Append(cfg, id)
  BY <1>1 DEF AddPointWritesBack, history
<1>3. id \in Ids /\ Busy = {id} /\ Busy' = {} /\ IsControl'
  BY <1>1, <1>2 DEF ConfigInv, IsControl, Busy, Idle
<1>4. IsConfig(cfg') /\ \A x : Listed(x)' <=> (Listed(x) \/ x = id)
  <2>1. CASE Listed(id)
    BY <1>2, <2>1 DEF ConfigInv, Listed
  <2>2. CASE ~Listed(id)
    <3>1. /\ IsConfig(Append(cfg, id))
          /\ \A x : (\E k \in DOMAIN Append(cfg, id) : Append(cfg, id)[k] = x)
                      <=> (Listed(x) \/ x = id)
      BY <1>3, <2>2, AppendConfig DEF ConfigInv
    <3>2. cfg' = Append(cfg, id)
      BY <1>2, <2>2
    <3>3. \A x : Listed(x)' <=> \E k \in DOMAIN cfg' : cfg'[k] = x
      BY DEF Listed
    <3>4. QED
      BY <3>1, <3>2, <3>3
  <2>3. QED
    BY <2>1, <2>2
<1>5. \A x \in removed : ~Listed(x)'
  BY <1>3, <1>4 DEF ConfigInv
<1>6. \A x \in Ids : Listed(x)' \/ x \in removed
  BY <1>3, <1>4 DEF ConfigInv
<1>7. QED
  BY <1>2, <1>3, <1>4, <1>5, <1>6 DEF ConfigInv, Idle

LEMMA RemovedConfig ==
  ASSUME ConfigInv, RemovePointWritesBack
  PROVE  /\ ConfigInv' /\ Busy' = {} /\ removed' = removed \cup Busy
         /\ \A x : Listed(x)' <=> (Listed(x) /\ x # control.id)
<1>1. PICK id : id = control.id
  OBVIOUS
<1>2. /\ control.at = "joined" /\ control' = Idle /\ UNCHANGED manager
      /\ removed' = removed \cup {id} /\ cfg' = Erased(id)
  BY <1>1 DEF RemovePointWritesBack
<1>3. id \in Ids /\ Busy = {id} /\ Busy' = {} /\ IsControl' /\ id \notin DOMAIN manager
  BY <1>1, <1>2 DEF ConfigInv, IsControl, Busy, Idle
<1>4. IsConfig(cfg') /\ \A x : Listed(x)' <=> (Listed(x) /\ x # id)
  <2>1. /\ IsConfig(Erased(id))
        /\ \A x : (\E k \in DOMAIN Erased(id) : Erased(id)[k] = x) <=> (Listed(x) /\ x # id)
    BY ErasedConfig DEF ConfigInv
  <2>2. \A x : Listed(x)' <=> \E k \in DOMAIN cfg' : cfg'[k] = x
    BY DEF Listed
  <2>3. QED
    BY <1>2, <2>1, <2>2
<1>5. QED
  BY <1>1, <1>2, <1>3, <1>4 DEF ConfigInv, Idle

LEMMA JoinConfig ==
  ASSUME ConfigInv, JoinVictim
  PROVE  ConfigInv' /\ Busy' = Busy /\ removed' = removed
<1>1. /\ control.at = "removed" /\ control' = [at |-> "joined", id |-> control.id]
      /\ UNCHANGED <<cfg, manager, removed>>
  BY DEF JoinVictim, history
<1>2. IsControl' /\ Busy' = Busy
  BY <1>1 DEF ConfigInv, IsControl, Busy, Idle
<1>3. \A x : Listed(x)' <=> Listed(x)
  BY <1>1 DEF Listed
<1>4. QED
  BY <1>1, <1>2, <1>3 DEF ConfigInv

(* The steps that leave the points alone.                                   *)
LEMMA SameConfig ==
  ASSUME ConfigInv, UNCHANGED <<cfg, manager, control, removed>>
  PROVE  ConfigInv' /\ Busy' = Busy
  BY DEF ConfigInv, IsControl, Busy, Listed

Elsewhere ==
  \/ Tick \/ ResetState \/ ChangeParsers
  \/ \E o \in Objs, p \in Packets : Receive(o, p)
  \/ \E t \in Threads : Handle(t)
  \/ \E i \in Injectors : Inject(i) \/ \E id \in Ids, p \in Packets : InjectFinds(i, id, p)
  \/ \E r \in Queriers : Query(r)
  \/ UNCHANGED vars

LEMMA ElsewhereConfig ==
  ASSUME Elsewhere
  PROVE  UNCHANGED <<cfg, manager, control, removed>>
<1>1. ASSUME NEW t \in Threads, Handle(t) PROVE UNCHANGED <<cfg, manager, control, removed>>
  BY <1>1 DEF Handle, Find, Parse, CountFailure, CountEvent, CountTotal, points, history
<1>2. ASSUME NEW i \in Injectors, Inject(i) PROVE UNCHANGED <<cfg, manager, control, removed>>
  BY <1>2 DEF Inject, InjectLooks, InjectArrives, InjectReturns, points, history
<1>3. QED
  BY <1>1, <1>2, QueriesLook DEF Elsewhere, Tick, ResetState, ChangeParsers, Receive, InjectFinds,
     vars, points, history

LEMMA NextConfig == ConfigInv /\ [Next]_vars => ConfigInv'
<1> SUFFICES ASSUME ConfigInv, [Next]_vars PROVE ConfigInv'
  OBVIOUS
<1>1. \/ Elsewhere \/ AddPointWritesBack \/ JoinVictim \/ RemovePointWritesBack
      \/ \E id \in Ids : AddPoint(id) \/ RemovePoint(id)
  BY DEF Next, Elsewhere, Threads
<1>2. QED
  BY <1>1, ElsewhereConfig, SameConfig, AddConfig, RemoveConfig, AddedConfig, RemovedConfig,
     JoinConfig

-----------------------------------------------------------------------------
(* What inject answers.                                                    *)

CallAt == {"look", "arrive", "find", "parse", "fail", "event", "total", "back"}

IsCall(f) ==
  /\ DOMAIN f = {"at", "id", "packet", "on", "pt", "left", "before", "others", "intact",
               "expect", "parser"}
  /\ f.id \in Ids /\ f.packet \in Packets /\ f.others \in Nat /\ f.intact \in BOOLEAN

(* The events a call gives.                                                 *)
Gives(f) ==
  IF f.parser /\ f.packet.size # "none" /\ f.packet.parse = "ok" THEN f.packet.events ELSE 0

(* The frame of an injector with an intact call: how far totalEvents        *)
(* (total) is past its first reading.  The parser is registered if reg.     *)
Counts(f, total, reg) ==
  /\ f.at \in {"idle", "returned"} \cup CallAt
  /\ f.at \in CallAt => IsCall(f)
  /\ f.at \in CallAt /\ f.intact =>
       /\ f.parser = reg
       /\ f.at \notin {"look", "arrive"} => f.before \in Nat
       /\ f.at \in {"find", "parse", "fail"} =>
            total = f.before + f.others /\ f.packet.size # "none"
       /\ f.at = "parse" => f.parser
       /\ f.at = "fail" => Gives(f) = 0
       /\ f.at \in {"event", "total"} =>
            f.left \in Nat \ {0} /\ total + f.left = f.before + f.others + Gives(f)
       /\ f.at = "back" => total = f.before + f.others + Gives(f)
  /\ f.at = "returned" /\ f.intact /\ f.result # -1 => f.result = f.events + f.others

(* What it expects of its point, where the points in gone have been removed *)
(* and those in busy are being added or removed.                            *)
Expects(f, gone, busy) ==
  /\ f.at \in CallAt =>
       /\ f.expect = "present" => f.id \notin gone /\ f.id \notin busy
       /\ f.expect = "absent" => f.at = "look" /\ f.id \in gone /\ f.id \notin busy
  /\ f.at = "returned" => /\ f.expect = "present" => f.result # -1 \/ ~f.intact
                          /\ f.expect = "absent" => f.result = -1

Answers(f, total, reg, gone, busy) == Counts(f, total, reg) /\ Expects(f, gone, busy)

InjectorInv ==
  /\ totalEvents \in Nat /\ registered \in BOOLEAN
  /\ \A i \in Injectors : Answers(thread[i], totalEvents, registered, removed, Busy)

AnswerInv == PacketInv /\ ConfigInv /\ InjectorInv

-----------------------------------------------------------------------------
(* Lemmas.                                                                 *)

(* The marks other threads leave on the frame of a call.                    *)
LEMMA MarkedAnswers ==
  ASSUME NEW f, NEW total, NEW reg, NEW gone, NEW busy, Answers(f, total, reg, gone, busy)
  PROVE  /\ f.at \notin CallAt => \A m, r, g, b : Answers(f, m, r, g, b)
         /\ f.at \in CallAt => \A m, r : Answers([f EXCEPT !.intact = FALSE], m, r, gone, busy)
         /\ f.at \in CallAt => \A g, b : Answers([f EXCEPT !.expect = "either"], total, reg, g, b)
         /\ f.at \in CallAt /\ total \in Nat =>
              Answers([f EXCEPT !.others = @ + 1], total + 1, reg, gone, busy)
<1>1. ASSUME f.at \notin CallAt PROVE \A m, r, g, b : Answers(f, m, r, g, b)
  BY <1>1 DEF Answers, Counts, Expects
<1>2. ASSUME f.at \in CallAt, NEW m, NEW r
      PROVE  Answers([f EXCEPT !.intact = FALSE], m, r, gone, busy)
  <2>1. PICK h : h = [f EXCEPT !.intact = FALSE]
    OBVIOUS
  <2>2. IsCall(f)
    BY <1>2 DEF Answers, Counts
  <2>3. /\ DOMAIN h = DOMAIN f /\ ~h.intact /\ h.intact \in BOOLEAN
        /\ h.at = f.at /\ h.id = f.id /\ h.packet = f.packet /\ h.expect = f.expect
        /\ h.others = f.others
    BY <2>1, <2>2 DEF IsCall
  <2>4. h.at # "returned"
    BY <1>2, <2>3 DEF CallAt
  <2>5. Counts(h, m, r)
    BY <1>2, <2>2, <2>3, <2>4 DEF Counts, IsCall
  <2>6. Expects(h, gone, busy)
    BY <2>3, <2>4 DEF Answers, Expects
  <2>7. QED
    BY <2>1, <2>5, <2>6 DEF Answers
<1>3. ASSUME f.at \in CallAt, NEW g, NEW b
      PROVE  Answers([f EXCEPT !.expect = "either"], total, reg, g, b)
  <2>1. PICK h : h = [f EXCEPT !.expect = "either"]
    OBVIOUS
  <2>2. IsCall(f)
    BY <1>3 DEF Answers, Counts
  <2>3. /\ DOMAIN h = DOMAIN f /\ h.at = f.at /\ h.id = f.id /\ h.packet = f.packet
        /\ h.left = f.left /\ h.before = f.before /\ h.intact = f.intact /\ h.parser = f.parser
        /\ h.others = f.others /\ h.expect = "either"
    BY <2>1, <2>2 DEF IsCall
  <2>4. h.at # "returned"
    BY <1>3, <2>3 DEF CallAt
  <2>5. Counts(h, total, reg)
    BY <2>3, <2>4 DEF Answers, Counts, IsCall, Gives
  <2>6. Expects(h, g, b)
    BY <2>3, <2>4 DEF Expects
  <2>7. QED
    BY <2>1, <2>5, <2>6 DEF Answers
<1>4. ASSUME f.at \in CallAt, total \in Nat
      PROVE  Answers([f EXCEPT !.others = @ + 1], total + 1, reg, gone, busy)
  <2>1. PICK h : h = [f EXCEPT !.others = @ + 1]
    OBVIOUS
  <2>2. IsCall(f)
    BY <1>4 DEF Answers, Counts
  <2>3. /\ DOMAIN h = DOMAIN f /\ h.at = f.at /\ h.id = f.id /\ h.packet = f.packet
        /\ h.left = f.left /\ h.before = f.before /\ h.intact = f.intact /\ h.parser = f.parser
        /\ h.expect = f.expect /\ h.others = f.others + 1 /\ f.others \in Nat
    BY <2>1, <2>2 DEF IsCall
  <2>4. h.at # "returned" /\ IsCall(h)
    BY <1>4, <2>2, <2>3 DEF CallAt, IsCall
  <2>5. Gives(h) = Gives(f) /\ Gives(f) \in Nat
    BY <2>2, <2>3, PointsAssumption DEF IsCall, Gives
  <2>6. ASSUME f.intact
        PROVE  /\ h.parser = reg
               /\ h.at \notin {"look", "arrive"} => h.before \in Nat
               /\ h.at \in {"find", "parse", "fail"} =>
                    total + 1 = h.before + h.others /\ h.packet.size # "none"
               /\ h.at = "parse" => h.parser
               /\ h.at = "fail" => Gives(h) = 0
               /\ h.at \in {"event", "total"} =>
                    h.left \in Nat \ {0} /\ total + 1 + h.left = h.before + h.others + Gives(h)
               /\ h.at = "back" => total + 1 = h.before + h.others + Gives(h)
    <3>1. /\ f.parser = reg
          /\ f.at \notin {"look", "arrive"} => f.before \in Nat
          /\ f.at \in {"find", "parse", "fail"} =>
               total = f.before + f.others /\ f.packet.size # "none"
          /\ f.at = "parse" => f.parser
          /\ f.at = "fail" => Gives(f) = 0
          /\ f.at \in {"event", "total"} =>
               f.left \in Nat \ {0} /\ total + f.left = f.before + f.others + Gives(f)
          /\ f.at = "back" => total = f.before + f.others + Gives(f)
      BY <1>4, <2>6 DEF Answers, Counts
    <3>2. PICK b, o, n, e : b = h.before /\ o = f.others /\ n = h.left /\ e = Gives(f)
      OBVIOUS
    <3>3. h.at \in {"find", "parse", "fail"} => total + 1 = b + (o + 1)
      BY <1>4, <2>3, <3>1, <3>2
    <3>4. h.at \in {"event", "total"} => total + 1 + n = b + (o + 1) + e
      BY <1>4, <2>3, <2>5, <3>1, <3>2
    <3>5. h.at = "back" => total + 1 = b + (o + 1) + e
      BY <1>4, <2>3, <2>5, <3>1, <3>2
    <3>6. QED
      BY <2>3, <2>5, <3>1, <3>2, <3>3, <3>4, <3>5
  <2>7. Counts(h, total + 1, reg)
    BY <1>4, <2>3, <2>4, <2>6 DEF Counts
  <2>8. Expects(h, gone, busy)
    BY <2>3, <2>4 DEF Answers, Expects
  <2>9. QED
    BY <2>1, <2>7, <2>8 DEF Answers
<1>5. QED
  BY <1>1, <1>2, <1>3, <1>4

(* An injector goes on with frame g, nothing else changes that a call looks *)
(* at.                                                                      *)
LEMMA OwnStep ==
  ASSUME AnswerInv, UNCHANGED <<totalEvents, registered, removed, control>>,
         NEW i \in Injectors, NEW g, thread' = [thread EXCEPT ![i] = g],
         Answers(g, totalEvents, registered, removed, Busy)
  PROVE  InjectorInv'
<1>1. Busy' = Busy
  BY DEF Busy
<1>2. DOMAIN thread = Threads
  BY DEF AnswerInv, PacketInv, ThreadInv
<1>3. \A j \in Injectors : thread'[j] = g \/ thread'[j] = thread[j]
  BY <1>2 DEF Threads
<1>4. QED
  BY <1>1, <1>3 DEF AnswerInv, InjectorInv

(* A step of something else: each call stays as it is or is marked.         *)
LEMMA OthersStep ==
  ASSUME AnswerInv, totalEvents' \in Nat, registered' \in BOOLEAN,
         UNCHANGED <<removed, control>>,
         \A i \in Injectors :
            \/ thread'[i] = thread[i] /\ thread[i].at \notin CallAt
            \/ thread'[i] = thread[i] /\ UNCHANGED <<totalEvents, registered>>
            \/ thread'[i] = [thread[i] EXCEPT !.intact = FALSE] /\ thread[i].at \in CallAt
  PROVE  InjectorInv'
<1>1. Busy' = Busy
  BY DEF Busy
<1>2. ASSUME NEW i \in Injectors
      PROVE  Answers(thread'[i], totalEvents', registered', removed', Busy')
  <2>1. Answers(thread[i], totalEvents, registered, removed, Busy)
    BY DEF AnswerInv, InjectorInv
  <2>2. CASE thread'[i] = thread[i] /\ thread[i].at \notin CallAt
    BY <1>1, <2>1, <2>2, MarkedAnswers
  <2>3. CASE thread'[i] = thread[i] /\ UNCHANGED <<totalEvents, registered>>
    BY <1>1, <2>1, <2>3
  <2>4. CASE thread'[i] = [thread[i] EXCEPT !.intact = FALSE] /\ thread[i].at \in CallAt
    <3>1. PICK f, m, r : f = thread[i] /\ m = totalEvents' /\ r = registered'
      OBVIOUS
    <3>2. Answers([f EXCEPT !.intact = FALSE], m, r, removed, Busy)
      BY <2>1, <2>4, <3>1, MarkedAnswers
    <3>3. QED
      BY <1>1, <2>4, <3>1, <3>2
  <2>5. QED
    BY <2>2, <2>3, <2>4
<1>3. QED
  BY <1>2 DEF InjectorInv

LEMMA RestsOrCalls ==
  ASSUME AnswerInv, NEW i \in Injectors
  PROVE  Resting(i) <=> thread[i].at \notin CallAt
  BY DEF AnswerInv, InjectorInv, Answers, Counts, Resting, CallAt

-----------------------------------------------------------------------------
(* The steps of the injectors.                                             *)

LEMMA FindsAnswers ==
  ASSUME AnswerInv, NEW i \in Injectors, NEW id \in Ids, NEW p \in Packets, InjectFinds(i, id, p)
  PROVE  InjectorInv'
<1>1. PICK on : on = IF id \in DOMAIN manager THEN manager[id] ELSE NoPoint
  OBVIOUS
<1>2. PICK at : at = IF id \in DOMAIN manager THEN "arrive" ELSE "look"
  OBVIOUS
<1>3. PICK g : g = [at |-> at, id |-> id, packet |-> p, on |-> on, pt |-> NoPoint, left |-> 0,
                    before |-> 0, others |-> 0, intact |-> TRUE,
                    expect |-> Expected(id), parser |-> registered]
  OBVIOUS
<1>4. thread' = [thread EXCEPT ![i] = g] /\ UNCHANGED <<totalEvents, registered, removed, control>>
  BY <1>1, <1>2, <1>3 DEF InjectFinds, points, counters, history
<1>5. /\ g.at = at /\ g.id = id /\ g.packet = p /\ g.intact /\ g.others = 0
      /\ g.expect = Expected(id)
      /\ g.parser = registered /\ IsCall(g)
  BY <1>3 DEF IsCall
<1>6. Counts(g, totalEvents, registered)
  BY <1>2, <1>5 DEF Counts, CallAt
<1>7. Expects(g, removed, Busy)
  <2>1. Expected(id) = "present" => id \notin removed /\ id \notin Busy
    BY DEF Expected, Busy
  <2>2. Expected(id) = "absent" => id \in removed /\ id \notin Busy
    BY DEF Expected, Busy
  <2>3. id \in removed => at = "look"
    BY <1>2 DEF AnswerInv, ConfigInv
  <2>4. QED
    BY <1>2, <1>5, <2>1, <2>2, <2>3 DEF Expects, CallAt
<1>8. QED
  BY <1>4, <1>6, <1>7, OwnStep DEF Answers

LEMMA LooksAnswers ==
  ASSUME AnswerInv, NEW i \in Injectors, InjectLooks(i)
  PROVE  InjectorInv'
<1>1. PICK f : f = thread[i]
  OBVIOUS
<1>2. /\ f.at = "look" /\ UNCHANGED <<totalEvents, registered, removed, control>>
      /\ thread' = [thread EXCEPT ![i] = IF Listed(f.id) THEN [f EXCEPT !.at = "arrive"]
                                         ELSE Returned(i, -1)]
  BY <1>1 DEF InjectLooks, points, counters, history
<1>3. Answers(f, totalEvents, registered, removed, Busy) /\ IsCall(f)
  BY <1>1, <1>2 DEF AnswerInv, InjectorInv, Answers, Counts, CallAt
<1>4. CASE Listed(f.id)
  <2>1. PICK g : g = [f EXCEPT !.at = "arrive"]
    OBVIOUS
  <2>2. /\ g.at = "arrive" /\ DOMAIN g = DOMAIN f /\ g.id = f.id /\ g.packet = f.packet
        /\ g.intact = f.intact /\ g.others = f.others /\ g.expect = f.expect /\ g.parser = f.parser
    BY <1>3, <2>1 DEF IsCall
  <2>3. Counts(g, totalEvents, registered)
    BY <1>2, <1>3, <2>2 DEF Answers, Counts, IsCall, CallAt
  <2>4. f.expect # "absent"
    BY <1>2, <1>3, <1>4 DEF Answers, Expects, AnswerInv, ConfigInv, CallAt
  <2>5. Expects(g, removed, Busy)
    BY <1>2, <1>3, <2>2, <2>4 DEF Answers, Expects, CallAt
  <2>6. QED
    BY <1>2, <1>4, <2>1, <2>3, <2>5, OwnStep DEF Answers
<1>5. CASE ~Listed(f.id)
  <2>1. PICK g : g = Returned(i, -1)
    OBVIOUS
  <2>2. g.at = "returned" /\ g.result = -1 /\ g.expect = f.expect
    BY <1>1, <2>1 DEF Returned
  <2>3. f.expect # "present"
    BY <1>2, <1>3, <1>5 DEF Answers, Expects, AnswerInv, ConfigInv, CallAt, IsCall
  <2>4. Answers(g, totalEvents, registered, removed, Busy)
    BY <2>2, <2>3 DEF Answers, Counts, Expects, CallAt
  <2>5. QED
    BY <1>2, <1>5, <2>1, <2>4, OwnStep
<1>6. QED
  BY <1>4, <1>5

LEMMA ArrivesAnswers ==
  ASSUME AnswerInv, NEW i \in Injectors, InjectArrives(i)
  PROVE  InjectorInv'
<1>1. PICK f : f = thread[i]
  OBVIOUS
<1>2. PICK g : g = [f EXCEPT !.before = totalEvents, !.others = 0,
                             !.at = IF f.packet.size = "none" THEN "back" ELSE "find"]
  OBVIOUS
<1>3. /\ f.at = "arrive" /\ UNCHANGED <<totalEvents, registered, removed, control>>
      /\ thread' = [thread EXCEPT ![i] = g]
  <2>1. DOMAIN thread = Threads /\ i \in Threads
    BY DEF AnswerInv, PacketInv, ThreadInv, Threads
  <2>2. QED
    BY <1>1, <1>2, <2>1 DEF InjectArrives, points
<1>4. Answers(f, totalEvents, registered, removed, Busy) /\ IsCall(f)
  BY <1>1, <1>3 DEF AnswerInv, InjectorInv, Answers, Counts, CallAt
<1>5. /\ g.at = (IF f.packet.size = "none" THEN "back" ELSE "find") /\ DOMAIN g = DOMAIN f
      /\ g.id = f.id /\ g.packet = f.packet /\ g.intact = f.intact /\ g.others = 0
      /\ g.expect = f.expect
      /\ g.parser = f.parser /\ g.before = totalEvents
  BY <1>2, <1>4 DEF IsCall
<1>6. totalEvents \in Nat
  BY DEF AnswerInv, InjectorInv
<1>7. f.packet.size = "none" => Gives(g) = 0
  BY <1>5 DEF Gives
<1>8. Counts(g, totalEvents, registered)
  BY <1>3, <1>4, <1>5, <1>6, <1>7 DEF Answers, Counts, IsCall, CallAt
<1>9. Expects(g, removed, Busy)
  BY <1>3, <1>4, <1>5 DEF Answers, Expects, CallAt
<1>10. QED
  BY <1>3, <1>8, <1>9, OwnStep DEF Answers

LEMMA ReturnsAnswers ==
  ASSUME AnswerInv, NEW i \in Injectors, InjectReturns(i)
  PROVE  InjectorInv'
<1>1. PICK f : f = thread[i]
  OBVIOUS
<1>2. PICK g : g = Returned(i, totalEvents - f.before)
  OBVIOUS
<1>3. /\ f.at = "back" /\ UNCHANGED <<totalEvents, registered, removed, control>>
      /\ thread' = [thread EXCEPT ![i] = g]
  BY <1>1, <1>2 DEF InjectReturns, points, counters, history
<1>4. Answers(f, totalEvents, registered, removed, Busy) /\ IsCall(f)
  BY <1>1, <1>3 DEF AnswerInv, InjectorInv, Answers, Counts, CallAt
<1>5. /\ g.at = "returned" /\ g.result = totalEvents - f.before /\ g.intact = f.intact
      /\ g.others = f.others /\ g.expect = f.expect /\ g.events = Gives(f)
  BY <1>1, <1>2 DEF Returned, Gives
<1>6. Gives(f) \in Nat /\ f.others \in Nat
  BY <1>4, PointsAssumption DEF IsCall, Gives
<1>7. f.intact => g.result = Gives(f) + f.others
  <2> SUFFICES ASSUME f.intact PROVE g.result = Gives(f) + f.others
    OBVIOUS
  <2>1. f.before \in Nat /\ totalEvents = f.before + f.others + Gives(f)
    BY <1>3, <1>4 DEF Answers, Counts, CallAt
  <2>2. QED
    BY <1>5, <1>6, <2>1
<1>8. f.expect # "absent"
  BY <1>3, <1>4 DEF Answers, Expects, CallAt
<1>9. Answers(g, totalEvents, registered, removed, Busy)
  BY <1>5, <1>6, <1>7, <1>8 DEF Answers, Counts, Expects, CallAt
<1>10. QED
  BY <1>3, <1>9, OwnStep

LEMMA HandleAnswers ==
  ASSUME AnswerInv, NEW i \in Injectors, Find(i) \/ Parse(i) \/ CountFailure(i) \/ CountEvent(i)
  PROVE  InjectorInv'
<1>1. PICK f : f = thread[i]
  OBVIOUS
<1>2. UNCHANGED <<totalEvents, registered, removed, control>>
  BY DEF Find, Parse, CountFailure, CountEvent, points, counters, history
<1>3. f.at \in {"find", "parse", "fail", "event"}
  BY <1>1 DEF Find, Parse, CountFailure, CountEvent
<1>4. Answers(f, totalEvents, registered, removed, Busy) /\ IsCall(f)
  BY <1>1, <1>3 DEF AnswerInv, InjectorInv, Answers, Counts, CallAt
<1>5. DOMAIN thread = Threads /\ i \in Threads
  BY DEF AnswerInv, PacketInv, ThreadInv, Threads
<1>6. /\ f.expect # "absent" /\ registered \in BOOLEAN
      /\ f.expect = "present" => f.id \notin removed /\ f.id \notin Busy
  BY <1>3, <1>4 DEF Answers, Expects, CallAt, AnswerInv, InjectorInv
<1>7. f.packet \in [size : {"none", "fits", "over"}, parse : {"ok", "fails", "throws"},
                    events : Nat]
  BY <1>4, PointsAssumption DEF IsCall
<1>8. CASE Find(i)
  <2>1. PICK pt : thread' = [thread EXCEPT ![i].at = IF registered THEN "parse" ELSE "fail",
                                           ![i].pt = pt]
    BY <1>8 DEF Find
  <2>2. PICK g : g = [f EXCEPT !.at = IF registered THEN "parse" ELSE "fail", !.pt = pt]
    OBVIOUS
  <2>3. thread' = [thread EXCEPT ![i] = g] /\ f.at = "find"
    BY <1>1, <1>5, <1>8, <2>1, <2>2 DEF Find
  <2>4. /\ g.at = (IF registered THEN "parse" ELSE "fail") /\ DOMAIN g = DOMAIN f
        /\ g.id = f.id /\ g.packet = f.packet /\ g.intact = f.intact
        /\ g.others = f.others /\ g.expect = f.expect
        /\ g.parser = f.parser /\ g.before = f.before
    BY <1>4, <2>2 DEF IsCall
  <2>5. Counts(g, totalEvents, registered)
    BY <1>4, <1>6, <2>3, <2>4 DEF Answers, Counts, IsCall, CallAt, Gives
  <2>6. Expects(g, removed, Busy)
    BY <1>6, <2>4 DEF Expects, CallAt
  <2>7. QED
    BY <1>2, <2>3, <2>5, <2>6, OwnStep DEF Answers
<1>9. CASE Parse(i)
  <2>1. PICK g : g = Parsed(i)
    OBVIOUS
  <2>2. thread' = [thread EXCEPT ![i] = g] /\ f.at = "parse"
    BY <1>1, <1>9, <2>1 DEF Parse
  <2>3. PICK p : p = f.packet
    OBVIOUS
  <2>4. \/ p.parse # "ok" /\ g = [f EXCEPT !.at = "fail"]
        \/ p.parse = "ok" /\ p.events > 0 /\ g = [f EXCEPT !.at = "event", !.left = p.events]
        \/ p.parse = "ok" /\ p.events = 0 /\ g = [f EXCEPT !.at = "back"]
    BY <1>1, <1>7, <2>1, <2>3 DEF Parsed, Leaves
  <2>5. /\ DOMAIN g = DOMAIN f /\ g.id = f.id /\ g.packet = f.packet /\ g.intact = f.intact
        /\ g.others = f.others /\ g.expect = f.expect /\ g.parser = f.parser /\ g.before = f.before
        /\ \/ p.parse # "ok" /\ g.at = "fail"
           \/ p.parse = "ok" /\ p.events > 0 /\ g.at = "event" /\ g.left = p.events
           \/ p.parse = "ok" /\ p.events = 0 /\ g.at = "back"
    BY <1>4, <2>4 DEF IsCall
  <2>6. ASSUME f.intact
        PROVE  /\ f.parser /\ f.parser = registered /\ f.before \in Nat
               /\ totalEvents = f.before + f.others /\ p.size # "none" /\ p.events \in Nat
               /\ Gives(g) = IF p.parse = "ok" THEN p.events ELSE 0
    <3>1. /\ f.parser /\ f.parser = registered /\ f.before \in Nat
          /\ totalEvents = f.before + f.others /\ p.size # "none"
      BY <1>4, <2>2, <2>3, <2>6 DEF Answers, Counts, CallAt
    <3>2. QED
      BY <1>7, <2>3, <2>5, <3>1 DEF Gives
  <2>7. Counts(g, totalEvents, registered)
    BY <1>4, <2>3, <2>5, <2>6 DEF Counts, IsCall, CallAt
  <2>8. Expects(g, removed, Busy)
    BY <1>6, <2>5 DEF Expects, CallAt
  <2>9. QED
    BY <1>2, <2>2, <2>7, <2>8, OwnStep DEF Answers
<1>10. CASE CountFailure(i)
  <2>1. PICK g : g = [f EXCEPT !.at = "back"]
    OBVIOUS
  <2>2. thread' = [thread EXCEPT ![i] = g] /\ f.at = "fail"
    BY <1>1, <1>10, <2>1 DEF CountFailure, Leaves
  <2>3. /\ g.at = "back" /\ DOMAIN g = DOMAIN f /\ g.id = f.id /\ g.packet = f.packet
        /\ g.intact = f.intact /\ g.others = f.others /\ g.expect = f.expect
        /\ g.parser = f.parser /\ g.before = f.before
    BY <1>4, <2>1 DEF IsCall
  <2>4. Gives(g) = Gives(f)
    BY <2>3 DEF Gives
  <2>5. f.intact => f.before + f.others + 0 = f.before + f.others
    BY <1>4, <2>2 DEF Answers, Counts, CallAt, IsCall
  <2>6. Counts(g, totalEvents, registered)
    BY <1>4, <2>2, <2>3, <2>4, <2>5 DEF Answers, Counts, IsCall, CallAt
  <2>7. Expects(g, removed, Busy)
    BY <1>6, <2>3 DEF Expects, CallAt
  <2>8. QED
    BY <1>2, <2>2, <2>6, <2>7, OwnStep DEF Answers
<1>11. CASE CountEvent(i)
  <2>1. PICK g : g = [f EXCEPT !.at = "total"]
    OBVIOUS
  <2>2. thread' = [thread EXCEPT ![i] = g] /\ f.at = "event"
    BY <1>1, <1>5, <1>11, <2>1 DEF CountEvent
  <2>3. /\ g.at = "total" /\ DOMAIN g = DOMAIN f /\ g.id = f.id /\ g.packet = f.packet
        /\ g.intact = f.intact /\ g.others = f.others /\ g.expect = f.expect
        /\ g.parser = f.parser /\ g.before = f.before
        /\ g.left = f.left
    BY <1>4, <2>1 DEF IsCall
  <2>4. Gives(g) = Gives(f)
    BY <2>3 DEF Gives
  <2>5. Counts(g, totalEvents, registered)
    BY <1>4, <2>2, <2>3, <2>4 DEF Answers, Counts, IsCall, CallAt
  <2>6. Expects(g, removed, Busy)
    BY <1>6, <2>3 DEF Expects, CallAt
  <2>7. QED
    BY <1>2, <2>2, <2>5, <2>6, OwnStep DEF Answers
<1>12. QED
  BY <1>8, <1>9, <1>10, <1>11

(* totalEvents goes up, on an injector or a receive thread.                 *)
LEMMA TotalAnswers ==
  ASSUME AnswerInv, NEW t \in Threads, CountTotal(t)
  PROVE  InjectorInv'
<1>1. PICK f : f = thread[t]
  OBVIOUS
<1>2. PICK g : g = IF f.left = 1 THEN Leaves(t) ELSE [f EXCEPT !.at = "event", !.left = @ - 1]
  OBVIOUS
<1>3. /\ f.at = "total" /\ totalEvents' = totalEvents + 1
      /\ thread' = Join([thread EXCEPT ![t] = g], Injectors \ {t})
      /\ UNCHANGED <<registered, removed, control>>
  BY <1>1, <1>2 DEF CountTotal, Raised, LastRound, points, history
<1>4. DOMAIN thread = Threads
  BY DEF AnswerInv, PacketInv, ThreadInv
<1>5. Busy' = Busy /\ totalEvents' \in Nat /\ totalEvents \in Nat
  BY <1>3 DEF Busy, AnswerInv, InjectorInv
<1>6. ASSUME NEW i \in Injectors, i # t
      PROVE  Answers(thread'[i], totalEvents', registered', removed', Busy')
  <2>1. Answers(thread[i], totalEvents, registered, removed, Busy)
    BY DEF AnswerInv, InjectorInv
  <2>2. \/ thread'[i] = thread[i] /\ thread[i].at \notin CallAt
        \/ thread'[i] = [thread[i] EXCEPT !.others = @ + 1] /\ thread[i].at \in CallAt
    BY <1>3, <1>4, <1>6, RestsOrCalls DEF Join, Threads
  <2>3. PICK h, m : h = thread[i] /\ m = totalEvents'
    OBVIOUS
  <2>4. /\ h.at \notin CallAt => Answers(h, m, registered, removed, Busy)
        /\ h.at \in CallAt => Answers([h EXCEPT !.others = @ + 1], m, registered, removed, Busy)
    BY <1>3, <1>5, <2>1, <2>3, MarkedAnswers
  <2>5. QED
    BY <1>3, <1>5, <2>2, <2>3, <2>4
<1>7. ASSUME t \in Injectors
      PROVE  Answers(thread'[t], totalEvents', registered', removed', Busy')
  <2>1. thread'[t] = g
    BY <1>3, <1>4 DEF Join
  <2>2. Answers(f, totalEvents, registered, removed, Busy) /\ IsCall(f)
    BY <1>1, <1>3, <1>7 DEF AnswerInv, InjectorInv, Answers, Counts, CallAt
  <2>3. /\ DOMAIN g = DOMAIN f /\ g.id = f.id /\ g.packet = f.packet /\ g.intact = f.intact
        /\ g.others = f.others /\ g.expect = f.expect /\ g.parser = f.parser /\ g.before = f.before
        /\ \/ f.left = 1 /\ g.at = "back"
           \/ f.left # 1 /\ g.at = "event" /\ g.left = f.left - 1
    <3>1. g = IF f.left = 1 THEN [f EXCEPT !.at = "back"]
              ELSE [f EXCEPT !.at = "event", !.left = @ - 1]
      BY <1>1, <1>2, <1>7 DEF Leaves
    <3>2. QED
      BY <2>2, <3>1 DEF IsCall
  <2>4. Gives(g) = Gives(f) /\ Gives(f) \in Nat
    BY <2>2, <2>3, PointsAssumption DEF IsCall, Gives
  <2>5. ASSUME f.intact
        PROVE  /\ f.parser = registered /\ f.before \in Nat /\ f.left \in Nat \ {0}
               /\ totalEvents + f.left = f.before + f.others + Gives(f)
    BY <1>3, <2>2, <2>5 DEF Answers, Counts, CallAt
  <2>6. ASSUME f.intact
        PROVE  /\ f.left = 1 => totalEvents' = f.before + f.others + Gives(f)
               /\ f.left # 1 => /\ f.left - 1 \in Nat \ {0}
                                /\ totalEvents' + (f.left - 1) = f.before + f.others + Gives(f)
    BY <1>3, <1>5, <2>4, <2>5, <2>6
  <2>7. Counts(g, totalEvents', registered')
    BY <1>3, <2>2, <2>3, <2>4, <2>5, <2>6 DEF Counts, IsCall, CallAt
  <2>8. Expects(g, removed', Busy')
    BY <1>3, <1>5, <2>2, <2>3 DEF Answers, Expects, CallAt
  <2>9. QED
    BY <2>1, <2>7, <2>8 DEF Answers
<1>8. QED
  BY <1>3, <1>5, <1>6, <1>7 DEF InjectorInv, AnswerInv

-----------------------------------------------------------------------------
(* The other steps.                                                        *)

(* The points change: a call that looks at one of them is marked, and the   *)
(* others go on expecting what they did.                                    *)
LEMMA PointsStep ==
  ASSUME AnswerInv, UNCHANGED <<totalEvents, registered>>,
         \A i \in Injectors :
           \/ thread'[i] = thread[i]
              /\ (thread[i].at \in CallAt /\ Expects(thread[i], removed, Busy) =>
                    Expects(thread[i], removed', Busy'))
           \/ thread'[i] = [thread[i] EXCEPT !.expect = "either"] /\ thread[i].at \in CallAt
  PROVE  InjectorInv'
<1>1. ASSUME NEW i \in Injectors
      PROVE  Answers(thread'[i], totalEvents', registered', removed', Busy')
  <2>1. PICK f, gone, busy : f = thread[i] /\ gone = removed' /\ busy = Busy'
    OBVIOUS
  <2>2. Answers(f, totalEvents, registered, removed, Busy)
    BY <2>1 DEF AnswerInv, InjectorInv
  <2>3. CASE f.at \notin CallAt
    <3>1. Answers(f, totalEvents, registered, gone, busy)
      BY <2>2, <2>3, MarkedAnswers
    <3>2. QED
      BY <2>1, <2>3, <3>1
  <2>4. CASE f.at \in CallAt /\ thread'[i] = [f EXCEPT !.expect = "either"]
    <3>1. Answers([f EXCEPT !.expect = "either"], totalEvents, registered, gone, busy)
      BY <2>2, <2>4, MarkedAnswers
    <3>2. QED
      BY <2>1, <2>4, <3>1
  <2>5. CASE f.at \in CallAt /\ thread'[i] = f /\ Expects(f, gone, busy)
    BY <2>1, <2>2, <2>5 DEF Answers
  <2>6. QED
    BY <2>1, <2>2, <2>3, <2>4, <2>5 DEF Answers
<1>2. QED
  BY <1>1 DEF AnswerInv, InjectorInv

(* addPoint and removePoint take or give up an id.                          *)
LEMMA ChangeAnswers ==
  ASSUME AnswerInv, NEW id \in Ids, AddPoint(id) \/ RemovePoint(id)
  PROVE  InjectorInv'
<1>1. /\ Busy' = {id} /\ removed' \in {removed, removed \ {id}} /\ control = Idle
      /\ thread' = Unsettle(thread, id) /\ UNCHANGED <<totalEvents, registered>>
  BY AddConfig, RemoveConfig DEF AnswerInv, AddPoint, RemovePoint, counters
<1>2. DOMAIN thread = Threads /\ Busy = {}
  BY <1>1 DEF AnswerInv, PacketInv, ThreadInv, Busy
<1>3. ASSUME NEW i \in Injectors
      PROVE  \/ thread'[i] = thread[i]
                /\ (thread[i].at \in CallAt /\ Expects(thread[i], removed, Busy) =>
                      Expects(thread[i], removed', Busy'))
             \/ thread'[i] = [thread[i] EXCEPT !.expect = "either"] /\ thread[i].at \in CallAt
  <2>1. CASE thread[i].at \in CallAt /\ thread[i].id = id
    BY <1>1, <1>2, <2>1, RestsOrCalls DEF Unsettle, Threads
  <2>2. CASE ~(thread[i].at \in CallAt /\ thread[i].id = id)
    <3>1. thread'[i] = thread[i]
      BY <1>1, <1>2, <2>2, RestsOrCalls DEF Unsettle, Threads
    <3>2. ASSUME thread[i].at \in CallAt, Expects(thread[i], removed, Busy)
          PROVE  Expects(thread[i], removed', Busy')
      BY <1>1, <1>2, <2>2, <3>2 DEF Expects
    <3>3. QED
      BY <3>1, <3>2
  <2>3. QED
    BY <2>1, <2>2
<1>4. QED
  BY <1>1, <1>3, PointsStep

LEMMA ControlAnswers ==
  ASSUME AnswerInv, AddPointWritesBack \/ JoinVictim \/ RemovePointWritesBack
  PROVE  InjectorInv'
<1>1. UNCHANGED <<thread, totalEvents, registered>>
  BY DEF AddPointWritesBack, JoinVictim, RemovePointWritesBack, counters
<1>2. Busy' \subseteq Busy /\ removed' \in {removed, removed \cup Busy} /\ removed \cap Busy' = {}
      /\ (removed' = removed \/ Busy' = {})
  BY AddedConfig, JoinConfig, RemovedConfig DEF AnswerInv, ConfigInv
<1>3. ASSUME NEW i \in Injectors, thread[i].at \in CallAt, Expects(thread[i], removed, Busy)
      PROVE  Expects(thread[i], removed', Busy')
  BY <1>2, <1>3 DEF Expects
<1>4. QED
  BY <1>1, <1>3, PointsStep

LEMMA MarkAnswers ==
  ASSUME AnswerInv, ResetState \/ ChangeParsers
  PROVE  InjectorInv'
<1>1. UNCHANGED <<removed, control>> /\ totalEvents' \in Nat /\ registered' \in BOOLEAN
  <2>1. totalEvents \in Nat /\ registered \in BOOLEAN
    BY DEF AnswerInv, InjectorInv
  <2>2. CASE ResetState
    BY <2>1, <2>2 DEF ResetState, points, history
  <2>3. CASE ChangeParsers
    BY <2>1, <2>3 DEF ChangeParsers, counters, history
  <2>4. QED
    BY <2>2, <2>3
<1>2. DOMAIN thread = Threads
  BY DEF AnswerInv, PacketInv, ThreadInv
<1>3. ASSUME NEW i \in Injectors
      PROVE  \/ thread'[i] = thread[i] /\ thread[i].at \notin CallAt
             \/ thread'[i] = [thread[i] EXCEPT !.intact = FALSE] /\ thread[i].at \in CallAt
  BY <1>2, RestsOrCalls DEF ResetState, ChangeParsers, Disturb, Threads
<1>4. QED
  BY <1>1, <1>3, OthersStep

(* A receive thread has a packet, or nothing happens to the calls.          *)
LEMMA AsideAnswers ==
  ASSUME AnswerInv,
         \/ Tick \/ UNCHANGED vars \/ \E r \in Queriers : Query(r)
         \/ \E o \in Objs : \/ \E p \in Packets : Receive(o, p)
                            \/ Find(o) \/ Parse(o) \/ CountFailure(o) \/ CountEvent(o)
  PROVE  InjectorInv'
<1>1. UNCHANGED <<totalEvents, registered, removed, control>>
  BY QueriesLook DEF Tick, vars, Receive, Find, Parse, CountFailure, CountEvent, points, counters,
     history
<1>2. ASSUME NEW i \in Injectors PROVE thread'[i] = thread[i]
  <2>1. DOMAIN thread = Objs \cup Injectors /\ \A o \in Objs : i # o
    BY PointsAssumption DEF AnswerInv, PacketInv, ThreadInv, Threads
  <2>2. \A o \in Objs : (\E p \in Packets : Receive(o, p)) => thread'[i] = thread[i]
    BY <2>1 DEF Receive
  <2>3. \A o \in Objs : Find(o) \/ Parse(o) \/ CountFailure(o) \/ CountEvent(o)
                         => thread'[i] = thread[i]
    BY <2>1 DEF Find, Parse, CountFailure, CountEvent
  <2>4. QED
    BY <2>2, <2>3, QueriesLook DEF Tick, vars
<1>3. QED
  BY <1>1, <1>2, OthersStep DEF AnswerInv, InjectorInv

LEMMA NextAnswers == AnswerInv /\ [Next]_vars => InjectorInv'
<1> SUFFICES ASSUME AnswerInv, [Next]_vars PROVE InjectorInv'
  OBVIOUS
<1>1. ASSUME NEW t \in Threads, Handle(t) PROVE InjectorInv'
  <2>1. CASE CountTotal(t)
    BY <2>1, TotalAnswers
  <2>2. CASE t \in Injectors /\ (Find(t) \/ Parse(t) \/ CountFailure(t) \/ CountEvent(t))
    BY <2>2, HandleAnswers
  <2>3. CASE t \in Objs /\ (Find(t) \/ Parse(t) \/ CountFailure(t) \/ CountEvent(t))
    BY <2>3, AsideAnswers
  <2>4. QED
    BY <1>1, <2>1, <2>2, <2>3 DEF Handle, Threads
<1>2. ASSUME NEW i \in Injectors, Inject(i) PROVE InjectorInv'
  BY <1>2, LooksAnswers, ArrivesAnswers, ReturnsAnswers DEF Inject
<1>3. ASSUME NEW i \in Injectors, NEW id \in Ids, NEW p \in Packets, InjectFinds(i, id, p)
      PROVE  InjectorInv'
  BY <1>3, FindsAnswers
<1>4. ASSUME NEW id \in Ids, AddPoint(id) \/ RemovePoint(id) PROVE InjectorInv'
  BY <1>4, ChangeAnswers
<1>5. CASE AddPointWritesBack \/ JoinVictim \/ RemovePointWritesBack
  BY <1>5, ControlAnswers
<1>6. CASE ResetState \/ ChangeParsers
  BY <1>6, MarkAnswers
<1>7. ASSUME NEW o \in Objs, NEW p \in Packets, Receive(o, p) PROVE InjectorInv'
  BY <1>7, AsideAnswers
<1>8. CASE Tick \/ UNCHANGED vars \/ \E r \in Queriers : Query(r)
  BY <1>8, AsideAnswers
<1>9. QED
  BY <1>1, <1>2, <1>3, <1>4, <1>5, <1>6, <1>7, <1>8 DEF Next, Threads

LEMMA InitAnswers == Init => InjectorInv
<1> SUFFICES ASSUME Init PROVE InjectorInv
  OBVIOUS
<1>1. totalEvents = 0 /\ registered = TRUE /\ \A i \in Injectors : thread[i] = Idle
  BY DEF Init
<1>2. Idle.at = "idle"
  BY DEF Idle
<1>3. QED
  BY <1>1, <1>2 DEF InjectorInv, Answers, Counts, Expects, CallAt

LEMMA AnswerInvariant == Spec => []AnswerInv
<1>1. Init => AnswerInv
  BY InitInv, InitConfig, InitAnswers DEF AnswerInv
<1>2. AnswerInv /\ [Next]_vars => AnswerInv'
  BY NextInv, NextConfig, NextAnswers DEF AnswerInv
<1>3. QED
  BY <1>1, <1>2, PTL DEF Spec

(* What inject returns is -1 for a point that has been removed, and for one *)
(* that is there the number of events its bytes gave and of those other     *)
(* threads produced meanwhile (InjectAnswers), as long as no resetState and *)
(* no change of the parsers falls into the call; for any number of access   *)
(* points, injecting threads and packets.                                   *)
THEOREM InjectTellsTheEvents == Spec => []InjectAnswers
<1>1. AnswerInv => InjectAnswers
  <2> SUFFICES ASSUME AnswerInv, NEW i \in Injectors, thread[i].at = "returned"
               PROVE  /\ thread[i].expect = "absent" => thread[i].result = -1
                      /\ thread[i].intact =>
                           \/ thread[i].result = thread[i].events + thread[i].others
                           \/ thread[i].result = -1 /\ thread[i].expect # "present"
    BY DEF InjectAnswers
  <2>1. Answers(thread[i], totalEvents, registered, removed, Busy)
    BY DEF AnswerInv, InjectorInv
  <2>2. QED
    BY <2>1 DEF Answers, Counts, Expects
<1>2. QED
  BY <1>1, AnswerInvariant, PTL

-----------------------------------------------------------------------------
(* What listPoints shows.                                                  *)

(* The points in the map run; the one being removed is another.             *)
UpInv ==
  /\ \A id \in DOMAIN manager : obj[manager[id]].up = TRUE
  /\ control.at = "removed" =>
       control.victim \in DOMAIN obj /\ obj[control.victim].id = control.id

QueryFields ==
  {"at", "op", "left", "got", "time", "stayed", "configured", "fresh", "behind"}

(* A query has read, or has still to read, each point that stays.           *)
Reads(q, map) ==
  /\ DOMAIN q = QueryFields
  /\ DOMAIN q.left \subseteq Ids /\ DOMAIN q.got \subseteq Ids
  /\ \A id \in q.stayed :
       /\ id \in DOMAIN map
       /\ IF id \in DOMAIN q.left THEN q.left[id] = map[id]
          ELSE id \in DOMAIN q.got /\ q.got[id].up = TRUE

Shown(q) ==
  /\ \A j, k \in DOMAIN q.list : q.list[j].id = q.list[k].id => j = k
  /\ \A id \in q.stayed : \E k \in DOMAIN q.list : q.list[k] = [id |-> id, up |-> TRUE]
  /\ \A id \in q.configured : \E k \in DOMAIN q.list : q.list[k].id = id

SoundQuery(q, map) ==
  /\ q.at = "reading" => Reads(q, map) /\ \A id \in q.configured : Listed(id)
  /\ q.at = "listed" => Shown(q)

QueryInv == DOMAIN query = Queriers /\ \A r \in Queriers : SoundQuery(query[r], manager)

ListInv == PacketInv /\ ConfigInv /\ UpInv /\ QueryInv

-----------------------------------------------------------------------------
(* The list.                                                               *)

LEMMA WholeList ==
  ASSUME IsConfig(cfg), NEW got, DOMAIN got \subseteq Ids
  PROVE  /\ \A j, k \in DOMAIN Entries(got) : Entries(got)[j].id = Entries(got)[k].id => j = k
         /\ \A id : id \in DOMAIN got /\ got[id].up = TRUE =>
               \E k \in DOMAIN Entries(got) : Entries(got)[k] = [id |-> id, up |-> TRUE]
         /\ \A id : Listed(id) => \E k \in DOMAIN Entries(got) : Entries(got)[k].id = id
<1>1. PICK known : known = {cfg[k] : k \in DOMAIN cfg}
  OBVIOUS
<1>2. PICK rest : rest = SetToSeq(DOMAIN got \ known)
  OBVIOUS
<1>3. PICK order : order = cfg \o rest
  OBVIOUS
<1>4. cfg \in Seq(Ids) /\ Len(cfg) \in Nat /\ DOMAIN cfg = 1..Len(cfg)
      /\ \A j, k \in 1..Len(cfg) : cfg[j] = cfg[k] => j = k
  BY DEF IsConfig
<1>5. /\ rest \in Seq(DOMAIN got \ known)
      /\ \A j, k \in DOMAIN rest : rest[j] = rest[k] => j = k
      /\ \A x \in DOMAIN got \ known : \E k \in DOMAIN rest : rest[k] = x
  <2>1. IsFiniteSet(DOMAIN got \ known)
    BY PointsAssumption, FS_Subset
  <2>2. QED
    BY <1>2, <2>1, SetAsSequence
<1>6. rest \in Seq(Ids) /\ Len(rest) \in Nat /\ DOMAIN rest = 1..Len(rest)
      /\ \A k \in 1..Len(rest) : rest[k] \in DOMAIN got \ known
  BY <1>5
<1>7. /\ DOMAIN order = 1..(Len(cfg) + Len(rest))
      /\ \A k \in 1..(Len(cfg) + Len(rest)) :
            order[k] = IF k <= Len(cfg) THEN cfg[k] ELSE rest[k - Len(cfg)]
  <2>1. order \in Seq(Ids) /\ Len(order) = Len(cfg) + Len(rest)
        /\ \A k \in 1..(Len(cfg) + Len(rest)) :
              order[k] = IF k <= Len(cfg) THEN cfg[k] ELSE rest[k - Len(cfg)]
    BY <1>3, <1>4, <1>6, ConcatProperties
  <2>2. DOMAIN order = 1..Len(order)
    BY <2>1
  <2>3. QED
    BY <2>1, <2>2
<1>8. PICK list : list = Entries(got)
  OBVIOUS
<1>9. /\ DOMAIN list = DOMAIN order
      /\ \A k \in DOMAIN order :
            list[k] = [id |-> order[k], up |-> order[k] \in DOMAIN got /\ got[order[k]].up]
  BY <1>1, <1>2, <1>3, <1>8 DEF Entries
<1>10. \A k \in DOMAIN order : list[k].id = order[k]
  BY <1>9
<1>11. \A k \in 1..Len(cfg) : k \in DOMAIN order /\ order[k] = cfg[k] /\ order[k] \in known
  BY <1>1, <1>4, <1>6, <1>7
<1>12. ASSUME NEW m \in 1..Len(rest)
       PROVE  /\ Len(cfg) + m \in DOMAIN order /\ order[Len(cfg) + m] = rest[m]
              /\ order[Len(cfg) + m] \notin known
  <2>1. Len(cfg) + m \in 1..(Len(cfg) + Len(rest)) /\ ~(Len(cfg) + m <= Len(cfg))
        /\ (Len(cfg) + m) - Len(cfg) = m
    BY <1>4, <1>6
  <2>2. QED
    BY <1>6, <1>7, <2>1
<1>13. ASSUME NEW k \in DOMAIN order
       PROVE  k \in 1..Len(cfg) \/ \E m \in 1..Len(rest) : k = Len(cfg) + m
  <2>1. CASE k <= Len(cfg)
    BY <1>4, <1>6, <1>7, <2>1
  <2>2. CASE ~(k <= Len(cfg))
    <3>1. k - Len(cfg) \in 1..Len(rest) /\ k = Len(cfg) + (k - Len(cfg))
      BY <1>4, <1>6, <1>7, <2>2
    <3>2. QED
      BY <3>1
  <2>3. QED
    BY <2>1, <2>2
<1>14. ASSUME NEW j \in DOMAIN order, NEW k \in DOMAIN order, order[j] = order[k] PROVE j = k
  <2>1. CASE j \in 1..Len(cfg) /\ k \in 1..Len(cfg)
    BY <1>4, <1>11, <1>14, <2>1
  <2>2. ASSUME NEW m \in 1..Len(rest), NEW n \in 1..Len(rest), j = Len(cfg) + m, k = Len(cfg) + n
        PROVE  j = k
    BY <1>5, <1>6, <1>12, <1>14, <2>2
  <2>3. ASSUME NEW m \in 1..Len(rest), j \in 1..Len(cfg), k = Len(cfg) + m PROVE FALSE
    BY <1>11, <1>12, <1>14, <2>3
  <2>4. ASSUME NEW m \in 1..Len(rest), k \in 1..Len(cfg), j = Len(cfg) + m PROVE FALSE
    BY <1>11, <1>12, <1>14, <2>4
  <2>5. QED
    BY <1>13, <2>1, <2>2, <2>3, <2>4
<1>15. ASSUME NEW id, id \in DOMAIN got \/ Listed(id)
       PROVE  \E k \in DOMAIN order : order[k] = id
  <2>1. CASE Listed(id)
    <3>1. PICK k \in 1..Len(cfg) : cfg[k] = id
      BY <1>4, <2>1 DEF Listed
    <3>2. QED
      BY <1>11, <3>1
  <2>2. CASE ~Listed(id)
    <3>1. id \in DOMAIN got \ known
      BY <1>1, <1>15, <2>2 DEF Listed
    <3>2. PICK m \in 1..Len(rest) : rest[m] = id
      BY <1>5, <1>6, <3>1
    <3>3. QED
      BY <1>12, <3>2
  <2>3. QED
    BY <2>1, <2>2
<1>16. ASSUME NEW id, id \in DOMAIN got, got[id].up = TRUE
       PROVE  \E k \in DOMAIN list : list[k] = [id |-> id, up |-> TRUE]
  <2>1. PICK k \in DOMAIN order : order[k] = id
    BY <1>15, <1>16
  <2>2. (order[k] \in DOMAIN got /\ got[order[k]].up) = TRUE
    BY <1>16, <2>1
  <2>3. list[k] = [id |-> id, up |-> TRUE]
    BY <1>9, <2>1, <2>2
  <2>4. QED
    BY <1>9, <2>3
<1>17. \A j, k \in DOMAIN list : list[j].id = list[k].id => j = k
  BY <1>9, <1>10, <1>14
<1>18. ASSUME NEW id, Listed(id) PROVE \E k \in DOMAIN list : list[k].id = id
  BY <1>9, <1>10, <1>15, <1>18
<1>19. /\ \A id : id \in DOMAIN got /\ got[id].up = TRUE =>
             \E k \in DOMAIN list : list[k] = [id |-> id, up |-> TRUE]
       /\ \A id : Listed(id) => \E k \in DOMAIN list : list[k].id = id
  BY <1>16, <1>18
<1>20. QED
  BY <1>8, <1>17, <1>19

-----------------------------------------------------------------------------
(* Steps that only count: the objects stay up and keep their ids.           *)

LEMMA CountingKeeps ==
  ASSUME PacketInv,
         \/ UNCHANGED obj
         \/ \E o \in Objs, p \in Packets : Receive(o, p)
         \/ \E t \in Threads : CountFailure(t) \/ CountEvent(t)
         \/ \E i \in Injectors : InjectArrives(i)
  PROVE  /\ DOMAIN obj' = DOMAIN obj
         /\ \A o \in DOMAIN obj : obj'[o].up = obj[o].up /\ obj'[o].id = obj[o].id
<1>1. \A o \in DOMAIN obj : IsPoint(obj[o])
  BY DEF PacketInv, ObjectInv
<1>2. CASE UNCHANGED obj
  BY <1>2
<1>3. ASSUME NEW o \in Objs, NEW p \in Packets, Receive(o, p)
      PROVE  /\ DOMAIN obj' = DOMAIN obj
             /\ \A q \in DOMAIN obj : obj'[q].up = obj[q].up /\ obj'[q].id = obj[q].id
  <2>1. \/ obj' = [obj EXCEPT ![o].empty = @ + 1, ![o].dropped = @ + 1]
        \/ obj' = [obj EXCEPT ![o] = Counted(@, p)]
    BY <1>3 DEF Receive
  <2>2. \A q \in DOMAIN obj : Counted(obj[q], p).up = obj[q].up /\ Counted(obj[q], p).id = obj[q].id
    BY <1>1 DEF Counted, IsPoint
  <2>3. QED
    BY <1>1, <2>1, <2>2 DEF IsPoint
<1>4. ASSUME NEW t \in Threads, CountFailure(t) \/ CountEvent(t)
      PROVE  /\ DOMAIN obj' = DOMAIN obj
             /\ \A q \in DOMAIN obj : obj'[q].up = obj[q].up /\ obj'[q].id = obj[q].id
  <2>1. \/ obj' = obj
        \/ \E pt : \/ obj' = [obj EXCEPT ![pt].parseFailed = @ + 1]
                   \/ obj' = [obj EXCEPT ![pt].events = @ + 1]
    BY <1>4 DEF CountFailure, CountEvent
  <2>2. QED
    BY <1>1, <2>1 DEF IsPoint
<1>5. ASSUME NEW i \in Injectors, InjectArrives(i)
      PROVE  /\ DOMAIN obj' = DOMAIN obj
             /\ \A q \in DOMAIN obj : obj'[q].up = obj[q].up /\ obj'[q].id = obj[q].id
  <2>1. PICK p : \/ obj' = obj
                 \/ \E on : obj' = [obj EXCEPT ![on] = Counted(@, p)]
    BY <1>5 DEF InjectArrives
  <2>2. \A q \in DOMAIN obj : Counted(obj[q], p).up = obj[q].up /\ Counted(obj[q], p).id = obj[q].id
    BY <1>1 DEF Counted, IsPoint
  <2>3. QED
    BY <2>1, <2>2
<1>6. QED
  BY <1>2, <1>3, <1>4, <1>5

(* Points may be added and entries may be listed while a query reads.       *)
LEMMA KeptQuery ==
  ASSUME ListInv, UNCHANGED query,
         \A id \in DOMAIN manager : id \in DOMAIN manager' /\ manager'[id] = manager[id],
         \A id : Listed(id) => Listed(id)'
  PROVE  QueryInv'
<1>1. ASSUME NEW q, SoundQuery(q, manager) PROVE SoundQuery(q, manager)'
  <2>1. Reads(q, manager) => Reads(q, manager')
    BY DEF Reads
  <2>2. QED
    BY <1>1, <2>1 DEF SoundQuery, Shown
<1>2. QED
  BY <1>1 DEF ListInv, QueryInv, SoundQuery, Reads, Shown

LEMMA ElsewhereLists ==
  ASSUME ListInv,
         \/ Tick \/ ResetState \/ ChangeParsers \/ UNCHANGED vars
         \/ \E o \in Objs, p \in Packets : Receive(o, p)
         \/ \E t \in Threads : Handle(t)
         \/ \E i \in Injectors : \/ Inject(i)
                                 \/ \E id \in Ids, p \in Packets : InjectFinds(i, id, p)
  PROVE  UpInv' /\ QueryInv'
<1>1. UNCHANGED <<cfg, manager, control>>
  BY ElsewhereConfig DEF Elsewhere
<1>2. UNCHANGED query
  <2>1. ASSUME NEW t \in Threads, Handle(t) PROVE UNCHANGED query
    BY <2>1 DEF Handle, Find, Parse, CountFailure, CountEvent, CountTotal
  <2>2. ASSUME NEW i \in Injectors, Inject(i) PROVE UNCHANGED query
    BY <2>2 DEF Inject, InjectLooks, InjectArrives, InjectReturns
  <2>3. QED
    BY <2>1, <2>2 DEF Tick, ResetState, ChangeParsers, vars, Receive, InjectFinds
<1>3. /\ DOMAIN obj' = DOMAIN obj
      /\ \A o \in DOMAIN obj : obj'[o].up = obj[o].up /\ obj'[o].id = obj[o].id
  <2>1. ASSUME NEW t \in Threads, Handle(t)
        PROVE  UNCHANGED obj \/ CountFailure(t) \/ CountEvent(t)
    BY <2>1 DEF Handle, Find, Parse, CountTotal, counters
  <2>2. ASSUME NEW i \in Injectors, Inject(i) PROVE UNCHANGED obj \/ InjectArrives(i)
    BY <2>2 DEF Inject, InjectLooks, InjectReturns, counters
  <2>3. Tick \/ ResetState \/ ChangeParsers \/ UNCHANGED vars => UNCHANGED obj
    BY DEF Tick, ResetState, ChangeParsers, vars, counters
  <2>4. ASSUME NEW i \in Injectors, NEW id \in Ids, NEW p \in Packets, InjectFinds(i, id, p)
        PROVE  UNCHANGED obj
    BY <2>4 DEF InjectFinds, counters
  <2>5. QED
    BY <2>1, <2>2, <2>3, <2>4, CountingKeeps DEF ListInv
<1>4. \A id : Listed(id)' <=> Listed(id)
  BY <1>1 DEF Listed
<1>5. UpInv'
  BY <1>1, <1>3 DEF ListInv, UpInv, PacketInv, ObjectInv
<1>6. QED
  BY <1>1, <1>2, <1>4, <1>5, KeptQuery

-----------------------------------------------------------------------------
(* Points come and go.                                                     *)

LEMMA AddLists ==
  ASSUME ListInv, NEW id \in Ids, AddPoint(id)
  PROVE  UpInv' /\ QueryInv'
<1>1. /\ obj' = Append(obj, NewPoint(id)) /\ id \notin DOMAIN manager
      /\ manager' = [k \in DOMAIN manager \cup {id} |->
                       IF k = id THEN Len(obj) + 1 ELSE manager[k]]
      /\ control' = [at |-> "added", id |-> id]
      /\ UNCHANGED <<cfg, query>>
  BY DEF AddPoint
<1>2. IsSeq(obj) /\ \A k \in DOMAIN manager : manager[k] \in DOMAIN obj
  BY DEF ListInv, PacketInv, ObjectInv
<1>3. obj'[Len(obj) + 1] = NewPoint(id) /\ \A o \in DOMAIN obj : obj'[o] = obj[o]
  BY <1>1, <1>2, Appended
<1>4. NewPoint(id).up = TRUE
  BY DEF NewPoint
<1>5. UpInv'
  BY <1>1, <1>2, <1>3, <1>4 DEF ListInv, UpInv
<1>6. \A x : Listed(x)' <=> Listed(x)
  BY <1>1 DEF Listed
<1>7. \A k \in DOMAIN manager : k \in DOMAIN manager' /\ manager'[k] = manager[k]
  BY <1>1
<1>8. QED
  BY <1>1, <1>5, <1>6, <1>7, KeptQuery

LEMMA AddedLists ==
  ASSUME ListInv, AddPointWritesBack
  PROVE  UpInv' /\ QueryInv'
<1>1. /\ UNCHANGED <<manager, obj, query>> /\ control' = Idle
      /\ cfg' = IF Listed(control.id) THEN cfg ELSE Append(cfg, control.id)
      /\ control.at = "added"
  BY DEF AddPointWritesBack, counters
<1>2. UpInv'
  BY <1>1 DEF ListInv, UpInv, Idle
<1>3. \A x : Listed(x) => Listed(x)'
  <2>1. CASE Listed(control.id)
    BY <1>1, <2>1 DEF Listed
  <2>2. CASE ~Listed(control.id)
    <3>1. control.id \in Ids
      BY <1>1 DEF ListInv, ConfigInv, IsControl, Idle
    <3>2. \A x : (\E k \in DOMAIN Append(cfg, control.id) : Append(cfg, control.id)[k] = x)
                   <=> (Listed(x) \/ x = control.id)
      BY <2>2, <3>1, AppendConfig DEF ListInv, ConfigInv
    <3>3. \A x : Listed(x)' <=> \E k \in DOMAIN cfg' : cfg'[k] = x
      BY DEF Listed
    <3>4. QED
      BY <1>1, <2>2, <3>2, <3>3
  <2>3. QED
    BY <2>1, <2>2
<1>4. QED
  BY <1>1, <1>2, <1>3, KeptQuery

LEMMA RemoveLists ==
  ASSUME ListInv, NEW id \in Ids, RemovePoint(id)
  PROVE  UpInv' /\ QueryInv'
<1>1. /\ UNCHANGED <<obj, cfg>> /\ id \in DOMAIN manager
      /\ DOMAIN manager' = DOMAIN manager \ {id}
      /\ \A k \in DOMAIN manager' : manager'[k] = manager[k]
      /\ control' = [at |-> "removed", id |-> id, victim |-> manager[id]]
      /\ query' = [r \in Queriers |-> Without(query[r], id)]
  BY DEF RemovePoint, counters, Restrict
<1>2. UpInv'
  BY <1>1 DEF ListInv, UpInv, PacketInv, ObjectInv
<1>3. \A x : Listed(x)' <=> Listed(x)
  BY <1>1 DEF Listed
<1>4. PICK map : map = manager'
  OBVIOUS
<1>5. ASSUME NEW f, SoundQuery(f, manager), NEW q, q = Without(f, id) PROVE SoundQuery(q, map)'
  <2>1. CASE f.at # "reading"
    BY <1>5, <2>1 DEF Without, SoundQuery, Shown
  <2>2. CASE f.at = "reading"
    <3>1. Reads(f, manager) /\ \A x \in f.configured : Listed(x)
      BY <1>5, <2>2 DEF SoundQuery
    <3>2. /\ DOMAIN q = DOMAIN f /\ q.at = f.at /\ q.left = f.left /\ q.got = f.got
          /\ q.stayed = f.stayed \ {id} /\ q.configured = f.configured
      BY <1>5, <2>2, <3>1 DEF Without, Reads, QueryFields
    <3>3. Reads(q, map)
      BY <1>1, <1>4, <3>1, <3>2 DEF Reads
    <3>4. QED
      BY <1>3, <2>2, <3>1, <3>2, <3>3 DEF SoundQuery, Shown, Reads
  <2>3. QED
    BY <2>1, <2>2
<1>6. ASSUME NEW r \in Queriers PROVE SoundQuery(query[r], manager)'
  <2>1. SoundQuery(query[r], manager)
    BY DEF ListInv, QueryInv
  <2>2. PICK q : q = query'[r]
    OBVIOUS
  <2>3. QED
    BY <1>1, <1>4, <1>5, <2>1, <2>2 DEF SoundQuery, Listed
<1>7. DOMAIN query' = Queriers
  BY <1>1
<1>8. QED
  BY <1>2, <1>6, <1>7 DEF QueryInv

LEMMA JoinLists ==
  ASSUME ListInv, JoinVictim
  PROVE  UpInv' /\ QueryInv'
<1>1. /\ obj' = [obj EXCEPT ![control.victim].up = FALSE] /\ control.at = "removed"
      /\ control' = [at |-> "joined", id |-> control.id]
      /\ UNCHANGED <<manager, cfg, query>>
  BY DEF JoinVictim
<1>2. \A k \in DOMAIN manager : manager[k] \in DOMAIN obj /\ obj[manager[k]].id = k
  BY DEF ListInv, PacketInv, ObjectInv
<1>3. obj[control.victim].id = control.id /\ control.id \notin DOMAIN manager
  BY <1>1 DEF ListInv, UpInv, ConfigInv
<1>4. \A k \in DOMAIN manager : obj'[manager[k]] = obj[manager[k]]
  BY <1>1, <1>2, <1>3
<1>5. UpInv'
  BY <1>1, <1>4 DEF ListInv, UpInv
<1>6. \A x : Listed(x)' <=> Listed(x)
  BY <1>1 DEF Listed
<1>7. QED
  BY <1>1, <1>5, <1>6, KeptQuery

LEMMA RemovedLists ==
  ASSUME ListInv, RemovePointWritesBack
  PROVE  UpInv' /\ QueryInv'
<1>1. /\ UNCHANGED <<manager, obj>> /\ control' = Idle
      /\ query' = [r \in Queriers |-> Unlisted(query[r], control.id)]
  BY DEF RemovePointWritesBack, counters
<1>2. UpInv'
  BY <1>1 DEF ListInv, UpInv, Idle
<1>3. \A x : Listed(x)' <=> (Listed(x) /\ x # control.id)
  BY RemovedConfig DEF ListInv
<1>4. PICK id : id = control.id
  OBVIOUS
<1>5. ASSUME NEW f, SoundQuery(f, manager), NEW q, q = Unlisted(f, id)
      PROVE  SoundQuery(q, manager)'
  <2>1. CASE f.at # "reading"
    BY <1>5, <2>1 DEF Unlisted, SoundQuery, Shown
  <2>2. CASE f.at = "reading"
    <3>1. Reads(f, manager) /\ \A x \in f.configured : Listed(x)
      BY <1>5, <2>2 DEF SoundQuery
    <3>2. /\ DOMAIN q = DOMAIN f /\ q.at = f.at /\ q.left = f.left /\ q.got = f.got
          /\ q.stayed = f.stayed /\ q.configured = f.configured \ {id}
      BY <1>5, <2>2, <3>1 DEF Unlisted, Reads, QueryFields
    <3>3. Reads(q, manager')
      BY <1>1, <3>1, <3>2 DEF Reads
    <3>4. \A x \in q.configured : Listed(x)'
      BY <1>3, <1>4, <3>1, <3>2
    <3>5. QED
      BY <2>2, <3>2, <3>3, <3>4 DEF SoundQuery, Shown, Reads
  <2>3. QED
    BY <2>1, <2>2
<1>6. ASSUME NEW r \in Queriers PROVE SoundQuery(query[r], manager)'
  <2>1. SoundQuery(query[r], manager)
    BY DEF ListInv, QueryInv
  <2>2. PICK q : q = query'[r]
    OBVIOUS
  <2>3. QED
    BY <1>1, <1>4, <1>5, <2>1, <2>2 DEF SoundQuery, Listed
<1>7. DOMAIN query' = Queriers
  BY <1>1
<1>8. QED
  BY <1>2, <1>6, <1>7 DEF QueryInv

-----------------------------------------------------------------------------
(* The query.                                                              *)

(* One querier goes on with q, the configuration and the points stay; the   *)
(* others may learn that they are overtaken.                                *)
LEMMA StepsQuery ==
  ASSUME ListInv, UNCHANGED <<manager, cfg>>, DOMAIN query' = Queriers,
         NEW r \in Queriers, SoundQuery(query'[r], manager),
         \A x \in Queriers \ {r} : query'[x] = query[x] \/ query'[x] = Overtaken(query[x])
  PROVE  QueryInv'
<1>1. ASSUME NEW f, SoundQuery(f, manager) PROVE SoundQuery(Overtaken(f), manager)
  <2>1. PICK q : q = Overtaken(f)
    OBVIOUS
  <2>2. CASE f.at # "reading"
    BY <1>1, <2>2 DEF Overtaken
  <2>3. CASE f.at = "reading"
    <3>1. Reads(f, manager) /\ \A x \in f.configured : Listed(x)
      BY <1>1, <2>3 DEF SoundQuery
    <3>2. /\ DOMAIN q = DOMAIN f /\ q.at = f.at /\ q.left = f.left /\ q.got = f.got
          /\ q.stayed = f.stayed /\ q.configured = f.configured
      BY <2>1, <2>3, <3>1 DEF Overtaken, Reads, QueryFields
    <3>3. Reads(q, manager)
      BY <3>1, <3>2 DEF Reads
    <3>4. QED
      BY <2>1, <2>3, <3>1, <3>2, <3>3 DEF SoundQuery
  <2>4. QED
    BY <2>2, <2>3
<1>2. ASSUME NEW x \in Queriers PROVE SoundQuery(query'[x], manager)
  BY <1>1 DEF ListInv, QueryInv
<1>3. ASSUME NEW q, SoundQuery(q, manager) PROVE SoundQuery(q, manager')
  BY <1>3
<1>4. \A x : Listed(x)' <=> Listed(x)
  BY DEF Listed
<1>5. QED
  BY <1>2, <1>4 DEF QueryInv, SoundQuery, Reads, Shown

LEMMA QueryLists ==
  ASSUME ListInv, NEW r \in Queriers, Query(r)
  PROVE  UpInv' /\ QueryInv'
<1>1. UNCHANGED <<manager, cfg, control, obj>> /\ DOMAIN query = Queriers
  BY QueriesLook DEF ListInv, QueryInv
<1>2. UpInv'
  BY <1>1 DEF ListInv, UpInv
<1>3. ASSUME NEW q, query' = [query EXCEPT ![r] = q], SoundQuery(q, manager) PROVE QueryInv'
  BY <1>1, <1>3, StepsQuery
<1>4. ASSUME NEW op, QueryBegins(r, op) PROVE QueryInv'
  <2>1. PICK q : q = [at |-> "reading", op |-> op, left |-> manager, got |-> <<>>, time |-> 0,
                      stayed |-> DOMAIN manager, configured |-> {cfg[k] : k \in DOMAIN cfg},
                      fresh |-> TRUE, behind |-> FALSE]
    OBVIOUS
  <2>2. query' = [query EXCEPT ![r] = q]
    BY <1>4, <2>1 DEF QueryBegins
  <2>3. DOMAIN <<>> = {} /\ DOMAIN manager \subseteq Ids
    BY DEF ListInv, ConfigInv
  <2>4. Reads(q, manager) /\ q.at = "reading" /\ q.configured = {cfg[k] : k \in DOMAIN cfg}
    BY <2>1, <2>3 DEF Reads, QueryFields
  <2>5. \A x \in q.configured : Listed(x)
    BY <2>4 DEF Listed
  <2>6. QED
    BY <1>3, <2>2, <2>4, <2>5 DEF SoundQuery
<1>5. ASSUME NEW id \in Ids, ReadMetrics(r, id) PROVE QueryInv'
  <2>1. PICK f : f = query[r]
    OBVIOUS
  <2>2. PICK q : q = WithMetrics(f, id)
    OBVIOUS
  <2>3. query' = [query EXCEPT ![r] = q] /\ f.at = "reading" /\ id \in DOMAIN f.left
    BY <1>1, <1>5, <2>1, <2>2 DEF ReadMetrics
  <2>4. Reads(f, manager) /\ \A x \in f.configured : Listed(x)
    BY <2>1, <2>3 DEF ListInv, QueryInv, SoundQuery
  <2>5. PICK o : o = f.left[id]
    OBVIOUS
  <2>6. /\ DOMAIN q = DOMAIN f /\ q.at = "reading" /\ q.stayed = f.stayed
        /\ q.configured = f.configured
        /\ q.left = Restrict(f.left, DOMAIN f.left \ {id})
        /\ q.got = [k \in DOMAIN f.got \cup {id} |->
                      IF k = id THEN [up |-> obj[o].up, packets |-> obj[o].packets]
                      ELSE f.got[k]]
    BY <2>2, <2>3, <2>4, <2>5 DEF Reads, QueryFields, WithMetrics
  <2>7. /\ DOMAIN q.left = DOMAIN f.left \ {id}
        /\ \A k \in DOMAIN q.left : q.left[k] = f.left[k]
        /\ DOMAIN q.got = DOMAIN f.got \cup {id} /\ q.got[id].up = obj[o].up
        /\ \A k \in DOMAIN f.got : k # id => q.got[k] = f.got[k]
    BY <2>6 DEF Restrict
  <2>8. id \in f.stayed => obj[o].up = TRUE
    BY <2>3, <2>4, <2>5 DEF Reads, ListInv, UpInv
  <2>9. ASSUME NEW k \in q.stayed
        PROVE  /\ k \in DOMAIN manager
               /\ IF k \in DOMAIN q.left THEN q.left[k] = manager[k]
                  ELSE k \in DOMAIN q.got /\ q.got[k].up = TRUE
    <3>1. CASE k = id
      BY <2>4, <2>6, <2>7, <2>8, <3>1 DEF Reads
    <3>2. CASE k # id
      BY <2>4, <2>6, <2>7, <3>2 DEF Reads
    <3>3. QED
      BY <3>1, <3>2
  <2>10. Reads(q, manager)
    BY <2>4, <2>6, <2>7, <2>9 DEF Reads
  <2>11. QED
    BY <1>3, <2>3, <2>4, <2>6, <2>10 DEF SoundQuery
<1>6. CASE ListPoints(r)
  <2>1. PICK f, got : f = query[r] /\ got = f.got
    OBVIOUS
  <2>2. PICK q : q = [at |-> "listed", list |-> Entries(got), stayed |-> f.stayed,
                      configured |-> f.configured]
    OBVIOUS
  <2>3. query' = [query EXCEPT ![r] = q] /\ f.at = "reading" /\ f.left = <<>>
    BY <1>6, <2>1, <2>2 DEF ListPoints
  <2>4. Reads(f, manager) /\ \A x \in f.configured : Listed(x)
    BY <2>1, <2>3 DEF ListInv, QueryInv, SoundQuery
  <2>5. DOMAIN f.left = {}
    BY <2>3
  <2>6. /\ DOMAIN got \subseteq Ids
        /\ \A id \in f.stayed : id \in DOMAIN got /\ got[id].up = TRUE
    BY <2>1, <2>4, <2>5 DEF Reads
  <2>7. /\ \A j, k \in DOMAIN Entries(got) : Entries(got)[j].id = Entries(got)[k].id => j = k
        /\ \A id : id \in DOMAIN got /\ got[id].up = TRUE =>
              \E k \in DOMAIN Entries(got) : Entries(got)[k] = [id |-> id, up |-> TRUE]
        /\ \A id : Listed(id) => \E k \in DOMAIN Entries(got) : Entries(got)[k].id = id
    BY <2>6, WholeList DEF ListInv, ConfigInv
  <2>8. /\ q.at = "listed" /\ q.list = Entries(got) /\ q.stayed = f.stayed
        /\ q.configured = f.configured
    BY <2>2
  <2>9. Shown(q)
    BY <2>4, <2>6, <2>7, <2>8 DEF Shown
  <2>10. QED
    BY <1>2, <1>3, <2>3, <2>8, <2>9 DEF SoundQuery
<1>7. CASE ReadClock(r)
  <2>1. PICK f : f = query[r]
    OBVIOUS
  <2>2. PICK q : q = [f EXCEPT !.time = now]
    OBVIOUS
  <2>3. query' = [query EXCEPT ![r] = q] /\ f.at = "reading"
    BY <1>1, <1>7, <2>1, <2>2 DEF ReadClock
  <2>4. Reads(f, manager) /\ \A x \in f.configured : Listed(x)
    BY <2>1, <2>3 DEF ListInv, QueryInv, SoundQuery
  <2>5. /\ DOMAIN q = DOMAIN f /\ q.at = f.at /\ q.left = f.left /\ q.got = f.got
        /\ q.stayed = f.stayed /\ q.configured = f.configured
    BY <2>2, <2>4 DEF Reads, QueryFields
  <2>6. Reads(q, manager)
    BY <2>4, <2>5 DEF Reads
  <2>7. QED
    BY <1>2, <1>3, <2>3, <2>4, <2>5, <2>6 DEF SoundQuery
<1>8. CASE SampleBandwidth(r)
  <2>1. /\ DOMAIN query' = Queriers /\ query'[r] = Idle
        /\ \A x \in Queriers \ {r} : query'[x] = query[x] \/ query'[x] = Overtaken(query[x])
    BY <1>8 DEF SampleBandwidth
  <2>2. SoundQuery(query'[r], manager)
    BY <2>1 DEF SoundQuery, Idle
  <2>3. QED
    BY <1>1, <1>2, <2>1, <2>2, StepsQuery
<1>9. QED
  BY <1>2, <1>4, <1>5, <1>6, <1>7, <1>8 DEF Query

LEMMA NextLists == ListInv /\ [Next]_vars => UpInv' /\ QueryInv'
<1> SUFFICES ASSUME ListInv, [Next]_vars PROVE UpInv' /\ QueryInv'
  OBVIOUS
<1>1. ASSUME NEW id \in Ids, AddPoint(id) \/ RemovePoint(id) PROVE UpInv' /\ QueryInv'
  BY <1>1, AddLists, RemoveLists
<1>2. CASE AddPointWritesBack \/ JoinVictim \/ RemovePointWritesBack
  BY <1>2, AddedLists, JoinLists, RemovedLists
<1>3. ASSUME NEW r \in Queriers, Query(r) PROVE UpInv' /\ QueryInv'
  BY <1>3, QueryLists
<1>4. ASSUME \/ Tick \/ ResetState \/ ChangeParsers \/ UNCHANGED vars
             \/ \E o \in Objs, p \in Packets : Receive(o, p)
             \/ \E t \in Threads : Handle(t)
             \/ \E i \in Injectors : \/ Inject(i)
                                     \/ \E id \in Ids, p \in Packets : InjectFinds(i, id, p)
      PROVE  UpInv' /\ QueryInv'
  BY <1>4, ElsewhereLists
<1>5. QED
  BY <1>1, <1>2, <1>3, <1>4 DEF Next, Threads

LEMMA InitListInv == Init => ListInv
<1> SUFFICES ASSUME Init PROVE UpInv /\ QueryInv
  BY InitInv, InitConfig DEF ListInv
<1>1. /\ obj = <<NewPoint(cfg[1])>> /\ manager = [id \in {cfg[1]} |-> 1]
      /\ control = Idle /\ query = [r \in Queriers |-> Idle]
  BY DEF Init
<1>2. NewPoint(cfg[1]).up = TRUE
  BY DEF NewPoint
<1>3. QED
  BY <1>1, <1>2 DEF UpInv, QueryInv, SoundQuery, Idle

(* listPoints shows every point once, those configured during the whole     *)
(* call, and as running those that ran during the whole call                *)
(* (gateway.cc:615-619): EveryPointListed, for any access points and any    *)
(* number of them added and removed while it reads.                         *)
THEOREM ListsEveryPoint == Spec => []EveryPointListed
<1>1. ListInv /\ [Next]_vars => ListInv'
  BY NextInv, NextConfig, NextLists DEF ListInv
<1>2. ListInv => EveryPointListed
  BY DEF ListInv, QueryInv, SoundQuery, EveryPointListed, Shown
<1>3. QED
  BY InitListInv, <1>1, <1>2, PTL DEF Spec

-----------------------------------------------------------------------------
(* What the rates are computed from.                                       *)

(* A packet counted on an object is a pair: the object and how many it had  *)
(* counted with this one.                                                   *)
CountedOn(objects) ==
  {u \in (DOMAIN objects) \X Nat : 1 <= u[2] /\ u[2] <= objects[u[1]].packets}

InMap(map, objects, o) == objects[o].id \in DOMAIN map /\ map[objects[o].id] = o

(* A query holds, for the ids read, what it read of the objects G.  As long *)
(* as no sample has overtaken it, every registered object with packets that *)
(* were seen is read or to be read, and read with all of them.              *)
ReadSoFar(map, objects, seen, q, G, gone) ==
  /\ DOMAIN q = QueryFields /\ q.fresh \in BOOLEAN /\ q.behind \in BOOLEAN
  /\ DOMAIN q.left \subseteq Ids /\ DOMAIN q.got \subseteq Ids
  /\ DOMAIN q.left \cap DOMAIN q.got = {}
  /\ ~gone /\ q.behind = FALSE => q.fresh = TRUE
  /\ \A id \in DOMAIN q.left :
       /\ q.left[id] \in DOMAIN objects /\ objects[q.left[id]].id = id
       /\ q.fresh = TRUE => id \in DOMAIN map /\ map[id] = q.left[id]
  /\ \A id \in DOMAIN q.got :
       /\ G[id] \in DOMAIN objects /\ objects[G[id]].id = id
       /\ q.fresh = TRUE => id \in DOMAIN map /\ map[id] = G[id]
       /\ q.got[id].packets \in Nat /\ q.got[id].packets <= objects[G[id]].packets
       /\ q.behind = FALSE => \A k : <<G[id], k>> \in seen => k <= q.got[id].packets
  /\ q.behind = FALSE => \A u \in seen : InMap(map, objects, u[1]) =>
       LET id == objects[u[1]].id IN
       \/ id \in DOMAIN q.left /\ q.left[id] = u[1]
       \/ id \in DOMAIN q.got /\ G[id] = u[1]

Follows(map, objects, seen, q, gone) ==
  q.at = "reading" => \E G : ReadSoFar(map, objects, seen, q, G, gone)

(* Of the packets counted, seen are those some sample has told, last those  *)
(* of the last one.  Unless that one is stale, it is of points that are     *)
(* registered, and what was seen of a registered point was seen in it.      *)
Samples(map, objects, seen, last, gone) ==
  /\ seen \subseteq CountedOn(objects) /\ last \subseteq seen
  /\ ~gone => /\ \A u \in last : InMap(map, objects, u[1])
              /\ \A u \in seen : InMap(map, objects, u[1]) => u \in last

CreditInv ==
  /\ ListInv /\ credited \in Nat
  /\ \E seen, last :
       /\ Samples(manager, obj, seen, last, stale)
       /\ \A r \in Queriers : Follows(manager, obj, seen, query[r], stale)
       /\ credited <= Cardinality(seen) /\ bw.total = Cardinality(last)

-----------------------------------------------------------------------------
(* Steps that leave the samples alone.                                     *)

(* Objects come with other ids and count, nothing else.                     *)
Grown(objects, more) ==
  \A o \in DOMAIN objects :
    /\ o \in DOMAIN more /\ more[o].id = objects[o].id
    /\ objects[o].packets \in Nat /\ more[o].packets \in Nat
    /\ objects[o].packets <= more[o].packets

(* Points may come into the map with objects that are new.                  *)
Extended(map, objects, map2) ==
  /\ \A id \in DOMAIN map : id \in DOMAIN map2 /\ map2[id] = map[id]
  /\ \A id \in DOMAIN map2 : map2[id] \in DOMAIN objects => id \in DOMAIN map

LEMMA GrownSamples ==
  ASSUME NEW map, NEW objects, NEW seen, NEW last, NEW gone, NEW map2, NEW objects2,
         Samples(map, objects, seen, last, gone), Grown(objects, objects2),
         Extended(map, objects, map2)
  PROVE  Samples(map2, objects2, seen, last, gone)
<1>1. CountedOn(objects) \subseteq CountedOn(objects2)
  <2> SUFFICES ASSUME NEW u \in CountedOn(objects) PROVE u \in CountedOn(objects2)
    OBVIOUS
  <2>1. PICK o \in DOMAIN objects, k \in Nat : u = <<o, k>> /\ 1 <= k /\ k <= objects[o].packets
    BY DEF CountedOn
  <2>2. o \in DOMAIN objects2 /\ k <= objects2[o].packets
    BY <2>1 DEF Grown
  <2>3. u \in (DOMAIN objects2) \X Nat /\ u[1] = o /\ u[2] = k
    BY <2>1, <2>2
  <2>4. QED
    BY <2>1, <2>2, <2>3 DEF CountedOn
<1>2. \A o \in DOMAIN objects : InMap(map2, objects2, o) <=> InMap(map, objects, o)
  BY DEF InMap, Grown, Extended
<1>3. /\ seen \subseteq CountedOn(objects) /\ last \subseteq seen
      /\ ~gone => /\ \A u \in last : InMap(map, objects, u[1])
                  /\ \A u \in seen : InMap(map, objects, u[1]) => u \in last
  BY DEF Samples
<1>4. \A u \in seen : u[1] \in DOMAIN objects
  BY <1>3 DEF CountedOn
<1>5. ~gone => /\ \A u \in last : InMap(map2, objects2, u[1])
               /\ \A u \in seen : InMap(map2, objects2, u[1]) => u \in last
  BY <1>2, <1>3, <1>4
<1>6. QED
  BY <1>1, <1>3, <1>5 DEF Samples

LEMMA GrownQuery ==
  ASSUME NEW map, NEW objects, NEW seen, NEW q, NEW gone, NEW map2, NEW objects2,
         seen \subseteq CountedOn(objects), Follows(map, objects, seen, q, gone),
         Grown(objects, objects2), Extended(map, objects, map2)
  PROVE  Follows(map2, objects2, seen, q, gone)
<1> SUFFICES ASSUME q.at = "reading" PROVE \E G : ReadSoFar(map2, objects2, seen, q, G, gone)
  BY DEF Follows
<1>1. PICK G : ReadSoFar(map, objects, seen, q, G, gone)
  BY DEF Follows
<1>2. \A o \in DOMAIN objects : InMap(map2, objects2, o) <=> InMap(map, objects, o)
  BY DEF InMap, Grown, Extended
<1>3. \A u \in seen : u[1] \in DOMAIN objects
  BY DEF CountedOn
<1>4. ASSUME NEW id \in DOMAIN q.left
      PROVE  /\ q.left[id] \in DOMAIN objects2 /\ objects2[q.left[id]].id = id
             /\ q.fresh = TRUE => id \in DOMAIN map2 /\ map2[id] = q.left[id]
  BY <1>1 DEF ReadSoFar, Grown, Extended
<1>5. ASSUME NEW id \in DOMAIN q.got
      PROVE  /\ G[id] \in DOMAIN objects2 /\ objects2[G[id]].id = id
             /\ q.fresh = TRUE => id \in DOMAIN map2 /\ map2[id] = G[id]
             /\ q.got[id].packets \in Nat /\ q.got[id].packets <= objects2[G[id]].packets
             /\ q.behind = FALSE => \A k : <<G[id], k>> \in seen => k <= q.got[id].packets
  <2>1. PICK n, a, b : n = q.got[id].packets /\ a = objects[G[id]].packets
                       /\ b = objects2[G[id]].packets
    OBVIOUS
  <2>2. /\ G[id] \in DOMAIN objects /\ objects[G[id]].id = id
        /\ q.fresh = TRUE => id \in DOMAIN map /\ map[id] = G[id]
        /\ n \in Nat /\ n <= a
        /\ q.behind = FALSE => \A k : <<G[id], k>> \in seen => k <= n
    BY <1>1, <2>1 DEF ReadSoFar
  <2>3. /\ G[id] \in DOMAIN objects2 /\ objects2[G[id]].id = id
        /\ a \in Nat /\ b \in Nat /\ a <= b
    BY <2>1, <2>2 DEF Grown
  <2>4. n <= b
    BY <2>2, <2>3
  <2>5. q.fresh = TRUE => id \in DOMAIN map2 /\ map2[id] = G[id]
    BY <2>2 DEF Extended
  <2>6. QED
    BY <2>1, <2>2, <2>3, <2>4, <2>5
<1>6. ASSUME q.behind = FALSE, NEW u \in seen, InMap(map2, objects2, u[1])
      PROVE  \/ objects2[u[1]].id \in DOMAIN q.left /\ q.left[objects2[u[1]].id] = u[1]
             \/ objects2[u[1]].id \in DOMAIN q.got /\ G[objects2[u[1]].id] = u[1]
  <2>1. u[1] \in DOMAIN objects /\ objects2[u[1]].id = objects[u[1]].id
    BY <1>3 DEF Grown
  <2>2. InMap(map, objects, u[1])
    BY <1>2, <1>6, <2>1
  <2>3. QED
    BY <1>1, <1>6, <2>1, <2>2 DEF ReadSoFar
<1>7. /\ DOMAIN q = QueryFields /\ q.fresh \in BOOLEAN /\ q.behind \in BOOLEAN
      /\ DOMAIN q.left \subseteq Ids /\ DOMAIN q.got \subseteq Ids
      /\ DOMAIN q.left \cap DOMAIN q.got = {}
      /\ ~gone /\ q.behind = FALSE => q.fresh = TRUE
  BY <1>1 DEF ReadSoFar
<1>8. ReadSoFar(map2, objects2, seen, q, G, gone)
  BY <1>4, <1>5, <1>6, <1>7 DEF ReadSoFar
<1>9. QED
  BY <1>8

(* A point leaves.                                                          *)
LEMMA LeftSamples ==
  ASSUME NEW map, NEW objects, NEW seen, NEW last, NEW gone, NEW map2,
         Samples(map, objects, seen, last, gone)
  PROVE  Samples(map2, objects, seen, last, TRUE)
  BY DEF Samples

LEMMA LeftQuery ==
  ASSUME NEW map, NEW objects, NEW seen, NEW q, NEW gone, NEW q2, NEW id,
         Follows(map, objects, seen, q, gone), q2 = Without(q, id)
  PROVE  Follows(Restrict(map, DOMAIN map \ {id}), objects, seen, q2, TRUE)
<1>1. PICK map2 : map2 = Restrict(map, DOMAIN map \ {id})
  OBVIOUS
<1>2. DOMAIN map2 = DOMAIN map \ {id} /\ \A k \in DOMAIN map2 : map2[k] = map[k]
  BY <1>1 DEF Restrict
<1>3. \A o : InMap(map2, objects, o) => InMap(map, objects, o)
  BY <1>2 DEF InMap
<1>4. ASSUME q2.at = "reading" PROVE \E G : ReadSoFar(map2, objects, seen, q2, G, TRUE)
  <2>1. q.at = "reading"
    BY <1>4 DEF Without
  <2>2. PICK G : ReadSoFar(map, objects, seen, q, G, gone)
    BY <2>1 DEF Follows
  <2>3. /\ DOMAIN q2 = DOMAIN q /\ q2.left = q.left /\ q2.got = q.got /\ q2.fresh = FALSE
        /\ q2.behind = q.behind
    BY <2>1, <2>2 DEF ReadSoFar, Without, QueryFields
  <2>4. \A u \in seen : InMap(map2, objects, u[1]) => InMap(map, objects, u[1])
    BY <1>3
  <2>5. ReadSoFar(map2, objects, seen, q2, G, TRUE)
    BY <2>2, <2>3, <2>4 DEF ReadSoFar
  <2>6. QED
    BY <2>5
<1>5. QED
  BY <1>1, <1>4 DEF Follows

(* A query that goes on with the same points.                               *)
LEMMA SameQuery ==
  ASSUME NEW map, NEW objects, NEW seen, NEW q, NEW gone, NEW q2,
         Follows(map, objects, seen, q, gone), q2.at = "reading" => q.at = "reading",
         DOMAIN q = QueryFields /\ q.at = "reading" =>
           /\ DOMAIN q2 = DOMAIN q /\ q2.left = q.left /\ q2.got = q.got /\ q2.fresh = q.fresh
           /\ q2.behind = q.behind
  PROVE  Follows(map, objects, seen, q2, gone)
<1> SUFFICES ASSUME q2.at = "reading" PROVE \E G : ReadSoFar(map, objects, seen, q2, G, gone)
  BY DEF Follows
<1>1. PICK G : ReadSoFar(map, objects, seen, q, G, gone)
  BY DEF Follows
<1>2. /\ DOMAIN q2 = DOMAIN q /\ q2.left = q.left /\ q2.got = q.got /\ q2.fresh = q.fresh
      /\ q2.behind = q.behind
  BY <1>1 DEF ReadSoFar
<1>3. ReadSoFar(map, objects, seen, q2, G, gone)
  BY <1>1, <1>2 DEF ReadSoFar
<1>4. QED
  BY <1>3

(* A query that a sample overtakes, whatever was seen in it.                *)
LEMMA OvertakenQuery ==
  ASSUME NEW map, NEW objects, NEW seen, NEW q, NEW gone, NEW more, NEW gone2,
         Follows(map, objects, seen, q, gone)
  PROVE  Follows(map, objects, more, Overtaken(q), gone2)
<1>1. PICK q2 : q2 = Overtaken(q)
  OBVIOUS
<1>2. ASSUME q2.at = "reading" PROVE \E G : ReadSoFar(map, objects, more, q2, G, gone2)
  <2>1. q.at = "reading"
    BY <1>1, <1>2 DEF Overtaken
  <2>2. PICK G : ReadSoFar(map, objects, seen, q, G, gone)
    BY <2>1 DEF Follows
  <2>3. /\ DOMAIN q2 = DOMAIN q /\ q2.left = q.left /\ q2.got = q.got /\ q2.fresh = q.fresh
        /\ q2.behind = TRUE
    BY <1>1, <2>1, <2>2 DEF ReadSoFar, Overtaken, QueryFields
  <2>4. ReadSoFar(map, objects, more, q2, G, gone2)
    BY <2>2, <2>3 DEF ReadSoFar
  <2>5. QED
    BY <2>4
<1>3. QED
  BY <1>1, <1>2 DEF Follows

-----------------------------------------------------------------------------
(* The query.                                                              *)

LEMMA BeginsFollows ==
  ASSUME ConfigInv, ObjectInv, NEW seen, NEW op, NEW q,
         q = [at |-> "reading", op |-> op, left |-> manager, got |-> <<>>, time |-> 0,
              stayed |-> DOMAIN manager, configured |-> {cfg[k] : k \in DOMAIN cfg},
              fresh |-> TRUE, behind |-> FALSE]
  PROVE  Follows(manager, obj, seen, q, stale)
<1>1. /\ DOMAIN q = QueryFields
      /\ q.left = manager /\ q.got = <<>> /\ q.fresh = TRUE /\ q.behind = FALSE
  BY DEF QueryFields
<1>2. DOMAIN <<>> = {}
  OBVIOUS
<1>3. DOMAIN manager \subseteq Ids
      /\ \A id \in DOMAIN manager : manager[id] \in DOMAIN obj /\ obj[manager[id]].id = id
  BY DEF ConfigInv, ObjectInv
<1>4. ReadSoFar(manager, obj, seen, q, <<>>, stale)
  BY <1>1, <1>2, <1>3 DEF ReadSoFar, InMap
<1>5. QED
  BY <1>4 DEF Follows

(* One point is read.                                                       *)
LEMMA ReadFollows ==
  ASSUME ObjectInv, NEW seen, seen \subseteq CountedOn(obj), NEW f, NEW id \in DOMAIN f.left,
         f.at = "reading", Follows(manager, obj, seen, f, stale), NEW q, q = WithMetrics(f, id)
  PROVE  Follows(manager, obj, seen, q, stale)
<1>1. PICK o : o = f.left[id]
  OBVIOUS
<1>2. PICK G : ReadSoFar(manager, obj, seen, f, G, stale)
  BY DEF Follows
<1>3. id \in Ids
  BY <1>2 DEF ReadSoFar
<1>5. /\ DOMAIN q = DOMAIN f /\ q.at = f.at /\ q.fresh = f.fresh /\ q.behind = f.behind
      /\ q.left = [k \in DOMAIN f.left \cap (DOMAIN f.left \ {id}) |-> f.left[k]]
      /\ q.got = [k \in DOMAIN f.got \cup {id} |->
                    IF k = id THEN [up |-> obj[o].up, packets |-> obj[o].packets]
                    ELSE f.got[k]]
  BY <1>1, <1>2 DEF ReadSoFar, QueryFields, WithMetrics, Restrict
<1>6. /\ DOMAIN q.left = DOMAIN f.left \ {id}
      /\ \A k \in DOMAIN q.left : q.left[k] = f.left[k]
      /\ DOMAIN q.got = DOMAIN f.got \cup {id} /\ q.got[id].packets = obj[o].packets
      /\ \A k \in DOMAIN f.got : k # id => q.got[k] = f.got[k]
  BY <1>5
<1>7. PICK H : H = [k \in DOMAIN f.got \cup {id} |-> IF k = id THEN o ELSE G[k]]
  OBVIOUS
<1>8. H[id] = o /\ \A k \in DOMAIN f.got : k # id => H[k] = G[k]
  BY <1>7
<1>9. /\ o \in DOMAIN obj /\ obj[o].id = id /\ id \notin DOMAIN f.got
      /\ q.fresh = TRUE => id \in DOMAIN manager /\ manager[id] = o
  BY <1>1, <1>2, <1>5 DEF ReadSoFar
<1>10. obj[o].packets \in Nat
  BY <1>9 DEF ObjectInv, IsPoint
<1>11. \A k : <<o, k>> \in seen => k <= obj[o].packets
  <2> SUFFICES ASSUME NEW k, <<o, k>> \in seen PROVE k <= obj[o].packets
    OBVIOUS
  <2>1. <<o, k>> \in CountedOn(obj)
    OBVIOUS
  <2>2. QED
    BY <2>1 DEF CountedOn
<1>12. ASSUME NEW k \in DOMAIN q.got
       PROVE  /\ H[k] \in DOMAIN obj /\ obj[H[k]].id = k
              /\ q.fresh = TRUE => k \in DOMAIN manager /\ manager[k] = H[k]
              /\ q.got[k].packets \in Nat /\ q.got[k].packets <= obj[H[k]].packets
              /\ q.behind = FALSE => \A n : <<H[k], n>> \in seen => n <= q.got[k].packets
  <2>1. CASE k = id
    BY <1>6, <1>8, <1>9, <1>10, <1>11, <2>1
  <2>2. CASE k # id
    <3>1. k \in DOMAIN f.got /\ H[k] = G[k] /\ q.got[k] = f.got[k]
      BY <1>6, <1>8, <2>2
    <3>2. QED
      BY <1>2, <1>5, <3>1 DEF ReadSoFar
  <2>3. QED
    BY <2>1, <2>2
<1>13. ASSUME q.behind = FALSE, NEW u \in seen, InMap(manager, obj, u[1])
       PROVE  \/ obj[u[1]].id \in DOMAIN q.left /\ q.left[obj[u[1]].id] = u[1]
              \/ obj[u[1]].id \in DOMAIN q.got /\ H[obj[u[1]].id] = u[1]
  <2>1. PICK x : x = obj[u[1]].id
    OBVIOUS
  <2>2. \/ x \in DOMAIN f.left /\ f.left[x] = u[1]
        \/ x \in DOMAIN f.got /\ G[x] = u[1]
    BY <1>2, <1>5, <1>13, <2>1 DEF ReadSoFar
  <2>3. CASE x = id
    BY <1>1, <1>6, <1>8, <1>9, <2>1, <2>2, <2>3
  <2>4. CASE x # id
    BY <1>6, <1>8, <2>1, <2>2, <2>4
  <2>5. QED
    BY <2>3, <2>4
<1>14. ASSUME NEW k \in DOMAIN q.left
       PROVE  /\ q.left[k] \in DOMAIN obj /\ obj[q.left[k]].id = k
              /\ q.fresh = TRUE => k \in DOMAIN manager /\ manager[k] = q.left[k]
  BY <1>2, <1>5, <1>6 DEF ReadSoFar
<1>15. /\ DOMAIN q = QueryFields /\ q.fresh \in BOOLEAN /\ q.behind \in BOOLEAN
       /\ DOMAIN q.left \subseteq Ids /\ DOMAIN q.got \subseteq Ids
       /\ DOMAIN q.left \cap DOMAIN q.got = {}
       /\ ~stale /\ q.behind = FALSE => q.fresh = TRUE
  BY <1>2, <1>3, <1>5, <1>6 DEF ReadSoFar
<1>16. ReadSoFar(manager, obj, seen, q, H, stale)
  BY <1>12, <1>13, <1>14, <1>15 DEF ReadSoFar
<1>17. QED
  BY <1>16 DEF Follows

-----------------------------------------------------------------------------
(* The samples.                                                            *)

(* The packets a finished query tells of.                                   *)
Told(q, G) == {u \in {G[id] : id \in DOMAIN q.got} \X Nat :
                 \E id \in DOMAIN q.got : u[1] = G[id] /\ 1 <= u[2] /\ u[2] <= q.got[id].packets}

LEMMA ToldIsTotal ==
  ASSUME ObjectInv, NEW seen, NEW G, NEW q,
         ReadSoFar(manager, obj, seen, q, G, stale)
  PROVE  /\ IsFiniteSet(Told(q, G)) /\ Total(q.got) = Cardinality(Told(q, G))
         /\ Told(q, G) \subseteq CountedOn(obj)
<1>1. PICK S : S = DOMAIN q.got
  OBVIOUS
<1>2. /\ IsFiniteSet(S)
      /\ \A id \in S : /\ G[id] \in DOMAIN obj /\ obj[G[id]].id = id
                       /\ q.got[id].packets \in Nat /\ q.got[id].packets <= obj[G[id]].packets
  <2>1. S \subseteq Ids
    BY <1>1 DEF ReadSoFar
  <2>2. QED
    BY <1>1, <2>1, PointsAssumption, FS_Subset DEF ReadSoFar
<1>3. PICK f : f = [id \in S |-> q.got[id].packets]
  OBVIOUS
<1>4. f \in [S -> Nat] /\ \A id \in S : f[id] = q.got[id].packets
  BY <1>2, <1>3
<1>5. IsFiniteSet(Units(f, S)) /\ Total(q.got) = Cardinality(Units(f, S))
  BY <1>1, <1>2, <1>3, <1>4, SumIsCount DEF Total
<1>6. PICK b : b = [u \in Units(f, S) |-> <<G[u[1]], u[2]>>]
  OBVIOUS
<1>7. \A u \in Units(f, S) : /\ u[1] \in S /\ u[2] \in Nat /\ u = <<u[1], u[2]>>
                             /\ 1 <= u[2] /\ u[2] <= f[u[1]]
  BY DEF Units
<1>8. b \in [Units(f, S) -> Told(q, G)]
  <2> SUFFICES ASSUME NEW u \in Units(f, S) PROVE <<G[u[1]], u[2]>> \in Told(q, G)
    BY <1>6
  <2>1. u[1] \in S /\ u[2] \in Nat /\ 1 <= u[2] /\ u[2] <= q.got[u[1]].packets
    BY <1>4, <1>7
  <2>2. QED
    BY <1>1, <2>1 DEF Told
<1>9. \A u, v \in Units(f, S) : b[u] = b[v] => u = v
  <2> SUFFICES ASSUME NEW u \in Units(f, S), NEW v \in Units(f, S), b[u] = b[v] PROVE u = v
    OBVIOUS
  <2>1. G[u[1]] = G[v[1]] /\ u[2] = v[2]
    BY <1>6
  <2>2. u[1] = v[1]
    BY <1>2, <1>7, <2>1
  <2>3. QED
    BY <1>7, <2>1, <2>2
<1>10. \A t \in Told(q, G) : \E u \in Units(f, S) : b[u] = t
  <2> SUFFICES ASSUME NEW t \in Told(q, G) PROVE \E u \in Units(f, S) : b[u] = t
    OBVIOUS
  <2>1. t = <<t[1], t[2]>> /\ t[2] \in Nat
    BY DEF Told
  <2>2. PICK id \in S : t[1] = G[id] /\ 1 <= t[2] /\ t[2] <= q.got[id].packets
    BY <1>1 DEF Told
  <2>3. <<id, t[2]>> \in Units(f, S)
    BY <1>4, <2>1, <2>2 DEF Units
  <2>4. b[<<id, t[2]>>] = t
    BY <1>6, <2>1, <2>2, <2>3
  <2>5. QED
    BY <2>3, <2>4
<1>11. ExistsBijection(Units(f, S), Told(q, G))
  <2>1. b \in Bijection(Units(f, S), Told(q, G))
    BY <1>8, <1>9, <1>10 DEF Bijection, Injection, Surjection, IsInjective
  <2>2. QED
    BY <2>1, Zenon DEF ExistsBijection
<1>12. IsFiniteSet(Told(q, G)) /\ Cardinality(Told(q, G)) = Cardinality(Units(f, S))
  BY <1>5, <1>11, FS_Bijection
<1>13. Told(q, G) \subseteq CountedOn(obj)
  <2> SUFFICES ASSUME NEW t \in Told(q, G) PROVE t \in CountedOn(obj)
    OBVIOUS
  <2>1. t = <<t[1], t[2]>> /\ t[2] \in Nat
    BY DEF Told
  <2>2. PICK id \in S : t[1] = G[id] /\ 1 <= t[2] /\ t[2] <= q.got[id].packets
    BY <1>1 DEF Told
  <2>3. t[1] \in DOMAIN obj
    BY <1>2, <2>2
  <2>4. PICK n : n = q.got[id].packets
    OBVIOUS
  <2>5. n \in Nat /\ n <= obj[t[1]].packets /\ 1 <= t[2] /\ t[2] <= n
    BY <1>2, <2>2, <2>4
  <2>6. obj[t[1]].packets \in Nat
    BY <2>3 DEF ObjectInv, IsPoint
  <2>7. t[2] <= obj[t[1]].packets
    BY <2>1, <2>5, <2>6
  <2>8. QED
    BY <2>1, <2>3, <2>5, <2>7 DEF CountedOn
<1>14. QED
  BY <1>5, <1>12, <1>13

(* What is counted is finite.                                               *)
LEMMA CountedIsArrived ==
  ASSUME ObjectInv
  PROVE  IsFiniteSet(CountedOn(obj)) /\ Arrived = Cardinality(CountedOn(obj))
<1>1. PICK S : S = DOMAIN obj
  OBVIOUS
<1>2. PICK f : f = [o \in S |-> obj[o].packets]
  OBVIOUS
<1>3. IsFiniteSet(S) /\ f \in [S -> Nat]
  BY <1>1, <1>2, PointsAssumption, FS_Subset DEF ObjectInv, IsPoint
<1>4. Units(f, S) = CountedOn(obj)
  BY <1>1, <1>2 DEF Units, CountedOn
<1>5. QED
  BY <1>1, <1>2, <1>3, <1>4, SumIsCount DEF Arrived

(* A finished query becomes the last sample.  If no other has overtaken it, *)
(* it tells of all that was seen of registered points; if the sample before *)
(* is not stale, that one is part of it, and what else it tells of had not  *)
(* been seen.                                                               *)
LEMMA ToldBySample ==
  ASSUME ObjectInv, NEW seen, NEW last, NEW q, NEW G, Samples(manager, obj, seen, last, stale),
         ReadSoFar(manager, obj, seen, q, G, stale), q.left = <<>>
  PROVE  LET told == Told(q, G) IN
         /\ seen \cup told \subseteq CountedOn(obj)
         /\ ~stale /\ q.behind = FALSE => last \subseteq told /\ told \cap seen \subseteq last
         /\ q.behind = FALSE => \A u \in seen \cup told : InMap(manager, obj, u[1]) => u \in told
         /\ q.fresh = TRUE => \A u \in told : InMap(manager, obj, u[1])
<1>1. PICK told : told = Told(q, G)
  OBVIOUS
<1>2. DOMAIN q.left = {}
  OBVIOUS
<1>3. /\ seen \subseteq CountedOn(obj) /\ last \subseteq seen
      /\ ~stale => /\ \A u \in last : InMap(manager, obj, u[1])
                   /\ \A u \in seen : InMap(manager, obj, u[1]) => u \in last
  BY DEF Samples
<1>4. told \subseteq CountedOn(obj)
  BY <1>1, ToldIsTotal
<1>5. ASSUME q.behind = FALSE, NEW u \in seen, InMap(manager, obj, u[1]) PROVE u \in told
  <2>1. PICK id \in DOMAIN q.got : G[id] = u[1]
    BY <1>2, <1>5 DEF ReadSoFar
  <2>2. u \in CountedOn(obj)
    BY <1>3
  <2>3. u = <<u[1], u[2]>> /\ u[2] \in Nat /\ 1 <= u[2]
    BY <2>2 DEF CountedOn
  <2>4. <<G[id], u[2]>> \in seen
    BY <2>1, <2>3
  <2>5. u[2] <= q.got[id].packets
    BY <1>5, <2>4 DEF ReadSoFar
  <2>6. QED
    BY <1>1, <2>1, <2>3, <2>5 DEF Told
<1>6. ASSUME q.fresh = TRUE, NEW u \in told PROVE InMap(manager, obj, u[1])
  <2>1. PICK id \in DOMAIN q.got : u[1] = G[id]
    BY <1>1 DEF Told
  <2>2. obj[u[1]].id = id /\ id \in DOMAIN manager /\ manager[id] = u[1]
    BY <1>6, <2>1 DEF ReadSoFar
  <2>3. QED
    BY <2>2 DEF InMap
<1>7. ASSUME ~stale, q.behind = FALSE PROVE last \subseteq told /\ told \cap seen \subseteq last
  <2>1. last \subseteq told
    BY <1>3, <1>5, <1>7
  <2>2. q.fresh = TRUE
    BY <1>7 DEF ReadSoFar
  <2>3. QED
    BY <1>3, <1>6, <1>7, <2>1, <2>2
<1>8. q.behind = FALSE => \A u \in seen \cup told : InMap(manager, obj, u[1]) => u \in told
  BY <1>5
<1>9. QED
  BY <1>1, <1>3, <1>4, <1>6, <1>7, <1>8

(* What is to be shown of the state after a step.                           *)
CreditsTold ==
  /\ credited' \in Nat
  /\ \E seen, last :
       /\ Samples(manager', obj', seen, last, stale')
       /\ \A r \in Queriers : Follows(manager', obj', seen, query'[r], stale')
       /\ credited' <= Cardinality(seen) /\ bw'.total = Cardinality(last)

(* The rate credits at most what the sample tells of and none had before.   *)
LEMMA CreditedUnits ==
  ASSUME NEW whole, IsFiniteSet(whole), NEW seen \in SUBSET whole, NEW told \in SUBSET whole,
         NEW last \in SUBSET seen
  PROVE  /\ Cardinality(seen) \in Nat /\ Cardinality(seen \cup told) \in Nat
         /\ Cardinality(told) \in Nat /\ Cardinality(last) \in Nat
         /\ Cardinality(seen) <= Cardinality(seen \cup told)
         /\ (last \subseteq told /\ told \cap seen \subseteq last) =>
              /\ Cardinality(last) <= Cardinality(told)
              /\ Cardinality(seen) + (Cardinality(told) - Cardinality(last))
                   <= Cardinality(seen \cup told)
<1>1. IsFiniteSet(seen) /\ IsFiniteSet(told) /\ IsFiniteSet(last) /\ IsFiniteSet(seen \cup told)
  BY FS_Subset
<1>2. /\ Cardinality(seen) \in Nat /\ Cardinality(seen \cup told) \in Nat
      /\ Cardinality(told) \in Nat /\ Cardinality(last) \in Nat
  BY <1>1, FS_CardinalityType
<1>3. Cardinality(seen) <= Cardinality(seen \cup told)
  BY <1>1, FS_Subset
<1>4. ASSUME last \subseteq told, told \cap seen \subseteq last
      PROVE  /\ Cardinality(last) <= Cardinality(told)
             /\ Cardinality(seen) + (Cardinality(told) - Cardinality(last))
                  <= Cardinality(seen \cup told)
  <2>1. seen \cap told = last
    BY <1>4
  <2>2. Cardinality(seen \cup told)
          = Cardinality(seen) + Cardinality(told) - Cardinality(seen \cap told)
    BY <1>1, FS_Union
  <2>3. Cardinality(last) <= Cardinality(told)
    BY <1>1, <1>4, FS_Subset
  <2>4. PICK a, b, c, d : /\ a = Cardinality(seen) /\ b = Cardinality(told)
                          /\ c = Cardinality(last) /\ d = Cardinality(seen \cup told)
    OBVIOUS
  <2>5. d = a + b - c /\ a \in Nat /\ b \in Nat /\ c \in Nat /\ d \in Nat
    BY <1>2, <2>1, <2>2, <2>4
  <2>6. a + (b - c) <= d
    BY <2>5
  <2>7. QED
    BY <2>3, <2>4, <2>6
<1>5. QED
  BY <1>2, <1>3, <1>4

LEMMA RemainderBelow ==
  ASSUME NEW x \in Nat, NEW w \in Nat, 0 < w
  PROVE  x % w \in Nat /\ x % w <= x
OBVIOUS

LEMMA SampleCredits ==
  ASSUME CreditInv, NEW r \in Queriers, SampleBandwidth(r)
  PROVE  CreditsTold
<1>1. PICK seen, last :
        /\ Samples(manager, obj, seen, last, stale)
        /\ \A x \in Queriers : Follows(manager, obj, seen, query[x], stale)
        /\ credited <= Cardinality(seen) /\ bw.total = Cardinality(last)
  BY DEF CreditInv
<1>2. PICK q, total, due, sampled :
        /\ q = query[r] /\ total = Total(q.got) /\ due = (q.time - bw.at >= 1)
        /\ sampled = (bw.at = 0 \/ due)
  OBVIOUS
<1>3. /\ q.at = "reading" /\ q.left = <<>> /\ query'[r] = Idle
      /\ \A x \in Queriers \ {r} : query'[x] = IF sampled THEN Overtaken(query[x]) ELSE query[x]
      /\ bw' = IF sampled THEN Sampled(total, q.time) ELSE bw
      /\ rate' = IF bw.at # 0 /\ due
                 THEN [packets |-> (total - bw.total) % Wrap, seconds |-> q.time - bw.at] ELSE rate
      /\ credited' = IF bw.at # 0 /\ due /\ ~stale /\ ~q.behind
                     THEN credited + rate'.packets ELSE credited
      /\ stale' = IF sampled THEN ~q.fresh \/ q.behind ELSE stale
      /\ UNCHANGED <<manager, obj>>
  BY <1>2 DEF SampleBandwidth, points, counters
<1>4. Idle.at # "reading"
  BY DEF Idle
<1>5. ObjectInv /\ credited \in Nat
  BY DEF CreditInv, ListInv, PacketInv
<1>6. CASE ~sampled
  <2>1. bw' = bw /\ credited' = credited /\ stale' = stale
    BY <1>2, <1>3, <1>6
  <2>2. ASSUME NEW x \in Queriers PROVE Follows(manager, obj, seen, query'[x], stale)
    BY <1>1, <1>3, <1>4, <1>6 DEF Follows
  <2>3. QED
    BY <1>1, <1>3, <1>5, <2>1, <2>2 DEF CreditsTold
<1>7. CASE sampled
  <2>1. PICK G : ReadSoFar(manager, obj, seen, q, G, stale)
    BY <1>1, <1>2, <1>3 DEF Follows
  <2>2. PICK told : told = Told(q, G)
    OBVIOUS
  <2>3. /\ seen \cup told \subseteq CountedOn(obj)
        /\ ~stale /\ q.behind = FALSE => last \subseteq told /\ told \cap seen \subseteq last
        /\ q.behind = FALSE => \A u \in seen \cup told : InMap(manager, obj, u[1]) => u \in told
        /\ q.fresh = TRUE => \A u \in told : InMap(manager, obj, u[1])
    BY <1>1, <1>3, <1>5, <2>1, <2>2, ToldBySample
  <2>4. total = Cardinality(told)
    BY <1>2, <1>5, <2>1, <2>2, ToldIsTotal
  <2>5. /\ bw'.total = Cardinality(told)
        /\ q.fresh \in BOOLEAN /\ q.behind \in BOOLEAN
        /\ ~stale' => q.fresh = TRUE /\ q.behind = FALSE
    BY <1>3, <1>7, <2>1, <2>4 DEF Sampled, ReadSoFar
  <2>6. Samples(manager, obj, seen \cup told, told, stale')
    BY <2>3, <2>5 DEF Samples
  <2>10. ASSUME NEW x \in Queriers PROVE Follows(manager, obj, seen \cup told, query'[x], stale')
    <3>1. CASE x = r
      BY <1>3, <1>4, <3>1 DEF Follows
    <3>2. CASE x # r
      BY <1>1, <1>3, <1>7, <3>2, OvertakenQuery
    <3>3. QED
      BY <3>1, <3>2
  <2>7. /\ Cardinality(seen) \in Nat /\ Cardinality(seen \cup told) \in Nat
        /\ Cardinality(told) \in Nat /\ Cardinality(last) \in Nat
        /\ Cardinality(seen) <= Cardinality(seen \cup told)
        /\ (last \subseteq told /\ told \cap seen \subseteq last) =>
             /\ Cardinality(last) <= Cardinality(told)
             /\ Cardinality(seen) + (Cardinality(told) - Cardinality(last))
                  <= Cardinality(seen \cup told)
    <3>1. last \subseteq seen
      BY <1>1 DEF Samples
    <3>2. QED
      BY <1>5, <2>3, <3>1, CountedIsArrived, CreditedUnits
  <2>8. credited' \in Nat /\ credited' <= Cardinality(seen \cup told)
    <3>1. CASE bw.at # 0 /\ due /\ ~stale /\ q.behind = FALSE
      <4>1. PICK a, b, c, d : /\ a = Cardinality(seen) /\ b = Cardinality(told)
                              /\ c = Cardinality(last) /\ d = Cardinality(seen \cup told)
        OBVIOUS
      <4>2. /\ a \in Nat /\ b \in Nat /\ c \in Nat /\ d \in Nat /\ c <= b /\ a + (b - c) <= d
            /\ credited <= a
        BY <1>1, <2>3, <2>7, <3>1, <4>1
      <4>3. rate'.packets = (b - c) % Wrap
        BY <1>1, <1>3, <2>4, <3>1, <4>1
      <4>4. b - c \in Nat /\ Wrap \in Nat /\ 0 < Wrap
        BY <4>2, PointsAssumption
      <4>5. (b - c) % Wrap \in Nat /\ (b - c) % Wrap <= b - c
        BY <4>4, RemainderBelow
      <4>6. PICK rest : rest = (b - c) % Wrap
        OBVIOUS
      <4>7. credited' = credited + rest
        BY <1>3, <3>1, <4>3, <4>6
      <4>8. rest \in Nat /\ rest <= b - c
        BY <4>5, <4>6
      <4>9. credited' \in Nat /\ credited' <= d
        BY <1>5, <4>2, <4>7, <4>8
      <4>10. QED
        BY <4>1, <4>9
    <3>2. CASE ~(bw.at # 0 /\ due /\ ~stale /\ q.behind = FALSE)
      <4>1. credited' = credited
        BY <1>3, <2>5, <3>2
      <4>2. QED
        BY <1>1, <1>5, <2>7, <4>1
    <3>3. QED
      BY <3>1, <3>2
  <2>9. QED
    BY <1>3, <2>5, <2>6, <2>8, <2>10 DEF CreditsTold
<1>8. QED
  BY <1>6, <1>7

-----------------------------------------------------------------------------
(* Every step.                                                             *)

LEMMA CountedKeeps ==
  ASSUME NEW point, IsPoint(point), NEW p
  PROVE  Counted(point, p).id = point.id /\ Counted(point, p).packets = point.packets + 1
BY DEF Counted, IsPoint

LEMMA ObjectsGrow ==
  ASSUME PacketInv, [Next]_vars
  PROVE  Grown(obj, obj')
<1>0. IsSeq(obj) /\ \A o \in DOMAIN obj : IsPoint(obj[o]) /\ obj[o].packets \in Nat
  BY DEF PacketInv, ObjectInv, IsPoint
<1>1. CASE UNCHANGED obj
  BY <1>0, <1>1 DEF Grown
<1>2. ASSUME NEW id, AddPoint(id) PROVE Grown(obj, obj')
  <2>1. obj' = Append(obj, NewPoint(id))
    BY <1>2 DEF AddPoint
  <2>2. \A o \in DOMAIN obj : o \in DOMAIN obj' /\ obj'[o] = obj[o]
    BY <1>0, <2>1, Appended
  <2>3. QED
    BY <1>0, <2>2 DEF Grown
<1>3. ASSUME NEW x, NEW p, obj' = [obj EXCEPT ![x] = Counted(@, p)] PROVE Grown(obj, obj')
  <2>1. DOMAIN obj' = DOMAIN obj
        /\ \A o \in DOMAIN obj : obj'[o] = IF o = x THEN Counted(obj[o], p) ELSE obj[o]
    BY <1>3
  <2>2. ASSUME NEW o \in DOMAIN obj
        PROVE  /\ obj'[o].id = obj[o].id /\ obj'[o].packets \in Nat
               /\ obj[o].packets <= obj'[o].packets
    <3>1. IsPoint(obj[o]) /\ obj[o].packets \in Nat
      BY <1>0
    <3>2. CASE o = x
      <4>1. obj'[o].id = obj[o].id /\ obj'[o].packets = obj[o].packets + 1
        BY <2>1, <3>1, <3>2, CountedKeeps
      <4>2. QED
        BY <3>1, <4>1
    <3>3. CASE o # x
      BY <2>1, <3>1, <3>3
    <3>4. QED
      BY <3>2, <3>3
  <2>3. QED
    BY <1>0, <2>1, <2>2 DEF Grown
<1>4. ASSUME NEW x, \/ obj' = [obj EXCEPT ![x].empty = @ + 1, ![x].dropped = @ + 1]
                    \/ obj' = [obj EXCEPT ![x].parseFailed = @ + 1]
                    \/ obj' = [obj EXCEPT ![x].events = @ + 1]
                    \/ obj' = [obj EXCEPT ![x].up = FALSE]
      PROVE  Grown(obj, obj')
  <2>1. DOMAIN obj' = DOMAIN obj
        /\ \A o \in DOMAIN obj : obj'[o].id = obj[o].id /\ obj'[o].packets = obj[o].packets
    BY <1>0, <1>4 DEF IsPoint
  <2>2. QED
    BY <1>0, <2>1 DEF Grown
<1>5. ASSUME NEW o \in Objs, NEW p \in Packets, Receive(o, p) PROVE Grown(obj, obj')
  BY <1>3, <1>4, <1>5 DEF Receive
<1>6. ASSUME NEW t \in Threads, Handle(t) PROVE Grown(obj, obj')
  BY <1>1, <1>4, <1>6 DEF Handle, Find, Parse, CountFailure, CountEvent, CountTotal, counters
<1>7. ASSUME NEW i \in Injectors, Inject(i) PROVE Grown(obj, obj')
  BY <1>1, <1>3, <1>7 DEF Inject, InjectLooks, InjectArrives, InjectReturns, counters
<1>8. CASE JoinVictim
  BY <1>4, <1>8 DEF JoinVictim
<1>9. ASSUME NEW id \in Ids, NEW p \in Packets, NEW i \in Injectors, InjectFinds(i, id, p)
      PROVE  UNCHANGED obj
  BY <1>9 DEF InjectFinds, counters
<1>10. ASSUME \/ Tick \/ ResetState \/ ChangeParsers
              \/ AddPointWritesBack \/ RemovePointWritesBack \/ UNCHANGED vars
              \/ \E id \in Ids : RemovePoint(id)
              \/ \E r \in Queriers : Query(r)
       PROVE  UNCHANGED obj
  BY <1>10, QueriesLook DEF Tick, ResetState, ChangeParsers, AddPointWritesBack,
     RemovePointWritesBack, RemovePoint, vars, counters
<1>11. QED
  BY <1>1, <1>2, <1>5, <1>6, <1>7, <1>8, <1>9, <1>10 DEF Next, Threads

LEMMA NextCredits ==
  ASSUME CreditInv, [Next]_vars
  PROVE  CreditsTold
<1>0. PICK seen, last :
        /\ Samples(manager, obj, seen, last, stale)
        /\ \A r \in Queriers : Follows(manager, obj, seen, query[r], stale)
        /\ credited <= Cardinality(seen) /\ bw.total = Cardinality(last)
  BY DEF CreditInv
<1>1. /\ PacketInv /\ ConfigInv /\ ObjectInv /\ credited \in Nat
      /\ \A id \in DOMAIN manager : manager[id] \in DOMAIN obj
      /\ DOMAIN query = Queriers /\ seen \subseteq CountedOn(obj)
  BY <1>0 DEF CreditInv, ListInv, PacketInv, ObjectInv, QueryInv, Samples
<1>2. Grown(obj, obj')
  BY <1>1, ObjectsGrow
<1>3. ASSUME UNCHANGED <<bw, credited, stale>>, Extended(manager, obj, manager'),
             \A r \in Queriers : Follows(manager, obj, seen, query'[r], stale)
      PROVE  CreditsTold
  <2>1. PICK map, objects : map = manager' /\ objects = obj'
    OBVIOUS
  <2>2. Samples(map, objects, seen, last, stale)
    BY <1>0, <1>2, <1>3, <2>1, GrownSamples
  <2>3. ASSUME NEW r \in Queriers PROVE Follows(map, objects, seen, query'[r], stale)
    <3>1. PICK q : q = query'[r]
      OBVIOUS
    <3>2. Follows(manager, obj, seen, q, stale)
      BY <1>3, <3>1
    <3>3. Follows(map, objects, seen, q, stale)
      BY <1>1, <1>2, <1>3, <2>1, <3>2, GrownQuery
    <3>4. QED
      BY <3>1, <3>3
  <2>4. QED
    BY <1>0, <1>1, <1>3, <2>1, <2>2, <2>3 DEF CreditsTold
<1>4. ASSUME UNCHANGED <<manager, query, bw, credited, stale>> PROVE CreditsTold
  BY <1>0, <1>3, <1>4 DEF Extended
<1>5. ASSUME NEW id \in Ids, AddPoint(id) PROVE CreditsTold
  <2>1. /\ UNCHANGED <<query, bw, credited, stale>>
        /\ manager' = [k \in DOMAIN manager \cup {id} |->
                         IF k = id THEN Len(obj) + 1 ELSE manager[k]]
        /\ id \notin DOMAIN manager
    BY <1>5 DEF AddPoint, bandwidth
  <2>2. Len(obj) + 1 \notin DOMAIN obj
    BY <1>1 DEF ObjectInv, IsSeq
  <2>3. Extended(manager, obj, manager')
    BY <2>1, <2>2 DEF Extended
  <2>4. QED
    BY <1>0, <1>3, <2>1, <2>3
<1>6. ASSUME NEW id \in Ids, RemovePoint(id) PROVE CreditsTold
  <2>1. /\ UNCHANGED <<obj, bw, credited>> /\ stale' = TRUE
        /\ manager' = Restrict(manager, DOMAIN manager \ {id})
        /\ query' = [r \in Queriers |-> Without(query[r], id)]
    BY <1>6 DEF RemovePoint, counters, bandwidth
  <2>2. PICK map : map = Restrict(manager, DOMAIN manager \ {id})
    OBVIOUS
  <2>3. Samples(map, obj, seen, last, TRUE)
    BY <1>0, LeftSamples
  <2>4. ASSUME NEW r \in Queriers PROVE Follows(map, obj, seen, Without(query[r], id), TRUE)
    BY <1>0, <2>2, LeftQuery
  <2>5. QED
    BY <1>0, <1>1, <2>1, <2>2, <2>3, <2>4 DEF CreditsTold
<1>7. CASE RemovePointWritesBack
  <2>1. /\ UNCHANGED <<manager, obj, bw, credited, stale>>
        /\ query' = [r \in Queriers |-> Unlisted(query[r], control.id)]
    BY <1>7 DEF RemovePointWritesBack, counters, bandwidth
  <2>2. ASSUME NEW f, Follows(manager, obj, seen, f, stale), NEW id, NEW q, q = Unlisted(f, id)
        PROVE  Follows(manager, obj, seen, q, stale)
    <3>1. q.at = "reading" => f.at = "reading"
      BY <2>2 DEF Unlisted
    <3>2. DOMAIN f = QueryFields /\ f.at = "reading" =>
            /\ DOMAIN q = DOMAIN f /\ q.left = f.left /\ q.got = f.got /\ q.fresh = f.fresh
            /\ q.behind = f.behind
      BY <2>2 DEF Unlisted, QueryFields
    <3>3. QED
      BY <2>2, <3>1, <3>2, SameQuery
  <2>3. \A r \in Queriers : Follows(manager, obj, seen, query'[r], stale)
    BY <1>0, <2>1, <2>2
  <2>4. QED
    BY <1>3, <2>1, <2>3 DEF Extended
<1>8. ASSUME NEW r \in Queriers, Query(r) PROVE CreditsTold
  <2>1. ASSUME NEW q, query' = [query EXCEPT ![r] = q], UNCHANGED <<manager, bw, credited, stale>>,
               Follows(manager, obj, seen, q, stale)
        PROVE  CreditsTold
    <3>1. \A x \in Queriers : Follows(manager, obj, seen, query'[x], stale)
      BY <1>0, <1>1, <2>1
    <3>2. QED
      BY <1>3, <2>1, <3>1 DEF Extended
  <2>2. ASSUME NEW op, QueryBegins(r, op) PROVE CreditsTold
    <3>1. PICK q : q = [at |-> "reading", op |-> op, left |-> manager, got |-> <<>>, time |-> 0,
                        stayed |-> DOMAIN manager, configured |-> {cfg[k] : k \in DOMAIN cfg},
                        fresh |-> TRUE, behind |-> FALSE]
      OBVIOUS
    <3>2. query' = [query EXCEPT ![r] = q] /\ UNCHANGED <<manager, bw, credited, stale>>
      BY <2>2, <3>1 DEF QueryBegins, points, bandwidth, history
    <3>3. Follows(manager, obj, seen, q, stale)
      BY <1>1, <3>1, BeginsFollows
    <3>4. QED
      BY <2>1, <3>2, <3>3
  <2>3. ASSUME NEW id \in Ids, ReadMetrics(r, id) PROVE CreditsTold
    <3>1. PICK f, q : f = query[r] /\ q = WithMetrics(f, id)
      OBVIOUS
    <3>2. /\ query' = [query EXCEPT ![r] = q] /\ UNCHANGED <<manager, bw, credited, stale>>
          /\ f.at = "reading" /\ id \in DOMAIN f.left
      BY <1>1, <2>3, <3>1 DEF ReadMetrics, points, bandwidth, history
    <3>3. Follows(manager, obj, seen, q, stale)
      BY <1>0, <1>1, <3>1, <3>2, ReadFollows
    <3>4. QED
      BY <2>1, <3>2, <3>3
  <2>4. CASE ListPoints(r)
    <3>1. PICK q : q = [at |-> "listed", list |-> Entries(query[r].got),
                        stayed |-> query[r].stayed, configured |-> query[r].configured]
      OBVIOUS
    <3>2. /\ query' = [query EXCEPT ![r] = q] /\ q.at # "reading"
          /\ UNCHANGED <<manager, bw, credited, stale>>
      BY <2>4, <3>1 DEF ListPoints, points, bandwidth, history
    <3>3. QED
      BY <2>1, <3>2 DEF Follows
  <2>5. CASE ReadClock(r)
    <3>1. PICK f, q : f = query[r] /\ q = [f EXCEPT !.time = now]
      OBVIOUS
    <3>2. /\ query' = [query EXCEPT ![r] = q] /\ UNCHANGED <<manager, bw, credited, stale>>
          /\ f.at = "reading"
      BY <1>1, <2>5, <3>1 DEF ReadClock, points, bandwidth, history
    <3>3. DOMAIN f = QueryFields =>
            /\ DOMAIN q = DOMAIN f /\ q.left = f.left /\ q.got = f.got /\ q.fresh = f.fresh
            /\ q.behind = f.behind
      BY <3>1 DEF QueryFields
    <3>4. Follows(manager, obj, seen, q, stale)
      BY <1>0, <3>1, <3>2, <3>3, SameQuery
    <3>5. QED
      BY <2>1, <3>2, <3>4
  <2>6. CASE SampleBandwidth(r)
    BY <2>6, SampleCredits
  <2>7. QED
    BY <1>8, <2>2, <2>3, <2>4, <2>5, <2>6 DEF Query
<1>9. ASSUME \/ Tick \/ ResetState \/ ChangeParsers \/ UNCHANGED vars
             \/ AddPointWritesBack \/ JoinVictim
             \/ \E o \in Objs, p \in Packets : Receive(o, p)
             \/ \E t \in Threads : Handle(t)
             \/ \E i \in Injectors : \/ Inject(i)
                                     \/ \E id \in Ids, p \in Packets : InjectFinds(i, id, p)
      PROVE  UNCHANGED <<manager, query, bw, credited, stale>>
  <2>1. ASSUME NEW t \in Threads, Handle(t)
        PROVE  UNCHANGED <<manager, query, bw, credited, stale>>
    BY <2>1 DEF Handle, Find, Parse, CountFailure, CountEvent, CountTotal, points, bandwidth,
       history
  <2>2. ASSUME NEW i \in Injectors, Inject(i)
        PROVE  UNCHANGED <<manager, query, bw, credited, stale>>
    BY <2>2 DEF Inject, InjectLooks, InjectArrives, InjectReturns, points, bandwidth, history
  <2>3. QED
    BY <1>9, <2>1, <2>2 DEF Tick, ResetState, ChangeParsers, vars, AddPointWritesBack,
       JoinVictim, Receive, InjectFinds, points, bandwidth, history
<1>10. QED
  BY <1>4, <1>5, <1>6, <1>7, <1>8, <1>9 DEF Next, Threads

(* The rates never credit more packets than arrived: none is in two of      *)
(* them, whatever the threads are that call gatewayHealth, as long as their *)
(* calls sample in the order they began and no point has left since the     *)
(* sample a rate starts from (CreditedOnce; gateway.cc, gatewayHealth).     *)
(* For any points, packets, samples and threads that take them.             *)
THEOREM CreditedAtMostOnce == Spec => []CreditedOnce
<1>1. Init => CreditInv
  <2> SUFFICES ASSUME Init PROVE CreditInv
    OBVIOUS
  <2>1. ListInv
    BY InitListInv
  <2>2. /\ \A r \in Queriers : query[r].at # "reading"
        /\ credited = 0 /\ bw.total = 0
    BY DEF Init, Idle
  <2>3. Samples(manager, obj, {}, {}, stale)
    BY DEF Samples
  <2>4. \A r \in Queriers : Follows(manager, obj, {}, query[r], stale)
    BY <2>2 DEF Follows
  <2>5. Cardinality({}) = 0
    BY FS_EmptySet
  <2>6. QED
    BY <2>1, <2>2, <2>3, <2>4, <2>5 DEF CreditInv
<1>2. CreditInv /\ [Next]_vars => CreditInv'
  <2> SUFFICES ASSUME CreditInv, [Next]_vars PROVE CreditInv'
    OBVIOUS
  <2>1. ListInv'
    BY NextInv, NextConfig, NextLists DEF CreditInv, ListInv
  <2>2. QED
    BY <2>1, NextCredits DEF CreditInv, CreditsTold
<1>3. CreditInv => CreditedOnce
  <2> SUFFICES ASSUME CreditInv PROVE credited <= Arrived
    BY DEF CreditedOnce
  <2>1. PICK seen : seen \subseteq CountedOn(obj) /\ credited <= Cardinality(seen)
    BY DEF CreditInv, Samples
  <2>2. IsFiniteSet(CountedOn(obj)) /\ Arrived = Cardinality(CountedOn(obj))
    BY CountedIsArrived DEF CreditInv, ListInv, PacketInv
  <2>3. /\ Cardinality(seen) <= Cardinality(CountedOn(obj))
        /\ Cardinality(seen) \in Nat /\ Cardinality(CountedOn(obj)) \in Nat
    BY <2>1, <2>2, FS_Subset, FS_CardinalityType
  <2>4. credited \in Nat
    BY DEF CreditInv
  <2>5. QED
    BY <2>1, <2>2, <2>3, <2>4
<1>4. QED
  BY <1>1, <1>2, <1>3, PTL DEF Spec

=============================================================================
