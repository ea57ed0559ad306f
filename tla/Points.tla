------------------------------- MODULE Points -------------------------------
(***************************************************************************)
(* What happens to one packet and what is counted of it: the receive loop  *)
(* of an access point (src/acc/point.cc), handlePacket and inject          *)
(* (src/gateway.cc), and the queries that read the counters while points   *)
(* come and go: listPoints and gatewayHealth, which the host may call on   *)
(* any thread (include/device_ingest/gateway.h:78).                        *)
(*                                                                         *)
(* A Point object is a number and is never used again.  Its counters stay  *)
(* where they are when it is destroyed: threads that still hold its        *)
(* address go on counting and reading there.  Each of a point's counting   *)
(* functions locks the point, so it is a step.  Ledger and queue are in    *)
(* Health and Fanout, start, stop and reload in Gateway; all points use    *)
(* one parser.  totalParseFailed is left out: nothing reads it.            *)
(***************************************************************************)
EXTENDS Integers, SequencesExt

CONSTANTS
  Ids,          \* access point ids
  Objs,         \* the Point objects, numbered from 1
  Injectors,    \* threads of the host that call inject
  Queriers,     \* threads of the host that call listPoints and gatewayHealth
  Packets,      \* records [size, parse, events]: how large, what the parser does with it
  Wrap,         \* 2^64: what unsigned differences are taken modulo
  MaxOps,       \* bound: packets received and calls of the host, together
  MaxTime       \* bound: the last second

ASSUME PointsAssumption ==
  /\ Ids # {} /\ IsFiniteSet(Ids)
  /\ IsFiniteSet(Objs) /\ Objs # {} /\ Objs = 1..Cardinality(Objs)
  /\ Injectors \cap Objs = {}
  /\ Packets \subseteq [size : {"none", "fits", "over"},
                        parse : {"ok", "fails", "throws"}, events : Nat]
  /\ Wrap \in Nat /\ MaxOps \in Nat /\ MaxOps < Wrap
  /\ MaxTime \in Nat

VARIABLES
  manager,      \* Manager::points_: id -> Point object
  obj,          \* the Point objects made so far, with their counters
  cfg,          \* the ids of Impl::cfg.points, in order
  control,      \* the thread in addPoint or removePoint
  registered,   \* the parser is in Impl::parsers
  totalEvents,  \* Impl::totalEvents
  thread,       \* per receive thread (its object) and injector: the packet at hand
  query,        \* per querier: the listPoints or gatewayHealth it is in
  bw,           \* bwLastAt and bwLastTotal
  rate,         \* the last packetsPerSec: packets and the seconds they took
  now,          \* steadyMs(), in seconds
  ops,          \* packets received and calls of the host, for the bound
  settled,      \* history: per object, packets counted there that ended without failure
  astray,       \* history: objects that a packet not counted there was settled on
  credited,     \* history: packets in the rates from one sample to the next in order, with
                \* no point gone between them
  stale,        \* history: the last sample may count a point that has left, or was read
                \* before an earlier one was taken
  removed       \* history: ids of which removePoint has returned

points == <<manager, cfg, control, registered>>
counters == <<obj, totalEvents>>
bandwidth == <<bw, rate>>
clock == <<now, ops>>
history == <<settled, astray, credited, stale, removed>>
vars == <<points, counters, thread, query, bandwidth, clock, history>>

NoPoint == 0
Idle == [at |-> "idle"]
NewPoint(id) == [id |-> id, up |-> TRUE, packets |-> 0, empty |-> 0, truncated |-> 0,
                 dropped |-> 0, parseFailed |-> 0, events |-> 0]

(* start() has left every id in the configuration, and one of them running. *)
Init ==
  /\ cfg = SetToSeq(Ids)
  /\ manager = [id \in {cfg[1]} |-> 1]
  /\ obj = <<NewPoint(cfg[1])>>
  /\ control = Idle
  /\ registered = TRUE
  /\ totalEvents = 0
  /\ thread = [t \in Objs \cup Injectors |-> Idle]
  /\ query = [r \in Queriers |-> Idle]
  /\ bw = [at |-> 0, total |-> 0] /\ rate = [packets |-> 0, seconds |-> 1]
  /\ now = 1 /\ ops = 0
  /\ settled = [o \in Objs |-> 0] /\ astray = {} /\ credited = 0 /\ stale = FALSE
  /\ removed = {}

Tick ==
  /\ now < MaxTime
  /\ now' = now + 1
  /\ UNCHANGED <<points, counters, thread, query, bandwidth, ops, history>>

-----------------------------------------------------------------------------
(* A packet arrives.                                                       *)

Resting(t) == thread[t].at \in {"idle", "returned"}

(* One more packet or call.                                                *)
Bounded == ops < MaxOps /\ ops' = ops + 1 /\ UNCHANGED now

(* The frame of handlePacket: the id and packet it was called with, the     *)
(* object the packet was counted on, the object manager->get found, events  *)
(* still to be emitted.                                                     *)
Handling(id, p, on) == [at |-> "find", id |-> id, packet |-> p, on |-> on, pt |-> NoPoint,
                        left |-> 0]

(* The counters after countPacket, which the receive loop repeats: a packet *)
(* over 8 KB counts as truncated and as dropped, and is handled all the same. *)
Counted(point, p) ==
  [point EXCEPT !.packets = @ + 1,
                !.truncated = IF p.size = "over" THEN @ + 1 ELSE @,
                !.dropped = IF p.size = "over" THEN @ + 1 ELSE @]

(* recvfrom returned on a receive thread.  A thread that stop() is waiting  *)
(* for may still take one.  stop() wakes the thread with an empty packet.   *)
Receive(o, p) ==
  /\ o \in DOMAIN obj /\ obj[o].up /\ Resting(o)
  /\ Bounded
  /\ IF p.size = "none"
     THEN /\ obj' = [obj EXCEPT ![o].empty = @ + 1, ![o].dropped = @ + 1]
          /\ UNCHANGED thread
     ELSE /\ obj' = [obj EXCEPT ![o] = Counted(@, p)]
          /\ thread' = [thread EXCEPT ![o] = Handling(obj[o].id, p, o)]
  /\ UNCHANGED <<points, totalEvents, query, bandwidth, history>>

-----------------------------------------------------------------------------
(* handlePacket, on a receive thread or an injector's.                     *)

(* handlePacket is over: a receive thread goes round its loop, inject has   *)
(* totalEvents to read again.                                               *)
Leaves(t) == IF t \in Injectors THEN [thread[t] EXCEPT !.at = "back"] ELSE Idle

(* settled after thread t's packet has ended without a failure.             *)
SettledBy(t) ==
  IF thread[t].on = NoPoint THEN settled ELSE [settled EXCEPT ![thread[t].on] = @ + 1]

(* parsers.find and manager->get.                                           *)
Find(t) ==
  LET id == thread[t].id
      pt == IF id \in DOMAIN manager THEN manager[id] ELSE NoPoint
  IN
  /\ thread[t].at = "find"
  /\ thread' = [thread EXCEPT ![t].at = IF registered THEN "parse" ELSE "fail", ![t].pt = pt]
  /\ astray' = IF pt \in {NoPoint, thread[t].on} THEN astray ELSE astray \cup {pt}
  /\ UNCHANGED <<points, counters, query, bandwidth, clock, settled, credited, stale, removed>>

(* Bug: what the parser refuses is no failure, only what it throws.         *)
ParsedQuietly(t) ==
  LET p == thread[t].packet IN
  CASE p.parse = "throws" -> [thread[t] EXCEPT !.at = "fail"]
    [] p.parse = "ok" /\ p.events > 0 -> [thread[t] EXCEPT !.at = "event", !.left = p.events]
    [] OTHER -> Leaves(t)

(* Where parser->parse leaves the thread.  An exception is caught and is a  *)
(* failure like a refusal; a packet that is fine and holds no event ends    *)
(* here, counted nowhere.                                                   *)
Parsed(t) ==
  LET p == thread[t].packet IN
  CASE p.parse \in {"fails", "throws"} -> [thread[t] EXCEPT !.at = "fail"]
    [] p.parse = "ok" /\ p.events > 0 -> [thread[t] EXCEPT !.at = "event", !.left = p.events]
    [] OTHER -> Leaves(t)

Parse(t) ==
  /\ thread[t].at = "parse"
  /\ thread' = [thread EXCEPT ![t] = Parsed(t)]
  /\ settled' = IF thread[t].packet.parse = "ok" THEN SettledBy(t) ELSE settled
  /\ UNCHANGED <<points, counters, query, bandwidth, clock, astray, credited, stale, removed>>

(* pt->countParseFailed(), if there was a point.                            *)
CountFailure(t) ==
  LET pt == thread[t].pt IN
  /\ thread[t].at = "fail"
  /\ obj' = IF pt = NoPoint THEN obj ELSE [obj EXCEPT ![pt].parseFailed = @ + 1]
  /\ thread' = [thread EXCEPT ![t] = Leaves(t)]
  /\ UNCHANGED <<points, totalEvents, query, bandwidth, clock, history>>

(* pt->countEvent(), after one event went to ledger and queue.              *)
CountEvent(t) ==
  LET pt == thread[t].pt IN
  /\ thread[t].at = "event"
  /\ obj' = IF pt = NoPoint THEN obj ELSE [obj EXCEPT ![pt].events = @ + 1]
  /\ thread' = [thread EXCEPT ![t].at = "total"]
  /\ UNCHANGED <<points, totalEvents, query, bandwidth, clock, history>>

(* The frames once the injectors in Others have an event of another thread  *)
(* to reckon with.                                                          *)
Join(frames, Others) ==
  [t \in DOMAIN frames |->
     IF t \in Others /\ ~Resting(t) THEN [frames[t] EXCEPT !.others = @ + 1] ELSE frames[t]]

(* Bug: totalEvents is raised once for a packet.                            *)
RaisedOnce(t) ==
  IF thread[t].left = thread[t].packet.events THEN totalEvents + 1 ELSE totalEvents

(* totalEvents.fetch_add(1).                                                *)
Raised(t) == totalEvents + 1

(* The packet's last event.                                                 *)
LastRound(t) == thread[t].left = 1

(* The end of a round of the loop over the packet's events.                 *)
CountTotal(t) ==
  LET next == IF LastRound(t) THEN Leaves(t)
              ELSE [thread[t] EXCEPT !.at = "event", !.left = @ - 1]
  IN
  /\ thread[t].at = "total"
  /\ totalEvents' = Raised(t)
  /\ thread' = Join([thread EXCEPT ![t] = next], Injectors \ {t})
  /\ UNCHANGED <<points, obj, query, bandwidth, clock, history>>

-----------------------------------------------------------------------------
(* inject, on a thread of the host.                                        *)

Listed(id) == \E k \in DOMAIN cfg : cfg[k] = id

(* What a caller may expect of the id while nobody adds or removes points.  *)
Expected(id) ==
  IF control # Idle THEN "either" ELSE IF id \in removed THEN "absent" ELSE "present"

(* manager->get(ingestId): the live point, or a look at the configuration.  *)
(* Of the call, others are the events of other threads since its first      *)
(* reading of totalEvents; it is intact unless the counters are reset or    *)
(* the parsers changed meanwhile.                                           *)
InjectFinds(i, id, p) ==
  /\ Resting(i)
  /\ Bounded
  /\ thread' = [thread EXCEPT ![i] =
                  [at |-> IF id \in DOMAIN manager THEN "arrive" ELSE "look", id |-> id,
                   packet |-> p, on |-> IF id \in DOMAIN manager THEN manager[id] ELSE NoPoint,
                   pt |-> NoPoint, left |-> 0, before |-> 0, others |-> 0, intact |-> TRUE,
                   expect |-> Expected(id), parser |-> registered]]
  /\ UNCHANGED <<points, counters, query, bandwidth, history>>

Returned(i, result) ==
  LET f == thread[i] IN
  [at |-> "returned", result |-> result, others |-> f.others, intact |-> f.intact,
   expect |-> f.expect,
   events |-> IF f.parser /\ f.packet.size # "none" /\ f.packet.parse = "ok"
              THEN f.packet.events ELSE 0]

(* A point that is not running is taken from the configuration.             *)
InjectLooks(i) ==
  /\ thread[i].at = "look"
  /\ thread' = [thread EXCEPT ![i] =
                  IF Listed(thread[i].id) THEN [@ EXCEPT !.at = "arrive"] ELSE Returned(i, -1)]
  /\ UNCHANGED <<points, counters, query, bandwidth, clock, history>>

(* countPacket on the live point, the first reading of totalEvents and the  *)
(* call of handlePacket, which returns at once for an empty packet.         *)
InjectArrives(i) ==
  LET p == thread[i].packet
      on == thread[i].on
      next == IF p.size = "none" THEN "back" ELSE "find"
  IN
  /\ thread[i].at = "arrive"
  /\ obj' = IF on = NoPoint THEN obj ELSE [obj EXCEPT ![on] = Counted(@, p)]
  /\ thread' = [thread EXCEPT ![i].before = totalEvents, ![i].others = 0, ![i].at = next]
  /\ settled' = IF next = "back" THEN SettledBy(i) ELSE settled
  /\ UNCHANGED <<points, totalEvents, query, bandwidth, clock, astray, credited, stale, removed>>

(* The second reading; the difference is what inject returns.               *)
InjectReturns(i) ==
  /\ thread[i].at = "back"
  /\ thread' = [thread EXCEPT ![i] = Returned(i, totalEvents - thread[i].before)]
  /\ UNCHANGED <<points, counters, query, bandwidth, clock, history>>

(* The frames once no call of inject is intact.                             *)
Disturb(frames) ==
  [t \in DOMAIN frames |->
     IF t \in Injectors /\ ~Resting(t) THEN [frames[t] EXCEPT !.intact = FALSE] ELSE frames[t]]

(* resetState(); queue and ledger are in Fanout and Health.                 *)
ResetState ==
  /\ Bounded
  /\ totalEvents' = 0
  /\ thread' = Disturb(thread)
  /\ UNCHANGED <<points, obj, query, bandwidth, history>>

-----------------------------------------------------------------------------
(* addPoint, removePoint and the registry of parsers.                      *)

(* The calls in progress can no longer expect anything of the id.           *)
Unsettle(frames, id) ==
  [t \in DOMAIN frames |->
     IF t \in Injectors /\ ~Resting(t) /\ frames[t].id = id
     THEN [frames[t] EXCEPT !.expect = "either"] ELSE frames[t]]

(* addPoint's parsers.has and manager->add, which refuses an id in use.     *)
AddPoint(id) ==
  /\ Bounded
  /\ control = Idle
  /\ registered
  /\ id \notin DOMAIN manager
  /\ Len(obj) + 1 \in Objs
  /\ obj' = Append(obj, NewPoint(id))
  /\ manager' = [k \in DOMAIN manager \cup {id} |->
                   IF k = id THEN Len(obj) + 1 ELSE manager[k]]
  /\ control' = [at |-> "added", id |-> id]
  /\ thread' = Unsettle(thread, id)
  /\ removed' = removed \ {id}
  /\ UNCHANGED <<cfg, registered, totalEvents, query, bandwidth, settled, astray, credited,
                 stale>>

(* The new point is written into the configuration.                         *)
AddPointWritesBack ==
  /\ control.at = "added"
  /\ cfg' = IF Listed(control.id) THEN cfg ELSE Append(cfg, control.id)
  /\ control' = Idle
  /\ UNCHANGED <<manager, registered, counters, thread, query, bandwidth, clock, history>>

(* The query can no longer expect the point to be there, nor to be listed.  *)
Without(q, id) ==
  IF q.at = "reading" THEN [q EXCEPT !.stayed = @ \ {id}, !.fresh = FALSE] ELSE q
Unlisted(q, id) == IF q.at = "reading" THEN [q EXCEPT !.configured = @ \ {id}] ELSE q

(* manager->remove takes the point out of the map ...                       *)
RemovePoint(id) ==
  /\ Bounded
  /\ control = Idle
  /\ id \in DOMAIN manager
  /\ manager' = Restrict(manager, DOMAIN manager \ {id})
  /\ control' = [at |-> "removed", id |-> id, victim |-> manager[id]]
  /\ thread' = Unsettle(thread, id)
  /\ query' = [r \in Queriers |-> Without(query[r], id)]
  /\ stale' = TRUE
  /\ UNCHANGED <<cfg, registered, counters, bandwidth, settled, astray, credited, removed>>

(* ... and joins its thread, which ends when it has no packet at hand.      *)
JoinVictim ==
  /\ control.at = "removed"
  /\ Resting(control.victim)
  /\ obj' = [obj EXCEPT ![control.victim].up = FALSE]
  /\ control' = [at |-> "joined", id |-> control.id]
  /\ UNCHANGED <<manager, cfg, registered, totalEvents, thread, query, bandwidth, clock, history>>

(* The configuration without the first entry of the point.                  *)
Erased(id) ==
  LET first == CHOOSE k \in DOMAIN cfg : cfg[k] = id /\ \A j \in DOMAIN cfg : cfg[j] = id => k <= j
  IN IF Listed(id) THEN SubSeq(cfg, 1, first - 1) \o SubSeq(cfg, first + 1, Len(cfg)) ELSE cfg

RemovePointWritesBack ==
  /\ control.at = "joined"
  /\ cfg' = Erased(control.id)
  /\ control' = Idle
  /\ removed' = removed \cup {control.id}
  /\ query' = [r \in Queriers |-> Unlisted(query[r], control.id)]
  /\ UNCHANGED <<manager, registered, counters, thread, bandwidth, clock, settled, astray,
                 credited, stale>>

(* The host takes the parser out of the registry or puts one in its place   *)
(* (ParserRegistry::add and remove).                                        *)
ChangeParsers ==
  /\ Bounded
  /\ registered' = ~registered
  /\ thread' = Disturb(thread)
  /\ UNCHANGED <<manager, cfg, control, counters, query, bandwidth, history>>

-----------------------------------------------------------------------------
(* The queries.                                                            *)

(* Manager::metrics: the points are looked up under the manager's lock and  *)
(* read one after the other when it is released.  behind: another call took *)
(* its sample since this one began; time: what gatewayHealth read, or 0.    *)
QueryBegins(r, op) ==
  /\ Bounded
  /\ query[r].at # "reading"
  /\ query' = [query EXCEPT ![r] =
                 [at |-> "reading", op |-> op, left |-> manager, got |-> <<>>, time |-> 0,
                  stayed |-> DOMAIN manager, configured |-> {cfg[k] : k \in DOMAIN cfg},
                  fresh |-> TRUE, behind |-> FALSE]]
  /\ UNCHANGED <<points, counters, thread, bandwidth, history>>

(* Query q with the point of that id read.                                  *)
WithMetrics(q, id) ==
  LET o == q.left[id] IN
  [q EXCEPT !.left = Restrict(@, DOMAIN @ \ {id}),
            !.got = [k \in DOMAIN @ \cup {id} |->
                       IF k = id THEN [up |-> obj[o].up, packets |-> obj[o].packets] ELSE @[k]]]

ReadMetrics(r, id) ==
  /\ query[r].at = "reading" /\ id \in DOMAIN query[r].left
  /\ query' = [query EXCEPT ![r] = WithMetrics(@, id)]
  /\ UNCHANGED <<points, counters, thread, bandwidth, clock, history>>

(* Bug: points are shown as the configuration lists them, and only those.   *)
EntriesConfigured(got) ==
  [k \in DOMAIN cfg |-> [id |-> cfg[k], up |-> cfg[k] \in DOMAIN got /\ got[cfg[k]].up]]

(* The list listPoints makes: an entry for every configured point, running  *)
(* or not, then one for every running point the configuration lacks.        *)
Entries(got) ==
  LET known == {cfg[k] : k \in DOMAIN cfg}
      order == cfg \o SetToSeq(DOMAIN got \ known)
  IN [k \in DOMAIN order |-> [id |-> order[k],
                              up |-> order[k] \in DOMAIN got /\ got[order[k]].up]]

(* listPoints copies the configuration after the metrics.                   *)
ListPoints(r) ==
  LET q == query[r] IN
  /\ q.at = "reading" /\ q.op = "list" /\ q.left = <<>>
  /\ query' = [query EXCEPT ![r] = [at |-> "listed", list |-> Entries(q.got),
                                    stayed |-> q.stayed, configured |-> q.configured]]
  /\ UNCHANGED <<points, counters, thread, bandwidth, clock, history>>

Total(got) == SumFunction([id \in DOMAIN got |-> got[id].packets])

(* Bug: the total is not remembered with the time.                          *)
SampledTimeOnly(total, time) == [bw EXCEPT !.at = time]

(* bwLastAt and bwLastTotal after a sample.                                 *)
Sampled(total, time) == [at |-> time, total |-> total]

(* gatewayHealth reads the clock after the totals and before it locks.      *)
ReadClock(r) ==
  /\ query[r].at = "reading" /\ query[r].op = "health" /\ query[r].left = <<>>
  /\ query[r].time = 0
  /\ query' = [query EXCEPT ![r].time = now]
  /\ UNCHANGED <<points, counters, thread, bandwidth, clock, history>>

(* The other queries once a sample has been taken before theirs.            *)
Overtaken(q) == IF q.at = "reading" THEN [q EXCEPT !.behind = TRUE] ELSE q

(* gatewayHealth under bwMtx: the first sample, one a second or more after  *)
(* the last, or one too early to compute a rate.                            *)
SampleBandwidth(r) ==
  LET q == query[r]
      total == Total(q.got)
      due == q.time - bw.at >= 1
      sampled == bw.at = 0 \/ due
  IN
  /\ q.at = "reading" /\ q.op = "health" /\ q.left = <<>> /\ q.time # 0
  /\ query' = [x \in Queriers |-> IF x = r THEN Idle
                                  ELSE IF sampled THEN Overtaken(query[x]) ELSE query[x]]
  /\ bw' = IF sampled THEN Sampled(total, q.time) ELSE bw
  /\ rate' = IF bw.at # 0 /\ due
             THEN [packets |-> (total - bw.total) % Wrap, seconds |-> q.time - bw.at] ELSE rate
  /\ credited' = IF bw.at # 0 /\ due /\ ~stale /\ ~q.behind
                 THEN credited + rate'.packets ELSE credited
  /\ stale' = IF sampled THEN ~q.fresh \/ q.behind ELSE stale
  /\ UNCHANGED <<points, counters, thread, clock, settled, astray, removed>>

-----------------------------------------------------------------------------

Handle(t) == Find(t) \/ Parse(t) \/ CountFailure(t) \/ CountEvent(t) \/ CountTotal(t)

Inject(i) == InjectLooks(i) \/ InjectArrives(i) \/ InjectReturns(i)

Query(r) ==
  \/ \E op \in {"list", "health"} : QueryBegins(r, op)
  \/ \E id \in Ids : ReadMetrics(r, id)
  \/ ListPoints(r) \/ ReadClock(r) \/ SampleBandwidth(r)

Next ==
  \/ Tick
  \/ \E o \in Objs, p \in Packets : Receive(o, p)
  \/ \E t \in Objs \cup Injectors : Handle(t)
  \/ \E i \in Injectors : Inject(i) \/ \E id \in Ids, p \in Packets : InjectFinds(i, id, p)
  \/ ResetState
  \/ \E id \in Ids : AddPoint(id) \/ RemovePoint(id)
  \/ AddPointWritesBack \/ JoinVictim \/ RemovePointWritesBack
  \/ ChangeParsers
  \/ \E r \in Queriers : Query(r)

Spec == Init /\ [][Next]_vars

-----------------------------------------------------------------------------
(* Properties.                                                             *)

(* Packets counted on o whose parse is still to come or to be counted.      *)
Pending(o) ==
  {t \in Objs \cup Injectors : thread[t].at \in {"find", "parse", "fail"} /\ thread[t].on = o}

(* Every packet counted on a running point fails to parse and is counted as *)
(* that, or is parsed, or is at hand (ING-ACC-06): none fails unseen and    *)
(* none fails twice.  Points on which a packet was settled that had come in *)
(* before they did are left out: parseFailed of those may exceed packets.   *)
PacketsAccounted ==
  \A id \in DOMAIN manager : LET o == manager[id] IN
    o \notin astray =>
      obj[o].packets = obj[o].parseFailed + settled[o] + Cardinality(Pending(o))

(* What inject returns (include/device_ingest/gateway.h:126).  For a point  *)
(* whose removePoint has returned it is -1.  For one that is there during   *)
(* the whole call, running or not, it is the number of events the bytes     *)
(* gave and the number of events other threads produced between the two     *)
(* readings of totalEvents: never less than its own, and its own exactly    *)
(* when nobody else produces any.  Calls during which resetState clears     *)
(* totalEvents or the parsers are changed are left out: the difference then *)
(* tells nothing, it may even be -1.                                        *)
InjectAnswers ==
  \A i \in Injectors : thread[i].at = "returned" =>
    LET f == thread[i] IN
    /\ f.expect = "absent" => f.result = -1
    /\ f.intact => \/ f.result = f.events + f.others
                   \/ f.result = -1 /\ f.expect # "present"

(* listPoints shows every point once: those configured during the whole     *)
(* call, and as running those that ran during the whole call, whatever is   *)
(* added or removed while it reads (gateway.cc:615-619).                    *)
EveryPointListed ==
  \A r \in Queriers : query[r].at = "listed" =>
    LET list == query[r].list IN
    /\ \A j, k \in DOMAIN list : list[j].id = list[k].id => j = k
    /\ \A id \in query[r].stayed : \E k \in DOMAIN list : list[k] = [id |-> id, up |-> TRUE]
    /\ \A id \in query[r].configured : \E k \in DOMAIN list : list[k].id = id

Arrived == SumFunction([o \in DOMAIN obj |-> obj[o].packets])

(* No packet is in two of the rates gatewayHealth computes on any threads,  *)
(* of those from one sample to the next in the order the calls began, with  *)
(* no point gone between them.  A call that reads its total, is overtaken   *)
(* by another call's sample and still takes its own subtracts the larger    *)
(* total from the smaller one, and the next rate counts packets again       *)
(* (gateway.cc:774-785): those two rates are left out.                      *)
CreditedOnce == credited <= Arrived

=============================================================================
