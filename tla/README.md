# device-ingest in TLA+

TLA+ models of the device access layer in `src/` (a C++ library that receives
UDP reports of devices, normalizes them, keeps a ledger of the devices and hands
the events to a host), the TLC runs that check them, and theorems about them
checked by TLAPS. Line numbers below are those of the repository.

    tlc -config MCFanout.cfg MCFanout        # a run; the table below lists them all
    tlapm FanoutProofs.tla                   # a proof module

## The system

| part | source | state | operations |
|---|---|---|---|
| access points (acc) | `src/acc/point.cc`, `manager.cc` | id → Point; per point its configuration, thread, `quit_`, counters | add, remove, stopAll; the receive loop |
| parsers (prs) | `src/prs/` | registered parsers | add, find, parse |
| normalization (nrm) | `src/nrm/` | none (pure) | normalize, validate, event data |
| health (hlt) | `src/hlt/health.cc` | ledger of device records, limit, evicted count, last stats times | push, check, dueStats, setConfig, setLedgerLimit, clear, queries |
| distribution (fan) | `src/fan/queue.cc`, `merge.cc` | bounded queue with counters | push, pop, setLimit, close, clear; mergeBatch |
| hub | `src/hub/event_hub.cc` | connected clients, count of broadcasts | addClient, removeClient, clearClients, broadcast |
| simulator | `tools/device_sim/main.cc` | per device its number, stopped or not | one packet per device and tick |
| gateway | `src/gateway.cc` | configuration, the parts above, threads, `stopFlag` | start, stop, reload, addPoint, removePoint, inject, resetState, queries |
| commands | `src/gateway.cc` 836-870 | none at this commit | stubs |

Threads: one receive thread per access point (packet → parse → normalize →
ledger → queue, and the Online event), one health thread (Offline and stats
events), one consumer thread (queue → merge window → sink), and the host's own
threads, which call the public operations. `lifeMtx` excludes start, stop and
reload from each other; `cfgMtx`, and one mutex in each of the manager, a point,
the tracker and the queue, are held for short sections only. The host's sink is
called on receive, health and consumer threads with no lock held.

What is hard about it, and what makes each part right:

* **distribution** - reload changes limit and window, resetState clears, and stop
  ends everything while receive threads push and the consumer is anywhere in its
  loop, and points come and go. Right: bounded, every event accounted for, reports of a
  device in order, nothing left behind at the end of what came before it.
* **ledger** - transitions are decided under a lock on two kinds of threads and
  announced after it; a bounded ledger evicts; reload rescales timeouts. Right:
  one event per transition, no device offline early or online for ever, the
  stalest evicted, all evictions counted, as far as its reports come in order.
* **sequence statistics** - late, lost and duplicate packets, restarts and window
  changes must be told apart from the numbers alone. Right: the contract's formula.
* **control side** - addPoint and removePoint interleave with the steps of reload,
  start and stop; threads are joined outside the locks. Right: one port, one
  point; no point forgotten; others undisturbed; every call returns.
* **packets and counters** - receive threads and inject count through pointers they
  looked up earlier while points come and go and queries read. Right: every packet
  counted once and settled once, queries that miss nothing.
* **hub** - broadcasts go out on several threads, to a snapshot, with no lock held, while
  clients come, go and throw. Right: each client hears exactly the broadcasts made while
  it is registered; a batch goes out whole or not at all; every broadcast ends.
* **simulator** - the instrument the acceptance tests rely on. Right: what it says it
  injected is what the tracker measures.
* **normalization and configuration** - pure, but with many paths per field. Right: nothing
  invented, one bad value costs itself only, only sound configurations accepted.

PROJECT.json lists these hazards line by line with the properties that cover them,
with a note where a property covers a part only, or none does.

## Modules

| module | models | composed with |
|---|---|---|
| `FanQueue` | `fan::Queue`; each critical section is an action | `Fanout` EXTENDS it |
| `Merge` | `mergeBatch`, `mergedCount` as operators | `Fanout` |
| `Fanout` | receive threads at the queue, `consumerLoop`, the queue's side of reload, resetState, stop, addPoint, removePoint | implements `Delivery` |
| `Delivery` | abstract: what the sink is promised per device | `Fanout!Delivers` |
| `SeqWindow` | the tracker's record of one device, with the figures of `push` and `toStats` | `SeqStats`, `DeviceSim` |
| `SeqStats` | a device, a network and the figures | |
| `DeviceSim` | the send loop of `device_sim` for one device, and the figures the tracker gets of it | EXTENDS `SeqWindow` |
| `Health` | the tracker's ledger, `healthLoop`, the Online/Offline events | |
| `HealthSink` | `Health` with what the sink is told | EXTENDS `Health` |
| `StatsClock` | `Health` with the stats times of `dueStats` | EXTENDS `Health` |
| `Hub` | `EventHub` and the threads that broadcast through it | |
| `Gateway` | start, stop, reload, addPoint, removePoint, Manager, life of the receive threads | |
| `Points` | the receive loop and `handlePacket` packet by packet, inject, counters, listPoints and gatewayHealth | |
| `Normalize` | parsers, `normalize` and `validate`, event name and data as operators | `MCNormalize` |
| `Config` | `fromJson`, `validate`, `applyEnvOverrides`, `startFromConfigText` as operators | `MCConfig` |
| `MC*` | values of the constants for TLC; for operators the inputs to try and the properties | |
| `FanoutProofs`, `HealthProofs`, `GatewayProofs`, `PointsProofs`, `HubProofs` | theorems | each EXTENDS what it is about |
| `SeqStatsProofs` | theorems on the figures | EXTENDS `SeqStats` and `DeviceSim`, which share the tracker |
| `InputProofs` | theorems on packets and configurations | EXTENDS `MCNormalize` and `MCConfig` |
| `DataLemmas` | lemmas on least numbers, counting and sums | the proof modules EXTEND it |

### How state and actions correspond to the code

**FanQueue / Fanout.** `items`, `limit`, `closed`, `pushed`, `dropped` are the
members of `fan::Queue`. A waiting `pop` is modelled by its outcome: it takes the
head, or fails on an empty queue (timed out or closed). `consumer` is the program
counter of `consumerLoop`: *top* (loop condition and the copy of the configuration),
*first* (`pop(.., 100)`), *failed* (the look at `closed()`), *window* and *collect*
(the inner loop), *deliver*, and after the loop *drain*, *last*, *done*. `stopper`
is that of `stop()`: *up*, *joining* the points `stopAll` has swapped out of the map
(`victims`), *flagged*, *closed*, and after the consumer's join *resetting* the manager,
which swaps out and joins the points added since, and *down*, when the queue is gone.
`mapped` are the threads of the points in the map, `live` those that have not ended.
addPoint and removePoint take no `lifeMtx` and come at any time; a point that
removePoint has taken out of the map ends by itself. An
event is a record of its device and its number among that device's reports. The
history variables `accepted`, `due`, `seen`, `lost`, `taken` are what the properties talk
about; the code does not have them. `due` is what stop() owes the sink: what was
accepted before it began, and what the threads in `victims` push until it has joined them. A window's deadline may pass at any moment
(`WindowEnds`), so every window length is covered.

**Health.** One step per critical section of the tracker. `rx[r]` is where a receive
thread is between `recvfrom`, `push` and `emitHealth`; `checker`, `tickNow` and
`wentOffline` are the locals of `healthLoop`; `reloading` marks the gap between
`setConfig` and `setLedgerLimit`. `told` in `HealthSink` is the last event the sink got of a
device. A device is *overtaken* when two threads hear it and its newest report was pushed
before an older one.
Ties among the stalest devices are broken by hash order, so `Oldest` offers them
all. Time is in ticks; periods and timeouts are whole ticks. `standing` counts, per
device, Online events decided less Offline events decided less online records lost.

The devices' stats times are in `StatsClock`: nothing the ledger does depends on them.

**Hub.** `thread[t]` is where a thread is in its broadcasts: *flag* (the sink has been served,
`emitNormalized` is about to be read), *cast* (before `broadcast`'s critical section), *send*
(at the rest of the snapshot). `left` counts the broadcasts it still has to make: the
events of a batch, the two of `emitHealth` for a transition (`device.*` and `node.state`),
one for an alert or for statistics. A broadcast is its place in `broadcastCount_`. `got`,
`since`, `spans` and `batch` are history. A client object is registered once at a time:
`addClient` would take it twice, and it would hear everything twice.

**DeviceSim.** `tick`, `seq`, `dropped` and `shuffled` are those of `main`; `phase` says which of
`stopAt` and `restartAt` have been reached. Each packet goes to the tracker's `countSeq` at
once. The history variables say when a window is `regular`, that is, when the figures can be
expected to be exact: it began with a plain packet before any restart, and each shuffled packet
fell back, by at most half the window's numbers.

**SeqWindow / SeqStats.** `rec` has the fields of `DeviceRecord` that the numbers
determine. The network may lose, duplicate and reorder; `MaxLag` is how far behind
the newest arrived number a packet may be. Rates are represented by their numerators
(`lost`, `outOfOrder`) since all share the denominator `expected`.

**Gateway.** `points` is the manager's map, `obj` the Point objects: *starting* (thread
made, not bound yet), *listening*, *ended*, *disabled* (registered without a thread).
A client's call is a frame: where it is, what is left to do, and the victims it has
moved out of the map and must stop, one after the other, and join. Groups and
interfaces behave like the port in `Changed` and are left out; `topic` stands for itself,
deviceType and timeoutMultiple, which reload writes and does not compare. `overlapped` is
history: two calls were once in progress together.

**Points.** `thread[t]` is the frame of `handlePacket` on a receive thread or an injector:
*find* (`parsers.find` and `manager->get`), *parse*, *fail* (`countParseFailed`), *event* and
*total* (`countEvent`, `totalEvents`), for inject also *look*, *arrive* (the first reading
of `totalEvents`) and *back* (the second). Its `on` is the object the packet was counted
on, `pt` the one found later. Point objects are never reused, and a pointer to one that is
gone goes on counting there: a use after destruction has no outcome to model. `control` is
the thread between `manager->remove`, the join and the write to the configuration;
`query[r]` that of each querying thread between the metrics and the end of listPoints or
gatewayHealth; the latter reads the clock (`ReadClock`) before it locks `bwMtx`
(`SampleBandwidth`), and a call whose total was read before another's sample is `behind`. The
history variables say what belongs to whom: `settled` and `astray` where packets ended,
`credited` what the rates have shown; in a frame of inject `others` are the events of other
threads since its first reading and `intact` says that nobody reset the counters or changed
the parsers. `stale` marks samples that count a point now gone or that were taken out of order. All points use one parser.

**Normalize.** A JSON object is a function from keys to typed values, numbers in halves.
The state machine in `MCNormalize` grows a packet one field at a time and hands it to a
parser; everything after that is the operators of the module. Which values, peers, topics and
host's parsers there are is a parameter, so that the theorems hold of all of them.

**Config.** The same for texts and environments; 32 and 64 bits are small moduli so that
the casts of `getIf` wrap within reach. The values are parameters of `MCConfig`.

## Runs

| run | question | states |
|---|---|---|
| `fanout` (MCFanout.cfg) | bounded, accounted for, merged, ordered, drained, with points coming and going during stop; implements `Delivery` | 531,828 |
| `health` (MCHealth.cfg) | two receive threads sharing a device, a stale clock copy, reload and clear: ledger bounded and accounted for; events alternate; nobody heard in order offline early, silent devices go offline; the stalest goes first | 1,453,824 |
| `seq_stats` (MCSeqStats.cfg) | the figures are exact while packets are overtaken by at most one number | 1,299,430 |
| `sim` (MCDeviceSim.cfg) | what the simulator injects is what is measured, in regular windows | 2,465,672 |
| `hub` (MCHub.cfg) | who hears which broadcast; batches whole; broadcasts end | 675,094 |
| `gateway` (MCGateway.cfg) | no point forgotten or disturbed, no port shared, calls return, no deadlock; what the configuration lists | 699,649 |
| `points` (MCPoints.cfg) | every packet accounted for, what inject's answer tells, the list is complete, no packet in two rates | 8,091,973 |
| `normalize` (MCNormalize.cfg) | every packet up to three fields: nothing invented, only the bad field lost, data as promised | 287,875 |
| `config` (MCConfig.cfg) | exactly the sound configurations are accepted; what starts is the text's points or the fallback | 1,352,400 |

Three more runs each show one disagreement between the code and what the repository
says of it ("findings" in PROJECT.json):

| run | property refuted | what happens |
|---|---|---|
| `health_sink` | `SinkAgrees` | Offline of the old silence reaches the sink after Online of the return |
| `health_stats_clock` | `StatsClockBounded` | the table of stats times keeps evicted devices |
| `gateway_reload` | `ConfiguredPointsUp` | swapping the ports of two points in a reload loses one, and reload returns true |

Others, met while modelling, without a run of their own:

* A packet two numbers late right after a window began is taken for a restart
  (health.cc:206), so the rates are not the exact ones of docs/契约/外设接入契约.md:138;
  `FiguresExact` holds for packets one number late only.
* `setConfig` keeps the multiple it reads off the old timeout (health.cc:105), so a changed
  multiple does not reach known devices (docs/需求/外设接入需求专篇.md:151). `NoFalseOffline` and
  `SilentGoesOffline` judge by the timeout the ledger keeps, the first also by the heartbeat in force.
* A device heard on two access points: its reports may be pushed in the opposite order of
  their stamps, `lastSeen` goes back (health.cc:160), and it is judged offline, or evicted,
  though its newest report is younger than the timeout (docs/需求/外设接入需求专篇.md:151, ING-HLT-01).
  `NoFalseOffline` and `StalestGoesFirst` except such devices.
* The out-of-order rate is out-of-order packets over packets expected (health.cc:86): one number
  repeated 1, 0, 0 gives 2/2, and more repetitions more than 1. Only the loss rate is kept within
  0 and 1.
* gateway.h:103 has stop() stop the receive threads and drain the queue, and gateway.cc:479 that
  nothing new is produced once the points are stopped. addPoint takes no `lifeMtx`: a point it
  adds after `stopAll`'s swap (manager.cc:126-129) goes on receiving until `manager.reset()`
  (gateway.cc:486), and what it pushes after the consumer's drain is destroyed with the queue,
  seen by nobody and counted nowhere. The same happens to a point that a concurrent
  removePoint has taken out of the map and not joined yet, and to inject.
  `OnlyLateIsLeft`, `Delivers` and `EveryReportSettles` confine the loss to these.
* reload writes all of a point's fields to the configuration (gateway.cc:506) but compares only some of them
  (gateway.cc:545-548): a new topic, deviceType or timeoutMultiple is listed by listPoints
  and not in force, though gateway.cc:583 wants the list to agree with what runs and ING-HLT-01
  a device type's new multiple to take effect. `ConfigListsPoints` is about the fields compared.
* inject returns the growth of the gateway's event count (gateway.cc:722-724), so the events that
  receive threads produce meanwhile are counted in, and a resetState in between can make it
  anything, -1 included; gateway.h:126 promises the events produced, and -1 for a point that does
  not exist. `InjectAnswers` says what the number does tell.
* gatewayHealth reads total and clock before it takes `bwMtx` (gateway.cc:774-777), although
  queries may be called on any thread (gateway.h:78): a call held up for a second after it has
  read its total, while another one samples, subtracts the larger total from its smaller one, which
  wraps, and sets the last total back, so that the next rate counts packets again. `CreditedOnce`
  leaves those two rates out.
* A port of 2^32+3 in the text is 3 once `getIf` has cast it (config.cc:61-71) and passes the check
  that has an error for ports above 65535 (config.cc:19); offlineCheckIntervalMs and
  statsPushIntervalMs are not checked at all. `AcceptedIffSound` judges what has been read.
* device_sim shuffles from its fifth packet on (main.cc:308), but a packet three numbers back
  is taken for a restart while the window spans fewer than six; and after three numbers
  dropped or shuffled in a row it is not late at all. docs/契约/外设接入契约.md:318 has
  `outOfOrderCount` agree with the number injected; `InjectedIsMeasured` shows when it does.
* device_sim sets the number back to 0 in every tick after the restart (main.cc:274-278), so
  that each packet carries number 1 and no loss is measured from then on; the comment
  there has it happen like a restart of the device, once.
* sink.h:28-31 has onEvent called instead of onBatch when the window is 0; `deliver` always
  calls onBatch.
* A full queue drops events and counts them, but raises no alert (docs/契约/外设接入契约.md:298).
* clock.h has timeouts use `steadyMs()`; the ledger compares `nowMs()` stamps.
* The two broadcasts of one transition (`device.*`, `node.state`) are made separately, so
  those of two threads may alternate; no property is stated of their order.
* `mergeBatch` has a key for events without a deviceId, which `normalize` never makes.
* reload's restart branch does not ask whether the parser is registered (gateway.cc:552).
* `packetsPerSec` subtracts unsigned totals (gateway.cc:783): when a point has left since
  the last sample the rate is enormous. `CreditedOnce` leaves such samples out.
* The data of a legacy event keep a `ts` that is no number while `tsSource` says "server"
  (normalize.cc:184-190); validate.cc:5 has the server's time put in its place.
* normalize.h:23-26 counts values that are no numbers among the dropped ones; `asDouble`
  makes them missing, and nothing is counted.
* A negative limit in the configuration becomes a huge one (config.cc:163-165); the comment
  before it says that the default is kept.
* The environment's values are never validated: applyEnvOverrides (config.cc:217) comes
  after `validate`, so a heartbeat period of 0 can reach the tracker.

### Bounds, and why they are enough

* **fanout**: one access point, which is there at start or not and may come and go any number
  of times, before, during and after stop's swap; two devices, two reports of each and three
  altogether, limits none and 2. Three events overflow the queue of 2, fill a window with
  two reports of one device and still leave one for the drain. Reload, clear, addPoint and
  removePoint are not bounded.
* **health**: two threads, one device both hear and two that one of them hears, so that a ledger
  of two gives up one of two known devices for the third; three packets, enough for three
  records or a device that returns twice. A reload changes between timeout 1 with limit 2 and
  timeout 2 with limit 1, so that rescaling goes both ways; time to 4 lets a device whose
  timeout has been made longer go offline.
* **seq_stats**: numbers to 5 make a span in which the threshold exceeds 1; one
  restart, one duplicate, one window change. Two receive windows are enough to carry
  figures over. `FiguresExact` assumes `MaxLag = 1`, and claims nothing of a window in
  which a restart's first number does not fall far enough to be seen (`blurred`): no
  rule on numbers alone could tell.
* **sim**: 13 ticks give a window of six numbers with shuffled and dropped packets after
  it, and a second window.
* **hub**: a client that throws ahead of a WebSocket, so that what it throws could cost the
  other a message; four broadcasts let the consumer's batch of two and a transition's two
  overlap in every way. Registering, leaving and reloading are not bounded.
* **gateway**: two clients, of which one may start, stop and reload (a second would
  only wait for `lifeMtx`); two ids, two ports, a port another process may hold, an
  unknown parser, a topic that changes with nothing else. Of the five Point objects one is always unused (`TypeOK` has
  `FreshObj # {}`), so their number keeps no point from starting.
* **points**: four packets and calls altogether, in any mixture: three samples and a packet
  give two rates, and two querying threads overtake each other between them; a removal, an addition and two packets give a pointer that has gone
  astray; a packet of each way to end (two events, none and too long, refused, thrown at,
  empty). Three Point objects, so an id can come back.
* **normalize**: three fields let an identifier or a bad value stand beside a good one and the
  kind; values lie on both sides of each limit, in each type of JSON.
* **config**: three points, so that the first and the last can collide; one key of the text
  and two variables at a time, enough for a port and what it selects.
* `CHECK_DEADLOCK FALSE` where the system may stop: after stop() (fanout), when time and the
  packets are used up (health), when numbers, ticks or broadcasts are (seq_stats, sim, hub),
  when the calls are used up (points), when the one input is handled (normalize, config).
  In `gateway` deadlock is checked.

### Fairness

* `Fanout`: the consumer thread keeps taking steps; a deadline that comes round again
  and again passes (strong fairness of `WindowEnds`: `steadyMs()` grows, whatever the
  inner loop does); a stop() that has begun goes on; a receive thread ends after the packet
  at hand, because `select` times out after 200 ms and `quit_` is set. Nobody owes a
  report, a reload or a call.
* `Health`: the health thread keeps going round (it sleeps a bounded time).
* `Hub`: a thread inside a broadcast goes on; clients return from `onMessage` or throw.
* `SeqStats`, `DeviceSim`, `Points`, `Normalize` and `Config` assume none: safety only.
* `Gateway`: a thread inside a call goes on, a receive thread looks at `quit_` again.

## Proofs

Every theorem holds for all values of the constants that the module's ASSUME allows. Where a
theorem has a hypothesis of its own it is named here.

`DataLemmas`: a set of numbers has a least member (the provers cannot instantiate the library's
induction theorems, but a least counterexample serves as well: `UpTo`), and the sum of a function
with a finite domain is the cardinality of its units (`SumIsCount`), so that sums can be handled
without induction.

`FanoutProofs`, for any receive threads, devices, reports and limits:

* `MergeKeepsItsWord`: the loop of `mergeBatch` followed round by round: after k events it holds
  the last event per key, in the order of the keys' first. `ConflatesToLastPerKey` applies it to
  whatever the consumer has collected.
* `QueueStaysBounded` and `CountersAddUp` from `QueueInv`. Neither is inductive alone: the bound
  needs the types, and the sum needs that `push` evicts exactly one event from a queue that is
  full and so not empty.
* `OnlyLateIsLeftBehind` from `EndInv` and `TailInv`: the consumer leaves its loop on `stopFlag` or on
  a closed queue; the queue is closed only after `stopFlag` is raised, and that only when `stopAll`
  has joined its last victim; from then on nothing more falls due, and the drain ends with all that
  is due taken.
* `PipeStaysOrdered` from `PipeInv`: batch and queue are one pipe, and taking an event moves it
  within; per device it is ordered, newer than what was seen and no newer than what was accepted,
  and whatever was accepted last is seen, lost or still in it.
* `BatchIsLocal` from `ControlInv`, what the consumer knows of its own state at each place.
* `ServesAsPromised`: `Fanout` implements `Delivery`. Initial states map to initial states, each
  step to a step or a stutter; a delivery shows no report twice because the pipe is ordered, and
  at the consumer's end no report that is due can be in the queue (`TailInv`).

`SeqStatsProofs`, for any duplicates, restarts, windows and losses:

* `TypeCorrect` and `FiguresAreConsistent` from `IInv`: an open window holds a packet and counts
  fewer out of order than received.
* `FallingBackIsHarmless`: a number that falls back without opening a session can be below the
  minimum by 1 at most, and it is itself received, so it adds no loss.
* `FiguresAreExact`, if `MaxLag <= 1`: the record's span is that of the numbers heard and its
  counts are the packets' (`ExactInv`). TLC refutes it for `MaxLag = 2`, see above.
* `SimulatorIsMeasured`, for any number of ticks and windows: in a regular window the record spans
  the numbers from the first packet's to the last plain one's and has counted those sent
  (`SimInv`). A shuffled packet falls back by at most half the span, so it opens no session, and
  stays above the first, so it adds to the out-of-order count and to nothing else.

`HealthProofs`, for any devices, receive threads, configurations and limits, from `IInv`
(`LedgerInv`, the ledger and its books, and `ThreadInv`, where the threads are):

* `TypeCorrect`; `LedgerIsAccounted`: within the limit unless a reload is between its two
  sections, and `evictedTotal()` has every record that was made and is gone. Evictions are
  counted by cardinalities, so the invariant must say that the ledger is finite.
* `EventsAlternate`. The decisions look at `online` or at `offlineSince`, so the invariant ties
  them: a record is online exactly when its `offlineSince` is 0, and the time is never 0.
* `NeverOfflineEarly` and `StalestIsEvicted`, with `ClockInv`: `lastSeen` is never newer than the
  newest report; for a device that one thread hears they are equal, because such a thread's
  pending report is no older than the last one; the time `healthLoop` read is not in the future;
  and no rescaled timeout is below the period. For a device that two threads hear they say nothing
  once it is overtaken: there the code does judge early (see above).

`GatewayProofs`, for any clients, ids, ports, configurations and Point objects:

* `OnePortOnePoint` and `NothingIsForgotten`. Neither is inductive; both rest on who owns what.
  `CallInv`: which calls hold `lifeMtx`, which of them need the manager to be there, and that a call
  between two stops of points has no victims left. `OwnInv`: each Point object in use is either
  registered, under its own id, or a victim of exactly one call, never both; no two registered
  points have one port. That `lifeMtx` excludes calls matters in one place: points may be
  registered only while the manager is there, and only its holder takes the manager down.
* `OthersStay`, with `ReloadInv`: what a reload is about to drop its new configuration lacks, and
  what it is about to restart it has found changed, which stays true as long as no other call
  comes in.
* `TypeCorrect`, if `Objs` is infinite: each step uses at most one more object (`UsedInv`), so a
  new one is never wanting. With finitely many, TLC's bound on the calls takes its place.
* `PointsAreListed`, if every configuration lists an id once (`OnceEach`, which
  `IngestConfig::validate` demands, config.cc:35). Each call in progress owes the agreement of map
  and configuration for the ids it has still to handle (`AgreeInv`), and pays when it ends. They
  agree on port, parser and switch (`SameSettings`), not on fields that reload does not compare.

`PointsProofs`, for any access points, injectors and packets; the assumption has fewer operations
than a counter can count (`MaxOps < Wrap`, 2^64 in the code):

* `EveryPacketAccounted`. The account holds of registered objects that no foreign packet was settled
  on; it is inductive with what a thread knows of the object its packet was counted on: the object
  has the id the thread goes by, so as long as it is registered it is the one `manager->get` finds,
  and any other object found is marked at once.
* `InjectTellsTheEvents`: between the two readings of `totalEvents` it has grown by the injector's
  own events so far and those of others, whoever else produces any (`InjectorInv`), unless
  resetState or a change of the parsers comes in.
* `ListsEveryPoint`: what the query has read so far against the map as it is (`QueryInv`); a point
  that has stayed is read at its turn, whatever else comes and goes.
* `CreditedAtMostOnce`. The rates are differences of sums over the map, so the invariant speaks of
  sets: there are a set of packets seen by some sample and one of those the last sample saw, the
  first as large as what was credited at least and the second as large as the last total
  (`Samples`, `CreditInv`, `SumIsCount`). A sample in progress on any thread, which reads one point
  at a time, adds packets to both that neither had (`ReadSoFar`), as long as no other is taken
  before it (`Follows`).

`HubProofs`, for any clients, threads and sizes of batches:

* `BatchesGoOutWhole`: inside a batch, the broadcasts made and those left add up to its size, since
  `emitNormalized` is read once, before the first.
* `RegisteredOnce` and `EachHearsItsOwn`: what a client has been handed and what is on its way to
  it, in the rest of a snapshot of one thread, is exactly what it is owed, and never both
  (`HearInv`). It needs that nobody is in a vector twice, hence none in a snapshot, and that no
  two threads have the same broadcast.

`InputProofs`, for any packet whose values are JSON's (`IsValue`), any peer, topic and host's parser,
and any text and environment whose values are such as they have (`IsSetting`):

* `NothingIsInvented`, `OnlyTheFieldGoes`, `DataIsAsPromised`, `PeerOnlyIfNothingElse`. The
  invariant says only that a result is what the operators make of a parsed packet (`Handled`); the
  work is in lemmas about them: what a field reads as, what is left of a reading in a part of the
  packet (`PartKeeps`, `PartNames`), which identifier is chosen.
* `AcceptedExactlyIfSound`, of the configuration after the casts: comparing each point with those
  before it compares every two, and the casts leave integers. `StartsWhatWasRead`.

Only model-checked: liveness (`Fanout`, `Health`, `Hub`, `Gateway`), because neither fairness nor
ENABLED is in the provers' reach. Not proved, because they are false: the three refuted properties.

## Not modelled, and why

* The hub's envelope and `sendTo`: they touch no state.
* JSON syntax and the reading of files; floating point beyond halves (a heading a hair below
  0 rounds to exactly 360); hexDigest, quality, the shape of addresses.
* `totalParseFailed`: nothing reads it. bind failures are in `Gateway`, not in `Points`.
* Other queries, formatting, logging and JSON output; sockets and the wall clock beyond their
  outcomes; positions and packet counts of the ledger.
* Commands: stubs at this commit. `util/bounded.h`: used nowhere.
* `device_sim`'s options, positions and socket; `host_demo`, tests, scripts and third-party code.
* Use of a manager, queue or point after stop() or removePoint() destroyed it: listed
  as hazards, no outcome to model.

## Plan

1. Done: distribution, ledger, sequence statistics, control side, packets and counters, hub,
   simulator, normalization, configuration; a device heard through two access points; the
   theorems above.
2. A queue's overflow as status() sees it; parsers that differ per point in `Points`.
3. The bounded containers of `util/bounded.h` if the code comes to use them.
4. Proofs: the safety part of the remaining temporal properties, such as what a stop() in progress
   can still be waiting for; `Points` without the bound on its operations.
