------------------------------- MODULE Health -------------------------------
(***************************************************************************)
(* The device ledger (hlt::HealthTracker) and the threads that turn its    *)
(* transitions into events: receive threads push what they normalized and  *)
(* announce a device that came online; the health thread judges silent     *)
(* devices offline and announces them; reload() changes the configuration; *)
(* resetState() forgets everything.  The tracker's mutex makes each of its *)
(* operations one step; the announcements come after it is released.       *)
(*                                                                         *)
(* Time is in ticks, and so are heartbeatPeriodMs and timeoutSec.  The     *)
(* clock does not go back.  The figures push() keeps of the sequence       *)
(* numbers are in SeqWindow, the clocks of the stats events in StatsClock, *)
(* what the sink gets to hear of a device in HealthSink.                   *)
(***************************************************************************)
EXTENDS Integers, FiniteSets

CONSTANTS
  Devices,
  Receivers,      \* the threads that handle packets
  Reports,        \* pairs <<r, d>>: device d reports through r's access point
  Configs,        \* records [period, multiple, limit]: heartbeatPeriodMs,
                  \* defaultTimeoutMultiple, ledgerLimit (0 = unbounded)
  MaxPackets,     \* bound: packets received
  MaxTime         \* bound: the last tick

ASSUME HealthAssumption ==
  /\ Reports \subseteq Receivers \X Devices
  /\ Configs \subseteq [period : Nat \ {0}, multiple : Nat \ {0}, limit : Nat]
  /\ Configs # {}
  /\ MaxPackets \in Nat /\ MaxTime \in Nat

VARIABLES
  now,            \* nowMs()
  cfg,            \* cfg_, the fields used here
  ledgerLimit,    \* ledgerLimit_
  devices,        \* devices_: records of the devices in the ledger
  evicted,        \* evicted_
  rx,             \* per receive thread: where it is and the event at hand
  reloading,      \* reload() is between setConfig and setLedgerLimit
  checker,        \* where healthLoop is
  tickNow,        \* its copy of the time
  wentOffline,    \* devices it judged offline and has not announced yet
  packets,        \* history: packets received
  heardAt,        \* history: newest recvAt pushed, per device
  discovered,     \* history: records made since construction or clear()
  standing        \* history: per device, Online events decided less Offline events
                  \* decided less online records evicted or cleared

ledger == <<cfg, ledgerLimit, devices, evicted>>
healthThread == <<checker, tickNow, wentOffline>>
history == <<packets, heardAt, discovered, standing>>
vars == <<now, ledger, rx, reloading, healthThread, history>>

Idle == [at |-> "idle"]

Init ==
  /\ now = 1
  /\ cfg \in Configs
  /\ ledgerLimit = cfg.limit
  /\ devices = <<>>
  /\ evicted = 0
  /\ rx = [r \in Receivers |-> Idle]
  /\ reloading = FALSE
  /\ checker = "top" /\ tickNow = 0 /\ wentOffline = {}
  /\ heardAt = [d \in Devices |-> 0]
  /\ discovered = 0 /\ packets = 0
  /\ standing = [d \in Devices |-> 0]

Tick ==
  /\ now < MaxTime
  /\ now' = now + 1
  /\ UNCHANGED <<ledger, rx, reloading, healthThread, history>>

-----------------------------------------------------------------------------
(* Receive threads.                                                        *)

(* recvfrom returned, recvAt is stamped; parsing and normalizing change     *)
(* nothing the tracker sees.                                                *)
TakePacket(r, d) ==
  /\ rx[r].at = "idle"
  /\ <<r, d>> \in Reports
  /\ packets < MaxPackets
  /\ packets' = packets + 1
  /\ rx' = [rx EXCEPT ![r] = [at |-> "push", dev |-> d, recvAt |-> now]]
  /\ UNCHANGED <<now, ledger, reloading, healthThread, heardAt, discovered, standing>>

(* Sets of n devices that may be evicted together: the ones seen least      *)
(* recently, ties broken by the order of the hash map.                      *)
Oldest(n) ==
  {V \in SUBSET DOMAIN devices :
     /\ Cardinality(V) = n
     /\ \A v \in V, d \in DOMAIN devices \ V : devices[v].lastSeen <= devices[d].lastSeen}

(* The ledger is full for one more device.                                  *)
NoRoom == ledgerLimit > 0 /\ Cardinality(DOMAIN devices) >= ledgerLimit

NewRecord(recvAt) ==
  [lastSeen |-> recvAt, online |-> TRUE, timeout |-> cfg.period * cfg.multiple,
   offlineSince |-> 0]

(* lastOfflineSec: the time since the record was judged offline.            *)
Away(rec, recvAt) == IF rec.offlineSince > 0 THEN recvAt - rec.offlineSince ELSE 0

(* standing after the records of V have left the ledger.                    *)
Forgotten(V) ==
  [d \in Devices |-> IF d \in V /\ devices[d].online THEN standing[d] - 1 ELSE standing[d]]

(* Bug: the evicted record is not counted.                                  *)
discoverUncounted(r) ==
  LET ev == rx[r] IN
  \E V \in Oldest(IF NoRoom THEN 1 ELSE 0) :
    /\ devices' = [d \in (DOMAIN devices \ V) \cup {ev.dev} |->
                     IF d = ev.dev THEN NewRecord(ev.recvAt) ELSE devices[d]]
    /\ UNCHANGED evicted
    /\ standing' = [Forgotten(V) EXCEPT ![ev.dev] = @ + 1]
    /\ discovered' = discovered + 1

(* Bug: a full ledger loses the device seen last.                           *)
discoverEvictsNewest(r) ==
  LET ev == rx[r] IN
  \E V \in SUBSET DOMAIN devices :
    /\ Cardinality(V) = IF NoRoom THEN 1 ELSE 0
    /\ \A v \in V, d \in DOMAIN devices : devices[v].lastSeen >= devices[d].lastSeen
    /\ devices' = [d \in (DOMAIN devices \ V) \cup {ev.dev} |->
                     IF d = ev.dev THEN NewRecord(ev.recvAt) ELSE devices[d]]
    /\ evicted' = evicted + Cardinality(V)
    /\ standing' = [Forgotten(V) EXCEPT ![ev.dev] = @ + 1]
    /\ discovered' = discovered + 1

(* push() of a device that is not in the ledger; a full ledger loses the    *)
(* device seen least recently, online or not.                               *)
discover(r) ==
  LET ev == rx[r] IN
  \E V \in Oldest(IF NoRoom THEN 1 ELSE 0) :
    /\ devices' = [d \in (DOMAIN devices \ V) \cup {ev.dev} |->
                     IF d = ev.dev THEN NewRecord(ev.recvAt) ELSE devices[d]]
    /\ evicted' = evicted + Cardinality(V)
    /\ standing' = [Forgotten(V) EXCEPT ![ev.dev] = @ + 1]
    /\ discovered' = discovered + 1

(* Bug: a device that comes back stays offline in the ledger.               *)
refreshStaysOffline(r) ==
  LET ev == rx[r] IN
  /\ devices' = [devices EXCEPT ![ev.dev].lastSeen = ev.recvAt]
  /\ standing' = IF devices[ev.dev].online THEN standing ELSE [standing EXCEPT ![ev.dev] = @ + 1]
  /\ UNCHANGED <<evicted, discovered>>

(* Bug: a device that comes back keeps the time it went offline.            *)
refreshKeepsOfflineSince(r) ==
  LET ev == rx[r] IN
  /\ devices' = [devices EXCEPT ![ev.dev].lastSeen = ev.recvAt, ![ev.dev].online = TRUE]
  /\ standing' = IF devices[ev.dev].online THEN standing ELSE [standing EXCEPT ![ev.dev] = @ + 1]
  /\ UNCHANGED <<evicted, discovered>>

(* push() of a device the ledger knows.                                     *)
refresh(r) ==
  LET ev == rx[r] IN
  /\ devices' = [devices EXCEPT ![ev.dev].lastSeen = ev.recvAt,
                                ![ev.dev].online = TRUE,
                                ![ev.dev].offlineSince =
                                   IF devices[ev.dev].online THEN @ ELSE 0]
  /\ standing' = IF devices[ev.dev].online THEN standing ELSE [standing EXCEPT ![ev.dev] = @ + 1]
  /\ UNCHANGED <<evicted, discovered>>

(* The reason the Online event carries.                                     *)
Reason(offlineSec) == IF offlineSec > 0 THEN "resumed" ELSE "discovered"

(* health->push(ev); the result says whether handlePacket announces the     *)
(* device and with which offline time.                                      *)
Push(r) ==
  LET ev == rx[r]
      known == ev.dev \in DOMAIN devices
      back == known /\ ~devices[ev.dev].online
  IN
  /\ rx[r].at = "push"
  /\ IF known THEN refresh(r) ELSE discover(r)
  /\ IF known /\ ~back
     THEN rx' = [rx EXCEPT ![r] = Idle]
     ELSE rx' = [rx EXCEPT ![r] =
                   [at |-> "announce", dev |-> ev.dev,
                    reason |-> Reason(IF back THEN Away(devices[ev.dev], ev.recvAt) ELSE 0)]]
  /\ heardAt' = [heardAt EXCEPT ![ev.dev] = IF ev.recvAt > @ THEN ev.recvAt ELSE @]
  /\ UNCHANGED <<now, cfg, ledgerLimit, reloading, healthThread, packets>>

(* emitHealth(Online) on the receive thread; queueing the event follows.    *)
(* What it tells the sink is in HealthSink.                                 *)
AnnounceOnline(r) ==
  /\ rx[r].at = "announce"
  /\ rx' = [rx EXCEPT ![r] = Idle]
  /\ UNCHANGED <<now, ledger, reloading, healthThread, history>>

-----------------------------------------------------------------------------
(* healthLoop.                                                             *)

(* Bug: the time is read once, when the thread starts.                      *)
ReadClockHoisted ==
  /\ checker = "top"
  /\ tickNow' = 1
  /\ checker' = "check"
  /\ UNCHANGED <<now, ledger, rx, reloading, wentOffline, history>>

(* const Millis tickNow = nowMs().                                          *)
ReadClock ==
  /\ checker = "top"
  /\ tickNow' = now
  /\ checker' = "check"
  /\ UNCHANGED <<now, ledger, rx, reloading, wentOffline, history>>

(* Bug: a device at its timeout is judged offline, not only beyond it.      *)
SilentAtLimit(t) == {d \in DOMAIN devices : /\ devices[d].online
                                            /\ t - devices[d].lastSeen >= devices[d].timeout}

(* Online devices silent for longer than their timeout at time t.           *)
Silent(t) == {d \in DOMAIN devices : /\ devices[d].online
                                     /\ t - devices[d].lastSeen > devices[d].timeout}

(* health->check(tickNow, wentOffline).                                     *)
Check ==
  /\ checker = "check"
  /\ wentOffline' = Silent(tickNow)
  /\ devices' = [d \in DOMAIN devices |->
                   IF d \in Silent(tickNow)
                   THEN [devices[d] EXCEPT !.online = FALSE, !.offlineSince = tickNow]
                   ELSE devices[d]]
  /\ standing' = [d \in Devices |->
                    IF d \in Silent(tickNow) THEN standing[d] - 1 ELSE standing[d]]
  /\ checker' = "announce"
  /\ UNCHANGED <<now, cfg, ledgerLimit, evicted, rx, reloading, tickNow,
                 heardAt, discovered, packets>>

(* emitHealth(Offline) for the devices judged offline, one after the other. *)
AnnounceOffline(d) ==
  /\ checker = "announce"
  /\ d \in wentOffline
  /\ wentOffline' = wentOffline \ {d}
  /\ UNCHANGED <<now, ledger, rx, reloading, checker, tickNow, history>>

(* health->dueStats(tickNow), the stats events it asks for and the sleep    *)
(* that ends the round: of the ledger nothing changes, see StatsClock, and  *)
(* the copy of the time is gone.                                            *)
DueStats ==
  /\ checker = "announce"
  /\ wentOffline = {}
  /\ checker' = "top"
  /\ tickNow' = 0
  /\ UNCHANGED <<now, ledger, rx, reloading, wentOffline, history>>

-----------------------------------------------------------------------------
(* Control threads.                                                        *)

(* setConfig's new timeout: the multiple is recovered from the old timeout  *)
(* by rounding (lround: halves go up).                                      *)
Rescaled(timeout, new) ==
  LET multiple == (2 * timeout + new.period) \div (2 * new.period)
  IN new.period * (IF multiple > 0 THEN multiple ELSE new.multiple)

(* health->setConfig(newCfg) in reload(): the limit is stored, not applied. *)
(* A known device keeps about the timeout it has, whatever the multiple.    *)
SetConfig(new) ==
  /\ ~reloading
  /\ reloading' = TRUE
  /\ cfg' = new
  /\ ledgerLimit' = new.limit
  /\ devices' = [d \in DOMAIN devices |->
                   [devices[d] EXCEPT !.timeout = Rescaled(@, new)]]
  /\ UNCHANGED <<now, evicted, rx, healthThread, history>>

Excess ==
  IF ledgerLimit > 0 /\ Cardinality(DOMAIN devices) > ledgerLimit
  THEN Cardinality(DOMAIN devices) - ledgerLimit ELSE 0

(* health->setLedgerLimit(newCfg.ledgerLimit): a smaller limit takes effect *)
(* at once.                                                                 *)
SetLedgerLimit ==
  /\ reloading
  /\ reloading' = FALSE
  /\ \E V \in Oldest(Excess) :
       /\ devices' = [d \in DOMAIN devices \ V |-> devices[d]]
       /\ evicted' = evicted + Cardinality(V)
       /\ standing' = Forgotten(V)
  /\ UNCHANGED <<now, cfg, ledgerLimit, rx, healthThread, heardAt, discovered, packets>>

(* health->clear() in resetState().                                         *)
Clear ==
  /\ devices' = <<>>
  /\ evicted' = 0
  /\ discovered' = 0
  /\ standing' = Forgotten(DOMAIN devices)
  /\ UNCHANGED <<now, cfg, ledgerLimit, rx, reloading, healthThread, heardAt, packets>>

-----------------------------------------------------------------------------

Receive ==
  \/ \E r \in Receivers, d \in Devices : TakePacket(r, d)
  \/ \E r \in Receivers : Push(r) \/ AnnounceOnline(r)

HealthLoop == ReadClock \/ Check \/ DueStats \/ \E d \in Devices : AnnounceOffline(d)

(* The steps in which the clocks of the stats events have no part.          *)
LeavesStats ==
  \/ Tick
  \/ Receive
  \/ ReadClock \/ Check \/ \E d \in Devices : AnnounceOffline(d)
  \/ \E new \in Configs : SetConfig(new)
  \/ SetLedgerLimit

Next == LeavesStats \/ DueStats \/ Clear

Spec == Init /\ [][Next]_vars

(* The health thread keeps going round, whatever the others do.             *)
FairSpec == Spec /\ WF_vars(HealthLoop)

-----------------------------------------------------------------------------
(* Properties.                                                             *)

Record == [lastSeen : Nat, online : BOOLEAN, timeout : Nat, offlineSince : Nat]

(* The types; an offline record knows since when it has been offline.       *)
TypeOK ==
  /\ now \in Nat /\ tickNow \in Nat
  /\ cfg \in Configs /\ ledgerLimit \in Nat
  /\ DOMAIN devices \subseteq Devices
  /\ \A d \in DOMAIN devices :
       /\ devices[d] \in Record
       /\ devices[d].online <=> devices[d].offlineSince = 0
  /\ evicted \in Nat /\ discovered \in Nat /\ packets \in Nat
  /\ \A r \in Receivers :
       \/ rx[r] = Idle
       \/ rx[r] \in [at : {"push"}, dev : Devices, recvAt : Nat]
       \/ rx[r] \in [at : {"announce"}, dev : Devices, reason : {"resumed", "discovered"}]
  /\ reloading \in BOOLEAN
  /\ checker \in {"top", "check", "announce"}
  /\ wentOffline \subseteq Devices
  /\ heardAt \in [Devices -> Nat] /\ standing \in [Devices -> Int]

(* The ledger is within its limit, except between reload's two calls, and  *)
(* nothing leaves it uncounted: what was ever made of devices not known is  *)
(* still there or in evictedTotal() (ING-NFR-05).                           *)
LedgerAccounts ==
  /\ (ledgerLimit > 0 /\ ~reloading) => Cardinality(DOMAIN devices) <= ledgerLimit
  /\ discovered = Cardinality(DOMAIN devices) + evicted

(* The events decided for a device alternate: every Online is followed by   *)
(* one Offline or by the loss of the record, else the device is online now. *)
(* So no transition decides on two events and none on none; that each is    *)
(* announced once is the order of handlePacket and healthLoop.              *)
EventAccounting ==
  \A d \in Devices :
    standing[d] = IF d \in DOMAIN devices /\ devices[d].online THEN 1 ELSE 0

(* Two receive threads hear the device.                                     *)
Shared(d) == \E r, q \in Receivers : r # q /\ {<<r, d>>, <<q, d>>} \subseteq Reports

(* The newest report of a device heard through two access points was        *)
(* overtaken between recvfrom and push: lastSeen went back.                 *)
Overtaken(d) == Shared(d) /\ devices[d].lastSeen < heardAt[d]

(* A device is judged offline only when its newest report is older than the *)
(* timeout the ledger keeps for it and than a heartbeat of the              *)
(* configuration in force, whatever reload() did to the timeout and receive *)
(* threads do while healthLoop holds an old copy of the time.  The only     *)
(* exception are overtaken devices, which the code judges by their older    *)
(* report.                                                                  *)
NoFalseOffline ==
  [][\A d \in DOMAIN devices \cap DOMAIN devices' :
       (devices[d].online /\ ~devices'[d].online)
         => \/ /\ now - heardAt[d] > devices[d].timeout
               /\ now - heardAt[d] > cfg.period
            \/ Overtaken(d)]_vars

(* A full ledger never gives up a device for a new one while it keeps one   *)
(* that has been silent longer (ING-NFR-05), unless the former was          *)
(* overtaken.                                                               *)
StalestGoesFirst ==
  [][devices' # <<>> =>
       \A v \in DOMAIN devices \ DOMAIN devices', d \in DOMAIN devices \cap DOMAIN devices' :
         heardAt[v] <= heardAt[d] \/ Overtaken(v)]_vars

(* A silent device does not stay online: it is judged offline, unless it    *)
(* reports again, leaves the ledger or is given a longer timeout.           *)
Overdue(d) ==
  /\ d \in DOMAIN devices
  /\ devices[d].online
  /\ now - devices[d].lastSeen > devices[d].timeout
SilentGoesOffline == \A d \in Devices : Overdue(d) ~> ~Overdue(d)


=============================================================================
