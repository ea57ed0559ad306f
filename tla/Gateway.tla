------------------------------ MODULE Gateway ------------------------------
(***************************************************************************)
(* The control side: threads of the host start, stop and reload the        *)
(* gateway and add or remove access points while it runs (src/gateway.cc); *)
(* acc::Manager holds the access points (src/acc/manager.cc); each enabled *)
(* one has a receive thread that binds its port and runs until it is told  *)
(* to stop (src/acc/point.cc).                                             *)
(*                                                                         *)
(* start, stop and reload exclude each other (lifeMtx); addPoint and       *)
(* removePoint only lock the manager, and then the configuration, so they  *)
(* come in between.  Joining a receive thread is done outside every lock   *)
(* but lifeMtx.  What packets do is in Fanout and Health.                  *)
(***************************************************************************)
EXTENDS Integers, Sequences, FiniteSets, Functions

CONSTANTS
  Clients,       \* threads of the host that call control operations
  Owners,        \* bound: those of them that start, stop and reload (lifeMtx lets in
                 \* one at a time, so a second one adds nothing but waiting)
  Ids,           \* access point ids
  PointConfigs,  \* records [id, port, parserId, enabled, topic] addPoint is called
                 \* with; topic stands for topic, deviceType and timeoutMultiple
  Configs,       \* sequences of them start and reload are called with
  Registered,    \* parserIds with a registered parser
  Taken,         \* ports a socket of another process may hold
  Objs           \* the Point objects there may be at a time, numbered from 1

NoClient == "none"

ASSUME GatewayAssumption ==
  /\ \A p \in PointConfigs :
       /\ p = [id |-> p.id, port |-> p.port, parserId |-> p.parserId, enabled |-> p.enabled,
               topic |-> p.topic]
       /\ p.id \in Ids /\ p.enabled \in BOOLEAN
  /\ Owners \subseteq Clients /\ NoClient \notin Clients
  /\ Configs \subseteq Seq(PointConfigs)
  /\ Objs \subseteq Nat

VARIABLES
  running,     \* Impl::running
  up,          \* manager, health and queue exist
  cfg,         \* Impl::cfg.points
  points,      \* Manager::points_: id -> Point object
  obj,         \* the Point objects: configuration, where the thread is, quit_
  lifeMtx,     \* the client that holds lifeMtx, or none
  call,        \* per client: the call it is in
  overlapped   \* history: two calls were in progress at once

vars == <<running, up, cfg, points, obj, lifeMtx, call, overlapped>>

Unused == [st |-> "unused"]

(* A client's frame: where it is; points still to be handled; ids to be     *)
(* dropped; Point objects to be stopped before it goes on; whether a point  *)
(* was started (startPoints' anyStarted).                                   *)
Returned == [at |-> "idle", todo |-> <<>>, drop |-> {}, victims |-> {}, any |-> FALSE]

Init ==
  /\ running = FALSE /\ up = FALSE
  /\ cfg = <<>>
  /\ points = <<>>
  /\ obj = [o \in Objs |-> Unused]
  /\ lifeMtx = NoClient
  /\ call = [c \in Clients |-> Returned]
  /\ overlapped = FALSE

(* Client c goes on at "at".                                                *)
Go(c, frame) ==
  /\ call' = [call EXCEPT ![c] = frame]
  /\ overlapped' = (overlapped \/ \E b \in Clients \ {c} : call[b].at # "idle" /\ frame.at # "idle")

Finish(c) == Go(c, Returned)

-----------------------------------------------------------------------------
(* acc::Manager.                                                           *)

(* A port is registered by some point, enabled or not.                      *)
PortInUse(port) == \E i \in DOMAIN points : obj[points[i]].cfg.port = port

(* Bug: only the id is checked.                                             *)
MayAddById(p) == p.id \notin DOMAIN points

(* add()'s checks under the lock: one id and one port, one access point.    *)
MayAdd(p) == p.id \notin DOMAIN points /\ ~PortInUse(p.port)

(* Where the next Point object goes; bound: there is always room.           *)
FreshObj == {o \in Objs : /\ obj[o] = Unused
                          /\ \A q \in Objs : obj[q] = Unused => o <= q}

(* add() that succeeds.  A disabled point is registered without a thread;   *)
(* Point::start creates the thread and returns before it has bound.         *)
register(p) ==
  \E o \in FreshObj :
    /\ points' = [i \in DOMAIN points \cup {p.id} |-> IF i = p.id THEN o ELSE points[i]]
    /\ obj' = [obj EXCEPT ![o] = [st |-> IF p.enabled THEN "starting" ELSE "disabled",
                                  cfg |-> p, quit |-> FALSE]]

(* add(): registers the point or changes nothing.                           *)
add(p) == IF MayAdd(p) THEN register(p) ELSE UNCHANGED <<points, obj>>

(* Bug: the destroyed point stays in the map.                               *)
unregisterNothing(id) == UNCHANGED points

(* remove()'s critical section: the point leaves the map.                   *)
unregister(id) == points' = Restrict(points, DOMAIN points \ {id})

-----------------------------------------------------------------------------
(* Point::loop.                                                            *)

HasThread(o) == obj[o].st \in {"starting", "listening"}

Bind(o) ==
  /\ obj[o].st = "starting"
  /\ obj' = [obj EXCEPT ![o].st = "listening"]
  /\ UNCHANGED <<running, up, cfg, points, lifeMtx, call, overlapped>>

(* bind fails: the thread ends and leaves lastError; the sockets of other   *)
(* points do not make it fail, they all set SO_REUSEADDR.                   *)
BindFails(o) ==
  /\ obj[o].st = "starting"
  /\ obj[o].cfg.port \in Taken
  /\ obj' = [obj EXCEPT ![o].st = "ended"]
  /\ UNCHANGED <<running, up, cfg, points, lifeMtx, call, overlapped>>

(* The loop condition finds quit_ set; the socket is closed.                *)
Leave(o) ==
  /\ obj[o].st = "listening"
  /\ obj[o].quit
  /\ obj' = [obj EXCEPT ![o].st = "ended"]
  /\ UNCHANGED <<running, up, cfg, points, lifeMtx, call, overlapped>>

(* Bug: stop() wakes the thread and does not set quit_.                     *)
StopVictimNoQuit(c, o) ==
  /\ o \in call[c].victims
  /\ HasThread(o)
  /\ UNCHANGED <<running, up, cfg, points, obj, lifeMtx, call, overlapped>>

(* Point::stop of a victim: quit_ is set ...                                *)
StopVictim(c, o) ==
  /\ o \in call[c].victims
  /\ \A v \in call[c].victims : ~HasThread(v) \/ ~obj[v].quit    \* one at a time
  /\ HasThread(o)
  /\ obj' = [obj EXCEPT ![o].quit = TRUE]
  /\ UNCHANGED <<running, up, cfg, points, lifeMtx, call, overlapped>>

(* ... and the thread is joined, after which the object is destroyed.       *)
JoinVictim(c, o) ==
  /\ o \in call[c].victims
  /\ ~HasThread(o)
  /\ obj' = [obj EXCEPT ![o] = Unused]
  /\ Go(c, [call[c] EXCEPT !.victims = @ \ {o}])
  /\ UNCHANGED <<running, up, cfg, points, lifeMtx>>

-----------------------------------------------------------------------------
(* addPoint and removePoint.                                               *)

(* addPoint up to manager->add; a refused point changes nothing.            *)
AddPoint(c, p) ==
  /\ call[c].at = "idle" /\ up
  /\ p.parserId \in Registered
  /\ MayAdd(p)
  /\ register(p)
  /\ Go(c, [Returned EXCEPT !.at = "added", !.todo = <<p>>])
  /\ UNCHANGED <<running, up, cfg, lifeMtx>>

(* Bug: the point is appended also when the configuration lists its id.     *)
WrittenTwice(ps, p) == Append(ps, p)

(* The configuration with p in the place of the first entry of its id, or   *)
(* at the end.                                                              *)
Written(ps, p) ==
  LET same == {k \in DOMAIN ps : ps[k].id = p.id}
  IN IF same = {} THEN Append(ps, p)
     ELSE [ps EXCEPT ![CHOOSE k \in same : \A m \in same : k <= m] = p]

AddPointWritesBack(c) ==
  /\ call[c].at = "added"
  /\ cfg' = Written(cfg, call[c].todo[1])
  /\ Finish(c)
  /\ UNCHANGED <<running, up, points, obj, lifeMtx>>

(* removePoint's manager->remove; StopVictim and JoinVictim follow.         *)
RemovePoint(c, id) ==
  /\ call[c].at = "idle" /\ up
  /\ id \in DOMAIN points
  /\ unregister(id)
  /\ Go(c, [Returned EXCEPT !.at = "removed", !.drop = {id}, !.victims = {points[id]}])
  /\ UNCHANGED <<running, up, cfg, obj, lifeMtx>>

(* The configuration without the first entry of id.                         *)
Erased(ps, id) ==
  LET same == {k \in DOMAIN ps : ps[k].id = id}
      first == CHOOSE k \in same : \A m \in same : k <= m
  IN IF same = {} THEN ps ELSE SubSeq(ps, 1, first - 1) \o SubSeq(ps, first + 1, Len(ps))

RemovePointWritesBack(c) ==
  /\ call[c].at = "removed" /\ call[c].victims = {}
  /\ \E id \in call[c].drop : cfg' = Erased(cfg, id)
  /\ Finish(c)
  /\ UNCHANGED <<running, up, points, obj, lifeMtx>>

-----------------------------------------------------------------------------
(* start and stop.                                                         *)

StartBegins(c, new) ==
  /\ call[c].at = "idle" /\ lifeMtx = NoClient
  /\ ~running
  /\ lifeMtx' = c
  /\ cfg' = new
  /\ up' = TRUE /\ running' = TRUE
  /\ Go(c, [Returned EXCEPT !.at = "starting", !.todo = new])
  /\ UNCHANGED <<points, obj>>

(* One round of startPoints: a point without parser is skipped.             *)
StartOne(c) ==
  /\ call[c].at = "starting" /\ call[c].todo # <<>>
  /\ LET p == Head(call[c].todo)
         ok == p.parserId \in Registered /\ MayAdd(p)
     IN /\ IF ok THEN register(p) ELSE UNCHANGED <<points, obj>>
        /\ Go(c, [call[c] EXCEPT !.todo = Tail(@), !.any = @ \/ ok])
  /\ UNCHANGED <<running, up, cfg, lifeMtx>>

(* start() returns when a point was started.                                *)
StartDone(c) ==
  /\ call[c].at = "starting" /\ call[c].todo = <<>>
  /\ call[c].any
  /\ lifeMtx' = NoClient
  /\ Finish(c)
  /\ UNCHANGED <<running, up, cfg, points, obj>>

(* stopAll() empties the map and has every point stopped.                   *)
stopAll(c) ==
  /\ points' = <<>>
  /\ Go(c, [Returned EXCEPT !.at = "stopping", !.victims = Range(points)])

(* No point was started: start() undoes itself.                             *)
StartFails(c) ==
  /\ call[c].at = "starting" /\ call[c].todo = <<>>
  /\ ~call[c].any
  /\ running' = FALSE
  /\ stopAll(c)
  /\ UNCHANGED <<up, cfg, obj, lifeMtx>>

StopBegins(c) ==
  /\ call[c].at = "idle" /\ lifeMtx = NoClient
  /\ running
  /\ lifeMtx' = c
  /\ running' = FALSE
  /\ stopAll(c)
  /\ UNCHANGED <<up, cfg, obj>>

(* manager.reset(): its destructor stops the points added meanwhile.        *)
Teardown(c) ==
  /\ call[c].at = "stopping" /\ call[c].victims = {}
  /\ up' = FALSE
  /\ points' = <<>>
  /\ Go(c, [call[c] EXCEPT !.at = "tearing down", !.victims = Range(points)])
  /\ UNCHANGED <<running, cfg, obj, lifeMtx>>

StopDone(c) ==
  /\ call[c].at = "tearing down" /\ call[c].victims = {}
  /\ lifeMtx' = NoClient
  /\ Finish(c)
  /\ UNCHANGED <<running, up, cfg, points, obj>>

-----------------------------------------------------------------------------
(* reload.                                                                 *)

(* The configuration is replaced; the ids the manager holds and the new     *)
(* configuration lacks are to be dropped.                                   *)
ReloadBegins(c, new) ==
  /\ call[c].at = "idle" /\ lifeMtx = NoClient
  /\ cfg' = new
  /\ IF running
     THEN /\ lifeMtx' = c
          /\ Go(c, [Returned EXCEPT !.at = "dropping", !.todo = new,
                      !.drop = {i \in DOMAIN points : \A k \in DOMAIN new : new[k].id # i}])
     ELSE UNCHANGED <<lifeMtx, call, overlapped>>
  /\ UNCHANGED <<running, up, points, obj>>

(* manager->remove of one of them, unless it is gone already.               *)
ReloadDrops(c, id) ==
  /\ call[c].at = "dropping" /\ call[c].victims = {}
  /\ id \in call[c].drop
  /\ unregister(id)
  /\ Go(c, [call[c] EXCEPT !.drop = @ \ {id},
                           !.victims = IF id \in DOMAIN points THEN {points[id]} ELSE {}])
  /\ UNCHANGED <<running, up, cfg, obj, lifeMtx>>

ReloadDropped(c) ==
  /\ call[c].at = "dropping" /\ call[c].victims = {} /\ call[c].drop = {}
  /\ Go(c, [call[c] EXCEPT !.at = "converging"])
  /\ UNCHANGED <<running, up, cfg, points, obj, lifeMtx>>

(* Bug: a point is restarted whether it changed or not.                     *)
ChangedAlways(old, p) == TRUE

(* The fields of a point reload() compares; a new topic is in the           *)
(* configuration already and does not reach the point.                      *)
Changed(old, p) == old.port # p.port \/ old.parserId # p.parserId \/ old.enabled # p.enabled

(* One round of the second loop, up to the look at the existing point.      *)
ReloadLooks(c) ==
  /\ call[c].at = "converging" /\ call[c].todo # <<>>
  /\ LET p == Head(call[c].todo)
         known == p.id \in DOMAIN points
         skip == IF known THEN ~Changed(obj[points[p.id]].cfg, p)
                 ELSE p.parserId \notin Registered
     IN Go(c, IF skip THEN [call[c] EXCEPT !.todo = Tail(@)]
              ELSE [call[c] EXCEPT !.at = IF known THEN "restarting" ELSE "adding"])
  /\ UNCHANGED <<running, up, cfg, points, obj, lifeMtx>>

(* Bug: the changed point is dropped from the map and runs on.              *)
ReloadRemovesForgets(c) ==
  /\ call[c].at = "restarting"
  /\ unregister(Head(call[c].todo).id)
  /\ Go(c, [call[c] EXCEPT !.at = "adding"])
  /\ UNCHANGED <<running, up, cfg, obj, lifeMtx>>

(* manager->remove of a changed point.                                      *)
ReloadRemoves(c) ==
  /\ call[c].at = "restarting"
  /\ LET id == Head(call[c].todo).id
     IN /\ unregister(id)
        /\ Go(c, [call[c] EXCEPT !.at = "adding",
                    !.victims = IF id \in DOMAIN points THEN {points[id]} ELSE {}])
  /\ UNCHANGED <<running, up, cfg, obj, lifeMtx>>

(* manager->add of a new or changed point; the result is only logged.       *)
ReloadAdds(c) ==
  /\ call[c].at = "adding" /\ call[c].victims = {}
  /\ add(Head(call[c].todo))
  /\ Go(c, [call[c] EXCEPT !.at = "converging", !.todo = Tail(@)])
  /\ UNCHANGED <<running, up, cfg, lifeMtx>>

ReloadDone(c) ==
  /\ call[c].at = "converging" /\ call[c].todo = <<>>
  /\ lifeMtx' = NoClient
  /\ Finish(c)
  /\ UNCHANGED <<running, up, cfg, points, obj>>

-----------------------------------------------------------------------------

(* A call in progress takes its next step.                                  *)
Proceed(c) ==
  \/ AddPointWritesBack(c) \/ RemovePointWritesBack(c)
  \/ StartOne(c) \/ StartDone(c) \/ StartFails(c) \/ Teardown(c) \/ StopDone(c)
  \/ \E id \in Ids : ReloadDrops(c, id)
  \/ ReloadDropped(c) \/ ReloadLooks(c) \/ ReloadRemoves(c) \/ ReloadAdds(c) \/ ReloadDone(c)
  \/ \E o \in Objs : StopVictim(c, o) \/ JoinVictim(c, o)

(* A client makes a call.                                                   *)
Call(c) ==
  \/ \E p \in PointConfigs : AddPoint(c, p)
  \/ \E id \in Ids : RemovePoint(c, id)
  \/ /\ c \in Owners
     /\ \/ \E new \in Configs : StartBegins(c, new) \/ ReloadBegins(c, new)
        \/ StopBegins(c)

ReceiveThread(o) == Bind(o) \/ BindFails(o) \/ Leave(o)

Next ==
  \/ \E c \in Clients : Proceed(c) \/ Call(c)
  \/ \E o \in Objs : ReceiveThread(o)

Spec == Init /\ [][Next]_vars

(* A thread inside a call goes on, and so does a receive thread.            *)
FairSpec ==
  /\ Spec
  /\ \A c \in Clients : WF_vars(Proceed(c))
  /\ \A o \in Objs : WF_vars(ReceiveThread(o))

-----------------------------------------------------------------------------
(* Properties.                                                             *)

Live == {o \in Objs : HasThread(o)}
Stopping == UNION {call[c].victims : c \in Clients}
Quiet == \A c \in Clients : call[c].at = "idle"

(* The types; and the bound on the Point objects keeps none from starting.  *)
TypeOK ==
  /\ running \in BOOLEAN /\ up \in BOOLEAN /\ overlapped \in BOOLEAN
  /\ cfg \in Seq(PointConfigs)
  /\ DOMAIN points \subseteq Ids
  /\ \A i \in DOMAIN points : points[i] \in Objs /\ obj[points[i]] # Unused
  /\ FreshObj # {}
  /\ \A o \in Objs :
       \/ obj[o] = Unused
       \/ obj[o] \in [st : {"disabled", "starting", "listening", "ended"},
                      cfg : PointConfigs, quit : BOOLEAN]
  /\ lifeMtx \in Clients \cup {NoClient}
  /\ \A c \in Clients :
       /\ call[c].at \in {"idle", "added", "removed", "starting", "stopping", "tearing down",
                          "dropping", "converging", "restarting", "adding"}
       /\ call[c].todo \in Seq(PointConfigs)
       /\ call[c].drop \subseteq Ids /\ call[c].victims \subseteq Objs
       /\ call[c].any \in BOOLEAN

(* Two receive threads have one port only while one of them is being        *)
(* stopped (one port, one access point).                                    *)
PortExclusive ==
  \A o, q \in Live \ Stopping : obj[o].cfg.port = obj[q].cfg.port => o = q

(* No Point object is forgotten: each is registered under its own id, or    *)
(* exactly one call is stopping it; and after stop() has returned no        *)
(* receive thread is left, but for points whose removal another call has    *)
(* not finished.                                                            *)
NoPointLeaks ==
  /\ \A o \in Objs : obj[o] # Unused =>
       \/ /\ obj[o].cfg.id \in DOMAIN points /\ points[obj[o].cfg.id] = o
          /\ o \notin Stopping
       \/ Cardinality({c \in Clients : o \in call[c].victims}) = 1
  /\ (~up /\ lifeMtx = NoClient) => Live \subseteq Stopping

(* What reload() restarts a point for is the same (group and iface behave   *)
(* like the port).                                                          *)
SameSettings(p, q) == p.port = q.port /\ p.parserId = q.parserId /\ p.enabled = q.enabled

(* Reload c may take away the point registered under id i: its new          *)
(* configuration lacks the id, or has other settings for it (or another     *)
(* call changed the point since reload looked at it).                       *)
MayReplace(c, i) ==
  LET new == call[c].todo IN
  \/ call[c].at = "dropping" /\ \A k \in DOMAIN new : new[k].id # i
  \/ /\ call[c].at = "restarting" /\ Head(new).id = i
     /\ overlapped \/ ~SameSettings(obj[points[i]].cfg, Head(new))

(* An access point only goes away when stop(), a removePoint of it or a     *)
(* reload() that lacks or changes it takes it (ING-NFR-03).                 *)
Undisturbed ==
  [][\A i \in DOMAIN points :
       (i \notin DOMAIN points' \/ points'[i] # points[i]) =>
         \/ ~running'
         \/ \E c \in Clients : call'[c].at = "removed" /\ i \in call'[c].drop
         \/ lifeMtx # NoClient /\ MayReplace(lifeMtx, i)]_vars

(* Called one at a time, the operations keep the configuration and the      *)
(* manager in agreement: each registered point is listed once, with the     *)
(* port, parser and flag it runs with.  Its topic, deviceType and           *)
(* timeoutMultiple may be listed otherwise: reload() writes them to the     *)
(* configuration and leaves the point as it is.                             *)
ConfigListsPoints ==
  (up /\ Quiet /\ ~overlapped) =>
    \A i \in DOMAIN points :
      \E k \in DOMAIN cfg :
        /\ cfg[k].id = i /\ SameSettings(obj[points[i]].cfg, cfg[k])
        /\ \A m \in DOMAIN cfg : cfg[m].id = i => m = k

(* Every call returns.                                                      *)
CallsReturn == \A c \in Clients : call[c].at # "idle" ~> call[c].at = "idle"

(* Called one at a time, reload() brings every access point of the new      *)
(* configuration up.                                                        *)
ConfiguredPointsUp ==
  (up /\ Quiet /\ ~overlapped) =>
    \A k \in DOMAIN cfg : cfg[k].parserId \in Registered => cfg[k].id \in DOMAIN points

=============================================================================
