------------------------------- MODULE Fanout -------------------------------
(***************************************************************************)
(* The distribution side of the gateway: receive threads push normalized   *)
(* events into the fan queue, the consumer thread (Impl::consumerLoop)     *)
(* takes them out, conflates a merge window and calls the sink, reload()   *)
(* changes limit and window while they run, resetState() clears the queue, *)
(* stop() ends everything in a fixed order.  addPoint and removePoint take *)
(* no part in that order: they start and end receive threads at any time.  *)
(*                                                                         *)
(* The window's length is abstracted: its deadline may pass at any time.   *)
(***************************************************************************)
EXTENDS FanQueue, Merge

CONSTANTS
  Receivers,     \* the receive threads there may be, one per access point
  Devices,       \* devices that report
  EventName,     \* the type (topic) of the events
  Limits,        \* values of queueLimit a (re)load may bring
  MaxReports,    \* bound: reports per device
  MaxTotal       \* bound: reports altogether

ASSUME FanoutAssumption ==
  /\ NoDevice \notin Devices
  /\ Limits \subseteq Nat /\ Limits # {}
  /\ MaxReports \in Nat /\ MaxTotal \in Nat

VARIABLES
  mergeOn,       \* cfg.mergeWindowMs > 0
  stopFlag,      \* Impl::stopFlag
  mapped,        \* receive threads of the points in the manager's map
  live,          \* receive threads that have not ended
  victims,       \* those stopAll() has taken out of the map and not joined yet
  stopper,       \* where stop() is
  consumer,      \* where consumerLoop is
  window,        \* consumerLoop's copy of mergeOn for this round
  batch,         \* its local batch, tail or single event
  accepted,      \* history: number of the newest report pushed, per device
  due,           \* history: that of the newest one stop() owes to the sink
  seen,          \* history: number of the newest report given to the sink
  lost,          \* history: number of the newest report evicted or cleared
  taken          \* history: events popped since construction or clear()

consumerVars == <<consumer, window, batch>>
threadVars == <<mapped, live, victims>>
history == <<accepted, due, seen, lost, taken>>
vars == <<queueVars, mergeOn, stopFlag, threadVars, stopper, consumerVars, history>>

Event == [dev : Devices, type : {EventName}, n : 1..MaxReports]

(* The lost numbers after the events of gone (a set) have left unseen.      *)
LoseAll(gone) ==
  [d \in Devices |->
     LET ns == {lost[d]} \cup {e.n : e \in {g \in gone : g.dev = d}}
     IN CHOOSE m \in ns : \A n \in ns : n <= m]

Init ==
  /\ \E lim \in Limits : QueueInit(lim)
  /\ mergeOn \in BOOLEAN
  /\ stopFlag = FALSE
  /\ mapped \in SUBSET Receivers
  /\ live = mapped
  /\ victims = {}
  /\ stopper = "up"
  /\ consumer = "top"
  /\ window = FALSE
  /\ batch = <<>>
  /\ accepted = [d \in Devices |-> 0]
  /\ due = [d \in Devices |-> 0]
  /\ seen = [d \in Devices |-> 0]
  /\ lost = [d \in Devices |-> 0]
  /\ taken = 0

-----------------------------------------------------------------------------
(* Producers.                                                              *)

(* The last line of handlePacket's work on one event: queue->push.          *)
Enqueue(d, owed) ==
  /\ stopper # "down"
  /\ accepted[d] < MaxReports
  /\ Cardinality(UNION {{e} \X (1..accepted[e]) : e \in Devices}) < MaxTotal
  /\ push([dev |-> d, type |-> EventName, n |-> accepted[d] + 1])
  /\ accepted' = [accepted EXCEPT ![d] = @ + 1]
  /\ due' = IF owed THEN [due EXCEPT ![d] = accepted[d] + 1] ELSE due
  /\ lost' = IF Full THEN LoseAll({Head(items)}) ELSE lost
  /\ UNCHANGED <<mergeOn, stopFlag, threadVars, stopper, consumerVars, seen, taken>>

(* What r pushes now is due: stop() has not begun, or it has yet to join r. *)
(* A thread that addPoint starts during stop() is joined by ~Manager, after *)
(* the consumer; one that removePoint is ending is joined by removePoint.   *)
Awaited(r) == stopper = "up" \/ (stopper # "resetting" /\ r \in victims)

(* A receive thread handles a packet of d.                                  *)
Receive(r, d) ==
  /\ r \in live
  /\ Enqueue(d, Awaited(r))

(* Gateway::inject runs handlePacket on the caller's thread, which stop()   *)
(* does not wait for; it finds the queue until stop() has destroyed it.     *)
Inject(d) == Enqueue(d, stopper = "up")

-----------------------------------------------------------------------------
(* consumerLoop.                                                           *)

(* The loop condition and the copy of the configuration.                    *)
LoopTop ==
  /\ consumer = "top"
  /\ IF stopFlag
     THEN consumer' = "drain" /\ UNCHANGED window
     ELSE consumer' = "first" /\ window' = mergeOn
  /\ UNCHANGED <<queueVars, mergeOn, stopFlag, threadVars, stopper, batch, history>>

(* Bug: the event taken goes before the ones taken earlier.                 *)
TakeIntoFront(next) ==
  /\ popTakes
  /\ batch' = <<Head(items)>> \o batch
  /\ taken' = taken + 1
  /\ consumer' = next
  /\ UNCHANGED <<mergeOn, stopFlag, threadVars, stopper, window, accepted, due, seen, lost>>

(* pop(ev, t) finds an event and it joins the batch.                        *)
TakeInto(next) ==
  /\ popTakes
  /\ batch' = Append(batch, Head(items))
  /\ taken' = taken + 1
  /\ consumer' = next
  /\ UNCHANGED <<mergeOn, stopFlag, threadVars, stopper, window, accepted, due, seen, lost>>

(* pop(ev, t) returns false.                                                *)
FindEmpty(next) ==
  /\ popFails
  /\ consumer' = next
  /\ UNCHANGED <<mergeOn, stopFlag, threadVars, stopper, window, batch, history>>

(* pop(first, 100): with no window the event goes out at once.              *)
PopFirst ==
  /\ consumer = "first"
  /\ TakeInto(IF window THEN "window" ELSE "deliver")

PopFirstFails ==
  /\ consumer = "first"
  /\ FindEmpty("failed")

(* Bug: leave for good on a closed queue without draining it.               *)
AfterFailureNoDrain ==
  /\ consumer = "failed"
  /\ consumer' = IF closed THEN "done" ELSE "top"
  /\ UNCHANGED <<queueVars, mergeOn, stopFlag, threadVars, stopper, window, batch, history>>

(* The pop failed: leave the loop on a closed queue, else go round.         *)
AfterFailure ==
  /\ consumer = "failed"
  /\ consumer' = IF closed THEN "drain" ELSE "top"
  /\ UNCHANGED <<queueVars, mergeOn, stopFlag, threadVars, stopper, window, batch, history>>

(* The inner loop's condition: before the deadline and not stopping.        *)
WindowOpen ==
  /\ consumer = "window"
  /\ ~stopFlag
  /\ consumer' = "collect"
  /\ UNCHANGED <<queueVars, mergeOn, stopFlag, threadVars, stopper, window, batch, history>>

(* The deadline has passed or stopFlag is set; the first is possible at any *)
(* time.                                                                    *)
WindowEnds ==
  /\ consumer = "window"
  /\ consumer' = "deliver"
  /\ UNCHANGED <<queueVars, mergeOn, stopFlag, threadVars, stopper, window, batch, history>>

Collect ==
  /\ consumer = "collect"
  /\ TakeInto("window")

CollectNothing ==
  /\ consumer = "collect"
  /\ FindEmpty("window")

(* The sink's view after onBatch(evs): per device the number of the event   *)
(* that came last in evs.                                                   *)
SeenAfter(evs) ==
  [d \in Devices |->
     IF \E i \in DOMAIN evs : evs[i].dev = d
     THEN evs[CHOOSE i \in DOMAIN evs :
                /\ evs[i].dev = d
                /\ \A j \in (i + 1)..Len(evs) : evs[j].dev # d].n
     ELSE seen[d]]

(* deliver(evs): nothing for an empty batch, else one onBatch.              *)
deliver(evs) == seen' = SeenAfter(evs)

(* Bug: the batch outlives its round.                                       *)
DeliverKeepsBatch ==
  /\ consumer = "deliver"
  /\ \E evs \in {IF window THEN mergeBatch(batch) ELSE batch} : deliver(evs)
  /\ consumer' = "top"
  /\ UNCHANGED <<queueVars, mergeOn, stopFlag, threadVars, stopper, window, batch, accepted,
                 due, lost, taken>>

(* deliver(mergeBatch(batch)), or deliver({ev}) when there is no window.    *)
Deliver ==
  /\ consumer = "deliver"
  /\ \E evs \in {IF window THEN mergeBatch(batch) ELSE batch} : deliver(evs)
  /\ batch' = <<>>
  /\ consumer' = "top"
  /\ UNCHANGED <<queueVars, mergeOn, stopFlag, threadVars, stopper, window, accepted, due, lost,
                 taken>>

(* After the loop: pop(ev, 0) until the queue is empty ...                  *)
Drain ==
  /\ consumer = "drain"
  /\ TakeInto("drain")

DrainEmpty ==
  /\ consumer = "drain"
  /\ FindEmpty("last")

(* Bug: the drained tail is thrown away.                                    *)
DeliverLastForgotten ==
  /\ consumer = "last"
  /\ batch' = <<>>
  /\ consumer' = "done"
  /\ UNCHANGED <<queueVars, mergeOn, stopFlag, threadVars, stopper, window, history>>

(* ... then the tail goes out, conflated whatever the window was.           *)
DeliverLast ==
  /\ consumer = "last"
  /\ \E evs \in {mergeBatch(batch)} : deliver(evs)
  /\ batch' = <<>>
  /\ consumer' = "done"
  /\ UNCHANGED <<queueVars, mergeOn, stopFlag, threadVars, stopper, window, accepted, due, lost,
                 taken>>

-----------------------------------------------------------------------------
(* Control threads.                                                        *)

(* reload() while running: the new window and the new limit.  stop() and    *)
(* reload() exclude each other (lifeMtx).  A step of another thread between *)
(* the two assignments is a step between two Reloads here, the first of     *)
(* which keeps the limit.                                                   *)
Reload(on, lim) ==
  /\ stopper = "up"
  /\ mergeOn' = on
  /\ setLimit(lim)
  /\ lost' = LoseAll({items[i] : i \in 1..Excess(lim)})
  /\ UNCHANGED <<stopFlag, threadVars, stopper, consumerVars, accepted, due, seen, taken>>

(* resetState(), which excludes nobody, until stop() has destroyed the queue. *)
ResetState ==
  /\ stopper # "down"
  /\ clear
  /\ lost' = LoseAll({items[i] : i \in DOMAIN items})
  /\ taken' = 0
  /\ UNCHANGED <<mergeOn, stopFlag, threadVars, stopper, consumerVars, accepted, due, seen>>

(* addPoint (or reload) starts the thread of a point: it takes no lifeMtx,  *)
(* and finds the manager until stop() resets it.                            *)
AddPoint(r) ==
  /\ stopper \in {"up", "joining", "flagged", "closed"}
  /\ r \notin live
  /\ mapped' = mapped \cup {r}
  /\ live' = live \cup {r}
  /\ UNCHANGED <<queueVars, mergeOn, stopFlag, victims, stopper, consumerVars, history>>

(* removePoint (or reload) takes a point out of the map, then joins it.     *)
RemovePoint(r) ==
  /\ r \in mapped
  /\ mapped' = mapped \ {r}
  /\ UNCHANGED <<queueVars, mergeOn, stopFlag, live, victims, stopper, consumerVars, history>>

(* running is cleared and manager->stopAll() moves the points out.          *)
StopBegins ==
  /\ stopper = "up"
  /\ victims' = mapped
  /\ mapped' = {}
  /\ stopper' = "joining"
  /\ UNCHANGED <<queueVars, mergeOn, stopFlag, live, consumerVars, history>>

(* Point::stop() of a point no longer in the map: its thread ends after the *)
(* packet at hand.                                                          *)
JoinReceiver(r) ==
  /\ r \in live \ mapped
  /\ live' = live \ {r}
  /\ victims' = victims \ {r}
  /\ UNCHANGED <<queueVars, mergeOn, stopFlag, mapped, stopper, consumerVars, history>>

(* Bug: stopFlag is raised while stopAll's threads still run.               *)
SetStopFlagEarly ==
  /\ stopper = "joining"
  /\ stopFlag' = TRUE
  /\ stopper' = "flagged"
  /\ UNCHANGED <<queueVars, mergeOn, threadVars, consumerVars, history>>

SetStopFlag ==
  /\ stopper = "joining"
  /\ victims = {}
  /\ stopFlag' = TRUE
  /\ stopper' = "flagged"
  /\ UNCHANGED <<queueVars, mergeOn, threadVars, consumerVars, history>>

CloseQueue ==
  /\ stopper = "flagged"
  /\ close
  /\ stopper' = "closed"
  /\ UNCHANGED <<mergeOn, stopFlag, threadVars, consumerVars, history>>

(* The consumer is joined; manager.reset() moves out the points that were   *)
(* added since.                                                             *)
JoinConsumer ==
  /\ stopper = "closed"
  /\ consumer = "done"
  /\ victims' = mapped
  /\ mapped' = {}
  /\ stopper' = "resetting"
  /\ UNCHANGED <<queueVars, mergeOn, stopFlag, live, consumerVars, history>>

(* They are joined too; then the queue is destroyed.                        *)
DestroyQueue ==
  /\ stopper = "resetting"
  /\ victims = {}
  /\ stopper' = "down"
  /\ UNCHANGED <<queueVars, mergeOn, stopFlag, threadVars, consumerVars, history>>

-----------------------------------------------------------------------------

Consume ==
  \/ LoopTop \/ PopFirst \/ PopFirstFails \/ AfterFailure
  \/ WindowOpen \/ WindowEnds \/ Collect \/ CollectNothing \/ Deliver
  \/ Drain \/ DrainEmpty \/ DeliverLast

Stop ==
  \/ StopBegins \/ SetStopFlag \/ CloseQueue \/ JoinConsumer \/ DestroyQueue
  \/ \E r \in Receivers : JoinReceiver(r)

Next ==
  \/ \E r \in Receivers, d \in Devices : Receive(r, d)
  \/ \E d \in Devices : Inject(d)
  \/ Consume
  \/ \E on \in BOOLEAN, lim \in Limits : Reload(on, lim)
  \/ ResetState
  \/ \E r \in Receivers : AddPoint(r) \/ RemovePoint(r)
  \/ Stop

(* The threads the gateway owns keep running: the consumer takes its steps, *)
(* a window's deadline passes however often the inner loop goes round, and  *)
(* a stop() that has begun goes on, and a thread told to quit ends.         *)
(* Nobody owes a report, a reload or a call.                                *)
Fairness ==
  /\ WF_vars(Consume)
  /\ SF_vars(WindowEnds)
  /\ WF_vars(SetStopFlag \/ CloseQueue \/ JoinConsumer \/ DestroyQueue)
  /\ \A r \in Receivers : WF_vars(JoinReceiver(r))

Spec == Init /\ [][Next]_vars
FairSpec == Spec /\ Fairness

-----------------------------------------------------------------------------
(* Properties.                                                             *)

(* The types; and consumerLoop's batch is local to one round, so it is      *)
(* empty wherever a round begins.                                           *)
TypeOK ==
  /\ items \in Seq(Event)
  /\ limit \in Nat /\ closed \in BOOLEAN
  /\ pushed \in Nat /\ dropped \in Nat /\ taken \in Nat
  /\ mergeOn \in BOOLEAN /\ stopFlag \in BOOLEAN /\ window \in BOOLEAN
  /\ live \subseteq Receivers /\ mapped \subseteq live /\ victims \subseteq live
  /\ stopper \in {"up", "joining", "flagged", "closed", "resetting", "down"}
  /\ consumer \in {"top", "first", "failed", "window", "collect", "deliver",
                   "drain", "last", "done"}
  /\ batch \in Seq(Event)
  /\ consumer \in {"top", "first", "failed", "done"} => batch = <<>>
  /\ accepted \in [Devices -> 0..MaxReports]
  /\ due \in [Devices -> 0..MaxReports]
  /\ seen \in [Devices -> 0..MaxReports]
  /\ lost \in [Devices -> 0..MaxReports]

(* The queue never holds more than its limit, also right after reload()     *)
(* lowered it (fan/queue.h: bounded, the oldest is evicted).                *)
QueueBounded == limit > 0 => Len(items) <= limit

(* Every accepted event is either still queued, taken by the consumer or    *)
(* counted as dropped: pushed(), dropped() and depth() add up at all times  *)
(* (status() shows the last two).                                           *)
NothingUncounted == pushed = taken + dropped + Len(items)

(* What leaves the queue keeps the order of acceptance per device: the      *)
(* events of a device in the consumer's batch and in the queue carry        *)
(* growing numbers, above what the sink has seen.                           *)
PipeOrdered ==
  LET pipe == batch \o items
  IN \A j \in DOMAIN pipe :
       /\ seen[pipe[j].dev] < pipe[j].n /\ pipe[j].n <= accepted[pipe[j].dev]
       /\ \A i \in 1..(j - 1) : pipe[i].dev = pipe[j].dev => pipe[i].n < pipe[j].n

(* What a window is conflated to: one event per key, the last one of the    *)
(* batch, in the order in which the keys first came (ING-FAN-02; the header *)
(* of src/fan/merge.h); counting without merging gives its length.          *)
LastPerKeyInFirstOrder ==
  LET First(k) == CHOOSE i \in DOMAIN batch :
                    mergeKey(batch[i]) = k /\ \A j \in 1..(i - 1) : mergeKey(batch[j]) # k
      IsLast(i) == \A j \in (i + 1)..Len(batch) : mergeKey(batch[j]) # mergeKey(batch[i])
  IN \E out \in {mergeBatch(batch)} :
       /\ {out[i] : i \in DOMAIN out} = {batch[i] : i \in {j \in DOMAIN batch : IsLast(j)}}
       /\ \A i, j \in DOMAIN out : i < j => First(mergeKey(out[i])) < First(mergeKey(out[j]))
       /\ mergedCount(batch) = Len(out)

(* What is left in the queue when the consumer has ended, and is never      *)
(* delivered, is owed to nobody: it was pushed after stop() had begun, by   *)
(* inject, by a point addPoint started or by one removePoint was ending.    *)
OnlyLateIsLeft ==
  consumer = "done" =>
    stopFlag /\ \A i \in DOMAIN items : items[i].n > due[items[i].dev]

(* Refinement: the sink is served as Delivery promises.                     *)
Promise == INSTANCE Delivery WITH ended <- consumer = "done"
Delivers == Promise!Spec

(* A report accepted before stop() begins, or by a receive thread it joins, *)
(* is eventually given to the sink, superseded by a newer one the sink got, *)
(* or lost to the queue's limit or resetState.                              *)
EveryReportSettles ==
  \A d \in Devices : \A k \in 1..MaxReports :
    (due[d] >= k) ~> (seen[d] >= k \/ lost[d] >= k)

(* A stop() that has begun returns, whatever the consumer was doing.        *)
StopReturns == (stopper = "joining") ~> (stopper = "down")

=============================================================================
