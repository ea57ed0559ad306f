------------------------------ MODULE FanQueue ------------------------------
(***************************************************************************)
(* fan::Queue (src/fan/queue.cc): the bounded queue between the receive    *)
(* threads and the consumer thread.  Every operation is one critical       *)
(* section of mtx_, so each is one action here.  The condition variable    *)
(* only decides when a waiting pop looks again; what pop may return        *)
(* depends on the state it finds under the lock, which is all the model    *)
(* keeps of it.                                                            *)
(***************************************************************************)
EXTENDS Integers, Sequences

VARIABLES
  items,      \* items_: the queued events, oldest first
  limit,      \* limit_: most events the queue may hold, 0 = no limit
  closed,     \* closed_
  pushed,     \* pushed_: events accepted since construction or clear()
  dropped     \* dropped_: events evicted since construction or clear()

queueVars == <<items, limit, closed, pushed, dropped>>

QueueInit(lim) ==
  /\ items = <<>>
  /\ limit = lim
  /\ closed = FALSE
  /\ pushed = 0
  /\ dropped = 0

(* The events setLimit(lim) evicts: the oldest ones beyond the new limit.   *)
Excess(lim) == IF lim > 0 /\ Len(items) > lim THEN Len(items) - lim ELSE 0

(* Bug: the new limit is stored but the queue is not cut to it.             *)
setLimitNoTrim(lim) ==
  /\ limit' = lim
  /\ UNCHANGED <<items, closed, pushed, dropped>>

(* Bug: the queue is cut to the new limit and the loss is not counted.      *)
setLimitUncounted(lim) ==
  /\ limit' = lim
  /\ items' = SubSeq(items, Excess(lim) + 1, Len(items))
  /\ UNCHANGED <<closed, pushed, dropped>>

setLimit(lim) ==
  /\ limit' = lim
  /\ items' = SubSeq(items, Excess(lim) + 1, Len(items))
  /\ dropped' = dropped + Excess(lim)
  /\ UNCHANGED <<closed, pushed>>

(* push is about to evict the oldest event.                                 *)
Full == limit > 0 /\ Len(items) >= limit

(* push never waits: a full queue loses its oldest event and counts it.     *)
push(ev) ==
  /\ items' = Append(IF Full THEN Tail(items) ELSE items, ev)
  /\ dropped' = IF Full THEN dropped + 1 ELSE dropped
  /\ pushed' = pushed + 1
  /\ UNCHANGED <<limit, closed>>

(* pop that returns true: the oldest event, Head(items) before the step.    *)
popTakes ==
  /\ items # <<>>
  /\ items' = Tail(items)
  /\ UNCHANGED <<limit, closed, pushed, dropped>>

(* Bug: a pop that finds a closed queue goes on waiting.                    *)
popFailsUnlessClosed ==
  /\ items = <<>> /\ ~closed
  /\ UNCHANGED queueVars

(* pop that returns false: the wait timed out, or the queue is closed, and  *)
(* in both cases the queue is empty.  The closed flag alone never makes pop *)
(* fail.                                                                    *)
popFails ==
  /\ items = <<>>
  /\ UNCHANGED queueVars

close ==
  /\ closed' = TRUE
  /\ UNCHANGED <<items, limit, pushed, dropped>>

(* clear() empties the queue and restarts the counters; it does not count   *)
(* the events it throws away.                                               *)
clear ==
  /\ items' = <<>>
  /\ pushed' = 0
  /\ dropped' = 0
  /\ UNCHANGED <<limit, closed>>

=============================================================================
