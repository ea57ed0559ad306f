------------------------------- MODULE Merge -------------------------------
(***************************************************************************)
(* fan::mergeBatch (src/fan/merge.cc): the events one merge window has     *)
(* collected are conflated to the last one per device before they go out.  *)
(*                                                                         *)
(* An event is a record with the fields dev, type and n; only dev and type *)
(* matter here, n tells two reports of one device apart.                   *)
(***************************************************************************)
EXTENDS Integers, Sequences, FiniteSets

CONSTANT NoDevice     \* the empty deviceId

(* The merge key: the deviceId, or the event name when the device has none. *)
mergeKey(ev) == IF ev.dev = NoDevice THEN ev.type ELSE ev.dev

(* The event's key already has a place in the result (the map "index" of    *)
(* the loop knows it), and which.                                           *)
HasPlace(out, ev) == \E i \in DOMAIN out : mergeKey(out[i]) = mergeKey(ev)
PlaceOf(out, ev) == CHOOSE i \in DOMAIN out : mergeKey(out[i]) = mergeKey(ev)

(* Bug: the last report of a device takes a new place at the end.           *)
mergeStepMovesToEnd(out, ev) ==
  Append(SelectSeq(out, LAMBDA e : mergeKey(e) # mergeKey(ev)), ev)

(* One round of the second loop: a new key takes the next place, a known    *)
(* one replaces the event in its place.                                     *)
mergeStep(out, ev) ==
  IF HasPlace(out, ev) THEN [out EXCEPT ![PlaceOf(out, ev)] = ev] ELSE Append(out, ev)

(* The first loop: some key occurs twice.                                   *)
HasDuplicate(batch) ==
  \E i \in DOMAIN batch : \E j \in 1..(i - 1) : mergeKey(batch[i]) = mergeKey(batch[j])

mergeBatch(batch) ==
  LET out[k \in 0..Len(batch)] ==      \* the result after the first k events
        IF k = 0 THEN <<>> ELSE mergeStep(out[k - 1], batch[k])
  IN IF HasDuplicate(batch) THEN out[Len(batch)] ELSE batch

(* mergedCount: how many events mergeBatch returns, without building them.  *)
mergedCount(batch) == Cardinality({mergeKey(batch[i]) : i \in DOMAIN batch})

=============================================================================
