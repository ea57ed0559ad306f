---------------------------- MODULE FanoutProofs ----------------------------
(***************************************************************************)
(* What Fanout satisfies for any number of receive threads, devices and    *)
(* reports and any limits: the queue keeps within its limit, its counters  *)
(* account for every event, what leaves the queue keeps its order per      *)
(* device, a window is conflated to the last report per device, the host   *)
(* is served as Delivery promises, and what the consumer leaves behind in  *)
(* the queue was not due.                                                  *)
(*                                                                         *)
(* The first two follow from what the operations of fan::Queue do to it.   *)
(* The others rest on the pipe that batch and queue form (PipeInv), on the *)
(* order in which stop() proceeds (EndInv) and on what the consumer knows  *)
(* of its own state at each of its places (ControlInv, TailInv).           *)
(***************************************************************************)
EXTENDS Fanout, DataLemmas, SequenceTheorems

-----------------------------------------------------------------------------
(* mergeBatch.  The loop is followed round by round: after the first k      *)
(* events it holds what those k are conflated to (StepConflates), and its   *)
(* last round is the result.                                                *)

(* What the first k events of batch are conflated to: one event per key ... *)
OnePerKey(out) ==
  \A i, j \in 1..Len(out) : mergeKey(out[i]) = mergeKey(out[j]) => i = j

(* ... which is the last one with that key, ...                             *)
LastOnes(events, k, out) ==
  \A i \in 1..Len(out) : \E m \in 1..k :
    /\ out[i] = events[m]
    /\ \A l \in (m + 1)..k : mergeKey(events[l]) # mergeKey(events[m])

(* ... for every key there is, ...                                          *)
EveryKey(events, k, out) ==
  \A m \in 1..k : \E i \in 1..Len(out) : mergeKey(out[i]) = mergeKey(events[m])

(* ... and the keys are in the order in which they first came: wherever the *)
(* key of a later place occurs, that of an earlier place has come before.   *)
InFirstOrder(events, k, out) ==
  \A i, j \in 1..Len(out) : i < j =>
    \A m \in 1..k : mergeKey(events[m]) = mergeKey(out[j]) =>
      \E l \in 1..(m - 1) : mergeKey(events[l]) = mergeKey(out[i])

Conflated(events, k, out) ==
  OnePerKey(out) /\ LastOnes(events, k, out) /\ EveryKey(events, k, out)
    /\ InFirstOrder(events, k, out)

(* One round of the loop.                                                   *)
LEMMA StepConflates ==
  ASSUME NEW S, NEW events \in Seq(S), NEW k \in 1..Len(events),
         NEW out \in Seq(S), Conflated(events, k - 1, out)
  PROVE  /\ mergeStep(out, events[k]) \in Seq(S)
         /\ Conflated(events, k, mergeStep(out, events[k]))
<1> DEFINE ev == events[k]
           next == mergeStep(out, ev)
           p == PlaceOf(out, ev)
<1>0. ev \in S /\ k \in Nat /\ Len(out) \in Nat
  OBVIOUS
<1>1. CASE ~HasPlace(out, ev)
  <2>1. next = Append(out, ev)
    BY <1>1 DEF mergeStep
  <2>2. \A i \in 1..Len(out) : mergeKey(out[i]) # mergeKey(ev)
    BY <1>1 DEF HasPlace
  <2>3. /\ next \in Seq(S) /\ Len(next) = Len(out) + 1 /\ next[Len(out) + 1] = ev
        /\ \A i \in 1..Len(out) : next[i] = out[i]
    BY <1>0, <2>1, AppendProperties
  <2> HIDE DEF next, p
  <2>a. \A i \in 1..Len(next) : i \in 1..Len(out) \/ (i = Len(out) + 1 /\ next[i] = ev)
    BY <1>0, <2>3
  <2>4. OnePerKey(next)
    BY <1>0, <2>2, <2>3, <2>a, SMTT(30) DEF Conflated, OnePerKey
  <2>5. LastOnes(events, k, next)
    <3>1. ASSUME NEW i \in 1..Len(out)
          PROVE  \E m \in 1..k : /\ next[i] = events[m]
                                 /\ \A l \in (m + 1)..k : mergeKey(events[l]) # mergeKey(events[m])
      <4>1. PICK m \in 1..(k - 1) :
              /\ out[i] = events[m]
              /\ \A l \in (m + 1)..(k - 1) : mergeKey(events[l]) # mergeKey(events[m])
        BY DEF Conflated, LastOnes
      <4>2. mergeKey(events[k]) # mergeKey(events[m])
        BY <2>2, <4>1
      <4>3. \A l \in (m + 1)..k : l = k \/ l \in (m + 1)..(k - 1)
        BY <1>0
      <4>4. QED
        BY <2>3, <4>1, <4>2, <4>3
    <3>2. \A i \in 1..Len(next) : i \in 1..Len(out) \/ next[i] = events[k]
      BY <2>a
    <3>3. k \in 1..k /\ (k + 1)..k = {}
      BY <1>0
    <3>4. QED
      BY <3>1, <3>2, <3>3 DEF LastOnes
  <2>6. EveryKey(events, k, next)
    <3>1. Len(out) + 1 \in 1..Len(next) /\ \A i \in 1..Len(out) : i \in 1..Len(next)
      BY <1>0, <2>3
    <3>2. \A m \in 1..k : m = k \/ m \in 1..(k - 1)
      BY <1>0
    <3>3. QED
      BY <2>3, <3>1, <3>2, Zenon DEF Conflated, EveryKey
  <2>7. InFirstOrder(events, k, next)
    <3>1. ASSUME NEW i \in 1..Len(next), NEW j \in 1..Len(next), i < j,
                 NEW m \in 1..k, mergeKey(events[m]) = mergeKey(next[j])
          PROVE  \E l \in 1..(m - 1) : mergeKey(events[l]) = mergeKey(next[i])
      <4>1. i \in 1..Len(out) /\ next[i] = out[i]
        BY <1>0, <2>3, <3>1
      <4>2. CASE j \in 1..Len(out)
        <5>1. next[j] = out[j] /\ mergeKey(events[k]) # mergeKey(out[j])
          BY <2>2, <2>3, <4>2
        <5>2. m \in 1..(k - 1)
          BY <1>0, <3>1, <5>1
        <5>3. QED
          BY <3>1, <4>1, <4>2, <5>1, <5>2 DEF Conflated, InFirstOrder
      <4>3. CASE next[j] = ev
        <5>1. m \notin 1..(k - 1)
          BY <2>2, <3>1, <4>3 DEF Conflated, EveryKey
        <5>2. m - 1 = k - 1
          BY <1>0, <5>1
        <5>3. QED
          BY <4>1, <5>2 DEF Conflated, LastOnes
      <4>4. QED
        BY <2>a, <4>2, <4>3
    <3>2. QED
      BY <3>1 DEF InFirstOrder
  <2>8. QED
    BY <2>3, <2>4, <2>5, <2>6, <2>7 DEF Conflated, next
<1>2. CASE HasPlace(out, ev)
  <2>1. next = [out EXCEPT ![p] = ev]
    BY <1>2 DEF mergeStep
  <2>2. p \in 1..Len(out) /\ mergeKey(out[p]) = mergeKey(ev)
    BY <1>2 DEF HasPlace, PlaceOf
  <2> HIDE DEF p
  <2>3. /\ next \in Seq(S) /\ Len(next) = Len(out) /\ next[p] = ev
        /\ \A i \in 1..Len(out) : i # p => next[i] = out[i]
    BY <1>0, <2>1, <2>2, ExceptSeq
  <2> HIDE DEF next
  <2>9. \A i \in 1..Len(next) : i \in 1..Len(out) /\ mergeKey(next[i]) = mergeKey(out[i])
    BY <2>2, <2>3
  <2>4. OnePerKey(next)
    BY <2>9 DEF Conflated, OnePerKey
  <2>5. LastOnes(events, k, next)
    <3>1. ASSUME NEW i \in 1..Len(next), i # p
          PROVE  \E m \in 1..k : /\ next[i] = events[m]
                                 /\ \A l \in (m + 1)..k : mergeKey(events[l]) # mergeKey(events[m])
      <4>1. PICK m \in 1..(k - 1) :
              /\ out[i] = events[m]
              /\ \A l \in (m + 1)..(k - 1) : mergeKey(events[l]) # mergeKey(events[m])
        BY <2>9 DEF Conflated, LastOnes
      <4>2. mergeKey(events[k]) # mergeKey(events[m])
        BY <2>2, <2>9, <3>1, <4>1 DEF Conflated, OnePerKey
      <4>3. \A l \in (m + 1)..k : l = k \/ l \in (m + 1)..(k - 1)
        BY <1>0
      <4>4. QED
        BY <2>3, <2>9, <3>1, <4>1, <4>2, <4>3
    <3>2. k \in 1..k /\ (k + 1)..k = {}
      BY <1>0
    <3>3. QED
      BY <2>3, <3>1, <3>2 DEF LastOnes
  <2>6. EveryKey(events, k, next)
    <3>1. \A m \in 1..k : m = k \/ m \in 1..(k - 1)
      BY <1>0
    <3>2. QED
      BY <2>2, <2>3, <2>9, <3>1 DEF Conflated, EveryKey
  <2>7. InFirstOrder(events, k, next)
    <3>1. ASSUME NEW i \in 1..Len(next), NEW j \in 1..Len(next), i < j,
                 NEW m \in 1..k, mergeKey(events[m]) = mergeKey(next[j])
          PROVE  \E l \in 1..(m - 1) : mergeKey(events[l]) = mergeKey(next[i])
      <4>1. CASE m \in 1..(k - 1)
        BY <2>9, <3>1, <4>1 DEF Conflated, InFirstOrder
      <4>2. CASE m = k
        <5>1. PICK l \in 1..(k - 1) : events[l] = out[i]
          BY <2>9 DEF Conflated, LastOnes
        <5>2. QED
          BY <2>9, <4>2, <5>1
      <4>3. QED
        BY <1>0, <4>1, <4>2
    <3>2. QED
      BY <3>1 DEF InFirstOrder
  <2>8. QED
    BY <2>3, <2>4, <2>5, <2>6, <2>7 DEF Conflated, next
<1>3. QED
  BY <1>1, <1>2

-----------------------------------------------------------------------------
(* The loop.                                                               *)

(* The result after the first k events, for the k up to n.                  *)
IsLoop(events, n, f) ==
  f = [k \in 0..n |-> IF k = 0 THEN <<>> ELSE mergeStep(f[k - 1], events[k])]

(* The loop has a result: it is determined by the rounds before.            *)
LEMMA LoopExists ==
  ASSUME NEW events, NEW n \in Nat
  PROVE  \E f : IsLoop(events, n, f)
<1> DEFINE good == {k \in 0..n : \E f : IsLoop(events, k, f)}
<1>1. 0 \in good
  <2>1. IsLoop(events, 0, [k \in 0..0 |-> <<>>])
    BY DEF IsLoop
  <2>2. QED
    BY <2>1
<1>2. ASSUME NEW k \in 0..(n - 1), k \in good
      PROVE  k + 1 \in good
  <2>1. PICK f : IsLoop(events, k, f)
    BY <1>2
  <2> DEFINE g == [i \in 0..(k + 1) |-> IF i = k + 1 THEN mergeStep(f[k], events[k + 1]) ELSE f[i]]
  <2>2. \A i \in 0..k : f[i] = IF i = 0 THEN <<>> ELSE mergeStep(f[i - 1], events[i])
    BY <2>1 DEF IsLoop
  <2>3. \A i \in 0..k : g[i] = f[i]
    BY <1>2
  <2>4. \A i \in 0..(k + 1) :
          g[i] = IF i = 0 THEN <<>> ELSE mergeStep(g[i - 1], events[i])
    <3>1. ASSUME NEW i \in 0..(k + 1), i # 0, i # k + 1
          PROVE  g[i] = mergeStep(g[i - 1], events[i])
      <4>1. i \in 0..k /\ i - 1 \in 0..k
        BY <1>2, <3>1
      <4>2. QED
        BY <2>2, <2>3, <3>1, <4>1
    <3>2. g[k + 1] = mergeStep(g[k], events[k + 1])
      BY <1>2
    <3>3. g[0] = <<>>
      BY <1>2, <2>2, <2>3
    <3>4. k + 1 # 0 /\ (k + 1) - 1 = k
      BY <1>2
    <3>5. QED
      BY <3>1, <3>2, <3>3, <3>4
  <2>5. IsLoop(events, k + 1, g)
    <3> DEFINE h == [i \in 0..(k + 1) |-> IF i = 0 THEN <<>> ELSE mergeStep(g[i - 1], events[i])]
    <3>1. \A i \in 0..(k + 1) : g[i] = h[i]
      BY <2>4
    <3>2. DOMAIN g = 0..(k + 1) /\ DOMAIN h = 0..(k + 1)
      OBVIOUS
    <3>3. g = h
      <4> g = [i \in 0..(k + 1) |-> g[i]] /\ h = [i \in 0..(k + 1) |-> h[i]]
        OBVIOUS
      <4> HIDE DEF g, h
      <4> QED
        BY <3>1
    <3>4. QED
      BY <3>3 DEF IsLoop
  <2>6. k + 1 \in 0..n
    BY <1>2
  <2>7. QED
    BY <2>5, <2>6
<1>3. 0..n \subseteq good
  <2> HIDE DEF good
  <2>1. QED
    BY <1>1, <1>2, UpTo
<1>4. QED
  BY <1>3

(* mergeBatch returns what the whole batch is conflated to.                 *)
LEMMA MergeConflates ==
  ASSUME NEW S, NEW events \in Seq(S)
  PROVE  mergeBatch(events) \in Seq(S) /\ Conflated(events, Len(events), mergeBatch(events))
<1> DEFINE n == Len(events)
<1>0. n \in Nat
  OBVIOUS
<1>1. CASE HasDuplicate(events)
  <2> DEFINE f == CHOOSE g : IsLoop(events, n, g)
  <2>1. mergeBatch(events) = f[n]
    BY <1>1 DEF mergeBatch, IsLoop
  <2>2. IsLoop(events, n, f)
    <3>1. \E g : IsLoop(events, n, g)
      BY <1>0, LoopExists
    <3>2. QED
      BY <3>1, Zenon
  <2> HIDE DEF f
  <2>3. \A k \in 0..n : f[k] = IF k = 0 THEN <<>> ELSE mergeStep(f[k - 1], events[k])
    BY <2>2 DEF IsLoop
  <2> DEFINE good == {k \in 0..n : f[k] \in Seq(S) /\ Conflated(events, k, f[k])}
  <2>4. 0 \in good
    <3>1. 0 \in 0..n
      BY <1>0
    <3>2. f[0] = <<>>
      BY <2>3, <3>1
    <3>3. <<>> \in Seq(S) /\ Conflated(events, 0, <<>>)
      BY DEF Conflated, OnePerKey, LastOnes, EveryKey, InFirstOrder
    <3>4. QED
      BY <3>1, <3>2, <3>3
  <2>5. ASSUME NEW k \in 0..(n - 1), k \in good
        PROVE  k + 1 \in good
    <3>1. k + 1 \in 1..n /\ (k + 1) - 1 = k /\ k + 1 # 0 /\ k + 1 \in 0..n
      BY <2>5
    <3>2. f[k + 1] = mergeStep(f[k], events[k + 1])
      BY <2>3, <3>1
    <3>3. f[k] \in Seq(S) /\ Conflated(events, (k + 1) - 1, f[k])
      BY <2>5, <3>1
    <3>4. mergeStep(f[k], events[k + 1]) \in Seq(S)
          /\ Conflated(events, k + 1, mergeStep(f[k], events[k + 1]))
      BY <3>1, <3>3, StepConflates
    <3>5. QED
      BY <3>1, <3>2, <3>4
  <2>6. 0..n \subseteq good
    <3> HIDE DEF good
    <3>1. QED
      BY <1>0, <2>4, <2>5, UpTo
  <2>7. n \in good
    BY <1>0, <2>6
  <2>8. QED
    BY <2>1, <2>7
<1>2. CASE ~HasDuplicate(events)
  <2>1. mergeBatch(events) = events
    BY <1>2 DEF mergeBatch
  <2>2. \A i, j \in 1..n : mergeKey(events[i]) = mergeKey(events[j]) => i = j
    <3>1. \A i \in 1..n, j \in 1..n : j < i => mergeKey(events[i]) # mergeKey(events[j])
      BY <1>0, <1>2 DEF HasDuplicate
    <3>2. QED
      BY <1>0, <3>1
  <2>3. LastOnes(events, n, events)
    BY <1>0, <2>2 DEF LastOnes
  <2>4. InFirstOrder(events, n, events)
    BY <1>0, <2>2 DEF InFirstOrder
  <2>5. QED
    BY <1>0, <2>1, <2>2, <2>3, <2>4 DEF Conflated, OnePerKey, EveryKey
<1>3. QED
  BY <1>1, <1>2

-----------------------------------------------------------------------------
(* What mergeBatch returns, in the words of src/fan/merge.h.               *)

(* The event's place is the last of its key, the key's first place.         *)
IsLastOfKey(events, i) ==
  \A j \in (i + 1)..Len(events) : mergeKey(events[j]) # mergeKey(events[i])
FirstOfKey(events, k) ==
  CHOOSE i \in DOMAIN events :
    mergeKey(events[i]) = k /\ \A j \in 1..(i - 1) : mergeKey(events[j]) # k

LEMMA FirstOfKeyIsFirst ==
  ASSUME NEW S, NEW events \in Seq(S), NEW m \in DOMAIN events
  PROVE  LET i == FirstOfKey(events, mergeKey(events[m]))
         IN /\ i \in DOMAIN events
            /\ mergeKey(events[i]) = mergeKey(events[m])
            /\ \A j \in 1..(i - 1) : mergeKey(events[j]) # mergeKey(events[m])
<1> DEFINE k == mergeKey(events[m])
           places == {i \in DOMAIN events : mergeKey(events[i]) = k}
<1>1. places \in SUBSET Nat /\ m \in places
  OBVIOUS
<1>2. PICK i \in places : \A j \in places : i <= j
  <2> HIDE DEF places
  <2>1. QED
    BY <1>1, LeastNumber
<1>3. i \in DOMAIN events /\ mergeKey(events[i]) = k
  OBVIOUS
<1>4. \A j \in 1..(i - 1) : mergeKey(events[j]) # k
  BY <1>2
<1>5. QED
  BY <1>3, <1>4, Zenon DEF FirstOfKey

(* The events that are returned are those that are the last of their key.   *)
LEMMA MergeKeepsLastOnes ==
  ASSUME NEW S, NEW events \in Seq(S), NEW out, out = mergeBatch(events)
  PROVE  /\ \A i \in DOMAIN out : \E m \in DOMAIN events : out[i] = events[m] /\ IsLastOfKey(events, m)
         /\ \A m \in DOMAIN events : IsLastOfKey(events, m) => \E i \in DOMAIN out : out[i] = events[m]
<1>0. /\ out \in Seq(S) /\ DOMAIN out = 1..Len(out) /\ DOMAIN events = 1..Len(events)
      /\ LastOnes(events, Len(events), out) /\ EveryKey(events, Len(events), out)
  BY MergeConflates DEF Conflated
<1>1. \A i \in DOMAIN out : \E m \in DOMAIN events : out[i] = events[m] /\ IsLastOfKey(events, m)
  BY <1>0 DEF LastOnes, IsLastOfKey
<1>2. ASSUME NEW m \in DOMAIN events, IsLastOfKey(events, m)
      PROVE  \E i \in DOMAIN out : out[i] = events[m]
  <2>1. PICK i \in DOMAIN out : mergeKey(out[i]) = mergeKey(events[m])
    BY <1>0 DEF EveryKey
  <2>2. PICK l \in DOMAIN events : out[i] = events[l] /\ IsLastOfKey(events, l)
    BY <1>1
  <2>3. ~(l < m) /\ ~(m < l)
    BY <1>0, <1>2, <2>1, <2>2 DEF IsLastOfKey
  <2>4. l = m
    BY <1>0, <2>3
  <2>5. QED
    BY <2>2, <2>4
<1>3. QED
  BY <1>0, <1>1, <1>2

(* They are in the order in which their keys first came.                    *)
LEMMA MergeKeepsFirstOrder ==
  ASSUME NEW S, NEW events \in Seq(S), NEW out, out = mergeBatch(events),
         NEW i \in DOMAIN out, NEW j \in DOMAIN out, i < j
  PROVE  FirstOfKey(events, mergeKey(out[i])) < FirstOfKey(events, mergeKey(out[j]))
<1>0. /\ out \in Seq(S) /\ DOMAIN out = 1..Len(out) /\ DOMAIN events = 1..Len(events)
      /\ LastOnes(events, Len(events), out) /\ InFirstOrder(events, Len(events), out)
  BY MergeConflates DEF Conflated
<1>1. PICK mi \in DOMAIN events, mj \in DOMAIN events : out[i] = events[mi] /\ out[j] = events[mj]
  BY <1>0 DEF LastOnes
<1> DEFINE fi == FirstOfKey(events, mergeKey(events[mi]))
           fj == FirstOfKey(events, mergeKey(events[mj]))
<1>2. /\ fi \in 1..Len(events)
      /\ \A l \in 1..(fi - 1) : mergeKey(events[l]) # mergeKey(events[mi])
  BY <1>0, FirstOfKeyIsFirst
<1>3. fj \in 1..Len(events) /\ mergeKey(events[fj]) = mergeKey(events[mj])
  BY <1>0, FirstOfKeyIsFirst
<1> HIDE DEF fi, fj
<1>4. PICK l \in 1..(fj - 1) : mergeKey(events[l]) = mergeKey(events[mi])
  BY <1>0, <1>1, <1>3 DEF InFirstOrder
<1>5. l \notin 1..(fi - 1)
  BY <1>2, <1>4
<1>6. fi < fj
  BY <1>2, <1>3, <1>5
<1>7. QED
  BY <1>1, <1>6 DEF fi, fj

(* mergedCount counts what mergeBatch would return.                         *)
LEMMA MergedCountIsLength ==
  ASSUME NEW S, NEW events \in Seq(S), NEW out, out = mergeBatch(events)
  PROVE  mergedCount(events) = Len(out)
<1>0. /\ out \in Seq(S) /\ DOMAIN events = 1..Len(events) /\ OnePerKey(out)
      /\ LastOnes(events, Len(events), out) /\ EveryKey(events, Len(events), out)
  BY MergeConflates DEF Conflated
<1> DEFINE keys == {mergeKey(events[i]) : i \in DOMAIN events}
           f == [i \in 1..Len(out) |-> mergeKey(out[i])]
<1>1. ASSUME NEW i \in 1..Len(out) PROVE f[i] \in keys
  <2>1. PICK m \in DOMAIN events : out[i] = events[m]
    BY <1>0 DEF LastOnes
  <2>2. QED
    BY <2>1
<1>2. \A i, j \in 1..Len(out) : f[i] = f[j] => i = j
  BY <1>0 DEF OnePerKey
<1>3. ASSUME NEW k \in keys PROVE \E i \in 1..Len(out) : f[i] = k
  <2>1. PICK m \in DOMAIN events : k = mergeKey(events[m])
    OBVIOUS
  <2>2. QED
    BY <1>0, <2>1 DEF EveryKey
<1>4. f \in [1..Len(out) -> keys] /\ Len(out) \in Nat
  BY <1>0, <1>1
<1> HIDE DEF f, keys
<1>5. PICK n \in Nat : n = Len(out)
  BY <1>4
<1>6. PICK g \in [1..n -> keys] :
        /\ \A i, j \in 1..n : g[i] = g[j] => i = j
        /\ \A k \in keys : \E i \in 1..n : g[i] = k
  BY <1>2, <1>3, <1>4, <1>5, Zenon
<1>7. Cardinality(keys) = n
  BY <1>6, CountedByIndex
<1>8. QED
  BY <1>5, <1>7 DEF mergedCount, keys

(* All of it, in the form in which Fanout states it of the batch it holds.  *)
ConflatedToLast(b) ==
  LET First(k) == CHOOSE i \in DOMAIN b :
                    mergeKey(b[i]) = k /\ \A j \in 1..(i - 1) : mergeKey(b[j]) # k
      IsLast(i) == \A j \in (i + 1)..Len(b) : mergeKey(b[j]) # mergeKey(b[i])
  IN \E out \in {mergeBatch(b)} :
       /\ {out[i] : i \in DOMAIN out} = {b[i] : i \in {j \in DOMAIN b : IsLast(j)}}
       /\ \A i, j \in DOMAIN out : i < j => First(mergeKey(out[i])) < First(mergeKey(out[j]))
       /\ mergedCount(b) = Len(out)

(* mergeBatch returns each key's last message and nothing else, in the      *)
(* order in which the keys first came, for a batch of any length and any    *)
(* messages (src/fan/merge.cc:10); mergedCount is how many those are.        *)
THEOREM MergeKeepsItsWord ==
  ASSUME NEW S, NEW b \in Seq(S)
  PROVE  ConflatedToLast(b)
<1>1. PICK out : out = mergeBatch(b)
  OBVIOUS
<1>2. {out[i] : i \in DOMAIN out}
        = {b[i] : i \in {j \in DOMAIN b :
                            \A k \in (j + 1)..Len(b) : mergeKey(b[k]) # mergeKey(b[j])}}
  <2>1. \A i \in DOMAIN out : \E m \in DOMAIN b : out[i] = b[m] /\ IsLastOfKey(b, m)
    BY <1>1, MergeKeepsLastOnes
  <2>2. \A m \in DOMAIN b : IsLastOfKey(b, m) => \E i \in DOMAIN out : out[i] = b[m]
    BY <1>1, MergeKeepsLastOnes
  <2>3. QED
    BY <2>1, <2>2 DEF IsLastOfKey
<1> DEFINE First(k) == CHOOSE i \in DOMAIN b :
                         mergeKey(b[i]) = k /\ \A j \in 1..(i - 1) : mergeKey(b[j]) # k
<1>3. \A i, j \in DOMAIN out : i < j => First(mergeKey(out[i])) < First(mergeKey(out[j]))
  BY <1>1, MergeKeepsFirstOrder DEF FirstOfKey
<1>4. mergedCount(b) = Len(out)
  BY <1>1, MergedCountIsLength
<1>5. out \in {mergeBatch(b)}
  BY <1>1
<1>6. ConflatedToLast(b) <=>
        \E o \in {mergeBatch(b)} :
          /\ {o[i] : i \in DOMAIN o}
               = {b[i] : i \in {j \in DOMAIN b :
                                   \A k \in (j + 1)..Len(b) : mergeKey(b[k]) # mergeKey(b[j])}}
          /\ \A i, j \in DOMAIN o : i < j => First(mergeKey(o[i])) < First(mergeKey(o[j]))
          /\ mergedCount(b) = Len(o)
  BY Zenon DEF ConflatedToLast
<1> HIDE DEF First
<1>7. QED
  BY <1>2, <1>3, <1>4, <1>5, <1>6, Zenon

-----------------------------------------------------------------------------
(* The invariants.                                                         *)

(* The queue and the counters of what went in and out of it.                *)
QueueInv ==
  /\ items \in Seq(Event)
  /\ limit \in Nat /\ pushed \in Nat /\ dropped \in Nat /\ taken \in Nat
  /\ accepted \in [Devices -> 0..MaxReports]
  /\ QueueBounded
  /\ NothingUncounted

(* How far stop() has come bounds what the consumer may know: it leaves its *)
(* loop on stopFlag or on a closed queue, and both come after the joins of  *)
(* stopAll(), when nothing more becomes due.                                *)
EndInv ==
  /\ stopper \in {"flagged", "closed"} => stopFlag
  /\ closed => stopFlag
  /\ stopFlag => stopper # "up" /\ (stopper = "resetting" \/ victims = {})
  /\ consumer \in {"drain", "last", "done"} => stopFlag

-----------------------------------------------------------------------------
(* Lemmas about the operations of fan::Queue.                              *)

(* What the queue promises after any operation, over the counters of one.   *)
Accounts(q, lim, in, out, gone) ==
  /\ q \in Seq(Event)
  /\ lim > 0 => Len(q) <= lim
  /\ in = out + gone + Len(q)

(* push evicts at most one event, counts it, and keeps within the limit.    *)
LEMMA PushKeepsAccounts ==
  ASSUME NEW ev \in Event, QueueInv, push(ev)
  PROVE  /\ limit' = limit /\ pushed' \in Nat /\ dropped' \in Nat
         /\ Accounts(items', limit', pushed', taken, dropped')
<1> USE DEF QueueInv, QueueBounded, NothingUncounted
<1>0. limit' = limit /\ pushed' = pushed + 1
  BY DEF push
<1>1. CASE Full
  <2>1. items # <<>> /\ Tail(items) \in Seq(Event) /\ Len(Tail(items)) = Len(items) - 1
    BY <1>1 DEF Full
  <2>2. items' = Append(Tail(items), ev) /\ dropped' = dropped + 1
    BY <1>1 DEF push
  <2>3. items' \in Seq(Event) /\ Len(items') = Len(items)
    BY <2>1, <2>2
  <2>4. QED
    BY <1>0, <2>2, <2>3 DEF Accounts
<1>2. CASE ~Full
  <2>1. items' = Append(items, ev) /\ dropped' = dropped
    BY <1>2 DEF push
  <2>2. items' \in Seq(Event) /\ Len(items') = Len(items) + 1
    BY <2>1
  <2>3. QED
    BY <1>0, <1>2, <2>1, <2>2 DEF Full, Accounts
<1>3. QED
  BY <1>1, <1>2

(* pop that takes an event moves one from the queue to the consumer.        *)
LEMMA PopKeepsAccounts ==
  ASSUME QueueInv, popTakes
  PROVE  Accounts(items', limit', pushed', taken + 1, dropped')
<1>1. Tail(items) \in Seq(Event) /\ Len(Tail(items)) = Len(items) - 1
  BY DEF QueueInv, popTakes
<1>2. QED
  BY <1>1 DEF QueueInv, QueueBounded, NothingUncounted, popTakes, Accounts

(* setLimit cuts the queue to the new limit and counts what it cut.         *)
LEMMA SetLimitKeepsAccounts ==
  ASSUME NEW lim \in Nat, QueueInv, setLimit(lim)
  PROVE  /\ limit' = lim /\ pushed' = pushed /\ dropped' \in Nat
         /\ Accounts(items', limit', pushed', taken, dropped')
<1>1. Excess(lim) \in 0..Len(items) /\ (lim > 0 => Len(items) - Excess(lim) <= lim)
  BY DEF QueueInv, Excess
<1>2. /\ items' = SubSeq(items, Excess(lim) + 1, Len(items))
      /\ dropped' = dropped + Excess(lim)
      /\ limit' = lim /\ pushed' = pushed
  BY DEF setLimit
<1> DEFINE x == Excess(lim)
<1> HIDE DEF x
<1>3. items' \in Seq(Event) /\ Len(items') = Len(items) - x
  <2>1. \A i \in (x + 1)..Len(items) : items[i] \in Event
    BY <1>1 DEF QueueInv, x
  <2>2. x + 1 \in Int /\ Len(items) \in Int
    BY <1>1 DEF QueueInv, x
  <2>3. /\ SubSeq(items, x + 1, Len(items)) \in Seq(Event)
        /\ Len(SubSeq(items, x + 1, Len(items))) =
             IF x + 1 <= Len(items) THEN Len(items) - (x + 1) + 1 ELSE 0
    BY <2>1, <2>2, SubSeqProperties
  <2>4. items' = SubSeq(items, x + 1, Len(items))
    BY <1>2 DEF x
  <2>5. QED
    BY <1>1, <2>3, <2>4 DEF x, QueueInv
<1>4. QED
  BY <1>1, <1>2, <1>3, SMTT(30) DEF x, QueueInv, NothingUncounted, Accounts

-----------------------------------------------------------------------------
(* The queue: its limit and its counters.                                  *)

LEMMA InitQueueInv == Init => QueueInv
<1> SUFFICES ASSUME Init PROVE QueueInv
  OBVIOUS
<1>1. items = <<>> /\ limit \in Nat /\ pushed = 0 /\ dropped = 0
  BY FanoutAssumption DEF Init, QueueInit
<1>2. accepted \in [Devices -> 0..MaxReports] /\ taken = 0
  BY FanoutAssumption DEF Init
<1>3. QED
  BY <1>1, <1>2 DEF QueueInv, QueueBounded, NothingUncounted

(* A report accepted, from whichever thread.                                *)
LEMMA EnqueueQueueInv ==
  ASSUME QueueInv, NEW d \in Devices, NEW owed, Enqueue(d, owed)
  PROVE  QueueInv'
<1> DEFINE ev == [dev |-> d, type |-> EventName, n |-> accepted[d] + 1]
<1>1. ev \in Event /\ accepted' \in [Devices -> 0..MaxReports]
  BY FanoutAssumption DEF QueueInv, Enqueue, Event
<1>2. push(ev) /\ taken' = taken
  BY DEF Enqueue
<1> HIDE DEF ev
<1>3. QED
  BY <1>1, <1>2, PushKeepsAccounts DEF QueueInv, QueueBounded, NothingUncounted, Accounts

(* The consumer's steps that take an event.                                 *)
LEMMA TakeQueueInv ==
  ASSUME QueueInv, NEW where, TakeInto(where)
  PROVE  QueueInv'
<1>1. popTakes /\ taken' = taken + 1 /\ accepted' = accepted
  BY DEF TakeInto
<1>2. QED
  BY <1>1, PopKeepsAccounts
  DEF QueueInv, QueueBounded, NothingUncounted, Accounts, popTakes

(* A step that leaves the queue and its counters alone.                     *)
LEMMA QueueUntouched ==
  ASSUME QueueInv, UNCHANGED <<queueVars, accepted, taken>>
  PROVE  QueueInv'
BY DEF QueueInv, QueueBounded, NothingUncounted, queueVars

LEMMA NextQueueInv == QueueInv /\ [Next]_vars => QueueInv'
<1> SUFFICES ASSUME QueueInv, [Next]_vars PROVE QueueInv'
  OBVIOUS
<1>1. ASSUME NEW r \in Receivers, NEW d \in Devices, Receive(r, d) PROVE QueueInv'
  BY <1>1, EnqueueQueueInv DEF Receive
<1>2. ASSUME NEW d \in Devices, Inject(d) PROVE QueueInv'
  BY <1>2, EnqueueQueueInv DEF Inject
<1>3. CASE Consume
  <2>1. CASE PopFirst
    BY <2>1, TakeQueueInv DEF PopFirst
  <2>2. CASE Collect
    BY <2>2, TakeQueueInv DEF Collect
  <2>3. CASE Drain
    BY <2>3, TakeQueueInv DEF Drain
  <2>4. CASE LoopTop \/ AfterFailure \/ WindowOpen \/ WindowEnds
    BY <2>4, QueueUntouched DEF LoopTop, AfterFailure, WindowOpen, WindowEnds, history
  <2>5. CASE PopFirstFails \/ CollectNothing \/ DrainEmpty
    BY <2>5, QueueUntouched
    DEF PopFirstFails, CollectNothing, DrainEmpty, FindEmpty, popFails, history
  <2>6. CASE Deliver \/ DeliverLast
    BY <2>6, QueueUntouched DEF Deliver, DeliverLast
  <2>7. QED
    BY <1>3, <2>1, <2>2, <2>3, <2>4, <2>5, <2>6 DEF Consume
<1>4. ASSUME NEW on \in BOOLEAN, NEW lim \in Limits, Reload(on, lim) PROVE QueueInv'
  <2>1. setLimit(lim) /\ lim \in Nat /\ accepted' = accepted /\ taken' = taken
    BY <1>4, FanoutAssumption DEF Reload
  <2>2. QED
    BY <2>1, SetLimitKeepsAccounts DEF QueueInv, QueueBounded, NothingUncounted, Accounts
<1>5. CASE ResetState
  <2>1. /\ items' = <<>> /\ pushed' = 0 /\ dropped' = 0 /\ taken' = 0
        /\ limit' = limit /\ accepted' = accepted
    BY <1>5 DEF ResetState, clear
  <2>2. QED
    BY <2>1 DEF QueueInv, QueueBounded, NothingUncounted
<1>6. CASE Stop
  <2>1. CASE CloseQueue
    BY <2>1 DEF CloseQueue, close, history, QueueInv, QueueBounded, NothingUncounted
  <2>2. CASE StopBegins \/ SetStopFlag \/ JoinConsumer \/ DestroyQueue
    BY <2>2, QueueUntouched DEF StopBegins, SetStopFlag, JoinConsumer, DestroyQueue, history
  <2>3. ASSUME NEW r \in Receivers, JoinReceiver(r) PROVE QueueInv'
    BY <2>3, QueueUntouched DEF JoinReceiver, history
  <2>4. QED
    BY <1>6, <2>1, <2>2, <2>3 DEF Stop
<1>7. ASSUME NEW r \in Receivers, AddPoint(r) \/ RemovePoint(r) PROVE QueueInv'
  BY <1>7, QueueUntouched DEF AddPoint, RemovePoint, history
<1>8. CASE UNCHANGED vars
  BY <1>8, QueueUntouched DEF vars, history
<1>9. QED
  BY <1>1, <1>2, <1>3, <1>4, <1>5, <1>6, <1>7, <1>8 DEF Next

LEMMA QueueInvariance == Spec => []QueueInv
BY InitQueueInv, NextQueueInv, PTL DEF Spec

(* Whatever limits reload() brings while threads push and pop, the queue    *)
(* never holds more than the limit in force.                                *)
THEOREM QueueStaysBounded == Spec => []QueueBounded
BY QueueInvariance, PTL DEF QueueInv

(* An event that was accepted is queued, taken, or counted as dropped.      *)
THEOREM CountersAddUp == Spec => []NothingUncounted
BY QueueInvariance, PTL DEF QueueInv

-----------------------------------------------------------------------------
(* The end: the order of stop().                                           *)

LEMMA InitEndInv == Init => EndInv
BY Zenon DEF Init, QueueInit, EndInv

(* A step that neither moves stop() nor ends the consumer's loop.           *)
LEMMA EndUntouched ==
  ASSUME EndInv, UNCHANGED <<stopper, stopFlag, closed, victims>>,
         consumer' \in {"drain", "last", "done"} => consumer \in {"drain", "last", "done"}
  PROVE  EndInv'
BY Zenon DEF EndInv

LEMMA NextEndInv == EndInv /\ [Next]_vars => EndInv'
<1> SUFFICES ASSUME EndInv, [Next]_vars PROVE EndInv'
  OBVIOUS
<1>1. ASSUME NEW d \in Devices, NEW owed, Enqueue(d, owed) PROVE EndInv'
  <2>1. UNCHANGED <<stopper, stopFlag, closed, victims, consumer>>
    BY <1>1 DEF Enqueue, push, threadVars, consumerVars
  <2>2. QED
    BY <2>1, EndUntouched
<1>2. CASE LoopTop
  <2>1. stopFlag' = stopFlag /\ closed' = closed /\ victims' = victims /\ stopper' = stopper
    BY <1>2, Zenon DEF LoopTop, queueVars, threadVars
  <2>2. consumer' = "first" \/ (stopFlag /\ consumer' = "drain")
    BY <1>2, Zenon DEF LoopTop
  <2>3. QED
    BY <2>1, <2>2, Zenon DEF EndInv
<1>3. CASE AfterFailure
  <2>1. stopFlag' = stopFlag /\ closed' = closed /\ victims' = victims /\ stopper' = stopper
    BY <1>3, Zenon DEF AfterFailure, queueVars, threadVars
  <2>2. consumer' = "top" \/ (closed /\ consumer' = "drain")
    BY <1>3, Zenon DEF AfterFailure
  <2>3. QED
    BY <2>1, <2>2, Zenon DEF EndInv
<1>4. CASE PopFirst \/ PopFirstFails \/ Collect \/ CollectNothing \/ Drain \/ DrainEmpty
  <2>1. UNCHANGED <<stopper, stopFlag, closed, victims>>
    BY <1>4 DEF PopFirst, PopFirstFails, Collect, CollectNothing, Drain, DrainEmpty,
                TakeInto, FindEmpty, popTakes, popFails, queueVars, threadVars
  <2>2. consumer' \in {"drain", "last", "done"} => consumer \in {"drain", "last", "done"}
    BY <1>4 DEF PopFirst, PopFirstFails, Collect, CollectNothing, Drain, DrainEmpty,
                TakeInto, FindEmpty
  <2>3. QED
    BY <2>1, <2>2, EndUntouched
<1>5. CASE WindowOpen \/ WindowEnds \/ Deliver \/ DeliverLast
  <2>1. UNCHANGED <<stopper, stopFlag, closed, victims>>
    BY <1>5 DEF WindowOpen, WindowEnds, Deliver, DeliverLast, queueVars, threadVars
  <2>2. consumer' \in {"drain", "last", "done"} => consumer \in {"drain", "last", "done"}
    BY <1>5 DEF WindowOpen, WindowEnds, Deliver, DeliverLast
  <2>3. QED
    BY <2>1, <2>2, EndUntouched
<1>6. ASSUME NEW on \in BOOLEAN, NEW lim \in Limits, Reload(on, lim) PROVE EndInv'
  <2>1. UNCHANGED <<stopper, stopFlag, closed, victims, consumer>>
    BY <1>6 DEF Reload, setLimit, threadVars, consumerVars
  <2>2. QED
    BY <2>1, EndUntouched
<1>7. CASE ResetState
  <2>1. UNCHANGED <<stopper, stopFlag, closed, victims, consumer>>
    BY <1>7 DEF ResetState, clear, threadVars, consumerVars
  <2>2. QED
    BY <2>1, EndUntouched
<1>8. CASE StopBegins
  BY <1>8, Zenon DEF StopBegins, EndInv, queueVars, consumerVars
<1>9. ASSUME NEW r \in Receivers, JoinReceiver(r) PROVE EndInv'
  <2>1. victims = {} => victims' = {}
    BY <1>9 DEF JoinReceiver
  <2>2. QED
    BY <1>9, <2>1, Zenon DEF JoinReceiver, EndInv, queueVars, consumerVars
<1>10. CASE SetStopFlag
  BY <1>10, Zenon DEF SetStopFlag, EndInv, queueVars, threadVars, consumerVars
<1>11. CASE CloseQueue
  BY <1>11, Zenon DEF CloseQueue, close, EndInv, threadVars, consumerVars
<1>12. CASE JoinConsumer
  BY <1>12, Zenon DEF JoinConsumer, EndInv, queueVars, consumerVars
<1>13. CASE DestroyQueue
  BY <1>13, Zenon DEF DestroyQueue, EndInv, queueVars, threadVars, consumerVars
<1>14. ASSUME NEW r \in Receivers, AddPoint(r) \/ RemovePoint(r) PROVE EndInv'
  <2>1. UNCHANGED <<stopper, stopFlag, closed, victims, consumer>>
    BY <1>14 DEF AddPoint, RemovePoint, queueVars, consumerVars
  <2>2. QED
    BY <2>1, EndUntouched
<1>15. CASE UNCHANGED vars
  BY <1>15, EndUntouched DEF vars, queueVars, threadVars, consumerVars
<1>16. QED
  BY <1>1, <1>2, <1>3, <1>4, <1>5, <1>6, <1>7, <1>8, <1>9, <1>10, <1>11, <1>12, <1>13, <1>14,
     <1>15
  DEF Next, Consume, Stop, Receive, Inject

-----------------------------------------------------------------------------
(* The pipe: what has been taken and not delivered, then what is queued.   *)

(* Per device the events of p carry growing numbers, above what the sink    *)
(* has seen (s) and not above what was accepted (a).                        *)
Ordered(p, s, a) ==
  \A j \in 1..Len(p) :
    /\ s[p[j].dev] < p[j].n /\ p[j].n <= a[p[j].dev]
    /\ \A i \in 1..(j - 1) : p[i].dev = p[j].dev => p[i].n < p[j].n

(* The newest report that is due (u) of each device has been seen, lost or  *)
(* is in p.                                                                 *)
Settled(p, s, u, l) ==
  \A d \in Devices :
    \/ u[d] <= s[d] \/ u[d] <= l[d]
    \/ \E j \in 1..Len(p) : p[j].dev = d /\ p[j].n = u[d]

PipeInv ==
  /\ batch \in Seq(Event)
  /\ seen \in [Devices -> 0..MaxReports] /\ lost \in [Devices -> 0..MaxReports]
  /\ due \in [Devices -> 0..MaxReports] /\ \A d \in Devices : due[d] <= accepted[d]
  /\ \A d \in Devices : seen[d] <= accepted[d] /\ lost[d] <= accepted[d]
  /\ Ordered(batch \o items, seen, accepted)
  /\ Settled(batch \o items, seen, due, lost)

LEMMA EventFields ==
  \A e \in Event : e.dev \in Devices /\ e.n \in 1..MaxReports /\ mergeKey(e) = e.dev
BY FanoutAssumption DEF Event, mergeKey

LEMMA Numbers == MaxReports \in Nat /\ \A k \in 0..MaxReports : k \in Nat
BY FanoutAssumption

(* The lost numbers after the events of gone have left unseen.              *)
LEMMA LoseAllIsGreatest ==
  ASSUME NEW gone \in SUBSET Event, lost \in [Devices -> 0..MaxReports]
  PROVE  /\ LoseAll(gone) \in [Devices -> 0..MaxReports]
         /\ \A d \in Devices : lost[d] <= LoseAll(gone)[d]
         /\ \A g \in gone : g.n <= LoseAll(gone)[g.dev]
         /\ \A d \in Devices : \/ LoseAll(gone)[d] = lost[d]
                               \/ \E g \in gone : g.dev = d /\ g.n = LoseAll(gone)[d]
<1> DEFINE ns(d) == {lost[d]} \cup {e.n : e \in {g \in gone : g.dev = d}}
           top(d) == CHOOSE m \in ns(d) : \A n \in ns(d) : n <= m
<1>1. LoseAll(gone) = [d \in Devices |-> top(d)]
  BY DEF LoseAll
<1>2. ASSUME NEW d \in Devices
      PROVE  top(d) \in ns(d) /\ ns(d) \in SUBSET (0..MaxReports) /\ \A n \in ns(d) : n <= top(d)
  <2>1. ns(d) \in SUBSET (0..MaxReports)
    BY EventFields
  <2>2. ns(d) # {} /\ ns(d) \in SUBSET Nat /\ \A n \in ns(d) : n <= MaxReports
    BY <2>1, Numbers
  <2>3. \E m \in ns(d) : \A n \in ns(d) : n <= m
    <3> HIDE DEF ns
    <3>1. QED
      BY <2>2, Numbers, GreatestNumber
  <2> HIDE DEF ns
  <2>4. QED
    BY <2>1, <2>3
<1> HIDE DEF top
<1>3. \A g \in gone : g.dev \in Devices /\ g.n \in ns(g.dev)
  BY EventFields
<1>4. \A d \in Devices : lost[d] \in ns(d)
  OBVIOUS
<1>5. \A d \in Devices : \A n \in ns(d) : n = lost[d] \/ \E g \in gone : g.dev = d /\ g.n = n
  OBVIOUS
<1> HIDE DEF ns
<1>6. QED
  BY <1>1, <1>2, <1>3, <1>4, <1>5

(* Taking the oldest event moves it inside the pipe.                        *)
LEMMA TakeKeepsPipe ==
  ASSUME NEW b \in Seq(Event), NEW q \in Seq(Event), q # <<>>
  PROVE  /\ Append(b, Head(q)) \in Seq(Event)
         /\ Append(b, Head(q)) \o Tail(q) = b \o q
OBVIOUS

(* r is what is left of q without its x oldest events, those of gone.       *)
Evicted(q, x, gone, r) ==
  /\ x \in 0..Len(q) /\ r \in Seq(Event) /\ Len(r) = Len(q) - x
  /\ \A i \in 1..Len(r) : r[i] = q[x + i]
  /\ gone = {q[i] : i \in 1..x}

(* The x oldest queued events leave unseen.                                 *)
LEMMA EvictKeepsPipe ==
  ASSUME NEW b \in Seq(Event), NEW q \in Seq(Event), NEW x, NEW r, NEW gone,
         Evicted(q, x, gone, r),
         lost \in [Devices -> 0..MaxReports], seen \in [Devices -> 0..MaxReports],
         accepted \in [Devices -> 0..MaxReports], due \in [Devices -> 0..MaxReports],
         \A d \in Devices : seen[d] <= accepted[d] /\ lost[d] <= accepted[d],
         Ordered(b \o q, seen, accepted), Settled(b \o q, seen, due, lost)
  PROVE  /\ Ordered(b \o r, seen, accepted)
         /\ Settled(b \o r, seen, due, LoseAll(gone))
         /\ LoseAll(gone) \in [Devices -> 0..MaxReports]
         /\ \A d \in Devices : lost[d] <= LoseAll(gone)[d] /\ LoseAll(gone)[d] <= accepted[d]
<1> DEFINE p == b \o q
           t == b \o r
           at(j) == IF j <= Len(b) THEN j ELSE j + x
<1>c. /\ x \in 0..Len(q) /\ r \in Seq(Event) /\ Len(r) = Len(q) - x
      /\ \A i \in 1..Len(r) : r[i] = q[x + i]
      /\ gone = {q[i] : i \in 1..x}
  BY DEF Evicted
<1>a. /\ p \in Seq(Event) /\ Len(p) = Len(b) + Len(q)
      /\ \A j \in 1..(Len(b) + Len(q)) : p[j] = IF j <= Len(b) THEN b[j] ELSE q[j - Len(b)]
  BY ConcatProperties
<1>b. /\ t \in Seq(Event) /\ Len(t) = Len(b) + Len(r)
      /\ \A j \in 1..(Len(b) + Len(r)) : t[j] = IF j <= Len(b) THEN b[j] ELSE r[j - Len(b)]
  BY <1>c, ConcatProperties
<1>0. /\ Len(b) \in Nat /\ Len(q) \in Nat /\ Len(r) \in Nat /\ x \in Nat
      /\ p \in Seq(Event) /\ Len(p) = Len(b) + Len(q)
      /\ t \in Seq(Event) /\ Len(t) = Len(b) + Len(r) /\ Len(r) = Len(q) - x
  BY <1>a, <1>b, <1>c
<1>1. ASSUME NEW j \in 1..Len(t) PROVE at(j) \in 1..Len(p) /\ t[j] = p[at(j)]
  <2> HIDE DEF p, t
  <2>1. CASE j <= Len(b)
    <3>1. j \in 1..(Len(b) + Len(q)) /\ j \in 1..(Len(b) + Len(r)) /\ at(j) = j
      BY <1>0, <2>1
    <3>2. p[j] = b[j] /\ t[j] = b[j]
      BY <1>a, <1>b, <2>1, <3>1
    <3>3. QED
      BY <1>0, <3>1, <3>2
  <2>2. CASE j > Len(b)
    <3>1. PICK i \in 1..Len(r) : j = Len(b) + i
      <4>1. j - Len(b) \in 1..Len(r) /\ j = Len(b) + (j - Len(b))
        BY <1>0, <2>2
      <4>2. QED
        BY <4>1
    <3>2. t[j] = r[i]
      BY <1>0, <1>b, <2>2, <3>1
    <3>3. x + i \in 1..Len(q) /\ j + x = Len(b) + (x + i)
      BY <1>0, <3>1
    <3>4. j + x \in 1..(Len(b) + Len(q)) /\ j + x > Len(b) /\ (j + x) - Len(b) = x + i
      BY <1>0, <2>2, <3>3
    <3>6. p[j + x] = q[x + i]
      <4>1. PICK k : k = j + x
        OBVIOUS
      <4>2. k \in 1..(Len(b) + Len(q)) /\ ~(k <= Len(b)) /\ k - Len(b) = x + i
        BY <1>0, <3>4, <4>1
      <4>3. p[k] = q[k - Len(b)]
        BY <1>a, <4>2
      <4>4. QED
        BY <4>1, <4>2, <4>3, Zenon
    <3>5. r[i] = q[x + i]
      BY <1>c
    <3>7. QED
      BY <1>0, <2>2, <3>1, <3>2, <3>3, <3>4, <3>5, <3>6
  <2>3. QED
    BY <1>0, <2>1, <2>2
<1>2. \A i \in 1..x : Len(b) + i \in 1..Len(p) /\ q[i] = p[Len(b) + i]
  BY <1>c
<1>3. \A j \in 1..Len(p) : j \in (Len(b) + 1)..(Len(b) + x) \/ \E i \in 1..Len(t) : p[j] = t[i]
  <2>1. ASSUME NEW j \in 1..Len(p), j \notin (Len(b) + 1)..(Len(b) + x)
        PROVE  \E i \in 1..Len(t) : p[j] = t[i]
    <3>1. CASE j <= Len(b)
      <4>1. j \in 1..Len(t) /\ p[j] = t[j]
        BY <1>0, <1>1, <3>1
      <4>2. QED
        BY <4>1
    <3>2. CASE j > Len(b) + x
      <4>1. j - x \in 1..Len(t) /\ at(j - x) = j
        BY <1>0, <3>2
      <4>2. QED
        BY <1>1, <4>1
    <3>3. QED
      BY <1>0, <2>1, <3>1, <3>2
  <2>2. QED
    BY <2>1
<1>4. gone \in SUBSET Event /\ \A i \in 1..x : q[i] \in gone
  BY <1>0, <1>c
<1>5. \A g \in gone : \E i \in 1..x : g = q[i]
  BY <1>c
<1>6. \A i, j \in 1..Len(t) : i < j => at(i) < at(j)
  BY <1>0
<1> HIDE DEF p, t, at
<1>7. Ordered(t, seen, accepted)
  <2>1. ASSUME NEW j \in 1..Len(t)
        PROVE  /\ seen[t[j].dev] < t[j].n /\ t[j].n <= accepted[t[j].dev]
               /\ \A i \in 1..(j - 1) : t[i].dev = t[j].dev => t[i].n < t[j].n
    <3>1. seen[p[at(j)].dev] < p[at(j)].n /\ p[at(j)].n <= accepted[p[at(j)].dev]
      BY <1>1 DEF Ordered, p
    <3>2. ASSUME NEW i \in 1..(j - 1), t[i].dev = t[j].dev PROVE t[i].n < t[j].n
      <4>1. i \in 1..Len(t) /\ at(i) \in 1..(at(j) - 1)
        <5>1. i \in 1..Len(t) /\ i < j
          BY <1>0
        <5>2. at(i) \in 1..Len(p) /\ at(j) \in 1..Len(p) /\ at(i) < at(j)
          BY <1>1, <1>6, <5>1
        <5>3. QED
          BY <1>0, <5>1, <5>2
      <4>2. t[i] = p[at(i)] /\ t[j] = p[at(j)] /\ at(j) \in 1..Len(p)
        BY <1>1, <4>1
      <4>3. QED
        BY <3>2, <4>1, <4>2 DEF Ordered, p
    <3>3. QED
      BY <1>1, <3>1, <3>2
  <2>2. QED
    BY <2>1 DEF Ordered
<1>8. /\ LoseAll(gone) \in [Devices -> 0..MaxReports]
      /\ \A d \in Devices : lost[d] <= LoseAll(gone)[d]
      /\ \A g \in gone : g.n <= LoseAll(gone)[g.dev]
      /\ \A d \in Devices : \/ LoseAll(gone)[d] = lost[d]
                            \/ \E g \in gone : g.dev = d /\ g.n = LoseAll(gone)[d]
  BY <1>4, LoseAllIsGreatest
<1> DEFINE l == LoseAll(gone)
<1> HIDE DEF l
<1>9. ASSUME NEW d \in Devices PROVE l[d] <= accepted[d]
  <2>1. CASE \E g \in gone : g.dev = d /\ g.n = l[d]
    <3>1. PICK i \in 1..x : q[i].dev = d /\ q[i].n = l[d]
      BY <1>5, <2>1
    <3>2. QED
      BY <1>2, <3>1 DEF Ordered, p
  <2>2. CASE l[d] = lost[d]
    BY <2>2
  <2>3. QED
    BY <1>8, <2>1, <2>2 DEF l
<1>10. ASSUME NEW d \in Devices
       PROVE  \/ due[d] <= seen[d] \/ due[d] <= l[d]
              \/ \E j \in 1..Len(t) : t[j].dev = d /\ t[j].n = due[d]
  <2>1. CASE due[d] <= lost[d]
    <3>1. l[d] \in Nat /\ due[d] \in Nat /\ lost[d] \in Nat /\ lost[d] <= l[d]
      BY <1>8, Numbers DEF l
    <3>2. QED
      BY <2>1, <3>1
  <2>2. CASE \E j \in 1..Len(p) : p[j].dev = d /\ p[j].n = due[d]
    <3>1. PICK j \in 1..Len(p) : p[j].dev = d /\ p[j].n = due[d]
      BY <2>2
    <3>2. CASE j \in (Len(b) + 1)..(Len(b) + x)
      <4>1. j - Len(b) \in 1..x /\ j = Len(b) + (j - Len(b))
        BY <1>0, <3>2
      <4>2. p[j] \in gone
        BY <1>2, <1>4, <4>1
      <4>3. p[j].n <= l[d]
        BY <1>8, <3>1, <4>2 DEF l
      <4>4. QED
        BY <3>1, <4>3
    <3>3. CASE \E i \in 1..Len(t) : p[j] = t[i]
      BY <3>1, <3>3
    <3>4. QED
      BY <1>3, <3>2, <3>3
  <2>3. CASE due[d] <= seen[d]
    BY <2>3
  <2>4. QED
    BY <2>1, <2>2, <2>3 DEF Settled, p
<1>11. Settled(t, seen, due, l)
  BY <1>10 DEF Settled
<1>12. QED
  BY <1>7, <1>8, <1>9, <1>11 DEF l, t

(* A report is accepted: the newest one of its device comes last.           *)
LEMMA AppendKeepsPipe ==
  ASSUME NEW p \in Seq(Event), NEW d \in Devices, NEW ev \in Event,
         NEW l \in [Devices -> 0..MaxReports],
         accepted \in [Devices -> 0..MaxReports], seen \in [Devices -> 0..MaxReports],
         ev.dev = d, ev.n = accepted[d] + 1,
         \A e \in Devices : seen[e] <= accepted[e],
         Ordered(p, seen, accepted), Settled(p, seen, due, l),
         NEW a, a = [accepted EXCEPT ![d] = @ + 1],
         due \in [Devices -> 0..MaxReports],
         NEW u, u = due \/ u = [due EXCEPT ![d] = accepted[d] + 1]
  PROVE  Ordered(Append(p, ev), seen, a) /\ Settled(Append(p, ev), seen, u, l)
<1> DEFINE t == Append(p, ev)
<1>0. /\ t \in Seq(Event) /\ Len(p) \in Nat /\ Len(t) = Len(p) + 1 /\ t[Len(p) + 1] = ev
      /\ \A j \in 1..Len(p) : t[j] = p[j] /\ p[j] \in Event
  OBVIOUS
<1>1. /\ \A e \in Devices : accepted[e] \in Nat /\ seen[e] \in Nat /\ a[e] \in Nat
      /\ \A e \in Devices : a[e] = IF e = d THEN accepted[e] + 1 ELSE accepted[e]
  BY Numbers
<1> HIDE DEF t
<1>2. ASSUME NEW j \in 1..Len(t)
      PROVE  /\ seen[t[j].dev] < t[j].n /\ t[j].n <= a[t[j].dev]
             /\ \A i \in 1..(j - 1) : t[i].dev = t[j].dev => t[i].n < t[j].n
  <2>1. CASE j \in 1..Len(p)
    <3>1. p[j].dev \in Devices /\ p[j].n \in Nat /\ t[j] = p[j]
      BY <1>0, <2>1, EventFields, Numbers
    <3>2. \A i \in 1..(j - 1) : t[i] = p[i]
      BY <1>0, <2>1
    <3>3. seen[p[j].dev] < p[j].n /\ p[j].n <= accepted[p[j].dev]
      BY <2>1 DEF Ordered
    <3>4. p[j].n <= a[p[j].dev]
      BY <1>1, <3>1, <3>3
    <3>5. \A i \in 1..(j - 1) : p[i].dev = p[j].dev => p[i].n < p[j].n
      BY <2>1 DEF Ordered
    <3>6. QED
      BY <3>1, <3>2, <3>3, <3>4, <3>5
  <2>2. CASE j = Len(p) + 1
    <3>1. t[j] = ev /\ j - 1 = Len(p)
      BY <1>0, <2>2
    <3>2. \A i \in 1..Len(p) : p[i].dev = d => p[i].n \in Nat /\ p[i].n <= accepted[d]
      BY <1>0, EventFields, Numbers DEF Ordered
    <3>3. seen[d] < ev.n /\ ev.n <= a[d]
      BY <1>1
    <3>4. \A i \in 1..Len(p) : t[i].dev = d => t[i].n < ev.n
      BY <1>0, <1>1, <3>2
    <3>5. QED
      BY <3>1, <3>3, <3>4
  <2>3. j \in 1..Len(p) \/ j = Len(p) + 1
    BY <1>0
  <2>4. QED
    BY <2>1, <2>2, <2>3
<1>3. ASSUME NEW e \in Devices
      PROVE  \/ u[e] <= seen[e] \/ u[e] <= l[e]
             \/ \E j \in 1..Len(t) : t[j].dev = e /\ t[j].n = u[e]
  <2>1. CASE e = d /\ u[e] = accepted[d] + 1
    <3>1. Len(p) + 1 \in 1..Len(t)
      BY <1>0
    <3>2. QED
      BY <1>0, <1>1, <2>1, <3>1
  <2>2. CASE u[e] = due[e]
    <3>1. \A j \in 1..Len(p) : j \in 1..Len(t) /\ t[j] = p[j]
      BY <1>0
    <3>2. \/ due[e] <= seen[e] \/ due[e] <= l[e]
          \/ \E j \in 1..Len(p) : p[j].dev = e /\ p[j].n = due[e]
      BY DEF Settled
    <3>3. QED
      BY <2>2, <3>1, <3>2
  <2>3. u[e] = due[e] \/ (e = d /\ u[e] = accepted[d] + 1)
    OBVIOUS
  <2>4. QED
    BY <2>1, <2>2, <2>3
<1>4. QED
  BY <1>2, <1>3 DEF Ordered, Settled, t

-----------------------------------------------------------------------------
(* One call of the sink.                                                   *)

(* s is what the sink has seen after the events of b: per device the number *)
(* of the last one in b, or what it had seen before.                        *)
Shown(s, b) ==
  /\ s \in [Devices -> 0..MaxReports]
  /\ \A d \in Devices :
       \/ s[d] = seen[d] /\ \A m \in 1..Len(b) : b[m].dev # d
       \/ \E m \in 1..Len(b) : /\ b[m].dev = d /\ s[d] = b[m].n
                               /\ \A l \in (m + 1)..Len(b) : b[l].dev # d

LEMMA SeenAfterShows ==
  ASSUME NEW b \in Seq(Event), seen \in [Devices -> 0..MaxReports]
  PROVE  Shown(SeenAfter(b), b)
<1> DEFINE last(d) == CHOOSE i \in DOMAIN b : b[i].dev = d /\ \A j \in (i + 1)..Len(b) : b[j].dev # d
           new(d) == IF \E i \in DOMAIN b : b[i].dev = d THEN b[last(d)].n ELSE seen[d]
<1>0. /\ DOMAIN b = 1..Len(b) /\ Len(b) \in Nat
      /\ \A i \in 1..Len(b) : b[i] \in Event /\ b[i].n \in 0..MaxReports
  BY EventFields, Numbers
<1>1. SeenAfter(b) = [d \in Devices |-> new(d)]
  BY DEF SeenAfter
<1>2. ASSUME NEW d \in Devices, NEW i \in 1..Len(b), b[i].dev = d
      PROVE  /\ last(d) \in 1..Len(b) /\ b[last(d)].dev = d
             /\ \A j \in (last(d) + 1)..Len(b) : b[j].dev # d
  <2> DEFINE places == {j \in 1..Len(b) : b[j].dev = d}
  <2>1. places \in SUBSET Nat /\ places # {} /\ \A j \in places : j <= Len(b)
    BY <1>2
  <2>2. PICK m \in places : \A j \in places : j <= m
    <3> HIDE DEF places
    <3>1. QED
      BY <1>0, <2>1, GreatestNumber
  <2>3. \A j \in (m + 1)..Len(b) : b[j].dev # d
    BY <1>0, <2>2
  <2>4. m \in DOMAIN b /\ b[m].dev = d
    BY <1>0
  <2>5. QED
    BY <1>0, <2>3, <2>4, Zenon
<1> HIDE DEF last
<1>3. \A d \in Devices : (\E i \in 1..Len(b) : b[i].dev = d) => new(d) = b[last(d)].n
  BY <1>0
<1>4. \A d \in Devices : (\A i \in 1..Len(b) : b[i].dev # d) => new(d) = seen[d]
  BY <1>0
<1> HIDE DEF new
<1>5. \A d \in Devices : new(d) \in 0..MaxReports
  BY <1>0, <1>2, <1>3, <1>4
<1>6. ASSUME NEW d \in Devices
      PROVE  \/ new(d) = seen[d] /\ \A m \in 1..Len(b) : b[m].dev # d
             \/ \E m \in 1..Len(b) : /\ b[m].dev = d /\ new(d) = b[m].n
                                     /\ \A l \in (m + 1)..Len(b) : b[l].dev # d
  <2>1. CASE \E i \in 1..Len(b) : b[i].dev = d
    BY <1>2, <1>3, <2>1
  <2>2. CASE \A i \in 1..Len(b) : b[i].dev # d
    BY <1>4, <2>2
  <2>3. QED
    BY <2>1, <2>2
<1>7. QED
  BY <1>1, <1>5, <1>6 DEF Shown

(* A conflated batch shows what the batch would have shown.                 *)
LEMMA MergedShows ==
  ASSUME NEW b \in Seq(Event), seen \in [Devices -> 0..MaxReports]
  PROVE  Shown(SeenAfter(mergeBatch(b)), b)
<1> DEFINE out == mergeBatch(b)
           s == SeenAfter(out)
<1>1. out \in Seq(Event) /\ LastOnes(b, Len(b), out) /\ EveryKey(b, Len(b), out)
  BY MergeConflates DEF Conflated
<1> HIDE DEF out
<1>2. Shown(s, out)
  BY <1>1, SeenAfterShows
<1> HIDE DEF s
<1>3. /\ \A i \in 1..Len(out) : mergeKey(out[i]) = out[i].dev
      /\ \A i \in 1..Len(b) : mergeKey(b[i]) = b[i].dev
  BY <1>1, EventFields
<1>4. ASSUME NEW d \in Devices
      PROVE  \/ s[d] = seen[d] /\ \A m \in 1..Len(b) : b[m].dev # d
             \/ \E m \in 1..Len(b) : /\ b[m].dev = d /\ s[d] = b[m].n
                                     /\ \A l \in (m + 1)..Len(b) : b[l].dev # d
  <2>1. CASE s[d] = seen[d] /\ \A i \in 1..Len(out) : out[i].dev # d
    BY <1>1, <1>3, <2>1 DEF EveryKey
  <2>2. CASE \E i \in 1..Len(out) : out[i].dev = d /\ s[d] = out[i].n
    <3>1. PICK i \in 1..Len(out) : out[i].dev = d /\ s[d] = out[i].n
      BY <2>2
    <3>2. PICK m \in 1..Len(b) :
            out[i] = b[m] /\ \A l \in (m + 1)..Len(b) : mergeKey(b[l]) # mergeKey(b[m])
      BY <1>1 DEF LastOnes
    <3>3. \A l \in (m + 1)..Len(b) : l \in 1..Len(b)
      OBVIOUS
    <3>4. QED
      BY <1>3, <3>1, <3>2, <3>3
  <2>3. QED
    BY <1>2, <2>1, <2>2 DEF Shown
<1>5. QED
  BY <1>2, <1>4 DEF Shown, s, out

(* What is left of the pipe when the batch has been shown.                  *)
LEMMA ShowKeepsPipe ==
  ASSUME NEW b \in Seq(Event), NEW q \in Seq(Event), NEW s, Shown(s, b),
         accepted \in [Devices -> 0..MaxReports], seen \in [Devices -> 0..MaxReports],
         due \in [Devices -> 0..MaxReports],
         \A d \in Devices : seen[d] <= accepted[d],
         Ordered(b \o q, seen, accepted), Settled(b \o q, seen, due, lost)
  PROVE  /\ Ordered(q, s, accepted) /\ Settled(q, s, due, lost)
         /\ \A d \in Devices : seen[d] <= s[d] /\ s[d] <= accepted[d]
<1> DEFINE p == b \o q
<1>0. /\ Len(b) \in Nat /\ Len(q) \in Nat /\ p \in Seq(Event) /\ Len(p) = Len(b) + Len(q)
      /\ \A j \in 1..Len(b) : j \in 1..Len(p) /\ p[j] = b[j]
      /\ \A j \in 1..Len(q) : Len(b) + j \in 1..Len(p) /\ p[Len(b) + j] = q[j]
  OBVIOUS
<1>1. \A j \in 1..Len(p) : \/ j \in 1..Len(b)
                           \/ \E i \in 1..Len(q) : j = Len(b) + i
  <2>1. ASSUME NEW j \in 1..Len(p), j \notin 1..Len(b) PROVE \E i \in 1..Len(q) : j = Len(b) + i
    <3>1. j - Len(b) \in 1..Len(q) /\ j = Len(b) + (j - Len(b))
      BY <1>0, <2>1
    <3>2. QED
      BY <3>1
  <2>2. QED
    BY <2>1
<1> HIDE DEF p
<1>2. \A j \in 1..Len(p) : p[j] \in Event /\ p[j].dev \in Devices /\ p[j].n \in Nat
  BY <1>0, EventFields, Numbers
<1>3. Ordered(p, seen, accepted) /\ Settled(p, seen, due, lost)
  BY DEF p
<1>4. \A d \in Devices :
        s[d] \in Nat /\ seen[d] \in Nat /\ accepted[d] \in Nat /\ due[d] \in Nat
  BY Numbers DEF Shown
<1>5. ASSUME NEW d \in Devices PROVE seen[d] <= s[d] /\ s[d] <= accepted[d]
  <2>1. CASE s[d] = seen[d]
    BY <1>4, <2>1
  <2>2. CASE \E m \in 1..Len(b) : b[m].dev = d /\ s[d] = b[m].n
    <3>1. PICK m \in 1..Len(b) : b[m].dev = d /\ s[d] = b[m].n
      BY <2>2
    <3>2. m \in 1..Len(p) /\ p[m] = b[m]
      BY <1>0
    <3>3. seen[d] < p[m].n /\ p[m].n <= accepted[d]
      BY <1>3, <3>1, <3>2 DEF Ordered
    <3>4. QED
      BY <1>4, <3>1, <3>2, <3>3
  <2>3. QED
    BY <2>1, <2>2 DEF Shown
<1>6. ASSUME NEW j \in 1..Len(q) PROVE s[q[j].dev] < q[j].n
  <2>1. PICK k \in 1..Len(p) : k = Len(b) + j /\ p[k] = q[j]
    BY <1>0
  <2>2. q[j].dev \in Devices
    BY <1>2, <2>1
  <2>3. CASE s[q[j].dev] = seen[q[j].dev]
    BY <1>3, <2>1, <2>3 DEF Ordered
  <2>4. CASE \E m \in 1..Len(b) : b[m].dev = q[j].dev /\ s[q[j].dev] = b[m].n
    <3>1. PICK m \in 1..Len(b) : b[m].dev = q[j].dev /\ s[q[j].dev] = b[m].n
      BY <2>4
    <3>2. m \in 1..(k - 1) /\ p[m] = b[m]
      BY <1>0, <2>1
    <3>3. p[m].n < p[k].n
      BY <1>3, <2>1, <3>1, <3>2 DEF Ordered
    <3>4. QED
      BY <2>1, <3>1, <3>2, <3>3
  <2>5. QED
    BY <2>2, <2>3, <2>4 DEF Shown
<1>7. ASSUME NEW j \in 1..Len(q)
      PROVE  /\ q[j].n <= accepted[q[j].dev]
             /\ \A i \in 1..(j - 1) : q[i].dev = q[j].dev => q[i].n < q[j].n
  <2>1. PICK k \in 1..Len(p) : k = Len(b) + j /\ p[k] = q[j]
    BY <1>0
  <2>2. \A i \in 1..(j - 1) : Len(b) + i \in 1..(k - 1) /\ p[Len(b) + i] = q[i]
    BY <1>0, <2>1
  <2>3. QED
    BY <1>3, <2>1, <2>2 DEF Ordered
<1>8. ASSUME NEW d \in Devices
      PROVE  \/ due[d] <= s[d] \/ due[d] <= lost[d]
             \/ \E j \in 1..Len(q) : q[j].dev = d /\ q[j].n = due[d]
  <2>1. CASE due[d] <= seen[d]
    BY <1>4, <1>5, <2>1
  <2>2. CASE \E j \in 1..Len(p) : p[j].dev = d /\ p[j].n = due[d]
    <3>1. PICK j \in 1..Len(p) : p[j].dev = d /\ p[j].n = due[d]
      BY <2>2
    <3>2. CASE \E i \in 1..Len(q) : j = Len(b) + i
      <4>1. PICK i \in 1..Len(q) : j = Len(b) + i
        BY <3>2
      <4>2. p[j] = q[i]
        BY <1>0, <4>1
      <4>3. q[i].dev = d /\ q[i].n = due[d]
        BY <3>1, <4>2
      <4>4. QED
        BY <4>3
    <3>3. CASE j \in 1..Len(b)
      <4>1. b[j].dev = d /\ b[j].n = due[d]
        BY <1>0, <3>1, <3>3
      <4>2. PICK m \in 1..Len(b) : /\ b[m].dev = d /\ s[d] = b[m].n
                                   /\ \A l \in (m + 1)..Len(b) : b[l].dev # d
        BY <3>3, <4>1 DEF Shown
      <4>3. j <= m
        BY <3>3, <4>1, <4>2
      <4>4. CASE j = m
        BY <4>1, <4>2, <4>4
      <4>5. CASE j < m
        <5>1. j \in 1..(m - 1) /\ m \in 1..Len(p) /\ p[m] = b[m] /\ p[j] = b[j]
          BY <1>0, <3>3, <4>5
        <5>2. p[j].n < p[m].n
          BY <1>3, <3>1, <4>2, <5>1 DEF Ordered
        <5>3. QED
          BY <1>4, <1>5, <4>1, <4>2, <5>1, <5>2
      <4>6. QED
        BY <3>3, <4>3, <4>4, <4>5
    <3>4. QED
      BY <1>1, <3>2, <3>3
  <2>3. QED
    BY <1>3, <2>1, <2>2 DEF Settled
<1>9. QED
  BY <1>5, <1>6, <1>7, <1>8 DEF Ordered, Settled

-----------------------------------------------------------------------------
(* The invariant of the pipe.                                              *)

LEMMA InitPipeInv == Init => PipeInv
<1> SUFFICES ASSUME Init PROVE PipeInv
  OBVIOUS
<1>1. /\ batch = <<>> /\ items = <<>> /\ batch \o items = <<>>
      /\ seen = [d \in Devices |-> 0] /\ lost = [d \in Devices |-> 0]
      /\ accepted = [d \in Devices |-> 0] /\ due = [d \in Devices |-> 0]
  BY DEF Init, QueueInit
<1>2. 0 \in 0..MaxReports
  BY Numbers
<1>3. Len(<<>>) = 0
  OBVIOUS
<1>4. QED
  BY <1>1, <1>2, <1>3 DEF PipeInv, Ordered, Settled

LEMMA ConcatAppend ==
  ASSUME NEW S, NEW s \in Seq(S), NEW t \in Seq(S), NEW x \in S
  PROVE  s \o Append(t, x) = Append(s \o t, x) /\ s \o t \in Seq(S)
OBVIOUS

LEMMA EnqueuePipeInv ==
  ASSUME QueueInv, PipeInv, NEW d \in Devices, NEW owed, Enqueue(d, owed)
  PROVE  PipeInv' /\ \A e \in Devices : lost[e] <= lost'[e]
<1> DEFINE ev == [dev |-> d, type |-> EventName, n |-> accepted[d] + 1]
           r == IF Full THEN Tail(items) ELSE items
<1>0. /\ items \in Seq(Event) /\ batch \in Seq(Event) /\ accepted \in [Devices -> 0..MaxReports]
      /\ seen \in [Devices -> 0..MaxReports] /\ lost \in [Devices -> 0..MaxReports]
      /\ due \in [Devices -> 0..MaxReports] /\ \A e \in Devices : due[e] <= accepted[e]
      /\ \A e \in Devices : seen[e] <= accepted[e] /\ lost[e] <= accepted[e]
      /\ Ordered(batch \o items, seen, accepted)
      /\ Settled(batch \o items, seen, due, lost)
  BY DEF QueueInv, PipeInv
<1>1. /\ ev \in Event /\ ev.dev = d /\ ev.n = accepted[d] + 1
      /\ accepted' = [accepted EXCEPT ![d] = @ + 1]
      /\ due' = due \/ due' = [due EXCEPT ![d] = accepted[d] + 1]
      /\ items' = Append(r, ev) /\ batch' = batch /\ seen' = seen
      /\ lost' = IF Full THEN LoseAll({Head(items)}) ELSE lost
  BY FanoutAssumption, <1>0, SMTT(30) DEF Enqueue, Event, push, consumerVars
<1>2. /\ r \in Seq(Event)
      /\ Ordered(batch \o r, seen, accepted) /\ Settled(batch \o r, seen, due, lost')
      /\ lost' \in [Devices -> 0..MaxReports]
      /\ \A e \in Devices : lost[e] <= lost'[e] /\ lost'[e] <= accepted[e]
  <2>1. CASE Full
    <3>1. items # <<>> /\ Len(items) \in Nat
      BY <1>0, <2>1 DEF Full, QueueInv
    <3>2. /\ 1 \in 0..Len(items) /\ Tail(items) \in Seq(Event) /\ Len(Tail(items)) = Len(items) - 1
          /\ \A i \in 1..Len(Tail(items)) : Tail(items)[i] = items[1 + i]
      BY <1>0, <3>1
    <3>3. {Head(items)} = {items[i] : i \in 1..1}
      BY <1>0, <3>1
    <3> DEFINE t == Tail(items)
               gone == {Head(items)}
    <3>4. r = t /\ lost' = LoseAll(gone)
      BY <1>1, <2>1
    <3>5. Evicted(items, 1, gone, t) /\ t \in Seq(Event)
      BY <3>2, <3>3 DEF Evicted
    <3> HIDE DEF t, gone, r, ev
    <3>6. /\ Ordered(batch \o t, seen, accepted)
          /\ Settled(batch \o t, seen, due, LoseAll(gone))
          /\ LoseAll(gone) \in [Devices -> 0..MaxReports]
          /\ \A e \in Devices : lost[e] <= LoseAll(gone)[e] /\ LoseAll(gone)[e] <= accepted[e]
      BY <1>0, <3>5, EvictKeepsPipe
    <3>7. QED
      BY <3>4, <3>5, <3>6
  <2>2. CASE ~Full
    <3>1. r = items /\ lost' = lost
      BY <1>1, <2>2
    <3>2. \A e \in Devices : lost[e] <= lost[e]
      BY <1>0, Numbers
    <3>3. QED
      BY <1>0, <3>1, <3>2
  <2>3. QED
    BY <2>1, <2>2
<1> HIDE DEF ev, r
<1>3. batch \o items' = Append(batch \o r, ev) /\ batch \o r \in Seq(Event)
  <2>1. batch \in Seq(Event) /\ r \in Seq(Event) /\ ev \in Event
    BY <1>0, <1>1, <1>2
  <2>2. QED
    BY <1>1, <2>1, ConcatAppend
<1>4. /\ Ordered(Append(batch \o r, ev), seen, accepted')
      /\ Settled(Append(batch \o r, ev), seen, due', lost')
  BY <1>0, <1>1, <1>2, <1>3, AppendKeepsPipe
<1>5. \A e \in Devices : seen[e] <= accepted'[e] /\ lost'[e] <= accepted'[e]
  <2>1. \A e \in Devices : /\ accepted[e] \in Nat /\ seen[e] \in Nat /\ lost'[e] \in Nat
                           /\ accepted'[e] = IF e = d THEN accepted[e] + 1 ELSE accepted[e]
    BY <1>0, <1>1, <1>2, Numbers
  <2>2. \A e \in Devices : seen[e] <= accepted[e] /\ lost'[e] <= accepted[e]
    BY <1>0, <1>2
  <2>3. QED
    BY <2>1, <2>2
<1>6. due' \in [Devices -> 0..MaxReports] /\ \A e \in Devices : due'[e] <= accepted'[e]
  <2>1. accepted' \in [Devices -> 0..MaxReports]
    BY <1>0, EnqueueQueueInv DEF QueueInv
  <2>2. accepted'[d] = accepted[d] + 1 /\ accepted'[d] \in 0..MaxReports
    BY <1>0, <1>1, <2>1
  <2>3. \A e \in Devices : /\ accepted[e] \in Nat /\ due[e] \in Nat
                           /\ accepted'[e] = IF e = d THEN accepted[e] + 1 ELSE accepted[e]
    BY <1>0, <1>1, Numbers
  <2>4. PICK u, a : u = due' /\ a = accepted'
    OBVIOUS
  <2>5. \A e \in Devices : a[e] = IF e = d THEN accepted[e] + 1 ELSE accepted[e]
    BY <2>3, <2>4
  <2>6. \A e \in Devices : due[e] <= accepted[e]
    BY <1>0
  <2>7. CASE u = due
    <3>1. \A e \in Devices : due[e] <= a[e]
      BY <2>3, <2>5, <2>6
    <3>2. QED
      BY <1>0, <2>4, <2>7, <3>1
  <2>8. CASE u = [due EXCEPT ![d] = accepted[d] + 1]
    <3>1. accepted[d] + 1 \in 0..MaxReports
      BY <2>2
    <3>2. u \in [Devices -> 0..MaxReports]
      BY <1>0, <2>8, <3>1
    <3>3. \A e \in Devices : u[e] = IF e = d THEN accepted[e] + 1 ELSE due[e]
      BY <1>0, <2>8
    <3>4. \A e \in Devices : u[e] <= a[e]
      BY <2>3, <2>5, <2>6, <3>3
    <3>5. QED
      BY <2>4, <3>2, <3>4
  <2>9. QED
    BY <1>1, <2>4, <2>7, <2>8
<1>7. QED
  BY <1>0, <1>1, <1>2, <1>3, <1>4, <1>5, <1>6 DEF PipeInv

LEMMA TakePipeInv ==
  ASSUME QueueInv, PipeInv, NEW where, TakeInto(where)
  PROVE  PipeInv'
<1>1. /\ items \in Seq(Event) /\ batch \in Seq(Event) /\ items # <<>>
      /\ items' = Tail(items) /\ batch' = Append(batch, Head(items))
      /\ UNCHANGED <<accepted, due, seen, lost>>
  BY DEF QueueInv, PipeInv, TakeInto, popTakes
<1>2. batch' \in Seq(Event) /\ batch' \o items' = batch \o items
  BY <1>1, TakeKeepsPipe
<1>3. QED
  BY <1>1, <1>2 DEF PipeInv

LEMMA DeliverPipeInv ==
  ASSUME QueueInv, PipeInv, UNCHANGED <<items, accepted, due, lost>>, batch' = <<>>,
         \/ seen' = SeenAfter(batch)
         \/ seen' = SeenAfter(mergeBatch(batch))
  PROVE  PipeInv' /\ \A d \in Devices : seen[d] <= seen'[d] /\ seen'[d] <= accepted[d]
<1>0. /\ items \in Seq(Event) /\ batch \in Seq(Event) /\ accepted \in [Devices -> 0..MaxReports]
      /\ seen \in [Devices -> 0..MaxReports] /\ lost \in [Devices -> 0..MaxReports]
      /\ due \in [Devices -> 0..MaxReports] /\ \A e \in Devices : due[e] <= accepted[e]
      /\ \A e \in Devices : seen[e] <= accepted[e] /\ lost[e] <= accepted[e]
      /\ Ordered(batch \o items, seen, accepted)
      /\ Settled(batch \o items, seen, due, lost)
  BY DEF QueueInv, PipeInv
<1>1. Shown(seen', batch)
  BY <1>0, SeenAfterShows, MergedShows
<1>2. PICK s : s = seen'
  OBVIOUS
<1>3. /\ Ordered(items, s, accepted) /\ Settled(items, s, due, lost)
      /\ \A d \in Devices : seen[d] <= s[d] /\ s[d] <= accepted[d]
  BY <1>0, <1>1, <1>2, ShowKeepsPipe
<1>4. s \in [Devices -> 0..MaxReports]
  BY <1>1, <1>2 DEF Shown
<1>5. <<>> \o items = items /\ <<>> \in Seq(Event)
  BY <1>0
<1>6. QED
  BY <1>0, <1>2, <1>3, <1>4, <1>5 DEF PipeInv

LEMMA PipeUntouched ==
  ASSUME PipeInv, UNCHANGED <<items, batch, accepted, due, seen, lost>>
  PROVE  PipeInv'
BY DEF PipeInv

(* reload() and resetState() evict.                                         *)
LEMMA EvictPipeInv ==
  ASSUME QueueInv, PipeInv, NEW x, NEW gone, Evicted(items, x, gone, items'),
         lost' = LoseAll(gone),
         UNCHANGED <<batch, accepted, due, seen>>
  PROVE  PipeInv' /\ \A d \in Devices : lost[d] <= lost'[d] /\ lost'[d] <= accepted[d]
<1>0. /\ items \in Seq(Event) /\ batch \in Seq(Event) /\ accepted \in [Devices -> 0..MaxReports]
      /\ seen \in [Devices -> 0..MaxReports] /\ lost \in [Devices -> 0..MaxReports]
      /\ due \in [Devices -> 0..MaxReports] /\ \A e \in Devices : due[e] <= accepted[e]
      /\ \A e \in Devices : seen[e] <= accepted[e] /\ lost[e] <= accepted[e]
      /\ Ordered(batch \o items, seen, accepted)
      /\ Settled(batch \o items, seen, due, lost)
  BY DEF QueueInv, PipeInv
<1>1. PICK r : r = items'
  OBVIOUS
<1>2. Evicted(items, x, gone, r) /\ r \in Seq(Event)
  BY <1>1 DEF Evicted
<1>3. /\ Ordered(batch \o r, seen, accepted)
      /\ Settled(batch \o r, seen, due, LoseAll(gone))
      /\ LoseAll(gone) \in [Devices -> 0..MaxReports]
      /\ \A d \in Devices : lost[d] <= LoseAll(gone)[d] /\ LoseAll(gone)[d] <= accepted[d]
  BY <1>0, <1>1, <1>2, EvictKeepsPipe
<1>4. QED
  BY <1>0, <1>1, <1>3 DEF PipeInv

(* What reload() cuts off and what resetState() throws away.                *)
LEMMA ReloadEvicts ==
  ASSUME QueueInv, NEW on, NEW lim \in Limits, Reload(on, lim)
  PROVE  \E x, gone : Evicted(items, x, gone, items') /\ lost' = LoseAll(gone)
<1> DEFINE x == Excess(lim)
           gone == {items[i] : i \in 1..x}
<1>1. /\ items' = SubSeq(items, x + 1, Len(items))
      /\ lost' = LoseAll(gone)
  BY DEF Reload, setLimit
<1>2. items \in Seq(Event) /\ Len(items) \in Nat /\ x \in 0..Len(items)
  BY FanoutAssumption DEF QueueInv, Excess
<1> HIDE DEF x
<1>3. \A i \in (x + 1)..Len(items) : items[i] \in Event
  BY <1>2
<1>4. x + 1 \in Int /\ Len(items) \in Int
  BY <1>2
<1>5. /\ SubSeq(items, x + 1, Len(items)) \in Seq(Event)
      /\ Len(SubSeq(items, x + 1, Len(items)))
           = IF x + 1 <= Len(items) THEN Len(items) - (x + 1) + 1 ELSE 0
      /\ \A i \in 1..(Len(items) - (x + 1) + 1) :
           SubSeq(items, x + 1, Len(items))[i] = items[(x + 1) + i - 1]
  BY <1>3, <1>4, SubSeqProperties
<1>6. items' \in Seq(Event) /\ Len(items') = Len(items) - x
  BY <1>1, <1>2, <1>5
<1>7. ASSUME NEW i \in 1..Len(items') PROVE items'[i] = items[x + i]
  <2>1. i \in 1..(Len(items) - (x + 1) + 1) /\ (x + 1) + i - 1 = x + i
    BY <1>2, <1>6
  <2>2. items'[i] = items[(x + 1) + i - 1]
    BY <1>1, <1>5, <2>1
  <2>3. QED
    BY <2>1, <2>2
<1>8. Evicted(items, x, gone, items')
  BY <1>2, <1>6, <1>7 DEF Evicted
<1>9. QED
  BY <1>1, <1>8

LEMMA ResetEvicts ==
  ASSUME QueueInv, ResetState
  PROVE  \E x, gone : Evicted(items, x, gone, items') /\ lost' = LoseAll(gone)
<1> DEFINE gone == {items[i] : i \in 1..Len(items)}
<1>1. items \in Seq(Event) /\ items' = <<>> /\ lost' = LoseAll(gone)
  <2>1. items \in Seq(Event) /\ DOMAIN items = 1..Len(items)
    BY DEF QueueInv
  <2>2. QED
    BY <2>1 DEF ResetState, clear
<1>2. Evicted(items, Len(items), gone, <<>>)
  BY <1>1 DEF Evicted
<1>3. QED
  BY <1>1, <1>2

-----------------------------------------------------------------------------
(* The control state.                                                      *)

ControlInv ==
  /\ closed \in BOOLEAN /\ mergeOn \in BOOLEAN /\ stopFlag \in BOOLEAN /\ window \in BOOLEAN
  /\ live \subseteq Receivers /\ mapped \subseteq live /\ victims \subseteq live
  /\ stopper \in {"up", "joining", "flagged", "closed", "resetting", "down"}
  /\ consumer \in {"top", "first", "failed", "window", "collect", "deliver",
                   "drain", "last", "done"}
  /\ consumer \in {"top", "first", "failed", "done"} => batch = <<>>

LEMMA InitControlInv == Init => ControlInv
BY DEF Init, QueueInit, ControlInv

LEMMA NextControlInv == ControlInv /\ [Next]_vars => ControlInv'
<1> SUFFICES ASSUME ControlInv, [Next]_vars PROVE ControlInv'
  OBVIOUS
<1>1. ASSUME NEW d \in Devices, NEW owed, Enqueue(d, owed) PROVE ControlInv'
  BY <1>1 DEF Enqueue, push, consumerVars, threadVars, ControlInv
<1>2. CASE LoopTop
  BY <1>2 DEF LoopTop, queueVars, history, threadVars, ControlInv
<1>3. CASE PopFirst
  BY <1>3 DEF PopFirst, TakeInto, popTakes, threadVars, ControlInv
<1>4. CASE Collect
  BY <1>4 DEF Collect, TakeInto, popTakes, threadVars, ControlInv
<1>5. CASE Drain
  BY <1>5 DEF Drain, TakeInto, popTakes, threadVars, ControlInv
<1>6. CASE PopFirstFails
  BY <1>6 DEF PopFirstFails, FindEmpty, popFails, queueVars, threadVars, ControlInv
<1>7. CASE CollectNothing
  BY <1>7 DEF CollectNothing, FindEmpty, popFails, queueVars, threadVars, ControlInv
<1>8. CASE DrainEmpty
  BY <1>8 DEF DrainEmpty, FindEmpty, popFails, queueVars, threadVars, ControlInv
<1>9. CASE AfterFailure
  BY <1>9 DEF AfterFailure, queueVars, threadVars, ControlInv
<1>10. CASE WindowOpen \/ WindowEnds
  BY <1>10 DEF WindowOpen, WindowEnds, queueVars, threadVars, ControlInv
<1>11. CASE Deliver
  BY <1>11 DEF Deliver, queueVars, threadVars, ControlInv
<1>12. CASE DeliverLast
  BY <1>12 DEF DeliverLast, queueVars, threadVars, ControlInv
<1>13. ASSUME NEW on \in BOOLEAN, NEW lim \in Limits, Reload(on, lim) PROVE ControlInv'
  BY <1>13 DEF Reload, setLimit, consumerVars, threadVars, ControlInv
<1>14. CASE ResetState
  BY <1>14 DEF ResetState, clear, consumerVars, threadVars, ControlInv
<1>15. CASE StopBegins
  BY <1>15 DEF StopBegins, queueVars, consumerVars, ControlInv
<1>16. ASSUME NEW r \in Receivers, JoinReceiver(r) PROVE ControlInv'
  BY <1>16 DEF JoinReceiver, queueVars, consumerVars, ControlInv
<1>17. CASE SetStopFlag
  BY <1>17 DEF SetStopFlag, queueVars, consumerVars, threadVars, ControlInv
<1>18. CASE CloseQueue
  BY <1>18 DEF CloseQueue, close, consumerVars, threadVars, ControlInv
<1>19. CASE JoinConsumer
  BY <1>19 DEF JoinConsumer, queueVars, consumerVars, ControlInv
<1>20. CASE DestroyQueue
  BY <1>20 DEF DestroyQueue, queueVars, consumerVars, threadVars, ControlInv
<1>21. ASSUME NEW r \in Receivers, AddPoint(r) PROVE ControlInv'
  BY <1>21 DEF AddPoint, queueVars, consumerVars, ControlInv
<1>22. ASSUME NEW r \in Receivers, RemovePoint(r) PROVE ControlInv'
  BY <1>22 DEF RemovePoint, queueVars, consumerVars, ControlInv
<1>23. CASE UNCHANGED vars
  BY <1>23 DEF vars, queueVars, consumerVars, threadVars, ControlInv
<1>24. QED
  BY <1>1, <1>2, <1>3, <1>4, <1>5, <1>6, <1>7, <1>8, <1>9, <1>10, <1>11, <1>12, <1>13, <1>14,
     <1>15, <1>16, <1>17, <1>18, <1>19, <1>20, <1>21, <1>22, <1>23
  DEF Next, Consume, Stop, Receive, Inject

-----------------------------------------------------------------------------
(* The end of the pipe: once the consumer has found the queue empty, only   *)
(* reports that are not due can follow.                                     *)

TailInv ==
  consumer \in {"last", "done"} => \A j \in 1..Len(items) : due[items[j].dev] < items[j].n

(* When the consumer has left its loop nothing more becomes due.            *)
LEMMA NoneDueAfterLoop ==
  ASSUME EndInv, consumer \in {"drain", "last", "done"}
  PROVE  stopper # "up" /\ \A r \in Receivers : ~Awaited(r)
BY Zenon DEF EndInv, Awaited

LEMMA EvictTailInv ==
  ASSUME TailInv, UNCHANGED <<consumer, due>>, NEW x, NEW gone, Evicted(items, x, gone, items')
  PROVE  TailInv'
<1>1. \A i \in 1..Len(items') : items'[i] = items[x + i]
  BY DEF Evicted
<1>2. \A i \in 1..Len(items') : x + i \in 1..Len(items)
  BY DEF Evicted
<1>3. QED
  BY <1>1, <1>2 DEF TailInv

LEMMA NextTailInv ==
  ASSUME QueueInv, PipeInv, EndInv, TailInv, [Next]_vars
  PROVE  TailInv'
<1>0. items \in Seq(Event)
  BY DEF QueueInv
<1>1. ASSUME NEW d \in Devices, NEW owed, Enqueue(d, owed),
             consumer \in {"last", "done"} => ~owed
      PROVE  TailInv'
  <2> DEFINE ev == [dev |-> d, type |-> EventName, n |-> accepted[d] + 1]
             r == IF Full THEN Tail(items) ELSE items
  <2>1. /\ ev.dev = d /\ ev.n = accepted[d] + 1 /\ consumer' = consumer
        /\ items' = Append(r, ev)
        /\ consumer \in {"last", "done"} => due' = due
    BY <1>1 DEF Enqueue, push, consumerVars
  <2>6. due[ev.dev] < ev.n
    <3>1. due[d] \in Nat /\ accepted[d] \in Nat /\ due[d] <= accepted[d]
      BY Numbers DEF QueueInv, PipeInv
    <3>2. QED
      BY <2>1, <3>1
  <2>2. Full => items # <<>>
    BY <1>0 DEF Full, QueueInv
  <2>3. /\ r \in Seq(Event) /\ Len(r) \in Nat
        /\ \A i \in 1..Len(r) : \E j \in 1..Len(items) : r[i] = items[j]
    <3>1. CASE Full
      <4>1. \A i \in 1..Len(Tail(items)) : i + 1 \in 1..Len(items) /\ Tail(items)[i] = items[i + 1]
        BY <1>0, <2>2, <3>1
      <4>2. QED
        BY <1>0, <2>2, <3>1, <4>1
    <3>2. CASE ~Full
      BY <1>0, <3>2
    <3>3. QED
      BY <3>1, <3>2
  <2> HIDE DEF r, ev
  <2>4. ASSUME NEW i \in 1..Len(items')
        PROVE  items'[i] = ev \/ \E j \in 1..Len(items) : items'[i] = items[j]
    <3>1. CASE i \in 1..Len(r)
      BY <2>1, <2>3, <3>1
    <3>2. CASE i = Len(r) + 1
      BY <2>1, <2>3, <3>2
    <3>3. i \in 1..Len(r) \/ i = Len(r) + 1
      <4>1. Len(Append(r, ev)) = Len(r) + 1
        BY <2>3
      <4>2. QED
        BY <2>1, <2>3, <4>1
    <3>4. QED
      BY <3>1, <3>2, <3>3
  <2>5. QED
    BY <2>1, <2>4, <2>6 DEF TailInv
<1>2. ASSUME NEW r \in Receivers, NEW d \in Devices, Receive(r, d) PROVE TailInv'
  BY <1>1, <1>2, NoneDueAfterLoop DEF Receive
<1>a. ASSUME NEW d \in Devices, Inject(d) PROVE TailInv'
  BY <1>1, <1>a, NoneDueAfterLoop DEF Inject
<1>3. CASE LoopTop \/ PopFirst \/ PopFirstFails \/ AfterFailure \/ WindowOpen \/ WindowEnds
           \/ Collect \/ CollectNothing \/ Deliver \/ Drain
  <2>1. consumer' \notin {"last", "done"}
    BY <1>3 DEF LoopTop, PopFirst, PopFirstFails, AfterFailure, WindowOpen, WindowEnds,
                Collect, CollectNothing, Deliver, Drain, TakeInto, FindEmpty
  <2>2. QED
    BY <2>1 DEF TailInv
<1>4. CASE DrainEmpty
  <2>1. items' = <<>>
    BY <1>4 DEF DrainEmpty, FindEmpty, popFails, queueVars
  <2>2. Len(items') = 0
    BY <2>1
  <2>3. QED
    BY <2>2 DEF TailInv
<1>5. CASE DeliverLast
  <2>1. UNCHANGED <<items, due>> /\ consumer = "last"
    BY <1>5 DEF DeliverLast, queueVars
  <2>2. QED
    BY <2>1 DEF TailInv
<1>6. ASSUME NEW on, NEW lim \in Limits, Reload(on, lim) PROVE TailInv'
  <2>1. UNCHANGED <<consumer, due>>
    BY <1>6 DEF Reload, consumerVars
  <2>2. QED
    BY <1>6, <2>1, ReloadEvicts, EvictTailInv
<1>7. CASE ResetState
  <2>1. UNCHANGED <<consumer, due>>
    BY <1>7 DEF ResetState, consumerVars
  <2>2. QED
    BY <1>7, <2>1, ResetEvicts, EvictTailInv
<1>8. CASE Stop \/ UNCHANGED vars \/ \E r \in Receivers : AddPoint(r) \/ RemovePoint(r)
  <2>1. UNCHANGED <<items, consumer, due>>
    BY <1>8 DEF Stop, StopBegins, SetStopFlag, CloseQueue, close, JoinConsumer, JoinReceiver,
                DestroyQueue, AddPoint, RemovePoint, vars, queueVars, consumerVars, history
  <2>2. QED
    BY <2>1 DEF TailInv
<1>9. QED
  BY <1>2, <1>a, <1>3, <1>4, <1>5, <1>6, <1>7, <1>8 DEF Next, Consume

-----------------------------------------------------------------------------
(* The step, and what it is to Delivery.                                   *)

FanInv == QueueInv /\ EndInv /\ ControlInv /\ TailInv /\ PipeInv

LEMMA InitFanInv == Init => FanInv
<1> SUFFICES ASSUME Init PROVE FanInv
  OBVIOUS
<1>1. TailInv
  BY DEF Init, TailInv
<1>2. QED
  BY <1>1, InitQueueInv, InitEndInv, InitControlInv, InitPipeInv DEF FanInv

(* A step that moves no report the sink or the host can tell.               *)
LEMMA Quiet ==
  ASSUME UNCHANGED <<accepted, due, seen, lost>>, consumer # "done", consumer' # "done"
  PROVE  UNCHANGED Promise!vars
BY DEF Promise!vars

LEMMA StillQuiet ==
  ASSUME UNCHANGED <<accepted, due, seen, lost>>, consumer' = consumer
  PROVE  UNCHANGED Promise!vars
BY DEF Promise!vars

LEMMA StepDelivers ==
  ASSUME FanInv, [Next]_vars
  PROVE  PipeInv' /\ [Promise!Next]_(Promise!vars)
<1> DEFINE Step == PipeInv' /\ [Promise!Next]_(Promise!vars)
<1>0. /\ QueueInv /\ EndInv /\ ControlInv /\ TailInv /\ PipeInv
      /\ seen \in [Devices -> Nat] /\ lost \in [Devices -> Nat]
      /\ accepted \in [Devices -> Nat]
  BY Numbers DEF FanInv, PipeInv, QueueInv
<1>a. PipeInv' => seen' \in [Devices -> Nat] /\ lost' \in [Devices -> Nat]
  BY Numbers DEF PipeInv
<1>1. ASSUME NEW d \in Devices, NEW owed, Enqueue(d, owed), consumer = "done" => ~owed
      PROVE  Step
  <2>1. PipeInv' /\ \A e \in Devices : lost[e] <= lost'[e]
    BY <1>0, <1>1, EnqueuePipeInv
  <2>2. \A e \in Devices : lost'[e] <= accepted'[e]
    BY <2>1 DEF PipeInv
  <2>3. /\ accepted' = [accepted EXCEPT ![d] = @ + 1] /\ seen' = seen /\ consumer' = consumer
        /\ due' = due \/ (owed /\ due' = [due EXCEPT ![d] = accepted[d] + 1])
    BY <1>1 DEF Enqueue, consumerVars
  <2>4. due' = due \/ (consumer # "done" /\ due' = [due EXCEPT ![d] = accepted'[d]])
    <3>1. accepted'[d] = accepted[d] + 1
      BY <1>0, <2>3
    <3>2. QED
      BY <1>1, <2>3, <3>1
  <2>5. Promise!Accept(d)
    BY <1>a, <2>1, <2>2, <2>3, <2>4 DEF Promise!Accept, Promise!LoseSome
  <2>6. QED
    BY <2>1, <2>5 DEF Promise!Next
<1>2. ASSUME NEW r \in Receivers, NEW d \in Devices, Receive(r, d) PROVE Step
  BY <1>0, <1>1, <1>2, NoneDueAfterLoop DEF Receive
<1>3. ASSUME NEW d \in Devices, Inject(d) PROVE Step
  BY <1>0, <1>1, <1>3, NoneDueAfterLoop DEF Inject
<1>4. ASSUME NEW where, TakeInto(where), consumer # "done", where # "done" PROVE Step
  <2>1. PipeInv'
    BY <1>0, <1>4, TakePipeInv
  <2>2. UNCHANGED <<accepted, due, seen, lost>> /\ consumer' = where
    BY <1>4 DEF TakeInto
  <2>3. QED
    BY <1>4, <2>1, <2>2, Quiet
<1>5. CASE PopFirst \/ Collect \/ Drain
  BY <1>4, <1>5 DEF PopFirst, Collect, Drain
<1>6. CASE LoopTop \/ PopFirstFails \/ AfterFailure \/ WindowOpen \/ WindowEnds
           \/ CollectNothing \/ DrainEmpty
  <2>1. /\ UNCHANGED <<items, batch, accepted, due, seen, lost>>
        /\ consumer # "done" /\ consumer' # "done"
    BY <1>6 DEF LoopTop, PopFirstFails, AfterFailure, WindowOpen, WindowEnds, CollectNothing,
                DrainEmpty, FindEmpty, popFails, queueVars, history
  <2>2. QED
    BY <1>0, <2>1, PipeUntouched, Quiet
<1>7. CASE Deliver
  <2>1. /\ consumer = "deliver" /\ consumer' = "top" /\ UNCHANGED <<items, accepted, due, lost>>
        /\ batch' = <<>>
        /\ seen' = SeenAfter(batch) \/ seen' = SeenAfter(mergeBatch(batch))
    BY <1>7 DEF Deliver, deliver, queueVars
  <2>2. PipeInv' /\ \A d \in Devices : seen[d] <= seen'[d] /\ seen'[d] <= accepted[d]
    BY <1>0, <2>1, DeliverPipeInv
  <2>3. CASE seen' = seen
    BY <2>1, <2>2, <2>3, Quiet
  <2>4. CASE seen' # seen
    <3>1. Promise!Publish
      BY <1>a, <2>1, <2>2, <2>4 DEF Promise!Publish
    <3>2. QED
      BY <2>2, <3>1 DEF Promise!Next
  <2>5. QED
    BY <2>3, <2>4
<1>8. CASE DeliverLast
  <2>1. /\ consumer = "last" /\ consumer' = "done" /\ UNCHANGED <<items, accepted, due, lost>>
        /\ batch' = <<>> /\ seen' = SeenAfter(mergeBatch(batch))
    BY <1>8 DEF DeliverLast, deliver, queueVars
  <2>2. PipeInv' /\ \A d \in Devices : seen[d] <= seen'[d] /\ seen'[d] <= accepted[d]
    BY <1>0, <2>1, DeliverPipeInv
  <2>3. ASSUME NEW d \in Devices
        PROVE  seen'[d] >= due[d] \/ lost[d] >= due[d]
    <3>1. items \in Seq(Event) /\ batch' \o items' = items
      BY <1>0, <2>1 DEF QueueInv
    <3>2. Settled(items, seen', due, lost)
      BY <2>1, <2>2, <3>1 DEF PipeInv
    <3>3. \A j \in 1..Len(items) : items[j].dev = d => due[d] < items[j].n
      BY <1>0, <2>1, <2>3 DEF TailInv
    <3>4. due[d] \in Nat /\ \A j \in 1..Len(items) : items[j].n \in Nat
      BY <1>0, <3>1, EventFields, Numbers DEF PipeInv
    <3>5. seen'[d] \in Nat /\ lost[d] \in Nat
      BY <1>0, <1>a, <2>2
    <3>6. QED
      BY <3>2, <3>3, <3>4, <3>5 DEF Settled
  <2>4. Promise!End
    BY <1>a, <2>1, <2>2, <2>3 DEF Promise!End
  <2>5. QED
    BY <2>2, <2>4 DEF Promise!Next
<1>9. ASSUME UNCHANGED <<batch, accepted, due, seen, consumer>>,
             \E x, gone : Evicted(items, x, gone, items') /\ lost' = LoseAll(gone)
      PROVE  Step
  <2>1. PipeInv' /\ \A d \in Devices : lost[d] <= lost'[d] /\ lost'[d] <= accepted[d]
    BY <1>0, <1>9, EvictPipeInv
  <2>2. Promise!Lose
    BY <1>9, <1>a, <2>1 DEF Promise!Lose, Promise!LoseSome
  <2>3. QED
    BY <2>1, <2>2 DEF Promise!Next
<1>10. ASSUME NEW on \in BOOLEAN, NEW lim \in Limits, Reload(on, lim) PROVE Step
  <2>1. UNCHANGED <<batch, accepted, due, seen, consumer>>
    BY <1>10 DEF Reload, consumerVars
  <2>2. QED
    BY <1>0, <1>9, <1>10, <2>1, ReloadEvicts
<1>11. CASE ResetState
  <2>1. UNCHANGED <<batch, accepted, due, seen, consumer>>
    BY <1>11 DEF ResetState, consumerVars
  <2>2. QED
    BY <1>0, <1>9, <1>11, <2>1, ResetEvicts
<1>12. CASE Stop \/ UNCHANGED vars \/ \E r \in Receivers : AddPoint(r) \/ RemovePoint(r)
  <2>1. UNCHANGED <<items, batch, accepted, due, seen, lost, consumer>>
    BY <1>12 DEF Stop, StopBegins, SetStopFlag, CloseQueue, close, JoinConsumer, JoinReceiver,
                 DestroyQueue, AddPoint, RemovePoint, vars, queueVars, consumerVars, history
  <2>2. QED
    BY <1>0, <2>1, PipeUntouched, StillQuiet
<1>13. QED
  BY <1>2, <1>3, <1>5, <1>6, <1>7, <1>8, <1>10, <1>11, <1>12 DEF Next, Consume

LEMMA FanInvariance == Spec => []FanInv
<1>1. FanInv /\ [Next]_vars => FanInv'
  <2> SUFFICES ASSUME FanInv, [Next]_vars PROVE FanInv'
    OBVIOUS
  <2>1. QueueInv /\ EndInv /\ ControlInv /\ TailInv /\ PipeInv
    BY DEF FanInv
  <2>2. QueueInv' /\ EndInv' /\ ControlInv' /\ TailInv' /\ PipeInv'
    BY <2>1, NextQueueInv, NextEndInv, NextControlInv, NextTailInv, StepDelivers
  <2>3. QED
    BY <2>2 DEF FanInv
<1>2. QED
  BY <1>1, InitFanInv, PTL DEF Spec

(* The types; and consumerLoop's batch never outlives its round.            *)
THEOREM BatchIsLocal == Spec => []TypeOK
<1>1. FanInv => TypeOK
  BY DEF FanInv, QueueInv, ControlInv, PipeInv, TypeOK
<1>2. QED
  BY <1>1, FanInvariance, PTL

(* When the consumer has ended, what is still queued was pushed after       *)
(* stop() had begun, and not by a receive thread that stopAll() waits for:  *)
(* by inject, or by a point that was added or being removed meanwhile.      *)
THEOREM OnlyLateIsLeftBehind == Spec => []OnlyLateIsLeft
<1>1. FanInv => OnlyLateIsLeft
  <2> SUFFICES ASSUME FanInv, consumer = "done"
               PROVE  stopFlag /\ \A i \in DOMAIN items : items[i].n > due[items[i].dev]
    BY DEF OnlyLateIsLeft
  <2>1. items \in Seq(Event) /\ DOMAIN items = 1..Len(items) /\ stopFlag
    BY DEF FanInv, QueueInv, EndInv
  <2>2. ASSUME NEW i \in 1..Len(items) PROVE items[i].n > due[items[i].dev]
    <3>1. items[i] \in Event
      BY <2>1
    <3>2. items[i].n \in Nat /\ due[items[i].dev] \in Nat
      BY <3>1, EventFields, Numbers DEF FanInv, PipeInv
    <3>3. due[items[i].dev] < items[i].n
      BY DEF FanInv, TailInv
    <3>4. QED
      BY <3>2, <3>3
  <2>3. QED
    BY <2>1, <2>2
<1>2. QED
  BY <1>1, FanInvariance, PTL

(* Per device, what leaves the queue keeps the order of acceptance.         *)
THEOREM PipeStaysOrdered == Spec => []PipeOrdered
<1>1. FanInv => PipeOrdered
  <2> SUFFICES ASSUME FanInv PROVE PipeOrdered
    OBVIOUS
  <2>1. batch \in Seq(Event) /\ items \in Seq(Event) /\ Ordered(batch \o items, seen, accepted)
    BY DEF FanInv, QueueInv, PipeInv
  <2>2. DOMAIN (batch \o items) = 1..Len(batch \o items)
    BY <2>1
  <2>3. QED
    BY <2>1, <2>2 DEF PipeOrdered, Ordered
<1>2. QED
  BY <1>1, FanInvariance, PTL

(* Whatever a window has collected, it is conflated to the last event per   *)
(* key, in the order in which the keys first came.                          *)
THEOREM ConflatesToLastPerKey == Spec => []LastPerKeyInFirstOrder
<1>1. FanInv => LastPerKeyInFirstOrder
  <2> SUFFICES ASSUME FanInv PROVE LastPerKeyInFirstOrder
    OBVIOUS
  <2>1. batch \in Seq(Event)
    BY DEF FanInv, PipeInv
  <2>2. ConflatedToLast(batch)
    BY <2>1, MergeKeepsItsWord
  <2>3. QED
    BY <2>2, Zenon DEF LastPerKeyInFirstOrder, ConflatedToLast
<1>2. QED
  BY <1>1, FanInvariance, PTL

(* The distribution side implements Delivery: every step is one of its      *)
(* steps, or moves nothing the host can tell.                               *)
THEOREM ServesAsPromised == Spec => Delivers
<1>1. Init => Promise!Init
  BY DEF Init, Promise!Init
<1>2. FanInv /\ [Next]_vars => [Promise!Next]_(Promise!vars)
  BY StepDelivers
<1>3. QED
  BY <1>1, <1>2, FanInvariance, PTL DEF Spec, Delivers, Promise!Spec

=============================================================================
