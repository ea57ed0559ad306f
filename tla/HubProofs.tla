------------------------------ MODULE HubProofs -----------------------------
(***************************************************************************)
(* What Hub satisfies for any clients, threads and sizes of batches: a     *)
(* batch of the consumer is broadcast as a whole or not at all, and every  *)
(* client is handed exactly the broadcasts that were counted while it was  *)
(* registered.  The second needs to know that nobody is twice in a vector, *)
(* hence in a snapshot, and that what a client is owed is at any moment    *)
(* what it was handed and what is on its way to it (HearInv).              *)
(***************************************************************************)
EXTENDS Hub, DataLemmas, SequenceTheorems

(* The broadcasts the consumer has made of its batch, and those to come.    *)
BatchInv ==
  LET f == thread[Consumer] IN
  /\ DOMAIN thread = Threads
  /\ DOMAIN f = {"at", "left", "id", "snapshot"} /\ f.left \in Int
  /\ DOMAIN batch = {"size", "made"} /\ batch.size \in Int /\ batch.made \in Int
  /\ f.at \in {"idle", "flag", "cast", "send"}
  /\ f.at = "flag" => batch.made = 0 /\ f.left = batch.size
  /\ f.at \in {"cast", "send"} => batch.made + f.left = batch.size

LEMMA ConsumerIsThread == Consumer \in Threads
  BY DEF Threads

LEMMA InitInv == Init => BatchInv
  BY ConsumerIsThread DEF Init, BatchInv, Idle

(* The consumer and its batch are left alone.                               *)
LEMMA OthersInv ==
  ASSUME BatchInv, DOMAIN thread' = DOMAIN thread, thread'[Consumer] = thread[Consumer],
         DOMAIN batch' = DOMAIN batch, batch'.size = batch.size, batch'.made = batch.made
  PROVE  BatchInv'
  BY DEF BatchInv

(* The consumer's own steps.                                                *)
LEMMA ConsumerInv ==
  ASSUME BatchInv,
         \/ Snapshot(Consumer) \/ Send(Consumer) \/ Sent(Consumer) \/ ReadFlag
         \/ \E n \in 1..MaxBatch : Deliver(n)
  PROVE  /\ BatchInv'
         /\ (thread[Consumer] # Idle /\ thread'[Consumer] = Idle)
              => batch.made \in {0, batch.size}
<1> DEFINE f == thread[Consumer]
           Goal == /\ BatchInv'
                   /\ (f # Idle /\ thread'[Consumer] = Idle) => batch.made \in {0, batch.size}
<1>1. /\ Consumer \in DOMAIN thread /\ DOMAIN f = {"at", "left", "id", "snapshot"}
      /\ f.left \in Int /\ DOMAIN batch = {"size", "made"}
      /\ batch.size \in Int /\ batch.made \in Int /\ DOMAIN thread = Threads
  BY ConsumerIsThread DEF BatchInv
<1>2. Idle.at = "idle" /\ Idle.left = 0 /\ DOMAIN Idle = {"at", "left", "id", "snapshot"}
  BY DEF Idle
<1>3. CASE Snapshot(Consumer)
  <2> DEFINE g == [at |-> "send", left |-> f.left - 1, id |-> broadcastCount + 1,
                   snapshot |-> clients \o wsClients]
  <2>1. thread' = [thread EXCEPT ![Consumer] = g] /\ f.at = "cast"
    BY <1>3 DEF Snapshot
  <2>2. batch' = [batch EXCEPT !.made = batch.made + 1]
    BY <1>3 DEF Snapshot
  <2>3. g.at = "send" /\ g.left = f.left - 1 /\ DOMAIN g = {"at", "left", "id", "snapshot"}
    OBVIOUS
  <2> HIDE DEF g
  <2>4. thread'[Consumer] = g /\ DOMAIN thread' = Threads
    BY <1>1, <2>1
  <2>5. /\ DOMAIN batch' = {"size", "made"} /\ batch'.size = batch.size
        /\ batch'.made = batch.made + 1
    BY <1>1, <2>2
  <2>6. batch.made + f.left = batch.size
    BY <2>1 DEF BatchInv
  <2>7. QED
    BY <1>1, <1>2, <2>3, <2>4, <2>5, <2>6 DEF BatchInv
<1>4. CASE Send(Consumer)
  <2> DEFINE g == [f EXCEPT !.snapshot = Rest(@)]
  <2>1. thread' = [thread EXCEPT ![Consumer] = g] /\ f.at = "send" /\ batch' = batch
    BY <1>4 DEF Send
  <2>2. g.at = f.at /\ g.left = f.left /\ DOMAIN g = {"at", "left", "id", "snapshot"}
    BY <1>1
  <2> HIDE DEF g
  <2>3. thread'[Consumer] = g /\ DOMAIN thread' = Threads
    BY <1>1, <2>1
  <2>4. QED
    BY <1>1, <1>2, <2>1, <2>2, <2>3 DEF BatchInv
<1>5. CASE Sent(Consumer)
  <2> DEFINE g == [Idle EXCEPT !.at = "cast", !.left = f.left]
  <2>1. /\ thread' = [thread EXCEPT ![Consumer] = IF f.left = 0 THEN Idle ELSE g]
        /\ f.at = "send" /\ batch' = batch
    BY <1>5 DEF Sent, history
  <2>2. g.at = "cast" /\ g.left = f.left /\ DOMAIN g = {"at", "left", "id", "snapshot"}
    BY <1>2
  <2> HIDE DEF g
  <2>3. thread'[Consumer] = (IF f.left = 0 THEN Idle ELSE g) /\ DOMAIN thread' = Threads
    BY <1>1, <2>1
  <2>4. batch.made + f.left = batch.size
    BY <2>1 DEF BatchInv
  <2>5. CASE f.left = 0
    BY <1>1, <1>2, <2>1, <2>3, <2>4, <2>5 DEF BatchInv
  <2>6. CASE f.left # 0
    BY <1>1, <1>2, <2>1, <2>2, <2>3, <2>4, <2>6 DEF BatchInv
  <2>7. QED
    BY <2>5, <2>6
<1>6. CASE ReadFlag
  <2> DEFINE g == [f EXCEPT !.at = "cast"]
  <2>1. /\ thread' = [thread EXCEPT ![Consumer] = IF emitNormalized THEN g ELSE Idle]
        /\ f.at = "flag" /\ batch' = batch
    BY <1>6 DEF ReadFlag, history
  <2>2. g.at = "cast" /\ g.left = f.left /\ DOMAIN g = {"at", "left", "id", "snapshot"}
    BY <1>1
  <2> HIDE DEF g
  <2>3. (thread'[Consumer] = g \/ thread'[Consumer] = Idle) /\ DOMAIN thread' = Threads
    BY <1>1, <2>1
  <2>4. batch.made = 0 /\ f.left = batch.size
    BY <2>1 DEF BatchInv
  <2>5. QED
    BY <1>1, <1>2, <2>1, <2>2, <2>3, <2>4 DEF BatchInv
<1>7. ASSUME NEW n \in 1..MaxBatch, Deliver(n) PROVE Goal
  <2> DEFINE g == [Idle EXCEPT !.at = "flag", !.left = n]
  <2>1. /\ thread' = [thread EXCEPT ![Consumer] = g] /\ f = Idle
        /\ batch' = [size |-> n, made |-> 0]
    BY <1>7 DEF Deliver
  <2>2. g.at = "flag" /\ g.left = n /\ DOMAIN g = {"at", "left", "id", "snapshot"}
    BY <1>2
  <2> HIDE DEF g
  <2>3. thread'[Consumer] = g /\ DOMAIN thread' = Threads
    BY <1>1, <2>1
  <2>4. n \in Int
    OBVIOUS
  <2>5. QED
    BY <2>1, <2>2, <2>3, <2>4 DEF BatchInv
<1>8. QED
  BY <1>3, <1>4, <1>5, <1>6, <1>7

LEMMA StepInv ==
  ASSUME BatchInv, [Next]_vars
  PROVE  /\ BatchInv'
         /\ (thread[Consumer] # Idle /\ thread'[Consumer] = Idle)
              => batch.made \in {0, batch.size}
<1>1. DOMAIN thread = Threads /\ DOMAIN batch = {"size", "made"}
  BY DEF BatchInv
<1>2. ASSUME NEW t \in Threads \ {Consumer}, Snapshot(t) \/ Send(t) \/ Sent(t)
      PROVE  BatchInv' /\ thread'[Consumer] = thread[Consumer]
  <2>1. /\ \E g : thread' = [thread EXCEPT ![t] = g]
        /\ batch' = batch \/ batch' = [batch EXCEPT !.made = batch.made]
    <3>1. CASE Snapshot(t)
      <4>1. batch' = [batch EXCEPT !.made = IF t = Consumer THEN @ + 1 ELSE @]
        BY <3>1 DEF Snapshot
      <4>2. QED
        BY <3>1, <4>1 DEF Snapshot
    <3>2. CASE Send(t)
      BY <3>2 DEF Send
    <3>3. CASE Sent(t)
      BY <3>3 DEF Sent, history
    <3>4. QED
      BY <1>2, <3>1, <3>2, <3>3
  <2>2. DOMAIN batch' = DOMAIN batch /\ batch'.size = batch.size /\ batch'.made = batch.made
    BY <1>1, <2>1
  <2>3. DOMAIN thread' = DOMAIN thread /\ thread'[Consumer] = thread[Consumer]
    BY <2>1
  <2>4. QED
    BY <2>2, <2>3, OthersInv
<1>3. ASSUME NEW t \in Emitters, NEW n \in 1..2, Emit(t, n)
      PROVE  BatchInv' /\ thread'[Consumer] = thread[Consumer]
  <2>1. t # Consumer
    BY HubAssumption
  <2>2. DOMAIN thread' = DOMAIN thread /\ thread'[Consumer] = thread[Consumer] /\ batch' = batch
    BY <1>3, <2>1 DEF Emit, history
  <2>3. QED
    BY <2>2, OthersInv
<1>4. ASSUME UNCHANGED <<thread, batch>>
      PROVE  BatchInv' /\ thread'[Consumer] = thread[Consumer]
  BY <1>4, OthersInv
<1>5. ASSUME NEW c \in Receivers, add(c) \/ remove(c)
      PROVE  UNCHANGED <<thread, batch>>
  BY <1>5 DEF add, remove, Ended
<1>6. clearClients => UNCHANGED <<thread, batch>>
  BY DEF clearClients, Ended
<1>7. ASSUME NEW on \in BOOLEAN, Reload(on) PROVE UNCHANGED <<thread, batch>>
  BY <1>7 DEF Reload, history
<1>8. UNCHANGED vars => UNCHANGED <<thread, batch>>
  BY DEF vars, history
<1>9. QED
  BY <1>2, <1>3, <1>4, <1>5, <1>6, <1>7, <1>8, ConsumerInv DEF Next, Proceed

LEMMA Invariant == Spec => []BatchInv
<1>1. BatchInv /\ [Next]_vars => BatchInv'
  BY StepInv
<1>2. QED
  BY <1>1, InitInv, PTL DEF Spec

(* deliver broadcasts a batch as a whole or not at all, also when reload()  *)
(* turns the broadcast on or off meanwhile: BatchesWhole, for batches of    *)
(* any size and any number of clients and other threads that broadcast.     *)
THEOREM BatchesGoOutWhole == Spec => BatchesWhole
<1>1. BatchInv /\ [Next]_vars =>
        [(thread[Consumer] # Idle /\ thread'[Consumer] = Idle)
           => batch.made \in {0, batch.size}]_vars
  BY StepInv
<1>2. QED
  BY <1>1, Invariant, PTL DEF Spec, BatchesWhole

-----------------------------------------------------------------------------
(* Sequences without repetition.                                           *)

Once(s, S) == s \in Seq(S) /\ IsInjective(s)

LEMMA OnceIndices ==
  ASSUME NEW S, NEW s, Once(s, S)
  PROVE  /\ s \in Seq(S) /\ Len(s) \in Nat /\ DOMAIN s = 1..Len(s)
         /\ \A i, j \in 1..Len(s) : s[i] = s[j] => i = j
         /\ \A x : x \in ToSet(s) <=> \E i \in 1..Len(s) : s[i] = x
BY DEF Once, IsInjective, ToSet

(* The loop up to the n-th place.                                           *)
IsKept(s, c, n, f) ==
  f = [k \in 0..n |->
        IF k = 0 THEN <<>> ELSE IF s[k] = c THEN f[k - 1] ELSE Append(f[k - 1], s[k])]

LEMMA KeptExists ==
  ASSUME NEW s, NEW c, NEW n \in Nat
  PROVE  \E f : IsKept(s, c, n, f)
<1> DEFINE good == {k \in 0..n : \E f : IsKept(s, c, k, f)}
           Round(v, k) == IF s[k] = c THEN v ELSE Append(v, s[k])
<1>1. 0 \in good
  <2>1. IsKept(s, c, 0, [k \in 0..0 |-> <<>>])
    BY DEF IsKept
  <2>2. QED
    BY <2>1
<1>2. ASSUME NEW m \in 0..(n - 1), m \in good PROVE m + 1 \in good
  <2>1. PICK f : IsKept(s, c, m, f)
    BY <1>2
  <2> DEFINE g == [k \in 0..(m + 1) |-> IF k = m + 1 THEN Round(f[m], m + 1) ELSE f[k]]
             h == [k \in 0..(m + 1) |-> IF k = 0 THEN <<>> ELSE Round(g[k - 1], k)]
  <2>2. \A k \in 0..m : f[k] = IF k = 0 THEN <<>> ELSE Round(f[k - 1], k)
    BY <2>1 DEF IsKept
  <2> HIDE DEF Round
  <2>3. ASSUME NEW k \in 0..(m + 1) PROVE g[k] = h[k]
    <3>1. CASE k = 0
      <4>1. 0 \in 0..m /\ 0 # m + 1
        BY <1>2
      <4>2. QED
        BY <2>2, <3>1, <4>1
    <3>2. CASE k = m + 1
      <4>1. m \in 0..(m + 1) /\ m # m + 1 /\ m + 1 # 0 /\ (m + 1) - 1 = m
        BY <1>2
      <4>2. g[m] = f[m]
        BY <4>1
      <4>3. QED
        BY <3>2, <4>1, <4>2
    <3>3. CASE k \in 1..m
      <4>1. /\ k - 1 \in 0..(m + 1) /\ k - 1 # m + 1 /\ k \in 0..m /\ k # 0 /\ k # m + 1
        BY <1>2, <3>3
      <4>2. g[k - 1] = f[k - 1]
        BY <4>1
      <4>3. QED
        BY <2>2, <4>1, <4>2
    <3>4. QED
      BY <1>2, <3>1, <3>2, <3>3
  <2>4. g = h
    <3> g = [k \in 0..(m + 1) |-> g[k]] /\ h = [k \in 0..(m + 1) |-> h[k]]
      OBVIOUS
    <3> HIDE DEF g, h
    <3> QED
      BY <2>3
  <2>5. IsKept(s, c, m + 1, g)
    BY <2>4 DEF IsKept, Round
  <2>6. m + 1 \in 0..n
    BY <1>2
  <2> HIDE DEF g
  <2>7. QED
    BY <2>5, <2>6
<1>3. 0..n \subseteq good
  <2> HIDE DEF good
  <2>1. QED
    BY <1>1, <1>2, UpTo
<1>4. QED
  BY <1>3

(* std::remove and erase take c out and nothing else.                       *)
LEMMA WithoutTakesOut ==
  ASSUME NEW S, NEW s, Once(s, S), NEW c
  PROVE  Once(Without(s, c), S) /\ ToSet(Without(s, c)) = ToSet(s) \ {c}
<1> DEFINE n == Len(s)
           f == CHOOSE g : IsKept(s, c, n, g)
<1>0. /\ s \in Seq(S) /\ n \in Nat /\ DOMAIN s = 1..n
      /\ \A i, j \in 1..n : s[i] = s[j] => i = j
      /\ ToSet(s) = {s[i] : i \in 1..n}
  BY OnceIndices DEF ToSet
<1>1. Without(s, c) = f[n]
  BY DEF Without, IsKept
<1>2. IsKept(s, c, n, f)
  <2>1. \E g : IsKept(s, c, n, g)
    BY <1>0, KeptExists
  <2>2. QED
    BY <2>1, Zenon
<1> HIDE DEF f
<1>3. \A k \in 0..n : f[k] = IF k = 0 THEN <<>> ELSE
                             IF s[k] = c THEN f[k - 1] ELSE Append(f[k - 1], s[k])
  BY <1>2 DEF IsKept
<1> DEFINE Kept(v, k) == Once(v, S) /\ ToSet(v) = {s[i] : i \in 1..k} \ {c}
           good == {k \in 0..n : Kept(f[k], k)}
<1>4. 0 \in good
  <2>1. Once(<<>>, S) /\ ToSet(<<>>) = {}
    BY DEF Once, IsInjective, ToSet
  <2>2. f[0] = <<>> /\ {s[i] : i \in 1..0} = {} /\ 0 \in 0..n
    BY <1>0, <1>3
  <2>3. QED
    BY <2>1, <2>2
<1>5. ASSUME NEW m \in 0..(n - 1), m \in good PROVE m + 1 \in good
  <2> DEFINE v == f[m]
             k == m + 1
  <2>1. k \in 1..n /\ k \in 0..n /\ k - 1 = m /\ m \in Nat /\ 1..k = 1..m \cup {k}
    BY <1>0, <1>5
  <2>2. f[k] = IF s[k] = c THEN v ELSE Append(v, s[k])
    BY <1>3, <2>1
  <2>3. Once(v, S) /\ ToSet(v) = {s[i] : i \in 1..m} \ {c}
    BY <1>5
  <2>4. {s[i] : i \in 1..k} = {s[i] : i \in 1..m} \cup {s[k]}
    BY <2>1
  <2> HIDE DEF v, k
  <2>5. CASE s[k] = c
    BY <2>1, <2>2, <2>3, <2>4, <2>5
  <2>6. CASE s[k] # c
    <3> DEFINE w == Append(v, s[k])
    <3>1. /\ v \in Seq(S) /\ Len(v) \in Nat /\ s[k] \in S
          /\ \A i, j \in 1..Len(v) : v[i] = v[j] => i = j
          /\ \A x : x \in ToSet(v) <=> \E i \in 1..Len(v) : v[i] = x
      <4>1. s[k] \in S
        BY <1>0, <2>1
      <4>2. QED
        BY <2>3, <4>1, OnceIndices
    <3>2. /\ w \in Seq(S) /\ Len(w) = Len(v) + 1 /\ w[Len(v) + 1] = s[k]
          /\ \A i \in 1..Len(v) : w[i] = v[i]
      BY <3>1, AppendProperties
    <3>3. s[k] \notin ToSet(v)
      <4>1. \A i \in 1..m : i \in 1..n /\ i # k
        BY <1>0, <2>1 DEF k
      <4>2. \A i \in 1..m : s[i] # s[k]
        BY <1>0, <2>1, <4>1
      <4>3. QED
        BY <2>3, <4>2
    <3> HIDE DEF w
    <3>4. \A i \in 1..Len(w) : i \in 1..Len(v) \/ i = Len(v) + 1
      BY <3>1, <3>2
    <3>5. \A i, j \in 1..Len(w) : w[i] = w[j] => i = j
      BY <3>1, <3>2, <3>3, <3>4
    <3>6. DOMAIN w = 1..Len(w)
      BY <3>2
    <3>7. ToSet(w) = ToSet(v) \cup {s[k]}
      <4>1. \A x : x \in ToSet(w) <=> \E i \in 1..Len(w) : w[i] = x
        BY <3>6 DEF ToSet
      <4>2. 1..Len(w) = 1..Len(v) \cup {Len(v) + 1}
        BY <3>1, <3>2
      <4>3. QED
        BY <3>1, <3>2, <4>1, <4>2
    <3>8. Once(w, S)
      BY <3>2, <3>5, <3>6 DEF Once, IsInjective
    <3>9. f[k] = w
      BY <2>2, <2>6 DEF w
    <3>10. QED
      BY <2>1, <2>3, <2>4, <2>6, <3>7, <3>8, <3>9
  <2>7. QED
    BY <2>5, <2>6 DEF k
<1>6. 0..n \subseteq good
  <2> HIDE DEF good
  <2>1. QED
    BY <1>0, <1>4, <1>5, UpTo
<1>7. Kept(f[n], n)
  <2>1. n \in 0..n
    BY <1>0
  <2>2. n \in good
    <3> HIDE DEF good
    <3> QED
      BY <1>6, <2>1
  <2>3. QED
    BY <2>2
<1>8. QED
  BY <1>0, <1>1, <1>7

(* A new one at the end.                                                    *)
LEMMA AppendOnce ==
  ASSUME NEW S, NEW s, Once(s, S), NEW c \in S, c \notin ToSet(s)
  PROVE  Once(Append(s, c), S) /\ ToSet(Append(s, c)) = ToSet(s) \cup {c}
<1> DEFINE w == Append(s, c)
<1>0. /\ s \in Seq(S) /\ Len(s) \in Nat
      /\ \A i, j \in 1..Len(s) : s[i] = s[j] => i = j
      /\ \A x : x \in ToSet(s) <=> \E i \in 1..Len(s) : s[i] = x
  BY OnceIndices
<1>1. /\ w \in Seq(S) /\ Len(w) = Len(s) + 1 /\ w[Len(s) + 1] = c
      /\ \A i \in 1..Len(s) : w[i] = s[i]
  BY <1>0, AppendProperties
<1> HIDE DEF w
<1>2. DOMAIN w = 1..Len(w) /\ 1..Len(w) = 1..Len(s) \cup {Len(s) + 1}
  BY <1>0, <1>1
<1>3. \A i, j \in 1..Len(w) : w[i] = w[j] => i = j
  BY <1>0, <1>1, <1>2
<1>4. \A x : x \in ToSet(w) <=> \E i \in 1..Len(w) : w[i] = x
  BY <1>2 DEF ToSet
<1>5. ToSet(w) = ToSet(s) \cup {c}
  BY <1>0, <1>1, <1>2, <1>4
<1>6. QED
  BY <1>1, <1>2, <1>3, <1>5 DEF Once, IsInjective, w

(* Two with nothing in common, one after the other.                         *)
LEMMA ConcatOnce ==
  ASSUME NEW S, NEW T, S \cap T = {}, NEW s, Once(s, S), NEW t, Once(t, T)
  PROVE  Once(s \o t, S \cup T) /\ ToSet(s \o t) = ToSet(s) \cup ToSet(t)
<1> DEFINE w == s \o t
<1>0. /\ s \in Seq(S) /\ Len(s) \in Nat /\ DOMAIN s = 1..Len(s)
      /\ t \in Seq(T) /\ Len(t) \in Nat /\ DOMAIN t = 1..Len(t)
      /\ \A i, j \in 1..Len(s) : s[i] = s[j] => i = j
      /\ \A i, j \in 1..Len(t) : t[i] = t[j] => i = j
  BY OnceIndices
<1>1. s \in Seq(S \cup T) /\ t \in Seq(S \cup T)
  BY <1>0
<1>2. /\ w \in Seq(S \cup T) /\ Len(w) = Len(s) + Len(t)
      /\ \A i \in 1..Len(w) : w[i] = IF i <= Len(s) THEN s[i] ELSE t[i - Len(s)]
  BY <1>0, <1>1, ConcatProperties
<1> HIDE DEF w
<1>3. ASSUME NEW i \in 1..Len(w)
      PROVE  \/ i \in 1..Len(s) /\ w[i] = s[i] /\ w[i] \in S
             \/ \E k \in 1..Len(t) : i = Len(s) + k /\ w[i] = t[k] /\ w[i] \in T
  <2>1. CASE i <= Len(s)
    BY <1>0, <1>2, <2>1
  <2>2. CASE ~(i <= Len(s))
    <3>1. PICK k \in 1..Len(t) : i = Len(s) + k
      <4>1. i - Len(s) \in 1..Len(t) /\ i = Len(s) + (i - Len(s))
        BY <1>0, <1>2, <2>2
      <4>2. QED
        BY <4>1
    <3>2. i - Len(s) = k
      BY <1>0, <3>1
    <3>3. QED
      BY <1>0, <1>2, <2>2, <3>1, <3>2
  <2>3. QED
    BY <2>1, <2>2
<1>4. \A i, j \in 1..Len(w) : w[i] = w[j] => i = j
  BY <1>0, <1>3
<1>5. ASSUME NEW k \in 1..Len(t) PROVE Len(s) + k \in 1..Len(w) /\ w[Len(s) + k] = t[k]
  <2>1. PICK i : i = Len(s) + k
    OBVIOUS
  <2>2. i \in 1..Len(w) /\ ~(i <= Len(s)) /\ i - Len(s) = k
    BY <1>0, <1>2, <2>1
  <2>3. w[i] = t[k]
    BY <1>2, <2>2
  <2>4. QED
    BY <2>1, <2>2, <2>3
<1>6. ASSUME NEW k \in 1..Len(s) PROVE k \in 1..Len(w) /\ w[k] = s[k]
  <2>1. k \in 1..Len(w) /\ k <= Len(s)
    BY <1>0, <1>2
  <2>2. QED
    BY <1>2, <2>1
<1>7. DOMAIN w = 1..Len(w)
  BY <1>2
<1>8. ToSet(w) = ToSet(s) \cup ToSet(t)
  <2>1. \A x : x \in ToSet(w) <=> \E i \in 1..Len(w) : w[i] = x
    BY <1>7 DEF ToSet
  <2>2. \A x : x \in ToSet(s) <=> \E i \in 1..Len(s) : s[i] = x
    BY <1>0 DEF ToSet
  <2>3. \A x : x \in ToSet(t) <=> \E i \in 1..Len(t) : t[i] = x
    BY <1>0 DEF ToSet
  <2>4. ASSUME NEW x, x \in ToSet(w) PROVE x \in ToSet(s) \/ x \in ToSet(t)
    BY <1>3, <2>1, <2>2, <2>3, <2>4
  <2>5. ASSUME NEW x, x \in ToSet(s) \/ x \in ToSet(t) PROVE x \in ToSet(w)
    BY <1>5, <1>6, <2>1, <2>2, <2>3, <2>5
  <2>6. QED
    BY <2>4, <2>5
<1>9. QED
  BY <1>2, <1>4, <1>7, <1>8 DEF Once, IsInjective, w

(* The first one taken away.                                                *)
LEMMA TailOnce ==
  ASSUME NEW S, NEW s, Once(s, S), s # <<>>
  PROVE  /\ Head(s) \in S /\ Once(Tail(s), S)
         /\ ToSet(Tail(s)) = ToSet(s) \ {Head(s)} /\ Head(s) \in ToSet(s)
<1> DEFINE t == Tail(s)
<1>0. /\ s \in Seq(S) /\ Len(s) \in Nat /\ DOMAIN s = 1..Len(s)
      /\ \A i, j \in 1..Len(s) : s[i] = s[j] => i = j
  BY OnceIndices
<1>1. /\ t \in Seq(S) /\ Len(t) = Len(s) - 1 /\ Len(s) >= 1 /\ Head(s) = s[1] /\ 1 \in 1..Len(s)
      /\ \A i \in 1..Len(t) : t[i] = s[i + 1] /\ i + 1 \in 1..Len(s)
  BY <1>0
<1> HIDE DEF t
<1>2. DOMAIN t = 1..Len(t)
  BY <1>1
<1>3. \A i, j \in 1..Len(t) : t[i] = t[j] => i = j
  <2>1. \A i, j \in 1..Len(t) : i + 1 = j + 1 => i = j
    OBVIOUS
  <2>2. QED
    BY <1>0, <1>1, <2>1
<1>4. ToSet(t) = ToSet(s) \ {s[1]}
  <2>1. \A x : x \in ToSet(t) <=> \E i \in 1..Len(t) : t[i] = x
    BY <1>2 DEF ToSet
  <2>2. \A x : x \in ToSet(s) <=> \E i \in 1..Len(s) : s[i] = x
    BY <1>0 DEF ToSet
  <2>3. ASSUME NEW i \in 1..Len(s), i # 1 PROVE \E j \in 1..Len(t) : t[j] = s[i]
    <3>1. PICK j \in 1..Len(t) : i = j + 1
      <4>1. i - 1 \in 1..Len(t) /\ i = (i - 1) + 1
        BY <1>0, <1>1, <2>3
      <4>2. QED
        BY <4>1
    <3>2. QED
      BY <1>1, <3>1
  <2>4. \A i \in 1..Len(t) : i + 1 # 1
    OBVIOUS
  <2>5. \A i \in 1..Len(t) : t[i] # s[1]
    BY <1>0, <1>1, <2>4
  <2>6. ASSUME NEW x \in ToSet(t) PROVE x \in ToSet(s) \ {s[1]}
    BY <1>1, <2>1, <2>2, <2>5
  <2>7. ASSUME NEW x \in ToSet(s), x # s[1] PROVE x \in ToSet(t)
    BY <2>1, <2>2, <2>3, <2>7
  <2>8. QED
    BY <2>6, <2>7
<1>5. s[1] \in ToSet(s)
  BY <1>0, <1>1 DEF ToSet
<1>6. QED
  BY <1>0, <1>1, <1>2, <1>3, <1>4, <1>5 DEF Once, IsInjective, t

-----------------------------------------------------------------------------
(* Who hears what.                                                         *)

Frame == [at : {"idle", "flag", "cast", "send"}, left : Nat, id : Nat, snapshot : Seq(Receivers)]

(* A thread has a snapshot only while it sends, with nobody in it twice.    *)
FrameInv(f, count) ==
  /\ f \in Frame
  /\ f.at # "send" => f.snapshot = <<>>
  /\ f.at \in {"flag", "cast"} => f.left > 0
  /\ f.id <= count
  /\ Once(f.snapshot, Receivers)

(* Broadcast n is on its way to c in frame f, ...                           *)
Ahead(f, c, n) == f.id = n /\ c \in ToSet(f.snapshot)

(* ... and c is owed it.                                                    *)
Owed(c, n) ==
  n \in spans[c] \/ (since[c] # Away /\ since[c] < n /\ n <= broadcastCount)

RegistryInv ==
  /\ Once(clients, Clients) /\ Once(wsClients, Sockets)
  /\ broadcastCount \in Nat /\ emitNormalized \in BOOLEAN
  /\ since \in [Receivers -> Nat \cup {Away}]
  /\ \A c \in Receivers : since[c] # Away <=> c \in Registered
  /\ \A c \in Receivers : since[c] <= broadcastCount

ThreadInv ==
  /\ thread \in [Threads -> Frame]
  /\ \A t \in Threads : FrameInv(thread[t], broadcastCount)
  /\ \A t, u \in Threads : \A c, d \in Receivers : \A n \in Nat :
       Ahead(thread[t], c, n) /\ Ahead(thread[u], d, n) => t = u

(* What has been handed over or is on its way is what is owed.              *)
HearInv ==
  /\ got \in [Receivers -> SUBSET Nat] /\ spans \in [Receivers -> SUBSET Nat]
  /\ \A c \in Receivers : \A n \in spans[c] : 1 <= n /\ n <= broadcastCount
  /\ \A c \in Receivers : \A n \in Nat :
       /\ Owed(c, n) <=> n \in got[c] \/ \E t \in Threads : Ahead(thread[t], c, n)
       /\ ~(n \in got[c] /\ \E t \in Threads : Ahead(thread[t], c, n))

HubInv == RegistryInv /\ ThreadInv /\ HearInv

LEMMA RegistryFacts ==
  /\ Clients \cap Sockets = {} /\ Receivers = Clients \cup Sockets
  /\ Away = -1 /\ Away \notin Nat
  /\ Registered = ToSet(clients) \cup ToSet(wsClients)
BY HubAssumption DEF Receivers, Away, Registered

LEMMA NothingListed == \A S : Once(<<>>, S) /\ ToSet(<<>>) = {}
BY DEF Once, IsInjective, ToSet

LEMMA IdleFrame ==
  ASSUME NEW count \in Nat
  PROVE  /\ Idle \in Frame /\ FrameInv(Idle, count) /\ Idle.snapshot = <<>>
         /\ \A n \in Nat \ {0} : \A at \in {"flag", "cast"} :
              LET f == [Idle EXCEPT !.at = at, !.left = n]
              IN FrameInv(f, count) /\ f.snapshot = <<>>
<1>1. <<>> \in Seq(Receivers) /\ Once(<<>>, Receivers)
  BY NothingListed
<1>2. Idle \in Frame
  BY <1>1 DEF Idle, Frame
<1>3. ASSUME NEW n \in Nat \ {0}, NEW at \in {"flag", "cast"}
      PROVE  LET f == [Idle EXCEPT !.at = at, !.left = n]
             IN FrameInv(f, count) /\ f.snapshot = <<>>
  <2> DEFINE f == [Idle EXCEPT !.at = at, !.left = n]
  <2>1. f \in Frame
    BY <1>2 DEF Frame
  <2>2. f.at = at /\ f.left = n /\ f.id = 0 /\ f.snapshot = <<>>
    BY DEF Idle
  <2>3. at # "send" /\ n > 0 /\ 0 <= count
    OBVIOUS
  <2> HIDE DEF f
  <2>4. FrameInv(f, count)
    BY <1>1, <2>1, <2>2, <2>3 DEF FrameInv
  <2>5. QED
    BY <2>2, <2>4 DEF f
<1>4. /\ Idle.snapshot = <<>> /\ Idle.at = "idle" /\ Idle.id = 0 /\ 0 <= count
  BY DEF Idle
<1>5. FrameInv(Idle, count)
  BY <1>1, <1>2, <1>4 DEF FrameInv
<1>6. QED
  BY <1>2, <1>3, <1>4, <1>5

LEMMA InitHubInv == Init => HubInv
<1> SUFFICES ASSUME Init PROVE HubInv
  OBVIOUS
<1>1. RegistryInv
  BY RegistryFacts, NothingListed DEF Init, RegistryInv
<1>2. /\ \A t \in Threads : thread[t] = Idle
      /\ thread = [t \in Threads |-> Idle] /\ broadcastCount = 0
  BY DEF Init
<1>3. /\ \A t \in Threads : FrameInv(thread[t], broadcastCount)
      /\ thread \in [Threads -> Frame]
  BY <1>2, IdleFrame
<1>4. \A t \in Threads : \A c \in Receivers : \A n \in Nat : ~Ahead(thread[t], c, n)
  BY <1>2, NothingListed, IdleFrame DEF Ahead
<1>5. ThreadInv
  BY <1>2, <1>3, <1>4 DEF ThreadInv
<1>6. /\ got = [c \in Receivers |-> {}] /\ spans = [c \in Receivers |-> {}]
      /\ since = [c \in Receivers |-> Away]
  BY DEF Init
<1>7. HearInv
  BY <1>4, <1>6 DEF HearInv, Owed
<1>8. QED
  BY <1>1, <1>5, <1>7 DEF HubInv

(* The threads are where they were.                                         *)
LEMMA SameThreads ==
  ASSUME ThreadInv, UNCHANGED <<thread, broadcastCount>>
  PROVE  ThreadInv'
<1>1. \A t \in Threads : thread'[t] = thread[t]
  OBVIOUS
<1>2. \A t \in Threads : FrameInv(thread[t], broadcastCount)'
  BY DEF ThreadInv, FrameInv, Frame
<1>3. QED
  BY <1>2 DEF ThreadInv, Ahead

(* A thread whose snapshot is empty before and after does nothing of it.    *)
LEMMA SilentStep ==
  ASSUME HubInv, NEW t \in Threads, NEW f, FrameInv(f, broadcastCount),
         thread[t].snapshot = <<>>, f.snapshot = <<>>,
         thread' = [thread EXCEPT ![t] = f],
         UNCHANGED <<registry, broadcastCount, emitNormalized, got, since, spans>>
  PROVE  HubInv'
<1>1. /\ thread'[t] = f /\ thread' \in [Threads -> Frame]
      /\ \A u \in Threads : u # t => thread'[u] = thread[u]
  BY DEF HubInv, ThreadInv, FrameInv
<1>2. \A u \in Threads : \A c \in Receivers : \A n \in Nat :
        Ahead(thread'[u], c, n) <=> Ahead(thread[u], c, n)
  BY <1>1, NothingListed DEF Ahead
<1>3. \A u \in Threads : FrameInv(thread'[u], broadcastCount)
  BY <1>1 DEF HubInv, ThreadInv
<1>4. RegistryInv'
  BY DEF HubInv, RegistryInv, registry, Registered
<1>5. ThreadInv'
  <2>1. ThreadInv
    BY DEF HubInv
  <2>2. \A u, v \in Threads : \A c, d \in Receivers : \A n \in Nat :
          Ahead(thread'[u], c, n) /\ Ahead(thread'[v], d, n) => u = v
    BY <1>2, <2>1, Zenon DEF ThreadInv
  <2>3. \A u \in Threads : FrameInv(thread'[u], broadcastCount')
    BY <1>3
  <2>4. QED
    BY <1>1, <2>2, <2>3 DEF ThreadInv
<1>6. HearInv'
  <2>1. \A c \in Receivers : \A n \in Nat : Owed(c, n)' <=> Owed(c, n)
    BY DEF Owed
  <2>2. \A c \in Receivers : \A n \in Nat :
          (\E u \in Threads : Ahead(thread'[u], c, n)) <=> \E u \in Threads : Ahead(thread[u], c, n)
    BY <1>2
  <2>3. QED
    BY <2>1, <2>2 DEF HubInv, HearInv
<1>7. QED
  BY <1>4, <1>5, <1>6 DEF HubInv

LEMMA FrameFields ==
  ASSUME HubInv, NEW t \in Threads
  PROVE  /\ DOMAIN thread = Threads /\ broadcastCount \in Nat
         /\ FrameInv(thread[t], broadcastCount)
         /\ thread[t] \in Frame /\ thread[t].left \in Nat /\ thread[t].id \in Nat
BY DEF HubInv, ThreadInv, RegistryInv, FrameInv, Frame

(* Emit, Deliver, ReadFlag and Sent.                                        *)
LEMMA QuietHubInv ==
  ASSUME HubInv, NEW t \in Threads,
         \/ \E n \in 1..2 : Emit(t, n)
         \/ Sent(t)
         \/ t = Consumer /\ (ReadFlag \/ \E n \in 1..MaxBatch : Deliver(n))
  PROVE  HubInv'
<1>0. /\ FrameInv(thread[t], broadcastCount) /\ FrameInv(Idle, broadcastCount)
      /\ thread[t] \in Frame /\ Idle.snapshot = <<>> /\ broadcastCount \in Nat
  BY FrameFields, IdleFrame
<1>1. ASSUME NEW n \in Nat \ {0}, NEW at \in {"flag", "cast"}
      PROVE  /\ FrameInv([Idle EXCEPT !.at = at, !.left = n], broadcastCount)
             /\ [Idle EXCEPT !.at = at, !.left = n].snapshot = <<>>
  BY <1>0, IdleFrame
<1>2. CASE \E n \in 1..2 : Emit(t, n)
  <2>1. PICK n \in 1..2 : Emit(t, n)
    BY <1>2
  <2>2. n \in Nat \ {0}
    OBVIOUS
  <2>3. thread[t].snapshot = <<>>
    BY <1>0, <2>1 DEF Emit
  <2>4. thread' = [thread EXCEPT ![t] = [Idle EXCEPT !.at = "cast", !.left = n]]
        /\ UNCHANGED <<registry, broadcastCount, emitNormalized, got, since, spans>>
    BY <2>1 DEF Emit, history
  <2>5. QED
    BY <1>1, <2>2, <2>3, <2>4, SilentStep
<1>3. CASE Sent(t)
  <2>1. /\ thread[t].snapshot = <<>>
        /\ UNCHANGED <<registry, broadcastCount, emitNormalized, got, since, spans>>
        /\ thread' = [thread EXCEPT ![t] =
             IF thread[t].left = 0 THEN Idle
             ELSE [Idle EXCEPT !.at = "cast", !.left = thread[t].left]]
    BY <1>3 DEF Sent, history
  <2>2. CASE thread[t].left = 0
    BY <1>0, <2>1, <2>2, SilentStep
  <2>3. CASE thread[t].left # 0
    <3>1. thread[t].left \in Nat \ {0}
      BY <2>3, FrameFields
    <3>2. QED
      BY <1>1, <2>1, <2>3, <3>1, SilentStep
  <2>4. QED
    BY <2>2, <2>3
<1>4. CASE t = Consumer /\ ReadFlag
  <2> DEFINE g == [thread[t] EXCEPT !.at = "cast"]
  <2>1. /\ thread[t].at = "flag"
        /\ UNCHANGED <<registry, broadcastCount, emitNormalized, got, since, spans>>
        /\ thread' = [thread EXCEPT ![t] = IF emitNormalized THEN g ELSE Idle]
    BY <1>4 DEF ReadFlag, history
  <2>2. thread[t].snapshot = <<>>
    BY <1>0, <2>1 DEF FrameInv
  <2>3. FrameInv(g, broadcastCount) /\ g.snapshot = <<>>
    BY <1>0, <2>1, <2>2 DEF FrameInv, Frame
  <2> HIDE DEF g
  <2>4. QED
    BY <1>0, <2>1, <2>2, <2>3, SilentStep
<1>5. CASE t = Consumer /\ \E n \in 1..MaxBatch : Deliver(n)
  <2>1. PICK n \in 1..MaxBatch : Deliver(n)
    BY <1>5
  <2>2. n \in Nat \ {0}
    BY HubAssumption
  <2>3. thread[t].snapshot = <<>>
    BY <1>0, <1>5, <2>1 DEF Deliver
  <2>4. thread' = [thread EXCEPT ![t] = [Idle EXCEPT !.at = "flag", !.left = n]]
        /\ UNCHANGED <<registry, broadcastCount, emitNormalized, got, since, spans>>
    BY <1>5, <2>1 DEF Deliver
  <2>5. QED
    BY <1>1, <2>2, <2>3, <2>4, SilentStep
<1>6. QED
  BY <1>2, <1>3, <1>4, <1>5

(* The next broadcast is owed to those registered and on its way to them.   *)
LEMMA SnapshotHubInv ==
  ASSUME HubInv, NEW t \in Threads, Snapshot(t)
  PROVE  HubInv'
<1> DEFINE k == broadcastCount + 1
           f == [at |-> "send", left |-> thread[t].left - 1, id |-> k,
                 snapshot |-> clients \o wsClients]
<1>0. /\ DOMAIN thread = Threads /\ broadcastCount \in Nat
      /\ FrameInv(thread[t], broadcastCount) /\ thread[t].left \in Nat
      /\ RegistryInv /\ ThreadInv /\ HearInv
  BY FrameFields DEF HubInv
<1>1. /\ thread[t].at = "cast" /\ broadcastCount' = k /\ k \in Nat
      /\ thread' = [thread EXCEPT ![t] = f]
      /\ UNCHANGED <<registry, emitNormalized, got, since, spans>>
  BY <1>0 DEF Snapshot
<1>2. /\ Once(clients \o wsClients, Receivers)
      /\ ToSet(clients \o wsClients) = Registered
  <2>1. Once(clients, Clients) /\ Once(wsClients, Sockets) /\ Clients \cap Sockets = {}
    BY <1>0, RegistryFacts DEF RegistryInv
  <2>2. PICK p, q : p = clients /\ q = wsClients
    OBVIOUS
  <2>3. Once(p \o q, Clients \cup Sockets) /\ ToSet(p \o q) = ToSet(p) \cup ToSet(q)
    BY <2>1, <2>2, ConcatOnce
  <2>4. QED
    BY <2>2, <2>3, RegistryFacts
<1>3. FrameInv(f, k) /\ f.id = k /\ f.snapshot = clients \o wsClients
  <2>1. thread[t].left > 0
    BY <1>0, <1>1 DEF FrameInv
  <2>2. thread[t].left - 1 \in Nat
    BY <1>0, <2>1
  <2>3. k \in Nat /\ k <= k /\ clients \o wsClients \in Seq(Receivers)
    BY <1>1, <1>2 DEF Once
  <2> HIDE DEF k
  <2>4. QED
    BY <1>2, <2>2, <2>3 DEF FrameInv, Frame
<1> HIDE DEF f
<1>4. /\ thread'[t] = f /\ thread' \in [Threads -> Frame]
      /\ \A u \in Threads : u # t => thread'[u] = thread[u]
  BY <1>0, <1>1, <1>3 DEF ThreadInv, FrameInv
<1>5. RegistryInv'
  <2>1. \A c \in Receivers : since[c] \in Int
    BY <1>0, RegistryFacts DEF RegistryInv
  <2>2. \A c \in Receivers : since[c] <= k
    BY <1>0, <2>1 DEF RegistryInv
  <2> HIDE DEF k
  <2>3. QED
    BY <1>0, <1>1, <2>2 DEF RegistryInv, registry, Registered
<1>6. \A c \in Receivers : \A n \in Nat : Ahead(f, c, n) <=> n = k /\ c \in Registered
  BY <1>2, <1>3 DEF Ahead
<1>7. \A c \in Receivers : \A n \in Nat : ~Ahead(thread[t], c, n)
  <2>1. thread[t].snapshot = <<>>
    BY <1>0, <1>1 DEF FrameInv
  <2>2. QED
    BY <2>1, NothingListed DEF Ahead
<1>8. ASSUME NEW u \in Threads
      PROVE  FrameInv(thread[u], k) /\ thread[u].id # k
  <2>1. FrameInv(thread[u], broadcastCount) /\ thread[u].id \in Nat
    BY FrameFields
  <2>2. thread[u].id <= k /\ thread[u].id # k
    BY <1>0, <2>1 DEF FrameInv
  <2>3. QED
    BY <2>1, <2>2 DEF FrameInv
<1>9. ThreadInv'
  <2>1. \A u \in Threads : FrameInv(thread'[u], broadcastCount')
    BY <1>1, <1>3, <1>4, <1>8
  <2>2. ASSUME NEW u \in Threads, NEW v \in Threads, NEW c \in Receivers, NEW d \in Receivers,
               NEW n \in Nat, Ahead(thread'[u], c, n), Ahead(thread'[v], d, n)
        PROVE  u = v
    <3>1. \A x \in Threads : x # t => thread'[x].id # k
      BY <1>4, <1>8
    <3>2. thread'[t].id = k
      BY <1>3, <1>4
    <3>3. thread'[u].id = n /\ thread'[v].id = n
      BY <2>2 DEF Ahead
    <3>4. CASE u = t \/ v = t
      BY <3>1, <3>2, <3>3, <3>4
    <3>5. CASE u # t /\ v # t
      BY <1>0, <1>4, <2>2, <3>5 DEF ThreadInv
    <3>6. QED
      BY <3>4, <3>5
  <2>3. QED
    BY <1>4, <2>1, <2>2 DEF ThreadInv
<1>10. ASSUME NEW c \in Receivers, NEW n \in Nat
       PROVE  /\ (\E u \in Threads : Ahead(thread'[u], c, n))
                   <=> \/ \E u \in Threads : Ahead(thread[u], c, n)
                       \/ n = k /\ c \in Registered
              /\ Owed(c, n)' <=> Owed(c, n) \/ (n = k /\ c \in Registered)
              /\ Owed(c, k) = FALSE
  <2>1. (\E u \in Threads : Ahead(thread'[u], c, n))
                   <=> \/ \E u \in Threads : Ahead(thread[u], c, n)
                       \/ n = k /\ c \in Registered
    BY <1>4, <1>6, <1>7
  <2>2. /\ since[c] \in Nat \cup {Away} /\ since[c] <= broadcastCount
        /\ since[c] # Away <=> c \in Registered
    BY <1>0 DEF RegistryInv
  <2>3. since[c] \in Int /\ (since[c] # Away => since[c] \in Nat)
    BY <2>2, RegistryFacts
  <2>4. spans'[c] = spans[c] /\ since'[c] = since[c]
    BY <1>1
  <2>5. \A m \in spans[c] : m <= broadcastCount
    BY <1>0 DEF HearInv
  <2>6. n <= k <=> n <= broadcastCount \/ n = k
    BY <1>0
  <2>7. since[c] < k /\ ~(k <= broadcastCount) /\ k \notin spans[c]
    BY <1>0, <2>2, <2>3, <2>5
  <2>8. ~Owed(c, k)
    BY <2>7 DEF Owed
  <2> HIDE DEF k
  <2>9. Owed(c, n)' <=> Owed(c, n) \/ (n = k /\ c \in Registered)
    BY <1>1, <2>2, <2>4, <2>6, <2>7 DEF Owed
  <2>10. QED
    BY <2>1, <2>8, <2>9
<1>11. HearInv'
  <2>1. \A c \in Receivers : \A n \in spans'[c] : 1 <= n /\ n <= broadcastCount'
    BY <1>0, <1>1 DEF HearInv
  <2>2. ASSUME NEW c \in Receivers, NEW n \in Nat
        PROVE  /\ Owed(c, n)' <=> n \in got'[c] \/ \E u \in Threads : Ahead(thread'[u], c, n)
               /\ ~(n \in got'[c] /\ \E u \in Threads : Ahead(thread'[u], c, n))
    <3>1. /\ Owed(c, n) <=> n \in got[c] \/ \E u \in Threads : Ahead(thread[u], c, n)
          /\ ~(n \in got[c] /\ \E u \in Threads : Ahead(thread[u], c, n))
          /\ Owed(c, k) <=> k \in got[c] \/ \E u \in Threads : Ahead(thread[u], c, k)
      BY <1>0, <1>1 DEF HearInv
    <3>2. ~Owed(c, k)
      BY <1>10
    <3>3. got' = got
      BY <1>1
    <3> HIDE DEF k
    <3>4. QED
      BY <1>10, <3>1, <3>2, <3>3
  <2>3. QED
    BY <1>0, <1>1, <2>1, <2>2 DEF HearInv
<1>12. QED
  BY <1>5, <1>9, <1>11 DEF HubInv

(* The first of the snapshot is handed the broadcast.                       *)
LEMMA SendHubInv ==
  ASSUME HubInv, NEW t \in Threads, Send(t)
  PROVE  HubInv'
<1> DEFINE f == thread[t]
           g == [f EXCEPT !.snapshot = Tail(f.snapshot)]
           h == Head(f.snapshot)
<1>0. /\ DOMAIN thread = Threads /\ broadcastCount \in Nat
      /\ FrameInv(f, broadcastCount) /\ f \in Frame /\ f.id \in Nat
      /\ RegistryInv /\ ThreadInv /\ HearInv
  BY FrameFields DEF HubInv
<1>1. /\ f.at = "send" /\ f.snapshot # <<>>
      /\ got' = [got EXCEPT ![h] = @ \cup {f.id}]
      /\ thread' = [thread EXCEPT ![t] = g]
      /\ UNCHANGED <<registry, broadcastCount, emitNormalized, since, spans>>
  BY DEF Send, Rest
<1>2. /\ h \in Receivers /\ Once(Tail(f.snapshot), Receivers) /\ h \in ToSet(f.snapshot)
      /\ ToSet(Tail(f.snapshot)) = ToSet(f.snapshot) \ {h}
  BY <1>0, <1>1, TailOnce DEF FrameInv
<1>3. FrameInv(g, broadcastCount) /\ g.id = f.id /\ g.snapshot = Tail(f.snapshot)
  <2>1. Tail(f.snapshot) \in Seq(Receivers)
    BY <1>2 DEF Once
  <2>2. QED
    BY <1>0, <1>1, <1>2, <2>1 DEF FrameInv, Frame
<1>4. \A c \in Receivers : \A n \in Nat : Ahead(g, c, n) <=> Ahead(f, c, n) /\ c # h
  BY <1>2, <1>3 DEF Ahead
<1>5. Ahead(f, h, f.id)
  BY <1>2 DEF Ahead
<1> HIDE DEF g, h
<1>6. /\ thread'[t] = g /\ thread' \in [Threads -> Frame]
      /\ \A u \in Threads : u # t => thread'[u] = thread[u]
  BY <1>0, <1>1, <1>3 DEF ThreadInv, FrameInv
<1>7. RegistryInv'
  BY <1>0, <1>1 DEF RegistryInv, registry, Registered
<1>8. \A u \in Threads : \A c \in Receivers : \A n \in Nat :
        Ahead(thread'[u], c, n) => Ahead(thread[u], c, n)
  BY <1>4, <1>6
<1>9. ThreadInv'
  <2>1. \A u \in Threads : FrameInv(thread'[u], broadcastCount)
    BY <1>0, <1>3, <1>6 DEF ThreadInv
  <2>2. ASSUME NEW u \in Threads, NEW v \in Threads, NEW c \in Receivers, NEW d \in Receivers,
               NEW n \in Nat, Ahead(thread'[u], c, n), Ahead(thread'[v], d, n)
        PROVE  u = v
    <3>1. Ahead(thread[u], c, n) /\ Ahead(thread[v], d, n)
      BY <1>8, <2>2
    <3>2. QED
      BY <1>0, <3>1, Zenon DEF ThreadInv
  <2>3. QED
    BY <1>1, <1>6, <2>1, <2>2 DEF ThreadInv
<1>10. ASSUME NEW c \in Receivers, NEW n \in Nat
       PROVE  /\ (\E u \in Threads : Ahead(thread'[u], c, n))
                   <=> /\ \E u \in Threads : Ahead(thread[u], c, n)
                       /\ ~(c = h /\ n = f.id)
              /\ n \in got'[c] <=> n \in got[c] \/ (c = h /\ n = f.id)
              /\ c = h /\ n = f.id => \E u \in Threads : Ahead(thread[u], c, n)
  <2>1. CASE c = h /\ n = f.id
    <3>1. \A u \in Threads : Ahead(thread[u], c, n) => u = t
      BY <1>0, <1>2, <1>5, <2>1 DEF ThreadInv
    <3>2. \A u \in Threads : ~Ahead(thread'[u], c, n)
      BY <1>4, <1>6, <1>8, <2>1, <3>1
    <3>3. n \in got'[c]
      BY <1>0, <1>1, <2>1 DEF HearInv
    <3>4. QED
      BY <1>5, <2>1, <3>2, <3>3
  <2>2. CASE ~(c = h /\ n = f.id)
    <3>1. \A u \in Threads : Ahead(thread'[u], c, n) <=> Ahead(thread[u], c, n)
      <4>1. Ahead(g, c, n) <=> Ahead(f, c, n)
        BY <1>4, <2>2 DEF Ahead
      <4>2. QED
        BY <1>6, <4>1
    <3>2. n \in got'[c] <=> n \in got[c]
      BY <1>0, <1>1, <2>2 DEF HearInv
    <3>3. QED
      BY <2>2, <3>1, <3>2
  <2>3. QED
    BY <2>1, <2>2
<1>11. got' \in [Receivers -> SUBSET Nat]
  BY <1>0, <1>1, <1>2 DEF HearInv
<1>12. HearInv'
  <2>1. ASSUME NEW c \in Receivers, NEW n \in Nat
        PROVE  /\ Owed(c, n)' <=> n \in got'[c] \/ \E u \in Threads : Ahead(thread'[u], c, n)
               /\ ~(n \in got'[c] /\ \E u \in Threads : Ahead(thread'[u], c, n))
    <3>1. Owed(c, n)' <=> Owed(c, n)
      BY <1>1 DEF Owed
    <3>2. /\ Owed(c, n) <=> n \in got[c] \/ \E u \in Threads : Ahead(thread[u], c, n)
          /\ ~(n \in got[c] /\ \E u \in Threads : Ahead(thread[u], c, n))
      BY <1>0 DEF HearInv
    <3>3. QED
      BY <1>10, <3>1, <3>2
  <2>2. QED
    BY <1>0, <1>1, <1>11, <2>1 DEF HearInv
<1>13. QED
  BY <1>7, <1>9, <1>12 DEF HubInv

(* Registrations that begin owe nothing yet; those that end keep what they  *)
(* were owed.                                                               *)
LEMMA RegistryHubInv ==
  ASSUME HubInv, UNCHANGED <<broadcastCount, emitNormalized, thread, got>>,
         RegistryInv', spans' \in [Receivers -> SUBSET Nat],
         \A c \in Receivers :
           \/ spans'[c] = spans[c] /\ since'[c] = since[c]
           \/ spans'[c] = spans[c] /\ since[c] = Away /\ since'[c] = broadcastCount
           \/ /\ spans'[c] = spans[c] \cup (since[c] + 1)..broadcastCount
              /\ since[c] # Away /\ since'[c] = Away
  PROVE  HubInv'
<1>1. ThreadInv'
  BY SameThreads DEF HubInv
<1>2. ASSUME NEW c \in Receivers, NEW n \in Nat
      PROVE  /\ Owed(c, n)' <=> Owed(c, n)
             /\ n \in spans'[c] => 1 <= n /\ n <= broadcastCount
  <2>1. /\ broadcastCount \in Nat /\ since[c] \in Int
        /\ since[c] # Away => since[c] \in Nat
        /\ \A m \in spans[c] : 1 <= m /\ m <= broadcastCount
        /\ broadcastCount # Away /\ broadcastCount' = broadcastCount
    BY RegistryFacts DEF HubInv, RegistryInv, HearInv
  <2>2. CASE spans'[c] = spans[c] /\ since'[c] = since[c]
    BY <2>1, <2>2 DEF Owed
  <2>3. CASE spans'[c] = spans[c] /\ since[c] = Away /\ since'[c] = broadcastCount
    <3>1. ~(broadcastCount < n /\ n <= broadcastCount)
      BY <2>1
    <3>2. QED
      BY <2>1, <2>3, <3>1 DEF Owed
  <2>4. CASE /\ spans'[c] = spans[c] \cup (since[c] + 1)..broadcastCount
             /\ since[c] # Away /\ since'[c] = Away
    <3>1. n \in (since[c] + 1)..broadcastCount <=> since[c] < n /\ n <= broadcastCount
      BY <2>1, <2>4
    <3>2. since[c] < n => 1 <= n
      BY <2>1, <2>4
    <3>3. QED
      BY <2>1, <2>4, <3>1, <3>2 DEF Owed
  <2>5. QED
    BY <2>2, <2>3, <2>4
<1>3. HearInv'
  <2>1. /\ got' \in [Receivers -> SUBSET Nat]
        /\ \A c \in Receivers : \A n \in spans'[c] : 1 <= n /\ n <= broadcastCount'
    BY <1>2 DEF HubInv, HearInv
  <2>2. \A c \in Receivers : \A n \in Nat :
          /\ Owed(c, n)' <=> n \in got'[c] \/ \E t \in Threads : Ahead(thread'[t], c, n)
          /\ ~(n \in got'[c] /\ \E t \in Threads : Ahead(thread'[t], c, n))
    BY <1>2 DEF HubInv, HearInv
  <2>3. QED
    BY <2>1, <2>2 DEF HearInv
<1>4. QED
  BY <1>1, <1>3 DEF HubInv

LEMMA AddHubInv ==
  ASSUME HubInv, NEW c \in Receivers, add(c)
  PROVE  HubInv'
<1>0. /\ RegistryInv /\ HearInv /\ broadcastCount \in Nat
      /\ Once(clients, Clients) /\ Once(wsClients, Sockets)
      /\ c \notin ToSet(clients) /\ c \notin ToSet(wsClients)
  BY RegistryFacts DEF HubInv, RegistryInv, add
<1>1. /\ since' = [since EXCEPT ![c] = broadcastCount]
      /\ UNCHANGED <<broadcastCount, emitNormalized, thread, got, spans>>
      /\ c \notin Registered /\ since[c] = Away
  BY <1>0 DEF add, RegistryInv
<1>2. Once(clients, Clients)' /\ Once(wsClients, Sockets)' /\ Registered' = Registered \cup {c}
  <2>1. CASE c \in Clients
    <3>1. clients' = Append(clients, c) /\ wsClients' = wsClients
      BY <2>1 DEF add
    <3>2. QED
      BY <1>0, <2>1, <3>1, AppendOnce DEF Registered
  <2>2. CASE c \notin Clients
    <3>1. wsClients' = Append(wsClients, c) /\ clients' = clients /\ c \in Sockets
      BY <2>2, RegistryFacts DEF add
    <3>2. QED
      BY <1>0, <2>2, <3>1, AppendOnce DEF Registered
  <2>3. QED
    BY <2>1, <2>2
<1>3. RegistryInv'
  <2>1. /\ since' \in [Receivers -> Nat \cup {Away}]
        /\ \A d \in Receivers : since'[d] = IF d = c THEN broadcastCount ELSE since[d]
    BY <1>0, <1>1 DEF RegistryInv
  <2>2. broadcastCount # Away /\ broadcastCount <= broadcastCount
    BY <1>0, RegistryFacts
  <2>3. \A d \in Receivers : since'[d] # Away <=> d \in Registered'
    BY <1>0, <1>2, <2>1, <2>2 DEF RegistryInv
  <2>4. \A d \in Receivers : since'[d] <= broadcastCount'
    BY <1>0, <1>1, <2>1, <2>2 DEF RegistryInv
  <2>5. QED
    BY <1>0, <1>1, <1>2, <2>1, <2>3, <2>4 DEF RegistryInv
<1>4. QED
  <2>1. \A d \in Receivers :
          \/ spans'[d] = spans[d] /\ since'[d] = since[d]
          \/ spans'[d] = spans[d] /\ since[d] = Away /\ since'[d] = broadcastCount
    BY <1>0, <1>1 DEF RegistryInv
  <2>2. spans' \in [Receivers -> SUBSET Nat]
    BY <1>0, <1>1 DEF HearInv
  <2>3. QED
    BY <1>1, <1>3, <2>1, <2>2, RegistryHubInv

(* The registrations of gone end and nothing else.                          *)
LEMMA EndedHubInv ==
  ASSUME HubInv, NEW gone \in SUBSET Registered, Ended(gone),
         Once(clients, Clients)', Once(wsClients, Sockets)', Registered' = Registered \ gone
  PROVE  HubInv'
<1>0. /\ RegistryInv /\ HearInv /\ broadcastCount \in Nat
      /\ \A c \in Receivers : since[c] \in Nat \cup {Away}
  BY DEF HubInv, RegistryInv
<1>1. /\ UNCHANGED <<broadcastCount, emitNormalized, thread, got>>
      /\ since' = [c \in Receivers |-> IF c \in gone THEN Away ELSE since[c]]
      /\ \A c \in Receivers : spans'[c] = IF c \in gone
                                          THEN spans[c] \cup (since[c] + 1)..broadcastCount
                                          ELSE spans[c]
      /\ DOMAIN spans' = Receivers
      /\ spans' = [c \in Receivers |-> spans'[c]]
  BY DEF Ended
<1>2. \A c \in gone : c \in Receivers => since[c] # Away /\ since[c] \in Nat
  BY <1>0 DEF RegistryInv
<1>3. RegistryInv'
  <2>1. \A c \in Receivers : since'[c] <= broadcastCount'
    BY <1>0, <1>1, RegistryFacts DEF RegistryInv
  <2>2. \A c \in Receivers : since'[c] # Away <=> c \in Registered'
    BY <1>0, <1>1 DEF RegistryInv
  <2>3. QED
    BY <1>0, <1>1, <2>1, <2>2 DEF RegistryInv
<1>4. spans' \in [Receivers -> SUBSET Nat]
  <2>1. \A c \in Receivers : spans[c] \in SUBSET Nat
    BY <1>0 DEF HearInv
  <2>2. ASSUME NEW c \in Receivers PROVE spans'[c] \in SUBSET Nat
    <3>1. CASE c \in gone
      <4>1. since[c] \in Nat /\ (since[c] + 1)..broadcastCount \in SUBSET Nat
        BY <1>0, <1>2, <3>1
      <4>2. QED
        BY <1>1, <2>1, <3>1, <4>1
    <3>2. CASE c \notin gone
      BY <1>1, <2>1, <3>2
    <3>3. QED
      BY <3>1, <3>2
  <2>3. QED
    BY <1>1, <2>2
<1>5. \A c \in Receivers :
        \/ spans'[c] = spans[c] /\ since'[c] = since[c]
        \/ /\ spans'[c] = spans[c] \cup (since[c] + 1)..broadcastCount
           /\ since[c] # Away /\ since'[c] = Away
  BY <1>1, <1>2
<1>6. QED
  BY <1>1, <1>3, <1>4, <1>5, RegistryHubInv

LEMMA RemovalHubInv ==
  ASSUME HubInv, clearClients \/ \E c \in Receivers : remove(c)
  PROVE  HubInv'
<1>0. Once(clients, Clients) /\ Once(wsClients, Sockets)
  BY DEF HubInv, RegistryInv
<1>1. CASE clearClients
  <2>1. clients' = <<>> /\ wsClients' = <<>> /\ Ended(Registered)
    BY <1>1 DEF clearClients
  <2>2. Once(clients, Clients)' /\ Once(wsClients, Sockets)' /\ Registered' = Registered \ Registered
    BY <2>1, NothingListed DEF Registered
  <2>3. QED
    BY <2>1, <2>2, EndedHubInv
<1>2. ASSUME NEW c \in Receivers, remove(c) PROVE HubInv'
  <2>1. /\ clients' = Without(clients, c) /\ wsClients' = Without(wsClients, c)
        /\ Ended({c}) /\ {c} \in SUBSET Registered
    BY <1>2 DEF remove
  <2>2. /\ Once(clients, Clients)' /\ ToSet(clients') = ToSet(clients) \ {c}
        /\ Once(wsClients, Sockets)' /\ ToSet(wsClients') = ToSet(wsClients) \ {c}
    BY <1>0, <2>1, WithoutTakesOut
  <2>3. Registered' = Registered \ {c}
    BY <2>2 DEF Registered
  <2>4. QED
    BY <2>1, <2>2, <2>3, EndedHubInv
<1>3. QED
  BY <1>1, <1>2

LEMMA NextHubInv == HubInv /\ [Next]_vars => HubInv'
<1> SUFFICES ASSUME HubInv, [Next]_vars PROVE HubInv'
  OBVIOUS
<1>1. ASSUME NEW on \in BOOLEAN, Reload(on) PROVE HubInv'
  <2>1. /\ UNCHANGED <<clients, wsClients, broadcastCount, thread, got, since, spans>>
        /\ emitNormalized' \in BOOLEAN
    BY <1>1 DEF Reload, registry, history
  <2>2. RegistryInv'
    BY <2>1 DEF HubInv, RegistryInv, Registered
  <2>3. spans' \in [Receivers -> SUBSET Nat]
    BY <2>1 DEF HubInv, HearInv
  <2>4. ThreadInv'
    BY <2>1, SameThreads DEF HubInv
  <2>5. HearInv'
    BY <2>1 DEF HubInv, HearInv, Owed
  <2>6. QED
    BY <2>2, <2>4, <2>5 DEF HubInv
<1>2. CASE UNCHANGED vars
  <2>1. UNCHANGED <<clients, wsClients, broadcastCount, emitNormalized, thread, got, since, spans>>
    BY <1>2 DEF vars, registry, history
  <2>2. RegistryInv'
    BY <2>1 DEF HubInv, RegistryInv, Registered
  <2>3. ThreadInv'
    BY <2>1, SameThreads DEF HubInv
  <2>4. HearInv'
    BY <2>1 DEF HubInv, HearInv, Owed
  <2>5. QED
    BY <2>2, <2>3, <2>4 DEF HubInv
<1>3. Consumer \in Threads /\ Emitters \subseteq Threads
  BY DEF Threads
<1>4. QED
  BY <1>1, <1>2, <1>3, AddHubInv, RemovalHubInv, QuietHubInv, SnapshotHubInv, SendHubInv
  DEF Next, Proceed

LEMMA HubInvariance == Spec => []HubInv
BY InitHubInv, NextHubInv, PTL DEF Spec

(* The types; and a client is in a vector, once, exactly while registered.  *)
THEOREM RegisteredOnce == Spec => []TypeOK
<1>1. HubInv => TypeOK
  <2> SUFFICES ASSUME HubInv PROVE TypeOK
    OBVIOUS
  <2>1. thread \in [Threads -> Frame]
    BY DEF HubInv, ThreadInv
  <2>2. QED
    BY <2>1 DEF HubInv, RegistryInv, HearInv, TypeOK, Once, Frame
<1>2. QED
  BY <1>1, HubInvariance, PTL

(* Each client is handed exactly the broadcasts counted while it was        *)
(* registered, each once, whoever else registers, leaves or throws.         *)
THEOREM EachHearsItsOwn == Spec => []HearsItsBroadcasts
<1>1. HubInv => HearsItsBroadcasts
  <2> SUFFICES ASSUME HubInv, NEW c \in Receivers
               PROVE  /\ got[c] \cup Coming(c)
                           = spans[c] \cup (IF since[c] = Away THEN {}
                                            ELSE (since[c] + 1)..broadcastCount)
                      /\ got[c] \cap Coming(c) = {}
    BY DEF HearsItsBroadcasts
  <2>1. /\ broadcastCount \in Nat /\ since[c] \in Nat \cup {Away}
        /\ got[c] \in SUBSET Nat /\ spans[c] \in SUBSET Nat
    BY DEF HubInv, RegistryInv, HearInv
  <2>2. \A n : n \in Coming(c) <=> n \in Nat /\ \E t \in Threads : Ahead(thread[t], c, n)
    BY FrameFields DEF Coming, Ahead
  <2> DEFINE reg == IF since[c] = Away THEN {} ELSE (since[c] + 1)..broadcastCount
  <2>3. \A n : n \in reg <=> n \in Nat /\ since[c] # Away /\ since[c] < n /\ n <= broadcastCount
    BY <2>1, RegistryFacts
  <2>4. \A n \in Nat : /\ Owed(c, n) <=> n \in got[c] \/ n \in Coming(c)
                       /\ ~(n \in got[c] /\ n \in Coming(c))
    BY <2>2 DEF HubInv, HearInv
  <2>5. \A n \in Nat : Owed(c, n) <=> n \in spans[c] \/ n \in reg
    BY <2>3 DEF Owed
  <2>6. Coming(c) \in SUBSET Nat /\ reg \in SUBSET Nat
    BY <2>2, <2>3
  <2> HIDE DEF reg
  <2>7. got[c] \cup Coming(c) = spans[c] \cup reg /\ got[c] \cap Coming(c) = {}
    BY <2>1, <2>4, <2>5, <2>6
  <2>8. QED
    BY <2>7 DEF reg
<1>2. QED
  BY <1>1, HubInvariance, PTL

=============================================================================
