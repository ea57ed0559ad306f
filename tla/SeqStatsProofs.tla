--------------------------- MODULE SeqStatsProofs ---------------------------
(***************************************************************************)
(* What SeqStats satisfies for every bound and every network it allows:    *)
(* the types, the consistency of the figures, that falling back never adds *)
(* loss, and that the figures are exact on a network that delays little.   *)
(* countSeq is the only operation that matters to them, so the work is in  *)
(* lemmas about it.  The last section shows of the simulator (DeviceSim)   *)
(* that the tracker measures what it injects.                              *)
(***************************************************************************)
EXTENDS SeqStats, DeviceSim, TLAPS

Stats == [hasSeq : BOOLEAN, lastSeq : -1..MaxSeq, minSeq : 0..MaxSeq, maxSeq : 0..MaxSeq,
          received : Nat, outOfOrder : Nat, seqWrapped : BOOLEAN, windowIndex : -1..MaxWindow]

(* The strengthening of FiguresConsistent: once a window is open it holds a *)
(* packet, and fewer out of order than received.                            *)
Figures(r) ==
  r.windowIndex >= 0 =>
    /\ r.minSeq <= r.lastSeq /\ r.lastSeq <= r.maxSeq
    /\ r.outOfOrder < r.received

-----------------------------------------------------------------------------
(* Lemmas about the operators of SeqWindow.                                *)

(* A window or session that opens at s: one number, nothing counted.        *)
LEMMA OpenedFields ==
  ASSUME NEW r \in Stats, NEW s \in 0..MaxSeq, NEW b \in BOOLEAN
  PROVE  LET o == Opened(r, s, b) IN
         /\ o \in Stats
         /\ o.minSeq = s /\ o.maxSeq = s
         /\ o.received = 0 /\ o.outOfOrder = 0
         /\ o.windowIndex = r.windowIndex /\ o.lastSeq = r.lastSeq
BY DEF Stats, Opened

(* A packet that joins a window.                                            *)
LEMMA WidenedFields ==
  ASSUME NEW r \in Stats, NEW s \in 0..MaxSeq
  PROVE  LET o == Widened(r, s) IN
         /\ o \in Stats
         /\ o.minSeq = IF s < r.minSeq THEN s ELSE r.minSeq
         /\ o.maxSeq = IF s > r.maxSeq THEN s ELSE r.maxSeq
         /\ o.received = r.received
         /\ o.outOfOrder = IF s < r.maxSeq THEN r.outOfOrder + 1 ELSE r.outOfOrder
         /\ o.windowIndex = r.windowIndex /\ o.lastSeq = r.lastSeq
<1> DEFINE o == [r EXCEPT !.outOfOrder = IF s < r.maxSeq THEN r.outOfOrder + 1 ELSE r.outOfOrder,
                          !.maxSeq = IF s > r.maxSeq THEN s ELSE r.maxSeq,
                          !.minSeq = IF s < r.minSeq THEN s ELSE r.minSeq]
<1>1. Widened(r, s) = o
  BY DEF Widened
<1>2. (IF s < r.maxSeq THEN r.outOfOrder + 1 ELSE r.outOfOrder) \in Nat
  BY DEF Stats
<1>3. QED
  BY <1>1, <1>2 DEF Stats

(* The record with its window changed to w when w is another one.           *)
Rolled(r, s, w) ==
  IF r.windowIndex = w THEN r ELSE [Opened(r, s, FALSE) EXCEPT !.windowIndex = w]

LEMMA RolledFields ==
  ASSUME NEW r \in Stats, NEW s \in 0..MaxSeq, NEW w \in 0..MaxWindow,
         MaxWindow \in Nat
  PROVE  LET o == Rolled(r, s, w) IN
         /\ o \in Stats
         /\ o.windowIndex = w
         /\ r.windowIndex = w => o = r
         /\ r.windowIndex # w => /\ o.minSeq = s /\ o.maxSeq = s
                                 /\ o.received = 0 /\ o.outOfOrder = 0
<1>1. CASE r.windowIndex = w
  BY <1>1 DEF Rolled
<1>2. CASE r.windowIndex # w
  <2> DEFINE o == Opened(r, s, FALSE)
  <2>1. o \in Stats /\ o.minSeq = s /\ o.maxSeq = s /\ o.received = 0 /\ o.outOfOrder = 0
    BY OpenedFields
  <2> HIDE DEF o
  <2>2. Rolled(r, s, w) = [o EXCEPT !.windowIndex = w]
    BY <1>2 DEF Rolled, o
  <2>3. QED
    BY <1>2, <2>1, <2>2 DEF Stats
<1>3. QED
  BY <1>1, <1>2

(* Counting the packet itself.                                              *)
LEMMA CountedFields ==
  ASSUME NEW t \in Stats, NEW s \in 0..MaxSeq
  PROVE  LET c == [t EXCEPT !.received = @ + 1, !.lastSeq = s, !.hasSeq = TRUE] IN
         /\ c \in Stats
         /\ c.windowIndex = t.windowIndex /\ c.lastSeq = s /\ c.received = t.received + 1
         /\ c.minSeq = t.minSeq /\ c.maxSeq = t.maxSeq /\ c.outOfOrder = t.outOfOrder
<1>1. t.received + 1 \in Nat /\ s \in -1..MaxSeq
  BY DEF Stats
<1>2. QED
  BY <1>1 DEF Stats

(* What counting a packet makes of the figures: it opens a session, or      *)
(* joins the window, which may have just begun.                             *)
LEMMA CountSeqFields ==
  ASSUME NEW r \in Stats, NEW s \in 0..MaxSeq, NEW w \in 0..MaxWindow,
         MaxWindow \in Nat
  PROVE  LET p == Rolled(r, s, w)
             c == countSeq(r, s, w)
             new == looksLikeNewSession(s, p.maxSeq, p.minSeq)
         IN
         /\ c \in Stats
         /\ c.windowIndex = w /\ c.lastSeq = s
         /\ new => /\ c.minSeq = s /\ c.maxSeq = s
                   /\ c.received = 1 /\ c.outOfOrder = 0
         /\ ~new => /\ c.minSeq = IF s < p.minSeq THEN s ELSE p.minSeq
                    /\ c.maxSeq = IF s > p.maxSeq THEN s ELSE p.maxSeq
                    /\ c.received = p.received + 1
                    /\ c.outOfOrder = IF s < p.maxSeq THEN p.outOfOrder + 1 ELSE p.outOfOrder
<1> DEFINE p == Rolled(r, s, w)
           new == looksLikeNewSession(s, p.maxSeq, p.minSeq)
           t == IF new THEN Opened(p, s, TRUE) ELSE Widened(p, s)
<1>1. p \in Stats /\ p.windowIndex = w
  BY RolledFields
<1>2. countSeq(r, s, w) = [t EXCEPT !.received = t.received + 1, !.lastSeq = s, !.hasSeq = TRUE]
  BY DEF countSeq, Rolled
<1> HIDE DEF p
<1>3. /\ t \in Stats
      /\ t.windowIndex = w
      /\ new => t.minSeq = s /\ t.maxSeq = s /\ t.received = 0 /\ t.outOfOrder = 0
      /\ ~new => /\ t.minSeq = IF s < p.minSeq THEN s ELSE p.minSeq
                 /\ t.maxSeq = IF s > p.maxSeq THEN s ELSE p.maxSeq
                 /\ t.received = p.received
                 /\ t.outOfOrder = IF s < p.maxSeq THEN p.outOfOrder + 1 ELSE p.outOfOrder
  <2> HIDE DEF new
  <2>1. CASE new
    BY <1>1, <2>1, OpenedFields
  <2>2. CASE ~new
    BY <1>1, <2>2, WidenedFields
  <2>3. QED
    BY <2>1, <2>2
<1> DEFINE c == [t EXCEPT !.received = t.received + 1, !.lastSeq = s, !.hasSeq = TRUE]
<1> HIDE DEF t, new
<1>4. /\ c \in Stats
      /\ c.windowIndex = w /\ c.lastSeq = s /\ c.received = t.received + 1
      /\ c.minSeq = t.minSeq /\ c.maxSeq = t.maxSeq /\ c.outOfOrder = t.outOfOrder
  <2>1. t \in Stats /\ t.windowIndex = w
    BY <1>3
  <2>2. QED
    BY <2>1, CountedFields
<1> HIDE DEF c
<1>5. CASE new
  <2>1. c.minSeq = s /\ c.maxSeq = s /\ c.received = 1 /\ c.outOfOrder = 0
    BY <1>3, <1>4, <1>5
  <2>2. QED
    BY <1>2, <1>4, <1>5, <2>1 DEF c, p, new
<1>6. CASE ~new
  <2>1. /\ c.minSeq = IF s < p.minSeq THEN s ELSE p.minSeq
        /\ c.maxSeq = IF s > p.maxSeq THEN s ELSE p.maxSeq
        /\ c.received = p.received + 1
        /\ c.outOfOrder = IF s < p.maxSeq THEN p.outOfOrder + 1 ELSE p.outOfOrder
    BY <1>3, <1>4, <1>6
  <2>2. QED
    BY <1>2, <1>4, <1>6, <2>1 DEF c, p, new
<1>7. QED
  BY <1>5, <1>6

(* Counting a packet keeps the figures consistent, whatever its number.     *)
LEMMA CountSeqFigures ==
  ASSUME NEW r \in Stats, NEW s \in 0..MaxSeq, NEW w \in 0..MaxWindow, Figures(r),
         MaxSeq \in Nat, MaxWindow \in Nat
  PROVE  Figures(countSeq(r, s, w))
<1> DEFINE p == Rolled(r, s, w)
           c == countSeq(r, s, w)
<1>1. /\ p \in Stats /\ p.minSeq <= p.maxSeq
      /\ \/ p.outOfOrder < p.received
         \/ p.outOfOrder = 0 /\ p.received = 0 /\ p.maxSeq = s
  <2>1. /\ p \in Stats
        /\ r.windowIndex = w => p = r
        /\ r.windowIndex # w => p.minSeq = s /\ p.maxSeq = s /\ p.received = 0 /\ p.outOfOrder = 0
    BY RolledFields
  <2> HIDE DEF p
  <2>2. QED
    BY <2>1 DEF Stats, Figures
<1>2. c \in Stats /\ c.lastSeq = s
  BY CountSeqFields
<1>3. CASE looksLikeNewSession(s, p.maxSeq, p.minSeq)
  <2>1. c.minSeq = s /\ c.maxSeq = s /\ c.received = 1 /\ c.outOfOrder = 0
    BY <1>3, CountSeqFields
  <2> HIDE DEF c, p
  <2>2. Figures(c)
    BY <1>2, <2>1 DEF Figures
  <2>3. QED
    BY <2>2 DEF c
<1>4. CASE ~looksLikeNewSession(s, p.maxSeq, p.minSeq)
  <2>1. /\ c.minSeq = IF s < p.minSeq THEN s ELSE p.minSeq
        /\ c.maxSeq = IF s > p.maxSeq THEN s ELSE p.maxSeq
        /\ c.received = p.received + 1
        /\ c.outOfOrder = IF s < p.maxSeq THEN p.outOfOrder + 1 ELSE p.outOfOrder
    BY <1>4, CountSeqFields
  <2> HIDE DEF c, p
  <2>2. Figures(c)
    BY <1>1, <1>2, <2>1 DEF Figures, Stats
  <2>3. QED
    BY <2>2 DEF c
<1>5. QED
  BY <1>3, <1>4

(* Consistent figures show a loss below the number of packets expected.     *)
LEMMA LossBelowExpected ==
  ASSUME NEW r \in Stats, Figures(r), r.windowIndex >= 0, MaxSeq \in Nat
  PROVE  lost(r) < expected(r)
BY DEF Stats, Figures, lost, expected

(* The two outcomes of countSeq.                                            *)
LEMMA SessionOpens ==
  ASSUME NEW r \in Stats, NEW s \in 0..MaxSeq, NEW w \in 0..MaxWindow, MaxWindow \in Nat,
         looksLikeNewSession(s, Rolled(r, s, w).maxSeq, Rolled(r, s, w).minSeq)
  PROVE  /\ countSeq(r, s, w).minSeq = s /\ countSeq(r, s, w).maxSeq = s
         /\ countSeq(r, s, w).received = 1
BY CountSeqFields

LEMMA SessionGoesOn ==
  ASSUME NEW r \in Stats, NEW s \in 0..MaxSeq, NEW w \in 0..MaxWindow, MaxWindow \in Nat,
         ~looksLikeNewSession(s, Rolled(r, s, w).maxSeq, Rolled(r, s, w).minSeq)
  PROVE  LET p == Rolled(r, s, w)
             c == countSeq(r, s, w)
         IN /\ c.minSeq = IF s < p.minSeq THEN s ELSE p.minSeq
            /\ c.maxSeq = IF s > p.maxSeq THEN s ELSE p.maxSeq
            /\ c.received = p.received + 1
BY CountSeqFields

(* A packet below the maximum of its window does not add loss: either it    *)
(* opens a session, which has none, or it is close enough to widen the span *)
(* by at most the one packet it is.                                         *)
LEMMA FallingBack ==
  ASSUME NEW r \in Stats, NEW s \in 0..MaxSeq, Figures(r),
         MaxSeq \in Nat, MaxWindow \in Nat,
         r.windowIndex >= 0, s < r.maxSeq
  PROVE  lost(countSeq(r, s, r.windowIndex)) <= lost(r)
<1> DEFINE c == countSeq(r, s, r.windowIndex)
<1>1. r.windowIndex \in 0..MaxWindow /\ Rolled(r, s, r.windowIndex) = r
  BY DEF Stats, Rolled
<1>2. c \in Stats
  BY <1>1, CountSeqFields
<1>3. CASE looksLikeNewSession(s, r.maxSeq, r.minSeq)
  <2>1. c.minSeq = s /\ c.maxSeq = s /\ c.received = 1
    BY <1>1, <1>3, SessionOpens
  <2>2. lost(c) = 0
    BY <2>1 DEF lost, expected
  <2>3. QED
    BY <2>2 DEF lost, expected, Stats, Figures
<1>4. CASE ~looksLikeNewSession(s, r.maxSeq, r.minSeq)
  <2>1. /\ c.maxSeq = r.maxSeq
        /\ c.minSeq = IF s < r.minSeq THEN s ELSE r.minSeq
        /\ c.received = r.received + 1
    <3> DEFINE p == Rolled(r, s, r.windowIndex)
    <3>1. p = r
      BY <1>1
    <3>2. /\ c.maxSeq = IF s > p.maxSeq THEN s ELSE p.maxSeq
          /\ c.minSeq = IF s < p.minSeq THEN s ELSE p.minSeq
          /\ c.received = p.received + 1
      <4>1. ~looksLikeNewSession(s, p.maxSeq, p.minSeq)
        BY <3>1, <1>4
      <4>2. QED
        BY <1>1, <4>1, SessionGoesOn
    <3> HIDE DEF p, c
    <3>3. ~(s > r.maxSeq)
      BY DEF Stats
    <3>4. QED
      BY <3>1, <3>2, <3>3
  <2>2. r.minSeq - s <= 1
    BY <1>4 DEF Stats, Figures, looksLikeNewSession
  <2> HIDE DEF c
  <2>3. lost(c) <= lost(r)
    BY <1>2, <2>1, <2>2 DEF Stats, Figures, lost, expected
  <2>4. QED
    BY <2>3 DEF c
<1>5. QED
  BY <1>3, <1>4

-----------------------------------------------------------------------------
(* The inductive invariant.                                                *)

IInv == TypeOK /\ Figures(rec)

LEMMA InitIInv == Init => IInv
<1> SUFFICES ASSUME Init PROVE IInv
  OBVIOUS
<1>1. blurred \in BOOLEAN
  BY Zenon DEF Init
<1>2. QED
  BY <1>1, SeqStatsAssumption, SeqWindowAssumption DEF Init, IInv, TypeOK, NoSeqYet, Figures

(* The part of a step that the packet counted makes.                        *)
LEMMA CountIInv ==
  ASSUME IInv, NEW s \in 0..MaxSeq, Count(s)
  PROVE  /\ rec' \in Stats /\ Figures(rec')
         /\ newest' \in -1..MaxSeq
         /\ heard' \subseteq 0..MaxSeq /\ arrivals' \in Nat /\ late' \in Nat
         /\ blurred' \in BOOLEAN
<1>1. rec \in Stats /\ window \in 0..MaxWindow
  BY DEF IInv, TypeOK, Stats
<1>2. rec' \in Stats /\ Figures(rec')
  BY <1>1, CountSeqFields, CountSeqFigures, SeqStatsAssumption, SeqWindowAssumption DEF IInv, Count
<1>3. blurred' \in BOOLEAN
  BY DEF IInv, TypeOK, Count
<1>4. QED
  BY <1>2, <1>3 DEF IInv, TypeOK, Count

LEMMA NextIInv == IInv /\ [Next]_vars => IInv'
<1> SUFFICES ASSUME IInv, [Next]_vars PROVE IInv'
  OBVIOUS
<1> USE SeqStatsAssumption, SeqWindowAssumption
<1>1. CASE Send
  BY <1>1 DEF IInv, TypeOK, Figures, Send, history
<1>2. CASE Restart
  BY <1>2 DEF IInv, TypeOK, Figures, Restart
<1>3. CASE Roll
  <2>1. blurred' \in BOOLEAN
    BY <1>3, Zenon DEF Roll
  <2>2. QED
    BY <1>3, <2>1 DEF IInv, TypeOK, Figures, Roll, network
<1>4. CASE ArriveUnnumbered
  BY <1>4 DEF IInv, TypeOK, Figures, ArriveUnnumbered, network, history, countNoSeq
<1>5. ASSUME NEW s \in 0..MaxSeq, Lose(s) PROVE IInv'
  BY <1>5 DEF IInv, TypeOK, Figures, Lose, history
<1>6. ASSUME NEW s \in 0..MaxSeq, Arrive(s) PROVE IInv'
  <2>1. Count(s)
    BY <1>6 DEF Arrive
  <2>2. rec' \in Stats /\ Figures(rec')
    BY <2>1, CountIInv
  <2>3. QED
    BY <1>6, <2>1, <2>2, CountIInv DEF IInv, TypeOK, Stats, Arrive, Count
<1>7. ASSUME NEW s \in 0..MaxSeq, ArriveTwice(s) PROVE IInv'
  <2>1. Count(s)
    BY <1>7 DEF ArriveTwice
  <2>2. rec' \in Stats /\ Figures(rec')
    BY <2>1, CountIInv
  <2>3. QED
    BY <1>7, <2>1, <2>2, CountIInv DEF IInv, TypeOK, Stats, ArriveTwice, Count
<1>8. CASE UNCHANGED vars
  BY <1>8 DEF IInv, TypeOK, Figures, vars, network, history
<1>9. QED
  BY <1>1, <1>2, <1>3, <1>4, <1>5, <1>6, <1>7, <1>8 DEF Next

LEMMA Invariance == Spec => []IInv
BY InitIInv, NextIInv, PTL DEF Spec

-----------------------------------------------------------------------------
(* Theorems.                                                               *)

(* The figures a device's record holds have their types.                    *)
THEOREM TypeCorrect == Spec => []TypeOK
BY Invariance, PTL DEF IInv

(* Whatever the network loses, repeats or delays, the loss rate shown of a  *)
(* device has a denominator and is below 1, and fewer packets are counted   *)
(* out of order than are counted at all.                                    *)
THEOREM FiguresAreConsistent == Spec => []FiguresConsistent
<1>1. IInv => FiguresConsistent
  <2> SUFFICES ASSUME IInv, rec.windowIndex >= 0 PROVE FiguresConsistent
    BY DEF FiguresConsistent
  <2>1. rec \in Stats
    BY DEF IInv, TypeOK, Stats
  <2>2. lost(rec) < expected(rec)
    BY <2>1, LossBelowExpected, SeqStatsAssumption, SeqWindowAssumption DEF IInv
  <2>3. QED
    BY <2>2 DEF IInv, Figures, FiguresConsistent
<1>2. QED
  BY <1>1, Invariance, PTL

(* No packet that falls back behind the highest number makes the loss of    *)
(* its window grow.                                                         *)
THEOREM FallingBackIsHarmless == Spec => FallingBackAddsNoLoss
<1> DEFINE A == (rec'.received # rec.received /\ rec'.windowIndex = rec.windowIndex
                   /\ rec'.lastSeq < rec.maxSeq) => lost(rec') <= lost(rec)
<1>1. IInv /\ [Next]_vars => [A]_vars
  <2> SUFFICES ASSUME IInv, Next, rec'.received # rec.received,
                      rec'.windowIndex = rec.windowIndex, rec'.lastSeq < rec.maxSeq
               PROVE  lost(rec') <= lost(rec)
    OBVIOUS
  <2>1. rec \in Stats
    BY DEF IInv, TypeOK, Stats
  <2>2. rec' # rec
    OBVIOUS
  <2>3. ~ArriveUnnumbered
    BY <2>1 DEF ArriveUnnumbered, countNoSeq, Stats
  <2>4. PICK s \in 0..MaxSeq : Count(s)
    BY <2>2, <2>3 DEF Next, Send, Restart, Roll, Lose, Arrive, ArriveTwice
  <2>5. rec' = countSeq(rec, s, window) /\ window \in 0..MaxWindow
    BY <2>4 DEF Count, IInv, TypeOK
  <2>6. rec'.windowIndex = window /\ rec'.lastSeq = s
    BY <2>1, <2>5, CountSeqFields, SeqStatsAssumption, SeqWindowAssumption
  <2>7. QED
    BY <2>1, <2>5, <2>6, FallingBack, SeqStatsAssumption, SeqWindowAssumption DEF IInv
<1>2. QED
  BY <1>1, Invariance, PTL DEF Spec, FallingBackAddsNoLoss

-----------------------------------------------------------------------------
(* The figures are exact when no packet arrives more than one number late.  *)

(* The tracker's span is that of the numbers heard, and its counts are those*)
(* of the packets that arrived.                                             *)
Span(r, H, n, l) ==
  /\ r.minSeq \in H /\ r.maxSeq \in H
  /\ \A h \in H : r.minSeq <= h /\ h <= r.maxSeq
  /\ r.received = n /\ r.outOfOrder = l

(* What has been heard belongs to the record's window, which is not ahead of*)
(* the present one; the newest number bounds what has been heard.           *)
ExactInv ==
  /\ IInv
  /\ rec.windowIndex <= window
  /\ heard = {} => arrivals = 0 /\ late = 0
  /\ heard # {} => rec.windowIndex = window
  /\ \A h \in heard : h <= newest
  /\ Current => Span(rec, heard, arrivals, late)

LEMMA CountExact ==
  ASSUME MaxLag <= 1, ExactInv, NEW s \in 0..MaxSeq, Count(s), IInv'
  PROVE  ExactInv'
<1> USE SeqStatsAssumption, SeqWindowAssumption
<1>1. /\ rec \in Stats /\ window \in 0..MaxWindow /\ newest \in -1..MaxSeq
      /\ heard \subseteq 0..MaxSeq /\ arrivals \in Nat /\ late \in Nat
  BY DEF ExactInv, IInv, TypeOK, Stats
<1>2. PICK p : p = Rolled(rec, s, window)
  OBVIOUS
<1>3. PICK c : c = countSeq(rec, s, window)
  OBVIOUS
<1>4. /\ p \in Stats
      /\ rec.windowIndex = window => p = rec
      /\ rec.windowIndex # window => /\ p.minSeq = s /\ p.maxSeq = s
                                     /\ p.received = 0 /\ p.outOfOrder = 0
  BY <1>1, <1>2, RolledFields
<1>5. /\ c.windowIndex = window
      /\ looksLikeNewSession(s, p.maxSeq, p.minSeq) =>
            c.minSeq = s /\ c.maxSeq = s /\ c.received = 1 /\ c.outOfOrder = 0
      /\ ~looksLikeNewSession(s, p.maxSeq, p.minSeq) =>
            /\ c.minSeq = IF s < p.minSeq THEN s ELSE p.minSeq
            /\ c.maxSeq = IF s > p.maxSeq THEN s ELSE p.maxSeq
            /\ c.received = p.received + 1
            /\ c.outOfOrder = IF s < p.maxSeq THEN p.outOfOrder + 1 ELSE p.outOfOrder
  BY <1>1, <1>2, <1>3, CountSeqFields
<1>6. /\ rec' = c /\ heard' = heard \cup {s} /\ arrivals' = arrivals + 1 /\ window' = window
      /\ late' = IF \E h \in heard : s < h THEN late + 1 ELSE late
      /\ newest' = IF s > newest THEN s ELSE newest
      /\ s + MaxLag >= newest
      /\ blurred' = (blurred \/ (/\ heard = {} /\ rec.windowIndex = window
                                 /\ ~looksLikeNewSession(s, rec.maxSeq, rec.minSeq)))
  BY <1>3 DEF Count
<1>7. \A h \in heard' : h <= newest'
  BY <1>1, <1>6 DEF ExactInv
<1>8. ASSUME Current' PROVE Span(c, heard', arrivals', late')
  <2>1. ~blurred
    BY <1>6, <1>8 DEF Current
  <2>2. CASE heard = {}
    <3>1. arrivals = 0 /\ late = 0 /\ heard' = {s} /\ arrivals' = 1 /\ late' = 0
      BY <1>6, <2>2 DEF ExactInv
    <3>2. c.minSeq = s /\ c.maxSeq = s /\ c.received = 1 /\ c.outOfOrder = 0
      <4>1. CASE looksLikeNewSession(s, p.maxSeq, p.minSeq)
        BY <1>5, <4>1
      <4>2. CASE ~looksLikeNewSession(s, p.maxSeq, p.minSeq)
        <5>1. rec.windowIndex # window
          BY <1>4, <1>6, <1>8, <2>2, <4>2 DEF Current
        <5>2. QED
          BY <1>4, <1>5, <4>2, <5>1
      <4>3. QED
        BY <4>1, <4>2
    <3>3. QED
      BY <3>1, <3>2 DEF Span
  <2>3. CASE heard # {}
    <3>1. p = rec /\ Span(rec, heard, arrivals, late)
      BY <1>4, <2>1, <2>3 DEF ExactInv, Current
    <3>2. /\ p.minSeq \in heard /\ p.maxSeq \in heard
          /\ \A h \in heard : p.minSeq <= h /\ h <= p.maxSeq
          /\ p.received = arrivals /\ p.outOfOrder = late
      BY <3>1 DEF Span
    <3> PICK lo, hi : lo = p.minSeq /\ hi = p.maxSeq
      OBVIOUS
    <3>a. /\ heard \subseteq Int /\ s \in Int /\ newest \in Int /\ MaxLag \in Int
          /\ lo \in heard /\ hi \in heard /\ lo \in Int /\ hi \in Int
          /\ \A h \in heard : lo <= h /\ h <= hi
      <4>1. heard \subseteq Int /\ s \in Int /\ newest \in Int /\ MaxLag \in Int
        BY <1>1
      <4>2. QED
        BY <3>2, <4>1
    <3>3. p.maxSeq - s <= 1
      <4>1. hi <= newest /\ s + MaxLag >= newest
        BY <1>6, <3>a DEF ExactInv
      <4>2. hi - s <= 1
        BY <3>a, <4>1
      <4>3. QED
        BY <4>2
    <3>4. ~looksLikeNewSession(s, p.maxSeq, p.minSeq)
      <4>1. p.maxSeq \in Int /\ p.minSeq \in Int
        BY <3>a
      <4>2. QED
        BY <3>3, <4>1 DEF looksLikeNewSession
    <3>5. (\E h \in heard : s < h) <=> s < p.maxSeq
      <4>1. (\E h \in heard : s < h) <=> s < hi
        BY <3>a
      <4>2. QED
        BY <4>1
    <3>6. c.received = arrivals' /\ c.outOfOrder = late'
      BY <1>5, <1>6, <3>2, <3>4, <3>5
    <3>7. /\ c.minSeq \in heard' /\ c.maxSeq \in heard'
          /\ \A h \in heard' : c.minSeq <= h /\ h <= c.maxSeq
      <4>1. c.minSeq = (IF s < lo THEN s ELSE lo) /\ c.maxSeq = (IF s > hi THEN s ELSE hi)
        BY <1>5, <3>4
      <4>2. PICK a, b : a = (IF s < lo THEN s ELSE lo) /\ b = (IF s > hi THEN s ELSE hi)
        OBVIOUS
      <4>3. a \in heard \cup {s} /\ b \in heard \cup {s}
            /\ \A h \in heard \cup {s} : a <= h /\ h <= b
        BY <3>a, <4>2
      <4>4. c.minSeq = a /\ c.maxSeq = b /\ heard' = heard \cup {s}
        BY <1>6, <4>1, <4>2
      <4>5. QED
        BY <4>3, <4>4
    <3>8. QED
      BY <3>6, <3>7 DEF Span
  <2>4. QED
    BY <2>2, <2>3
<1>9. rec'.windowIndex = window' /\ heard' # {}
  BY <1>5, <1>6
<1>10. QED
  BY <1>1, <1>6, <1>7, <1>8, <1>9 DEF ExactInv

LEMMA NextExact ==
  ASSUME MaxLag <= 1, ExactInv, [Next]_vars
  PROVE  ExactInv'
<1> USE SeqStatsAssumption, SeqWindowAssumption
<1>1. IInv' /\ IInv
  BY NextIInv DEF ExactInv
<1>2. rec \in Stats /\ window \in 0..MaxWindow
  BY <1>1 DEF IInv, TypeOK, Stats
<1>3. CASE Send \/ (\E s \in 0..MaxSeq : Lose(s)) \/ UNCHANGED vars
  <2>1. UNCHANGED <<rec, window, heard, arrivals, late, blurred, newest>>
    BY <1>3 DEF Send, Lose, vars, network, history
  <2>2. QED
    BY <1>1, <2>1 DEF ExactInv, Current
<1>4. CASE Restart
  <2>1. heard' = {} /\ arrivals' = 0 /\ late' = 0 /\ UNCHANGED <<rec, window>>
    BY <1>4 DEF Restart
  <2>2. QED
    BY <1>1, <2>1 DEF ExactInv, Current
<1>5. CASE Roll
  <2>1. /\ heard' = {} /\ arrivals' = 0 /\ late' = 0 /\ window' = window + 1
        /\ UNCHANGED <<rec, newest>>
    BY <1>5 DEF Roll, network
  <2>2. rec'.windowIndex <= window'
    BY <1>2, <2>1 DEF ExactInv, Stats
  <2>3. QED
    BY <1>1, <2>1, <2>2 DEF ExactInv, Current
<1>6. CASE ArriveUnnumbered
  <2>1. PICK r : r = countNoSeq(rec)
    OBVIOUS
  <2>2. /\ r.windowIndex = rec.windowIndex /\ r.minSeq = rec.minSeq /\ r.maxSeq = rec.maxSeq
        /\ r.received = rec.received /\ r.outOfOrder = rec.outOfOrder
    BY <1>2, <2>1 DEF countNoSeq, Stats
  <2>3. rec' = r /\ UNCHANGED <<newest, window, heard, arrivals, late, blurred>>
    BY <1>6, <2>1 DEF ArriveUnnumbered, network, history
  <2>4. Current' <=> Current
    BY <2>2, <2>3 DEF Current
  <2>5. Current => Span(rec', heard', arrivals', late')
    BY <2>2, <2>3 DEF ExactInv, Span
  <2>6. QED
    BY <1>1, <2>2, <2>3, <2>4, <2>5 DEF ExactInv
<1>7. ASSUME NEW s \in 0..MaxSeq, Arrive(s) \/ ArriveTwice(s) PROVE ExactInv'
  <2>1. Count(s)
    BY <1>7 DEF Arrive, ArriveTwice
  <2>2. QED
    BY <1>1, <2>1, CountExact
<1>8. QED
  BY <1>3, <1>4, <1>5, <1>6, <1>7 DEF Next

(* The tracker's loss is the contract's formula over the packets that       *)
(* arrived and its out-of-order count is theirs (docs/契约 §4.2), for any   *)
(* numbers, duplicates, restarts and windows, on a network that delays no   *)
(* packet by more than one number.  A packet two numbers late may be taken  *)
(* for a new session when the window is young (health.cc,                   *)
(* looksLikeNewSession): the bound on the lag is needed.                    *)
THEOREM FiguresAreExact ==
  ASSUME MaxLag <= 1
  PROVE  Spec => []FiguresExact
<1> USE SeqStatsAssumption, SeqWindowAssumption
<1>1. Init => ExactInv
  <2> SUFFICES ASSUME Init PROVE ExactInv
    OBVIOUS
  <2>1. IInv
    BY InitIInv
  <2>2. heard = {} /\ arrivals = 0 /\ late = 0 /\ window = 0 /\ rec = NoSeqYet
    BY DEF Init
  <2>3. rec.windowIndex <= window
    BY <2>2 DEF NoSeqYet
  <2>4. QED
    BY <2>1, <2>2, <2>3 DEF ExactInv, Current
<1>2. ExactInv /\ [Next]_vars => ExactInv'
  BY NextExact
<1>3. ExactInv => FiguresExact
  <2> SUFFICES ASSUME ExactInv, Current PROVE FiguresExact
    BY DEF FiguresExact
  <2>1. /\ rec \in Stats /\ heard \subseteq 0..MaxSeq /\ arrivals \in Nat
    BY DEF ExactInv, IInv, TypeOK, Stats
  <2>2. Span(rec, heard, arrivals, late)
    BY DEF ExactInv
  <2>3. PICK lo, hi : lo = rec.minSeq /\ hi = rec.maxSeq
    OBVIOUS
  <2>4. lo \in heard /\ hi \in heard /\ \A h \in heard : lo <= h /\ h <= hi
    BY <2>2, <2>3 DEF Span
  <2>5. PICK missing : missing = (hi - lo + 1) - arrivals
    OBVIOUS
  <2>6. lo \in Nat /\ hi \in Nat /\ lo <= hi
    BY <2>1, <2>4
  <2>7. expected(rec) = hi - lo + 1 /\ rec.received = arrivals
    BY <2>2, <2>3 DEF expected, Span
  <2>8. lost(rec) = IF missing > 0 THEN missing ELSE 0
    BY <2>1, <2>5, <2>6, <2>7 DEF lost
  <2>9. rec.outOfOrder = late
    BY <2>2 DEF Span
  <2>10. QED
    BY <2>4, <2>5, <2>8, <2>9 DEF FiguresExact
<1>4. QED
  BY <1>1, <1>2, <1>3, PTL DEF Spec

-----------------------------------------------------------------------------
(* The simulator.                                                          *)

Fields == {"hasSeq", "lastSeq", "minSeq", "maxSeq", "received", "outOfOrder", "seqWrapped",
           "windowIndex"}

(* The packet that opens a window, and one that joins it.                   *)
LEMMA CountFirst ==
  ASSUME NEW r, DOMAIN r = Fields, NEW s \in Int, NEW w, r.windowIndex # w
  PROVE  LET c == countSeq(r, s, w) IN
         /\ DOMAIN c = Fields /\ c.windowIndex = w
         /\ c.minSeq = s /\ c.maxSeq = s /\ c.received = 1 /\ c.outOfOrder = 0
<1>1. PICK p : p = [Opened(r, s, FALSE) EXCEPT !.windowIndex = w]
  OBVIOUS
<1>2. /\ DOMAIN p = Fields /\ p.windowIndex = w
      /\ p.minSeq = s /\ p.maxSeq = s /\ p.received = 0 /\ p.outOfOrder = 0
  BY <1>1 DEF Opened, Fields
<1>3. ~looksLikeNewSession(s, p.maxSeq, p.minSeq)
  BY <1>2 DEF looksLikeNewSession
<1>4. PICK t : t = Widened(p, s)
  OBVIOUS
<1>5. /\ DOMAIN t = Fields /\ t.windowIndex = w
      /\ t.minSeq = s /\ t.maxSeq = s /\ t.received = 0 /\ t.outOfOrder = 0
  BY <1>2, <1>4 DEF Widened, Fields
<1>6. countSeq(r, s, w) = [t EXCEPT !.received = @ + 1, !.lastSeq = s, !.hasSeq = TRUE]
  BY <1>1, <1>3, <1>4 DEF countSeq
<1>7. PICK c : c = countSeq(r, s, w)
  OBVIOUS
<1>8. /\ DOMAIN c = Fields /\ c.windowIndex = w
      /\ c.minSeq = s /\ c.maxSeq = s /\ c.received = 1 /\ c.outOfOrder = 0
  BY <1>5, <1>6, <1>7 DEF Fields
<1>9. QED
  BY <1>7, <1>8

LEMMA CountNext ==
  ASSUME NEW r, DOMAIN r = Fields, NEW s, NEW w, r.windowIndex = w,
         ~looksLikeNewSession(s, r.maxSeq, r.minSeq)
  PROVE  LET c == countSeq(r, s, w) IN
         /\ DOMAIN c = Fields /\ c.windowIndex = w
         /\ c.minSeq = IF s < r.minSeq THEN s ELSE r.minSeq
         /\ c.maxSeq = IF s > r.maxSeq THEN s ELSE r.maxSeq
         /\ c.received = r.received + 1
         /\ c.outOfOrder = IF s < r.maxSeq THEN r.outOfOrder + 1 ELSE r.outOfOrder
<1>1. PICK t : t = Widened(r, s)
  OBVIOUS
<1>2. /\ DOMAIN t = Fields /\ t.windowIndex = w
      /\ t.minSeq = IF s < r.minSeq THEN s ELSE r.minSeq
      /\ t.maxSeq = IF s > r.maxSeq THEN s ELSE r.maxSeq
      /\ t.received = r.received
      /\ t.outOfOrder = IF s < r.maxSeq THEN r.outOfOrder + 1 ELSE r.outOfOrder
  BY <1>1 DEF Widened, Fields
<1>3. countSeq(r, s, w) = [t EXCEPT !.received = @ + 1, !.lastSeq = s, !.hasSeq = TRUE]
  BY <1>1 DEF countSeq
<1>4. PICK c : c = countSeq(r, s, w)
  OBVIOUS
<1>5. /\ DOMAIN c = Fields /\ c.windowIndex = w
      /\ c.minSeq = t.minSeq /\ c.maxSeq = t.maxSeq
      /\ c.received = t.received + 1 /\ c.outOfOrder = t.outOfOrder
  BY <1>2, <1>3, <1>4 DEF Fields
<1>6. QED
  BY <1>2, <1>4, <1>5

(* Whatever the number, the record keeps its shape and gets the window.     *)
LEMMA CountAny ==
  ASSUME NEW r, DOMAIN r = Fields, NEW s \in Int, NEW w
  PROVE  DOMAIN countSeq(r, s, w) = Fields /\ countSeq(r, s, w).windowIndex = w
<1>1. CASE r.windowIndex # w
  BY <1>1, CountFirst
<1>2. CASE r.windowIndex = w /\ ~looksLikeNewSession(s, r.maxSeq, r.minSeq)
  BY <1>2, CountNext
<1>3. CASE r.windowIndex = w /\ looksLikeNewSession(s, r.maxSeq, r.minSeq)
  <2>1. PICK t : t = Opened(r, s, TRUE)
    OBVIOUS
  <2>2. DOMAIN t = Fields /\ t.windowIndex = w
    BY <1>3, <2>1 DEF Opened, Fields
  <2>3. countSeq(r, s, w) = [t EXCEPT !.received = @ + 1, !.lastSeq = s, !.hasSeq = TRUE]
    BY <1>3, <2>1 DEF countSeq
  <2>4. QED
    BY <2>2, <2>3 DEF Fields
<1>4. QED
  BY <1>1, <1>2, <1>3

(* In a regular window the record spans the numbers from the first packet's *)
(* to the last plain one's, and has counted what the simulator has sent.    *)
Measured(r, s, g, f, d, h) ==
  /\ r.minSeq = f /\ r.maxSeq = s - g
  /\ f \in Nat /\ d \in Nat /\ h \in Nat /\ f <= s - g
  /\ r.received = 1 + (s - f) - d /\ 1 <= r.received
  /\ r.outOfOrder = h

SimInv ==
  /\ seq \in Nat /\ gap \in Nat /\ dropped \in Nat /\ shuffled \in Nat /\ window \in Nat
  /\ opened \in [dropped : Nat, shuffled : Nat]
  /\ DOMAIN rec = Fields /\ rec.windowIndex \in Int /\ rec.windowIndex <= window
  /\ regular \in BOOLEAN
  /\ regular => phase # "restarted"
  /\ (regular /\ ~FirstOfWindow) =>
       Measured(rec, seq, gap, first, dropped - opened.dropped, shuffled - opened.shuffled)

LEMMA SimPlain == SimInv /\ SendPlain => SimInv'
<1> SUFFICES ASSUME SimInv, SendPlain PROVE SimInv'
  OBVIOUS
<1>1. /\ seq' = sendSeq + 1 /\ rec' = countSeq(rec, seq', window) /\ gap' = 0
      /\ IF rec.windowIndex # window
         THEN /\ first' = seq' /\ opened' = [dropped |-> dropped, shuffled |-> shuffled]
              /\ regular' = (phase = "running")
         ELSE UNCHANGED <<first, opened, regular>>
      /\ UNCHANGED <<phase, dropped, shuffled, window>>
  BY DEF SendPlain, Heard, FirstOfWindow
<1>2. PICK s : s = seq'
  OBVIOUS
<1>3. s \in Nat
  BY <1>1, <1>2 DEF SimInv, sendSeq
<1>4. DOMAIN rec' = Fields /\ rec'.windowIndex = window
  BY <1>1, <1>2, <1>3, CountAny DEF SimInv
<1>5. CASE rec.windowIndex # window
  <2>1. rec'.minSeq = s /\ rec'.maxSeq = s /\ rec'.received = 1 /\ rec'.outOfOrder = 0
    BY <1>1, <1>2, <1>3, <1>5, CountFirst DEF SimInv
  <2>2. /\ first' = s /\ opened'.dropped = dropped /\ opened'.shuffled = shuffled
        /\ opened' \in [dropped : Nat, shuffled : Nat]
        /\ regular' \in BOOLEAN
        /\ regular' => phase # "restarted"
    BY <1>1, <1>2, <1>5 DEF SimInv
  <2>3. Measured(rec', s, 0, s, 0, 0)
    BY <1>3, <2>1 DEF Measured
  <2>4. Measured(rec', seq', gap', first', dropped' - opened'.dropped,
                 shuffled' - opened'.shuffled)
    BY <1>1, <1>2, <2>2, <2>3 DEF SimInv
  <2>5. /\ seq' \in Nat /\ gap' \in Nat /\ dropped' \in Nat /\ shuffled' \in Nat
        /\ window' \in Nat /\ window \in Int /\ window' = window
        /\ phase' = phase
    BY <1>1, <1>2, <1>3 DEF SimInv
  <2>6. DOMAIN rec' = Fields /\ rec'.windowIndex \in Int /\ rec'.windowIndex <= window'
    BY <1>4, <2>5
  <2>7. QED
    BY <2>2, <2>4, <2>5, <2>6 DEF SimInv
<1>6. CASE rec.windowIndex = window
  <2>1. UNCHANGED <<first, opened, regular>>
    BY <1>1, <1>6
  <2>2. ASSUME regular
        PROVE  Measured(rec', s, 0, first, dropped - opened.dropped, shuffled - opened.shuffled)
    <3>1. s = seq + 1 /\ seq \in Nat /\ gap \in Nat
      BY <1>1, <1>2, <2>2 DEF SimInv, sendSeq
    <3>2. PICK f, d, h : f = first /\ d = dropped - opened.dropped
                         /\ h = shuffled - opened.shuffled
      OBVIOUS
    <3>3. Measured(rec, seq, gap, f, d, h)
      BY <1>6, <2>2, <3>2 DEF SimInv, FirstOfWindow
    <3>4. PICK lo, hi, n, x : lo = rec.minSeq /\ hi = rec.maxSeq /\ n = rec.received
                              /\ x = rec.outOfOrder
      OBVIOUS
    <3>5. /\ lo = f /\ hi = seq - gap /\ f \in Nat /\ d \in Nat /\ h \in Nat /\ f <= hi
          /\ n = 1 + (seq - f) - d /\ 1 <= n /\ x = h
      BY <3>3, <3>4 DEF Measured
    <3>6. ~(s < hi) /\ ~(s < lo) /\ s > hi
      BY <3>1, <3>5
    <3>7. ~looksLikeNewSession(s, rec.maxSeq, rec.minSeq)
      BY <3>4, <3>6 DEF looksLikeNewSession
    <3>8. /\ rec'.minSeq = (IF s < lo THEN s ELSE lo) /\ rec'.maxSeq = (IF s > hi THEN s ELSE hi)
          /\ rec'.received = n + 1 /\ rec'.outOfOrder = (IF s < hi THEN x + 1 ELSE x)
      BY <1>1, <1>2, <1>6, <3>4, <3>7, CountNext DEF SimInv
    <3>9. /\ rec'.minSeq = f /\ rec'.maxSeq = s - 0 /\ rec'.received = 1 + (s - f) - d
          /\ rec'.outOfOrder = h /\ f <= s - 0 /\ 1 <= rec'.received
      BY <3>1, <3>5, <3>6, <3>8
    <3>10. QED
      BY <3>2, <3>5, <3>9 DEF Measured
  <2>3. QED
    BY <1>1, <1>2, <1>3, <1>4, <2>1, <2>2 DEF SimInv
<1>7. QED
  BY <1>5, <1>6

LEMMA SimShuffled == SimInv /\ SendShuffled => SimInv'
<1> SUFFICES ASSUME SimInv, SendShuffled PROVE SimInv'
  OBVIOUS
<1>1. /\ sendSeq > 3
      /\ seq' = sendSeq + 1 /\ rec' = countSeq(rec, sendSeq - 3, window)
      /\ gap' = gap + 1 /\ shuffled' = shuffled + 1
      /\ regular' = Regular
      /\ UNCHANGED <<phase, dropped, window, first, opened>>
  BY DEF SendShuffled, Heard
<1>2. PICK q : q = sendSeq - 3
  OBVIOUS
<1>3. q \in Nat /\ seq' \in Nat /\ seq' = q + 4
  BY <1>1, <1>2 DEF SimInv, sendSeq
<1>4. DOMAIN rec' = Fields /\ rec'.windowIndex = window
  BY <1>1, <1>2, <1>3, CountAny DEF SimInv
<1>5. regular' \in BOOLEAN
  BY <1>1, Zenon DEF Regular
<1>6. ASSUME regular'
      PROVE  Measured(rec', seq', gap', first', dropped' - opened'.dropped,
                      shuffled' - opened'.shuffled)
  <2>1. /\ regular /\ rec.windowIndex = window /\ 3 - gap > 0
        /\ 2 * (3 - gap) <= (seq - gap) - first + 1
    BY <1>1, <1>6 DEF Regular, FirstOfWindow, Fall
  <2>2. PICK f, d, h : f = first /\ d = dropped - opened.dropped
                       /\ h = shuffled - opened.shuffled
    OBVIOUS
  <2>3. Measured(rec, seq, gap, f, d, h)
    BY <2>1, <2>2 DEF SimInv, FirstOfWindow
  <2>4. PICK lo, hi, n, x : lo = rec.minSeq /\ hi = rec.maxSeq /\ n = rec.received
                            /\ x = rec.outOfOrder
    OBVIOUS
  <2>5. /\ lo = f /\ hi = seq - gap /\ f \in Nat /\ d \in Nat /\ h \in Nat /\ f <= hi
        /\ n = 1 + (seq - f) - d /\ 1 <= n /\ x = h /\ seq \in Nat /\ gap \in Nat
    BY <2>3, <2>4 DEF Measured, SimInv
  <2>6. q = seq - 3
    BY <1>2, <2>1 DEF SimInv, sendSeq
  <2>7. PICK a : a = 3 - gap
    OBVIOUS
  <2>8. a \in Int /\ a > 0 /\ q = hi - a /\ 2 * a <= hi - lo + 1
    BY <2>1, <2>2, <2>5, <2>6, <2>7
  <2>9. q < hi /\ ~(q < lo) /\ ~(q > hi)
    BY <2>5, <2>8
  <2>10. ~looksLikeNewSession(q, rec.maxSeq, rec.minSeq)
    <3>1. PICK span : span = hi - lo + 1
      OBVIOUS
    <3>2. span \in Int /\ 2 * a <= span /\ hi - q = a
      BY <2>5, <2>8, <3>1
    <3>3. span > 2 => a <= span \div 2
      BY <2>8, <3>2
    <3>4. ~(span > 2) => a <= 1
      BY <2>8, <3>2
    <3>5. ~looksLikeNewSession(q, hi, lo)
      BY <2>5, <2>8, <3>1, <3>2, <3>3, <3>4 DEF looksLikeNewSession
    <3>6. QED
      BY <2>4, <3>5
  <2>11. /\ rec'.minSeq = (IF q < lo THEN q ELSE lo) /\ rec'.maxSeq = (IF q > hi THEN q ELSE hi)
         /\ rec'.received = n + 1 /\ rec'.outOfOrder = (IF q < hi THEN x + 1 ELSE x)
    BY <1>1, <1>2, <2>1, <2>4, <2>10, CountNext DEF SimInv
  <2>12. rec'.minSeq = f /\ rec'.maxSeq = hi /\ rec'.received = n + 1 /\ rec'.outOfOrder = h + 1
    BY <2>5, <2>9, <2>11
  <2>13. /\ seq' = seq + 1 /\ gap' = gap + 1 /\ first' = f
         /\ dropped' - opened'.dropped = d /\ shuffled' - opened'.shuffled = h + 1
    BY <1>1, <1>3, <2>2, <2>5, <2>6 DEF SimInv
  <2>14. Measured(rec', seq + 1, gap + 1, f, d, h + 1)
    BY <2>5, <2>12 DEF Measured
  <2>15. QED
    BY <2>13, <2>14
<1>7. regular' => phase' # "restarted"
  BY <1>1 DEF SimInv, Regular
<1>8. QED
  BY <1>1, <1>3, <1>4, <1>5, <1>6, <1>7 DEF SimInv

LEMMA SimOther ==
  SimInv /\ (Stop \/ SimRestart \/ SimRoll \/ Skip \/ Drop
               \/ UNCHANGED simVars)
    => SimInv'
<1> SUFFICES ASSUME SimInv PROVE
      /\ Stop \/ Skip \/ UNCHANGED simVars => SimInv'
      /\ SimRestart => SimInv'
      /\ SimRoll => SimInv'
      /\ Drop => SimInv'
  OBVIOUS
<1>1. ASSUME Stop \/ Skip \/ UNCHANGED simVars PROVE SimInv'
  <2>1. /\ UNCHANGED <<seq, gap, dropped, shuffled, window, opened, rec, regular, first>>
        /\ phase' # "restarted" \/ phase' = phase
    BY <1>1 DEF Stop, Skip, simVars, loop, simHistory
  <2>2. QED
    BY <2>1 DEF SimInv, FirstOfWindow
<1>2. ASSUME SimRestart PROVE SimInv'
  <2>1. /\ UNCHANGED <<seq, gap, dropped, shuffled, window, opened, rec>> /\ regular' = FALSE
    BY <1>2 DEF SimRestart
  <2>2. QED
    BY <2>1 DEF SimInv
<1>3. ASSUME SimRoll PROVE SimInv'
  <2>1. /\ UNCHANGED <<seq, gap, dropped, shuffled, opened, rec, regular, phase>>
        /\ window' = window + 1
    BY <1>3 DEF SimRoll, loop, simHistory
  <2>2. rec'.windowIndex # window' /\ rec'.windowIndex <= window' /\ window' \in Nat
    BY <2>1 DEF SimInv
  <2>3. QED
    BY <2>1, <2>2 DEF SimInv, FirstOfWindow
<1>4. ASSUME Drop PROVE SimInv'
  <2>1. /\ seq' = sendSeq + 1 /\ dropped' = dropped + 1 /\ gap' = gap + 1
        /\ UNCHANGED <<phase, shuffled, window, rec, first, opened, regular>>
    BY <1>4 DEF Drop
  <2>2. seq' \in Nat /\ dropped' \in Nat /\ gap' \in Nat
    BY <2>1 DEF SimInv, sendSeq
  <2>3. ASSUME regular, ~FirstOfWindow
        PROVE  Measured(rec', seq', gap', first', dropped' - opened'.dropped,
                        shuffled' - opened'.shuffled)
    <3>1. seq' = seq + 1
      BY <2>1, <2>3 DEF SimInv, sendSeq
    <3>2. PICK d, h : d = dropped - opened.dropped /\ h = shuffled - opened.shuffled
      OBVIOUS
    <3>3. Measured(rec, seq, gap, first, d, h)
      BY <2>3, <3>2 DEF SimInv
    <3>4. seq \in Nat /\ gap \in Nat
      BY DEF SimInv
    <3>5. Measured(rec, seq + 1, gap + 1, first, d + 1, h)
      BY <3>3, <3>4 DEF Measured
    <3>6. dropped' - opened'.dropped = d + 1 /\ shuffled' - opened'.shuffled = h
      BY <2>1, <3>2 DEF SimInv
    <3>7. QED
      BY <2>1, <3>1, <3>5, <3>6
  <2>4. QED
    BY <2>1, <2>2, <2>3 DEF SimInv, FirstOfWindow
<1>5. QED
  BY <1>1, <1>2, <1>3, <1>4

(* The tracker measures what the simulator injects (docs/契约 section 10):  *)
(* in a regular window it counts the shuffled packets out of order and the  *)
(* dropped ones lost, for any number of packets, losses and shuffles, and   *)
(* wherever the windows change.                                             *)
THEOREM SimulatorIsMeasured == SimSpec => []InjectedIsMeasured
<1>1. SimInit => SimInv
  <2> SUFFICES ASSUME SimInit PROVE SimInv
    OBVIOUS
  <2>1. /\ seq = 0 /\ gap = 0 /\ dropped = 0 /\ shuffled = 0 /\ window = 0 /\ regular = FALSE
        /\ opened = [dropped |-> 0, shuffled |-> 0] /\ rec = NoSeqYet
    BY DEF SimInit, NoSeqYet
  <2>2. DOMAIN rec = Fields /\ rec.windowIndex = -1
    BY <2>1 DEF NoSeqYet, Fields
  <2>3. opened \in [dropped : Nat, shuffled : Nat]
    BY <2>1
  <2>4. rec.windowIndex \in Int /\ rec.windowIndex <= window
    BY <2>1, <2>2
  <2>5. regular \in BOOLEAN /\ ~regular
    BY <2>1
  <2>6. QED
    BY <2>1, <2>2, <2>3, <2>4, <2>5 DEF SimInv
<1>2. SimInv /\ [SimNext]_simVars => SimInv'
  BY SimPlain, SimShuffled, SimOther DEF SimNext
<1>3. SimInv => InjectedIsMeasured
  <2> SUFFICES ASSUME SimInv, regular, ~FirstOfWindow
               PROVE  /\ rec.outOfOrder = shuffled - opened.shuffled
                      /\ lost(rec) <= dropped - opened.dropped
                      /\ gap = 0 => lost(rec) = dropped - opened.dropped
    BY DEF InjectedIsMeasured, lost, expected
  <2>1. PICK d, h : d = dropped - opened.dropped /\ h = shuffled - opened.shuffled
    OBVIOUS
  <2>2. Measured(rec, seq, gap, first, d, h) /\ seq \in Nat /\ gap \in Nat
    BY <2>1 DEF SimInv
  <2>3. PICK e, n : e = expected(rec) /\ n = rec.received
    OBVIOUS
  <2>4. /\ e = (seq - gap) - first + 1 /\ n = 1 + (seq - first) - d /\ 1 <= n /\ rec.outOfOrder = h
        /\ first \in Nat /\ d \in Nat /\ first <= seq - gap
    BY <2>2, <2>3 DEF Measured, expected
  <2>5. e - n = d - gap /\ e \in Nat
    BY <2>2, <2>4
  <2>6. lost(rec) = IF e - n < 0 THEN 0 ELSE IF e - n > e THEN e ELSE e - n
    BY <2>3 DEF lost
  <2>7. PICK x : x = e - n
    OBVIOUS
  <2>8. x = d - gap /\ d \in Nat /\ gap \in Nat /\ e \in Nat /\ n \in Int
    BY <2>2, <2>4, <2>5, <2>7
  <2>9. PICK l : l = lost(rec)
    OBVIOUS
  <2>10. l = IF x < 0 THEN 0 ELSE IF x > e THEN e ELSE x
    BY <2>6, <2>7, <2>9
  <2>11. gap = 0 => x <= e
    BY <2>2, <2>4, <2>5, <2>7
  <2>12. l <= d /\ (gap = 0 => l = d)
    BY <2>8, <2>10, <2>11
  <2>13. QED
    BY <2>1, <2>4, <2>9, <2>12
<1>4. QED
  BY <1>1, <1>2, <1>3, PTL DEF SimSpec

=============================================================================
