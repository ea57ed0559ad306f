----------------------------- MODULE SeqWindow -----------------------------
(***************************************************************************)
(* The sequence-number statistics of one device: the part of               *)
(* hlt::DeviceRecord that HealthTracker::push maintains from the sequence  *)
(* numbers (src/hlt/health.cc), and the figures toStats derives from it.   *)
(* Packet counts stand for the rates, which are these counts divided by    *)
(* "expected"; numbers do not reach the width of long long.  SeqStats and  *)
(* DeviceSim compose the tracker with two kinds of devices.                *)
(***************************************************************************)
EXTENDS Integers

CONSTANT MaxWindow  \* bound: index of the last statistics window

ASSUME SeqWindowAssumption == MaxWindow \in Nat

VARIABLES
  window,  \* recvAt / windowSize of a packet that arrives now
  rec      \* the tracker's statistics of the device

(* The statistics of a device whose numbers have not been seen yet.         *)
NoSeqYet ==
  [hasSeq |-> FALSE, lastSeq |-> -1, minSeq |-> 0, maxSeq |-> 0, received |-> 0,
   outOfOrder |-> 0, seqWrapped |-> FALSE, windowIndex |-> -1]

(* Bug: any number below the maximum is taken for a restart.                *)
looksLikeNewSessionAlways(seq, windowMax, windowMin) == seq < windowMax

(* Bug: a restart is never recognised.                                      *)
looksLikeNewSessionNever(seq, windowMax, windowMin) == FALSE

(* A number that falls back by more than half the span seen in the window   *)
(* (by more than 1 while the span is at most 2) is a restart or wrap-around.*)
looksLikeNewSession(seq, windowMax, windowMin) ==
  LET span == windowMax - windowMin + 1
      threshold == IF span > 2 THEN span \div 2 ELSE 1
  IN /\ seq < windowMax
     /\ windowMax - seq > threshold

(* Bug: the window starts at the number before.                             *)
OpenedAtLast(r, seq, wrapped) ==
  [r EXCEPT !.minSeq = r.lastSeq, !.maxSeq = seq, !.received = 0, !.outOfOrder = 0,
            !.seqWrapped = wrapped]

(* The window starts afresh at seq.                                         *)
Opened(r, seq, wrapped) ==
  [r EXCEPT !.minSeq = seq, !.maxSeq = seq, !.received = 0, !.outOfOrder = 0,
            !.seqWrapped = wrapped]

(* seq joins the figures of the running window.                             *)
Widened(r, seq) ==
  [r EXCEPT !.outOfOrder = IF seq < r.maxSeq THEN @ + 1 ELSE @,
            !.maxSeq = IF seq > @ THEN seq ELSE @,
            !.minSeq = IF seq < @ THEN seq ELSE @]

(* Bug: the figures of the old window are kept when the window changes.     *)
countSeqNoRoll(r, seq, w) ==
  LET counted == IF looksLikeNewSession(seq, r.maxSeq, r.minSeq)
                 THEN Opened(r, seq, TRUE)
                 ELSE Widened(r, seq)
  IN [counted EXCEPT !.received = @ + 1, !.lastSeq = seq, !.hasSeq = TRUE,
                     !.windowIndex = w]

(* Bug: a packet is counted before the window or session is reset.          *)
countSeqCountsFirst(r, seq, w) ==
  LET rolled  == IF r.windowIndex = w THEN r
                 ELSE [Opened(r, seq, FALSE) EXCEPT !.windowIndex = w]
      first   == [rolled EXCEPT !.received = @ + 1]
      counted == IF looksLikeNewSession(seq, first.maxSeq, first.minSeq)
                 THEN Opened(first, seq, TRUE)
                 ELSE Widened(first, seq)
  IN [counted EXCEPT !.lastSeq = seq, !.hasSeq = TRUE]

(* What push does with a packet that carries a number.                      *)
countSeq(r, seq, w) ==
  LET rolled  == IF r.windowIndex = w THEN r
                 ELSE [Opened(r, seq, FALSE) EXCEPT !.windowIndex = w]
      counted == IF looksLikeNewSession(seq, rolled.maxSeq, rolled.minSeq)
                 THEN Opened(rolled, seq, TRUE)
                 ELSE Widened(rolled, seq)
  IN [counted EXCEPT !.received = @ + 1, !.lastSeq = seq, !.hasSeq = TRUE]

(* What push does with a packet without a number.                           *)
countNoSeq(r) == [r EXCEPT !.hasSeq = FALSE]

(* toStats: expected is never below 1 here; the loss is clamped at 0 from   *)
(* below and at expected from above.                                        *)
expected(r) == r.maxSeq - r.minSeq + 1

lost(r) ==
  LET missing == expected(r) - r.received
  IN IF missing < 0 THEN 0 ELSE IF missing > expected(r) THEN expected(r) ELSE missing

=============================================================================
