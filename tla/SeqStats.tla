------------------------------ MODULE SeqStats ------------------------------
(***************************************************************************)
(* One numbered device, the network between it and the gateway, and the    *)
(* statistics HealthTracker keeps of it.  Packets are lost, overtake one   *)
(* another and arrive twice; the device restarts with number 0; the        *)
(* statistics window changes with time.                                    *)
(***************************************************************************)
EXTENDS SeqWindow

CONSTANTS
  MaxSeq,        \* bound: highest number the device sends
  MaxLag,        \* how far behind the newest arrived number a packet may arrive
  MaxDuplicates, \* bound: packets the network delivers a second time
  MaxRestarts    \* bound: restarts of the device

ASSUME SeqStatsAssumption ==
  /\ MaxSeq \in Nat /\ MaxLag \in Nat
  /\ MaxDuplicates \in Nat /\ MaxRestarts \in Nat

VARIABLES
  next,          \* the device's next number
  flying,        \* numbers sent that may still arrive
  newest,        \* highest number arrived since the device's restart, -1 = none
  restarts, duplicates,
  heard,         \* history: distinct numbers arrived in this window since the restart
  arrivals,      \* history: packets arrived in this window since the restart
  late,          \* history: those of them below a number that had arrived before
  blurred        \* history: a restart in this window could not be told from a late packet

network == <<next, flying, newest, restarts, duplicates>>
history == <<heard, arrivals, late, blurred>>
vars == <<network, window, rec, history>>

Init ==
  /\ next = 0
  /\ flying = {}
  /\ newest = -1
  /\ restarts = 0 /\ duplicates = 0
  /\ window = 0
  /\ rec = NoSeqYet
  /\ heard = {} /\ arrivals = 0 /\ late = 0 /\ blurred = FALSE

-----------------------------------------------------------------------------

Send ==
  /\ next <= MaxSeq
  /\ flying' = flying \cup {next}
  /\ next' = next + 1
  /\ UNCHANGED <<newest, restarts, duplicates, window, rec, history>>

Lose(s) ==
  /\ s \in flying
  /\ flying' = flying \ {s}
  /\ UNCHANGED <<next, newest, restarts, duplicates, window, rec, history>>

(* The device restarts; what it had sent is lost: a reboot outlasts the     *)
(* network.                                                                 *)
Restart ==
  /\ restarts < MaxRestarts
  /\ restarts' = restarts + 1
  /\ next' = 0
  /\ flying' = {}
  /\ newest' = -1
  /\ heard' = {} /\ arrivals' = 0 /\ late' = 0
  /\ UNCHANGED <<duplicates, window, rec, blurred>>

(* The window the next packet falls into changes; the tracker only sees it  *)
(* when that packet comes.                                                  *)
Roll ==
  /\ window < MaxWindow
  /\ window' = window + 1
  /\ heard' = {} /\ arrivals' = 0 /\ late' = 0 /\ blurred' = FALSE
  /\ UNCHANGED <<network, rec>>

(* push() gets a packet with number s.                                      *)
Count(s) ==
  /\ s \in flying
  /\ s + MaxLag >= newest
  /\ rec' = countSeq(rec, s, window)
  /\ newest' = IF s > newest THEN s ELSE newest
  /\ heard' = heard \cup {s}
  /\ arrivals' = arrivals + 1
  /\ late' = IF \E h \in heard : s < h THEN late + 1 ELSE late
  /\ blurred' = (blurred \/ (/\ heard = {} /\ rec.windowIndex = window
                             /\ ~looksLikeNewSession(s, rec.maxSeq, rec.minSeq)))
  /\ UNCHANGED <<next, restarts, window>>

Arrive(s) ==
  /\ Count(s)
  /\ flying' = flying \ {s}
  /\ UNCHANGED duplicates

(* The packet arrives and a copy of it is still under way.                  *)
ArriveTwice(s) ==
  /\ duplicates < MaxDuplicates
  /\ Count(s)
  /\ duplicates' = duplicates + 1
  /\ UNCHANGED flying

(* push() gets a packet of the device that carries no number.               *)
ArriveUnnumbered ==
  /\ rec' = countNoSeq(rec)
  /\ UNCHANGED <<network, window, history>>

Next ==
  \/ Send
  \/ Restart
  \/ Roll
  \/ ArriveUnnumbered
  \/ \E s \in 0..MaxSeq : Lose(s) \/ Arrive(s) \/ ArriveTwice(s)

Spec == Init /\ [][Next]_vars

-----------------------------------------------------------------------------
(* Properties.                                                             *)

(* The types of the network, the record and the history.                   *)
TypeOK ==
  /\ next \in 0..(MaxSeq + 1) /\ flying \subseteq 0..MaxSeq /\ newest \in -1..MaxSeq
  /\ window \in 0..MaxWindow
  /\ rec \in [hasSeq : BOOLEAN, lastSeq : -1..MaxSeq, minSeq : 0..MaxSeq, maxSeq : 0..MaxSeq,
              received : Nat, outOfOrder : Nat, seqWrapped : BOOLEAN,
              windowIndex : -1..MaxWindow]
  /\ heard \subseteq 0..MaxSeq
  /\ arrivals \in Nat /\ late \in Nat /\ blurred \in BOOLEAN

(* Whatever the network does, the last number lies between minimum and      *)
(* maximum, so toStats has a denominator and its loss rate is below 1; and  *)
(* of the packets counted the first is never out of order.  The             *)
(* out-of-order rate is not bounded: it divides by the span of the numbers, *)
(* which duplicates do not widen.                                           *)
FiguresConsistent ==
  rec.windowIndex >= 0 =>
    /\ rec.minSeq <= rec.lastSeq /\ rec.lastSeq <= rec.maxSeq
    /\ rec.outOfOrder < rec.received
    /\ lost(rec) < expected(rec)

(* The tracker's figures are about the packets of this window and session.  *)
Current == rec.windowIndex = window /\ heard # {} /\ ~blurred

(* The loss shown is the contract's formula over the packets that arrived   *)
(* in this window and session: the span of their numbers less the packets   *)
(* received, where a duplicate counts as received; every packet that came   *)
(* after a higher number is counted out of order, and no other (docs/契约    *)
(* §4.2).                                                                   *)
FiguresExact ==
  Current =>
    /\ \E lo, hi \in heard :
         LET missing == (hi - lo + 1) - arrivals IN
         /\ \A h \in heard : lo <= h /\ h <= hi
         /\ lost(rec) = IF missing > 0 THEN missing ELSE 0
    /\ rec.outOfOrder = late

(* A packet that falls back behind the highest number - late, duplicate or  *)
(* after a restart - never makes the loss grow within a window.             *)
FallingBackAddsNoLoss ==
  [][(rec'.received # rec.received /\ rec'.windowIndex = rec.windowIndex
       /\ rec'.lastSeq < rec.maxSeq) => lost(rec') <= lost(rec)]_vars

=============================================================================
