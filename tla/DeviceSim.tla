----------------------------- MODULE DeviceSim -----------------------------
(***************************************************************************)
(* The device simulator (tools/device_sim/main.cc), the project's means of *)
(* measuring the statistics: one device of its send loop, which injects    *)
(* losses and late packets and stops and restarts the device, composed     *)
(* with the statistics of the tracker that hears it over a network that    *)
(* neither loses nor reorders.                                             *)
(***************************************************************************)
EXTENDS SeqWindow

CONSTANT totalTicks  \* rounds of the send loop, hz * seconds

ASSUME DeviceSimAssumption == totalTicks \in Nat

VARIABLES
  tick,               \* the loop's counter
  seq,                \* DeviceState::seq
  phase,              \* which of stopAt and restartAt have been reached
  dropped, shuffled,  \* main's counters, printed at the end
  first,              \* history: number of the first packet heard in the window
  opened,             \* history: dropped and shuffled when that packet was sent
  gap,                \* history: numbers given out since the last plain packet
  regular             \* history: see Regular

loop == <<tick, seq, phase, dropped, shuffled>>
simHistory == <<first, opened, gap, regular>>
simVars == <<loop, window, rec, simHistory>>

SimInit ==
  /\ tick = 0 /\ seq = 0 /\ phase = "running"
  /\ dropped = 0 /\ shuffled = 0
  /\ window = 0 /\ rec = NoSeqYet
  /\ first = 0 /\ opened = [dropped |-> 0, shuffled |-> 0]
  /\ gap = 0 /\ regular = FALSE

-----------------------------------------------------------------------------

(* stopAt is reached: the device is silent.  After restartAt it sends again;*)
(* with restartAt before stopAt it is never silent.                         *)
Stop ==
  /\ phase = "running"
  /\ phase' = "stopped"
  /\ UNCHANGED <<tick, seq, dropped, shuffled, window, rec, simHistory>>

SimRestart ==
  /\ phase \in {"running", "stopped"}
  /\ phase' = "restarted"
  /\ regular' = FALSE
  /\ UNCHANGED <<tick, seq, dropped, shuffled, window, rec, first, opened, gap>>

(* The next packet falls into the next statistics window.                   *)
SimRoll ==
  /\ window < MaxWindow
  /\ window' = window + 1
  /\ UNCHANGED <<loop, rec, simHistory>>

(* The number a tick starts from: after the restart every tick starts at 0. *)
sendSeq == IF phase = "restarted" THEN 0 ELSE seq

Ticks ==
  /\ tick < totalTicks /\ phase # "stopped"
  /\ tick' = tick + 1

(* A round in which the device is silent.                                   *)
Skip ==
  /\ tick < totalTicks /\ phase = "stopped"
  /\ tick' = tick + 1
  /\ UNCHANGED <<seq, phase, dropped, shuffled, window, rec, simHistory>>

(* The packet is not sent, its number is spent.                             *)
Drop ==
  /\ Ticks
  /\ seq' = sendSeq + 1
  /\ dropped' = dropped + 1
  /\ gap' = gap + 1
  /\ UNCHANGED <<phase, shuffled, window, rec, first, opened, regular>>

Heard(n) == rec' = countSeq(rec, n, window)

FirstOfWindow == rec.windowIndex # window

(* The builder writes the number after it has been incremented.             *)
SendPlain ==
  /\ Ticks
  /\ seq' = sendSeq + 1
  /\ Heard(seq')
  /\ gap' = 0
  /\ IF FirstOfWindow
     THEN /\ first' = seq' /\ opened' = [dropped |-> dropped, shuffled |-> shuffled]
          /\ regular' = (phase = "running")
     ELSE UNCHANGED <<first, opened, regular>>
  /\ UNCHANGED <<phase, dropped, shuffled, window>>

(* What the shuffled packet falls back behind the last plain one.           *)
Fall == 3 - gap

(* The window began with a plain packet, no restart so far, and each        *)
(* shuffled packet fell back, by at most half of the window's numbers.      *)
Regular == regular /\ ~FirstOfWindow /\ Fall > 0 /\ 2 * Fall <= (seq - gap) - first + 1

(* The packet is sent with a smaller number.                                *)
SendShuffled ==
  /\ Ticks /\ sendSeq > 3
  /\ seq' = sendSeq + 1
  /\ shuffled' = shuffled + 1
  /\ Heard(sendSeq - 3)
  /\ gap' = gap + 1
  /\ regular' = Regular
  /\ UNCHANGED <<phase, dropped, window, first, opened>>

SimNext == Stop \/ SimRestart \/ SimRoll \/ Skip \/ Drop \/ SendPlain \/ SendShuffled

SimSpec == SimInit /\ [][SimNext]_simVars

-----------------------------------------------------------------------------
(* Properties.                                                             *)

(* The tracker measures what the simulator injects: in a regular window it  *)
(* counts out of order exactly the shuffled packets, and a plain packet     *)
(* brings the loss to exactly the packets dropped since the window's first; *)
(* until the next one it shows no more than that (docs/契约 section 10, the *)
(* acceptance of ING-HLT-03 and ING-HLT-04).                                *)
InjectedIsMeasured ==
  (regular /\ ~FirstOfWindow) =>
    /\ rec.outOfOrder = shuffled - opened.shuffled
    /\ lost(rec) <= dropped - opened.dropped
    /\ gap = 0 => lost(rec) = dropped - opened.dropped

=============================================================================
