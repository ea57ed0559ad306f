----------------------------- MODULE HealthSink -----------------------------
(***************************************************************************)
(* Health together with what the sink is told of each device by the Online *)
(* and Offline events, which two threads send after the tracker's lock is  *)
(* released (src/gateway.cc).                                              *)
(***************************************************************************)
EXTENDS Health

VARIABLE told           \* the last event the sink got of each device

SinkInit == Init /\ told = [d \in Devices |-> "nothing"]

(* emitHealth(Online) on a receive thread.                                  *)
TellOnline(r) ==
  /\ AnnounceOnline(r)
  /\ told' = [told EXCEPT ![rx[r].dev] = "online"]

(* emitHealth(Offline) on the health thread.                                *)
TellOffline(d) ==
  /\ AnnounceOffline(d)
  /\ told' = [told EXCEPT ![d] = "offline"]

Untold ==
  \/ Tick
  \/ \E r \in Receivers : Push(r) \/ \E d \in Devices : TakePacket(r, d)
  \/ ReadClock \/ Check \/ DueStats
  \/ \E new \in Configs : SetConfig(new)
  \/ SetLedgerLimit
  \/ Clear

SinkNext ==
  \/ \E r \in Receivers : TellOnline(r)
  \/ \E d \in Devices : TellOffline(d)
  \/ Untold /\ UNCHANGED told

SinkSpec == SinkInit /\ [][SinkNext]_<<vars, told>>

(* What the host was told last of a device agrees with the ledger whenever  *)
(* no thread has an event in hand.                                          *)
SinkAgrees ==
  ((\A r \in Receivers : rx[r].at # "announce") /\ wentOffline = {}) =>
    \A d \in DOMAIN devices : told[d] = IF devices[d].online THEN "online" ELSE "offline"

=============================================================================
