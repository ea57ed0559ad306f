------------------------------ MODULE Delivery ------------------------------
(***************************************************************************)
(* What the distribution side promises the host: per device, the sink sees *)
(* reports in the order they were accepted, each at most once; a report    *)
(* may be skipped for a newer one of the same device, or lost when the     *)
(* bounded queue overflows or is cleared; when delivery ends, the newest   *)
(* report that is due of each device, or a newer one, has been seen unless *)
(* it was lost.  Reports of a device are numbered 1, 2, ... as they are    *)
(* accepted.                                                               *)
(***************************************************************************)
EXTENDS Naturals

CONSTANTS
  Devices     \* the devices that report

VARIABLES
  accepted,   \* accepted[d]: number of the newest report accepted
  due,        \* due[d]: number of the newest one the sink must not miss
  seen,       \* seen[d]: number of the newest report the sink was given
  lost,       \* lost[d]: number of the newest report lost
  ended       \* delivery has ended, the sink is not called any more

vars == <<accepted, due, seen, lost, ended>>

Init ==
  /\ accepted = [d \in Devices |-> 0]
  /\ due = [d \in Devices |-> 0]
  /\ seen = [d \in Devices |-> 0]
  /\ lost = [d \in Devices |-> 0]
  /\ ended = FALSE

(* lost may only move forward, up to what has been accepted.                *)
LoseSome ==
  /\ lost' \in [Devices -> Nat]
  /\ \A d \in Devices : lost[d] <= lost'[d] /\ lost'[d] <= accepted'[d]

(* A report is accepted; if there is no room an older one is lost for it.   *)
(* It may be due only as long as there is delivery.                         *)
Accept(d) ==
  /\ accepted' = [accepted EXCEPT ![d] = @ + 1]
  /\ \/ due' = due
     \/ ~ended /\ due' = [due EXCEPT ![d] = accepted'[d]]
  /\ LoseSome
  /\ UNCHANGED <<seen, ended>>

(* One call of the sink: at most one report per device, newer than any      *)
(* report of that device it was given before.                               *)
Publish ==
  /\ ~ended
  /\ seen' \in [Devices -> Nat]
  /\ seen' # seen
  /\ \A d \in Devices : seen[d] <= seen'[d] /\ seen'[d] <= accepted[d]
  /\ UNCHANGED <<accepted, due, lost, ended>>

Lose ==
  /\ UNCHANGED <<accepted, due>>
  /\ LoseSome
  /\ UNCHANGED <<seen, ended>>

(* Delivery ends with nothing that is due left behind; the last call of the *)
(* sink may be part of this step.                                           *)
End ==
  /\ ~ended
  /\ ended' = TRUE
  /\ seen' \in [Devices -> Nat]
  /\ \A d \in Devices : seen[d] <= seen'[d] /\ seen'[d] <= accepted[d]
  /\ \A d \in Devices : seen'[d] >= due[d] \/ lost[d] >= due[d]
  /\ UNCHANGED <<accepted, due, lost>>

Next ==
  \/ \E d \in Devices : Accept(d)
  \/ Publish
  \/ Lose
  \/ End

Spec == Init /\ [][Next]_vars

=============================================================================
