---------------------------- MODULE HealthProofs ----------------------------
(***************************************************************************)
(* What Health satisfies for any devices, receive threads, configurations  *)
(* and limits: the ledger keeps within its limit and counts what leaves    *)
(* it, and the events decided for each device alternate.  Both need to     *)
(* know the same of the ledger - which records it holds and that they are  *)
(* finitely many - so one inductive invariant serves both.                 *)
(*                                                                         *)
(* And of time: a device is judged offline early, or given up before one   *)
(* silent longer, only if two threads hear it and the older of two reports *)
(* was pushed last: only then does lastSeen differ from the newest report. *)
(***************************************************************************)
EXTENDS Health, FiniteSetTheorems, TLAPS

(* A record of the ledger.                                                  *)
Sound(rec) == rec \in Record /\ (rec.online <=> rec.offlineSince = 0)

(* The ledger and the books kept of it.                                     *)
LedgerInv ==
  /\ DOMAIN devices \subseteq Devices /\ IsFiniteSet(DOMAIN devices)
  /\ \A d \in DOMAIN devices : Sound(devices[d])
  /\ cfg \in Configs /\ ledgerLimit \in Nat
  /\ evicted \in Nat /\ discovered \in Nat
  /\ standing \in [Devices -> Int]
  /\ reloading \in BOOLEAN
  /\ LedgerAccounts
  /\ EventAccounting

(* The threads; the time is never 0, which an offlineSince of 0 relies on.  *)
ThreadInv ==
  /\ now \in Nat \ {0} /\ tickNow \in Nat
  /\ checker \in {"top", "check", "announce"}
  /\ checker = "check" => tickNow > 0
  /\ \A r \in Receivers :
       \/ rx[r] = Idle
       \/ rx[r] \in [at : {"push"}, dev : Devices, recvAt : Nat]
       \/ rx[r] \in [at : {"announce"}, dev : Devices, reason : {"resumed", "discovered"}]
  /\ DOMAIN rx = Receivers
  /\ wentOffline \subseteq Devices
  /\ packets \in Nat
  /\ heardAt \in [Devices -> Nat]

IInv == LedgerInv /\ ThreadInv

-----------------------------------------------------------------------------
(* Lemmas.                                                                 *)

(* Taking a part of a finite set away takes its cardinality away.           *)
LEMMA WithoutPart ==
  ASSUME NEW S, IsFiniteSet(S), NEW V \in SUBSET S
  PROVE  /\ IsFiniteSet(S \ V)
         /\ Cardinality(V) \in Nat /\ Cardinality(S) \in Nat
         /\ Cardinality(S \ V) = Cardinality(S) - Cardinality(V)
<1>1. S \cap V = V
  OBVIOUS
<1>2. IsFiniteSet(V)
  BY FS_Subset
<1>3. QED
  BY <1>1, <1>2, FS_Difference, FS_CardinalityType

(* A rescaled timeout is a number of ticks.                                 *)
LEMMA RescaledType ==
  ASSUME NEW timeout \in Nat, NEW new \in Configs
  PROVE  Rescaled(timeout, new) \in Nat
<1>1. new.period \in Nat \ {0} /\ new.multiple \in Nat
  BY HealthAssumption
<1> DEFINE m == (2 * timeout + new.period) \div (2 * new.period)
<1>2. 2 * timeout + new.period \in Nat /\ 2 * new.period \in Nat \ {0}
  BY <1>1
<1>3. m \in Int
  BY <1>2
<1> HIDE DEF m
<1>4. (IF m > 0 THEN m ELSE new.multiple) \in Nat
  BY <1>1, <1>3
<1>5. \A a, b \in Nat : a * b \in Nat
  OBVIOUS
<1>6. new.period * (IF m > 0 THEN m ELSE new.multiple) \in Nat
  BY <1>1, <1>4, <1>5
<1>7. QED
  BY <1>6 DEF Rescaled, m

(* A new record is sound and online.                                        *)
LEMMA NewRecordSound ==
  ASSUME cfg \in Configs, NEW recvAt \in Nat
  PROVE  Sound(NewRecord(recvAt)) /\ NewRecord(recvAt).online = TRUE
<1>1. cfg.period \in Nat /\ cfg.multiple \in Nat
  BY HealthAssumption
<1>2. \A a, b \in Nat : a * b \in Nat
  OBVIOUS
<1>3. cfg.period * cfg.multiple \in Nat
  BY <1>1, <1>2
<1> DEFINE timeout == cfg.period * cfg.multiple
<1> HIDE DEF timeout
<1>4. timeout \in Nat
  BY <1>3 DEF timeout
<1>5. NewRecord(recvAt) =
        [lastSeen |-> recvAt, online |-> TRUE, timeout |-> timeout, offlineSince |-> 0]
  BY DEF NewRecord, timeout
<1>6. QED
  BY <1>4, <1>5 DEF Sound, Record

(* What every part of LedgerInv is about stays as it is.                    *)
LEMMA LedgerUntouched ==
  ASSUME LedgerInv, UNCHANGED <<ledger, reloading, discovered, standing>>
  PROVE  LedgerInv'
<1>1. devices' = devices /\ cfg' = cfg /\ ledgerLimit' = ledgerLimit /\ evicted' = evicted
  BY DEF ledger
<1>2. reloading' = reloading /\ discovered' = discovered /\ standing' = standing
  OBVIOUS
<1>3. LedgerAccounts' /\ EventAccounting'
  BY <1>1, <1>2 DEF LedgerInv, LedgerAccounts, EventAccounting
<1>4. QED
  BY <1>1, <1>2, <1>3 DEF LedgerInv

(* The records of V leave the ledger.                                       *)
LEMMA ForgottenStanding ==
  ASSUME LedgerInv, NEW V \in SUBSET DOMAIN devices
  PROVE  /\ Forgotten(V) \in [Devices -> Int]
         /\ \A d \in Devices :
              Forgotten(V)[d] = IF d \in DOMAIN devices \ V /\ devices[d].online THEN 1 ELSE 0
<1>1. standing \in [Devices -> Int]
  BY DEF LedgerInv
<1>2. ASSUME NEW d \in Devices
      PROVE  /\ Forgotten(V)[d] \in Int
             /\ Forgotten(V)[d] = IF d \in DOMAIN devices \ V /\ devices[d].online THEN 1 ELSE 0
  <2>1. Forgotten(V)[d] = IF d \in V /\ devices[d].online THEN standing[d] - 1 ELSE standing[d]
    BY DEF Forgotten
  <2>2. standing[d] = IF d \in DOMAIN devices /\ devices[d].online THEN 1 ELSE 0
    BY DEF LedgerInv, EventAccounting
  <2>3. CASE d \in V
    BY <2>1, <2>2, <2>3
  <2>4. CASE d \notin V
    BY <2>1, <2>2, <2>4
  <2>5. QED
    BY <2>3, <2>4
<1>3. QED
  BY <1>2 DEF Forgotten

(* A new record, and the loss of the stalest one when there is no room.     *)
LEMMA DiscoverLedgerInv ==
  ASSUME LedgerInv, NEW r \in Receivers, discover(r),
         rx[r].dev \in Devices \ DOMAIN devices, rx[r].recvAt \in Nat,
         cfg' = cfg, ledgerLimit' = ledgerLimit, reloading' = reloading
  PROVE  LedgerInv'
<1> DEFINE S == DOMAIN devices
           new == rx[r].dev
           n == IF NoRoom THEN 1 ELSE 0
<1>1. PICK V \in Oldest(n) :
        /\ devices' = [d \in (S \ V) \cup {new} |->
                         IF d = new THEN NewRecord(rx[r].recvAt) ELSE devices[d]]
        /\ evicted' = evicted + Cardinality(V)
        /\ standing' = [Forgotten(V) EXCEPT ![new] = @ + 1]
        /\ discovered' = discovered + 1
  BY DEF discover
<1>2. V \in SUBSET S /\ Cardinality(V) = n
  BY DEF Oldest
<1>3. DOMAIN devices' = (S \ V) \cup {new} /\ new \in Devices /\ new \notin S
  BY <1>1
<1>4. /\ IsFiniteSet(S \ V) /\ Cardinality(S) \in Nat
      /\ Cardinality(S \ V) = Cardinality(S) - n
  BY <1>2, WithoutPart DEF LedgerInv
<1>5. IsFiniteSet(DOMAIN devices') /\ Cardinality(DOMAIN devices') = Cardinality(S) - n + 1
  BY <1>3, <1>4, FS_AddElement
<1>6. Sound(NewRecord(rx[r].recvAt)) /\ NewRecord(rx[r].recvAt).online = TRUE
  BY NewRecordSound DEF LedgerInv
<1>7. \A d \in DOMAIN devices' : Sound(devices'[d])
  BY <1>1, <1>3, <1>6 DEF LedgerInv
<1>8. DOMAIN devices' \subseteq Devices
  BY <1>3 DEF LedgerInv
<1>9. /\ Forgotten(V) \in [Devices -> Int]
      /\ \A d \in Devices : Forgotten(V)[d] = IF d \in S \ V /\ devices[d].online THEN 1 ELSE 0
  BY <1>2, ForgottenStanding
<1>10. standing' \in [Devices -> Int]
  BY <1>1, <1>9
<1>11. LedgerAccounts'
  <2>1. n \in Nat /\ evicted \in Nat /\ discovered \in Nat /\ ledgerLimit \in Nat
    BY DEF LedgerInv
  <2>2. discovered = Cardinality(S) + evicted
    BY DEF LedgerInv, LedgerAccounts
  <2>3. discovered' = Cardinality(DOMAIN devices') + evicted'
    BY <1>1, <1>2, <1>4, <1>5, <2>1, <2>2
  <2>4. (ledgerLimit > 0 /\ ~reloading) => Cardinality(DOMAIN devices') <= ledgerLimit
    BY <1>4, <1>5, <2>1 DEF LedgerInv, LedgerAccounts, NoRoom
  <2>5. QED
    BY <2>3, <2>4 DEF LedgerAccounts
<1>12. EventAccounting'
  <2> SUFFICES ASSUME NEW d \in Devices
               PROVE  standing'[d] = IF d \in DOMAIN devices' /\ devices'[d].online THEN 1 ELSE 0
    BY DEF EventAccounting
  <2>1. CASE d = new
    <3>1. standing'[d] = Forgotten(V)[d] + 1 /\ Forgotten(V)[d] = 0
      BY <1>1, <1>3, <1>9, <2>1
    <3>2. d \in DOMAIN devices' /\ devices'[d].online = TRUE
      BY <1>1, <1>3, <1>6, <2>1
    <3>3. QED
      BY <3>1, <3>2
  <2>2. CASE d # new
    <3>1. standing'[d] = Forgotten(V)[d]
      BY <1>1, <1>9, <2>2
    <3>2. (d \in DOMAIN devices' <=> d \in S \ V) /\ (d \in S \ V => devices'[d] = devices[d])
      BY <1>1, <1>3, <2>2
    <3>3. QED
      BY <1>9, <3>1, <3>2
  <2>3. QED
    BY <2>1, <2>2
<1>13. evicted' \in Nat /\ discovered' \in Nat
  BY <1>1, <1>2 DEF LedgerInv
<1>14. QED
  BY <1>5, <1>7, <1>8, <1>10, <1>11, <1>12, <1>13 DEF LedgerInv

(* A report of a device the ledger knows.                                   *)
LEMMA RefreshLedgerInv ==
  ASSUME LedgerInv, NEW r \in Receivers, refresh(r),
         rx[r].dev \in DOMAIN devices, rx[r].recvAt \in Nat,
         cfg' = cfg, ledgerLimit' = ledgerLimit, reloading' = reloading
  PROVE  LedgerInv'
<1> DEFINE S == DOMAIN devices
           known == rx[r].dev
           heard == [devices[known] EXCEPT !.lastSeen = rx[r].recvAt, !.online = TRUE,
                       !.offlineSince = IF devices[known].online THEN @ ELSE 0]
<1>1. Sound(devices[known]) /\ known \in Devices
  BY DEF LedgerInv
<1>2. /\ DOMAIN devices' = S
      /\ \A d \in S : d # known => devices'[d] = devices[d]
      /\ devices'[known] = heard
  BY <1>1 DEF refresh, Sound, Record
<1>3. Sound(heard) /\ heard.online = TRUE
  BY <1>1 DEF Sound, Record
<1> HIDE DEF heard
<1>4. \A d \in S : Sound(devices'[d])
  BY <1>2, <1>3 DEF LedgerInv
<1>5. UNCHANGED <<evicted, discovered>>
  BY DEF refresh
<1>6. LedgerAccounts'
  BY <1>2, <1>5 DEF LedgerInv, LedgerAccounts
<1>7. standing' = IF devices[known].online THEN standing
                  ELSE [standing EXCEPT ![known] = @ + 1]
  BY DEF refresh
<1>8. standing' \in [Devices -> Int]
  BY <1>1, <1>7 DEF LedgerInv
<1>9. EventAccounting'
  <2> SUFFICES ASSUME NEW d \in Devices
               PROVE  standing'[d] = IF d \in S /\ devices'[d].online THEN 1 ELSE 0
    BY <1>2 DEF EventAccounting
  <2>1. standing[d] = IF d \in S /\ devices[d].online THEN 1 ELSE 0
    BY DEF LedgerInv, EventAccounting
  <2>2. CASE d = known
    <3>1. standing'[d] = 1
      BY <1>7, <2>1, <2>2 DEF LedgerInv
    <3>2. QED
      BY <1>2, <1>3, <2>2, <3>1
  <2>3. CASE d # known
    <3>1. standing'[d] = standing[d]
      BY <1>7, <2>3 DEF LedgerInv
    <3>2. QED
      BY <1>2, <2>1, <2>3, <3>1
  <2>4. QED
    BY <2>2, <2>3
<1>10. QED
  BY <1>2, <1>4, <1>5, <1>6, <1>8, <1>9 DEF LedgerInv

(* The silent devices go offline; the time of it is not 0.                  *)
LEMMA CheckLedgerInv ==
  ASSUME LedgerInv, ThreadInv, Check
  PROVE  LedgerInv'
<1> DEFINE S == DOMAIN devices
           judged == Silent(tickNow)
<1>1. tickNow \in Nat \ {0}
  <2>1. tickNow \in Nat /\ (checker = "check" => tickNow > 0)
    BY DEF ThreadInv
  <2>2. checker = "check"
    BY DEF Check
  <2>3. QED
    BY <2>1, <2>2
<1>2. /\ devices' = [d \in S |-> IF d \in judged
                      THEN [devices[d] EXCEPT !.online = FALSE, !.offlineSince = tickNow]
                      ELSE devices[d]]
      /\ standing' = [d \in Devices |-> IF d \in judged THEN standing[d] - 1 ELSE standing[d]]
      /\ UNCHANGED <<cfg, ledgerLimit, evicted, reloading, discovered>>
  BY DEF Check
<1>3. judged \subseteq S /\ \A d \in judged : devices[d].online = TRUE
  <2>1. \A d \in S : devices[d].online \in BOOLEAN
    BY DEF LedgerInv, Sound, Record
  <2>2. QED
    BY <2>1 DEF Silent
<1> HIDE DEF judged
<1>4. \A d \in judged : Sound(devices'[d]) /\ devices'[d].online = FALSE
  <2> SUFFICES ASSUME NEW d \in judged
               PROVE  Sound(devices'[d]) /\ devices'[d].online = FALSE
    OBVIOUS
  <2>1. devices'[d] = [devices[d] EXCEPT !.online = FALSE, !.offlineSince = tickNow]
    BY <1>2, <1>3
  <2>2. Sound(devices[d])
    BY <1>3 DEF LedgerInv
  <2>3. QED
    BY <1>1, <2>1, <2>2 DEF Sound, Record
<1>5. \A d \in S \ judged : devices'[d] = devices[d]
  BY <1>2
<1>6. DOMAIN devices' = S /\ \A d \in S : Sound(devices'[d])
  BY <1>2, <1>4, <1>5 DEF LedgerInv
<1>7. LedgerAccounts'
  BY <1>2, <1>6 DEF LedgerInv, LedgerAccounts
<1>8. /\ standing' \in [Devices -> Int]
      /\ \A d \in Devices : standing'[d] = IF d \in judged THEN standing[d] - 1 ELSE standing[d]
  <2>1. standing \in [Devices -> Int]
    BY DEF LedgerInv
  <2>2. standing' = [d \in Devices |-> IF d \in judged THEN standing[d] - 1 ELSE standing[d]]
    BY <1>2
  <2>3. QED
    BY <2>1, <2>2
<1>9. EventAccounting'
  <2> SUFFICES ASSUME NEW d \in Devices
               PROVE  standing'[d] = IF d \in S /\ devices'[d].online THEN 1 ELSE 0
    BY <1>6 DEF EventAccounting
  <2>1. standing[d] = IF d \in S /\ devices[d].online THEN 1 ELSE 0
    BY DEF LedgerInv, EventAccounting
  <2>2. CASE d \in judged
    <3>1. standing'[d] = 0
      BY <1>3, <1>8, <2>1, <2>2
    <3>2. QED
      BY <1>4, <2>2, <3>1
  <2>3. CASE d \notin judged
    <3>1. standing'[d] = standing[d]
      BY <1>8, <2>3
    <3>2. QED
      BY <1>5, <2>1, <2>3, <3>1
  <2>4. QED
    BY <2>2, <2>3
<1>10. QED
  BY <1>2, <1>6, <1>7, <1>8, <1>9 DEF LedgerInv

(* setConfig only changes timeouts; the limit may be exceeded until         *)
(* setLedgerLimit.                                                          *)
LEMMA SetConfigLedgerInv ==
  ASSUME LedgerInv, NEW new \in Configs, SetConfig(new)
  PROVE  LedgerInv'
<1> DEFINE S == DOMAIN devices
<1>1. /\ devices' = [d \in S |-> [devices[d] EXCEPT !.timeout = Rescaled(@, new)]]
      /\ cfg' = new /\ ledgerLimit' = new.limit /\ reloading' = TRUE
      /\ UNCHANGED <<evicted, discovered, standing>>
  BY DEF SetConfig, history
<1>2. \A d \in S : Sound(devices'[d]) /\ devices'[d].online = devices[d].online
  <2> SUFFICES ASSUME NEW d \in S
               PROVE  Sound(devices'[d]) /\ devices'[d].online = devices[d].online
    OBVIOUS
  <2>1. Sound(devices[d])
    BY DEF LedgerInv
  <2>2. Rescaled(devices[d].timeout, new) \in Nat
    BY <2>1, RescaledType DEF Sound, Record
  <2>3. devices'[d] = [devices[d] EXCEPT !.timeout = Rescaled(devices[d].timeout, new)]
    BY <1>1
  <2>4. QED
    BY <2>1, <2>2, <2>3 DEF Sound, Record
<1>3. DOMAIN devices' = S
  BY <1>1
<1>4. LedgerAccounts'
  BY <1>1, <1>3 DEF LedgerInv, LedgerAccounts
<1>5. EventAccounting'
  BY <1>1, <1>2, <1>3 DEF LedgerInv, EventAccounting
<1>6. new.limit \in Nat
  BY HealthAssumption
<1>7. QED
  BY <1>1, <1>2, <1>3, <1>4, <1>5, <1>6 DEF LedgerInv

(* The records of V are gone and what is left is as it was.                 *)
LEMMA RemovalLedgerInv ==
  ASSUME LedgerInv, NEW V \in SUBSET DOMAIN devices,
         devices' = [d \in DOMAIN devices \ V |-> devices[d]],
         standing' = Forgotten(V)
  PROVE  /\ DOMAIN devices' \subseteq Devices /\ IsFiniteSet(DOMAIN devices')
         /\ \A d \in DOMAIN devices' : Sound(devices'[d])
         /\ standing' \in [Devices -> Int]
         /\ EventAccounting'
<1>1. DOMAIN devices' = DOMAIN devices \ V
  OBVIOUS
<1>2. IsFiniteSet(DOMAIN devices \ V)
  BY WithoutPart DEF LedgerInv
<1>3. /\ standing' \in [Devices -> Int]
      /\ \A d \in Devices :
           standing'[d] = IF d \in DOMAIN devices \ V /\ devices[d].online THEN 1 ELSE 0
  BY ForgottenStanding
<1>4. EventAccounting'
  BY <1>1, <1>3 DEF EventAccounting
<1>5. QED
  BY <1>1, <1>2, <1>3, <1>4 DEF LedgerInv

(* setLedgerLimit takes exactly the excess away and counts it.              *)
LEMMA SetLedgerLimitLedgerInv ==
  ASSUME LedgerInv, SetLedgerLimit
  PROVE  LedgerInv'
<1> DEFINE S == DOMAIN devices
<1>1. PICK V \in Oldest(Excess) :
        /\ devices' = [d \in S \ V |-> devices[d]]
        /\ evicted' = evicted + Cardinality(V)
        /\ standing' = Forgotten(V)
  BY DEF SetLedgerLimit
<1>2. V \in SUBSET S /\ Cardinality(V) = Excess
  BY DEF Oldest
<1>3. UNCHANGED <<cfg, ledgerLimit, discovered>> /\ reloading' = FALSE
  BY DEF SetLedgerLimit
<1>4. /\ DOMAIN devices' \subseteq Devices /\ IsFiniteSet(DOMAIN devices')
      /\ \A d \in DOMAIN devices' : Sound(devices'[d])
      /\ standing' \in [Devices -> Int]
      /\ EventAccounting'
  BY <1>1, <1>2, RemovalLedgerInv
<1>5. Cardinality(DOMAIN devices') = Cardinality(S) - Excess /\ Cardinality(S) \in Nat
  <2>1. DOMAIN devices' = S \ V
    BY <1>1
  <2>2. QED
    BY <1>2, <2>1, WithoutPart DEF LedgerInv
<1>6. Excess \in Nat /\ (ledgerLimit > 0 => Cardinality(S) - Excess <= ledgerLimit)
  BY <1>5 DEF Excess, LedgerInv
<1>7. LedgerAccounts'
  BY <1>1, <1>2, <1>3, <1>5, <1>6 DEF LedgerInv, LedgerAccounts
<1>8. evicted' \in Nat
  BY <1>1, <1>2, <1>6 DEF LedgerInv
<1>9. QED
  BY <1>3, <1>4, <1>7, <1>8 DEF LedgerInv

(* clear() empties the ledger and starts the counts again.                  *)
LEMMA ClearLedgerInv ==
  ASSUME LedgerInv, Clear
  PROVE  LedgerInv'
<1>1. /\ devices' = <<>> /\ evicted' = 0 /\ discovered' = 0
      /\ standing' = Forgotten(DOMAIN devices)
      /\ UNCHANGED <<cfg, ledgerLimit, reloading>>
  BY DEF Clear
<1>2. DOMAIN devices' = {}
  BY <1>1
<1>3. /\ standing' \in [Devices -> Int]
      /\ \A d \in Devices : standing'[d] = 0
  BY <1>1, ForgottenStanding
<1>4. EventAccounting'
  BY <1>2, <1>3 DEF EventAccounting
<1>5. Cardinality({}) = 0 /\ IsFiniteSet({})
  BY FS_EmptySet
<1>6. LedgerAccounts'
  BY <1>1, <1>2, <1>5 DEF LedgerInv, LedgerAccounts
<1>7. QED
  BY <1>1, <1>2, <1>3, <1>4, <1>5, <1>6 DEF LedgerInv

-----------------------------------------------------------------------------
(* The invariant.                                                          *)

LEMMA InitInv == Init => IInv
<1> SUFFICES ASSUME Init PROVE IInv
  OBVIOUS
<1>1. DOMAIN devices = {} /\ Cardinality({}) = 0 /\ IsFiniteSet({})
  BY FS_EmptySet DEF Init
<1>2. LedgerAccounts /\ EventAccounting
  BY <1>1, HealthAssumption DEF Init, LedgerAccounts, EventAccounting
<1>3. LedgerInv
  <2>1. cfg \in Configs /\ ledgerLimit \in Nat /\ evicted = 0 /\ discovered = 0
    BY HealthAssumption DEF Init
  <2>2. standing = [d \in Devices |-> 0] /\ reloading = FALSE
    BY DEF Init
  <2>3. standing \in [Devices -> Int]
    BY <2>2
  <2>4. QED
    BY <1>1, <1>2, <2>1, <2>2, <2>3 DEF LedgerInv
<1>4. ThreadInv
  BY HealthAssumption DEF Init, ThreadInv
<1>5. QED
  BY <1>3, <1>4 DEF IInv

(* A push leaves the thread idle or with an event to announce.              *)
LEMMA PushInv ==
  ASSUME IInv, NEW r \in Receivers, Push(r)
  PROVE  IInv'
<1>1. rx[r] \in [at : {"push"}, dev : Devices, recvAt : Nat]
  <2>1. rx[r].at = "push"
    BY DEF Push
  <2>2. \/ rx[r] = Idle
        \/ rx[r] \in [at : {"push"}, dev : Devices, recvAt : Nat]
        \/ rx[r] \in [at : {"announce"}, dev : Devices, reason : {"resumed", "discovered"}]
    BY DEF IInv, ThreadInv
  <2>3. QED
    BY <2>1, <2>2 DEF Idle
<1>2. rx[r].dev \in Devices /\ rx[r].recvAt \in Nat
  BY <1>1
<1>3. LedgerInv'
  <2>1. cfg' = cfg /\ ledgerLimit' = ledgerLimit /\ reloading' = reloading
    BY DEF Push
  <2>2. CASE rx[r].dev \in DOMAIN devices
    <3>1. refresh(r)
      BY <2>2 DEF Push
    <3>2. QED
      BY <1>2, <2>1, <2>2, <3>1, RefreshLedgerInv DEF IInv
  <2>3. CASE rx[r].dev \notin DOMAIN devices
    <3>1. discover(r)
      BY <2>3 DEF Push
    <3>2. QED
      BY <1>2, <2>1, <2>3, <3>1, DiscoverLedgerInv DEF IInv
  <2>4. QED
    BY <2>2, <2>3
<1>4. \E reason \in {"resumed", "discovered"} :
        \/ rx' = [rx EXCEPT ![r] = Idle]
        \/ rx' = [rx EXCEPT ![r] = [at |-> "announce", dev |-> rx[r].dev, reason |-> reason]]
  <2>1. \A t : Reason(t) \in {"resumed", "discovered"}
    BY DEF Reason
  <2>2. QED
    BY <2>1 DEF Push
<1>5. heardAt' = [heardAt EXCEPT ![rx[r].dev] = IF rx[r].recvAt > @ THEN rx[r].recvAt ELSE @]
  BY DEF Push
<1>6. heardAt' \in [Devices -> Nat]
  BY <1>2, <1>5 DEF IInv, ThreadInv
<1>7. /\ DOMAIN rx' = Receivers
      /\ \A q \in Receivers :
           \/ rx'[q] = Idle
           \/ rx'[q] \in [at : {"push"}, dev : Devices, recvAt : Nat]
           \/ rx'[q] \in [at : {"announce"}, dev : Devices, reason : {"resumed", "discovered"}]
  BY <1>2, <1>4 DEF IInv, ThreadInv
<1>8. UNCHANGED <<now, ledgerLimit, checker, tickNow, wentOffline, packets>>
  BY DEF Push, healthThread
<1>9. ThreadInv'
  BY <1>6, <1>7, <1>8 DEF IInv, ThreadInv
<1>10. QED
  BY <1>3, <1>9 DEF IInv

(* The steps that only move a thread or the time.                           *)
LEMMA MovesInv ==
  ASSUME IInv,
         \/ Tick \/ ReadClock \/ DueStats
         \/ \E d \in Devices : AnnounceOffline(d)
         \/ \E r \in Receivers : AnnounceOnline(r) \/ \E d \in Devices : TakePacket(r, d)
  PROVE  IInv'
<1>1. LedgerInv'
  <2>1. UNCHANGED <<ledger, reloading, discovered, standing>>
    BY DEF Tick, ReadClock, DueStats, AnnounceOffline, AnnounceOnline, TakePacket, history
  <2>2. QED
    BY <2>1, LedgerUntouched DEF IInv
<1>2. ThreadInv'
  <2>1. ledgerLimit' = ledgerLimit
    BY DEF Tick, ReadClock, DueStats, AnnounceOffline, AnnounceOnline, TakePacket, ledger
  <2>2. CASE Tick
    BY <2>1, <2>2 DEF IInv, ThreadInv, Tick, healthThread, history
  <2>3. CASE ReadClock
    BY <2>1, <2>3 DEF IInv, ThreadInv, ReadClock, history
  <2>4. CASE DueStats
    BY <2>1, <2>4 DEF IInv, ThreadInv, DueStats, history
  <2>5. ASSUME NEW d \in Devices, AnnounceOffline(d) PROVE ThreadInv'
    BY <2>1, <2>5 DEF IInv, ThreadInv, AnnounceOffline, history
  <2>6. ASSUME NEW r \in Receivers, AnnounceOnline(r) PROVE ThreadInv'
    <3>1. /\ rx' = [rx EXCEPT ![r] = Idle]
          /\ UNCHANGED <<now, checker, tickNow, wentOffline, heardAt, packets>>
      BY <2>6 DEF AnnounceOnline, healthThread, history
    <3>2. QED
      BY <2>1, <3>1 DEF IInv, ThreadInv
  <2>7. ASSUME NEW r \in Receivers, NEW d \in Devices, TakePacket(r, d) PROVE ThreadInv'
    <3>1. /\ rx' = [rx EXCEPT ![r] = [at |-> "push", dev |-> d, recvAt |-> now]]
          /\ packets' = packets + 1
          /\ UNCHANGED <<now, checker, tickNow, wentOffline, heardAt>>
      BY <2>7 DEF TakePacket, healthThread, history
    <3>2. QED
      BY <2>1, <3>1 DEF IInv, ThreadInv
  <2>8. QED
    BY <2>2, <2>3, <2>4, <2>5, <2>6, <2>7
<1>3. QED
  BY <1>1, <1>2 DEF IInv

LEMMA NextInv == IInv /\ [Next]_vars => IInv'
<1> SUFFICES ASSUME IInv, [Next]_vars PROVE IInv'
  OBVIOUS
<1>1. ASSUME NEW r \in Receivers, Push(r) PROVE IInv'
  BY <1>1, PushInv
<1>2. CASE Check
  <2>1. LedgerInv'
    BY <1>2, CheckLedgerInv DEF IInv
  <2>2. wentOffline' \subseteq Devices
    BY <1>2 DEF IInv, LedgerInv, Check, Silent
  <2>3. ThreadInv'
    BY <1>2, <2>2 DEF IInv, ThreadInv, Check
  <2>4. QED
    BY <2>1, <2>3 DEF IInv
<1>3. ASSUME NEW new \in Configs, SetConfig(new) PROVE IInv'
  <2>1. LedgerInv'
    BY <1>3, SetConfigLedgerInv DEF IInv
  <2>2. ThreadInv'
    BY <1>3 DEF IInv, ThreadInv, SetConfig, healthThread, history
  <2>3. QED
    BY <2>1, <2>2 DEF IInv
<1>4. CASE SetLedgerLimit
  <2>1. LedgerInv'
    BY <1>4, SetLedgerLimitLedgerInv DEF IInv
  <2>2. ThreadInv'
    BY <1>4 DEF IInv, ThreadInv, SetLedgerLimit, healthThread
  <2>3. QED
    BY <2>1, <2>2 DEF IInv
<1>5. CASE Clear
  <2>1. LedgerInv'
    BY <1>5, ClearLedgerInv DEF IInv
  <2>2. ThreadInv'
    BY <1>5 DEF IInv, ThreadInv, Clear, healthThread
  <2>3. QED
    BY <2>1, <2>2 DEF IInv
<1>6. CASE UNCHANGED vars
  <2>1. LedgerInv'
    BY <1>6, LedgerUntouched DEF IInv, vars, history
  <2>2. ThreadInv'
    BY <1>6 DEF IInv, ThreadInv, vars, ledger, healthThread, history
  <2>3. QED
    BY <2>1, <2>2 DEF IInv
<1>7. CASE \/ Tick \/ ReadClock \/ DueStats
           \/ \E d \in Devices : AnnounceOffline(d)
           \/ \E r \in Receivers : AnnounceOnline(r) \/ \E d \in Devices : TakePacket(r, d)
  BY <1>7, MovesInv
<1>8. QED
  BY <1>1, <1>2, <1>3, <1>4, <1>5, <1>6, <1>7 DEF Next, LeavesStats, Receive

LEMMA Invariant == Spec => []IInv
  BY InitInv, NextInv, PTL DEF Spec

-----------------------------------------------------------------------------
(* The theorems.                                                           *)

(* The ledger and the threads keep their types: TypeOK of Health.           *)
THEOREM TypeCorrect == Spec => []TypeOK
<1>1. IInv => TypeOK
  BY DEF IInv, LedgerInv, ThreadInv, TypeOK, Sound
<1>2. QED
  BY <1>1, Invariant, PTL

(* HealthTracker's ledger is within its limit and evictedTotal() has        *)
(* everything that left it: LedgerAccounts, for any number of devices,      *)
(* threads, limits and reloads.                                             *)
THEOREM LedgerIsAccounted == Spec => []LedgerAccounts
<1>1. IInv => LedgerAccounts
  BY DEF IInv, LedgerInv
<1>2. QED
  BY <1>1, Invariant, PTL

(* The Online and Offline events that push() and check() decide for a       *)
(* device alternate, whatever threads, evictions and clear() do between.    *)
THEOREM EventsAlternate == Spec => []EventAccounting
<1>1. IInv => EventAccounting
  BY DEF IInv, LedgerInv
<1>2. QED
  BY <1>1, Invariant, PTL

-----------------------------------------------------------------------------
(* Time.                                                                   *)

Pushing(r) == rx[r].at = "push"

(* The clocks.  A thread that alone hears a device brings reports in order. *)
ClockInv ==
  /\ tickNow <= now
  /\ \A d \in Devices : heardAt[d] <= now
  /\ \A r \in Receivers :
       Pushing(r) => <<r, rx[r].dev>> \in Reports /\ rx[r].recvAt <= now
  /\ \A d \in DOMAIN devices :
       devices[d].lastSeen <= heardAt[d] /\ devices[d].timeout >= cfg.period
  /\ \A d \in DOMAIN devices : ~Shared(d) => devices[d].lastSeen = heardAt[d]
  /\ \A r \in Receivers :
       (Pushing(r) /\ ~Shared(rx[r].dev)) => rx[r].recvAt >= heardAt[rx[r].dev]

(* A multiple of a period is at least the period.                           *)
LEMMA MultipleAtLeast ==
  ASSUME NEW period \in Nat, NEW multiple \in Nat \ {0}
  PROVE  period * multiple >= period
<1>1. PICK k \in Nat : multiple = k + 1
  <2>1. multiple - 1 \in Nat /\ multiple = (multiple - 1) + 1
    OBVIOUS
  <2>2. QED
    BY <2>1
<1>2. period * multiple = period * k + period
  BY <1>1
<1>3. period * k \in Nat
  OBVIOUS
<1>4. QED
  BY <1>2, <1>3

LEMMA RescaledAtLeast ==
  ASSUME NEW timeout \in Nat, NEW new \in Configs
  PROVE  Rescaled(timeout, new) >= new.period
<1>1. new.period \in Nat \ {0} /\ new.multiple \in Nat \ {0}
  BY HealthAssumption
<1> DEFINE m == (2 * timeout + new.period) \div (2 * new.period)
           k == IF m > 0 THEN m ELSE new.multiple
<1>2. 2 * timeout + new.period \in Nat /\ 2 * new.period \in Nat \ {0}
  BY <1>1
<1>3. m \in Int
  BY <1>2
<1>4. Rescaled(timeout, new) = new.period * k
  BY DEF Rescaled
<1> HIDE DEF m
<1>5. k \in Nat \ {0}
  BY <1>1, <1>3
<1> HIDE DEF k
<1>6. QED
  BY <1>1, <1>4, <1>5, MultipleAtLeast

LEMMA InitClockInv == Init => ClockInv
  BY HealthAssumption DEF Init, ClockInv, Pushing, Idle

(* A push: the record has the time stamp of the report, which nothing newer *)
(* can have preceded unless another thread hears the device.                *)
LEMMA PushClockInv ==
  ASSUME IInv, ClockInv, NEW r \in Receivers, Push(r)
  PROVE  ClockInv'
<1> DEFINE d0 == rx[r].dev
           at == rx[r].recvAt
<1>1. Pushing(r) /\ rx[r] \in [at : {"push"}, dev : Devices, recvAt : Nat]
  <2>1. rx[r].at = "push"
    BY DEF Push
  <2>2. \/ rx[r] = Idle
        \/ rx[r] \in [at : {"push"}, dev : Devices, recvAt : Nat]
        \/ rx[r] \in [at : {"announce"}, dev : Devices, reason : {"resumed", "discovered"}]
    BY DEF IInv, ThreadInv
  <2>3. QED
    BY <2>1, <2>2 DEF Idle, Pushing
<1>2. d0 \in Devices /\ at \in Nat /\ at <= now /\ (~Shared(d0) => at >= heardAt[d0])
  BY <1>1 DEF ClockInv
<1>3. /\ heardAt \in [Devices -> Nat] /\ now \in Nat
      /\ DOMAIN devices \subseteq Devices /\ cfg \in Configs
      /\ \A d \in DOMAIN devices : devices[d] \in Record
      /\ DOMAIN rx = Receivers
  BY DEF IInv, LedgerInv, ThreadInv, Sound
<1>4. heardAt' = [heardAt EXCEPT ![d0] = IF at > heardAt[d0] THEN at ELSE heardAt[d0]]
  BY DEF Push
<1>5. UNCHANGED <<now, cfg, tickNow>>
  BY DEF Push, healthThread
<1>6. /\ heardAt'[d0] = IF at > heardAt[d0] THEN at ELSE heardAt[d0]
      /\ \A d \in Devices : d # d0 => heardAt'[d] = heardAt[d]
  BY <1>2, <1>3, <1>4
<1>7. /\ \A q \in Receivers : q # r => rx'[q] = rx[q]
      /\ ~Pushing(r)'
  <2>1. \/ rx' = [rx EXCEPT ![r] = Idle]
        \/ \E reason : rx' = [rx EXCEPT ![r] = [at |-> "announce", dev |-> d0, reason |-> reason]]
    BY DEF Push
  <2>2. QED
    BY <1>3, <2>1 DEF Pushing, Idle
<1>8. /\ d0 \in DOMAIN devices' /\ devices'[d0].lastSeen = at
      /\ devices'[d0].timeout >= cfg.period
      /\ \A d \in DOMAIN devices' : d # d0 => d \in DOMAIN devices /\ devices'[d] = devices[d]
  <2>1. CASE d0 \in DOMAIN devices
    <3>1. refresh(r)
      BY <2>1 DEF Push
    <3>2. /\ devices[d0] \in Record /\ devices[d0].timeout >= cfg.period
      BY <1>3, <2>1 DEF ClockInv
    <3>3. devices' = [devices EXCEPT ![d0] =
                        [devices[d0] EXCEPT !.lastSeen = at, !.online = TRUE,
                           !.offlineSince = IF devices[d0].online THEN @ ELSE 0]]
      BY <2>1, <3>1, <3>2 DEF refresh, Record
    <3>4. QED
      BY <2>1, <3>2, <3>3 DEF Record
  <2>2. CASE d0 \notin DOMAIN devices
    <3>1. discover(r)
      BY <2>2 DEF Push
    <3>2. PICK V \in Oldest(IF NoRoom THEN 1 ELSE 0) :
            devices' = [d \in (DOMAIN devices \ V) \cup {d0} |->
                          IF d = d0 THEN NewRecord(at) ELSE devices[d]]
      BY <3>1 DEF discover
    <3>3. NewRecord(at).lastSeen = at /\ NewRecord(at).timeout = cfg.period * cfg.multiple
      BY DEF NewRecord
    <3>4. cfg.period * cfg.multiple >= cfg.period
      BY <1>3, HealthAssumption, MultipleAtLeast
    <3>5. devices'[d0] = NewRecord(at) /\ DOMAIN devices' = (DOMAIN devices \ V) \cup {d0}
      BY <3>2
    <3>6. QED
      BY <3>2, <3>3, <3>4, <3>5
  <2>3. QED
    BY <2>1, <2>2
<1>9. \A d \in DOMAIN devices' :
        /\ devices'[d].lastSeen <= heardAt'[d] /\ devices'[d].timeout >= cfg.period
        /\ ~Shared(d) => devices'[d].lastSeen = heardAt'[d]
  <2> SUFFICES ASSUME NEW d \in DOMAIN devices'
               PROVE  /\ devices'[d].lastSeen <= heardAt'[d] /\ devices'[d].timeout >= cfg.period
                      /\ ~Shared(d) => devices'[d].lastSeen = heardAt'[d]
    OBVIOUS
  <2>1. CASE d = d0
    BY <1>2, <1>3, <1>6, <1>8, <2>1
  <2>2. CASE d # d0
    <3>1. d \in DOMAIN devices /\ d \in Devices /\ devices'[d] = devices[d]
      BY <1>3, <1>8, <2>2
    <3>2. QED
      BY <1>6, <2>2, <3>1 DEF ClockInv
  <2>3. QED
    BY <2>1, <2>2
<1>10. \A d \in Devices : heardAt'[d] <= now
  BY <1>2, <1>6 DEF ClockInv
<1>11. ASSUME NEW q \in Receivers, Pushing(q)'
       PROVE  /\ <<q, rx'[q].dev>> \in Reports /\ rx'[q].recvAt <= now
              /\ ~Shared(rx'[q].dev) => rx'[q].recvAt >= heardAt'[rx'[q].dev]
  <2>1. q # r /\ rx'[q] = rx[q] /\ Pushing(q)
    BY <1>7, <1>11 DEF Pushing
  <2>2. <<q, rx[q].dev>> \in Reports /\ rx[q].recvAt <= now
    BY <2>1 DEF ClockInv
  <2>3. CASE rx[q].dev = d0
    <3>1. <<r, d0>> \in Reports
      BY <1>1 DEF ClockInv
    <3>2. Shared(d0)
      BY <2>1, <2>2, <2>3, <3>1 DEF Shared
    <3>3. QED
      BY <2>1, <2>2, <2>3, <3>2
  <2>4. CASE rx[q].dev # d0
    <3>1. rx[q].dev \in Devices
      BY <2>2, HealthAssumption
    <3>2. heardAt'[rx[q].dev] = heardAt[rx[q].dev]
      BY <1>6, <2>4, <3>1
    <3>3. QED
      BY <2>1, <2>2, <3>2 DEF ClockInv
  <2>5. QED
    BY <2>3, <2>4
<1>12. \A d : Shared(d)' <=> Shared(d)
  BY DEF Shared
<1>13. tickNow <= now
  BY DEF ClockInv
<1>14. QED
  BY <1>5, <1>9, <1>10, <1>11, <1>12, <1>13 DEF ClockInv, Pushing

(* The parts of ClockInv that a step leaves true when it neither pushes nor *)
(* brings records or shortens timeouts.                                     *)
LEMMA KeepsClockInv ==
  ASSUME IInv, ClockInv, UNCHANGED <<rx, heardAt>>, now' >= now, now' \in Nat,
         tickNow' <= now',
         \A d \in DOMAIN devices' :
           /\ d \in DOMAIN devices /\ devices'[d].lastSeen = devices[d].lastSeen
           /\ devices'[d].timeout >= cfg'.period
  PROVE  ClockInv'
<1>1. \A d : Shared(d)' <=> Shared(d)
  BY DEF Shared
<1>2. now \in Nat /\ heardAt \in [Devices -> Nat]
  BY DEF IInv, ThreadInv
<1>3. \A d \in Devices : heardAt'[d] <= now'
  BY <1>2 DEF ClockInv
<1>4. \A r \in Receivers :
        Pushing(r)' => /\ <<r, rx'[r].dev>> \in Reports /\ rx'[r].recvAt <= now'
                       /\ ~Shared(rx'[r].dev) => rx'[r].recvAt >= heardAt'[rx'[r].dev]
  <2> SUFFICES ASSUME NEW r \in Receivers, Pushing(r)'
               PROVE  /\ <<r, rx'[r].dev>> \in Reports /\ rx'[r].recvAt <= now'
                      /\ ~Shared(rx'[r].dev) => rx'[r].recvAt >= heardAt'[rx'[r].dev]
    OBVIOUS
  <2>1. Pushing(r)
    BY DEF Pushing
  <2>2. rx[r].recvAt \in Nat
    BY <2>1 DEF IInv, ThreadInv, Pushing, Idle
  <2>3. QED
    BY <1>2, <2>1, <2>2 DEF ClockInv
<1>5. \A d \in DOMAIN devices' :
        /\ devices'[d].lastSeen <= heardAt'[d]
        /\ ~Shared(d) => devices'[d].lastSeen = heardAt'[d]
  BY DEF ClockInv
<1>6. QED
  BY <1>1, <1>3, <1>4, <1>5 DEF ClockInv

(* The steps after which the records and the configuration are the same and *)
(* no thread has a new report.                                              *)
LEMMA MovesClockInv ==
  ASSUME IInv, ClockInv,
         \/ Tick \/ ReadClock \/ DueStats \/ UNCHANGED vars
         \/ \E d \in Devices : AnnounceOffline(d)
  PROVE  ClockInv'
<1>1. UNCHANGED <<devices, cfg, rx, heardAt>>
  BY DEF Tick, ReadClock, DueStats, AnnounceOffline, vars, ledger, history
<1>2. now \in Nat /\ tickNow \in Nat /\ tickNow <= now
  BY DEF IInv, ThreadInv, ClockInv
<1>3. now' >= now /\ now' \in Nat /\ tickNow' <= now'
  BY <1>2 DEF Tick, ReadClock, DueStats, AnnounceOffline, vars, healthThread
<1>4. QED
  BY <1>1, <1>3, KeepsClockInv DEF ClockInv

(* A receive thread takes a packet, stamped now, or ends with one.          *)
LEMMA ReceiveClockInv ==
  ASSUME IInv, ClockInv, NEW r \in Receivers,
         AnnounceOnline(r) \/ \E d \in Devices : TakePacket(r, d)
  PROVE  ClockInv'
<1>1. UNCHANGED <<now, tickNow, devices, cfg, heardAt>>
  BY DEF AnnounceOnline, TakePacket, ledger, healthThread, history
<1>2. DOMAIN rx = Receivers /\ heardAt \in [Devices -> Nat]
  BY DEF IInv, ThreadInv
<1>3. \A d : Shared(d)' <=> Shared(d)
  BY DEF Shared
<1>4. /\ \A q \in Receivers : q # r => rx'[q] = rx[q]
      /\ Pushing(r)' => /\ <<r, rx'[r].dev>> \in Reports /\ rx'[r].recvAt = now
                        /\ rx'[r].dev \in Devices
  <2>1. CASE AnnounceOnline(r)
    <3>1. rx' = [rx EXCEPT ![r] = Idle]
      BY <2>1 DEF AnnounceOnline
    <3>2. QED
      BY <1>2, <3>1 DEF Pushing, Idle
  <2>2. ASSUME NEW d \in Devices, TakePacket(r, d)
        PROVE  /\ \A q \in Receivers : q # r => rx'[q] = rx[q]
               /\ <<r, rx'[r].dev>> \in Reports /\ rx'[r].recvAt = now
               /\ rx'[r].dev \in Devices
    <3>1. rx' = [rx EXCEPT ![r] = [at |-> "push", dev |-> d, recvAt |-> now]]
      BY <2>2 DEF TakePacket
    <3>2. <<r, d>> \in Reports
      BY <2>2 DEF TakePacket
    <3>3. QED
      BY <1>2, <3>1, <3>2
  <2>3. QED
    BY <2>1, <2>2
<1>5. ASSUME NEW q \in Receivers, Pushing(q)'
      PROVE  /\ <<q, rx'[q].dev>> \in Reports /\ rx'[q].recvAt <= now
             /\ ~Shared(rx'[q].dev) => rx'[q].recvAt >= heardAt[rx'[q].dev]
  <2>1. CASE q = r
    <3>1. heardAt[rx'[r].dev] <= now /\ now \in Nat
      BY <1>4, <1>5, <2>1 DEF ClockInv, IInv, ThreadInv
    <3>2. QED
      BY <1>4, <1>5, <2>1, <3>1
  <2>2. CASE q # r
    <3>1. rx'[q] = rx[q]
      BY <1>4, <2>2
    <3>2. Pushing(q)
      BY <1>5, <3>1 DEF Pushing
    <3>3. QED
      BY <3>1, <3>2 DEF ClockInv
  <2>3. QED
    BY <2>1, <2>2
<1>6. QED
  BY <1>1, <1>3, <1>5 DEF ClockInv

LEMMA NextClockInv == IInv /\ ClockInv /\ [Next]_vars => ClockInv'
<1> SUFFICES ASSUME IInv, ClockInv, [Next]_vars PROVE ClockInv'
  OBVIOUS
<1> USE DEF IInv
<1>1. now \in Nat /\ tickNow <= now /\ \A d \in DOMAIN devices : devices[d] \in Record
  BY DEF ThreadInv, LedgerInv, Sound, ClockInv
<1>2. ASSUME NEW r \in Receivers, Push(r) PROVE ClockInv'
  BY <1>2, PushClockInv
<1>3. CASE Check
  <2>1. UNCHANGED <<now, cfg, rx, tickNow, heardAt>>
    BY <1>3 DEF Check
  <2>2. devices' = [d \in DOMAIN devices |->
                      IF d \in Silent(tickNow)
                      THEN [devices[d] EXCEPT !.online = FALSE, !.offlineSince = tickNow]
                      ELSE devices[d]]
    BY <1>3 DEF Check
  <2>3. \A d \in DOMAIN devices :
          /\ devices'[d].lastSeen = devices[d].lastSeen
          /\ devices'[d].timeout = devices[d].timeout
    BY <1>1, <2>2 DEF Record
  <2>4. DOMAIN devices' = DOMAIN devices
    BY <2>2
  <2>5. \A d \in DOMAIN devices' :
          /\ d \in DOMAIN devices /\ devices'[d].lastSeen = devices[d].lastSeen
          /\ devices'[d].timeout >= cfg'.period
    BY <2>1, <2>3, <2>4 DEF ClockInv
  <2>6. now' >= now /\ now' \in Nat /\ tickNow' <= now'
    BY <1>1, <2>1
  <2>7. QED
    BY <2>1, <2>5, <2>6, KeepsClockInv
<1>4. ASSUME NEW new \in Configs, SetConfig(new) PROVE ClockInv'
  <2>1. UNCHANGED <<now, rx, tickNow, heardAt>> /\ cfg' = new
    BY <1>4 DEF SetConfig, healthThread, history
  <2>2. devices' = [d \in DOMAIN devices |->
                      [devices[d] EXCEPT !.timeout = Rescaled(devices[d].timeout, new)]]
    BY <1>4 DEF SetConfig
  <2>3. ASSUME NEW d \in DOMAIN devices'
        PROVE  /\ d \in DOMAIN devices /\ devices'[d].lastSeen = devices[d].lastSeen
               /\ devices'[d].timeout >= new.period
    <3>1. d \in DOMAIN devices /\ devices[d] \in Record /\ devices[d].timeout \in Nat
      BY <1>1, <2>2 DEF Record
    <3>2. devices'[d] = [devices[d] EXCEPT !.timeout = Rescaled(devices[d].timeout, new)]
      BY <2>2, <3>1
    <3>3. Rescaled(devices[d].timeout, new) >= new.period
      BY <3>1, RescaledAtLeast
    <3>4. QED
      BY <3>1, <3>2, <3>3 DEF Record
  <2>4. now' >= now /\ now' \in Nat /\ tickNow' <= now'
    BY <1>1, <2>1
  <2>5. QED
    BY <2>1, <2>3, <2>4, KeepsClockInv
<1>5. CASE SetLedgerLimit
  <2>1. UNCHANGED <<now, cfg, rx, tickNow, heardAt>>
    BY <1>5 DEF SetLedgerLimit, healthThread
  <2>2. \A d \in DOMAIN devices' : d \in DOMAIN devices /\ devices'[d] = devices[d]
    BY <1>5 DEF SetLedgerLimit
  <2>3. now' >= now /\ now' \in Nat /\ tickNow' <= now'
    BY <1>1, <2>1
  <2>4. QED
    BY <2>1, <2>2, <2>3, KeepsClockInv DEF ClockInv
<1>6. CASE Clear
  <2>1. UNCHANGED <<now, cfg, rx, tickNow, heardAt>> /\ DOMAIN devices' = {}
    BY <1>6 DEF Clear, healthThread
  <2>2. now' >= now /\ now' \in Nat /\ tickNow' <= now'
    BY <1>1, <2>1
  <2>3. QED
    BY <2>1, <2>2, KeepsClockInv
<1>7. CASE \/ Tick \/ ReadClock \/ DueStats \/ UNCHANGED vars
           \/ \E d \in Devices : AnnounceOffline(d)
  BY <1>7, MovesClockInv
<1>8. ASSUME NEW r \in Receivers, AnnounceOnline(r) \/ \E d \in Devices : TakePacket(r, d)
      PROVE  ClockInv'
  BY <1>8, ReceiveClockInv
<1>9. QED
  BY <1>2, <1>3, <1>4, <1>5, <1>6, <1>7, <1>8 DEF Next, LeavesStats, Receive

LEMMA ClockInvariant == Spec => []ClockInv
  BY InitClockInv, NextClockInv, Invariant, PTL DEF Spec

-----------------------------------------------------------------------------
(* The theorems.                                                           *)

(* Only check() judges a device offline, at a time that is not past the     *)
(* present, and by a lastSeen that is the newest report unless the device   *)
(* was overtaken.                                                           *)
LEMMA JudgedStep ==
  ASSUME IInv, ClockInv, [Next]_vars,
         NEW d \in DOMAIN devices \cap DOMAIN devices',
         devices[d].online, ~devices'[d].online
  PROVE  \/ /\ now - heardAt[d] > devices[d].timeout
            /\ now - heardAt[d] > cfg.period
         \/ Overtaken(d)
<1>1. \A e \in DOMAIN devices : devices[e] \in Record
  BY DEF IInv, LedgerInv, Sound
<1>2. Check /\ d \in Silent(tickNow)
  <2>1. ASSUME NEW r \in Receivers, Push(r) PROVE FALSE
    <3>1. CASE rx[r].dev \in DOMAIN devices
      <4>1. refresh(r)
        BY <2>1, <3>1 DEF Push
      <4>2. CASE d = rx[r].dev
        <5>1. devices'[d] = [devices[d] EXCEPT !.lastSeen = rx[r].recvAt, !.online = TRUE,
                               !.offlineSince = IF devices[d].online THEN @ ELSE 0]
          BY <1>1, <4>1, <4>2 DEF refresh, Record
        <5>2. QED
          BY <1>1, <5>1 DEF Record
      <4>3. CASE d # rx[r].dev
        BY <4>1, <4>3 DEF refresh
      <4>4. QED
        BY <4>2, <4>3
    <3>2. CASE rx[r].dev \notin DOMAIN devices
      <4>1. discover(r)
        BY <2>1, <3>2 DEF Push
      <4>2. devices'[d] = devices[d]
        BY <3>2, <4>1 DEF discover
      <4>3. QED
        BY <4>2
    <3>3. QED
      BY <3>1, <3>2
  <2>2. ASSUME NEW new \in Configs, SetConfig(new) PROVE FALSE
    <3>1. devices'[d] = [devices[d] EXCEPT !.timeout = Rescaled(devices[d].timeout, new)]
      BY <2>2 DEF SetConfig
    <3>2. QED
      BY <1>1, <3>1 DEF Record
  <2>3. ~SetLedgerLimit /\ ~Clear
    <3>1. ASSUME SetLedgerLimit PROVE FALSE
      <4>1. PICK V \in Oldest(Excess) : devices' = [e \in DOMAIN devices \ V |-> devices[e]]
        BY <3>1 DEF SetLedgerLimit
      <4>2. devices'[d] = devices[d]
        BY <4>1
      <4>3. QED
        BY <4>2
    <3>2. ASSUME Clear PROVE FALSE
      BY <3>2 DEF Clear
    <3>3. QED
      BY <3>1, <3>2
  <2>4. ~(UNCHANGED devices)
    OBVIOUS
  <2>5. Check
    BY <2>1, <2>2, <2>3, <2>4
       DEF Next, LeavesStats, Receive, Tick, TakePacket, AnnounceOnline, ReadClock,
           AnnounceOffline, DueStats, ledger, vars
  <2>6. QED
    BY <2>5 DEF Check
<1>3. d \in Devices /\ devices[d].lastSeen \in Nat /\ devices[d].timeout \in Nat
  BY <1>1 DEF IInv, LedgerInv, Record
<1>4. now \in Nat /\ tickNow \in Nat /\ heardAt[d] \in Nat
  BY <1>3 DEF IInv, ThreadInv
<1>5. cfg.period \in Nat
  BY HealthAssumption DEF IInv, LedgerInv
<1>6. /\ tickNow <= now /\ devices[d].timeout >= cfg.period
      /\ devices[d].lastSeen <= heardAt[d]
      /\ ~Shared(d) => devices[d].lastSeen = heardAt[d]
  BY DEF ClockInv
<1>7. tickNow - devices[d].lastSeen > devices[d].timeout
  BY <1>2 DEF Silent
<1>8. CASE Overtaken(d)
  BY <1>8
<1>9. CASE ~Overtaken(d)
  <2>1. devices[d].lastSeen = heardAt[d]
    BY <1>3, <1>4, <1>6, <1>9 DEF Overtaken
  <2>2. QED
    BY <1>3, <1>4, <1>5, <1>6, <1>7, <2>1
<1>10. QED
  BY <1>8, <1>9

(* HealthTracker judges a device offline before its timeout, or a heartbeat *)
(* of the configuration, only if an older report of another access point    *)
(* has overtaken its newest one; a device of one access point never         *)
(* (ING-HLT-01).  NoFalseOffline, for any timeouts, reloads and             *)
(* interleavings of receive and health threads.                             *)
THEOREM NeverOfflineEarly == Spec => NoFalseOffline
<1>1. IInv /\ ClockInv /\ [Next]_vars =>
        [\A d \in DOMAIN devices \cap DOMAIN devices' :
           (devices[d].online /\ ~devices'[d].online)
             => \/ /\ now - heardAt[d] > devices[d].timeout
                   /\ now - heardAt[d] > cfg.period
                \/ Overtaken(d)]_vars
  BY JudgedStep
<1>2. QED
  BY <1>1, Invariant, ClockInvariant, PTL DEF Spec, NoFalseOffline

(* A step that takes records away takes a set that Oldest allows.           *)
LEMMA EvictionStep ==
  ASSUME IInv, ClockInv, [Next]_vars, devices' # <<>>,
         NEW v \in DOMAIN devices \ DOMAIN devices',
         NEW d \in DOMAIN devices \cap DOMAIN devices'
  PROVE  heardAt[v] <= heardAt[d] \/ Overtaken(v)
<1>1. \E n : \E V \in Oldest(n) : v \in V /\ d \notin V
  <2>1. ASSUME NEW r \in Receivers, Push(r) PROVE \E n : \E V \in Oldest(n) : v \in V /\ d \notin V
    <3>1. rx[r].dev \notin DOMAIN devices
      BY <2>1 DEF Push, refresh
    <3>2. discover(r)
      BY <2>1, <3>1 DEF Push
    <3>3. PICK V \in Oldest(IF NoRoom THEN 1 ELSE 0) :
            devices' = [e \in (DOMAIN devices \ V) \cup {rx[r].dev} |->
                          IF e = rx[r].dev THEN NewRecord(rx[r].recvAt) ELSE devices[e]]
      BY <3>2 DEF discover
    <3>4. DOMAIN devices' = (DOMAIN devices \ V) \cup {rx[r].dev}
      BY <3>3
    <3>5. v \in V /\ d \notin V
      BY <3>1, <3>4
    <3>6. QED
      BY <3>5
  <2>2. CASE SetLedgerLimit
    <3>1. PICK V \in Oldest(Excess) : devices' = [e \in DOMAIN devices \ V |-> devices[e]]
      BY <2>2 DEF SetLedgerLimit
    <3>2. DOMAIN devices' = DOMAIN devices \ V
      BY <3>1
    <3>3. v \in V /\ d \notin V
      BY <3>2
    <3>4. QED
      BY <3>3
  <2>3. ~Check /\ ~Clear /\ \A new \in Configs : ~SetConfig(new)
    BY DEF Check, Clear, SetConfig
  <2>4. ~(UNCHANGED devices)
    OBVIOUS
  <2>5. QED
    BY <2>1, <2>2, <2>3, <2>4
       DEF Next, LeavesStats, Receive, Tick, TakePacket, AnnounceOnline, ReadClock,
           AnnounceOffline, DueStats, ledger, vars
<1>2. devices[v].lastSeen <= devices[d].lastSeen
  BY <1>1 DEF Oldest
<1>3. \A e \in DOMAIN devices : devices[e].lastSeen \in Nat /\ heardAt[e] \in Nat
  BY DEF IInv, LedgerInv, ThreadInv, Sound, Record
<1>4. /\ devices[d].lastSeen <= heardAt[d] /\ devices[v].lastSeen <= heardAt[v]
      /\ ~Shared(v) => devices[v].lastSeen = heardAt[v]
  BY DEF ClockInv
<1>5. QED
  BY <1>2, <1>3, <1>4 DEF Overtaken

(* A full ledger gives up the device silent longest (ING-NFR-05):           *)
(* StalestGoesFirst, for ledgers and limits of any size.                    *)
THEOREM StalestIsEvicted == Spec => StalestGoesFirst
<1>1. IInv /\ ClockInv /\ [Next]_vars =>
        [devices' # <<>> =>
           \A v \in DOMAIN devices \ DOMAIN devices', d \in DOMAIN devices \cap DOMAIN devices' :
             heardAt[v] <= heardAt[d] \/ Overtaken(v)]_vars
  BY EvictionStep
<1>2. QED
  BY <1>1, Invariant, ClockInvariant, PTL DEF Spec, StalestGoesFirst

=============================================================================
