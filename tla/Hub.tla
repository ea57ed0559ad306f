-------------------------------- MODULE Hub --------------------------------
(***************************************************************************)
(* The WebSocket outlet: EventHub (src/hub/event_hub.cc) and the threads   *)
(* of the gateway that broadcast through it (src/gateway.cc) - deliver for *)
(* the events of a batch, emitHealth for the ledger's events, alert - while*)
(* clients register, leave and throw, and reload() turns the broadcast of  *)
(* events on and off.                                                      *)
(*                                                                         *)
(* A broadcast is its place in broadcastCount(); what it says and its time *)
(* stamp are left out.  The sink is served before the broadcasts, with no  *)
(* lock held, and what it throws is swallowed: no step here.               *)
(***************************************************************************)
EXTENDS Integers, SequencesExt

CONSTANTS
  Clients,        \* IHubClient objects, registered once at a time
  Sockets,        \* WebSocket connections, registered once at a time
  Throwing,       \* those of the clients whose onMessage throws
  Emitters,       \* receive, health and control threads
  Consumer,       \* the thread of consumerLoop
  MaxBatch,       \* bound: events in a batch
  MaxBroadcasts   \* bound: broadcasts begun or announced

ASSUME HubAssumption ==
  /\ Clients \cap Sockets = {} /\ Throwing \subseteq Clients
  /\ Consumer \notin Emitters
  /\ MaxBatch \in Nat \ {0} /\ MaxBroadcasts \in Nat

VARIABLES
  clients,         \* clients_
  wsClients,       \* wsClients_
  broadcastCount,  \* broadcastCount_
  emitNormalized,  \* Impl::emitNormalized
  thread,          \* per thread: where it is, the broadcasts it has still to make, the
                   \* number of the current one and who has still to be sent it
  got,             \* history: the broadcasts each client was handed
  since,           \* history: broadcastCount when the client registered, Away = it is not
  spans,           \* history: broadcasts made during its registrations that have ended
  batch            \* history: size of the consumer's batch and broadcasts made for it

registry == <<clients, wsClients>>
history == <<got, since, spans, batch>>
vars == <<registry, broadcastCount, emitNormalized, thread, history>>

Threads == Emitters \cup {Consumer}
Receivers == Clients \cup Sockets
Away == -1
Idle == [at |-> "idle", left |-> 0, id |-> 0, snapshot |-> <<>>]

Init ==
  /\ clients = <<>> /\ wsClients = <<>>
  /\ broadcastCount = 0
  /\ emitNormalized \in BOOLEAN
  /\ thread = [t \in Threads |-> Idle]
  /\ got = [c \in Receivers |-> {}]
  /\ since = [c \in Receivers |-> Away]
  /\ spans = [c \in Receivers |-> {}]
  /\ batch = [size |-> 0, made |-> 0]

Registered == ToSet(clients) \cup ToSet(wsClients)

-----------------------------------------------------------------------------
(* Registration, by any thread, from within onMessage too: the hub's lock   *)
(* is held for these sections and the snapshot only.                        *)

add(c) ==
  /\ c \notin Registered
  /\ IF c \in Clients
     THEN clients' = Append(clients, c) /\ UNCHANGED wsClients
     ELSE wsClients' = Append(wsClients, c) /\ UNCHANGED clients
  /\ since' = [since EXCEPT ![c] = broadcastCount]
  /\ UNCHANGED <<broadcastCount, emitNormalized, thread, got, spans, batch>>

(* The registrations of gone end.                                           *)
Ended(gone) ==
  /\ since' = [c \in Receivers |-> IF c \in gone THEN Away ELSE since[c]]
  /\ spans' = [c \in Receivers |-> IF c \in gone THEN spans[c] \cup (since[c] + 1)..broadcastCount
                                   ELSE spans[c]]
  /\ UNCHANGED <<broadcastCount, emitNormalized, thread, got, batch>>

(* Bug: what std::remove leaves behind is not erased.                       *)
WithoutUnerased(seq, c) == seq

(* The vector without c: std::remove moves up what is not c.                *)
Without(seq, c) ==
  LET kept[k \in 0..Len(seq)] ==     \* what is kept of the first k
        IF k = 0 THEN <<>> ELSE IF seq[k] = c THEN kept[k - 1] ELSE Append(kept[k - 1], seq[k])
  IN kept[Len(seq)]

remove(c) ==
  /\ c \in Registered
  /\ clients' = Without(clients, c)
  /\ wsClients' = Without(wsClients, c)
  /\ Ended({c})

clearClients ==
  /\ Registered # {}
  /\ clients' = <<>> /\ wsClients' = <<>>
  /\ Ended(Registered)

-----------------------------------------------------------------------------
(* Broadcasting.                                                           *)

Announced == [t \in Threads |-> thread[t].left]
MayAnnounce(n) == broadcastCount + FoldFunction(+, 0, Announced) + n <= MaxBroadcasts

(* emitHealth of an Online or Offline event makes two broadcasts, that of a *)
(* Stats event and alert one.                                               *)
Emit(t, n) ==
  /\ thread[t] = Idle
  /\ MayAnnounce(n)
  /\ thread' = [thread EXCEPT ![t] = [Idle EXCEPT !.at = "cast", !.left = n]]
  /\ UNCHANGED <<registry, broadcastCount, emitNormalized, history>>

(* deliver(evs) has served the sink.                                        *)
Deliver(n) ==
  /\ thread[Consumer] = Idle
  /\ MayAnnounce(n)
  /\ thread' = [thread EXCEPT ![Consumer] = [Idle EXCEPT !.at = "flag", !.left = n]]
  /\ batch' = [size |-> n, made |-> 0]
  /\ UNCHANGED <<registry, broadcastCount, emitNormalized, got, since, spans>>

(* emitNormalized.load(), once for the batch.                               *)
ReadFlag ==
  /\ thread[Consumer].at = "flag"
  /\ thread' = [thread EXCEPT ![Consumer] = IF emitNormalized THEN [@ EXCEPT !.at = "cast"]
                                            ELSE Idle]
  /\ UNCHANGED <<registry, broadcastCount, emitNormalized, history>>

(* broadcast's critical section: the copy of both vectors and the count.    *)
Snapshot(t) ==
  /\ thread[t].at = "cast"
  /\ broadcastCount' = broadcastCount + 1
  /\ thread' = [thread EXCEPT ![t] = [at |-> "send", left |-> @.left - 1,
                                      id |-> broadcastCount + 1,
                                      snapshot |-> clients \o wsClients]]
  /\ batch' = [batch EXCEPT !.made = IF t = Consumer THEN @ + 1 ELSE @]
  /\ UNCHANGED <<registry, emitNormalized, got, since, spans>>

(* Bug: what a client throws ends the loop.                                 *)
RestAborted(snapshot) == IF Head(snapshot) \in Throwing THEN <<>> ELSE Tail(snapshot)

(* Bug: a client that throws is tried again.                                *)
RestRetried(snapshot) == IF Head(snapshot) \in Throwing THEN snapshot ELSE Tail(snapshot)

(* Who is left after the first was sent the message: what it throws is      *)
(* swallowed.                                                               *)
Rest(snapshot) == Tail(snapshot)

(* onMessage or send to the next of the snapshot, registered or not.        *)
Send(t) ==
  /\ thread[t].at = "send" /\ thread[t].snapshot # <<>>
  /\ got' = [got EXCEPT ![Head(thread[t].snapshot)] = @ \cup {thread[t].id}]
  /\ thread' = [thread EXCEPT ![t].snapshot = Rest(@)]
  /\ UNCHANGED <<registry, broadcastCount, emitNormalized, since, spans, batch>>

(* Bug: deliver looks at emitNormalized again for each event.               *)
SentAsksAgain(t) ==
  /\ thread[t].at = "send" /\ thread[t].snapshot = <<>>
  /\ thread' = [thread EXCEPT ![t] = IF @.left = 0 THEN Idle
                                     ELSE [Idle EXCEPT !.left = thread[t].left,
                                             !.at = IF t = Consumer THEN "flag" ELSE "cast"]]
  /\ UNCHANGED <<registry, broadcastCount, emitNormalized, history>>

(* broadcast returns; the next of the thread's broadcasts follows.          *)
Sent(t) ==
  /\ thread[t].at = "send" /\ thread[t].snapshot = <<>>
  /\ thread' = [thread EXCEPT ![t] = IF @.left = 0 THEN Idle
                                     ELSE [Idle EXCEPT !.at = "cast", !.left = thread[t].left]]
  /\ UNCHANGED <<registry, broadcastCount, emitNormalized, history>>

(* reload() stores the new emitRawEvents.                                   *)
Reload(on) ==
  /\ emitNormalized' = on
  /\ UNCHANGED <<registry, broadcastCount, thread, history>>

-----------------------------------------------------------------------------

Proceed(t) == Snapshot(t) \/ Send(t) \/ Sent(t) \/ (t = Consumer /\ ReadFlag)

Next ==
  \/ \E c \in Receivers : add(c) \/ remove(c)
  \/ clearClients
  \/ \E t \in Emitters, n \in 1..2 : Emit(t, n)
  \/ \E n \in 1..MaxBatch : Deliver(n)
  \/ \E t \in Threads : Proceed(t)
  \/ \E on \in BOOLEAN : Reload(on)

Spec == Init /\ [][Next]_vars

(* A thread inside a broadcast goes on; clients return from onMessage.      *)
FairSpec == Spec /\ \A t \in Threads : WF_vars(Proceed(t))

-----------------------------------------------------------------------------
(* Properties.                                                             *)

(* The types; and a client is in a vector, once, exactly while registered.  *)
TypeOK ==
  /\ clients \in Seq(Clients) /\ IsInjective(clients)
  /\ wsClients \in Seq(Sockets) /\ IsInjective(wsClients)
  /\ broadcastCount \in Nat /\ emitNormalized \in BOOLEAN
  /\ thread \in [Threads -> [at : {"idle", "flag", "cast", "send"}, left : Nat, id : Nat,
                             snapshot : Seq(Receivers)]]
  /\ got \in [Receivers -> SUBSET Nat] /\ spans \in [Receivers -> SUBSET Nat]
  /\ since \in [Receivers -> Nat \cup {Away}]
  /\ \A c \in Receivers : since[c] # Away <=> c \in Registered

(* The broadcasts whose snapshot still has c ahead.                         *)
Coming(c) == {thread[t].id : t \in {u \in Threads : c \in ToSet(thread[u].snapshot)}}

(* Each client is handed exactly the broadcasts counted while it was        *)
(* registered, each once, however others register, leave or throw in the    *)
(* meantime; one that has left may still be handed those begun before.      *)
HearsItsBroadcasts ==
  \A c \in Receivers :
    LET owed == spans[c] \cup (IF since[c] = Away THEN {} ELSE (since[c] + 1)..broadcastCount)
    IN got[c] \cup Coming(c) = owed /\ got[c] \cap Coming(c) = {}

(* A batch is broadcast as a whole or not at all, also when reload() turns  *)
(* the broadcast on or off while it goes out.                               *)
BatchesWhole ==
  [][(thread[Consumer] # Idle /\ thread'[Consumer] = Idle) => batch.made \in {0, batch.size}]_vars

(* Every broadcast ends, and with it the call the thread was in: no client  *)
(* keeps a receive thread, the health thread or the consumer for good.      *)
BroadcastsEnd == \A t \in Threads : thread[t] # Idle ~> thread[t] = Idle

=============================================================================
