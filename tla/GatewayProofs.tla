---------------------------- MODULE GatewayProofs ---------------------------
(***************************************************************************)
(* What Gateway satisfies for any clients, configurations, ids, ports and  *)
(* numbers of access points: no two receive threads share a port unless    *)
(* one is being stopped, no Point object is forgotten, a point goes away   *)
(* only when somebody asked for it, and the configuration lists the points *)
(* as they run.                                                            *)
(***************************************************************************)
EXTENDS Gateway, DataLemmas, SequenceTheorems

Used(o) == o \in Objs /\ obj[o] # Unused
Stops(c, o) == o \in call[c].victims

(* The calls that hold lifeMtx, and those of them before manager.reset().   *)
OwnerAt == {"starting", "stopping", "tearing down", "dropping", "converging",
            "restarting", "adding"}
UpAt == OwnerAt \ {"tearing down"}

(* The calls that are not in the middle of stopping points.                 *)
FreeAt == {"idle", "added", "starting", "converging", "restarting"}

IsFrame(f) == DOMAIN f = {"at", "todo", "drop", "victims", "any"}
IsObj(o) == obj[o] = Unused \/ obj[o] = [st |-> obj[o].st, cfg |-> obj[o].cfg, quit |-> obj[o].quit]

(* Where the calls are; what is up.                                         *)
CallInv ==
  /\ DOMAIN call = Clients /\ \A c \in Clients : IsFrame(call[c])
  /\ \A c \in Clients :
       /\ call[c].at \in OwnerAt => lifeMtx = c
       /\ call[c].at \in UpAt => up
       /\ call[c].at \in {"stopping", "tearing down"} => ~running
       /\ call[c].at \in FreeAt => call[c].victims = {}
  /\ running => up
  /\ ~up => DOMAIN points = {}

(* Who owns the Point objects: the map or the call that stops them.         *)
OwnInv ==
  /\ DOMAIN obj = Objs /\ \A o \in Objs : IsObj(o)
  /\ \A i \in DOMAIN points :
       /\ Used(points[i]) /\ obj[points[i]].cfg.id = i
       /\ \A c \in Clients : ~Stops(c, points[i])
  /\ \A i, j \in DOMAIN points :
       obj[points[i]].cfg.port = obj[points[j]].cfg.port => i = j
  /\ \A c \in Clients : \A o \in call[c].victims : Used(o)
  /\ \A c, b \in Clients : \A o : Stops(c, o) /\ Stops(b, o) => c = b
  /\ \A o : Used(o) =>
       \/ obj[o].cfg.id \in DOMAIN points /\ points[obj[o].cfg.id] = o
       \/ \E c \in Clients : Stops(c, o)

IInv == CallInv /\ OwnInv

-----------------------------------------------------------------------------
(* Lemmas.                                                                 *)

LEMMA GoFrame ==
  ASSUME CallInv, NEW c \in Clients, NEW f, Go(c, f)
  PROVE  /\ DOMAIN call' = Clients /\ call'[c] = f
         /\ \A b \in Clients : b # c => call'[b] = call[b]
  BY DEF CallInv, Go

(* The map and the objects stay, and every call has the victims it had.     *)
LEMMA SameOwners ==
  ASSUME OwnInv, UNCHANGED <<points, obj>>,
         \A c \in Clients : call'[c].victims = call[c].victims
  PROVE  OwnInv'
<1>1. \A o : Used(o)' <=> Used(o)
  BY DEF Used
<1>2. \A c \in Clients : \A o : Stops(c, o)' <=> Stops(c, o)
  BY DEF Stops
<1>3. \A o \in Objs : IsObj(o)' <=> IsObj(o)
  BY DEF IsObj
<1>4. QED
  BY <1>1, <1>2, <1>3 DEF OwnInv

(* A thread moves or is told to: its object keeps its configuration.        *)
LEMMA SameObjects ==
  ASSUME OwnInv, UNCHANGED <<points, call>>, NEW o \in Objs, obj[o] # Unused,
         NEW s, NEW q, obj' = [obj EXCEPT ![o] = [st |-> s, cfg |-> obj[o].cfg, quit |-> q]]
  PROVE  OwnInv'
<1>1. [st |-> s, cfg |-> obj[o].cfg, quit |-> q] # Unused
  BY DEF Unused
<1>2. /\ DOMAIN obj' = Objs
      /\ obj'[o] = [st |-> s, cfg |-> obj[o].cfg, quit |-> q]
      /\ \A p \in Objs : p # o => obj'[p] = obj[p]
  BY DEF OwnInv
<1>3. \A p \in Objs : IsObj(p)'
  BY <1>2 DEF OwnInv, IsObj
<1>4. /\ \A p : Used(p)' <=> Used(p)
      /\ \A p : Used(p) => obj'[p].cfg = obj[p].cfg
  BY <1>1, <1>2 DEF Used
<1>5. \A c \in Clients : \A p : Stops(c, p)' <=> Stops(c, p)
  BY DEF Stops
<1>6. QED
  BY <1>2, <1>3, <1>4, <1>5 DEF OwnInv

(* Manager::add of a point it may add: the object is new, so no call stops  *)
(* it and no other id has it, and no registered point has its port.         *)
LEMMA RegisterOwners ==
  ASSUME OwnInv, NEW p, MayAdd(p), register(p),
         \A c \in Clients : call'[c].victims = call[c].victims
  PROVE  OwnInv'
<1>1. PICK o \in FreshObj :
        /\ points' = [i \in DOMAIN points \cup {p.id} |-> IF i = p.id THEN o ELSE points[i]]
        /\ obj' = [obj EXCEPT ![o] = [st |-> IF p.enabled THEN "starting" ELSE "disabled",
                                      cfg |-> p, quit |-> FALSE]]
  BY DEF register
<1>2. o \in Objs /\ obj[o] = Unused
  BY DEF FreshObj
<1> DEFINE s == IF p.enabled THEN "starting" ELSE "disabled"
<1>3. /\ DOMAIN obj' = Objs
      /\ obj'[o] = [st |-> s, cfg |-> p, quit |-> FALSE]
      /\ \A q \in Objs : q # o => obj'[q] = obj[q]
  BY <1>1, <1>2 DEF OwnInv
<1> HIDE DEF s
<1>4. obj'[o] # Unused /\ obj'[o].cfg = p
  BY <1>3 DEF Unused
<1>5. \A q \in Objs : IsObj(q)'
  BY <1>3 DEF OwnInv, IsObj
<1>6. \A q : Used(q)' <=> (Used(q) \/ q = o)
  BY <1>2, <1>3, <1>4 DEF Used
<1>7. ~Used(o) /\ \A c \in Clients : ~Stops(c, o)
  BY <1>2 DEF Used, OwnInv, Stops
<1>8. \A c \in Clients : \A q : Stops(c, q)' <=> Stops(c, q)
  BY DEF Stops
<1>9. \A q : Used(q) => q # o /\ obj'[q] = obj[q]
  BY <1>3, <1>7 DEF Used
<1>10. /\ DOMAIN points' = DOMAIN points \cup {p.id} /\ points'[p.id] = o
       /\ \A i \in DOMAIN points : i # p.id /\ points'[i] = points[i]
  <2>1. p.id \notin DOMAIN points
    BY DEF MayAdd
  <2>2. QED
    BY <1>1, <2>1
<1>11. \A i \in DOMAIN points' :
         /\ Used(points[i])' /\ obj'[points'[i]].cfg.id = i
         /\ \A c \in Clients : ~Stops(c, points[i])'
  <2> SUFFICES ASSUME NEW i \in DOMAIN points'
               PROVE  /\ Used(points[i])' /\ obj'[points'[i]].cfg.id = i
                      /\ \A c \in Clients : ~Stops(c, points[i])'
    OBVIOUS
  <2>1. CASE i = p.id
    BY <1>4, <1>6, <1>7, <1>8, <1>10, <2>1
  <2>2. CASE i # p.id
    <3>1. i \in DOMAIN points /\ points'[i] = points[i] /\ Used(points[i])
      BY <1>10, <2>2 DEF OwnInv
    <3>2. QED
      BY <1>6, <1>8, <1>9, <3>1 DEF OwnInv
  <2>3. QED
    BY <2>1, <2>2
<1>12. \A i, j \in DOMAIN points' :
         obj'[points'[i]].cfg.port = obj'[points'[j]].cfg.port => i = j
  <2>1. \A i \in DOMAIN points : obj'[points'[i]] = obj[points[i]]
    BY <1>9, <1>10 DEF OwnInv
  <2>2. \A i \in DOMAIN points : obj[points[i]].cfg.port # p.port
    BY DEF MayAdd, PortInUse
  <2>3. QED
    BY <1>4, <1>10, <2>1, <2>2 DEF OwnInv
<1>13. \A q : Used(q)' =>
         \/ obj'[q].cfg.id \in DOMAIN points' /\ points'[obj'[q].cfg.id] = q
         \/ \E c \in Clients : Stops(c, q)'
  <2> SUFFICES ASSUME NEW q, Used(q)'
               PROVE  \/ obj'[q].cfg.id \in DOMAIN points' /\ points'[obj'[q].cfg.id] = q
                      \/ \E c \in Clients : Stops(c, q)'
    OBVIOUS
  <2>1. CASE q = o
    BY <1>4, <1>10, <2>1
  <2>2. CASE q # o
    <3>1. Used(q) /\ obj'[q] = obj[q]
      BY <1>6, <1>9, <2>2
    <3>2. QED
      BY <1>8, <1>10, <3>1 DEF OwnInv
  <2>3. QED
    BY <2>1, <2>2
<1>14. /\ \A c \in Clients : \A q \in call'[c].victims : Used(q)'
       /\ \A c, b \in Clients : \A q : Stops(c, q)' /\ Stops(b, q)' => c = b
  BY <1>6, <1>8 DEF OwnInv
<1>15. QED
  BY <1>3, <1>5, <1>11, <1>12, <1>13, <1>14 DEF OwnInv

(* The points registered under the ids of S leave the map, and one call,    *)
(* which was stopping nothing, stops them.                                  *)
LEMMA HandOver ==
  ASSUME OwnInv, NEW S, NEW c \in Clients, UNCHANGED obj,
         call[c].victims = {},
         DOMAIN points' = DOMAIN points \ S,
         \A i \in DOMAIN points' : points'[i] = points[i],
         call'[c].victims = {points[i] : i \in DOMAIN points \cap S},
         \A b \in Clients : b # c => call'[b].victims = call[b].victims
  PROVE  OwnInv'
<1>1. \A o : Used(o)' <=> Used(o)
  BY DEF Used
<1>2. \A o \in Objs : IsObj(o)' <=> IsObj(o)
  BY DEF IsObj
<1>3. /\ \A b \in Clients : b # c => \A o : Stops(b, o)' <=> Stops(b, o)
      /\ \A o : ~Stops(c, o)
      /\ \A o : Stops(c, o)' <=> \E i \in DOMAIN points \cap S : o = points[i]
  BY DEF Stops
<1>4. \A i, j \in DOMAIN points : points[i] = points[j] => i = j
  BY DEF OwnInv
<1>5. \A i \in DOMAIN points' :
        /\ Used(points[i])' /\ obj'[points'[i]].cfg.id = i
        /\ \A b \in Clients : ~Stops(b, points[i])'
  BY <1>1, <1>3, <1>4 DEF OwnInv
<1>6. \A b \in Clients : \A o \in call'[b].victims : Used(o)'
  BY <1>1 DEF OwnInv
<1>7. \A b, e \in Clients : \A o : Stops(b, o)' /\ Stops(e, o)' => b = e
  BY <1>3 DEF OwnInv
<1>8. \A o : Used(o)' =>
        \/ obj'[o].cfg.id \in DOMAIN points' /\ points'[obj'[o].cfg.id] = o
        \/ \E b \in Clients : Stops(b, o)'
  <2> SUFFICES ASSUME NEW o, Used(o)
               PROVE  \/ obj[o].cfg.id \in DOMAIN points' /\ points'[obj[o].cfg.id] = o
                      \/ \E b \in Clients : Stops(b, o)'
    BY <1>1
  <2>1. CASE obj[o].cfg.id \in DOMAIN points /\ points[obj[o].cfg.id] = o
    BY <1>3, <2>1
  <2>2. CASE \E b \in Clients : Stops(b, o)
    BY <1>3, <2>2
  <2>3. QED
    BY <2>1, <2>2 DEF OwnInv
<1>9. \A i, j \in DOMAIN points' :
        obj'[points'[i]].cfg.port = obj'[points'[j]].cfg.port => i = j
  BY DEF OwnInv
<1>10. QED
  BY <1>2, <1>5, <1>6, <1>7, <1>8, <1>9 DEF OwnInv

(* manager->remove of an id, known or not.                                  *)
LEMMA UnregisterOwners ==
  ASSUME OwnInv, NEW c \in Clients, NEW id, unregister(id), UNCHANGED obj,
         call[c].victims = {},
         call'[c].victims = IF id \in DOMAIN points THEN {points[id]} ELSE {},
         \A b \in Clients : b # c => call'[b].victims = call[b].victims
  PROVE  OwnInv'
<1>1. points' = [i \in DOMAIN points \ {id} |-> points[i]]
  BY DEF unregister, Restrict
<1>2. DOMAIN points' = DOMAIN points \ {id} /\ \A i \in DOMAIN points' : points'[i] = points[i]
  BY <1>1
<1>3. call'[c].victims = {points[i] : i \in DOMAIN points \cap {id}}
  OBVIOUS
<1>4. QED
  BY <1>2, <1>3, HandOver

(* stopAll(), and the manager's destructor.                                 *)
LEMMA EmptiedOwners ==
  ASSUME OwnInv, NEW c \in Clients, points' = <<>>, UNCHANGED obj,
         call[c].victims = {}, call'[c].victims = Range(points),
         \A b \in Clients : b # c => call'[b].victims = call[b].victims
  PROVE  OwnInv'
<1>1. DOMAIN points' = DOMAIN points \ DOMAIN points
  OBVIOUS
<1>2. call'[c].victims = {points[i] : i \in DOMAIN points \cap DOMAIN points}
  BY DEF Range
<1>3. \A i \in DOMAIN points' : points'[i] = points[i]
  BY <1>1
<1>4. QED
  BY <1>1, <1>2, <1>3, HandOver

(* The joined point is destroyed; nobody else knew it.                      *)
LEMMA JoinOwners ==
  ASSUME IInv, NEW c \in Clients, NEW o \in Objs, JoinVictim(c, o)
  PROVE  OwnInv'
<1>1. o \in call[c].victims /\ obj' = [obj EXCEPT ![o] = Unused] /\ points' = points
  BY DEF JoinVictim
<1>2. /\ call'[c].victims = call[c].victims \ {o}
      /\ \A b \in Clients : b # c => call'[b].victims = call[b].victims
  <2>1. /\ call'[c] = [call[c] EXCEPT !.victims = @ \ {o}]
        /\ \A b \in Clients : b # c => call'[b] = call[b]
    BY GoFrame DEF JoinVictim, IInv
  <2>2. IsFrame(call[c])
    BY DEF IInv, CallInv
  <2>3. QED
    BY <2>1, <2>2 DEF IsFrame
<1>3. DOMAIN obj' = Objs /\ obj'[o] = Unused /\ \A q \in Objs : q # o => obj'[q] = obj[q]
  BY <1>1 DEF IInv, OwnInv
<1>4. \A q : Used(q)' <=> Used(q) /\ q # o
  BY <1>3 DEF Used
<1>5. \A b \in Clients : \A q : Stops(b, q)' <=> Stops(b, q) /\ q # o
  <2>1. \A b \in Clients : Stops(b, o) => b = c
    BY <1>1 DEF IInv, OwnInv, Stops
  <2>2. QED
    BY <1>2, <2>1 DEF Stops
<1>6. \A i \in DOMAIN points : points[i] # o
  BY <1>1 DEF IInv, OwnInv, Stops
<1>7. \A q : Used(q)' => Used(q) /\ obj'[q] = obj[q]
  BY <1>3, <1>4 DEF Used
<1>8. \A q \in Objs : IsObj(q)'
  BY <1>3 DEF IInv, OwnInv, IsObj
<1>9. \A i \in DOMAIN points' :
        /\ Used(points[i])' /\ obj'[points'[i]].cfg.id = i
        /\ \A b \in Clients : ~Stops(b, points[i])'
  BY <1>1, <1>4, <1>5, <1>6, <1>7 DEF IInv, OwnInv
<1>10. \A i, j \in DOMAIN points' :
         obj'[points'[i]].cfg.port = obj'[points'[j]].cfg.port => i = j
  <2>1. \A i \in DOMAIN points : obj'[points[i]] = obj[points[i]]
    BY <1>3, <1>6 DEF IInv, OwnInv, Used
  <2>2. QED
    BY <1>1, <2>1 DEF IInv, OwnInv
<1>11. \A b \in Clients : \A q \in call'[b].victims : Used(q)'
  <2>1. \A b \in Clients : \A q \in call'[b].victims : Stops(b, q) /\ q # o
    BY <1>5 DEF Stops
  <2>2. QED
    BY <1>4, <2>1 DEF IInv, OwnInv, Stops
<1>12. \A b, e \in Clients : \A q : Stops(b, q)' /\ Stops(e, q)' => b = e
  BY <1>5 DEF IInv, OwnInv
<1>13. \A q : Used(q)' =>
         \/ obj'[q].cfg.id \in DOMAIN points' /\ points'[obj'[q].cfg.id] = q
         \/ \E b \in Clients : Stops(b, q)'
  BY <1>1, <1>4, <1>5, <1>7 DEF IInv, OwnInv
<1>14. QED
  BY <1>3, <1>8, <1>9, <1>10, <1>11, <1>12, <1>13 DEF OwnInv

Frames(f, at, victims) == IsFrame(f) /\ f.at = at /\ f.victims = victims

(* The frames the calls make of the one they are in.                        *)
LEMMA NewFrame ==
  ASSUME NEW r, IsFrame(r)
  PROVE  /\ \A at : Frames([r EXCEPT !.at = at], at, r.victims)
         /\ \A at, todo : Frames([r EXCEPT !.at = at, !.todo = todo], at, r.victims)
         /\ \A at, todo, drop :
              Frames([r EXCEPT !.at = at, !.todo = todo, !.drop = drop], at, r.victims)
         /\ \A at, victims : Frames([r EXCEPT !.at = at, !.victims = victims], at, victims)
         /\ \A at, drop, victims :
              Frames([r EXCEPT !.at = at, !.drop = drop, !.victims = victims], at, victims)
         /\ \A drop, victims : Frames([r EXCEPT !.drop = drop, !.victims = victims], r.at, victims)
         /\ \A victims : Frames([r EXCEPT !.victims = victims], r.at, victims)
         /\ \A todo : Frames([r EXCEPT !.todo = todo], r.at, r.victims)
         /\ \A todo, any : Frames([r EXCEPT !.todo = todo, !.any = any], r.at, r.victims)
<1>1. \A at : Frames([r EXCEPT !.at = at], at, r.victims)
  BY DEF Frames, IsFrame
<1>2. \A at, todo : Frames([r EXCEPT !.at = at, !.todo = todo], at, r.victims)
  BY DEF Frames, IsFrame
<1>3. \A at, todo, drop : Frames([r EXCEPT !.at = at, !.todo = todo, !.drop = drop], at, r.victims)
  BY DEF Frames, IsFrame
<1>4. \A at, victims : Frames([r EXCEPT !.at = at, !.victims = victims], at, victims)
  BY DEF Frames, IsFrame
<1>5. \A at, drop, victims :
        Frames([r EXCEPT !.at = at, !.drop = drop, !.victims = victims], at, victims)
  BY DEF Frames, IsFrame
<1>6. \A drop, victims : Frames([r EXCEPT !.drop = drop, !.victims = victims], r.at, victims)
  BY DEF Frames, IsFrame
<1>7. \A victims : Frames([r EXCEPT !.victims = victims], r.at, victims)
  BY DEF Frames, IsFrame
<1>8. \A todo : Frames([r EXCEPT !.todo = todo], r.at, r.victims)
  BY DEF Frames, IsFrame
<1>9. \A todo, any : Frames([r EXCEPT !.todo = todo, !.any = any], r.at, r.victims)
  BY DEF Frames, IsFrame
<1>10. QED
  BY <1>1, <1>2, <1>3, <1>4, <1>5, <1>6, <1>7, <1>8, <1>9

(* A call goes on with frame f, and what the frames need holds after it.    *)
LEMMA FrameStep ==
  ASSUME CallInv, NEW c \in Clients, NEW f, Go(c, f), IsFrame(f),
         f.at \in OwnerAt => lifeMtx' = c,
         f.at \in UpAt => up',
         f.at \in {"stopping", "tearing down"} => ~running',
         f.at \in FreeAt => f.victims = {},
         \A b \in Clients \ {c} : call[b].at \in OwnerAt => lifeMtx' = b,
         \A b \in Clients \ {c} : call[b].at \in UpAt => up',
         \A b \in Clients \ {c} : call[b].at \in {"stopping", "tearing down"} => ~running',
         running' => up', ~up' => DOMAIN points' = {}
  PROVE  CallInv'
<1>1. /\ DOMAIN call' = Clients /\ call'[c] = f
      /\ \A b \in Clients : b # c => call'[b] = call[b]
  BY GoFrame
<1>2. \A b \in Clients : IsFrame(call[b])'
  BY <1>1 DEF CallInv, IsFrame
<1>3. ASSUME NEW b \in Clients
      PROVE  /\ call'[b].at \in OwnerAt => lifeMtx' = b
             /\ call'[b].at \in UpAt => up'
             /\ call'[b].at \in {"stopping", "tearing down"} => ~running'
             /\ call'[b].at \in FreeAt => call'[b].victims = {}
  <2>1. CASE b = c
    BY <1>1, <2>1
  <2>2. CASE b # c
    <3>1. b \in Clients \ {c} /\ call'[b] = call[b]
      BY <1>1, <2>2
    <3>2. call[b].at \in FreeAt => call[b].victims = {}
      BY DEF CallInv
    <3>3. QED
      BY <3>1, <3>2
  <2>3. QED
    BY <2>1, <2>2
<1>4. QED
  BY <1>1, <1>2, <1>3 DEF CallInv

(* A step inside addPoint, removePoint, start or reload, or a join.         *)
LEMMA StepInside ==
  ASSUME CallInv, NEW c \in Clients, NEW f, Go(c, f), IsFrame(f),
         UNCHANGED <<running, up, lifeMtx>>,
         \/ f.at = call[c].at
         \/ f.at \notin OwnerAt
         \/ call[c].at \in UpAt /\ f.at \in UpAt \ {"stopping"},
         f.at \in FreeAt => f.victims = {},
         ~up => DOMAIN points' = {}
  PROVE  CallInv'
<1>1. /\ f.at \in OwnerAt => lifeMtx' = c
      /\ f.at \in UpAt => up'
      /\ f.at \in {"stopping", "tearing down"} => ~running'
  BY DEF CallInv, OwnerAt, UpAt
<1>2. \A b \in Clients \ {c} :
        /\ call[b].at \in OwnerAt => lifeMtx' = b
        /\ call[b].at \in UpAt => up'
        /\ call[b].at \in {"stopping", "tearing down"} => ~running'
  BY DEF CallInv
<1>3. running' => up'
  BY DEF CallInv
<1>4. QED
  BY <1>1, <1>2, <1>3, FrameStep

(* Whoever holds lifeMtx, or finds it free, is the only one to hold it.     *)
LEMMA OnlyOwner ==
  ASSUME CallInv, NEW c \in Clients, lifeMtx = NoClient \/ call[c].at \in OwnerAt
  PROVE  \A b \in Clients \ {c} : call[b].at \notin OwnerAt
  BY GatewayAssumption DEF CallInv

(* A call takes or gives back lifeMtx, or takes the next step of stopping.  *)
LEMMA OwnerStep ==
  ASSUME CallInv, NEW c \in Clients, NEW f, Go(c, f), IsFrame(f),
         lifeMtx = NoClient \/ call[c].at \in OwnerAt,
         f.at \in OwnerAt => lifeMtx' = c,
         f.at \in UpAt => up',
         f.at \in {"stopping", "tearing down"} => ~running',
         f.at \in FreeAt => f.victims = {},
         running' => up', ~up' => DOMAIN points' = {}
  PROVE  CallInv'
<1>1. \A b \in Clients \ {c} : call[b].at \notin OwnerAt
  BY OnlyOwner
<1>2. \A b \in Clients \ {c} :
        /\ call[b].at \in OwnerAt => lifeMtx' = b
        /\ call[b].at \in UpAt => up'
        /\ call[b].at \in {"stopping", "tearing down"} => ~running'
  BY <1>1 DEF OwnerAt, UpAt
<1>3. QED
  BY <1>2, FrameStep

-----------------------------------------------------------------------------
(* The invariant.                                                          *)

LEMMA InitInv == Init => IInv
<1> SUFFICES ASSUME Init PROVE IInv
  OBVIOUS
<1>1. DOMAIN points = {} /\ DOMAIN obj = Objs /\ \A o \in Objs : obj[o] = Unused
  BY DEF Init
<1>2. DOMAIN call = Clients /\ \A c \in Clients : call[c] = Returned
  BY DEF Init
<1>3. \A c \in Clients : IsFrame(call[c]) /\ call[c].at = "idle" /\ call[c].victims = {}
  BY <1>2 DEF Returned, IsFrame
<1>4. CallInv
  BY <1>1, <1>2, <1>3 DEF CallInv, Init, OwnerAt, UpAt
<1>5. \A o : ~Used(o)
  BY <1>1 DEF Used
<1>6. \A c \in Clients : \A o : ~Stops(c, o)
  BY <1>3 DEF Stops
<1>7. OwnInv
  BY <1>1, <1>3, <1>5, <1>6 DEF OwnInv, IsObj
<1>8. QED
  BY <1>4, <1>7 DEF IInv

(* The call goes on, stopping what it stopped; map and objects stay.        *)
LEMMA QuietInv ==
  ASSUME IInv, CallInv', NEW c \in Clients, NEW f, Go(c, f),
         f.victims = call[c].victims, UNCHANGED <<points, obj>>
  PROVE  IInv'
<1>1. \A b \in Clients : call'[b].victims = call[b].victims
  BY GoFrame DEF IInv
<1>2. QED
  BY <1>1, SameOwners DEF IInv

(* The steps that leave the map and the objects alone.                      *)
LEMMA QuietStepInv ==
  ASSUME IInv, NEW c \in Clients,
         \/ AddPointWritesBack(c) \/ RemovePointWritesBack(c)
         \/ StartDone(c) \/ StopDone(c) \/ ReloadDropped(c) \/ ReloadLooks(c) \/ ReloadDone(c)
         \/ \E new \in Configs : StartBegins(c, new) \/ ReloadBegins(c, new)
  PROVE  IInv'
<1>1. UNCHANGED <<points, obj>>
  BY DEF AddPointWritesBack, RemovePointWritesBack, StartDone, StopDone, ReloadDropped,
         ReloadLooks, ReloadDone, StartBegins, ReloadBegins
<1>2. IsFrame(call[c]) /\ CallInv /\ (~up => DOMAIN points' = {}) /\ (running => up)
  BY <1>1 DEF IInv, CallInv
<1>3. IsFrame(Returned) /\ Returned.at = "idle" /\ Returned.victims = {}
  BY DEF IsFrame, Returned
<1>4. CASE AddPointWritesBack(c) \/ RemovePointWritesBack(c)
  <2>1. Go(c, Returned) /\ UNCHANGED <<running, up, lifeMtx>>
    BY <1>4 DEF AddPointWritesBack, RemovePointWritesBack, Finish
  <2>2. CallInv'
    BY <1>2, <1>3, <2>1, StepInside DEF OwnerAt
  <2>3. call[c].victims = {}
    BY <1>2, <1>4 DEF AddPointWritesBack, RemovePointWritesBack, CallInv, FreeAt
  <2>4. QED
    BY <1>1, <1>3, <2>1, <2>2, <2>3, QuietInv
<1>5. CASE StartDone(c) \/ StopDone(c) \/ ReloadDone(c)
  <2>1. Go(c, Returned) /\ UNCHANGED <<running, up>> /\ call[c].at \in OwnerAt
    BY <1>5 DEF StartDone, StopDone, ReloadDone, Finish, OwnerAt
  <2>2. CallInv'
    BY <1>2, <1>3, <2>1, OwnerStep DEF OwnerAt, UpAt
  <2>3. call[c].victims = {}
    BY <1>2, <1>5 DEF StartDone, StopDone, ReloadDone, CallInv, FreeAt
  <2>4. QED
    BY <1>1, <1>3, <2>1, <2>2, <2>3, QuietInv
<1>6. CASE ReloadDropped(c)
  <2> DEFINE f == [call[c] EXCEPT !.at = "converging"]
  <2>1. Frames(f, "converging", call[c].victims)
    BY <1>2, NewFrame
  <2>2. /\ Go(c, f) /\ UNCHANGED <<running, up, lifeMtx>>
        /\ call[c].at = "dropping" /\ call[c].victims = {}
    BY <1>6 DEF ReloadDropped
  <2> HIDE DEF f
  <2>3. CallInv'
    BY <1>2, <2>1, <2>2, StepInside DEF OwnerAt, UpAt, Frames
  <2>4. QED
    BY <1>1, <2>1, <2>2, <2>3, QuietInv DEF Frames
<1>7. CASE ReloadLooks(c)
  <2>1. PICK f : /\ Go(c, f) /\ IsFrame(f) /\ f.at \in {"converging", "restarting", "adding"}
                 /\ f.victims = call[c].victims
    <3> DEFINE skips == [call[c] EXCEPT !.todo = Tail(@)]
               restarts == [call[c] EXCEPT !.at = "restarting"]
               adds == [call[c] EXCEPT !.at = "adding"]
    <3>1. call[c].at = "converging"
      BY <1>7 DEF ReloadLooks
    <3>2. Go(c, skips) \/ Go(c, restarts) \/ Go(c, adds)
      BY <1>7 DEF ReloadLooks
    <3>3. /\ Frames(skips, "converging", call[c].victims)
          /\ Frames(restarts, "restarting", call[c].victims)
          /\ Frames(adds, "adding", call[c].victims)
      BY <1>2, <3>1, NewFrame
    <3> HIDE DEF skips, restarts, adds
    <3>4. QED
      BY <3>2, <3>3 DEF Frames
  <2>2. /\ UNCHANGED <<running, up, lifeMtx>>
        /\ call[c].at = "converging" /\ call[c].victims = {}
    BY <1>2, <1>7 DEF ReloadLooks, CallInv, FreeAt
  <2>3. CallInv'
    BY <1>2, <2>1, <2>2, StepInside DEF OwnerAt, UpAt
  <2>4. QED
    BY <1>1, <2>1, <2>3, QuietInv
<1>8. ASSUME NEW new \in Configs, StartBegins(c, new) PROVE IInv'
  <2> DEFINE f == [Returned EXCEPT !.at = "starting", !.todo = new]
  <2>1. Frames(f, "starting", {})
    <3>1. Frames(f, "starting", Returned.victims)
      BY <1>3, NewFrame
    <3>2. QED
      BY <1>3, <3>1
  <2>2. Go(c, f) /\ up' /\ lifeMtx' = c /\ lifeMtx = NoClient /\ call[c].at = "idle"
    BY <1>8 DEF StartBegins
  <2> HIDE DEF f
  <2>3. CallInv'
    BY <1>2, <2>1, <2>2, OwnerStep DEF OwnerAt, Frames
  <2>4. call[c].victims = {}
    BY <1>2, <2>2 DEF CallInv, FreeAt
  <2>5. QED
    BY <1>1, <2>1, <2>2, <2>3, <2>4, QuietInv DEF Frames
<1>9. ASSUME NEW new \in Configs, ReloadBegins(c, new) PROVE IInv'
  <2>1. CASE running
    <3> DEFINE f == [Returned EXCEPT !.at = "dropping", !.todo = new,
                       !.drop = {i \in DOMAIN points : \A k \in DOMAIN new : new[k].id # i}]
    <3>1. Frames(f, "dropping", {})
      <4>1. Frames(f, "dropping", Returned.victims)
        BY <1>3, NewFrame
      <4>2. QED
        BY <1>3, <4>1
    <3>2. /\ Go(c, f) /\ UNCHANGED <<running, up>> /\ lifeMtx' = c
          /\ lifeMtx = NoClient /\ call[c].at = "idle"
      BY <1>9, <2>1 DEF ReloadBegins
    <3> HIDE DEF f
    <3>3. CallInv'
      BY <1>2, <2>1, <3>1, <3>2, OwnerStep DEF OwnerAt, FreeAt, Frames
    <3>4. call[c].victims = {}
      BY <1>2, <3>2 DEF CallInv, FreeAt
    <3>5. QED
      BY <1>1, <3>1, <3>2, <3>3, <3>4, QuietInv DEF Frames
  <2>2. CASE ~running
    <3>1. UNCHANGED <<call, lifeMtx, running, up>>
      BY <1>9, <2>2 DEF ReloadBegins
    <3>2. CallInv'
      BY <1>1, <3>1 DEF IInv, CallInv, IsFrame
    <3>3. QED
      BY <1>1, <3>1, <3>2, SameOwners DEF IInv
  <2>3. QED
    BY <2>1, <2>2
<1>10. QED
  BY <1>4, <1>5, <1>6, <1>7, <1>8, <1>9

(* manager->add, which succeeds or changes nothing.                         *)
LEMMA AddStepInv ==
  ASSUME IInv, NEW c \in Clients, NEW f, Go(c, f), IsFrame(f), f.victims = call[c].victims,
         UNCHANGED <<running, up, lifeMtx>>, up, call[c].victims = {},
         \/ f.at = call[c].at
         \/ f.at \notin OwnerAt
         \/ call[c].at \in UpAt /\ f.at \in UpAt \ {"stopping"},
         \/ \E p : MayAdd(p) /\ register(p)
         \/ UNCHANGED <<points, obj>>
  PROVE  IInv'
<1>1. CallInv'
  BY StepInside DEF IInv
<1>2. \A b \in Clients : call'[b].victims = call[b].victims
  BY GoFrame DEF IInv
<1>3. OwnInv'
  BY <1>2, RegisterOwners, SameOwners DEF IInv
<1>4. QED
  BY <1>1, <1>3 DEF IInv

LEMMA RegisterStepInv ==
  ASSUME IInv, NEW c \in Clients,
         \/ \E p \in PointConfigs : AddPoint(c, p)
         \/ StartOne(c) \/ ReloadAdds(c)
  PROVE  IInv'
<1>1. CallInv /\ IsFrame(call[c])
  BY DEF IInv, CallInv
<1>2. ASSUME NEW p \in PointConfigs, AddPoint(c, p) PROVE IInv'
  <2> DEFINE f == [Returned EXCEPT !.at = "added", !.todo = <<p>>]
  <2>1. IsFrame(Returned) /\ Returned.victims = {}
    BY DEF IsFrame, Returned
  <2>2. Frames(f, "added", Returned.victims)
    BY <2>1, NewFrame
  <2>3. /\ Go(c, f) /\ MayAdd(p) /\ register(p) /\ call[c].at = "idle"
        /\ UNCHANGED <<running, up, lifeMtx>> /\ up
    BY <1>2 DEF AddPoint
  <2> HIDE DEF f
  <2>4. call[c].victims = {}
    BY <1>1, <2>3 DEF CallInv, FreeAt
  <2>5. f.victims = call[c].victims /\ IsFrame(f) /\ f.at \notin OwnerAt
    BY <2>1, <2>2, <2>4 DEF Frames, OwnerAt
  <2>6. QED
    BY <2>3, <2>4, <2>5, AddStepInv
<1>3. CASE StartOne(c)
  <2>1. PICK ok \in BOOLEAN :
          /\ Go(c, [call[c] EXCEPT !.todo = Tail(@), !.any = @ \/ ok])
          /\ (\E p : MayAdd(p) /\ register(p)) \/ UNCHANGED <<points, obj>>
    BY <1>3 DEF StartOne
  <2> DEFINE f == [call[c] EXCEPT !.todo = Tail(@), !.any = @ \/ ok]
  <2>2. Frames(f, call[c].at, call[c].victims)
    BY <1>1, NewFrame
  <2>3. Go(c, f)
    BY <2>1
  <2> HIDE DEF f
  <2>4. UNCHANGED <<running, up, lifeMtx>> /\ call[c].at = "starting"
    BY <1>3 DEF StartOne
  <2>5. call[c].victims = {} /\ up
    BY <1>1, <2>4 DEF CallInv, FreeAt, UpAt, OwnerAt
  <2>6. QED
    BY <2>1, <2>2, <2>3, <2>4, <2>5, AddStepInv DEF Frames
<1>4. CASE ReloadAdds(c)
  <2> DEFINE f == [call[c] EXCEPT !.at = "converging", !.todo = Tail(@)]
  <2>1. Frames(f, "converging", call[c].victims)
    BY <1>1, NewFrame
  <2>2. /\ Go(c, f) /\ UNCHANGED <<running, up, lifeMtx>>
        /\ call[c].at = "adding" /\ call[c].victims = {}
        /\ (\E p : MayAdd(p) /\ register(p)) \/ UNCHANGED <<points, obj>>
    BY <1>4 DEF ReloadAdds, add
  <2> HIDE DEF f
  <2>3. call[c].at \in UpAt /\ f.at \in UpAt \ {"stopping"}
    BY <2>1, <2>2 DEF Frames, UpAt, OwnerAt
  <2>4. up
    BY <1>1, <2>3 DEF CallInv
  <2>5. QED
    BY <2>1, <2>2, <2>3, <2>4, AddStepInv DEF Frames
<1>5. QED
  BY <1>2, <1>3, <1>4

(* manager->remove; the caller goes on to stop the point it got.            *)
LEMMA RemoveStepInv ==
  ASSUME IInv, NEW c \in Clients, NEW f, Go(c, f), IsFrame(f), NEW id, unregister(id),
         UNCHANGED <<running, up, lifeMtx, obj>>, call[c].victims = {},
         \/ f.at \notin OwnerAt
         \/ call[c].at \in UpAt /\ f.at \in UpAt \ {"stopping"},
         f.at \notin FreeAt,
         f.victims = IF id \in DOMAIN points THEN {points[id]} ELSE {}
  PROVE  IInv'
<1>1. DOMAIN points' = DOMAIN points \ {id}
  BY DEF unregister, Restrict
<1>2. ~up => DOMAIN points' = {}
  BY <1>1 DEF IInv, CallInv
<1>3. CallInv'
  BY <1>2, StepInside DEF IInv
<1>4. call'[c] = f /\ \A b \in Clients : b # c => call'[b].victims = call[b].victims
  BY GoFrame DEF IInv
<1>5. OwnInv'
  BY <1>4, UnregisterOwners DEF IInv
<1>6. QED
  BY <1>3, <1>5 DEF IInv

LEMMA UnregisterStepInv ==
  ASSUME IInv, NEW c \in Clients,
         \/ \E id \in Ids : RemovePoint(c, id) \/ ReloadDrops(c, id)
         \/ ReloadRemoves(c)
  PROVE  IInv'
<1>1. CallInv /\ IsFrame(call[c])
  BY DEF IInv, CallInv
<1>2. ASSUME NEW id \in Ids, RemovePoint(c, id) PROVE IInv'
  <2> DEFINE f == [Returned EXCEPT !.at = "removed", !.drop = {id}, !.victims = {points[id]}]
  <2>1. IsFrame(Returned)
    BY DEF IsFrame, Returned
  <2>2. Frames(f, "removed", {points[id]})
    BY <2>1, NewFrame
  <2>3. /\ Go(c, f) /\ unregister(id) /\ call[c].at = "idle" /\ id \in DOMAIN points
        /\ UNCHANGED <<running, up, lifeMtx, obj>>
    BY <1>2 DEF RemovePoint
  <2> HIDE DEF f
  <2>4. call[c].victims = {}
    BY <1>1, <2>3 DEF CallInv, FreeAt
  <2>5. IsFrame(f) /\ f.at \notin OwnerAt /\ f.at \notin FreeAt /\ f.victims = {points[id]}
    BY <2>2 DEF Frames, OwnerAt, FreeAt
  <2>6. QED
    BY <2>3, <2>4, <2>5, RemoveStepInv
<1>3. ASSUME NEW id \in Ids, ReloadDrops(c, id) PROVE IInv'
  <2> DEFINE left == IF id \in DOMAIN points THEN {points[id]} ELSE {}
             f == [call[c] EXCEPT !.drop = @ \ {id}, !.victims = left]
  <2>1. Frames(f, call[c].at, left)
    BY <1>1, NewFrame
  <2>2. /\ Go(c, f) /\ unregister(id) /\ call[c].at = "dropping" /\ call[c].victims = {}
        /\ UNCHANGED <<running, up, lifeMtx, obj>>
    BY <1>3 DEF ReloadDrops
  <2> HIDE DEF f
  <2>3. /\ IsFrame(f) /\ call[c].at \in UpAt /\ f.at \in UpAt \ {"stopping"}
        /\ f.at \notin FreeAt /\ f.victims = left
    BY <2>1, <2>2 DEF Frames, OwnerAt, UpAt, FreeAt
  <2>4. QED
    BY <2>2, <2>3, RemoveStepInv
<1>4. CASE ReloadRemoves(c)
  <2> DEFINE id == Head(call[c].todo).id
             left == IF id \in DOMAIN points THEN {points[id]} ELSE {}
             f == [call[c] EXCEPT !.at = "adding", !.victims = left]
  <2>1. Frames(f, "adding", left)
    BY <1>1, NewFrame
  <2>2. /\ Go(c, f) /\ unregister(id) /\ call[c].at = "restarting"
        /\ UNCHANGED <<running, up, lifeMtx, obj>>
    BY <1>4 DEF ReloadRemoves
  <2> HIDE DEF f, id
  <2>3. call[c].victims = {}
    BY <1>1, <2>2 DEF CallInv, FreeAt
  <2>4. /\ IsFrame(f) /\ call[c].at \in UpAt /\ f.at \in UpAt \ {"stopping"}
        /\ f.at \notin FreeAt /\ f.victims = left
    BY <2>1, <2>2 DEF Frames, OwnerAt, UpAt, FreeAt
  <2>5. QED
    BY <2>2, <2>3, <2>4, RemoveStepInv
<1>5. QED
  BY <1>2, <1>3, <1>4

(* stopAll() and manager.reset(); lifeMtx is the caller's.                  *)
LEMMA EmptyStepInv ==
  ASSUME IInv, NEW c \in Clients, StartFails(c) \/ StopBegins(c) \/ Teardown(c)
  PROVE  IInv'
<1>1. CallInv /\ IsFrame(call[c])
  BY DEF IInv, CallInv
<1>2. points' = <<>> /\ obj' = obj /\ DOMAIN points' = {}
  BY DEF StartFails, StopBegins, Teardown, stopAll
<1>3. ASSUME NEW f, Go(c, f), f.victims = Range(points), call[c].victims = {} PROVE OwnInv'
  <2>1. call'[c] = f /\ \A b \in Clients : b # c => call'[b].victims = call[b].victims
    BY <1>1, <1>3, GoFrame
  <2>2. QED
    BY <1>2, <1>3, <2>1, EmptiedOwners DEF IInv
<1>4. CASE StartFails(c) \/ StopBegins(c)
  <2> DEFINE f == [Returned EXCEPT !.at = "stopping", !.victims = Range(points)]
  <2>1. IsFrame(Returned)
    BY DEF IsFrame, Returned
  <2>2. Frames(f, "stopping", Range(points))
    BY <2>1, NewFrame
  <2>3. Go(c, f) /\ ~running' /\ up' = up
    BY <1>4 DEF StartFails, StopBegins, stopAll
  <2> HIDE DEF f
  <2>4. /\ lifeMtx = NoClient \/ call[c].at \in OwnerAt
        /\ lifeMtx' = c /\ up /\ call[c].victims = {}
    <3>1. CASE StartFails(c)
      <4>1. call[c].at = "starting" /\ lifeMtx' = lifeMtx
        BY <3>1 DEF StartFails
      <4>2. QED
        BY <1>1, <4>1 DEF CallInv, OwnerAt, UpAt, FreeAt
    <3>2. CASE StopBegins(c)
      <4>1. call[c].at = "idle" /\ lifeMtx = NoClient /\ lifeMtx' = c /\ running
        BY <3>2 DEF StopBegins
      <4>2. QED
        BY <1>1, <4>1 DEF CallInv, FreeAt
    <3>3. QED
      BY <1>4, <3>1, <3>2
  <2>5. /\ IsFrame(f) /\ f.victims = Range(points) /\ f.at = "stopping" /\ f.at \notin FreeAt
    BY <2>2 DEF Frames, FreeAt
  <2>6. CallInv'
    BY <1>1, <1>2, <2>3, <2>4, <2>5, OwnerStep
  <2>7. QED
    BY <1>3, <2>3, <2>4, <2>5, <2>6 DEF IInv
<1>5. CASE Teardown(c)
  <2> DEFINE f == [call[c] EXCEPT !.at = "tearing down", !.victims = Range(points)]
  <2>1. Frames(f, "tearing down", Range(points))
    BY <1>1, NewFrame
  <2>2. /\ Go(c, f) /\ ~up' /\ UNCHANGED <<running, lifeMtx>>
        /\ call[c].at = "stopping" /\ call[c].victims = {}
    BY <1>5 DEF Teardown
  <2> HIDE DEF f
  <2>3. call[c].at \in OwnerAt /\ lifeMtx' = c /\ ~running'
    BY <1>1, <2>2 DEF CallInv, OwnerAt
  <2>4. /\ IsFrame(f) /\ f.victims = Range(points) /\ f.at = "tearing down"
        /\ f.at \notin FreeAt /\ f.at \notin UpAt
    BY <2>1 DEF Frames, FreeAt, UpAt
  <2>5. CallInv'
    BY <1>1, <1>2, <2>2, <2>3, <2>4, OwnerStep
  <2>6. QED
    BY <1>3, <2>2, <2>4, <2>5 DEF IInv
<1>6. QED
  BY <1>4, <1>5

(* Point::stop and the thread of the point.                                 *)
LEMMA ThreadStepInv ==
  ASSUME IInv, NEW o \in Objs,
         \/ Bind(o) \/ BindFails(o) \/ Leave(o)
         \/ \E c \in Clients : StopVictim(c, o)
  PROVE  IInv'
<1>1. UNCHANGED <<running, up, lifeMtx, points, call>>
  BY DEF Bind, BindFails, Leave, StopVictim
<1>2. obj[o] # Unused /\ IsObj(o) /\ DOMAIN obj = Objs
  BY DEF Bind, BindFails, Leave, StopVictim, HasThread, Unused, IInv, OwnInv
<1>3. obj[o] = [st |-> obj[o].st, cfg |-> obj[o].cfg, quit |-> obj[o].quit]
  BY <1>2 DEF IsObj
<1>4. PICK s, q : obj' = [obj EXCEPT ![o] = [st |-> s, cfg |-> obj[o].cfg, quit |-> q]]
  <2>1. \/ \E s : obj' = [obj EXCEPT ![o].st = s]
        \/ obj' = [obj EXCEPT ![o].quit = TRUE]
    BY DEF Bind, BindFails, Leave, StopVictim
  <2>2. CASE obj' = [obj EXCEPT ![o].quit = TRUE]
    <3>1. \A q : [obj[o] EXCEPT !.quit = q] = [st |-> obj[o].st, cfg |-> obj[o].cfg, quit |-> q]
      BY <1>3
    <3>2. QED
      BY <2>2, <3>1
  <2>3. ASSUME NEW s, obj' = [obj EXCEPT ![o].st = s]
        PROVE  obj' = [obj EXCEPT ![o] = [st |-> s, cfg |-> obj[o].cfg, quit |-> obj[o].quit]]
    <3>1. [obj[o] EXCEPT !.st = s] = [st |-> s, cfg |-> obj[o].cfg, quit |-> obj[o].quit]
      BY <1>3
    <3>2. QED
      BY <2>3, <3>1
  <2>4. QED
    BY <2>1, <2>2, <2>3
<1>5. OwnInv'
  BY <1>1, <1>2, <1>4, SameObjects DEF IInv
<1>6. CallInv'
  BY <1>1 DEF IInv, CallInv, IsFrame
<1>7. QED
  BY <1>5, <1>6 DEF IInv

LEMMA JoinStepInv ==
  ASSUME IInv, NEW c \in Clients, NEW o \in Objs, JoinVictim(c, o)
  PROVE  IInv'
<1> DEFINE f == [call[c] EXCEPT !.victims = @ \ {o}]
<1>1. CallInv /\ IsFrame(call[c])
  BY DEF IInv, CallInv
<1>2. Frames(f, call[c].at, call[c].victims \ {o})
  BY <1>1, NewFrame
<1>3. Go(c, f) /\ UNCHANGED <<running, up, lifeMtx, points>> /\ o \in call[c].victims
  BY DEF JoinVictim
<1> HIDE DEF f
<1>4. call[c].at \notin FreeAt /\ (~up => DOMAIN points' = {})
  BY <1>1, <1>3 DEF CallInv
<1>5. CallInv'
  BY <1>1, <1>2, <1>3, <1>4, StepInside DEF Frames
<1>6. QED
  BY <1>5, JoinOwners DEF IInv

LEMMA NextInv == IInv /\ [Next]_vars => IInv'
<1> SUFFICES ASSUME IInv, [Next]_vars PROVE IInv'
  OBVIOUS
<1>1. ASSUME NEW c \in Clients, Proceed(c) PROVE IInv'
  BY <1>1, QuietStepInv, RegisterStepInv, UnregisterStepInv, EmptyStepInv, ThreadStepInv,
     JoinStepInv DEF Proceed
<1>2. ASSUME NEW c \in Clients, Call(c) PROVE IInv'
  BY <1>2, QuietStepInv, RegisterStepInv, UnregisterStepInv, EmptyStepInv DEF Call
<1>3. ASSUME NEW o \in Objs, ReceiveThread(o) PROVE IInv'
  BY <1>3, ThreadStepInv DEF ReceiveThread
<1>4. CASE UNCHANGED vars
  <2>1. UNCHANGED <<running, up, points, obj, lifeMtx, call>>
    BY <1>4 DEF vars
  <2>2. CallInv'
    BY <2>1 DEF IInv, CallInv, IsFrame
  <2>3. OwnInv'
    BY <2>1, SameOwners DEF IInv
  <2>4. QED
    BY <2>2, <2>3 DEF IInv
<1>5. QED
  BY <1>1, <1>2, <1>3, <1>4 DEF Next

LEMMA Invariant == Spec => []IInv
  BY InitInv, NextInv, PTL DEF Spec

-----------------------------------------------------------------------------
(* The theorems.                                                           *)

(* One port, one access point: PortExclusive, for any number of clients     *)
(* that add, remove, reload, start and stop at once.                        *)
THEOREM OnePortOnePoint == Spec => []PortExclusive
<1>1. IInv => PortExclusive
  <2> SUFFICES ASSUME IInv, NEW o \in Live \ Stopping, NEW q \in Live \ Stopping,
                      obj[o].cfg.port = obj[q].cfg.port
               PROVE  o = q
    BY DEF PortExclusive
  <2>1. Used(o) /\ Used(q)
    BY DEF Used, Live, HasThread, Unused
  <2>2. \A c \in Clients : ~Stops(c, o) /\ ~Stops(c, q)
    BY DEF Stopping, Stops
  <2>3. /\ obj[o].cfg.id \in DOMAIN points /\ points[obj[o].cfg.id] = o
        /\ obj[q].cfg.id \in DOMAIN points /\ points[obj[q].cfg.id] = q
    BY <2>1, <2>2 DEF IInv, OwnInv
  <2>4. QED
    BY <2>3 DEF IInv, OwnInv
<1>2. QED
  BY <1>1, Invariant, PTL

(* No Point object is forgotten, and stop() leaves nothing behind:          *)
(* NoPointLeaks, for any interleaving of any number of calls.               *)
THEOREM NothingIsForgotten == Spec => []NoPointLeaks
<1>1. IInv => NoPointLeaks
  <2> SUFFICES ASSUME IInv PROVE NoPointLeaks
    OBVIOUS
  <2>1. \A o : o \in Stopping <=> \E c \in Clients : Stops(c, o)
    BY DEF Stopping, Stops
  <2>2. ASSUME NEW o \in Objs, obj[o] # Unused
        PROVE  \/ /\ obj[o].cfg.id \in DOMAIN points /\ points[obj[o].cfg.id] = o
                  /\ o \notin Stopping
               \/ Cardinality({c \in Clients : o \in call[c].victims}) = 1
    <3>1. CASE \E c \in Clients : Stops(c, o)
      <4>1. PICK c \in Clients : Stops(c, o)
        BY <3>1
      <4>2. {b \in Clients : o \in call[b].victims} = {c}
        BY <4>1 DEF IInv, OwnInv, Stops
      <4>3. QED
        BY <4>2, FS_Singleton
    <3>2. CASE ~\E c \in Clients : Stops(c, o)
      BY <2>1, <2>2, <3>2 DEF IInv, OwnInv, Used
    <3>3. QED
      BY <3>1, <3>2
  <2>3. ~up => Live \subseteq Stopping
    <3>1. \A o \in Live : Used(o)
      BY DEF Used, Live, HasThread, Unused
    <3>2. QED
      BY <2>1, <3>1 DEF IInv, OwnInv, CallInv
  <2>4. QED
    BY <2>2, <2>3 DEF NoPointLeaks
<1>2. QED
  BY <1>1, Invariant, PTL

-----------------------------------------------------------------------------
(* What reload() may do to access points that run.                         *)

(* The new configuration of a reload in frame f lacks all it is to drop.    *)
Lacks(f) == \A i \in f.drop : \A k \in DOMAIN f.todo : f.todo[k].id # i

(* What a reload in frame f has found out of the point it restarts.         *)
Differs(f) ==
  LET p == Head(f.todo) IN
  p.id \in DOMAIN points => ~SameSettings(obj[points[p.id]].cfg, p)

(* A reload's look at a point holds until another call comes in.            *)
ReloadInv ==
  /\ overlapped \in BOOLEAN
  /\ ~overlapped => \A b, c \in Clients : call[b].at # "idle" /\ call[c].at # "idle" => b = c
  /\ \A c \in Clients : call[c].at = "dropping" => Lacks(call[c])
  /\ \A c \in Clients : call[c].at = "restarting" /\ ~overlapped => Differs(call[c])

FullInv == IInv /\ ReloadInv

(* An access point may go from the map.                                     *)
MayGo(i) ==
  \/ ~running'
  \/ \E c \in Clients : call'[c].at = "removed" /\ i \in call'[c].drop
  \/ lifeMtx # NoClient /\ MayReplace(lifeMtx, i)

Gone(i) == i \notin DOMAIN points' \/ points'[i] # points[i]

-----------------------------------------------------------------------------
(* Lemmas.                                                                 *)

LEMMA InitReload == Init => ReloadInv
<1> SUFFICES ASSUME Init PROVE ReloadInv
  OBVIOUS
<1>1. \A c \in Clients : call[c].at = "idle"
  BY DEF Init, Returned
<1>2. QED
  BY <1>1 DEF ReloadInv, Init

(* A call goes on with frame f, of which the invariant holds.               *)
LEMMA GoReload ==
  ASSUME CallInv, ReloadInv, NEW c \in Clients, NEW f, Go(c, f),
         f.at = "dropping" => Lacks(f), f.at = "restarting" => Differs(f),
         f.at \in {"idle", "restarting"} => UNCHANGED <<points, obj>>
  PROVE  ReloadInv'
<1>1. /\ DOMAIN call' = Clients /\ call'[c] = f
      /\ \A b \in Clients : b # c => call'[b] = call[b]
  BY GoFrame
<1>2. overlapped' = (overlapped \/ \E b \in Clients \ {c} : call[b].at # "idle" /\ f.at # "idle")
  BY DEF Go
<1>3. overlapped' \in BOOLEAN /\ (~overlapped' => ~overlapped)
  BY <1>2 DEF ReloadInv
<1>4. ~overlapped' => f.at = "idle" \/ \A b \in Clients \ {c} : call[b].at = "idle"
  BY <1>2
<1>5. ASSUME ~overlapped', NEW a \in Clients, NEW b \in Clients,
             call'[a].at # "idle", call'[b].at # "idle"
      PROVE  a = b
  BY <1>1, <1>3, <1>4, <1>5 DEF ReloadInv
<1>6. ASSUME NEW b \in Clients, call'[b].at = "dropping" PROVE Lacks(call[b])'
  BY <1>1, <1>6 DEF ReloadInv, Lacks
<1>7. ASSUME NEW b \in Clients, call'[b].at = "restarting", ~overlapped' PROVE Differs(call[b])'
  <2>1. UNCHANGED <<points, obj>> /\ Differs(call'[b])
    <3>1. CASE b = c
      BY <1>1, <1>7, <3>1
    <3>2. CASE b # c
      <4>1. call'[b] = call[b] /\ call[b].at # "idle"
        BY <1>1, <1>7, <3>2
      <4>2. QED
        BY <1>3, <1>4, <1>7, <3>2, <4>1 DEF ReloadInv
    <3>3. QED
      BY <3>1, <3>2
  <2>2. QED
    BY <2>1 DEF Differs
<1>8. QED
  BY <1>3, <1>5, <1>6, <1>7 DEF ReloadInv

(* The calls stay where they are, the map too, and objects keep their       *)
(* configuration.                                                           *)
LEMMA SameReload ==
  ASSUME ReloadInv, UNCHANGED <<points, call, overlapped>>,
         \A i \in DOMAIN points : obj'[points[i]].cfg = obj[points[i]].cfg
  PROVE  ReloadInv'
<1>1. \A c \in Clients : Lacks(call[c]) => Lacks(call[c])'
  BY DEF Lacks
<1>2. \A c \in Clients : Differs(call[c]) => Differs(call[c])'
  BY DEF Differs
<1>3. QED
  BY <1>1, <1>2 DEF ReloadInv

(* The frames of the calls, as far as a reload can tell them apart.         *)
LEMMA FrameFields ==
  ASSUME NEW r, IsFrame(r)
  PROVE  /\ \A at, todo, drop :
              LET f == [r EXCEPT !.at = at, !.todo = todo, !.drop = drop]
              IN f.at = at /\ f.todo = todo /\ f.drop = drop
         /\ \A at, drop, victims :
              LET f == [r EXCEPT !.at = at, !.drop = drop, !.victims = victims]
              IN f.at = at /\ f.drop = drop
         /\ \A drop, victims :
              LET f == [r EXCEPT !.drop = drop, !.victims = victims]
              IN f.at = r.at /\ f.todo = r.todo /\ f.drop = drop
         /\ \A victims :
              LET f == [r EXCEPT !.victims = victims]
              IN f.at = r.at /\ f.todo = r.todo /\ f.drop = r.drop
         /\ \A at : LET f == [r EXCEPT !.at = at] IN f.at = at /\ f.todo = r.todo
<1>1. \A at, todo, drop :
        LET f == [r EXCEPT !.at = at, !.todo = todo, !.drop = drop]
        IN f.at = at /\ f.todo = todo /\ f.drop = drop
  BY DEF IsFrame
<1>2. \A at, drop, victims :
        LET f == [r EXCEPT !.at = at, !.drop = drop, !.victims = victims]
        IN f.at = at /\ f.drop = drop
  BY DEF IsFrame
<1>3. \A drop, victims :
        LET f == [r EXCEPT !.drop = drop, !.victims = victims]
        IN f.at = r.at /\ f.todo = r.todo /\ f.drop = drop
  BY DEF IsFrame
<1>4. \A victims :
        LET f == [r EXCEPT !.victims = victims]
        IN f.at = r.at /\ f.todo = r.todo /\ f.drop = r.drop
  BY DEF IsFrame
<1>5. \A at : LET f == [r EXCEPT !.at = at] IN f.at = at /\ f.todo = r.todo
  BY DEF IsFrame
<1>6. QED
  BY <1>1, <1>2, <1>3, <1>4, <1>5

-----------------------------------------------------------------------------
(* The invariant.                                                          *)

(* A call returns; a returned call says nothing of a point.                 *)
LEMMA FinishReload ==
  ASSUME FullInv, NEW c \in Clients,
         \/ AddPointWritesBack(c) \/ RemovePointWritesBack(c)
         \/ StartDone(c) \/ StopDone(c) \/ ReloadDone(c)
  PROVE  ReloadInv'
<1>1. Go(c, Returned) /\ UNCHANGED <<points, obj>>
  BY DEF AddPointWritesBack, RemovePointWritesBack, StartDone, StopDone, ReloadDone, Finish
<1>2. Returned.at = "idle"
  BY DEF Returned
<1>3. QED
  BY <1>1, <1>2, GoReload DEF FullInv, IInv

(* The steps after which a call neither drops nor restarts.                 *)
LEMMA ElsewhereReload ==
  ASSUME FullInv, NEW c \in Clients,
         \/ \E p \in PointConfigs : AddPoint(c, p)
         \/ \E id \in Ids : RemovePoint(c, id)
         \/ \E new \in Configs : StartBegins(c, new)
         \/ StartOne(c) \/ StartFails(c) \/ StopBegins(c) \/ Teardown(c)
         \/ ReloadDropped(c) \/ ReloadRemoves(c) \/ ReloadAdds(c)
  PROVE  ReloadInv'
<1>1. IsFrame(call[c]) /\ IsFrame(Returned)
  BY DEF FullInv, IInv, CallInv, IsFrame, Returned
<1>2. ASSUME NEW f, Go(c, f), f.at \notin {"idle", "dropping", "restarting"} PROVE ReloadInv'
  BY <1>2, GoReload DEF FullInv, IInv
<1>3. ASSUME NEW p \in PointConfigs, AddPoint(c, p) PROVE ReloadInv'
  <2> DEFINE f == [Returned EXCEPT !.at = "added", !.todo = <<p>>]
  <2>1. Go(c, f)
    BY <1>3 DEF AddPoint
  <2>2. Frames(f, "added", Returned.victims)
    BY <1>1, NewFrame
  <2> HIDE DEF f
  <2>3. QED
    BY <1>2, <2>1, <2>2 DEF Frames
<1>4. ASSUME NEW id \in Ids, RemovePoint(c, id) PROVE ReloadInv'
  <2> DEFINE f == [Returned EXCEPT !.at = "removed", !.drop = {id}, !.victims = {points[id]}]
  <2>1. Go(c, f)
    BY <1>4 DEF RemovePoint
  <2>2. Frames(f, "removed", {points[id]})
    BY <1>1, NewFrame
  <2> HIDE DEF f
  <2>3. QED
    BY <1>2, <2>1, <2>2 DEF Frames
<1>5. ASSUME NEW new \in Configs, StartBegins(c, new) PROVE ReloadInv'
  <2> DEFINE f == [Returned EXCEPT !.at = "starting", !.todo = new]
  <2>1. Go(c, f)
    BY <1>5 DEF StartBegins
  <2>2. Frames(f, "starting", Returned.victims)
    BY <1>1, NewFrame
  <2> HIDE DEF f
  <2>3. QED
    BY <1>2, <2>1, <2>2 DEF Frames
<1>6. CASE StartOne(c)
  <2>1. PICK ok : Go(c, [call[c] EXCEPT !.todo = Tail(@), !.any = @ \/ ok])
    BY <1>6 DEF StartOne
  <2> DEFINE f == [call[c] EXCEPT !.todo = Tail(@), !.any = @ \/ ok]
  <2>2. Go(c, f)
    BY <2>1
  <2>3. Frames(f, call[c].at, call[c].victims)
    BY <1>1, NewFrame
  <2>4. call[c].at = "starting"
    BY <1>6 DEF StartOne
  <2> HIDE DEF f
  <2>5. QED
    BY <1>2, <2>2, <2>3, <2>4 DEF Frames
<1>7. CASE StartFails(c) \/ StopBegins(c)
  <2> DEFINE f == [Returned EXCEPT !.at = "stopping", !.victims = Range(points)]
  <2>1. Go(c, f)
    BY <1>7 DEF StartFails, StopBegins, stopAll
  <2>2. Frames(f, "stopping", Range(points))
    BY <1>1, NewFrame
  <2> HIDE DEF f
  <2>3. QED
    BY <1>2, <2>1, <2>2 DEF Frames
<1>8. CASE Teardown(c)
  <2> DEFINE f == [call[c] EXCEPT !.at = "tearing down", !.victims = Range(points)]
  <2>1. Go(c, f)
    BY <1>8 DEF Teardown
  <2>2. Frames(f, "tearing down", Range(points))
    BY <1>1, NewFrame
  <2> HIDE DEF f
  <2>3. QED
    BY <1>2, <2>1, <2>2 DEF Frames
<1>9. CASE ReloadDropped(c)
  <2> DEFINE f == [call[c] EXCEPT !.at = "converging"]
  <2>1. Go(c, f)
    BY <1>9 DEF ReloadDropped
  <2>2. Frames(f, "converging", call[c].victims)
    BY <1>1, NewFrame
  <2> HIDE DEF f
  <2>3. QED
    BY <1>2, <2>1, <2>2 DEF Frames
<1>10. CASE ReloadRemoves(c)
  <2> DEFINE id == Head(call[c].todo).id
             left == IF id \in DOMAIN points THEN {points[id]} ELSE {}
             f == [call[c] EXCEPT !.at = "adding", !.victims = left]
  <2>1. Go(c, f)
    BY <1>10 DEF ReloadRemoves
  <2>2. Frames(f, "adding", left)
    BY <1>1, NewFrame
  <2> HIDE DEF f, left
  <2>3. QED
    BY <1>2, <2>1, <2>2 DEF Frames
<1>11. CASE ReloadAdds(c)
  <2> DEFINE f == [call[c] EXCEPT !.at = "converging", !.todo = Tail(@)]
  <2>1. Go(c, f)
    BY <1>11 DEF ReloadAdds
  <2>2. Frames(f, "converging", call[c].victims)
    BY <1>1, NewFrame
  <2> HIDE DEF f
  <2>3. QED
    BY <1>2, <2>1, <2>2 DEF Frames
<1>12. QED
  BY <1>3, <1>4, <1>5, <1>6, <1>7, <1>8, <1>9, <1>10, <1>11

(* reload() drops what its configuration lacks.                             *)
LEMMA DropReload ==
  ASSUME FullInv, NEW c \in Clients,
         \/ \E new \in Configs : ReloadBegins(c, new)
         \/ \E id \in Ids : ReloadDrops(c, id)
         \/ \E o \in Objs : JoinVictim(c, o)
  PROVE  ReloadInv'
<1>1. IsFrame(call[c]) /\ IsFrame(Returned)
  BY DEF FullInv, IInv, CallInv, IsFrame, Returned
<1>2. ASSUME NEW new \in Configs, ReloadBegins(c, new) PROVE ReloadInv'
  <2>1. CASE running
    <3> DEFINE drop == {i \in DOMAIN points : \A k \in DOMAIN new : new[k].id # i}
               f == [Returned EXCEPT !.at = "dropping", !.todo = new, !.drop = drop]
    <3>1. Go(c, f)
      BY <1>2, <2>1 DEF ReloadBegins
    <3>2. f.at = "dropping" /\ f.todo = new /\ f.drop = drop
      BY <1>1, FrameFields
    <3>3. Lacks(f)
      BY <3>2 DEF Lacks
    <3> HIDE DEF f
    <3>4. QED
      BY <3>1, <3>2, <3>3, GoReload DEF FullInv, IInv
  <2>2. CASE ~running
    <3>1. UNCHANGED <<points, obj, call, overlapped>>
      BY <1>2, <2>2 DEF ReloadBegins
    <3>2. QED
      BY <3>1, SameReload DEF FullInv
  <2>3. QED
    BY <2>1, <2>2
<1>3. ASSUME NEW id \in Ids, ReloadDrops(c, id) PROVE ReloadInv'
  <2> DEFINE left == IF id \in DOMAIN points THEN {points[id]} ELSE {}
             f == [call[c] EXCEPT !.drop = @ \ {id}, !.victims = left]
  <2>1. Go(c, f) /\ call[c].at = "dropping"
    BY <1>3 DEF ReloadDrops
  <2>2. f.at = call[c].at /\ f.todo = call[c].todo /\ f.drop = call[c].drop \ {id}
    BY <1>1, FrameFields
  <2> HIDE DEF f, left
  <2>3. Lacks(f)
    BY <2>1, <2>2 DEF FullInv, ReloadInv, Lacks
  <2>4. QED
    BY <2>1, <2>2, <2>3, GoReload DEF FullInv, IInv
<1>4. ASSUME NEW o \in Objs, JoinVictim(c, o) PROVE ReloadInv'
  <2> DEFINE f == [call[c] EXCEPT !.victims = @ \ {o}]
  <2>1. Go(c, f) /\ o \in call[c].victims
    BY <1>4 DEF JoinVictim
  <2>2. f.at = call[c].at /\ f.todo = call[c].todo /\ f.drop = call[c].drop
    BY <1>1, FrameFields
  <2> HIDE DEF f
  <2>3. call[c].at \notin FreeAt
    BY <2>1 DEF FullInv, IInv, CallInv
  <2>4. call[c].at = "dropping" => Lacks(f)
    BY <2>2 DEF FullInv, ReloadInv, Lacks
  <2>5. QED
    BY <2>1, <2>2, <2>3, <2>4, GoReload DEF FullInv, IInv, FreeAt
<1>5. QED
  BY <1>2, <1>3, <1>4

(* reload() looks at a point before it restarts it: it differs from the new *)
(* configuration.                                                           *)
LEMMA LookReload ==
  ASSUME FullInv, NEW c \in Clients, ReloadLooks(c)
  PROVE  ReloadInv'
<1> DEFINE p == Head(call[c].todo)
           known == p.id \in DOMAIN points
           skips == [call[c] EXCEPT !.todo = Tail(@)]
           restarts == [call[c] EXCEPT !.at = "restarting"]
           adds == [call[c] EXCEPT !.at = "adding"]
<1>1. IsFrame(call[c]) /\ UNCHANGED <<points, obj>> /\ call[c].at = "converging"
  BY DEF FullInv, IInv, CallInv, ReloadLooks
<1>2. \/ Go(c, skips)
      \/ Go(c, adds)
      \/ Go(c, restarts) /\ known /\ Changed(obj[points[p.id]].cfg, p)
  BY DEF ReloadLooks
<1>3. CASE Go(c, skips)
  <2>1. Frames(skips, "converging", call[c].victims)
    BY <1>1, NewFrame
  <2> HIDE DEF skips
  <2>2. QED
    BY <1>3, <2>1, GoReload DEF Frames, FullInv, IInv
<1>4. CASE Go(c, adds)
  <2>1. Frames(adds, "adding", call[c].victims)
    BY <1>1, NewFrame
  <2> HIDE DEF adds
  <2>2. QED
    BY <1>4, <2>1, GoReload DEF Frames, FullInv, IInv
<1>5. CASE Go(c, restarts) /\ known /\ Changed(obj[points[p.id]].cfg, p)
  <2>1. restarts.at = "restarting" /\ restarts.todo = call[c].todo
    BY <1>1, FrameFields
  <2>2. ~SameSettings(obj[points[p.id]].cfg, p)
    BY <1>5 DEF Changed, SameSettings
  <2>3. Differs(restarts)
    BY <2>1, <2>2 DEF Differs
  <2> HIDE DEF restarts
  <2>4. QED
    BY <1>1, <1>5, <2>1, <2>3, GoReload DEF FullInv, IInv
<1>6. QED
  BY <1>2, <1>3, <1>4, <1>5

(* Point::stop and the thread of a point leave its configuration alone.     *)
LEMMA ThreadReload ==
  ASSUME FullInv, NEW o \in Objs,
         \/ Bind(o) \/ BindFails(o) \/ Leave(o)
         \/ \E c \in Clients : StopVictim(c, o)
  PROVE  ReloadInv'
<1>1. UNCHANGED <<points, call, overlapped>>
  BY DEF Bind, BindFails, Leave, StopVictim
<1>2. \A i \in DOMAIN points : points[i] \in Objs /\ IsObj(points[i]) /\ obj[points[i]] # Unused
  BY DEF FullInv, IInv, OwnInv, Used
<1>3. \/ \E s : obj' = [obj EXCEPT ![o].st = s]
      \/ \E q : obj' = [obj EXCEPT ![o].quit = q]
  BY DEF Bind, BindFails, Leave, StopVictim
<1>4. DOMAIN obj = Objs
  BY DEF FullInv, IInv, OwnInv
<1>5. ASSUME NEW i \in DOMAIN points PROVE obj'[points[i]].cfg = obj[points[i]].cfg
  <2> DEFINE x == points[i]
  <2>1. x \in DOMAIN obj /\ obj[x] = [st |-> obj[x].st, cfg |-> obj[x].cfg, quit |-> obj[x].quit]
    BY <1>2, <1>4 DEF IsObj
  <2>2. /\ \A s : [obj[x] EXCEPT !.st = s].cfg = obj[x].cfg
        /\ \A q : [obj[x] EXCEPT !.quit = q].cfg = obj[x].cfg
    BY <2>1
  <2> HIDE DEF x
  <2>3. ASSUME NEW s, obj' = [obj EXCEPT ![o].st = s] PROVE obj'[x].cfg = obj[x].cfg
    BY <1>4, <2>1, <2>2, <2>3
  <2>4. ASSUME NEW q, obj' = [obj EXCEPT ![o].quit = q] PROVE obj'[x].cfg = obj[x].cfg
    BY <1>4, <2>1, <2>2, <2>4
  <2>5. QED
    BY <1>3, <2>3, <2>4 DEF x
<1>6. QED
  BY <1>1, <1>5, SameReload DEF FullInv

LEMMA NextReload == FullInv /\ [Next]_vars => ReloadInv'
<1> SUFFICES ASSUME FullInv, [Next]_vars PROVE ReloadInv'
  OBVIOUS
<1>1. ASSUME NEW c \in Clients, Proceed(c) PROVE ReloadInv'
  BY <1>1, FinishReload, ElsewhereReload, DropReload, LookReload, ThreadReload DEF Proceed
<1>2. ASSUME NEW c \in Clients, Call(c) PROVE ReloadInv'
  BY <1>2, ElsewhereReload, DropReload DEF Call
<1>3. ASSUME NEW o \in Objs, ReceiveThread(o) PROVE ReloadInv'
  BY <1>3, ThreadReload DEF ReceiveThread
<1>4. CASE UNCHANGED vars
  <2>1. UNCHANGED <<points, obj, call, overlapped>>
    BY <1>4 DEF vars
  <2>2. QED
    BY <2>1, SameReload DEF FullInv
<1>5. QED
  BY <1>1, <1>2, <1>3, <1>4 DEF Next

LEMMA FullInvariant == Spec => []FullInv
<1>1. Init => FullInv
  BY InitInv, InitReload DEF FullInv
<1>2. FullInv /\ [Next]_vars => FullInv'
  BY NextInv, NextReload DEF FullInv
<1>3. QED
  BY <1>1, <1>2, PTL DEF Spec

-----------------------------------------------------------------------------
(* The theorem.                                                            *)

(* The steps by which a point leaves the map, and those that keep it.       *)
LEMMA LeavesForAReason ==
  ASSUME FullInv, [Next]_vars, NEW i \in DOMAIN points, Gone(i)
  PROVE  MayGo(i)
<1>1. ASSUME NEW id, unregister(id) PROVE i = id
  BY <1>1 DEF unregister, Restrict, Gone
<1>2. ASSUME NEW p, MayAdd(p), register(p) PROVE FALSE
  BY <1>2 DEF MayAdd, register, Gone
<1>3. ASSUME UNCHANGED points PROVE FALSE
  BY <1>3 DEF Gone
<1>4. ASSUME NEW c \in Clients, NEW id \in Ids, RemovePoint(c, id) PROVE MayGo(i)
  <2> DEFINE f == [Returned EXCEPT !.at = "removed", !.drop = {id}, !.victims = {points[id]}]
  <2>1. Go(c, f) /\ unregister(id)
    BY <1>4 DEF RemovePoint
  <2>2. f.at = "removed" /\ f.drop = {id}
    <3>1. IsFrame(Returned)
      BY DEF IsFrame, Returned
    <3>2. QED
      BY <3>1, FrameFields
  <2> HIDE DEF f
  <2>3. call'[c] = f
    BY <2>1, GoFrame DEF FullInv, IInv
  <2>4. QED
    BY <1>1, <2>1, <2>2, <2>3 DEF MayGo
<1>5. ASSUME NEW c \in Clients, NEW id \in Ids, ReloadDrops(c, id) PROVE MayGo(i)
  <2>1. i = id /\ call[c].at = "dropping" /\ id \in call[c].drop
    BY <1>1, <1>5 DEF ReloadDrops
  <2>2. lifeMtx = c /\ lifeMtx # NoClient
    BY <2>1, GatewayAssumption DEF FullInv, IInv, CallInv, OwnerAt
  <2>3. \A k \in DOMAIN call[c].todo : call[c].todo[k].id # i
    BY <2>1 DEF FullInv, ReloadInv, Lacks
  <2>4. QED
    BY <2>1, <2>2, <2>3 DEF MayGo, MayReplace
<1>6. ASSUME NEW c \in Clients, ReloadRemoves(c) PROVE MayGo(i)
  <2>1. i = Head(call[c].todo).id /\ call[c].at = "restarting"
    BY <1>1, <1>6 DEF ReloadRemoves
  <2>2. lifeMtx = c /\ lifeMtx # NoClient
    BY <2>1, GatewayAssumption DEF FullInv, IInv, CallInv, OwnerAt
  <2>3. overlapped \/ ~SameSettings(obj[points[i]].cfg, Head(call[c].todo))
    BY <2>1 DEF FullInv, ReloadInv, Differs
  <2>4. QED
    BY <2>1, <2>2, <2>3 DEF MayGo, MayReplace
<1>7. ASSUME NEW c \in Clients, StartFails(c) \/ StopBegins(c) \/ Teardown(c) PROVE MayGo(i)
  <2>1. CASE StartFails(c) \/ StopBegins(c)
    BY <2>1 DEF StartFails, StopBegins, MayGo
  <2>2. CASE Teardown(c)
    BY <2>2 DEF Teardown, FullInv, IInv, CallInv, MayGo
  <2>3. QED
    BY <1>7, <2>1, <2>2
<1>8. ASSUME NEW c \in Clients, Proceed(c) PROVE MayGo(i)
  <2>1. CASE AddPointWritesBack(c) \/ RemovePointWritesBack(c) \/ StartDone(c) \/ StopDone(c)
    BY <1>3, <2>1 DEF AddPointWritesBack, RemovePointWritesBack, StartDone, StopDone
  <2>2. CASE ReloadDropped(c) \/ ReloadLooks(c) \/ ReloadDone(c)
    BY <1>3, <2>2 DEF ReloadDropped, ReloadLooks, ReloadDone
  <2>3. CASE StartOne(c)
    BY <1>2, <1>3, <2>3 DEF StartOne
  <2>4. CASE ReloadAdds(c)
    BY <1>2, <1>3, <2>4 DEF ReloadAdds, add
  <2>5. ASSUME NEW o \in Objs, StopVictim(c, o) \/ JoinVictim(c, o) PROVE FALSE
    BY <1>3, <2>5 DEF StopVictim, JoinVictim
  <2>6. QED
    BY <1>5, <1>6, <1>7, <1>8, <2>1, <2>2, <2>3, <2>4, <2>5 DEF Proceed
<1>9. ASSUME NEW c \in Clients, Call(c) PROVE MayGo(i)
  <2>1. ASSUME NEW p \in PointConfigs, AddPoint(c, p) PROVE FALSE
    BY <1>2, <2>1 DEF AddPoint
  <2>2. ASSUME NEW new \in Configs, StartBegins(c, new) \/ ReloadBegins(c, new) PROVE FALSE
    BY <1>3, <2>2 DEF StartBegins, ReloadBegins
  <2>3. QED
    BY <1>4, <1>7, <1>9, <2>1, <2>2 DEF Call
<1>10. ASSUME NEW o \in Objs, ReceiveThread(o) PROVE FALSE
  BY <1>3, <1>10 DEF ReceiveThread, Bind, BindFails, Leave
<1>11. CASE UNCHANGED vars
  BY <1>3, <1>11 DEF vars
<1>12. QED
  BY <1>8, <1>9, <1>10, <1>11 DEF Next

(* An access point goes away only when stop(), a removePoint of it or a     *)
(* reload() that lacks or changes it takes it (ING-NFR-03): Undisturbed,    *)
(* for any configurations and any calls in between.                         *)
THEOREM OthersStay == Spec => Undisturbed
<1> DEFINE A == \A i \in DOMAIN points :
                  (i \notin DOMAIN points' \/ points'[i] # points[i]) =>
                    \/ ~running'
                    \/ \E c \in Clients : call'[c].at = "removed" /\ i \in call'[c].drop
                    \/ lifeMtx # NoClient /\ MayReplace(lifeMtx, i)
<1>1. FullInv /\ [Next]_vars => A
  BY LeavesForAReason DEF Gone, MayGo
<1>2. QED
  BY <1>1, FullInvariant, PTL DEF Spec, Undisturbed

-----------------------------------------------------------------------------
(* Types.                                                                  *)

Frame == [at : {"idle", "added", "removed", "starting", "stopping", "tearing down",
                "dropping", "converging", "restarting", "adding"},
          todo : Seq(PointConfigs), drop : SUBSET Ids, victims : SUBSET Objs, any : BOOLEAN]

PointObject == [st : {"disabled", "starting", "listening", "ended"},
                cfg : PointConfigs, quit : BOOLEAN]

(* The frames in which the next point to be handled is looked at.           *)
Looked(f) == f.at \in {"added", "restarting", "adding"} => f.todo # <<>>

TypeInv ==
  /\ running \in BOOLEAN /\ up \in BOOLEAN /\ overlapped \in BOOLEAN
  /\ cfg \in Seq(PointConfigs)
  /\ DOMAIN points \subseteq Ids
  /\ obj \in [Objs -> {Unused} \cup PointObject]
  /\ lifeMtx \in Clients \cup {NoClient}
  /\ call \in [Clients -> Frame]
  /\ \A c \in Clients : Looked(call[c])

LEMMA ReturnedFrame == Returned \in Frame /\ Returned.at = "idle" /\ Looked(Returned)
<1>1. <<>> \in Seq(PointConfigs)
  OBVIOUS
<1>2. QED
  BY <1>1 DEF Returned, Frame, Looked

(* The frames the calls make of the one they are in.                        *)
LEMMA NextFrame ==
  ASSUME NEW r \in Frame
  PROVE  /\ \A at \in {"removed", "starting", "stopping", "tearing down", "dropping", "converging"} :
              \A victims \in SUBSET Objs :
                /\ [r EXCEPT !.at = at, !.victims = victims] \in Frame
                /\ Looked([r EXCEPT !.at = at, !.victims = victims])
         /\ \A at \in {"restarting", "adding"} :
              r.todo # <<>> => /\ [r EXCEPT !.at = at] \in Frame
                               /\ Looked([r EXCEPT !.at = at])
         /\ \A drop \in SUBSET Ids, victims \in SUBSET Objs :
              Looked(r) => /\ [r EXCEPT !.drop = drop, !.victims = victims] \in Frame
                           /\ Looked([r EXCEPT !.drop = drop, !.victims = victims])
         /\ \A victims \in SUBSET Objs :
              Looked(r) => /\ [r EXCEPT !.victims = victims] \in Frame
                           /\ Looked([r EXCEPT !.victims = victims])
<1>1. ASSUME NEW at \in {"removed", "starting", "stopping", "tearing down", "dropping", "converging"},
             NEW victims \in SUBSET Objs
      PROVE  /\ [r EXCEPT !.at = at, !.victims = victims] \in Frame
             /\ Looked([r EXCEPT !.at = at, !.victims = victims])
  BY DEF Frame, Looked
<1>2. ASSUME NEW at \in {"restarting", "adding"}, r.todo # <<>>
      PROVE  [r EXCEPT !.at = at] \in Frame /\ Looked([r EXCEPT !.at = at])
  BY <1>2 DEF Frame, Looked
<1>3. ASSUME NEW drop \in SUBSET Ids, NEW victims \in SUBSET Objs, Looked(r)
      PROVE  /\ [r EXCEPT !.drop = drop, !.victims = victims] \in Frame
             /\ Looked([r EXCEPT !.drop = drop, !.victims = victims])
  BY <1>3 DEF Frame, Looked
<1>4. ASSUME NEW victims \in SUBSET Objs, Looked(r)
      PROVE  /\ [r EXCEPT !.victims = victims] \in Frame
             /\ Looked([r EXCEPT !.victims = victims])
  BY <1>4 DEF Frame, Looked
<1>5. QED
  BY <1>1, <1>2, <1>3, <1>4

LEMMA InitTypeInv == Init => TypeInv
<1> SUFFICES ASSUME Init PROVE TypeInv
  OBVIOUS
<1>1. <<>> \in Seq(PointConfigs) /\ DOMAIN <<>> = {}
  OBVIOUS
<1>2. QED
  BY <1>1, ReturnedFrame DEF Init, TypeInv

LEMMA GoTypes ==
  ASSUME TypeInv, NEW c \in Clients, NEW f \in Frame, Looked(f), Go(c, f),
         running' \in BOOLEAN, up' \in BOOLEAN, cfg' \in Seq(PointConfigs),
         DOMAIN points' \subseteq Ids, obj' \in [Objs -> {Unused} \cup PointObject],
         lifeMtx' \in Clients \cup {NoClient}
  PROVE  TypeInv'
<1>1. overlapped' \in BOOLEAN
  BY DEF Go
<1>2. call' \in [Clients -> Frame] /\ \A b \in Clients : Looked(call'[b])
  BY DEF Go, TypeInv
<1>3. \A b \in Clients : Looked(call[b])'
  BY <1>2 DEF Looked
<1>4. QED
  BY <1>1, <1>2, <1>3 DEF TypeInv

(* The configuration as addPoint and removePoint write it back: the places  *)
(* of an id, and the first of them.                                         *)
Places(ps, id) == {k \in DOMAIN ps : ps[k].id = id}
FirstOf(K) == CHOOSE k \in K : \A m \in K : k <= m

LEMMA WhatIsWritten ==
  ASSUME NEW ps, NEW p
  PROVE  Written(ps, p) = IF Places(ps, p.id) = {} THEN Append(ps, p)
                          ELSE [ps EXCEPT ![FirstOf(Places(ps, p.id))] = p]
  BY DEF Written, Places, FirstOf

LEMMA WhatIsErased ==
  ASSUME NEW ps, NEW id
  PROVE  LET first == FirstOf(Places(ps, id))
         IN Erased(ps, id) = IF Places(ps, id) = {} THEN ps
                             ELSE SubSeq(ps, 1, first - 1) \o SubSeq(ps, first + 1, Len(ps))
  BY DEF Erased, Places, FirstOf

LEMMA FirstPlace ==
  ASSUME NEW ps \in Seq(PointConfigs), NEW id, Places(ps, id) # {}
  PROVE  LET first == FirstOf(Places(ps, id))
         IN /\ first \in 1..Len(ps) /\ ps[first].id = id
            /\ \A k \in 1..Len(ps) : ps[k].id = id => first <= k
<1>1. Places(ps, id) \in SUBSET Nat /\ DOMAIN ps = 1..Len(ps)
  BY DEF Places
<1>2. \E k \in Places(ps, id) : \A m \in Places(ps, id) : k <= m
  BY <1>1, LeastNumber
<1>3. FirstOf(Places(ps, id)) \in Places(ps, id)
      /\ \A m \in Places(ps, id) : FirstOf(Places(ps, id)) <= m
  BY <1>2 DEF FirstOf
<1>4. QED
  BY <1>1, <1>3 DEF Places

LEMMA WrittenType ==
  ASSUME NEW ps \in Seq(PointConfigs), NEW p \in PointConfigs
  PROVE  Written(ps, p) \in Seq(PointConfigs)
<1>1. CASE Places(ps, p.id) = {}
  BY <1>1, WhatIsWritten
<1>2. CASE Places(ps, p.id) # {}
  <2>1. PICK first \in 1..Len(ps) : first = FirstOf(Places(ps, p.id))
    BY <1>2, FirstPlace
  <2>2. Written(ps, p) = [ps EXCEPT ![first] = p]
    BY <1>2, <2>1, WhatIsWritten
  <2>3. QED
    BY <2>2
<1>3. QED
  BY <1>1, <1>2

LEMMA ErasedType ==
  ASSUME NEW ps \in Seq(PointConfigs), NEW id
  PROVE  Erased(ps, id) \in Seq(PointConfigs)
<1>1. CASE Places(ps, id) = {}
  BY <1>1, WhatIsErased
<1>2. CASE Places(ps, id) # {}
  <2>1. PICK first \in 1..Len(ps) : first = FirstOf(Places(ps, id))
    BY <1>2, FirstPlace
  <2>2. Erased(ps, id) = SubSeq(ps, 1, first - 1) \o SubSeq(ps, first + 1, Len(ps))
    BY <1>2, <2>1, WhatIsErased
  <2>3. SubSeq(ps, 1, first - 1) \in Seq(PointConfigs)
        /\ SubSeq(ps, first + 1, Len(ps)) \in Seq(PointConfigs)
    BY <2>1
  <2>4. QED
    BY <2>2, <2>3
<1>3. QED
  BY <1>1, <1>2

LEMMA RegisterTypes ==
  ASSUME TypeInv, NEW p \in PointConfigs, register(p)
  PROVE  DOMAIN points' \subseteq Ids /\ obj' \in [Objs -> {Unused} \cup PointObject]
<1>1. PICK o \in FreshObj :
        /\ points' = [i \in DOMAIN points \cup {p.id} |-> IF i = p.id THEN o ELSE points[i]]
        /\ obj' = [obj EXCEPT ![o] = [st |-> IF p.enabled THEN "starting" ELSE "disabled",
                                      cfg |-> p, quit |-> FALSE]]
  BY DEF register
<1>2. p.id \in Ids
  BY GatewayAssumption
<1>3. [st |-> IF p.enabled THEN "starting" ELSE "disabled", cfg |-> p, quit |-> FALSE]
        \in PointObject
  BY DEF PointObject
<1>4. QED
  BY <1>1, <1>2, <1>3 DEF TypeInv

LEMMA VictimTypes ==
  ASSUME IInv
  PROVE  /\ Range(points) \in SUBSET Objs
         /\ \A i \in DOMAIN points : {points[i]} \in SUBSET Objs
  BY DEF IInv, OwnInv, Used, Range

LEMMA ThreadTypes ==
  ASSUME IInv, TypeInv, NEW o \in Objs,
         \/ Bind(o) \/ BindFails(o) \/ Leave(o)
         \/ \E c \in Clients : StopVictim(c, o)
  PROVE  TypeInv'
<1>1. UNCHANGED <<running, up, cfg, points, lifeMtx, call, overlapped>>
  BY DEF Bind, BindFails, Leave, StopVictim
<1>2. obj[o] \in PointObject
  BY DEF Bind, BindFails, Leave, StopVictim, HasThread, Unused, TypeInv
<1>3. obj' \in [Objs -> {Unused} \cup PointObject]
  <2>1. \/ \E s \in {"listening", "ended"} : obj' = [obj EXCEPT ![o].st = s]
        \/ obj' = [obj EXCEPT ![o].quit = TRUE]
    BY DEF Bind, BindFails, Leave, StopVictim
  <2>2. [obj[o] EXCEPT !.quit = TRUE] \in PointObject
    BY <1>2 DEF PointObject
  <2>3. \A s \in {"listening", "ended"} : [obj[o] EXCEPT !.st = s] \in PointObject
    BY <1>2 DEF PointObject
  <2>4. QED
    BY <2>1, <2>2, <2>3 DEF TypeInv
<1>4. QED
  BY <1>1, <1>3 DEF TypeInv, Looked

(* Where the calls go next.                                                 *)
LEMMA CallTypes ==
  ASSUME IInv, TypeInv, NEW c \in Clients,
         \/ \E p \in PointConfigs : AddPoint(c, p)
         \/ \E id \in Ids : RemovePoint(c, id)
         \/ \E new \in Configs : StartBegins(c, new)
         \/ \E new \in Configs : ReloadBegins(c, new)
         \/ StopBegins(c)
  PROVE  TypeInv'
<1> USE ReturnedFrame
<1>0. /\ running \in BOOLEAN /\ up \in BOOLEAN /\ cfg \in Seq(PointConfigs)
      /\ DOMAIN points \subseteq Ids /\ obj \in [Objs -> {Unused} \cup PointObject]
      /\ lifeMtx \in Clients \cup {NoClient}
  BY DEF TypeInv
<1>1. ASSUME NEW p \in PointConfigs, AddPoint(c, p) PROVE TypeInv'
  <2> DEFINE f == [Returned EXCEPT !.at = "added", !.todo = <<p>>]
  <2>0. <<p>> \in Seq(PointConfigs) /\ <<p>> # <<>>
    OBVIOUS
  <2>1. f \in Frame /\ Looked(f)
    BY <2>0 DEF Frame, Looked, Returned
  <2>2. /\ Go(c, f) /\ UNCHANGED <<running, up, cfg, lifeMtx>>
        /\ DOMAIN points' \subseteq Ids /\ obj' \in [Objs -> {Unused} \cup PointObject]
    BY <1>1, RegisterTypes DEF AddPoint
  <2> HIDE DEF f
  <2>3. QED
    BY <1>0, <2>1, <2>2, GoTypes
<1>2. ASSUME NEW id \in Ids, RemovePoint(c, id) PROVE TypeInv'
  <2> DEFINE f == [Returned EXCEPT !.at = "removed", !.drop = {id}, !.victims = {points[id]}]
  <2>1. id \in DOMAIN points
    BY <1>2 DEF RemovePoint
  <2>2. {points[id]} \in SUBSET Objs
    BY <2>1, VictimTypes
  <2>3. f \in Frame /\ Looked(f)
    BY <2>2 DEF Frame, Looked
  <2>4. /\ Go(c, f) /\ UNCHANGED <<running, up, cfg, obj, lifeMtx>> /\ DOMAIN points' \subseteq Ids
    BY <1>0, <1>2 DEF RemovePoint, unregister, Restrict
  <2> HIDE DEF f
  <2>5. QED
    BY <1>0, <2>3, <2>4, GoTypes
<1>3. ASSUME NEW new \in Configs, StartBegins(c, new) PROVE TypeInv'
  <2> DEFINE f == [Returned EXCEPT !.at = "starting", !.todo = new]
  <2>1. new \in Seq(PointConfigs)
    BY GatewayAssumption
  <2>2. f \in Frame /\ Looked(f)
    BY <2>1 DEF Frame, Looked
  <2>3. Go(c, f) /\ running' = TRUE /\ up' = TRUE /\ cfg' = new /\ lifeMtx' = c
        /\ UNCHANGED <<points, obj>>
    BY <1>3 DEF StartBegins
  <2> HIDE DEF f
  <2>4. QED
    BY <1>0, <2>1, <2>2, <2>3, GoTypes
<1>4. ASSUME NEW new \in Configs, ReloadBegins(c, new) PROVE TypeInv'
  <2>1. new \in Seq(PointConfigs)
    BY GatewayAssumption
  <2>2. CASE running
    <3> DEFINE gone == {i \in DOMAIN points : \A k \in DOMAIN new : new[k].id # i}
               f == [Returned EXCEPT !.at = "dropping", !.todo = new, !.drop = gone]
    <3>1. gone \in SUBSET Ids
      BY <1>0
    <3>2. f \in Frame /\ Looked(f)
      <4> HIDE DEF gone
      <4>1. QED
        BY <2>1, <3>1 DEF Frame, Looked
    <3>3. Go(c, f) /\ cfg' = new /\ lifeMtx' = c /\ UNCHANGED <<running, up, points, obj>>
      BY <1>4, <2>2 DEF ReloadBegins
    <3> HIDE DEF f
    <3>4. QED
      BY <1>0, <2>1, <3>2, <3>3, GoTypes
  <2>3. CASE ~running
    <3>1. cfg' = new /\ UNCHANGED <<running, up, points, obj, lifeMtx, call, overlapped>>
      BY <1>4, <2>3 DEF ReloadBegins
    <3>2. QED
      BY <2>1, <3>1 DEF TypeInv, Looked
  <2>4. QED
    BY <2>2, <2>3
<1>5. CASE StopBegins(c)
  <2> DEFINE f == [Returned EXCEPT !.at = "stopping", !.victims = Range(points)]
  <2>1. f \in Frame /\ Looked(f)
    BY VictimTypes, NextFrame
  <2>2. /\ Go(c, f) /\ running' = FALSE /\ lifeMtx' = c /\ points' = <<>>
        /\ UNCHANGED <<up, cfg, obj>>
    BY <1>5 DEF StopBegins, stopAll
  <2> HIDE DEF f
  <2>3. DOMAIN points' \subseteq Ids
    BY <2>2
  <2>4. QED
    BY <1>0, <2>1, <2>2, <2>3, GoTypes
<1>6. QED
  BY <1>1, <1>2, <1>3, <1>4, <1>5

LEMMA ProceedTypes ==
  ASSUME IInv, TypeInv, NEW c \in Clients, Proceed(c)
  PROVE  TypeInv'
<1>0. /\ running \in BOOLEAN /\ up \in BOOLEAN /\ cfg \in Seq(PointConfigs)
      /\ DOMAIN points \subseteq Ids /\ obj \in [Objs -> {Unused} \cup PointObject]
      /\ lifeMtx \in Clients \cup {NoClient}
      /\ call[c] \in Frame /\ Looked(call[c])
  BY DEF TypeInv
<1>z. /\ call[c].todo \in Seq(PointConfigs) /\ call[c].drop \in SUBSET Ids
      /\ call[c].victims \in SUBSET Objs /\ call[c].any \in BOOLEAN
  BY <1>0 DEF Frame
<1>a. ASSUME call[c].todo # <<>>
      PROVE  /\ Head(call[c].todo) \in PointConfigs
             /\ Tail(call[c].todo) \in Seq(PointConfigs)
  BY <1>a, <1>z
<1>1. CASE AddPointWritesBack(c) \/ RemovePointWritesBack(c)
  <2>1. Go(c, Returned) /\ UNCHANGED <<running, up, points, obj, lifeMtx>>
    BY <1>1 DEF AddPointWritesBack, RemovePointWritesBack, Finish
  <2>2. cfg' \in Seq(PointConfigs)
    <3>1. CASE AddPointWritesBack(c)
      <4>1. call[c].todo[1] \in PointConfigs /\ cfg' = Written(cfg, call[c].todo[1])
        BY <1>0, <1>z, <3>1 DEF AddPointWritesBack, Looked
      <4>2. QED
        BY <1>0, <4>1, WrittenType
    <3>2. CASE RemovePointWritesBack(c)
      BY <1>0, <3>2, ErasedType DEF RemovePointWritesBack
    <3>3. QED
      BY <1>1, <3>1, <3>2
  <2>3. QED
    BY <1>0, <2>1, <2>2, ReturnedFrame, GoTypes
<1>2. CASE StartDone(c) \/ StopDone(c) \/ ReloadDone(c)
  <2>1. Go(c, Returned) /\ lifeMtx' = NoClient /\ UNCHANGED <<running, up, cfg, points, obj>>
    BY <1>2 DEF StartDone, StopDone, ReloadDone, Finish
  <2>2. QED
    BY <1>0, <2>1, ReturnedFrame, GoTypes
<1>3. CASE StartOne(c)
  <2> DEFINE p == Head(call[c].todo)
             ok == p.parserId \in Registered /\ MayAdd(p)
             f == [call[c] EXCEPT !.todo = Tail(@), !.any = @ \/ ok]
  <2>1. /\ call[c].todo # <<>> /\ call[c].at = "starting"
        /\ IF ok THEN register(p) ELSE UNCHANGED <<points, obj>>
        /\ Go(c, f) /\ UNCHANGED <<running, up, cfg, lifeMtx>>
    BY <1>3 DEF StartOne
  <2>2. (call[c].any \/ ok) \in BOOLEAN
    OBVIOUS
  <2>3. f \in Frame /\ Looked(f)
    <3> HIDE DEF ok
    <3>1. QED
      BY <1>0, <1>a, <2>1, <2>2 DEF Frame, Looked
  <2>4. DOMAIN points' \subseteq Ids /\ obj' \in [Objs -> {Unused} \cup PointObject]
    BY <1>0, <1>a, <2>1, RegisterTypes
  <2> HIDE DEF f
  <2>5. QED
    BY <1>0, <2>1, <2>3, <2>4, GoTypes
<1>4. CASE StartFails(c)
  <2> DEFINE f == [Returned EXCEPT !.at = "stopping", !.victims = Range(points)]
  <2>1. f \in Frame /\ Looked(f)
    BY ReturnedFrame, VictimTypes, NextFrame
  <2>2. /\ Go(c, f) /\ running' = FALSE /\ points' = <<>>
        /\ UNCHANGED <<up, cfg, obj, lifeMtx>>
    BY <1>4 DEF StartFails, stopAll
  <2> HIDE DEF f
  <2>3. DOMAIN points' \subseteq Ids
    BY <2>2
  <2>4. QED
    BY <1>0, <2>1, <2>2, <2>3, GoTypes
<1>5. CASE Teardown(c)
  <2> DEFINE f == [call[c] EXCEPT !.at = "tearing down", !.victims = Range(points)]
  <2>1. f \in Frame /\ Looked(f)
    BY <1>0, VictimTypes, NextFrame
  <2>2. /\ Go(c, f) /\ up' = FALSE /\ points' = <<>> /\ UNCHANGED <<running, cfg, obj, lifeMtx>>
    BY <1>5 DEF Teardown
  <2> HIDE DEF f
  <2>3. DOMAIN points' \subseteq Ids
    BY <2>2
  <2>4. QED
    BY <1>0, <2>1, <2>2, <2>3, GoTypes
<1>6. ASSUME NEW id \in Ids, ReloadDrops(c, id) PROVE TypeInv'
  <2> DEFINE left == IF id \in DOMAIN points THEN {points[id]} ELSE {}
             f == [call[c] EXCEPT !.drop = @ \ {id}, !.victims = left]
  <2>1. left \in SUBSET Objs
    BY VictimTypes
  <2>2. f \in Frame /\ Looked(f)
    <3> HIDE DEF left
    <3>1. call[c].drop \ {id} \in SUBSET Ids
      BY <1>z
    <3>2. QED
      BY <1>0, <2>1, <3>1, NextFrame
  <2>3. /\ Go(c, f) /\ UNCHANGED <<running, up, cfg, obj, lifeMtx>> /\ DOMAIN points' \subseteq Ids
    BY <1>0, <1>6 DEF ReloadDrops, unregister, Restrict
  <2> HIDE DEF f
  <2>4. QED
    BY <1>0, <2>2, <2>3, GoTypes
<1>7. CASE ReloadDropped(c)
  <2> DEFINE f == [call[c] EXCEPT !.at = "converging"]
  <2>1. f \in Frame /\ Looked(f)
    BY <1>0 DEF Frame, Looked
  <2>2. Go(c, f) /\ UNCHANGED <<running, up, cfg, points, obj, lifeMtx>>
    BY <1>7 DEF ReloadDropped
  <2> HIDE DEF f
  <2>3. QED
    BY <1>0, <2>1, <2>2, GoTypes
<1>8. CASE ReloadLooks(c)
  <2> DEFINE skips == [call[c] EXCEPT !.todo = Tail(@)]
             restarts == [call[c] EXCEPT !.at = "restarting"]
             adds == [call[c] EXCEPT !.at = "adding"]
  <2>1. /\ call[c].at = "converging" /\ call[c].todo # <<>>
        /\ UNCHANGED <<running, up, cfg, points, obj, lifeMtx>>
        /\ Go(c, skips) \/ Go(c, restarts) \/ Go(c, adds)
    BY <1>8 DEF ReloadLooks
  <2>2. skips \in Frame /\ Looked(skips)
    BY <1>0, <1>a, <2>1 DEF Frame, Looked
  <2>3. restarts \in Frame /\ Looked(restarts) /\ adds \in Frame /\ Looked(adds)
    BY <1>0, <2>1, NextFrame
  <2> HIDE DEF skips, restarts, adds
  <2>4. QED
    BY <1>0, <2>1, <2>2, <2>3, GoTypes
<1>9. CASE ReloadRemoves(c)
  <2> DEFINE id == Head(call[c].todo).id
             left == IF id \in DOMAIN points THEN {points[id]} ELSE {}
             f == [call[c] EXCEPT !.at = "adding", !.victims = left]
  <2>1. left \in SUBSET Objs
    BY VictimTypes
  <2>2. call[c].at = "restarting" /\ call[c].todo # <<>>
    BY <1>0, <1>9 DEF ReloadRemoves, Looked
  <2>3. f \in Frame /\ Looked(f)
    <3> HIDE DEF left
    <3>1. QED
      BY <1>0, <2>1, <2>2 DEF Frame, Looked
  <2>4. /\ Go(c, f) /\ UNCHANGED <<running, up, cfg, obj, lifeMtx>> /\ DOMAIN points' \subseteq Ids
    BY <1>0, <1>9 DEF ReloadRemoves, unregister, Restrict
  <2> HIDE DEF f
  <2>5. QED
    BY <1>0, <2>3, <2>4, GoTypes
<1>10. CASE ReloadAdds(c)
  <2> DEFINE f == [call[c] EXCEPT !.at = "converging", !.todo = Tail(@)]
  <2>1. /\ call[c].at = "adding" /\ call[c].todo # <<>> /\ add(Head(call[c].todo))
        /\ Go(c, f) /\ UNCHANGED <<running, up, cfg, lifeMtx>>
    BY <1>0, <1>10 DEF ReloadAdds, Looked
  <2>2. f \in Frame /\ Looked(f)
    BY <1>0, <1>a, <2>1 DEF Frame, Looked
  <2>3. DOMAIN points' \subseteq Ids /\ obj' \in [Objs -> {Unused} \cup PointObject]
    BY <1>0, <1>a, <2>1, RegisterTypes DEF add
  <2> HIDE DEF f
  <2>4. QED
    BY <1>0, <2>1, <2>2, <2>3, GoTypes
<1>11. ASSUME NEW o \in Objs, JoinVictim(c, o) PROVE TypeInv'
  <2> DEFINE f == [call[c] EXCEPT !.victims = @ \ {o}]
  <2>1. call[c].victims \ {o} \in SUBSET Objs
    BY <1>z
  <2>2. f \in Frame /\ Looked(f)
    BY <1>0, <2>1, NextFrame
  <2>3. /\ Go(c, f) /\ UNCHANGED <<running, up, cfg, points, lifeMtx>>
        /\ obj' = [obj EXCEPT ![o] = Unused]
    BY <1>11 DEF JoinVictim
  <2> HIDE DEF f
  <2>4. obj' \in [Objs -> {Unused} \cup PointObject]
    BY <1>0, <2>3
  <2>5. QED
    BY <1>0, <2>2, <2>3, <2>4, GoTypes
<1>12. QED
  BY <1>1, <1>2, <1>3, <1>4, <1>5, <1>6, <1>7, <1>8, <1>9, <1>10, <1>11, ThreadTypes DEF Proceed

LEMMA NextTypes == IInv /\ TypeInv /\ [Next]_vars => TypeInv'
<1> SUFFICES ASSUME IInv, TypeInv, [Next]_vars PROVE TypeInv'
  OBVIOUS
<1>1. ASSUME NEW c \in Clients, Call(c) PROVE TypeInv'
  BY <1>1, CallTypes DEF Call
<1>2. ASSUME NEW o \in Objs, ReceiveThread(o) PROVE TypeInv'
  BY <1>2, ThreadTypes DEF ReceiveThread
<1>3. CASE UNCHANGED vars
  BY <1>3 DEF vars, TypeInv, Looked
<1>4. QED
  BY <1>1, <1>2, <1>3, ProceedTypes DEF Next

(* Among any finite number of Point objects, if there may be infinitely     *)
(* many, there is always a next one.                                        *)
UsedInv == IsFiniteSet({o \in Objs : obj[o] # Unused})

LEMMA NextUsed == IInv /\ UsedInv /\ [Next]_vars => UsedInv'
<1> SUFFICES ASSUME IInv, UsedInv, [Next]_vars PROVE UsedInv'
  OBVIOUS
<1>1. ASSUME NEW p, register(p) PROVE UsedInv'
  <2>1. PICK o \in FreshObj :
          obj' = [obj EXCEPT ![o] = [st |-> IF p.enabled THEN "starting" ELSE "disabled",
                                     cfg |-> p, quit |-> FALSE]]
    BY <1>1 DEF register
  <2>2. {q \in Objs : obj'[q] # Unused} \subseteq {q \in Objs : obj[q] # Unused} \cup {o}
    BY <2>1 DEF IInv, OwnInv
  <2>3. IsFiniteSet({q \in Objs : obj[q] # Unused} \cup {o})
    BY FS_AddElement DEF UsedInv
  <2>4. QED
    BY <2>2, <2>3, FS_Subset DEF UsedInv
<1>2. ASSUME \A q \in Objs : obj'[q] # Unused => obj[q] # Unused PROVE UsedInv'
  <2>1. {q \in Objs : obj'[q] # Unused} \subseteq {q \in Objs : obj[q] # Unused}
    BY <1>2
  <2>2. QED
    BY <2>1, FS_Subset DEF UsedInv
<1>3. ASSUME NEW c \in Clients, Call(c)
      PROVE  UNCHANGED obj \/ \E p : register(p)
  BY <1>3 DEF Call, AddPoint, RemovePoint, StartBegins, ReloadBegins, StopBegins
<1>4. ASSUME NEW o \in Objs, Bind(o) \/ BindFails(o) \/ Leave(o) \/ \E c \in Clients : StopVictim(c, o)
      PROVE  \A q \in Objs : obj'[q] # Unused => obj[q] # Unused
  <2>1. obj[o] # Unused /\ \E r : obj' = [obj EXCEPT ![o] = r]
    BY <1>4 DEF Bind, BindFails, Leave, StopVictim, HasThread, Unused
  <2>2. QED
    BY <2>1 DEF IInv, OwnInv
<1>5. ASSUME NEW c \in Clients, NEW o \in Objs, JoinVictim(c, o)
      PROVE  \A q \in Objs : obj'[q] # Unused => obj[q] # Unused
  BY <1>5 DEF JoinVictim, IInv, OwnInv
<1>6. ASSUME NEW c \in Clients, Proceed(c)
      PROVE  \/ UNCHANGED obj \/ \E p : register(p)
             \/ \E o \in Objs : StopVictim(c, o) \/ JoinVictim(c, o)
  BY <1>6 DEF Proceed, AddPointWritesBack, RemovePointWritesBack, StartOne, StartDone, StartFails,
     Teardown, StopDone, ReloadDrops, ReloadDropped, ReloadLooks, ReloadRemoves, ReloadAdds, add,
     ReloadDone
<1>7. UNCHANGED obj => UsedInv'
  BY <1>2
<1>8. QED
  BY <1>1, <1>2, <1>3, <1>4, <1>5, <1>6, <1>7 DEF Next, ReceiveThread, vars

(* The types, and that a new Point object is never wanting: TypeOK, when    *)
(* memory does not end, for any clients, configurations and access points.  *)
THEOREM TypeCorrect ==
  ASSUME ~IsFiniteSet(Objs)
  PROVE  Spec => []TypeOK
<1>1. Init => TypeInv /\ UsedInv
  <2> SUFFICES ASSUME Init PROVE UsedInv
    BY InitTypeInv
  <2>1. {o \in Objs : obj[o] # Unused} = {}
    BY DEF Init
  <2>2. QED
    BY <2>1, FS_EmptySet DEF UsedInv
<1>2. Spec => [](TypeInv /\ UsedInv)
  BY <1>1, Invariant, NextTypes, NextUsed, PTL DEF Spec
<1>3. IInv /\ TypeInv /\ UsedInv => TypeOK
  <2> SUFFICES ASSUME IInv, TypeInv, UsedInv PROVE TypeOK
    OBVIOUS
  <2> DEFINE free == {o \in Objs : obj[o] = Unused}
             used == {o \in Objs : obj[o] # Unused}
  <2>1. free # {}
    <3>1. CASE free = {}
      <4>1. used = Objs
        BY <3>1
      <4>2. QED
        BY <4>1 DEF UsedInv
    <3>2. QED
      BY <3>1
  <2>2. free \in SUBSET Nat
    BY GatewayAssumption
  <2>3. PICK least \in free : \A q \in free : least <= q
    <3> HIDE DEF free
    <3>1. QED
      BY <2>1, <2>2, LeastNumber
  <2>4. FreshObj # {}
    BY <2>3 DEF FreshObj
  <2>5. \A i \in DOMAIN points : points[i] \in Objs /\ obj[points[i]] # Unused
    BY DEF IInv, OwnInv, Used
  <2>6. \A o \in Objs : obj[o] = Unused \/ obj[o] \in PointObject
    BY DEF TypeInv
  <2>7. \A c \in Clients : call[c] \in Frame
    BY DEF TypeInv
  <2>8. QED
    BY <2>4, <2>5, <2>6, <2>7 DEF TypeOK, TypeInv, Frame, PointObject
<1>4. QED
  BY <1>2, <1>3, Invariant, PTL

-----------------------------------------------------------------------------
(* The configuration and the manager in agreement.                         *)

(* What the access points in the map run with.                              *)
Now == [i \in DOMAIN points |-> obj[points[i]].cfg]

OneEach(ps) == \A j, k \in DOMAIN ps : ps[j].id = ps[k].id => j = k
Lists(ps, p) == \E k \in DOMAIN ps : ps[k].id = p.id /\ SameSettings(p, ps[k])
Names(ps, id) == \E k \in DOMAIN ps : ps[k].id = id
AllListed(R, ps) == \A i \in DOMAIN R : Lists(ps, R[i])
Within(todo, ps) == \A k \in DOMAIN todo : Lists(ps, todo[k])

ReloadAt == {"converging", "restarting", "adding"}

(* What a call in frame f that nobody disturbs has yet to set right between *)
(* the points as they run (R) and the configuration (ps).                   *)
Agrees(f, R, ps) ==
  /\ f.at \in {"removed", "starting"} => AllListed(R, ps)
  /\ f.at = "added" =>
       LET p == Head(f.todo) IN
       /\ p.id \in DOMAIN R /\ R[p.id] = p
       /\ \A i \in DOMAIN R : i # p.id => Lists(ps, R[i])
  /\ f.at = "removed" => \A i \in DOMAIN R : i \notin f.drop
  /\ f.at \in {"starting", "dropping"} \cup ReloadAt => Within(f.todo, ps)
  /\ f.at \in {"stopping", "tearing down"} => DOMAIN R = {}
  /\ f.at = "dropping" => \A i \in DOMAIN R : i \in f.drop \/ Names(f.todo, i)
  /\ f.at \in ReloadAt => \A i \in DOMAIN R : Names(f.todo, i) \/ Lists(ps, R[i])
  /\ f.at = "adding" => Head(f.todo).id \notin DOMAIN R

AgreeInv ==
  ~overlapped =>
    /\ OneEach(cfg)
    /\ running \/ ~up \/ \E c \in Clients : call[c].at = "stopping"
    /\ \A c \in Clients : call[c].at # "idle" => Agrees(call[c], Now, cfg)
    /\ Quiet => AllListed(Now, cfg)

-----------------------------------------------------------------------------
(* Lemmas: what is written back.                                           *)

LEMMA WrittenLists ==
  ASSUME NEW ps \in Seq(PointConfigs), NEW p \in PointConfigs, OneEach(ps)
  PROVE  /\ OneEach(Written(ps, p)) /\ Lists(Written(ps, p), p)
         /\ \A q : q.id # p.id /\ Lists(ps, q) => Lists(Written(ps, p), q)
<1>0. DOMAIN ps = 1..Len(ps) /\ Len(ps) \in Nat
  OBVIOUS
<1>1. CASE Places(ps, p.id) = {}
  <2>1. PICK w : w = Append(ps, p)
    OBVIOUS
  <2>2. Written(ps, p) = w
    BY <1>1, <2>1, WhatIsWritten
  <2>3. /\ DOMAIN w = 1..(Len(ps) + 1) /\ w[Len(ps) + 1] = p
        /\ \A k \in 1..Len(ps) : w[k] = ps[k]
    BY <2>1
  <2>4. \A k \in 1..Len(ps) : ps[k].id # p.id
    BY <1>0, <1>1 DEF Places
  <2>5. ASSUME NEW j \in DOMAIN w, NEW k \in DOMAIN w, w[j].id = w[k].id PROVE j = k
    BY <1>0, <2>3, <2>4, <2>5 DEF OneEach
  <2>6. ASSUME NEW q, q.id # p.id, Lists(ps, q) PROVE Lists(w, q)
    BY <1>0, <2>3, <2>6 DEF Lists
  <2>7. Lists(w, p)
    BY <1>0, <2>3 DEF Lists, SameSettings
  <2>8. QED
    BY <2>2, <2>5, <2>6, <2>7 DEF OneEach
<1>2. CASE Places(ps, p.id) # {}
  <2>1. PICK first \in 1..Len(ps) : first = FirstOf(Places(ps, p.id)) /\ ps[first].id = p.id
    BY <1>2, FirstPlace
  <2>2. PICK w : w = [ps EXCEPT ![first] = p]
    OBVIOUS
  <2>3. Written(ps, p) = w
    BY <1>2, <2>1, <2>2, WhatIsWritten
  <2>4. /\ DOMAIN w = 1..Len(ps) /\ w[first] = p
        /\ \A k \in 1..Len(ps) : k # first => w[k] = ps[k]
    BY <1>0, <2>2
  <2>5. \A k \in 1..Len(ps) : w[k].id = ps[k].id
    BY <2>1, <2>4
  <2>6. OneEach(w)
    BY <1>0, <2>4, <2>5 DEF OneEach
  <2>7. ASSUME NEW q, q.id # p.id, Lists(ps, q) PROVE Lists(w, q)
    <3>1. PICK k \in 1..Len(ps) : ps[k].id = q.id /\ SameSettings(q, ps[k])
      BY <1>0, <2>7 DEF Lists
    <3>2. k # first
      BY <2>1, <2>7, <3>1
    <3>3. QED
      BY <2>4, <3>1, <3>2 DEF Lists
  <2>8. Lists(w, p)
    BY <2>4 DEF Lists, SameSettings
  <2>9. QED
    BY <2>3, <2>6, <2>7, <2>8
<1>3. QED
  BY <1>1, <1>2

LEMMA ErasedLists ==
  ASSUME NEW ps \in Seq(PointConfigs), NEW id, OneEach(ps)
  PROVE  /\ OneEach(Erased(ps, id))
         /\ \A q : q.id # id /\ Lists(ps, q) => Lists(Erased(ps, id), q)
<1>0. DOMAIN ps = 1..Len(ps) /\ Len(ps) \in Nat
  OBVIOUS
<1>1. CASE Places(ps, id) = {}
  BY <1>1, WhatIsErased
<1>2. CASE Places(ps, id) # {}
  <2>1. PICK first \in 1..Len(ps) : first = FirstOf(Places(ps, id)) /\ ps[first].id = id
    BY <1>2, FirstPlace
  <2>2. PICK l, r : l = SubSeq(ps, 1, first - 1) /\ r = SubSeq(ps, first + 1, Len(ps))
    OBVIOUS
  <2>3. PICK e : e = l \o r
    OBVIOUS
  <2>4. Erased(ps, id) = e
    BY <1>2, <2>1, <2>2, <2>3, WhatIsErased
  <2>5. /\ l \in Seq(PointConfigs) /\ Len(l) = first - 1
        /\ \A k \in 1..(first - 1) : l[k] = ps[k]
    BY <1>0, <2>1, <2>2
  <2>6. /\ r \in Seq(PointConfigs) /\ Len(r) = Len(ps) - first
        /\ \A k \in 1..(Len(ps) - first) : r[k] = ps[first + k]
    <3>1. first + 1 \in Int /\ Len(ps) \in Int
          /\ \A k \in (first + 1)..Len(ps) : ps[k] \in PointConfigs
      BY <1>0, <2>1
    <3>2. /\ r \in Seq(PointConfigs)
          /\ Len(r) = IF first + 1 <= Len(ps) THEN Len(ps) - (first + 1) + 1 ELSE 0
          /\ \A k \in 1..(Len(ps) - (first + 1) + 1) : r[k] = ps[(first + 1) + k - 1]
      BY <2>2, <3>1, SubSeqProperties
    <3>3. Len(ps) - (first + 1) + 1 = Len(ps) - first
      BY <1>0
    <3>4. ASSUME NEW k \in 1..(Len(ps) - first) PROVE r[k] = ps[first + k]
      <4>1. (first + 1) + k - 1 = first + k
        OBVIOUS
      <4>2. QED
        BY <3>2, <3>3, <4>1
    <3>5. QED
      BY <1>0, <2>1, <3>2, <3>4
  <2>7. /\ DOMAIN e = 1..(Len(ps) - 1)
        /\ \A k \in 1..(Len(ps) - 1) : e[k] = IF k < first THEN ps[k] ELSE ps[k + 1]
    <3>0. /\ e \in Seq(PointConfigs) /\ Len(e) = Len(l) + Len(r)
          /\ \A k \in 1..(Len(l) + Len(r)) : e[k] = IF k <= Len(l) THEN l[k] ELSE r[k - Len(l)]
      BY <2>3, <2>5, <2>6, ConcatProperties
    <3>1. DOMAIN e = 1..(Len(ps) - 1) /\ Len(l) + Len(r) = Len(ps) - 1
      BY <1>0, <2>1, <2>5, <2>6, <3>0
    <3>2. ASSUME NEW k \in 1..(Len(ps) - 1), k < first PROVE e[k] = ps[k]
      BY <1>0, <2>1, <2>5, <3>0, <3>1, <3>2
    <3>3. ASSUME NEW k \in 1..(Len(ps) - 1), ~(k < first) PROVE e[k] = ps[k + 1]
      <4>1. PICK m \in 1..(Len(ps) - first) : m = k - Len(l)
        BY <1>0, <2>1, <2>5, <3>3
      <4>2. k \in 1..(Len(l) + Len(r)) /\ ~(k <= Len(l)) /\ first + m = k + 1
        BY <1>0, <2>1, <2>5, <3>1, <3>3, <4>1, SMTT(30)
      <4>3. r[m] = ps[first + m]
        BY <2>6
      <4>4. QED
        BY <3>0, <4>1, <4>2, <4>3
    <3>4. QED
      BY <3>1, <3>2, <3>3
  <2>8. ASSUME NEW j \in DOMAIN e, NEW k \in DOMAIN e, e[j].id = e[k].id PROVE j = k
    <3>1. PICK u, v : u = (IF j < first THEN j ELSE j + 1) /\ v = (IF k < first THEN k ELSE k + 1)
      OBVIOUS
    <3>2. u \in 1..Len(ps) /\ v \in 1..Len(ps) /\ (u = v => j = k)
      BY <1>0, <2>1, <2>7, <3>1
    <3>3. e[j] = ps[u] /\ e[k] = ps[v]
      BY <2>7, <3>1
    <3>4. QED
      BY <1>0, <2>8, <3>2, <3>3 DEF OneEach
  <2>9. ASSUME NEW q, q.id # id, Lists(ps, q) PROVE Lists(e, q)
    <3>1. PICK k \in 1..Len(ps) : ps[k].id = q.id /\ SameSettings(q, ps[k])
      BY <1>0, <2>9 DEF Lists
    <3>2. k # first
      BY <2>1, <2>9, <3>1
    <3>3. CASE k < first
      <4>1. k \in 1..(Len(ps) - 1) /\ e[k] = ps[k]
        BY <1>0, <2>1, <2>7, <3>3
      <4>2. QED
        BY <2>7, <3>1, <4>1 DEF Lists
    <3>4. CASE k > first
      <4>1. k - 1 \in 1..(Len(ps) - 1) /\ e[k - 1] = ps[k]
        BY <1>0, <2>1, <2>7, <3>4
      <4>2. QED
        BY <2>7, <3>1, <4>1 DEF Lists
    <3>5. QED
      BY <1>0, <2>1, <3>2, <3>3, <3>4
  <2>10. QED
    BY <2>4, <2>8, <2>9 DEF OneEach
<1>3. QED
  BY <1>1, <1>2

-----------------------------------------------------------------------------
(* Lemmas: how the steps change what runs.                                 *)

LEMMA NowIds == IInv => DOMAIN Now = DOMAIN points /\ \A i \in DOMAIN Now : Now[i].id = i
  BY DEF IInv, OwnInv, Now

LEMMA NowRegistered ==
  ASSUME IInv, NEW p \in PointConfigs, p.id \notin DOMAIN points, register(p)
  PROVE  /\ DOMAIN Now' = DOMAIN Now \cup {p.id} /\ Now'[p.id] = p
         /\ \A i \in DOMAIN Now : i # p.id /\ Now'[i] = Now[i]
<1>1. PICK o \in FreshObj :
        /\ points' = [i \in DOMAIN points \cup {p.id} |-> IF i = p.id THEN o ELSE points[i]]
        /\ obj' = [obj EXCEPT ![o] = [st |-> IF p.enabled THEN "starting" ELSE "disabled",
                                      cfg |-> p, quit |-> FALSE]]
  BY DEF register
<1>2. o \in Objs /\ obj[o] = Unused /\ DOMAIN obj = Objs
  BY DEF FreshObj, IInv, OwnInv
<1>3. DOMAIN points' = DOMAIN points \cup {p.id} /\ points'[p.id] = o
      /\ \A i \in DOMAIN points : points'[i] = points[i]
  BY <1>1
<1>4. \A i \in DOMAIN points : points[i] \in Objs /\ points[i] # o
  BY <1>2 DEF IInv, OwnInv, Used
<1>5. obj'[o].cfg = p /\ \A i \in DOMAIN points : obj'[points[i]] = obj[points[i]]
  BY <1>1, <1>2, <1>4
<1>6. DOMAIN Now' = DOMAIN points' /\ \A i \in DOMAIN points' : Now'[i] = obj'[points'[i]].cfg
  BY DEF Now
<1>7. QED
  BY <1>3, <1>5, <1>6 DEF Now

LEMMA NowUnregistered ==
  ASSUME NEW id, unregister(id), UNCHANGED obj
  PROVE  /\ DOMAIN Now' = DOMAIN Now \ {id}
         /\ \A i \in DOMAIN Now' : Now'[i] = Now[i]
<1>1. DOMAIN points' = DOMAIN points \ {id} /\ \A i \in DOMAIN points' : points'[i] = points[i]
  BY DEF unregister, Restrict
<1>2. DOMAIN Now' = DOMAIN points' /\ \A i \in DOMAIN points' : Now'[i] = obj'[points'[i]].cfg
  BY DEF Now
<1>3. QED
  BY <1>1, <1>2 DEF Now

LEMMA NowEmptied ==
  ASSUME points' = <<>>
  PROVE  DOMAIN Now' = {}
<1>1. DOMAIN points' = {}
  OBVIOUS
<1>2. QED
  BY <1>1 DEF Now

LEMMA NowKept ==
  ASSUME UNCHANGED points, \A i \in DOMAIN points : obj'[points[i]].cfg = obj[points[i]].cfg
  PROVE  Now' = Now
  BY DEF Now

-----------------------------------------------------------------------------
(* Lemmas: a step of one call while the others are idle.                    *)

Alone(c) == \A b \in Clients : b # c => call[b].at = "idle"

(* Call c goes on with frame f, nobody else is in a call, and what is still *)
(* to be set right is what f says.                                          *)
LEMMA GoAgrees ==
  ASSUME FullInv, AgreeInv, NEW c \in Clients, NEW f, Go(c, f),
         call[c].at # "idle" \/ f.at # "idle",
         (~overlapped /\ Alone(c)) =>
           /\ OneEach(cfg') /\ (running' \/ ~up' \/ f.at = "stopping")
           /\ f.at # "idle" => Agrees(f, Now', cfg')
           /\ f.at = "idle" => AllListed(Now', cfg')
  PROVE  AgreeInv'
<1>1. /\ DOMAIN call' = Clients /\ call'[c] = f
      /\ \A b \in Clients : b # c => call'[b] = call[b]
  BY GoFrame DEF FullInv, IInv
<1> SUFFICES ASSUME ~overlapped' PROVE AgreeInv'
  BY DEF AgreeInv
<1>2. ~overlapped /\ Alone(c)
  BY DEF Go, FullInv, ReloadInv, Alone
<1>3. OneEach(cfg')
  BY <1>2
<1>4. running' \/ ~up' \/ \E b \in Clients : call'[b].at = "stopping"
  BY <1>1, <1>2
<1>5. ASSUME NEW b \in Clients, call'[b].at # "idle" PROVE Agrees(call'[b], Now', cfg')
  <2>1. b = c
    BY <1>1, <1>2, <1>5 DEF Alone
  <2>2. QED
    BY <1>1, <1>2, <1>5, <2>1
<1>6. ASSUME \A b \in Clients : call'[b].at = "idle" PROVE AllListed(Now', cfg')
  BY <1>1, <1>2, <1>6
<1>7. QED
  BY <1>3, <1>4, <1>5, <1>6 DEF AgreeInv, Quiet

(* Nothing changes but where the receive threads are.                       *)
LEMMA KeptAgrees ==
  ASSUME AgreeInv, UNCHANGED <<running, up, cfg, points, call, overlapped>>,
         \A i \in DOMAIN points : obj'[points[i]].cfg = obj[points[i]].cfg
  PROVE  AgreeInv'
<1>1. Now' = Now
  BY NowKept
<1>2. QED
  BY <1>1 DEF AgreeInv, Quiet

(* What holds of a call that nobody disturbs.                               *)
LEMMA AloneAgrees ==
  ASSUME AgreeInv, NEW c \in Clients, ~overlapped, Alone(c)
  PROVE  /\ OneEach(cfg) /\ (running \/ ~up \/ call[c].at = "stopping")
         /\ call[c].at # "idle" => Agrees(call[c], Now, cfg)
         /\ call[c].at = "idle" => AllListed(Now, cfg)
<1>1. call[c].at = "idle" => Quiet
  BY DEF Alone, Quiet
<1>2. \A b \in Clients : call[b].at = "stopping" => b = c
  BY DEF Alone
<1>3. QED
  BY <1>1, <1>2 DEF AgreeInv

-----------------------------------------------------------------------------
(* The invariant: addPoint and removePoint.                                *)

HoldsAll == FullInv /\ TypeInv /\ AgreeInv

LEMMA AddAgrees ==
  ASSUME HoldsAll, NEW c \in Clients, NEW p \in PointConfigs, AddPoint(c, p)
  PROVE  AgreeInv'
<1>1. PICK f : f = [Returned EXCEPT !.at = "added", !.todo = <<p>>]
  OBVIOUS
<1>2. f.at = "added" /\ Head(f.todo) = p
  BY <1>1 DEF Returned
<1>3. Go(c, f) /\ register(p) /\ MayAdd(p) /\ call[c].at = "idle" /\ up
      /\ UNCHANGED <<running, up, cfg>>
  BY <1>1 DEF AddPoint
<1>4. /\ DOMAIN Now' = DOMAIN Now \cup {p.id} /\ Now'[p.id] = p
      /\ \A i \in DOMAIN Now : i # p.id /\ Now'[i] = Now[i]
  BY <1>3, NowRegistered DEF MayAdd, HoldsAll, FullInv
<1>5. ASSUME ~overlapped, Alone(c)
      PROVE  OneEach(cfg') /\ running' /\ Agrees(f, Now', cfg')
  <2>1. OneEach(cfg) /\ running /\ AllListed(Now, cfg)
    BY <1>3, <1>5, AloneAgrees DEF HoldsAll
  <2>2. \A i \in DOMAIN Now' : i # p.id => Lists(cfg, Now'[i])
    BY <1>4, <2>1 DEF AllListed
  <2>3. QED
    BY <1>2, <1>3, <1>4, <2>1, <2>2 DEF Agrees, ReloadAt
<1>6. QED
  BY <1>2, <1>3, <1>5, GoAgrees DEF HoldsAll

LEMMA AddWrittenAgrees ==
  ASSUME HoldsAll, NEW c \in Clients, AddPointWritesBack(c)
  PROVE  AgreeInv'
<1>1. PICK p : p = Head(call[c].todo)
  OBVIOUS
<1>2. p \in PointConfigs /\ p = call[c].todo[1]
  <2>1. call[c] \in Frame /\ call[c].todo # <<>>
    BY DEF AddPointWritesBack, HoldsAll, TypeInv, Looked
  <2>2. call[c].todo \in Seq(PointConfigs)
    BY <2>1 DEF Frame
  <2>3. QED
    BY <1>1, <2>1, <2>2
<1>3. Go(c, Returned) /\ call[c].at = "added" /\ cfg' = Written(cfg, p)
      /\ UNCHANGED <<running, up, points, obj>>
  BY <1>2 DEF AddPointWritesBack, Finish
<1>4. Now' = Now /\ Returned.at = "idle"
  BY <1>3 DEF Now, Returned
<1>5. ASSUME ~overlapped, Alone(c)
      PROVE  OneEach(cfg') /\ (running' \/ ~up') /\ AllListed(Now', cfg')
  <2>1. OneEach(cfg) /\ (running \/ ~up) /\ Agrees(call[c], Now, cfg)
    BY <1>3, <1>5, AloneAgrees DEF HoldsAll
  <2>2. /\ OneEach(Written(cfg, p)) /\ Lists(Written(cfg, p), p)
        /\ \A q : q.id # p.id /\ Lists(cfg, q) => Lists(Written(cfg, p), q)
    BY <1>2, <2>1, WrittenLists DEF HoldsAll, TypeInv
  <2>3. Now[p.id] = p /\ \A i \in DOMAIN Now : i # p.id => Lists(cfg, Now[i])
    BY <1>1, <1>3, <2>1 DEF Agrees
  <2>4. ASSUME NEW i \in DOMAIN Now PROVE Lists(Written(cfg, p), Now[i])
    <3>1. Now[i].id = i
      BY NowIds DEF HoldsAll, FullInv
    <3>2. QED
      BY <2>2, <2>3, <3>1
  <2>5. QED
    BY <1>3, <1>4, <2>1, <2>2, <2>4 DEF AllListed
<1>6. QED
  BY <1>3, <1>4, <1>5, GoAgrees DEF HoldsAll

LEMMA RemoveAgrees ==
  ASSUME HoldsAll, NEW c \in Clients, NEW id \in Ids, RemovePoint(c, id)
  PROVE  AgreeInv'
<1>1. PICK f : f = [Returned EXCEPT !.at = "removed", !.drop = {id}, !.victims = {points[id]}]
  OBVIOUS
<1>2. f.at = "removed" /\ f.drop = {id}
  BY <1>1 DEF Returned
<1>3. Go(c, f) /\ unregister(id) /\ call[c].at = "idle" /\ UNCHANGED <<running, up, cfg, obj>>
  BY <1>1 DEF RemovePoint
<1>4. DOMAIN Now' = DOMAIN Now \ {id} /\ \A i \in DOMAIN Now' : Now'[i] = Now[i]
  BY <1>3, NowUnregistered
<1>5. ASSUME ~overlapped, Alone(c)
      PROVE  OneEach(cfg') /\ (running' \/ ~up') /\ Agrees(f, Now', cfg')
  <2>1. OneEach(cfg) /\ (running \/ ~up) /\ AllListed(Now, cfg)
    BY <1>3, <1>5, AloneAgrees DEF HoldsAll
  <2>2. AllListed(Now', cfg)
    BY <1>4, <2>1 DEF AllListed
  <2>3. QED
    BY <1>2, <1>3, <1>4, <2>1, <2>2 DEF Agrees, ReloadAt
<1>6. QED
  BY <1>2, <1>3, <1>5, GoAgrees DEF HoldsAll

LEMMA RemoveWrittenAgrees ==
  ASSUME HoldsAll, NEW c \in Clients, RemovePointWritesBack(c)
  PROVE  AgreeInv'
<1>1. PICK id \in call[c].drop : cfg' = Erased(cfg, id)
  BY DEF RemovePointWritesBack
<1>2. Go(c, Returned) /\ call[c].at = "removed" /\ UNCHANGED <<running, up, points, obj>>
  BY DEF RemovePointWritesBack, Finish
<1>3. Now' = Now /\ Returned.at = "idle"
  BY <1>2 DEF Now, Returned
<1>4. ASSUME ~overlapped, Alone(c)
      PROVE  OneEach(cfg') /\ (running' \/ ~up') /\ AllListed(Now', cfg')
  <2>1. OneEach(cfg) /\ (running \/ ~up) /\ Agrees(call[c], Now, cfg)
    BY <1>2, <1>4, AloneAgrees DEF HoldsAll
  <2>2. /\ OneEach(Erased(cfg, id))
        /\ \A q : q.id # id /\ Lists(cfg, q) => Lists(Erased(cfg, id), q)
    BY <2>1, ErasedLists DEF HoldsAll, TypeInv
  <2>3. AllListed(Now, cfg) /\ \A i \in DOMAIN Now : i \notin call[c].drop
    BY <1>2, <2>1 DEF Agrees
  <2>4. ASSUME NEW i \in DOMAIN Now PROVE Lists(Erased(cfg, id), Now[i])
    <3>1. Now[i].id = i /\ i # id
      BY <1>1, <2>3, NowIds DEF HoldsAll, FullInv
    <3>2. QED
      BY <2>2, <2>3, <3>1 DEF AllListed
  <2>5. QED
    BY <1>1, <1>2, <1>3, <2>1, <2>2, <2>4 DEF AllListed
<1>5. QED
  BY <1>2, <1>3, <1>4, GoAgrees DEF HoldsAll

-----------------------------------------------------------------------------
(* The invariant: start and stop.                                          *)

(* While the gateway does not run and no call is under way there is no      *)
(* access point.                                                            *)
LEMMA NothingRuns ==
  ASSUME HoldsAll, ~overlapped, ~running, \A c \in Clients : call[c].at # "stopping"
  PROVE  DOMAIN Now = {}
  BY DEF HoldsAll, AgreeInv, FullInv, IInv, CallInv, Now

LEMMA StartAgrees ==
  ASSUME HoldsAll, NEW c \in Clients, NEW new \in Configs, OneEach(new), StartBegins(c, new)
  PROVE  AgreeInv'
<1>1. PICK f : f = [Returned EXCEPT !.at = "starting", !.todo = new]
  OBVIOUS
<1>2. f.at = "starting" /\ f.todo = new
  BY <1>1 DEF Returned
<1>3. Go(c, f) /\ call[c].at = "idle" /\ ~running /\ running' /\ cfg' = new
      /\ UNCHANGED <<points, obj>>
  BY <1>1 DEF StartBegins
<1>4. Now' = Now
  BY <1>3 DEF Now
<1>5. ASSUME ~overlapped, Alone(c)
      PROVE  Agrees(f, Now', cfg')
  <2>1. \A b \in Clients : call[b].at = "idle"
    BY <1>3, <1>5 DEF Alone
  <2>2. DOMAIN Now = {}
    BY <1>3, <1>5, <2>1, NothingRuns
  <2>3. Within(new, new)
    BY DEF Within, Lists, SameSettings
  <2>4. QED
    BY <1>2, <1>3, <1>4, <2>2, <2>3 DEF Agrees, ReloadAt, AllListed
<1>6. QED
  BY <1>2, <1>3, <1>5, GoAgrees DEF HoldsAll

(* The head of what a call has to do, and the rest.                         *)
LEMMA TodoParts ==
  ASSUME TypeInv, NEW c \in Clients, call[c].todo # <<>>
  PROVE  LET p == Head(call[c].todo)
             rest == Tail(call[c].todo)
         IN /\ p \in PointConfigs
            /\ \A ps : Within(call[c].todo, ps) => Lists(ps, p) /\ Within(rest, ps)
            /\ \A i : Names(call[c].todo, i) => i = p.id \/ Names(rest, i)
<1>1. PICK todo : todo = call[c].todo
  OBVIOUS
<1>2. todo \in Seq(PointConfigs) /\ todo # <<>>
  BY <1>1 DEF TypeInv, Frame
<1>3. PICK p, rest : p = Head(todo) /\ rest = Tail(todo)
  OBVIOUS
<1>4. /\ p \in PointConfigs /\ p = todo[1] /\ Len(todo) \in Nat /\ Len(todo) >= 1
      /\ DOMAIN todo = 1..Len(todo) /\ DOMAIN rest = 1..(Len(todo) - 1)
      /\ \A k \in 1..(Len(todo) - 1) : rest[k] = todo[k + 1]
  BY <1>2, <1>3
<1>5. ASSUME NEW ps, Within(todo, ps) PROVE Lists(ps, p) /\ Within(rest, ps)
  <2>1. \A k \in 1..(Len(todo) - 1) : k + 1 \in 1..Len(todo)
    BY <1>4
  <2>2. QED
    BY <1>4, <1>5, <2>1 DEF Within
<1>6. ASSUME NEW i, Names(todo, i) PROVE i = p.id \/ Names(rest, i)
  <2>1. PICK k \in 1..Len(todo) : todo[k].id = i
    BY <1>4, <1>6 DEF Names
  <2>2. CASE k = 1
    BY <1>4, <2>1, <2>2
  <2>3. CASE k # 1
    <3>1. k - 1 \in 1..(Len(todo) - 1) /\ (k - 1) + 1 = k
      BY <1>4, <2>3
    <3>2. QED
      BY <1>4, <2>1, <3>1 DEF Names
  <2>4. QED
    BY <2>2, <2>3
<1>7. QED
  BY <1>1, <1>3, <1>4, <1>5, <1>6

LEMMA StartOneAgrees ==
  ASSUME HoldsAll, NEW c \in Clients, StartOne(c)
  PROVE  AgreeInv'
<1>1. PICK p, rest : p = Head(call[c].todo) /\ rest = Tail(call[c].todo)
  OBVIOUS
<1>2. PICK f : f = [call[c] EXCEPT !.todo = rest,
                      !.any = @ \/ (p.parserId \in Registered /\ MayAdd(p))]
  OBVIOUS
<1>3. /\ call[c].at = "starting" /\ call[c].todo # <<>> /\ Go(c, f)
      /\ UNCHANGED <<running, up, cfg>>
      /\ (MayAdd(p) /\ register(p)) \/ UNCHANGED <<points, obj>>
  BY <1>1, <1>2 DEF StartOne
<1>4. f.at = "starting" /\ f.todo = rest
  BY <1>2, <1>3 DEF HoldsAll, TypeInv, Frame
<1>5. /\ p \in PointConfigs
      /\ \A ps : Within(call[c].todo, ps) => Lists(ps, p) /\ Within(rest, ps)
  BY <1>1, <1>3, TodoParts DEF HoldsAll
<1>6. \/ Now' = Now
      \/ /\ DOMAIN Now' = DOMAIN Now \cup {p.id} /\ Now'[p.id] = p
         /\ \A i \in DOMAIN Now : i # p.id /\ Now'[i] = Now[i]
  <2>1. CASE UNCHANGED <<points, obj>>
    BY <2>1 DEF Now
  <2>2. CASE MayAdd(p) /\ register(p)
    BY <1>5, <2>2, NowRegistered DEF MayAdd, HoldsAll, FullInv
  <2>3. QED
    BY <1>3, <2>1, <2>2
<1>7. ASSUME ~overlapped, Alone(c)
      PROVE  OneEach(cfg') /\ (running' \/ ~up') /\ Agrees(f, Now', cfg')
  <2>1. OneEach(cfg) /\ (running \/ ~up) /\ Agrees(call[c], Now, cfg)
    BY <1>3, <1>7, AloneAgrees DEF HoldsAll
  <2>2. AllListed(Now, cfg) /\ Within(call[c].todo, cfg)
    BY <1>3, <2>1 DEF Agrees
  <2>3. Lists(cfg, p) /\ Within(rest, cfg)
    BY <1>5, <2>2
  <2>4. AllListed(Now', cfg)
    BY <1>6, <2>2, <2>3 DEF AllListed
  <2>5. QED
    BY <1>3, <1>4, <2>1, <2>3, <2>4 DEF Agrees, ReloadAt
<1>8. QED
  BY <1>3, <1>4, <1>7, GoAgrees DEF HoldsAll

(* Calls that return with nothing left to set right.                        *)
LEMMA DoneAgrees ==
  ASSUME HoldsAll, NEW c \in Clients, StartDone(c) \/ StopDone(c) \/ ReloadDone(c)
  PROVE  AgreeInv'
<1>1. Go(c, Returned) /\ UNCHANGED <<running, up, cfg, points, obj>>
      /\ (\/ call[c].at = "starting" \/ call[c].at = "tearing down"
          \/ call[c].at = "converging" /\ call[c].todo = <<>>)
  BY DEF StartDone, StopDone, ReloadDone, Finish
<1>2. Now' = Now /\ Returned.at = "idle"
  BY <1>1 DEF Now, Returned
<1>3. ASSUME ~overlapped, Alone(c)
      PROVE  OneEach(cfg') /\ (running' \/ ~up') /\ AllListed(Now', cfg')
  <2>1. OneEach(cfg) /\ (running \/ ~up) /\ Agrees(call[c], Now, cfg)
    BY <1>1, <1>3, AloneAgrees DEF HoldsAll
  <2>2. call[c].todo = <<>> => \A i : ~Names(call[c].todo, i)
    BY DEF Names
  <2>3. AllListed(Now, cfg)
    BY <1>1, <2>1, <2>2 DEF Agrees, ReloadAt, AllListed
  <2>4. QED
    BY <1>1, <1>2, <2>1, <2>3
<1>4. QED
  BY <1>1, <1>2, <1>3, GoAgrees DEF HoldsAll

LEMMA EmptyAgrees ==
  ASSUME HoldsAll, NEW c \in Clients, StartFails(c) \/ StopBegins(c) \/ Teardown(c)
  PROVE  AgreeInv'
<1>1. PICK f : f.at \in {"stopping", "tearing down"} /\ Go(c, f) /\ (f.at = "stopping" \/ ~up')
  <2>1. CASE StartFails(c) \/ StopBegins(c)
    <3>1. PICK f : f = [Returned EXCEPT !.at = "stopping", !.victims = Range(points)]
      OBVIOUS
    <3>2. f.at = "stopping"
      BY <3>1 DEF Returned
    <3>3. QED
      BY <2>1, <3>1, <3>2 DEF StartFails, StopBegins, stopAll
  <2>2. CASE Teardown(c)
    <3>1. PICK f : f = [call[c] EXCEPT !.at = "tearing down", !.victims = Range(points)]
      OBVIOUS
    <3>2. f.at = "tearing down"
      BY <3>1 DEF HoldsAll, TypeInv, Frame
    <3>3. QED
      BY <2>2, <3>1, <3>2 DEF Teardown
  <2>3. QED
    BY <2>1, <2>2
<1>2. points' = <<>> /\ cfg' = cfg
  BY DEF StartFails, StopBegins, Teardown, stopAll
<1>3. DOMAIN Now' = {}
  BY <1>2, NowEmptied
<1>4. ASSUME ~overlapped, Alone(c) PROVE OneEach(cfg') /\ Agrees(f, Now', cfg')
  <2>1. OneEach(cfg)
    BY <1>4 DEF HoldsAll, AgreeInv
  <2>2. QED
    BY <1>1, <1>2, <1>3, <2>1 DEF Agrees, ReloadAt
<1>5. QED
  BY <1>1, <1>4, GoAgrees DEF HoldsAll

-----------------------------------------------------------------------------
(* The invariant: reload.                                                  *)

LEMMA ReloadAgrees ==
  ASSUME HoldsAll, NEW c \in Clients, NEW new \in Configs, OneEach(new), ReloadBegins(c, new)
  PROVE  AgreeInv'
<1>0. Within(new, new)
  BY DEF Within, Lists, SameSettings
<1>1. /\ call[c].at = "idle" /\ lifeMtx = NoClient /\ cfg' = new
      /\ UNCHANGED <<running, up, points, obj>>
  BY DEF ReloadBegins
<1>2. Now' = Now
  BY <1>1 DEF Now
<1>3. CASE running
  <2>1. PICK f : f = [Returned EXCEPT !.at = "dropping", !.todo = new,
                        !.drop = {i \in DOMAIN points : \A k \in DOMAIN new : new[k].id # i}]
    OBVIOUS
  <2>2. /\ f.at = "dropping" /\ f.todo = new
        /\ f.drop = {i \in DOMAIN points : \A k \in DOMAIN new : new[k].id # i}
    BY <2>1 DEF Returned
  <2>3. Go(c, f)
    BY <1>3, <2>1 DEF ReloadBegins
  <2>4. \A i \in DOMAIN Now : i \in f.drop \/ Names(f.todo, i)
    BY <2>2 DEF Now, Names
  <2>5. Agrees(f, Now', cfg')
    BY <1>0, <1>1, <1>2, <2>2, <2>4 DEF Agrees, ReloadAt
  <2>6. QED
    BY <1>1, <1>3, <2>2, <2>3, <2>5, GoAgrees DEF HoldsAll
<1>4. CASE ~running
  <2>1. UNCHANGED <<call, overlapped, lifeMtx>>
    BY <1>4 DEF ReloadBegins
  <2>2. \A b \in Clients : call[b].at \notin OwnerAt
    <3>1. \A b \in Clients : b # NoClient
      BY GatewayAssumption
    <3>2. QED
      BY <1>1, <3>1 DEF HoldsAll, FullInv, IInv, CallInv
  <2> SUFFICES ASSUME ~overlapped PROVE AgreeInv'
    BY <2>1 DEF AgreeInv
  <2>3. DOMAIN Now = {}
    BY <1>4, <2>2, NothingRuns DEF OwnerAt
  <2>4. ASSUME NEW b \in Clients, call[b].at # "idle" PROVE Agrees(call[b], Now, new)
    <3>1. call[b].at \in {"added", "removed"}
      BY <2>2, <2>4 DEF OwnerAt, HoldsAll, TypeInv, Frame
    <3>2. call[b].at # "added"
      BY <2>3, <2>4 DEF HoldsAll, AgreeInv, Agrees
    <3>3. QED
      BY <2>3, <3>1, <3>2 DEF Agrees, AllListed, ReloadAt
  <2>5. AllListed(Now, new)
    BY <2>3 DEF AllListed
  <2>6. running' \/ ~up'
    BY <1>1, <1>4, <2>2 DEF HoldsAll, AgreeInv, OwnerAt
  <2>7. QED
    BY <1>1, <1>2, <2>1, <2>4, <2>5, <2>6 DEF AgreeInv, Quiet
<1>5. QED
  BY <1>3, <1>4

LEMMA DropAgrees ==
  ASSUME HoldsAll, NEW c \in Clients, NEW id \in Ids, ReloadDrops(c, id)
  PROVE  AgreeInv'
<1>1. PICK f : f = [call[c] EXCEPT !.drop = @ \ {id},
                      !.victims = IF id \in DOMAIN points THEN {points[id]} ELSE {}]
  OBVIOUS
<1>2. call[c].at = "dropping" /\ Go(c, f) /\ unregister(id) /\ UNCHANGED <<running, up, cfg, obj>>
  BY <1>1 DEF ReloadDrops
<1>3. f.at = "dropping" /\ f.todo = call[c].todo /\ f.drop = call[c].drop \ {id}
  BY <1>1, <1>2 DEF HoldsAll, TypeInv, Frame
<1>4. DOMAIN Now' = DOMAIN Now \ {id} /\ \A i \in DOMAIN Now' : Now'[i] = Now[i]
  BY <1>2, NowUnregistered
<1>5. ASSUME ~overlapped, Alone(c)
      PROVE  OneEach(cfg') /\ (running' \/ ~up') /\ Agrees(f, Now', cfg')
  <2>1. OneEach(cfg) /\ (running \/ ~up) /\ Agrees(call[c], Now, cfg)
    BY <1>2, <1>5, AloneAgrees DEF HoldsAll
  <2>2. Within(f.todo, cfg) /\ \A i \in DOMAIN Now' : i \in f.drop \/ Names(f.todo, i)
    BY <1>2, <1>3, <1>4, <2>1 DEF Agrees
  <2>3. QED
    BY <1>2, <1>3, <2>1, <2>2 DEF Agrees, ReloadAt
<1>6. QED
  BY <1>2, <1>3, <1>5, GoAgrees DEF HoldsAll

LEMMA DroppedAgrees ==
  ASSUME HoldsAll, NEW c \in Clients, ReloadDropped(c)
  PROVE  AgreeInv'
<1>1. PICK f : f = [call[c] EXCEPT !.at = "converging"]
  OBVIOUS
<1>2. /\ call[c].at = "dropping" /\ call[c].drop = {} /\ Go(c, f)
      /\ UNCHANGED <<running, up, cfg, points, obj>>
  BY <1>1 DEF ReloadDropped
<1>3. f.at = "converging" /\ f.todo = call[c].todo
  BY <1>1 DEF HoldsAll, TypeInv, Frame
<1>4. Now' = Now
  BY <1>2 DEF Now
<1>5. ASSUME ~overlapped, Alone(c)
      PROVE  OneEach(cfg') /\ (running' \/ ~up') /\ Agrees(f, Now', cfg')
  <2>1. OneEach(cfg) /\ (running \/ ~up) /\ Agrees(call[c], Now, cfg)
    BY <1>2, <1>5, AloneAgrees DEF HoldsAll
  <2>2. Within(f.todo, cfg) /\ \A i \in DOMAIN Now : Names(f.todo, i)
    BY <1>2, <1>3, <2>1 DEF Agrees
  <2>3. QED
    BY <1>2, <1>3, <1>4, <2>1, <2>2 DEF Agrees, ReloadAt
<1>6. QED
  BY <1>2, <1>3, <1>5, GoAgrees DEF HoldsAll

(* A configuration that lists the new settings of a point that did not      *)
(* change lists those it runs with.                                         *)
LEMMA SamePoint ==
  ASSUME NEW old, NEW p, old.id = p.id, ~Changed(old, p), NEW ps, Lists(ps, p)
  PROVE  Lists(ps, old)
BY DEF Changed, Lists, SameSettings

LEMMA LookAgrees ==
  ASSUME HoldsAll, NEW c \in Clients, ReloadLooks(c)
  PROVE  AgreeInv'
<1>1. PICK p, rest : p = Head(call[c].todo) /\ rest = Tail(call[c].todo)
  OBVIOUS
<1>2. PICK f : /\ Go(c, f)
               /\ \/ /\ f = [call[c] EXCEPT !.todo = rest]
                     /\ p.id \in DOMAIN points => ~Changed(obj[points[p.id]].cfg, p)
                  \/ f = [call[c] EXCEPT !.at = "restarting"]
                  \/ f = [call[c] EXCEPT !.at = "adding"] /\ p.id \notin DOMAIN points
  <2>1. PICK skip, known : /\ known = (p.id \in DOMAIN points)
                           /\ skip = IF known THEN ~Changed(obj[points[p.id]].cfg, p)
                                     ELSE p.parserId \notin Registered
    OBVIOUS
  <2>2. PICK f : f = IF skip THEN [call[c] EXCEPT !.todo = rest]
                     ELSE [call[c] EXCEPT !.at = IF known THEN "restarting" ELSE "adding"]
    OBVIOUS
  <2>3. Go(c, f)
    BY <1>1, <2>1, <2>2 DEF ReloadLooks
  <2>4. QED
    BY <2>1, <2>2, <2>3
<1>3. /\ call[c].at = "converging" /\ call[c].todo # <<>> /\ Go(c, f)
      /\ UNCHANGED <<running, up, cfg, points, obj>>
  BY <1>2 DEF ReloadLooks
<1>4. Now' = Now
  BY <1>3 DEF Now
<1>5. /\ p \in PointConfigs
      /\ \A ps : Within(call[c].todo, ps) => Lists(ps, p) /\ Within(rest, ps)
      /\ \A i : Names(call[c].todo, i) => i = p.id \/ Names(rest, i)
  BY <1>1, <1>3, TodoParts DEF HoldsAll
<1>6. \/ /\ f.at = "converging" /\ f.todo = rest
         /\ p.id \in DOMAIN points => ~Changed(obj[points[p.id]].cfg, p)
      \/ f.at = "restarting" /\ f.todo = call[c].todo
      \/ f.at = "adding" /\ f.todo = call[c].todo /\ p.id \notin DOMAIN points
  BY <1>2, <1>3 DEF HoldsAll, TypeInv, Frame
<1>7. \/ p.id \notin DOMAIN points
      \/ Changed(obj[points[p.id]].cfg, p)
      \/ Lists(cfg, p) => Lists(cfg, Now[p.id])
  <2> SUFFICES ASSUME p.id \in DOMAIN points, ~Changed(obj[points[p.id]].cfg, p), Lists(cfg, p)
               PROVE  Lists(cfg, Now[p.id])
    OBVIOUS
  <2>1. PICK old : old = obj[points[p.id]].cfg
    OBVIOUS
  <2>2. old.id = p.id /\ Now[p.id] = old
    BY <2>1 DEF HoldsAll, FullInv, IInv, OwnInv, Now
  <2>3. QED
    BY <2>1, <2>2, SamePoint
<1>8. ASSUME ~overlapped, Alone(c)
      PROVE  OneEach(cfg') /\ (running' \/ ~up') /\ Agrees(f, Now', cfg')
  <2>1. OneEach(cfg) /\ (running \/ ~up) /\ Agrees(call[c], Now, cfg)
    BY <1>3, <1>8, AloneAgrees DEF HoldsAll
  <2>2. /\ Within(call[c].todo, cfg)
        /\ \A i \in DOMAIN Now : Names(call[c].todo, i) \/ Lists(cfg, Now[i])
    BY <1>3, <2>1 DEF Agrees, ReloadAt
  <2>3. CASE f.at \in {"restarting", "adding"}
    <3>1. f.todo = call[c].todo /\ (f.at = "adding" => Head(f.todo).id \notin DOMAIN Now)
      BY <1>1, <1>6, <2>3 DEF Now
    <3>2. QED
      BY <1>3, <1>4, <2>1, <2>2, <2>3, <3>1 DEF Agrees, ReloadAt
  <2>4. CASE f.at = "converging"
    <3>1. f.todo = rest /\ Lists(cfg, p) /\ Within(rest, cfg)
      BY <1>5, <1>6, <2>2, <2>4
    <3>2. ASSUME NEW i \in DOMAIN Now PROVE Names(rest, i) \/ Lists(cfg, Now[i])
      <4>1. CASE i = p.id
        <5>1. i \in DOMAIN points /\ ~Changed(obj[points[p.id]].cfg, p)
          BY <1>6, <2>4, <4>1 DEF Now
        <5>2. QED
          BY <1>7, <3>1, <4>1, <5>1
      <4>2. CASE i # p.id
        BY <1>5, <2>2, <4>2
      <4>3. QED
        BY <4>1, <4>2
    <3>3. QED
      BY <1>3, <1>4, <2>1, <2>4, <3>1, <3>2 DEF Agrees, ReloadAt
  <2>5. QED
    BY <1>6, <2>3, <2>4
<1>9. QED
  BY <1>3, <1>6, <1>8, GoAgrees DEF HoldsAll

LEMMA ReplaceAgrees ==
  ASSUME HoldsAll, NEW c \in Clients, ReloadRemoves(c)
  PROVE  AgreeInv'
<1>1. PICK id : id = Head(call[c].todo).id
  OBVIOUS
<1>2. PICK f : f = [call[c] EXCEPT !.at = "adding",
                      !.victims = IF id \in DOMAIN points THEN {points[id]} ELSE {}]
  OBVIOUS
<1>3. /\ call[c].at = "restarting" /\ Go(c, f) /\ unregister(id)
      /\ UNCHANGED <<running, up, cfg, obj>>
  BY <1>1, <1>2 DEF ReloadRemoves
<1>4. f.at = "adding" /\ f.todo = call[c].todo
  BY <1>2 DEF HoldsAll, TypeInv, Frame
<1>5. DOMAIN Now' = DOMAIN Now \ {id} /\ \A i \in DOMAIN Now' : Now'[i] = Now[i]
  BY <1>3, NowUnregistered
<1>6. ASSUME ~overlapped, Alone(c)
      PROVE  OneEach(cfg') /\ (running' \/ ~up') /\ Agrees(f, Now', cfg')
  <2>1. OneEach(cfg) /\ (running \/ ~up) /\ Agrees(call[c], Now, cfg)
    BY <1>3, <1>6, AloneAgrees DEF HoldsAll
  <2>2. /\ Within(f.todo, cfg)
        /\ \A i \in DOMAIN Now' : Names(f.todo, i) \/ Lists(cfg, Now'[i])
    BY <1>3, <1>4, <1>5, <2>1 DEF Agrees, ReloadAt
  <2>3. Head(f.todo).id \notin DOMAIN Now'
    BY <1>1, <1>4, <1>5
  <2>4. QED
    BY <1>3, <1>4, <2>1, <2>2, <2>3 DEF Agrees, ReloadAt
<1>7. QED
  BY <1>3, <1>4, <1>6, GoAgrees DEF HoldsAll

LEMMA ReAddAgrees ==
  ASSUME HoldsAll, NEW c \in Clients, ReloadAdds(c)
  PROVE  AgreeInv'
<1>1. PICK p, rest : p = Head(call[c].todo) /\ rest = Tail(call[c].todo)
  OBVIOUS
<1>2. PICK f : f = [call[c] EXCEPT !.at = "converging", !.todo = rest]
  OBVIOUS
<1>3. /\ call[c].at = "adding" /\ Go(c, f) /\ add(p) /\ UNCHANGED <<running, up, cfg>>
  BY <1>1, <1>2 DEF ReloadAdds
<1>4. f.at = "converging" /\ f.todo = rest
  BY <1>2 DEF HoldsAll, TypeInv, Frame
<1>5. /\ p \in PointConfigs
      /\ \A ps : Within(call[c].todo, ps) => Lists(ps, p) /\ Within(rest, ps)
      /\ \A i : Names(call[c].todo, i) => i = p.id \/ Names(rest, i)
  <2>1. call[c].todo # <<>>
    BY <1>3 DEF HoldsAll, TypeInv, Looked
  <2>2. QED
    BY <1>1, <2>1, TodoParts DEF HoldsAll
<1>6. \/ Now' = Now
      \/ /\ DOMAIN Now' = DOMAIN Now \cup {p.id} /\ Now'[p.id] = p
         /\ \A i \in DOMAIN Now : i # p.id /\ Now'[i] = Now[i]
  <2>1. CASE MayAdd(p)
    BY <1>3, <1>5, <2>1, NowRegistered DEF add, MayAdd, HoldsAll, FullInv
  <2>2. CASE ~MayAdd(p)
    BY <1>3, <2>2 DEF add, Now
  <2>3. QED
    BY <2>1, <2>2
<1>7. ASSUME ~overlapped, Alone(c)
      PROVE  OneEach(cfg') /\ (running' \/ ~up') /\ Agrees(f, Now', cfg')
  <2>1. OneEach(cfg) /\ (running \/ ~up) /\ Agrees(call[c], Now, cfg)
    BY <1>3, <1>7, AloneAgrees DEF HoldsAll
  <2>2. /\ Within(call[c].todo, cfg) /\ p.id \notin DOMAIN Now
        /\ \A i \in DOMAIN Now : Names(call[c].todo, i) \/ Lists(cfg, Now[i])
    BY <1>1, <1>3, <2>1 DEF Agrees, ReloadAt
  <2>3. Lists(cfg, p) /\ Within(rest, cfg)
    BY <1>5, <2>2
  <2>4. \A i \in DOMAIN Now' : Names(rest, i) \/ Lists(cfg, Now'[i])
    BY <1>5, <1>6, <2>2, <2>3
  <2>5. QED
    BY <1>3, <1>4, <2>1, <2>3, <2>4 DEF Agrees, ReloadAt
<1>8. QED
  BY <1>3, <1>4, <1>7, GoAgrees DEF HoldsAll

-----------------------------------------------------------------------------
(* The invariant: receive threads.                                         *)

LEMMA ThreadAgrees ==
  ASSUME HoldsAll, NEW o \in Objs,
         \/ ReceiveThread(o)
         \/ \E c \in Clients : StopVictim(c, o)
  PROVE  AgreeInv'
<1>1. UNCHANGED <<running, up, cfg, points, call, overlapped>>
  BY DEF ReceiveThread, Bind, BindFails, Leave, StopVictim
<1>2. obj[o] \in PointObject /\ DOMAIN obj = Objs
  BY DEF ReceiveThread, Bind, BindFails, Leave, StopVictim, HasThread, Unused, HoldsAll, TypeInv
<1>3. \/ \E s : obj' = [obj EXCEPT ![o].st = s]
      \/ obj' = [obj EXCEPT ![o].quit = TRUE]
  BY DEF ReceiveThread, Bind, BindFails, Leave, StopVictim
<1>4. obj'[o].cfg = obj[o].cfg /\ \A q \in Objs : q # o => obj'[q] = obj[q]
  BY <1>2, <1>3 DEF PointObject
<1>5. \A i \in DOMAIN points : points[i] \in Objs
  BY DEF HoldsAll, FullInv, IInv, OwnInv, Used
<1>6. \A i \in DOMAIN points : obj'[points[i]].cfg = obj[points[i]].cfg
  BY <1>4, <1>5
<1>7. QED
  BY <1>1, <1>6, KeptAgrees DEF HoldsAll

LEMMA JoinAgrees ==
  ASSUME HoldsAll, NEW c \in Clients, NEW o \in Objs, JoinVictim(c, o)
  PROVE  AgreeInv'
<1>1. PICK f : f = [call[c] EXCEPT !.victims = @ \ {o}]
  OBVIOUS
<1>2. /\ o \in call[c].victims /\ Go(c, f) /\ obj' = [obj EXCEPT ![o] = Unused]
      /\ UNCHANGED <<running, up, cfg, points>>
  BY <1>1 DEF JoinVictim
<1>3. f.at = call[c].at /\ f.todo = call[c].todo /\ f.drop = call[c].drop
  BY <1>1 DEF HoldsAll, TypeInv, Frame
<1>4. call[c].at # "idle"
  BY <1>2 DEF HoldsAll, FullInv, IInv, CallInv, FreeAt
<1>5. Now' = Now
  <2>1. \A i \in DOMAIN points : points[i] \in Objs /\ points[i] # o
    BY <1>2 DEF HoldsAll, FullInv, IInv, OwnInv, Used, Stops
  <2>2. \A i \in DOMAIN points : obj'[points[i]].cfg = obj[points[i]].cfg
    BY <1>2, <2>1
  <2>3. QED
    BY <1>2, <2>2, NowKept
<1>6. ASSUME ~overlapped, Alone(c)
      PROVE  OneEach(cfg') /\ (running' \/ ~up' \/ f.at = "stopping") /\ Agrees(f, Now', cfg')
  <2>1. /\ OneEach(cfg) /\ (running \/ ~up \/ call[c].at = "stopping")
        /\ Agrees(call[c], Now, cfg)
    BY <1>4, <1>6, AloneAgrees DEF HoldsAll
  <2>2. Agrees(f, Now, cfg)
    BY <1>3, <2>1 DEF Agrees
  <2>3. QED
    BY <1>2, <1>3, <1>5, <2>1, <2>2
<1>7. QED
  BY <1>2, <1>3, <1>4, <1>6, GoAgrees DEF HoldsAll

(* What reload and start are called with, if IngestConfig::validate has     *)
(* been: no id is listed twice.                                             *)
OnceEach == \A new \in Configs : OneEach(new)

LEMMA NextAgrees == OnceEach /\ HoldsAll /\ [Next]_vars => AgreeInv'
<1> SUFFICES ASSUME OnceEach, HoldsAll, [Next]_vars PROVE AgreeInv'
  OBVIOUS
<1>1. ASSUME NEW c \in Clients, Proceed(c) PROVE AgreeInv'
  <2>1. CASE AddPointWritesBack(c) \/ RemovePointWritesBack(c) \/ StartOne(c)
    BY <2>1, AddWrittenAgrees, RemoveWrittenAgrees, StartOneAgrees
  <2>2. CASE StartDone(c) \/ StopDone(c) \/ ReloadDone(c)
    BY <2>2, DoneAgrees
  <2>3. CASE StartFails(c) \/ Teardown(c)
    BY <2>3, EmptyAgrees
  <2>4. CASE ReloadDropped(c) \/ ReloadLooks(c) \/ ReloadRemoves(c) \/ ReloadAdds(c)
    BY <2>4, DroppedAgrees, LookAgrees, ReplaceAgrees, ReAddAgrees
  <2>5. ASSUME NEW id \in Ids, ReloadDrops(c, id) PROVE AgreeInv'
    BY <2>5, DropAgrees
  <2>6. ASSUME NEW o \in Objs, StopVictim(c, o) \/ JoinVictim(c, o) PROVE AgreeInv'
    BY <2>6, ThreadAgrees, JoinAgrees
  <2>7. QED
    BY <1>1, <2>1, <2>2, <2>3, <2>4, <2>5, <2>6 DEF Proceed
<1>2. ASSUME NEW c \in Clients, Call(c) PROVE AgreeInv'
  BY <1>2, AddAgrees, RemoveAgrees, StartAgrees, ReloadAgrees, EmptyAgrees DEF Call, OnceEach
<1>3. ASSUME NEW o \in Objs, ReceiveThread(o) PROVE AgreeInv'
  BY <1>3, ThreadAgrees
<1>4. CASE UNCHANGED vars
  BY <1>4, KeptAgrees DEF vars, HoldsAll
<1>5. QED
  BY <1>1, <1>2, <1>3, <1>4 DEF Next

(* Called one at a time, start, stop, reload, addPoint and removePoint keep *)
(* the configuration and the manager in agreement (ConfigListsPoints):      *)
(* every access point that runs is listed once, with the port, the parser   *)
(* and the flag it runs with, for any configurations that list an id once,  *)
(* as IngestConfig::validate demands.  Of the fields reload() does not      *)
(* compare (topic) it says nothing: those may differ.                       *)
THEOREM PointsAreListed ==
  ASSUME OnceEach
  PROVE  Spec => []ConfigListsPoints
<1>1. Init => HoldsAll
  <2> SUFFICES ASSUME Init PROVE AgreeInv
    BY InitInv, InitReload, InitTypeInv DEF HoldsAll, FullInv
  <2>1. DOMAIN Now = {} /\ cfg = <<>> /\ ~up
    BY DEF Init, Now
  <2>2. \A c \in Clients : call[c].at = "idle"
    BY DEF Init, Returned
  <2>3. OneEach(cfg)
    BY <2>1 DEF OneEach
  <2>4. QED
    BY <2>1, <2>2, <2>3 DEF AgreeInv, AllListed
<1>2. HoldsAll /\ [Next]_vars => HoldsAll'
  BY NextInv, NextReload, NextTypes, NextAgrees DEF HoldsAll, FullInv
<1>3. HoldsAll => ConfigListsPoints
  <2> SUFFICES ASSUME HoldsAll, Quiet, ~overlapped, NEW i \in DOMAIN points
               PROVE  \E k \in DOMAIN cfg :
                        /\ cfg[k].id = i /\ SameSettings(obj[points[i]].cfg, cfg[k])
                        /\ \A m \in DOMAIN cfg : cfg[m].id = i => m = k
    BY DEF ConfigListsPoints
  <2>1. OneEach(cfg) /\ AllListed(Now, cfg)
    BY DEF HoldsAll, AgreeInv
  <2>2. obj[points[i]].cfg.id = i
    BY DEF HoldsAll, FullInv, IInv, OwnInv
  <2>3. PICK k \in DOMAIN cfg : cfg[k].id = i /\ SameSettings(obj[points[i]].cfg, cfg[k])
    BY <2>1, <2>2 DEF AllListed, Lists, Now
  <2>4. \A m \in DOMAIN cfg : cfg[m].id = i => m = k
    BY <2>1, <2>3 DEF OneEach
  <2>5. QED
    BY <2>3, <2>4
<1>4. QED
  BY <1>1, <1>2, <1>3, PTL DEF Spec

=============================================================================
