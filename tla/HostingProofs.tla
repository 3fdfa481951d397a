---------------------------- MODULE HostingProofs ----------------------------
(***************************************************************************)
(* Proofs about what a node hosts: the elastic pool, for any number of     *)
(* clients and workers and every scaling strategy, the applications, for   *)
(* any number of names, clients and calls, and the journal of a durable    *)
(* actor, for any messages, promises, callers and number of lives.         *)
(***************************************************************************)
EXTENDS Hosting, FiniteSetTheorems, SequenceTheorems, TLAPS

-----------------------------------------------------------------------------
(* The elastic pool.                                                       *)

Placements == {"idle", "asked", "popped", "missed", "waiting", "using", "returning", "handing", "pushing"}

(***************************************************************************)
(* What the type invariant says.                                           *)
(***************************************************************************)
LEMMA PoolTypes ==
    ASSUME PoolInv
    PROVE  /\ worker \in [Workers -> {"unused", "available", "busy", "removed"}]
           /\ available \in Seq(Workers) /\ Len(available) \in Nat
           /\ \A k \in 1..Len(available) : available[k] \in Workers
           /\ queue \in Seq(Waiters) /\ Len(queue) \in Nat
           /\ \A k \in 1..Len(queue) : queue[k] \in Waiters /\ queue[k].client \in Clients
           /\ pc \in [Clients -> Placements]
           /\ held \in [Clients -> Workers \union {None}]
           /\ waiter \in [Clients -> Waiters \union {NoWaiter}]
           /\ \A c \in Clients : waiter[c].live => waiter[c] \in Waiters /\ waiter[c].client \in Clients
           /\ inbox \in [Clients -> Workers \union {None}]
           /\ change \in Int /\ auto \in Int
           /\ None \notin Workers
<1>1. PoolTypeOK /\ WorkerIds \in Nat
    BY PoolAssumption DEF PoolInv
<1>2. /\ Len(available) \in Nat /\ \A k \in 1..Len(available) : available[k] \in Workers
      /\ Len(queue) \in Nat /\ \A k \in 1..Len(queue) : queue[k] \in Waiters
    BY <1>1, LenProperties, ElementOfSeq DEF PoolTypeOK
<1>3. \A v \in Waiters : v.client \in Clients
    BY DEF Waiters
<1>4. \A c \in Clients : waiter[c].live => waiter[c] \in Waiters
    BY <1>1 DEF PoolTypeOK, NoWaiter
<1>5. None \notin Workers
    BY <1>1 DEF None, Workers
<1> QED BY <1>1, <1>2, <1>3, <1>4, <1>5 DEF PoolTypeOK, Placements

(***************************************************************************)
(* A step that spawns no worker keeps the ids in order.                    *)
(***************************************************************************)
LEMMA SameIds ==
    ASSUME IdsInOrder, \A w \in Workers : worker'[w] = "unused" <=> worker[w] = "unused"
    PROVE  IdsInOrder'
<1>1. {w \in Workers : worker'[w] # "unused"} = {w \in Workers : worker[w] # "unused"}
    OBVIOUS
<1>2. Spawned' = Spawned
    BY <1>1 DEF Spawned
<1> QED BY <1>2 DEF IdsInOrder

(***************************************************************************)
(* A call goes on without touching a worker, a queue or what it holds.     *)
(***************************************************************************)
LEMMA PoolMove ==
    ASSUME PoolInv, NEW c \in Clients, NEW to \in Placements \ {"using", "waiting", "handing"},
           UNCHANGED <<worker, available, queue, held, waiter, inbox, adminVars>>,
           Go(c, to), pc[c] \notin {"waiting", "handing"}, pc[c] \in InHand <=> to \in InHand,
           pc[c] # "using"
    PROVE  PoolInv'
<1>0. UNCHANGED <<draining, drain, paused, change, auto>>
    BY DEF adminVars
<1>1. pc' = [pc EXCEPT ![c] = to] /\ pc \in [Clients -> Placements]
    BY PoolTypes DEF Go
<1>2. /\ pc'[c] = to /\ \A d \in Clients \ {c} : pc'[d] = pc[d]
    BY <1>1
<1>3. PoolTypeOK'
    BY <1>0, <1>1 DEF PoolInv, PoolTypeOK, Placements
<1>4. SoleOwner'
    BY <1>2 DEF PoolInv, SoleOwner, Owns, InMap
<1>5. PlacesAgree'
    BY <1>2 DEF PoolInv, PlacesAgree
<1>6. WaitersWait'
    BY <1>2, PoolTypes DEF PoolInv, WaitersWait
<1>7. IdsInOrder'
    BY SameIds DEF PoolInv
<1> QED BY <1>3, <1>4, <1>5, <1>6, <1>7 DEF PoolInv

(***************************************************************************)
(* checkout takes the first worker of the deque.                           *)
(***************************************************************************)
LEMMA PopStep ==
    ASSUME PoolInv, NEW c \in Clients, CheckoutPop(c)
    PROVE  PoolInv'
<1>0. /\ pc[c] = "asked" /\ available # <<>> /\ held' = [held EXCEPT ![c] = Head(available)]
      /\ available' = Tail(available) /\ pc' = [pc EXCEPT ![c] = "popped"]
      /\ UNCHANGED <<worker, queue, waiter, inbox, draining, drain, paused, change, auto>>
    BY DEF CheckoutPop, Go, adminVars
<1> DEFINE w == Head(available)
<1>1. /\ w = available[1] /\ 1 \in 1..Len(available) /\ w \in Workers
      /\ available' \in Seq(Workers) /\ Len(available') = Len(available) - 1
      /\ \A k \in 1..Len(available') : available'[k] = available[k + 1] /\ k + 1 \in 1..Len(available) /\ k + 1 # 1
    <2>1. /\ Head(available) = available[1] /\ Tail(available) \in Seq(Workers)
          /\ Len(Tail(available)) = Len(available) - 1 /\ Len(available) \in Nat /\ Len(available) # 0
          /\ \A k \in 1..Len(Tail(available)) : Tail(available)[k] = available[k + 1]
        BY <1>0, PoolTypes, HeadTailProperties, EmptySeq
    <2>2. 1 \in 1..Len(available)
        BY <2>1
    <2>3. available[1] \in Workers
        BY <2>2, PoolTypes
    <2> QED BY <1>0, <2>1, <2>2, <2>3
<1> HIDE DEF w
<1>2. /\ pc'[c] = "popped" /\ held'[c] = w /\ \A d \in Clients \ {c} : pc'[d] = pc[d] /\ held'[d] = held[d]
    BY <1>0, PoolTypes DEF w
<1>3. held[c] = None /\ inbox[c] = None /\ worker[w] = "available" /\ w # None
    BY <1>0, <1>1, PoolTypes DEF PoolInv, PlacesAgree, SoleOwner, InHand
<1>4. \A d \in Clients : held[d] # w /\ inbox[d] # w
    BY <1>1 DEF PoolInv, SoleOwner, Owns
<1>5. PoolTypeOK'
    <2>1. pc' \in [Clients -> Placements] /\ held' \in [Clients -> Workers \union {None}]
        BY <1>0, <1>1, PoolTypes DEF Placements, w
    <2> QED BY <1>0, <1>1, <2>1 DEF PoolInv, PoolTypeOK, Placements
<1>6. SoleOwner'
    <2>1. \A v \in Workers : \A d, e \in Clients : Owns(d, v)' /\ Owns(e, v)' => d = e
        BY <1>0, <1>2, <1>4, <1>3 DEF PoolInv, SoleOwner, Owns
    <2>2. \A d \in Clients : held'[d] = None \/ held'[d] # inbox'[d]
        BY <1>0, <1>2, <1>4 DEF PoolInv, SoleOwner
    <2>3. \A d \in Clients : \A v \in Workers :
            Owns(d, v)' => InMap(v)' /\ \A k \in 1..Len(available') : available'[k] # v
        <3> SUFFICES ASSUME NEW d \in Clients, NEW v \in Workers, Owns(d, v)'
                     PROVE  InMap(v)' /\ \A k \in 1..Len(available') : available'[k] # v
            OBVIOUS
        <3>1. CASE v = w
            BY <1>0, <1>1, <1>3, <3>1 DEF PoolInv, SoleOwner, InMap
        <3>2. CASE v # w
            <4>1. Owns(d, v)
                BY <1>0, <1>2, <3>2 DEF Owns
            <4> QED BY <1>0, <1>1, <4>1 DEF PoolInv, SoleOwner, InMap
        <3> QED BY <3>1, <3>2
    <2>4. /\ \A j, k \in 1..Len(available') : available'[j] = available'[k] => j = k
          /\ \A k \in 1..Len(available') : worker'[available'[k]] = "available"
        BY <1>0, <1>1, PoolTypes DEF PoolInv, SoleOwner
    <2>5. \A d \in Clients : pc'[d] = "using" => worker'[held'[d]] = "busy"
        BY <1>0, <1>2 DEF PoolInv, SoleOwner
    <2> QED BY <2>1, <2>2, <2>3, <2>4, <2>5 DEF SoleOwner
<1>7. PlacesAgree'
    BY <1>0, <1>2, <1>3 DEF PoolInv, PlacesAgree, InHand
<1>8. WaitersWait'
    BY <1>0, <1>2, PoolTypes DEF PoolInv, WaitersWait
<1>9. IdsInOrder'
    BY <1>0, SameIds DEF PoolInv
<1> QED BY <1>5, <1>6, <1>7, <1>8, <1>9 DEF PoolInv

(***************************************************************************)
(* checkout_worker and checkin_worker: the worker in hand changes its      *)
(* state in the map.  It is in the map.                                    *)
(***************************************************************************)
LEMMA MarkStep ==
    ASSUME PoolInv, NEW c \in Clients, NEW to \in {"using", "returning"},
           \/ to = "using" /\ CheckoutMark(c)
           \/ to = "returning" /\ CheckinMark(c)
    PROVE  PoolInv'
<1> DEFINE w == held[c]
           st == IF to = "using" THEN "busy" ELSE "available"
<1>0. /\ pc[c] = IF to = "using" THEN "popped" ELSE "using"
      /\ UNCHANGED <<available, queue, waiter, inbox, draining, drain, paused, change, auto>>
    BY DEF CheckoutMark, CheckinMark, adminVars
<1>1. w \in Workers /\ InMap(w) /\ inbox[c] = None
    BY <1>0, PoolTypes DEF PoolInv, PlacesAgree, SoleOwner, Owns, InHand
<1>2. /\ worker' = [worker EXCEPT ![w] = st] /\ pc' = [pc EXCEPT ![c] = to] /\ held' = held
    BY <1>1 DEF CheckoutMark, CheckinMark, Go
<1>3. st \in {"busy", "available"}
    OBVIOUS
<1> HIDE DEF w, st
<1>4. /\ worker'[w] = st /\ \A v \in Workers \ {w} : worker'[v] = worker[v]
      /\ pc'[c] = to /\ \A d \in Clients \ {c} : pc'[d] = pc[d]
    BY <1>1, <1>2, PoolTypes
<1>5. /\ \A d \in Clients \ {c} : held[d] # w /\ inbox[d] # w
      /\ \A k \in 1..Len(available) : available[k] # w
    BY <1>1 DEF PoolInv, SoleOwner, Owns, w
<1>6. PoolTypeOK'
    <2>1. pc' \in [Clients -> Placements] /\ worker' \in [Workers -> {"unused", "available", "busy", "removed"}]
        BY <1>2, <1>3, PoolTypes DEF Placements
    <2> QED BY <1>0, <1>2, <2>1 DEF PoolInv, PoolTypeOK, Placements
<1>7. SoleOwner'
    <2>1. \A v \in Workers : InMap(v) => InMap(v)'
        BY <1>3, <1>4 DEF InMap
    <2>2. \A v \in Workers, d \in Clients : Owns(d, v)' <=> Owns(d, v)
        BY <1>0, <1>2 DEF Owns
    <2>3. \A k \in 1..Len(available) : worker'[available[k]] = "available"
        BY <1>4, <1>5, PoolTypes DEF PoolInv, SoleOwner
    <2>4. \A d \in Clients : pc'[d] = "using" => worker'[held[d]] = "busy"
        <3> SUFFICES ASSUME NEW d \in Clients, pc'[d] = "using" PROVE worker'[held[d]] = "busy"
            OBVIOUS
        <3>1. CASE d = c
            BY <1>4, <3>1 DEF w, st
        <3>2. CASE d # c
            <4>1. pc[d] = "using" /\ held[d] \in Workers
                BY <1>4, <3>2, PoolTypes DEF PoolInv, PlacesAgree, InHand
            <4> QED BY <1>4, <1>5, <3>2, <4>1 DEF PoolInv, SoleOwner
        <3> QED BY <3>1, <3>2
    <2>5. /\ \A v \in Workers : \A d, e \in Clients : Owns(d, v)' /\ Owns(e, v)' => d = e
          /\ \A d \in Clients : \A v \in Workers :
               Owns(d, v)' => InMap(v)' /\ \A k \in 1..Len(available') : available'[k] # v
        BY <1>0, <2>1, <2>2 DEF PoolInv, SoleOwner
    <2> QED BY <1>0, <1>2, <2>3, <2>4, <2>5 DEF PoolInv, SoleOwner
<1>8. PlacesAgree'
    <2> SUFFICES ASSUME NEW d \in Clients
                 PROVE  /\ held'[d] # None <=> pc'[d] \in InHand
                        /\ pc'[d] \in InHand \ {"using"} => worker'[held'[d]] = "available"
                        /\ inbox'[d] # None => pc'[d] = "waiting" /\ worker'[inbox'[d]] = "busy"
                        /\ IF pc'[d] = "handing" THEN waiter'[d] \in Waiters ELSE waiter'[d] = NoWaiter
        BY DEF PlacesAgree
    <2>1. CASE d = c
        BY <1>0, <1>1, <1>2, <1>4, <2>1 DEF PoolInv, PlacesAgree, InHand, w, st
    <2>2. CASE d # c
        <3>1. held[d] # w /\ inbox[d] # w /\ pc'[d] = pc[d]
            BY <1>4, <1>5, <2>2
        <3>2. held[d] \in Workers \union {None} /\ inbox[d] \in Workers \union {None}
            BY PoolTypes
        <3> QED BY <1>0, <1>2, <1>4, <3>1, <3>2 DEF PoolInv, PlacesAgree
    <2> QED BY <2>1, <2>2
<1>9. WaitersWait'
    BY <1>0, <1>4, PoolTypes DEF PoolInv, WaitersWait
<1>10. IdsInOrder'
    <2>1. worker[w] # "unused"
        BY <1>1 DEF InMap
    <2> QED BY <1>3, <1>4, <2>1, SameIds DEF PoolInv
<1> QED BY <1>6, <1>7, <1>8, <1>9, <1>10 DEF PoolInv

(***************************************************************************)
(* checkout queues up.                                                     *)
(***************************************************************************)
LEMMA WaitStep ==
    ASSUME PoolInv, NEW c \in Clients, CheckoutWait(c)
    PROVE  PoolInv'
<1> DEFINE v == [client |-> c, live |-> TRUE]
<1>0. /\ pc[c] = "missed" /\ queue' = Append(queue, v) /\ pc' = [pc EXCEPT ![c] = "waiting"]
      /\ UNCHANGED <<worker, available, held, waiter, inbox, draining, drain, paused, change, auto>>
    BY DEF CheckoutWait, Go, adminVars
<1>1. v \in Waiters /\ v.client = c /\ v.live = TRUE
    BY DEF Waiters
<1> HIDE DEF v
<1>2. /\ queue' \in Seq(Waiters) /\ Len(queue') = Len(queue) + 1 /\ queue'[Len(queue) + 1] = v
      /\ \A k \in 1..Len(queue) : queue'[k] = queue[k]
      /\ \A k \in 1..Len(queue') : k \in 1..Len(queue) \/ k = Len(queue) + 1
    <2>1. /\ Append(queue, v) \in Seq(Waiters) /\ Len(Append(queue, v)) = Len(queue) + 1
          /\ Append(queue, v)[Len(queue) + 1] = v
          /\ \A k \in 1..Len(queue) : Append(queue, v)[k] = queue[k] /\ Len(queue) \in Nat
        BY <1>1, PoolTypes, AppendProperties
    <2> QED BY <1>0, <2>1, PoolTypes
<1>3. pc'[c] = "waiting" /\ \A d \in Clients \ {c} : pc'[d] = pc[d]
    BY <1>0, PoolTypes
<1>4. inbox[c] = None /\ held[c] = None /\ waiter[c] = NoWaiter
    BY <1>0 DEF PoolInv, PlacesAgree, InHand
<1>5. PoolTypeOK'
    <2>1. pc' \in [Clients -> Placements]
        BY <1>0, PoolTypes DEF Placements
    <2> QED BY <1>0, <1>2, <2>1 DEF PoolInv, PoolTypeOK, Placements
<1>6. SoleOwner' /\ PlacesAgree'
    BY <1>0, <1>3, <1>4 DEF PoolInv, SoleOwner, PlacesAgree, Owns, InMap, InHand
<1>7. /\ \A k \in 1..Len(queue) : queue[k].live => queue[k].client # c
      /\ \A d \in Clients : waiter[d].live => waiter[d].client # c
    BY <1>0 DEF PoolInv, WaitersWait
<1>8. WaitersWait'
    <2>1. ASSUME NEW k \in 1..Len(queue'), queue'[k].live
          PROVE  /\ pc'[queue'[k].client] = "waiting" /\ inbox'[queue'[k].client] = None
                 /\ \A j \in 1..Len(queue') : queue'[j] = queue'[k] => j = k
                 /\ \A d \in Clients : waiter'[d] # queue'[k]
        <3>1. CASE k = Len(queue) + 1
            <4>1. \A j \in 1..Len(queue) : queue'[j] # v
                BY <1>1, <1>2, <1>7
            <4>2. \A d \in Clients : waiter[d] # v
                BY <1>1, <1>7
            <4> QED BY <1>0, <1>1, <1>2, <1>3, <1>4, <3>1, <4>1, <4>2
        <3>2. CASE k \in 1..Len(queue)
            <4>1. queue'[k] = queue[k] /\ queue[k].live /\ queue[k] \in Waiters /\ queue[k].client \in Clients \ {c}
                BY <1>2, <1>7, <2>1, <3>2, PoolTypes
            <4>2. queue[k] # v
                BY <1>1, <4>1
            <4>3. /\ pc[queue[k].client] = "waiting" /\ inbox[queue[k].client] = None
                  /\ \A j \in 1..Len(queue) : queue[j] = queue[k] => j = k
                  /\ \A d \in Clients : waiter[d] # queue[k]
                BY <3>2, <4>1 DEF PoolInv, WaitersWait
            <4>4. \A j \in 1..Len(queue') : queue'[j] = queue'[k] => j = k
                BY <1>2, <4>1, <4>2, <4>3
            <4> QED BY <1>0, <1>3, <4>1, <4>3, <4>4
        <3> QED BY <1>2, <3>1, <3>2
    <2>2. ASSUME NEW d \in Clients, waiter'[d].live
          PROVE  /\ pc'[waiter'[d].client] = "waiting" /\ inbox'[waiter'[d].client] = None
                 /\ \A e \in Clients : waiter'[e] = waiter'[d] => e = d
        BY <1>0, <1>3, <1>7, <2>2, PoolTypes DEF PoolInv, WaitersWait
    <2> QED BY <2>1, <2>2 DEF WaitersWait
<1>9. IdsInOrder'
    BY <1>0, SameIds DEF PoolInv
<1> QED BY <1>5, <1>6, <1>8, <1>9 DEF PoolInv

(***************************************************************************)
(* The waiting checkout receives the worker it was sent.  A client that    *)
(* has been sent a worker has no live waiter left.                         *)
(***************************************************************************)
LEMMA ReceiveStep ==
    ASSUME PoolInv, NEW c \in Clients, CheckoutReceive(c)
    PROVE  PoolInv'
<1> DEFINE w == inbox[c]
<1>0. /\ pc[c] = "waiting" /\ w # None /\ held' = [held EXCEPT ![c] = w]
      /\ inbox' = [inbox EXCEPT ![c] = None] /\ pc' = [pc EXCEPT ![c] = "using"]
      /\ UNCHANGED <<worker, available, queue, waiter, draining, drain, paused, change, auto>>
    BY DEF CheckoutReceive, Go, adminVars
<1>1. w \in Workers /\ worker[w] = "busy"
    BY <1>0, PoolTypes DEF PoolInv, PlacesAgree
<1> HIDE DEF w
<1>2. /\ pc'[c] = "using" /\ held'[c] = w /\ inbox'[c] = None
      /\ \A d \in Clients \ {c} : pc'[d] = pc[d] /\ held'[d] = held[d] /\ inbox'[d] = inbox[d]
    BY <1>0, PoolTypes
<1>3. held[c] = None
    BY <1>0 DEF PoolInv, PlacesAgree, InHand
<1>4. PoolTypeOK'
    <2>1. /\ pc' \in [Clients -> Placements] /\ held' \in [Clients -> Workers \union {None}]
          /\ inbox' \in [Clients -> Workers \union {None}]
        BY <1>0, <1>1, PoolTypes DEF Placements
    <2> QED BY <1>0, <2>1 DEF PoolInv, PoolTypeOK, Placements
<1>5. SoleOwner'
    <2>1. \A d \in Clients, v \in Workers : Owns(d, v)' <=> Owns(d, v)
        BY <1>2, <1>3, PoolTypes DEF Owns, w
    <2>2. \A d \in Clients : held'[d] = None \/ held'[d] # inbox'[d]
        BY <1>0, <1>2 DEF PoolInv, SoleOwner
    <2>3. \A d \in Clients : pc'[d] = "using" => worker'[held'[d]] = "busy"
        BY <1>0, <1>1, <1>2 DEF PoolInv, SoleOwner
    <2> QED BY <1>0, <2>1, <2>2, <2>3 DEF PoolInv, SoleOwner, InMap
<1>6. PlacesAgree'
    BY <1>0, <1>2 DEF PoolInv, PlacesAgree, InHand
<1>7. /\ \A k \in 1..Len(queue) : queue[k].live => queue[k].client # c
      /\ \A d \in Clients : waiter[d].live => waiter[d].client # c
    BY <1>0 DEF PoolInv, WaitersWait, w
<1>8. WaitersWait'
    BY <1>0, <1>2, <1>7, PoolTypes DEF PoolInv, WaitersWait
<1>9. IdsInOrder'
    BY <1>0, SameIds DEF PoolInv
<1> QED BY <1>4, <1>5, <1>6, <1>8, <1>9 DEF PoolInv

(***************************************************************************)
(* The checkout times out: its waiters, wherever they are, are dead.       *)
(***************************************************************************)
LEMMA TimeoutStep ==
    ASSUME PoolInv, NEW c \in Clients, CheckoutTimeout(c)
    PROVE  PoolInv'
<1>0. /\ pc[c] = "waiting" /\ inbox[c] = None /\ pc' = [pc EXCEPT ![c] = "idle"]
      /\ queue' = [k \in 1..Len(queue) |-> GiveUp(queue[k], c)]
      /\ waiter' = [d \in Clients |-> GiveUp(waiter[d], c)]
      /\ UNCHANGED <<worker, available, held, inbox, draining, drain, paused, change, auto>>
    BY DEF CheckoutTimeout, Go, adminVars
<1>1. pc'[c] = "idle" /\ \A d \in Clients \ {c} : pc'[d] = pc[d]
    BY <1>0, PoolTypes
<1>2. /\ \A v \in Waiters : GiveUp(v, c) \in Waiters
      /\ GiveUp(NoWaiter, c) = NoWaiter
      /\ \A v \in Waiters \union {NoWaiter} : GiveUp(v, c).live => GiveUp(v, c) = v /\ v.client # c /\ v.live
    BY DEF GiveUp, Waiters, NoWaiter
<1>3. /\ queue' \in Seq(Waiters) /\ Len(queue') = Len(queue)
      /\ \A k \in 1..Len(queue) : queue'[k] = GiveUp(queue[k], c)
    BY <1>0, <1>2, PoolTypes
<1>4. waiter' \in [Clients -> Waiters \union {NoWaiter}] /\ \A d \in Clients : waiter'[d] = GiveUp(waiter[d], c)
    BY <1>0, <1>2, PoolTypes
<1>5. PoolTypeOK'
    <2>1. pc' \in [Clients -> Placements]
        BY <1>0, PoolTypes DEF Placements
    <2> QED BY <1>0, <1>3, <1>4, <2>1 DEF PoolInv, PoolTypeOK, Placements
<1>6. SoleOwner'
    BY <1>0, <1>1 DEF PoolInv, SoleOwner, Owns, InMap
<1>7. PlacesAgree'
    BY <1>0, <1>1, <1>2, <1>4 DEF PoolInv, PlacesAgree, InHand
<1>8. WaitersWait'
    <2>1. ASSUME NEW k \in 1..Len(queue'), queue'[k].live
          PROVE  /\ pc'[queue'[k].client] = "waiting" /\ inbox'[queue'[k].client] = None
                 /\ \A j \in 1..Len(queue') : queue'[j] = queue'[k] => j = k
                 /\ \A d \in Clients : waiter'[d] # queue'[k]
        <3>1. queue'[k] = queue[k] /\ queue[k].live /\ queue[k].client \in Clients \ {c} /\ queue[k] \in Waiters
            BY <1>2, <1>3, <2>1, PoolTypes
        <3>2. /\ pc[queue[k].client] = "waiting" /\ inbox[queue[k].client] = None
              /\ \A j \in 1..Len(queue) : queue[j] = queue[k] => j = k
              /\ \A d \in Clients : waiter[d] # queue[k]
            BY <1>3, <2>1, <3>1 DEF PoolInv, WaitersWait
        <3>3. \A j \in 1..Len(queue') : queue'[j] = queue'[k] => j = k
            <4> SUFFICES ASSUME NEW j \in 1..Len(queue), queue'[j] = queue'[k] PROVE j = k
                BY <1>3
            <4>1. queue[j] = queue'[j]
                BY <1>2, <1>3, <2>1, PoolTypes
            <4> QED BY <3>1, <3>2, <4>1
        <3>4. \A d \in Clients : waiter'[d] # queue'[k]
            <4> SUFFICES ASSUME NEW d \in Clients, waiter'[d] = queue'[k] PROVE FALSE
                OBVIOUS
            <4>1. waiter[d] = waiter'[d]
                BY <1>2, <1>4, <2>1, PoolTypes
            <4> QED BY <3>1, <3>2, <4>1
        <3> QED BY <1>0, <1>1, <3>1, <3>2, <3>3, <3>4
    <2>2. ASSUME NEW d \in Clients, waiter'[d].live
          PROVE  /\ pc'[waiter'[d].client] = "waiting" /\ inbox'[waiter'[d].client] = None
                 /\ \A e \in Clients : waiter'[e] = waiter'[d] => e = d
        <3>1. waiter'[d] = waiter[d] /\ waiter[d].live /\ waiter[d].client \in Clients \ {c}
            BY <1>2, <1>4, <2>2, PoolTypes
        <3>2. /\ pc[waiter[d].client] = "waiting" /\ inbox[waiter[d].client] = None
              /\ \A e \in Clients : waiter[e] = waiter[d] => e = d
            BY <3>1 DEF PoolInv, WaitersWait
        <3>3. \A e \in Clients : waiter'[e] = waiter'[d] => e = d
            <4> SUFFICES ASSUME NEW e \in Clients, waiter'[e] = waiter'[d] PROVE e = d
                OBVIOUS
            <4>1. waiter[e] = waiter'[e]
                BY <1>2, <1>4, <2>2, PoolTypes
            <4> QED BY <3>1, <3>2, <4>1
        <3> QED BY <1>0, <1>1, <3>1, <3>2, <3>3
    <2> QED BY <2>1, <2>2 DEF WaitersWait
<1>9. IdsInOrder'
    BY <1>0, SameIds DEF PoolInv
<1> QED BY <1>5, <1>6, <1>7, <1>8, <1>9 DEF PoolInv

(***************************************************************************)
(* checkin takes the oldest waiter from the queue.                         *)
(***************************************************************************)
LEMMA TakeWaiterStep ==
    ASSUME PoolInv, NEW c \in Clients, CheckinTakeWaiter(c)
    PROVE  PoolInv'
<1> DEFINE v == Head(queue)
<1>0. /\ pc[c] = "returning" /\ queue # <<>> /\ waiter' = [waiter EXCEPT ![c] = v]
      /\ queue' = Tail(queue) /\ pc' = [pc EXCEPT ![c] = "handing"]
      /\ UNCHANGED <<worker, available, held, inbox, draining, drain, paused, change, auto>>
    BY DEF CheckinTakeWaiter, Go, adminVars
<1>1. /\ v = queue[1] /\ 1 \in 1..Len(queue) /\ v \in Waiters
      /\ queue' \in Seq(Waiters) /\ Len(queue') = Len(queue) - 1
      /\ \A k \in 1..Len(queue') : queue'[k] = queue[k + 1] /\ k + 1 \in 1..Len(queue) /\ k + 1 # 1
    <2>1. /\ Head(queue) = queue[1] /\ Tail(queue) \in Seq(Waiters)
          /\ Len(Tail(queue)) = Len(queue) - 1 /\ Len(queue) \in Nat /\ Len(queue) # 0
          /\ \A k \in 1..Len(Tail(queue)) : Tail(queue)[k] = queue[k + 1]
        BY <1>0, PoolTypes, HeadTailProperties, EmptySeq
    <2>2. 1 \in 1..Len(queue)
        BY <2>1
    <2>3. queue[1] \in Waiters
        BY <2>2, PoolTypes
    <2> QED BY <1>0, <2>1, <2>2, <2>3
<1> HIDE DEF v
<1>2. /\ pc'[c] = "handing" /\ waiter'[c] = v
      /\ \A d \in Clients \ {c} : pc'[d] = pc[d] /\ waiter'[d] = waiter[d]
    BY <1>0, PoolTypes
<1>3. PoolTypeOK'
    <2>1. pc' \in [Clients -> Placements] /\ waiter' \in [Clients -> Waiters \union {NoWaiter}]
        BY <1>0, <1>1, PoolTypes DEF Placements
    <2> QED BY <1>0, <1>1, <2>1 DEF PoolInv, PoolTypeOK, Placements
<1>4. SoleOwner' /\ PlacesAgree'
    BY <1>0, <1>1, <1>2 DEF PoolInv, SoleOwner, PlacesAgree, Owns, InMap, InHand
<1>5. v.live => /\ pc[v.client] = "waiting" /\ inbox[v.client] = None /\ v.client \in Clients \ {c}
                /\ \A j \in 1..Len(queue) : queue[j] = v => j = 1
                /\ \A d \in Clients : waiter[d] # v
    BY <1>0, <1>1, PoolTypes DEF PoolInv, WaitersWait
<1>6. WaitersWait'
    <2>1. ASSUME NEW k \in 1..Len(queue'), queue'[k].live
          PROVE  /\ pc'[queue'[k].client] = "waiting" /\ inbox'[queue'[k].client] = None
                 /\ \A j \in 1..Len(queue') : queue'[j] = queue'[k] => j = k
                 /\ \A d \in Clients : waiter'[d] # queue'[k]
        <3>1. queue'[k] = queue[k + 1] /\ k + 1 \in 1..Len(queue) /\ k \in Nat
            BY <1>1, PoolTypes
        <3>2. /\ pc[queue[k + 1].client] = "waiting" /\ inbox[queue[k + 1].client] = None
              /\ \A j \in 1..Len(queue) : queue[j] = queue[k + 1] => j = k + 1
              /\ \A d \in Clients : waiter[d] # queue[k + 1]
              /\ queue[k + 1].client \in Clients \ {c}
            BY <1>0, <2>1, <3>1, PoolTypes DEF PoolInv, WaitersWait
        <3>3. \A j \in 1..Len(queue') : queue'[j] = queue'[k] => j = k
            BY <1>1, <3>1, <3>2, PoolTypes
        <3>4. v # queue'[k]
            BY <1>1, <3>1, <3>2
        <3> QED BY <1>0, <1>2, <3>1, <3>2, <3>3, <3>4
    <2>2. ASSUME NEW d \in Clients, waiter'[d].live
          PROVE  /\ pc'[waiter'[d].client] = "waiting" /\ inbox'[waiter'[d].client] = None
                 /\ \A e \in Clients : waiter'[e] = waiter'[d] => e = d
        <3>1. CASE d = c
            BY <1>0, <1>2, <1>5, <2>2, <3>1
        <3>2. CASE d # c
            <4>1. /\ waiter'[d] = waiter[d] /\ waiter[d].live /\ waiter[d].client \in Clients
                  /\ pc[waiter[d].client] = "waiting" /\ inbox[waiter[d].client] = None
                  /\ \A e \in Clients : waiter[e] = waiter[d] => e = d
                BY <1>2, <2>2, <3>2, PoolTypes DEF PoolInv, WaitersWait
            <4>2. v # waiter[d]
                BY <1>5, <4>1
            <4> QED BY <1>0, <1>2, <3>2, <4>1, <4>2
        <3> QED BY <3>1, <3>2
    <2> QED BY <2>1, <2>2 DEF WaitersWait
<1>7. IdsInOrder'
    BY <1>0, SameIds DEF PoolInv
<1> QED BY <1>3, <1>4, <1>6, <1>7 DEF PoolInv

(***************************************************************************)
(* checkin hands the worker to its waiter, or loses it if the waiter has   *)
(* given up.                                                               *)
(***************************************************************************)
LEMMA HandStep ==
    ASSUME PoolInv, NEW c \in Clients, CheckinHand(c)
    PROVE  PoolInv'
<1> DEFINE w == held[c]
           g == waiter[c].client
<1>1. pc[c] = "handing" /\ w \in Workers /\ InMap(w) /\ waiter[c] \in Waiters /\ inbox[c] = None
    BY PoolTypes DEF CheckinHand, PoolInv, PlacesAgree, SoleOwner, Owns, InHand
<1>2. /\ worker' = [worker EXCEPT ![w] = "busy"]
      /\ inbox' = IF waiter[c].live THEN [inbox EXCEPT ![g] = w] ELSE inbox
      /\ pc' = [pc EXCEPT ![c] = "idle"] /\ held' = [held EXCEPT ![c] = None]
      /\ waiter' = [waiter EXCEPT ![c] = NoWaiter]
      /\ UNCHANGED <<available, queue, draining, drain, paused, change, auto>>
    BY <1>1 DEF CheckinHand, Go, adminVars
<1>3. /\ g \in Clients
      /\ waiter[c].live => /\ g # c /\ pc[g] = "waiting" /\ inbox[g] = None /\ held[g] = None
                           /\ \A e \in Clients : waiter[e] = waiter[c] => e = c
    BY <1>1 DEF PoolInv, WaitersWait, PlacesAgree, InHand, Waiters
<1>4. \A d \in Clients \ {c} : held[d] # w /\ inbox[d] # w
    BY <1>1 DEF PoolInv, SoleOwner, Owns
<1>5. \A k \in 1..Len(available) : available[k] # w
    BY <1>1 DEF PoolInv, SoleOwner, Owns
<1>5a. w # None
    BY <1>1, PoolTypes
<1> HIDE DEF w, g
<1>6. /\ pc'[c] = "idle" /\ held'[c] = None /\ waiter'[c] = NoWaiter /\ worker'[w] = "busy"
      /\ \A d \in Clients \ {c} : pc'[d] = pc[d] /\ held'[d] = held[d] /\ waiter'[d] = waiter[d]
      /\ \A x \in Workers \ {w} : worker'[x] = worker[x]
      /\ \A d \in Clients : inbox'[d] = IF waiter[c].live /\ d = g THEN w ELSE inbox[d]
    BY <1>1, <1>2, <1>3, PoolTypes
<1>7. PoolTypeOK'
    <2>1. /\ pc' \in [Clients -> Placements] /\ held' \in [Clients -> Workers \union {None}]
          /\ inbox' \in [Clients -> Workers \union {None}]
          /\ waiter' \in [Clients -> Waiters \union {NoWaiter}]
          /\ worker' \in [Workers -> {"unused", "available", "busy", "removed"}]
        BY <1>1, <1>2, PoolTypes DEF Placements
    <2> QED BY <1>2, <2>1 DEF PoolInv, PoolTypeOK, Placements
<1>8. SoleOwner'
    <2>1. /\ \A d \in Clients, x \in Workers : x # w => (Owns(d, x)' => Owns(d, x))
          /\ \A d \in Clients, x \in Workers : x = w => (Owns(d, x)' => d = g /\ waiter[c].live)
        <3>1. ASSUME NEW d \in Clients, NEW x \in Workers, x # w, Owns(d, x)' PROVE Owns(d, x)
            <4>1. x # None
                BY PoolTypes
            <4> QED BY <1>6, <3>1, <4>1 DEF Owns
        <3>2. ASSUME NEW d \in Clients, NEW x \in Workers, x = w, Owns(d, x)' PROVE d = g /\ waiter[c].live
            <4>1. held'[d] = w \/ inbox'[d] = w
                BY <3>2 DEF Owns
            <4>2. held'[d] # w
                <5>1. CASE d = c
                    BY <1>5a, <1>6, <5>1
                <5>2. CASE d # c
                    BY <1>4, <1>6, <5>2
                <5> QED BY <5>1, <5>2
            <4>3. inbox[d] # w
                BY <1>1, <1>4, <1>5a
            <4> QED BY <1>6, <4>1, <4>2, <4>3
        <3> QED BY <3>1, <3>2
    <2>2. ASSUME NEW x \in Workers, NEW d \in Clients, NEW e \in Clients, Owns(d, x)', Owns(e, x)'
          PROVE  d = e
        <3>1. CASE x = w
            BY <2>1, <2>2, <3>1
        <3>2. CASE x # w
            BY <2>1, <2>2, <3>2 DEF PoolInv, SoleOwner
        <3> QED BY <3>1, <3>2
    <2>3. \A d \in Clients : held'[d] = None \/ held'[d] # inbox'[d]
        BY <1>3, <1>4, <1>6 DEF PoolInv, SoleOwner
    <2>4. \A d \in Clients : \A x \in Workers :
            Owns(d, x)' => InMap(x)' /\ \A k \in 1..Len(available') : available'[k] # x
        <3> SUFFICES ASSUME NEW d \in Clients, NEW x \in Workers, Owns(d, x)'
                     PROVE  InMap(x)' /\ \A k \in 1..Len(available') : available'[k] # x
            OBVIOUS
        <3>1. CASE x = w
            BY <1>2, <1>5, <1>6, <3>1 DEF InMap
        <3>2. CASE x # w
            BY <1>2, <1>6, <2>1, <3>2 DEF PoolInv, SoleOwner, InMap
        <3> QED BY <3>1, <3>2
    <2>5. \A k \in 1..Len(available') : worker'[available'[k]] = "available"
        BY <1>2, <1>5, <1>6, PoolTypes DEF PoolInv, SoleOwner
    <2>6. ASSUME NEW d \in Clients, pc'[d] = "using" PROVE worker'[held'[d]] = "busy"
        <3>1. d # c /\ pc[d] = "using" /\ held[d] \in Workers /\ held[d] # w
            BY <1>4, <1>6, <2>6, PoolTypes DEF PoolInv, PlacesAgree, InHand
        <3> QED BY <1>6, <3>1 DEF PoolInv, SoleOwner
    <2> QED BY <1>2, <2>2, <2>3, <2>4, <2>5, <2>6 DEF PoolInv, SoleOwner
<1>9. PlacesAgree'
    <2> SUFFICES ASSUME NEW d \in Clients
                 PROVE  /\ held'[d] # None <=> pc'[d] \in InHand
                        /\ pc'[d] \in InHand \ {"using"} => worker'[held'[d]] = "available"
                        /\ inbox'[d] # None => pc'[d] = "waiting" /\ worker'[inbox'[d]] = "busy"
                        /\ IF pc'[d] = "handing" THEN waiter'[d] \in Waiters ELSE waiter'[d] = NoWaiter
        BY DEF PlacesAgree
    <2>1. CASE d = c
        BY <1>1, <1>3, <1>6, <2>1 DEF InHand
    <2>2. CASE d # c
        <3>1. held[d] # w /\ inbox[d] # w /\ pc'[d] = pc[d]
            BY <1>4, <1>6, <2>2
        <3>2. held[d] \in Workers \union {None} /\ inbox[d] \in Workers \union {None}
            BY PoolTypes
        <3>3. inbox'[d] # None => pc'[d] = "waiting" /\ worker'[inbox'[d]] = "busy"
            BY <1>1, <1>3, <1>6, <3>1, <3>2 DEF PoolInv, PlacesAgree
        <3> QED BY <1>6, <2>2, <3>1, <3>2, <3>3 DEF PoolInv, PlacesAgree, InHand
    <2> QED BY <2>1, <2>2
<1>10. WaitersWait'
    <2>1. ASSUME NEW k \in 1..Len(queue'), queue'[k].live
          PROVE  /\ pc'[queue'[k].client] = "waiting" /\ inbox'[queue'[k].client] = None
                 /\ \A j \in 1..Len(queue') : queue'[j] = queue'[k] => j = k
                 /\ \A d \in Clients : waiter'[d] # queue'[k]
        <3>1. /\ queue' = queue /\ queue[k] \in Waiters /\ queue[k].client \in Clients /\ queue[k].live
              /\ pc[queue[k].client] = "waiting" /\ inbox[queue[k].client] = None
              /\ \A j \in 1..Len(queue) : queue[j] = queue[k] => j = k
              /\ \A d \in Clients : waiter[d] # queue[k]
            BY <1>2, <2>1, PoolTypes DEF PoolInv, WaitersWait
        <3>2. waiter[c].live => queue[k].client # g
            <4> SUFFICES ASSUME waiter[c].live, queue[k].client = g PROVE FALSE
                OBVIOUS
            <4>1. waiter[c] = queue[k]
                BY <1>1, <3>1 DEF g, Waiters
            <4> QED BY <3>1, <4>1
        <3>3. NoWaiter # queue[k]
            BY <3>1 DEF NoWaiter
        <3> QED BY <1>1, <1>6, <3>1, <3>2, <3>3
    <2>2. ASSUME NEW d \in Clients, waiter'[d].live
          PROVE  /\ pc'[waiter'[d].client] = "waiting" /\ inbox'[waiter'[d].client] = None
                 /\ \A e \in Clients : waiter'[e] = waiter'[d] => e = d
        <3>1. d # c
            BY <1>6, <2>2 DEF NoWaiter
        <3>2. /\ waiter'[d] = waiter[d] /\ waiter[d].live /\ waiter[d].client \in Clients
              /\ waiter[d] \in Waiters
              /\ pc[waiter[d].client] = "waiting" /\ inbox[waiter[d].client] = None
              /\ \A e \in Clients : waiter[e] = waiter[d] => e = d
            BY <1>6, <2>2, <3>1, PoolTypes DEF PoolInv, WaitersWait
        <3>3. waiter[c].live => waiter[d].client # g
            <4> SUFFICES ASSUME waiter[c].live, waiter[d].client = g PROVE FALSE
                OBVIOUS
            <4>1. waiter[c] = waiter[d]
                BY <1>1, <3>2 DEF g, Waiters
            <4> QED BY <3>1, <3>2, <4>1
        <3>4. NoWaiter # waiter[d]
            BY <3>2 DEF NoWaiter
        <3> QED BY <1>1, <1>6, <3>1, <3>2, <3>3, <3>4
    <2> QED BY <2>1, <2>2 DEF WaitersWait
<1>a. IdsInOrder'
    <2>1. worker[w] # "unused"
        BY <1>1 DEF InMap
    <2> QED BY <1>6, <2>1, SameIds DEF PoolInv
<1> QED BY <1>7, <1>8, <1>9, <1>10, <1>a DEF PoolInv

(***************************************************************************)
(* checkin puts the worker back at the end of the deque.                   *)
(***************************************************************************)
LEMMA PushStep ==
    ASSUME PoolInv, NEW c \in Clients, CheckinPush(c)
    PROVE  PoolInv'
<1> DEFINE w == held[c]
<1>0. /\ pc[c] = "pushing" /\ available' = Append(available, w) /\ held' = [held EXCEPT ![c] = None]
      /\ pc' = [pc EXCEPT ![c] = "idle"]
      /\ UNCHANGED <<worker, queue, waiter, inbox, draining, drain, paused, change, auto>>
    BY DEF CheckinPush, Go, adminVars
<1>1. w \in Workers /\ worker[w] = "available" /\ inbox[c] = None /\ w # None
    BY <1>0, PoolTypes DEF PoolInv, PlacesAgree, InHand
<1>2. /\ \A d \in Clients \ {c} : held[d] # w /\ inbox[d] # w
      /\ \A k \in 1..Len(available) : available[k] # w
    BY <1>1 DEF PoolInv, SoleOwner, Owns
<1> HIDE DEF w
<1>3. /\ available' \in Seq(Workers) /\ Len(available') = Len(available) + 1
      /\ available'[Len(available) + 1] = w
      /\ \A k \in 1..Len(available) : available'[k] = available[k]
      /\ \A k \in 1..Len(available') : k \in 1..Len(available) \/ k = Len(available) + 1
    <2>1. /\ Append(available, w) \in Seq(Workers) /\ Len(Append(available, w)) = Len(available) + 1
          /\ Append(available, w)[Len(available) + 1] = w
          /\ \A k \in 1..Len(available) : Append(available, w)[k] = available[k]
        BY <1>1, PoolTypes, AppendProperties
    <2> QED BY <1>0, <2>1, PoolTypes
<1>4. /\ pc'[c] = "idle" /\ held'[c] = None
      /\ \A d \in Clients \ {c} : pc'[d] = pc[d] /\ held'[d] = held[d]
    BY <1>0, PoolTypes
<1>5. PoolTypeOK'
    <2>1. pc' \in [Clients -> Placements] /\ held' \in [Clients -> Workers \union {None}]
        BY <1>0, PoolTypes DEF Placements
    <2> QED BY <1>0, <1>3, <2>1 DEF PoolInv, PoolTypeOK, Placements
<1>6. SoleOwner'
    <2>1. ASSUME NEW d \in Clients, NEW x \in Workers, Owns(d, x)' PROVE Owns(d, x) /\ x # w
        <3>1. x # None
            BY PoolTypes
        <3> QED BY <1>0, <1>1, <1>2, <1>4, <2>1, <3>1 DEF Owns
    <2>2. \A x \in Workers : \A d, e \in Clients : Owns(d, x)' /\ Owns(e, x)' => d = e
        BY <2>1 DEF PoolInv, SoleOwner
    <2>3. \A d \in Clients : held'[d] = None \/ held'[d] # inbox'[d]
        BY <1>0, <1>4 DEF PoolInv, SoleOwner
    <2>4. ASSUME NEW d \in Clients, NEW x \in Workers, Owns(d, x)'
          PROVE  InMap(x)' /\ \A k \in 1..Len(available') : available'[k] # x
        BY <1>0, <1>3, <2>1, <2>4 DEF PoolInv, SoleOwner, InMap
    <2>5. \A j, k \in 1..Len(available') : available'[j] = available'[k] => j = k
        BY <1>2, <1>3 DEF PoolInv, SoleOwner
    <2>6. \A k \in 1..Len(available') : worker'[available'[k]] = "available"
        BY <1>0, <1>1, <1>3 DEF PoolInv, SoleOwner
    <2>7. \A d \in Clients : pc'[d] = "using" => worker'[held'[d]] = "busy"
        BY <1>0, <1>4 DEF PoolInv, SoleOwner
    <2> QED BY <2>2, <2>3, <2>4, <2>5, <2>6, <2>7 DEF SoleOwner
<1>7. PlacesAgree'
    BY <1>0, <1>1, <1>4 DEF PoolInv, PlacesAgree, InHand
<1>8. WaitersWait'
    BY <1>0, <1>4, PoolTypes DEF PoolInv, WaitersWait
<1>9. IdsInOrder'
    BY <1>0, SameIds DEF PoolInv
<1> QED BY <1>5, <1>6, <1>7, <1>8, <1>9 DEF PoolInv

(***************************************************************************)
(* Scaling down: the workers taken from the deque were nobody's, and the   *)
(* rest of the deque stays in order.                                       *)
(***************************************************************************)
LEMMA ShrinkStep ==
    ASSUME PoolInv, NEW lo \in 1..(Len(available) + 1), NEW hi \in 0..Len(available), lo - 1 <= hi,
           available' = SubSeq(available, lo, hi),
           NEW out \in SUBSET Workers,
           \A w \in out : \E k \in 1..Len(available) : w = available[k] /\ ~(lo <= k /\ k <= hi),
           worker' = [w \in Workers |-> IF w \in out THEN "removed" ELSE worker[w]],
           UNCHANGED <<queue, pc, held, waiter, inbox, draining, drain, paused>>,
           change' \in Int, auto' \in Int
    PROVE  PoolInv'
<1>1. /\ available' \in Seq(Workers) /\ Len(available') = hi - lo + 1 /\ Len(available') \in Nat
      /\ \A k \in 1..Len(available') :
            available'[k] = available[lo + k - 1] /\ lo + k - 1 \in lo..hi /\ lo + k - 1 \in 1..Len(available)
    <2>1. Len(available) \in Nat /\ lo \in Int /\ hi \in Int /\ available \in Seq(Workers)
        BY PoolTypes
    <2>2. \A i \in lo..hi : i \in 1..Len(available) /\ available[i] \in Workers
        BY <2>1, PoolTypes
    <2>3. /\ SubSeq(available, lo, hi) \in Seq(Workers)
          /\ Len(SubSeq(available, lo, hi)) = IF lo <= hi THEN hi - lo + 1 ELSE 0
          /\ \A i \in 1..hi - lo + 1 : SubSeq(available, lo, hi)[i] = available[lo + i - 1]
        BY <2>1, <2>2, SubSeqProperties
    <2>4. Len(SubSeq(available, lo, hi)) = hi - lo + 1
        BY <2>1, <2>3
    <2>5. \A k \in 1..(hi - lo + 1) : lo + k - 1 \in lo..hi
        BY <2>1
    <2>6. hi - lo + 1 \in Nat
        BY <2>1
    <2> QED BY <2>2, <2>3, <2>4, <2>5, <2>6
<1>2. \A w \in Workers : worker'[w] = IF w \in out THEN "removed" ELSE worker[w]
    OBVIOUS
<1>3. \A w \in out : worker[w] = "available" /\ w \in Workers /\ \A d \in Clients : ~Owns(d, w)
    BY DEF PoolInv, SoleOwner
<1>4. \A k \in 1..Len(available') : available'[k] \notin out
    <2> SUFFICES ASSUME NEW k \in 1..Len(available'), available'[k] \in out PROVE FALSE
        OBVIOUS
    <2>1. PICK j \in 1..Len(available) : available'[k] = available[j] /\ ~(lo <= j /\ j <= hi)
        OBVIOUS
    <2>2. j = lo + k - 1
        BY <1>1, <2>1 DEF PoolInv, SoleOwner
    <2> QED BY <1>1, <2>1, <2>2
<1>5. \A d \in Clients, w \in Workers : Owns(d, w)' <=> Owns(d, w)
    BY DEF Owns
<1>6. PoolTypeOK'
    BY <1>1 DEF PoolInv, PoolTypeOK
<1>7. \A d \in Clients : /\ held[d] # None => held[d] \in Workers \ out
                         /\ inbox[d] # None => inbox[d] \in Workers \ out
    BY <1>3, PoolTypes DEF Owns
<1>8. SoleOwner'
    <2>1. ASSUME NEW d \in Clients, NEW w \in Workers, Owns(d, w)'
          PROVE  InMap(w)' /\ \A k \in 1..Len(available') : available'[k] # w
        BY <1>1, <1>2, <1>3, <1>5, <2>1 DEF PoolInv, SoleOwner, InMap
    <2>2. ASSUME NEW j \in 1..Len(available'), NEW k \in 1..Len(available'), available'[j] = available'[k]
          PROVE  j = k
        <3>1. /\ lo + j - 1 \in 1..Len(available) /\ lo + k - 1 \in 1..Len(available)
              /\ available[lo + j - 1] = available[lo + k - 1]
            BY <1>1, <2>2
        <3>2. lo + j - 1 = lo + k - 1
            BY <3>1 DEF PoolInv, SoleOwner
        <3> QED BY <1>1, <3>2
    <2>3. \A k \in 1..Len(available') : worker'[available'[k]] = "available"
        BY <1>1, <1>2, <1>4, PoolTypes DEF PoolInv, SoleOwner
    <2>4. ASSUME NEW d \in Clients, pc'[d] = "using" PROVE worker'[held'[d]] = "busy"
        BY <1>2, <1>7, <2>4 DEF PoolInv, SoleOwner, PlacesAgree, InHand
    <2>5. /\ \A w \in Workers : \A d, e \in Clients : Owns(d, w)' /\ Owns(e, w)' => d = e
          /\ \A d \in Clients : held'[d] = None \/ held'[d] # inbox'[d]
        BY <1>5 DEF PoolInv, SoleOwner
    <2> QED BY <2>1, <2>2, <2>3, <2>4, <2>5 DEF SoleOwner
<1>9. PlacesAgree'
    BY <1>2, <1>7 DEF PoolInv, PlacesAgree, InHand
<1>10. WaitersWait'
    BY DEF PoolInv, WaitersWait
<1>a. IdsInOrder'
    BY <1>2, <1>3, SameIds DEF PoolInv
<1> QED BY <1>6, <1>8, <1>9, <1>10, <1>a DEF PoolInv

(***************************************************************************)
(* Scaling up: the new workers have ids that nobody has.                   *)
(***************************************************************************)
LEMMA GrowStep ==
    ASSUME PoolInv, NEW n \in Nat, SpawnWorkers(n),
           UNCHANGED <<queue, pc, held, waiter, inbox, draining, drain, paused>>,
           change' \in Int, auto' \in Int
    PROVE  PoolInv'
<1> DEFINE ids == [k \in 1..n |-> Spawned + k]
<1>1. Spawned \in Nat
    <2>0. 1 \in Int /\ WorkerIds \in Int
        BY PoolAssumption
    <2>1. IsFiniteSet(Workers)
        BY <2>0, FS_Interval DEF Workers
    <2>2. IsFiniteSet({w \in Workers : worker[w] # "unused"})
        BY <2>1, FS_Subset
    <2> QED BY <2>2, FS_CardinalityType DEF Spawned
<1>2. /\ Spawned + n <= WorkerIds /\ available' = available \o ids
      /\ worker' = [w \in Workers |-> IF w \in ToSet(ids) THEN "available" ELSE worker[w]]
    BY DEF SpawnWorkers
<1>3. /\ ids \in Seq(Workers) /\ Len(ids) = n /\ \A k \in 1..n : ids[k] = Spawned + k
    <2>1. WorkerIds \in Nat
        BY PoolAssumption
    <2>2. \A k \in 1..n : Spawned + k \in Workers
        BY <1>1, <1>2, <2>1 DEF Workers
    <2>3. ids \in [1..n -> Workers]
        BY <2>2
    <2>4. ids \in Seq(Workers)
        BY <2>3 DEF Seq
    <2>5. Len(ids) = n
        BY <2>3, <2>4, LenProperties
    <2> QED BY <2>4, <2>5
<1>4. \A w \in Workers : w \in ToSet(ids) <=> Spawned < w /\ w <= Spawned + n
    <2>1. \A w : w \in ToSet(ids) <=> \E k \in 1..n : w = Spawned + k
        BY <1>3 DEF ToSet
    <2>2. \A w \in Workers : (\E k \in 1..n : w = Spawned + k) <=> Spawned < w /\ w <= Spawned + n
        <3> SUFFICES ASSUME NEW w \in Workers
                     PROVE  (\E k \in 1..n : w = Spawned + k) <=> Spawned < w /\ w <= Spawned + n
            OBVIOUS
        <3>1. ASSUME Spawned < w, w <= Spawned + n PROVE w - Spawned \in 1..n /\ w = Spawned + (w - Spawned)
            BY <1>1, <3>1, PoolAssumption DEF Workers
        <3> QED BY <1>1, <3>1, PoolAssumption DEF Workers
    <2> QED BY <2>1, <2>2
<1> HIDE DEF ids
<1>5. /\ available' \in Seq(Workers) /\ Len(available') = Len(available) + n /\ Len(available') \in Nat
      /\ \A k \in 1..Len(available) : available'[k] = available[k]
      /\ \A k \in 1..Len(available') : k > Len(available) => available'[k] = Spawned + (k - Len(available))
    <2>1. /\ available \o ids \in Seq(Workers) /\ Len(available \o ids) = Len(available) + Len(ids)
          /\ \A k \in 1..Len(available) + Len(ids) : (available \o ids)[k] =
                IF k <= Len(available) THEN available[k] ELSE ids[k - Len(available)]
        BY <1>3, PoolTypes, ConcatProperties
    <2>2. \A k \in 1..Len(available) + n : k > Len(available) => k - Len(available) \in 1..n
        BY PoolTypes
    <2>3. \A k \in 1..Len(available) : k \in 1..Len(available) + n /\ k <= Len(available)
        BY PoolTypes
    <2>4. \A k \in 1..Len(available) + n : k > Len(available) => ~(k <= Len(available))
        BY PoolTypes
    <2>5. Len(available) + n \in Nat
        BY PoolTypes
    <2> QED BY <1>2, <1>3, <2>1, <2>2, <2>3, <2>4, <2>5
<1>6. /\ \A w \in Workers : worker'[w] = IF Spawned < w /\ w <= Spawned + n THEN "available" ELSE worker[w]
      /\ \A w \in Workers : worker[w] # "unused" <=> w <= Spawned
      /\ \A w \in Workers : w \in Nat
    BY <1>2, <1>4, PoolAssumption DEF PoolInv, IdsInOrder, Workers
<1>7. \A w \in Workers : worker[w] # "unused" => worker'[w] = worker[w]
    BY <1>1, <1>6
<1>8. \A k \in 1..Len(available) : worker[available[k]] = "available" /\ available[k] <= Spawned
    BY <1>6, PoolTypes DEF PoolInv, SoleOwner
<1>9. PoolTypeOK'
    <2>1. worker' \in [Workers -> {"unused", "available", "busy", "removed"}]
        BY <1>2, PoolTypes
    <2> QED BY <1>5, <2>1 DEF PoolInv, PoolTypeOK
<1>10. \A d \in Clients, w \in Workers : /\ Owns(d, w)' <=> Owns(d, w)
                                         /\ Owns(d, w) => worker'[w] = worker[w] /\ w <= Spawned
    BY <1>6, <1>7 DEF Owns, PoolInv, SoleOwner, InMap
<1>a. SoleOwner'
    <2>1. ASSUME NEW d \in Clients, NEW w \in Workers, Owns(d, w)'
          PROVE  InMap(w)' /\ \A k \in 1..Len(available') : available'[k] # w
        <3>1. Owns(d, w) /\ InMap(w) /\ worker'[w] = worker[w] /\ w <= Spawned /\ w \in Nat
              /\ \A k \in 1..Len(available) : available[k] # w
            BY <1>6, <1>10, <2>1 DEF PoolInv, SoleOwner
        <3>2. ASSUME NEW k \in 1..Len(available') PROVE available'[k] # w
            <4>1. CASE k \in 1..Len(available)
                BY <1>5, <3>1, <4>1
            <4>2. CASE k > Len(available)
                BY <1>1, <1>5, <3>1, <4>2, PoolTypes
            <4> QED BY <4>1, <4>2, PoolTypes
        <3> QED BY <3>1, <3>2 DEF InMap
    <2>2. ASSUME NEW j \in 1..Len(available'), NEW k \in 1..Len(available'), available'[j] = available'[k]
          PROVE  j = k
        <3>1. /\ j \in 1..Len(available) \/ j > Len(available)
              /\ k \in 1..Len(available) \/ k > Len(available)
            BY PoolTypes
        <3>2. CASE j \in 1..Len(available) /\ k \in 1..Len(available)
            BY <1>5, <2>2, <3>2 DEF PoolInv, SoleOwner
        <3>3. CASE j > Len(available) /\ k > Len(available)
            BY <1>1, <1>5, <2>2, <3>3, PoolTypes
        <3>4. \A i \in 1..Len(available) : available'[i] <= Spawned /\ available'[i] \in Nat
            BY <1>5, <1>6, <1>8, PoolTypes
        <3>5. \A i \in 1..Len(available') : i > Len(available) => ~(available'[i] <= Spawned)
            BY <1>1, <1>5, PoolTypes
        <3> QED BY <2>2, <3>1, <3>2, <3>3, <3>4, <3>5
    <2>3. ASSUME NEW k \in 1..Len(available') PROVE worker'[available'[k]] = "available"
        <3>1. CASE k \in 1..Len(available)
            BY <1>5, <1>7, <1>8, <3>1, PoolTypes
        <3>2. CASE k > Len(available)
            <4>1. available'[k] = Spawned + (k - Len(available)) /\ k - Len(available) \in 1..n
                BY <1>5, <3>2, PoolTypes
            <4>2. available'[k] \in Workers /\ Spawned < available'[k] /\ available'[k] <= Spawned + n
                BY <1>1, <1>2, <4>1, PoolAssumption, SMTT(30) DEF Workers
            <4> QED BY <1>6, <4>2
        <3> QED BY <3>1, <3>2, PoolTypes
    <2>4. ASSUME NEW d \in Clients, pc'[d] = "using" PROVE worker'[held'[d]] = "busy"
        <3>1. held[d] \in Workers /\ worker[held[d]] = "busy"
            BY <2>4, PoolTypes DEF PoolInv, SoleOwner, PlacesAgree, InHand
        <3> QED BY <1>7, <3>1
    <2>5. /\ \A w \in Workers : \A d, e \in Clients : Owns(d, w)' /\ Owns(e, w)' => d = e
          /\ \A d \in Clients : held'[d] = None \/ held'[d] # inbox'[d]
        BY <1>10 DEF PoolInv, SoleOwner
    <2> QED BY <2>1, <2>2, <2>3, <2>4, <2>5 DEF SoleOwner
<1>12. PlacesAgree'
    <2>1. \A d \in Clients : /\ held[d] # None => worker'[held[d]] = worker[held[d]]
                             /\ inbox[d] # None => worker'[inbox[d]] = worker[inbox[d]]
        BY <1>10, PoolTypes DEF Owns
    <2> QED BY <2>1 DEF PoolInv, PlacesAgree
<1>13. WaitersWait'
    BY DEF PoolInv, WaitersWait
<1>14. IdsInOrder'
    <2>1. {w \in Workers : worker'[w] # "unused"} = 1..(Spawned + n)
        BY <1>1, <1>2, <1>6, PoolAssumption DEF Workers
    <2>2. Cardinality(1..(Spawned + n)) = Spawned + n
        BY <1>1, FS_Interval
    <2>3. Spawned' = Spawned + n
        BY <2>1, <2>2 DEF Spawned
    <2>4. \A w \in Workers : worker'[w] # "unused" <=> w <= Spawned + n
        BY <1>1, <1>6
    <2> QED BY <2>3, <2>4 DEF IdsInOrder
<1> QED BY <1>9, <1>a, <1>12, <1>13, <1>14 DEF PoolInv

(***************************************************************************)
(* remove_workers takes from the front of the deque, the auto-scaler from  *)
(* its back; neither touches a worker in somebody's hands.                 *)
(***************************************************************************)
LEMMA RemoveStep ==
    ASSUME PoolInv, NEW n \in Nat, RemoveWorkers(n) \/ PopWorkers(n),
           UNCHANGED <<queue, pc, held, waiter, inbox, draining, drain, paused>>,
           change' \in Int, auto' \in Int
    PROVE  PoolInv'
<1> DEFINE top == Len(available)
<1>1. top \in Nat /\ available \in Seq(Workers)
    BY PoolTypes
<1>2. ASSUME NEW i \in 1..(top + 1), NEW j \in 0..top, i - 1 <= j
      PROVE  \A x : x \in ToSet(SubSeq(available, i, j)) <=> \E k \in 1..top : x = available[k] /\ i <= k /\ k <= j
    <2>1. \A k \in i..j : k \in 1..top /\ available[k] \in Workers
        BY <1>1, PoolTypes
    <2>2. /\ Len(SubSeq(available, i, j)) = IF i <= j THEN j - i + 1 ELSE 0
          /\ \A k \in 1..j - i + 1 : SubSeq(available, i, j)[k] = available[i + k - 1]
          /\ SubSeq(available, i, j) \in Seq(Workers)
        BY <1>1, <2>1, SubSeqProperties
    <2>2a. DOMAIN SubSeq(available, i, j) = 1..Len(SubSeq(available, i, j))
        BY <2>2, LenProperties
    <2>3. Len(SubSeq(available, i, j)) = j - i + 1
        BY <1>1, <1>2, <2>2
    <2>4. ToSet(SubSeq(available, i, j)) = {available[i + k - 1] : k \in 1..j - i + 1}
        BY <2>2, <2>2a, <2>3 DEF ToSet
    <2>5. \A k \in 1..j - i + 1 : i + k - 1 \in 1..top /\ i <= i + k - 1 /\ i + k - 1 <= j
        BY <1>1
    <2>6. \A k \in 1..top : i <= k /\ k <= j => k - i + 1 \in 1..j - i + 1 /\ k = i + (k - i + 1) - 1
        BY <1>1
    <2> QED BY <2>4, <2>5, <2>6
<1>3. ASSUME RemoveWorkers(n) PROVE PoolInv'
    <2> DEFINE k == Least(n, top)
               out == ToSet(SubSeq(available, 1, k))
    <2>1. k \in 0..top
        BY <1>1 DEF Least
    <2>2. /\ available' = SubSeq(available, k + 1, top)
          /\ worker' = [w \in Workers |-> IF w \in out THEN "removed" ELSE worker[w]]
        BY <1>3 DEF RemoveWorkers, Dropped
    <2>3. \A x : x \in out <=> \E i \in 1..top : x = available[i] /\ 1 <= i /\ i <= k
        BY <1>1, <1>2, <2>1
    <2> HIDE DEF k, out
    <2>4. /\ out \in SUBSET Workers /\ k + 1 \in 1..(top + 1) /\ top \in 0..top /\ k + 1 - 1 <= top
          /\ \A w \in out : \E i \in 1..top : w = available[i] /\ ~(k + 1 <= i /\ i <= top)
        BY <1>1, <2>1, <2>3, PoolTypes
    <2> DEFINE lo == k + 1
    <2>5. /\ lo \in 1..(top + 1) /\ lo - 1 <= top /\ available' = SubSeq(available, lo, top)
          /\ \A w \in out : \E i \in 1..top : w = available[i] /\ ~(lo <= i /\ i <= top)
        BY <2>2, <2>4
    <2> HIDE DEF lo, top
    <2> QED BY <2>2, <2>4, <2>5, ShrinkStep DEF top
<1>4. ASSUME PopWorkers(n) PROVE PoolInv'
    <2> DEFINE k == top - Least(n, top)
               out == ToSet(SubSeq(available, k + 1, top))
    <2>1. k \in 0..top
        BY <1>1 DEF Least
    <2>2. /\ available' = SubSeq(available, 1, k)
          /\ worker' = [w \in Workers |-> IF w \in out THEN "removed" ELSE worker[w]]
        BY <1>4 DEF PopWorkers, Dropped
    <2>3. \A x : x \in out <=> \E i \in 1..top : x = available[i] /\ k + 1 <= i /\ i <= top
        BY <1>1, <1>2, <2>1
    <2> HIDE DEF k, out
    <2>4. /\ out \in SUBSET Workers /\ 1 \in 1..(top + 1) /\ 1 - 1 <= k
          /\ \A w \in out : \E i \in 1..top : w = available[i] /\ ~(1 <= i /\ i <= k)
        BY <1>1, <2>1, <2>3, PoolTypes
    <2> HIDE DEF top
    <2> QED BY <2>1, <2>2, <2>4, ShrinkStep DEF top
<1> QED BY <1>3, <1>4

(***************************************************************************)
(* The administrative calls that touch no worker.                          *)
(***************************************************************************)
LEMMA AdminStep ==
    ASSUME PoolInv, UNCHANGED <<worker, available, queue, pc, held, waiter, inbox>>,
           draining' \in BOOLEAN, paused' \in BOOLEAN, drain' \in {"idle", "waiting", "drained"},
           change' \in Int, auto' \in Int
    PROVE  PoolInv'
<1>1. PoolTypeOK'
    BY DEF PoolInv, PoolTypeOK
<1>2. SoleOwner' /\ PlacesAgree' /\ WaitersWait'
    BY DEF PoolInv, SoleOwner, PlacesAgree, WaitersWait, Owns, InMap
<1>3. IdsInOrder'
    BY SameIds DEF PoolInv
<1> QED BY <1>1, <1>2, <1>3 DEF PoolInv

(***************************************************************************)
(* The numbers the scalers compute.                                        *)
(***************************************************************************)
LEMMA Amounts == Size \in Nat /\ ScaleAmount(Size) \in Nat
<1>1. 1 \in Int /\ WorkerIds \in Int /\ MinStep \in Nat /\ MaxStep \in Nat
    BY PoolAssumption
<1>2. IsFiniteSet(Workers)
    BY <1>1, FS_Interval DEF Workers
<1>3. IsFiniteSet(Pool)
    <2>1. Pool \in SUBSET Workers
        BY DEF Pool
    <2> QED BY <1>2, <2>1, FS_Subset
<1>4. Size \in Nat
    BY <1>3, FS_CardinalityType DEF Size
<1>5. Size \div 2 \in Int
    BY <1>4
<1>6. Strategy \in {"incremental", "half", "exponential"}
    BY PoolAssumption
<1>7. ScaleAmount(Size) \in Nat
    <2> DEFINE half == Size \div 2
               amount == CASE Strategy = "incremental" -> 1
                           [] Strategy = "half" -> Most(half, 1)
                           [] Strategy = "exponential" -> Size
    <2>1. half \in Int
        BY <1>5
    <2> HIDE DEF half
    <2>2. CASE Strategy = "incremental"
        BY <2>2, <1>1 DEF ScaleAmount, Least, Most
    <2>3. CASE Strategy = "half"
        <3>1. Most(half, 1) \in Nat
            BY <2>1 DEF Most
        <3>2. amount = Most(half, 1)
            BY <2>3
        <3>3. ScaleAmount(Size) = Least(Most(amount, MinStep), MaxStep)
            BY DEF ScaleAmount, half
        <3> HIDE DEF amount
        <3> QED BY <1>1, <3>1, <3>2, <3>3 DEF Least, Most
    <2>4. CASE Strategy = "exponential"
        BY <2>4, <1>1, <1>4 DEF ScaleAmount, Least, Most
    <2> QED BY <1>6, <2>2, <2>3, <2>4
<1> QED BY <1>4, <1>7

(***************************************************************************)
(* A new pool satisfies the invariant.                                     *)
(***************************************************************************)
LEMMA PoolStart == PoolInit => PoolInv
<1> SUFFICES ASSUME PoolInit PROVE PoolInv
    OBVIOUS
<1>1. /\ available = [k \in 1..InitialSize |-> k] /\ queue = <<>>
      /\ worker = [w \in Workers |-> IF w <= InitialSize THEN "available" ELSE "unused"]
      /\ \A c \in Clients : pc[c] = "idle" /\ held[c] = None /\ waiter[c] = NoWaiter /\ inbox[c] = None
    BY DEF PoolInit
<1>2. InitialSize \in Nat /\ WorkerIds \in Nat /\ InitialSize <= WorkerIds
    BY PoolAssumption
<1>3. \A k \in 1..InitialSize : k \in Workers
    BY <1>2 DEF Workers
<1>4. available \in [1..InitialSize -> Workers]
    BY <1>1, <1>3
<1>5. available \in Seq(Workers)
    BY <1>2, <1>4 DEF Seq
<1>6. Len(available) = InitialSize /\ \A k \in 1..InitialSize : available[k] = k
    BY <1>1, <1>2, <1>4, <1>5, LenProperties
<1>7. Len(queue) = 0 /\ queue \in Seq(Waiters)
    BY <1>1, EmptySeq
<1>8. 1..Len(queue) = {}
    BY <1>7
<1>9. None \notin Workers
    BY <1>2 DEF None, Workers
<1>10. PoolTypeOK
    <2>1. /\ pc = [c \in Clients |-> "idle"] /\ held = [c \in Clients |-> None]
          /\ waiter = [c \in Clients |-> NoWaiter] /\ inbox = [c \in Clients |-> None]
          /\ draining = FALSE /\ drain = "idle" /\ paused = FALSE /\ change = 0 /\ auto = 0
        BY DEF PoolInit
    <2>2. worker \in [Workers -> {"unused", "available", "busy", "removed"}]
        BY <1>1
    <2>3. /\ held \in [Clients -> Workers \union {None}] /\ inbox \in [Clients -> Workers \union {None}]
          /\ waiter \in [Clients -> Waiters \union {NoWaiter}]
        BY <2>1
    <2>4. pc \in [Clients -> {"idle", "asked", "popped", "missed", "waiting", "using",
                            "returning", "handing", "pushing"}]
        BY <2>1
    <2>5. draining \in BOOLEAN /\ paused \in BOOLEAN
        BY <2>1
    <2>6. change \in Int /\ auto \in Int /\ drain \in {"idle", "waiting", "drained"}
        BY <2>1
    <2> QED BY <1>5, <1>7, <2>2, <2>3, <2>4, <2>5, <2>6 DEF PoolTypeOK
<1>a. SoleOwner
    <2>1. \A c \in Clients, w \in Workers : ~Owns(c, w)
        BY <1>1, <1>9 DEF Owns
    <2>2. \A k \in 1..Len(available) : available[k] = k /\ worker[k] = "available"
        BY <1>1, <1>2, <1>3, <1>6
    <2>3. /\ \A j, k \in 1..Len(available) : available[j] = available[k] => j = k
          /\ \A k \in 1..Len(available) : worker[available[k]] = "available"
        BY <2>2
    <2>4. \A c \in Clients : held[c] = None /\ pc[c] # "using"
        BY <1>1
    <2> QED BY <2>1, <2>3, <2>4 DEF SoleOwner
<1>12. PlacesAgree
    BY <1>1 DEF PlacesAgree, InHand
<1>13. WaitersWait
    BY <1>1, <1>8 DEF WaitersWait, NoWaiter
<1>14. IdsInOrder
    <2>1. \A w \in Workers : worker[w] # "unused" <=> w <= InitialSize
        BY <1>1
    <2>2. {w \in Workers : worker[w] # "unused"} = 1..InitialSize
        BY <1>2, <2>1 DEF Workers
    <2>3. Cardinality(1..InitialSize) = InitialSize
        BY <1>2, FS_Interval
    <2> QED BY <2>1, <2>2, <2>3 DEF IdsInOrder, Spawned
<1> QED BY <1>10, <1>a, <1>12, <1>13, <1>14 DEF PoolInv

(***************************************************************************)
(* Every step of a client.                                                 *)
(***************************************************************************)
LEMMA ClientStep ==
    ASSUME PoolInv, NEW c \in Clients, ClientNext(c)
    PROVE  PoolInv'
<1>1. CASE CheckoutAsk(c)
    <2>1. "asked" \in Placements \ {"using", "waiting", "handing"}
        BY DEF Placements
    <2> QED BY <1>1, <2>1, PoolMove DEF CheckoutAsk, InHand
<1>2. CASE CheckoutMiss(c)
    <2>1. "missed" \in Placements \ {"using", "waiting", "handing"}
        BY DEF Placements
    <2> QED BY <1>2, <2>1, PoolMove DEF CheckoutMiss, InHand
<1>3. CASE CheckinNoWaiter(c)
    <2>1. "pushing" \in Placements \ {"using", "waiting", "handing"}
        BY DEF Placements
    <2> QED BY <1>3, <2>1, PoolMove DEF CheckinNoWaiter, InHand
<1>4. CASE CheckoutMark(c)
    BY <1>4, MarkStep
<1>5. CASE CheckinMark(c)
    BY <1>5, MarkStep
<1>6. CASE CheckoutPop(c)
    BY <1>6, PopStep
<1>7. CASE CheckoutWait(c)
    BY <1>7, WaitStep
<1>8. CASE CheckoutReceive(c)
    BY <1>8, ReceiveStep
<1>9. CASE CheckoutTimeout(c)
    BY <1>9, TimeoutStep
<1>10. CASE CheckinTakeWaiter(c)
    BY <1>10, TakeWaiterStep
<1>a. CASE CheckinHand(c)
    BY <1>a, HandStep
<1>12. CASE CheckinPush(c)
    BY <1>12, PushStep
<1> QED BY <1>1, <1>2, <1>3, <1>4, <1>5, <1>6, <1>7, <1>8, <1>9, <1>10, <1>a, <1>12
        DEF ClientNext, Progress

(***************************************************************************)
(* Every step of scaling.                                                  *)
(***************************************************************************)
LEMMA ScaleStep ==
    ASSUME PoolInv, ScaleNext
    PROVE  PoolInv'
<1>0. /\ change \in Int /\ auto \in Int /\ draining \in BOOLEAN /\ paused \in BOOLEAN
      /\ drain \in {"idle", "waiting", "drained"}
    BY DEF PoolInv, PoolTypeOK
<1>1. CASE AutoDecide
    <2>1. auto' \in Int
        BY <1>1, Amounts DEF AutoDecide
    <2> QED BY <1>0, <1>1, <2>1, AdminStep DEF AutoDecide, clientVars
<1>2. CASE AutoApply
    <2>1. /\ UNCHANGED <<queue, pc, held, waiter, inbox, draining, drain, paused>>
          /\ change' \in Int /\ auto' \in Int /\ auto # 0
        BY <1>0, <1>2 DEF AutoApply, clientVars
    <2>2. CASE auto > 0
        <3>1. auto \in Nat /\ SpawnWorkers(auto)
            BY <1>0, <1>2, <2>2 DEF AutoApply
        <3> QED BY <2>1, <3>1, GrowStep
    <2>3. CASE ~(auto > 0)
        <3>1. -auto \in Nat /\ PopWorkers(-auto)
            BY <1>0, <1>2, <2>3 DEF AutoApply
        <3> QED BY <2>1, <3>1, RemoveStep
    <2> QED BY <2>2, <2>3
<1>3. CASE ScaleApply
    <2>1. /\ UNCHANGED <<queue, pc, held, waiter, inbox, draining, drain, paused>>
          /\ change' \in Int /\ auto' \in Int /\ change # 0
        BY <1>0, <1>3 DEF ScaleApply, clientVars
    <2>2. CASE change > 0
        <3>1. change \in Nat /\ SpawnWorkers(change)
            BY <1>0, <1>3, <2>2 DEF ScaleApply
        <3> QED BY <2>1, <3>1, GrowStep
    <2>3. CASE ~(change > 0)
        <3>1. -change \in Nat /\ RemoveWorkers(-change)
            BY <1>0, <1>3, <2>3 DEF ScaleApply
        <3> QED BY <2>1, <3>1, RemoveStep
    <2> QED BY <2>2, <2>3
<1>4. CASE Delete
    <2>1. change' \in Int /\ paused' \in BOOLEAN
        BY <1>4, Amounts DEF Delete
    <2> QED BY <1>0, <1>4, <2>1, AdminStep DEF Delete, clientVars
<1>5. ASSUME NEW n \in 0..WorkerIds, ScaleTo(n) PROVE PoolInv'
    <2>1. change' \in Int
        BY <1>5, Amounts DEF ScaleTo
    <2> QED BY <1>0, <1>5, <2>1, AdminStep DEF ScaleTo, clientVars
<1>6. ASSUME NEW b \in BOOLEAN, SetPaused(b) PROVE PoolInv'
    BY <1>0, <1>6, AdminStep DEF SetPaused, clientVars
<1> QED BY <1>1, <1>2, <1>3, <1>4, <1>5, <1>6 DEF ScaleNext

(***************************************************************************)
(* Every step of the pool.                                                 *)
(***************************************************************************)
LEMMA PoolStep == PoolInv /\ [PoolNext]_poolVars => PoolInv'
<1> SUFFICES ASSUME PoolInv, [PoolNext]_poolVars PROVE PoolInv'
    OBVIOUS
<1>0. /\ change \in Int /\ auto \in Int /\ draining \in BOOLEAN /\ paused \in BOOLEAN
      /\ drain \in {"idle", "waiting", "drained"}
    BY DEF PoolInv, PoolTypeOK
<1>1. ASSUME NEW c \in Clients, ClientNext(c) PROVE PoolInv'
    BY <1>1, ClientStep
<1>2. CASE DrainNext
    BY <1>0, <1>2, AdminStep DEF DrainNext, DrainStart, DrainDone, DrainTimeout, clientVars
<1>3. CASE ScaleNext
    BY <1>3, ScaleStep
<1>4. CASE UNCHANGED poolVars
    BY <1>0, <1>4, AdminStep DEF poolVars
<1> QED BY <1>1, <1>2, <1>3, <1>4 DEF PoolNext

(***************************************************************************)
(* Whatever the interleaving of checkouts, checkins, timeouts, scale_to,   *)
(* delete, the auto-scaler and drain (elastic_pool.rs), a worker is with   *)
(* one client or once in the deque, and a waiter that still waits has been *)
(* given nothing.                                                          *)
(***************************************************************************)
THEOREM PoolHolds == PoolSpec => []PoolInv
BY PoolStart, PoolStep, PTL DEF PoolSpec

(***************************************************************************)
(* The pool of a node keeps its invariant beside the journals and the      *)
(* applications that the node hosts.                                       *)
(***************************************************************************)
THEOREM HostedPoolHolds == HostingSpec => []PoolInv
<1>1. HostingInit => PoolInv
    BY PoolStart DEF HostingInit
<1>2. PoolInv /\ [HostingNext]_hostingVars => PoolInv'
    <2> SUFFICES ASSUME PoolInv, [HostingNext]_hostingVars PROVE PoolInv'
        OBVIOUS
    <2>1. PoolNext \/ UNCHANGED poolVars
        BY DEF HostingNext, Pooling, Journaling, Managing, hostingVars
    <2> QED BY <2>1, PoolStep
<1> QED BY <1>1, <1>2, PTL DEF HostingSpec


-----------------------------------------------------------------------------
(* Applications.                                                           *)

(***************************************************************************)
(* What the type invariant says, and what the steps of a call do to its    *)
(* record and to the state of an application.                              *)
(***************************************************************************)
LEMMA AppFacts ==
    ASSUME ApplicationsInv
    PROVE  /\ apps \in [AppNames -> Instances] /\ request \in [Operators -> Calls]
           /\ \A c \in Operators : /\ request[c] \in Calls /\ request[c].name \in AppNames
                                   /\ request[c].no \in 0..MaxRequests /\ request[c].begun \in BOOLEAN
           /\ \A n \in AppNames : apps[n] \in Instances /\ apps[n].id \in 0..MaxRequests
           /\ living \in [AppNames -> SUBSET (0..MaxRequests)] /\ listed \subseteq AppNames
           /\ requests \in 0..MaxRequests /\ requests \in Nat /\ MaxRequests \in Nat
           /\ \A c \in Operators : c # Unlocked /\ c # NodeItself
           /\ Unlocked # NodeItself
BY ApplicationsAssumption DEF ApplicationsInv, ApplicationsTypeOK, Calls, Instances

CallChanges(c) ==
    /\ request' \in [Operators -> Calls]
    /\ \A d \in Operators \ {c} : request'[d] = request[d]
    /\ request'[c].at # "idle" => request'[c].name = request[c].name /\ request'[c].no = request[c].no

LEMMA StepIs ==
    ASSUME ApplicationsInv, NEW c \in Operators, NEW l, Step(c, l),
           l \in {"row", "insert", "start", "starting", "stopping", "unregister", "unlist", "remove",
                  "cleanup", "namespace"}
    PROVE  CallChanges(c) /\ request'[c].at = l /\ request'[c].name = request[c].name
           /\ request'[c].begun = request[c].begun
<1>1. request' = [request EXCEPT ![c].at = l]
    BY DEF Step
<1>2. request'[c] = [request[c] EXCEPT !.at = l] /\ \A d \in Operators \ {c} : request'[d] = request[d]
    BY <1>1, AppFacts
<1>3. [request[c] EXCEPT !.at = l] \in Calls
    BY AppFacts DEF Calls
<1>4. request' \in [Operators -> Calls]
    BY <1>1, <1>2, <1>3, AppFacts
<1>5. request[c] \in Calls
    BY AppFacts
<1>6. /\ request'[c].at = l /\ request'[c].name = request[c].name /\ request'[c].no = request[c].no
      /\ request'[c].begun = request[c].begun
    BY <1>2, <1>5 DEF Calls
<1> QED BY <1>2, <1>4, <1>6 DEF CallChanges

LEMMA AnsweredIs ==
    ASSUME ApplicationsInv, NEW c \in Operators, Answered(c)
    PROVE  CallChanges(c) /\ request'[c].at = "idle"
<1>1. request' = [request EXCEPT ![c] = NoRequest]
    BY DEF Answered
<1>2. NoRequest \in Calls /\ NoRequest.at = "idle"
    <2>1. (CHOOSE n \in AppNames : TRUE) \in AppNames
        BY ApplicationsAssumption
    <2> QED BY <2>1, AppFacts DEF NoRequest, Calls
<1>3. request'[c] = NoRequest /\ \A d \in Operators \ {c} : request'[d] = request[d]
    BY <1>1, AppFacts
<1>4. request' \in [Operators -> Calls]
    BY <1>1, <1>2, AppFacts
<1> QED BY <1>2, <1>3, <1>4 DEF CallChanges

LEMMA BecomeIs ==
    ASSUME ApplicationsInv, NEW n \in AppNames, NEW s, Become(n, s),
           s \in {"starting", "running", "stopping", "stopped", "failed"}
    PROVE  /\ apps' \in [AppNames -> Instances] /\ apps'[n].state = s /\ apps'[n].id = apps[n].id
           /\ \A x \in AppNames \ {n} : apps'[x] = apps[x]
<1>1. apps' = [apps EXCEPT ![n].state = s]
    BY DEF Become
<1>2. apps'[n] = [apps[n] EXCEPT !.state = s] /\ \A x \in AppNames \ {n} : apps'[x] = apps[x]
    BY <1>1, AppFacts
<1>3. apps[n] \in Instances
    BY AppFacts
<1>4. [apps[n] EXCEPT !.state = s] \in Instances
    BY <1>3 DEF Instances
<1>5. apps' \in [AppNames -> Instances]
    BY <1>1, <1>2, <1>4, AppFacts
<1>6. apps'[n].state = s /\ apps'[n].id = apps[n].id
    BY <1>2, <1>3 DEF Instances
<1> QED BY <1>2, <1>5, <1>6

(***************************************************************************)
(* A step of a call changes the map, the rows and the actors of its own    *)
(* name only, so that it is enough to look at that name.                   *)
(***************************************************************************)
LEMMA CallMoves ==
    ASSUME ApplicationsInv, NEW c \in Operators, request[c].at # "idle", NEW n \in AppNames,
           n = request[c].name, CallChanges(c), crossed' \in {crossed, crossed \cup {n}},
           \A x \in AppNames \ {n} : /\ apps'[x] = apps[x] /\ living'[x] = living[x]
                                     /\ x \in listed' <=> x \in listed,
           n \notin crossed' => IF request'[c].at = "idle" THEN Agreed(n)' ELSE CallUnderWay(request[c])'
    PROVE  NamesAgree' /\ CallsAgree'
<1>0. /\ \A d \in Operators \ {c} : request'[d] = request[d]
      /\ request'[c].at # "idle" => request'[c].name = n
    BY DEF CallChanges
<1>1. \A x \in AppNames \ {n} : /\ x \in Registered' <=> x \in Registered
                                /\ x \in RunningApps' <=> x \in RunningApps
    BY DEF Registered, RunningApps
<1>2. \A x \in AppNames \ {n} : Agreed(x) => Agreed(x)'
    BY <1>1 DEF Agreed
<1>3. ASSUME n \notin crossed, NEW d \in Operators \ {c} PROVE request[d].at = "idle" \/ request[d].name # n
    BY <1>3 DEF ApplicationsInv, CallsAgree
<1>4. NamesAgree'
    <2> SUFFICES ASSUME NEW x \in AppNames \ crossed',
                        \A d \in Operators : request'[d].at = "idle" \/ request'[d].name # x
                 PROVE  Agreed(x)'
        BY DEF NamesAgree
    <2>1. CASE x = n
        BY <1>0, <2>1
    <2>2. CASE x # n
        <3>1. \A d \in Operators : request[d].at = "idle" \/ request[d].name # x
            BY <1>0, <2>2
        <3>2. Agreed(x)
            BY <3>1 DEF ApplicationsInv, NamesAgree
        <3> QED BY <1>2, <2>2, <3>2
    <2> QED BY <2>1, <2>2
<1>5. CallsAgree'
    <2> SUFFICES ASSUME NEW d \in Operators, request'[d].at # "idle", request'[d].name \notin crossed'
                 PROVE  /\ CallUnderWay(request[d])'
                        /\ \A e \in Operators \ {d} : request'[e].at = "idle" \/ request'[e].name # request'[d].name
        BY DEF CallsAgree
    <2>1. CASE d = c
        <3>1. CallUnderWay(request[c])'
            BY <1>0, <2>1
        <3> QED BY <1>0, <1>3, <2>1, <3>1
    <2>2. CASE d # c
        <3>1. /\ request'[d] = request[d] /\ CallUnderWay(request[d])
              /\ \A e \in Operators \ {d} : request[e].at = "idle" \/ request[e].name # request[d].name
            BY <1>0, <2>2 DEF ApplicationsInv, CallsAgree
        <3>2. request[d].name # n /\ request[d].name \in AppNames
            BY <3>1, <2>2, AppFacts
        <3>3. CallUnderWay(request[d])'
            <4> DEFINE x == request[d].name
            <4>1. x \in AppNames \ {n}
                BY <3>2
            <4>2. Agreed(x) => Agreed(x)'
                BY <1>2, <3>1, <4>1 DEF Agreed, Registered, RunningApps
            <4>3. /\ apps'[x] = apps[x] /\ living'[x] = living[x] /\ (x \in listed' <=> x \in listed)
                  /\ (x \in Registered' <=> x \in Registered) /\ (x \in RunningApps' <=> x \in RunningApps)
                BY <1>1, <4>1
            <4> QED BY <3>1, <4>2, <4>3 DEF CallUnderWay, Removable
        <3>4. \A e \in Operators \ {d} : request'[e].at = "idle" \/ request'[e].name # request[d].name
            BY <1>0, <3>1, <3>2
        <3> QED BY <3>1, <3>3, <3>4
    <2> QED BY <2>1, <2>2
<1> QED BY <1>4, <1>5

(***************************************************************************)
(* No instance gets a number that another has, or that the shutdown found. *)
(***************************************************************************)
LEMMA NumbersStay ==
    ASSUME ApplicationsInv, NEW c \in Operators, request[c].at # "idle", CallChanges(c),
           requests' = requests, halt'.first = halt.first,
           request'[c].at \in Unborn => request[c].at \in Unborn,
           \A n \in AppNames : apps'[n].id = apps[n].id \/ apps'[n].id = 0
    PROVE  NumbersFresh'
<1>0. /\ \A d \in Operators \ {c} : request'[d] = request[d]
      /\ request'[c].at # "idle" => request'[c].no = request[c].no
    BY DEF CallChanges
<1>1. NumbersFresh
    BY DEF ApplicationsInv
<1>2. \A n \in AppNames : apps'[n].id <= requests
    BY <1>1, AppFacts DEF NumbersFresh
<1>3. \A d \in Operators : request'[d].at # "idle" => request'[d].no \in 1..requests /\ request'[d].no = request[d].no
    BY <1>0, <1>1 DEF NumbersFresh
<1>4. \A d \in Operators : request'[d].at \in Unborn =>
        request[d].at \in Unborn /\ request'[d].no = request[d].no /\ request'[d].no # 0
    BY <1>0, <1>3, AppFacts DEF Unborn
<1>5. \A d, e \in Operators : d # e /\ request'[d].at \in Unborn /\ request'[e].at \in Unborn
        => request'[d].no # request'[e].no
    BY <1>1, <1>4 DEF NumbersFresh
<1>6. \A d \in Operators : request'[d].at \in Unborn =>
        /\ \A n \in AppNames : apps'[n].id # request'[d].no
        /\ \A f \in halt.first : f[2] # request'[d].no
    BY <1>1, <1>4 DEF NumbersFresh
<1>7. \A f \in halt.first : f[2] <= requests
    BY <1>1 DEF NumbersFresh
<1> QED BY <1>2, <1>3, <1>5, <1>6, <1>7 DEF NumbersFresh, Unborn

(***************************************************************************)
(* A call never makes an instance that the shutdown found running run      *)
(* again.                                                                  *)
(***************************************************************************)
LEMMA ShutdownStays ==
    ASSUME ApplicationsInv, halt' = halt,
           \A n \in AppNames : \/ apps'[n] = apps[n]
                               \/ apps'[n].state \notin {"created", "starting", "running"}
                               \/ <<n, apps'[n].id>> \notin halt.first
    PROVE  ShutdownReaches' /\ ShutdownStops'
<1>1. ShutdownReaches /\ ShutdownStops
    BY DEF ApplicationsInv
<1>2. \A n \in AppNames : (ToStop(n))' => ToStop(n)
    BY DEF ToStop, RunningApps
<1>3. \A n \in AppNames : <<n, apps'[n].id>> \in halt.first => apps'[n].state \notin {"created", "starting"}
    BY <1>1 DEF ShutdownReaches
<1>4. \A n \in halt.stopped : n \in AppNames
    BY DEF ApplicationsInv, ApplicationsTypeOK
<1>5. ShutdownReaches'
    BY <1>1, <1>2, <1>3, <1>4 DEF ShutdownReaches
<1>6. ShutdownStops'
    <2> SUFFICES ASSUME halt.at = "done", NEW n \in RunningApps' PROVE <<n, apps'[n].id>> \notin halt.first
        BY DEF ShutdownStops
    <2>1. n \in AppNames
        BY DEF RunningApps
    <2>2. ~ToStop(n)
        BY <1>1 DEF ShutdownStops, ToStop
    <2> QED BY <1>2, <2>1, <2>2 DEF ToStop
<1> QED BY <1>5, <1>6

(***************************************************************************)
(* A step of a call that neither has the lock nor takes it.                *)
(***************************************************************************)
LEMMA QuietCall ==
    ASSUME ApplicationsInv, NEW c \in Operators, CallChanges(c),
           request[c].at \notin {"idle", "starting", "stopping"},
           request'[c].at \notin {"starting", "stopping"},
           request'[c].at \in Unborn => request[c].at \in Unborn,
           listed' \subseteq AppNames, living' \in [AppNames -> SUBSET (0..MaxRequests)],
           UNCHANGED <<release, apps, locked, requests, gone, crossed, halt>>,
           NamesAgree', CallsAgree'
    PROVE  ApplicationsInv'
<1>0. /\ \A d \in Operators \ {c} : request'[d] = request[d]
      /\ request' \in [Operators -> Calls]
    BY DEF CallChanges
<1>1. ApplicationsTypeOK'
    BY <1>0 DEF ApplicationsInv, ApplicationsTypeOK
<1>2. locked # c
    BY DEF ApplicationsInv, LockHeld
<1>3. BetweenUnderLock'
    BY <1>0, <1>2 DEF ApplicationsInv, BetweenUnderLock
<1>4. LockHeld'
    BY <1>0, <1>2 DEF ApplicationsInv, LockHeld
<1>5. NumbersFresh'
    BY NumbersStay
<1>6. ShutdownReaches' /\ ShutdownStops'
    BY ShutdownStays
<1> QED BY <1>1, <1>3, <1>4, <1>5, <1>6 DEF ApplicationsInv

(***************************************************************************)
(* A call that is the only one for its name knows how far it is.           *)
(***************************************************************************)
LEMMA Alone ==
    ASSUME ApplicationsInv, NEW c \in Operators, request[c].at # "idle", request[c].name \notin crossed
    PROVE  CallUnderWay(request[c])
BY DEF ApplicationsInv, CallsAgree

LEMMA QuietStep ==
    ASSUME ApplicationsInv, NEW c \in Operators, NEW n \in AppNames, n = request[c].name, CallChanges(c),
           request[c].at \notin {"idle", "starting", "stopping"},
           request'[c].at \notin {"starting", "stopping"},
           request'[c].at \in Unborn => request[c].at \in Unborn,
           listed' \in {listed, listed \cup {n}, listed \ {n}},
           living' \in {living, [living EXCEPT ![n] = {}]},
           UNCHANGED <<release, apps, locked, requests, gone, crossed, halt>>,
           n \notin crossed => IF request'[c].at = "idle" THEN Agreed(n)' ELSE CallUnderWay(request[c])'
    PROVE  ApplicationsInv'
<1>1. /\ listed' \subseteq AppNames /\ living' \in [AppNames -> SUBSET (0..MaxRequests)]
      /\ \A x \in AppNames \ {n} : living'[x] = living[x] /\ (x \in listed' <=> x \in listed)
    BY AppFacts
<1>2. NamesAgree' /\ CallsAgree'
    BY <1>1, CallMoves
<1> QED BY <1>1, <1>2, QuietCall

(***************************************************************************)
(* register(): the check and the row.                                      *)
(***************************************************************************)
LEMMA RegisterKeeps ==
    ASSUME ApplicationsInv, NEW c \in Operators, RegisterCheck(c) \/ RegisterRow(c)
    PROVE  ApplicationsInv'
<1>0. PICK n \in AppNames : n = request[c].name
    BY AppFacts
<1>1. CASE RegisterCheck(c)
    <2>1. /\ request[c].at = "check" /\ UNCHANGED <<release, apps, listed, living, locked, requests, gone, crossed, halt>>
          /\ IF n \in Registered THEN Answered(c) ELSE Step(c, "row")
        BY <1>0, <1>1 DEF RegisterCheck
    <2>2. CallChanges(c) /\ IF n \in Registered THEN request'[c].at = "idle"
                            ELSE request'[c].at = "row" /\ request'[c].name = n
        BY <1>0, <2>1, StepIs, AnsweredIs
    <2>3. n \notin crossed => Agreed(n)
        BY <1>0, <2>1, Alone DEF CallUnderWay
    <2>4. (Agreed(n) => Agreed(n)') /\ Registered' = Registered
        BY <2>1 DEF Agreed, Registered, RunningApps
    <2>5. n \notin crossed => IF request'[c].at = "idle" THEN Agreed(n)' ELSE CallUnderWay(request[c])'
        BY <2>2, <2>3, <2>4 DEF CallUnderWay
    <2> QED BY <1>0, <2>1, <2>2, <2>5, QuietStep DEF Unborn
<1>2. CASE RegisterRow(c)
    <2>1. /\ request[c].at = "row" /\ UNCHANGED <<release, apps, living, locked, requests, gone, crossed, halt>>
          /\ \/ listed' = listed \cup {n} /\ Step(c, "insert")
             \/ Answered(c) /\ UNCHANGED listed
        BY <1>0, <1>2 DEF RegisterRow
    <2>2. CallChanges(c) /\ \/ listed' = listed \cup {n} /\ request'[c].at = "insert" /\ request'[c].name = n
                            \/ request'[c].at = "idle" /\ UNCHANGED listed
        BY <1>0, <2>1, StepIs, AnsweredIs
    <2>3. n \notin crossed => Agreed(n) /\ n \notin Registered
        BY <1>0, <2>1, Alone DEF CallUnderWay
    <2>4. Registered' = Registered /\ RunningApps' = RunningApps
        BY <2>1 DEF Registered, RunningApps
    <2>5. n \notin crossed => IF request'[c].at = "idle" THEN Agreed(n)' ELSE CallUnderWay(request[c])'
        BY <2>1, <2>2, <2>3, <2>4 DEF CallUnderWay, Agreed
    <2> QED BY <1>0, <2>1, <2>2, <2>5, QuietStep DEF Unborn
<1> QED BY <1>1, <1>2

(***************************************************************************)
(* register(): the entry, with a number that nobody has.                   *)
(***************************************************************************)
LEMMA InsertKeeps ==
    ASSUME ApplicationsInv, NEW c \in Operators, RegisterInsert(c)
    PROVE  ApplicationsInv'
<1>0. PICK n \in AppNames : n = request[c].name
    BY AppFacts
<1>1. /\ request[c].at = "insert" /\ locked = Unlocked
      /\ UNCHANGED <<release, listed, living, locked, requests, gone, crossed, halt>>
    BY DEF RegisterInsert
<1>2. n \notin crossed => n \notin Registered /\ n \in listed /\ living[n] = {}
    BY <1>0, <1>1, Alone DEF CallUnderWay
<1>3. CASE n \in Registered
    <2>1. Answered(c) /\ UNCHANGED apps
        BY <1>0, <1>3 DEF RegisterInsert
    <2>2. CallChanges(c) /\ request'[c].at = "idle"
        BY <2>1, AnsweredIs
    <2> QED BY <1>0, <1>1, <1>2, <1>3, <2>1, <2>2, QuietStep DEF Unborn
<1>4. CASE n \notin Registered
    <2> DEFINE i == request[c].no
    <2>1. apps' = [apps EXCEPT ![n] = [state |-> "created", id |-> i]] /\ Step(c, "start")
        BY <1>0, <1>4 DEF RegisterInsert
    <2>2. CallChanges(c) /\ request'[c].at = "start" /\ request'[c].name = n /\ request'[c].no = i
        BY <1>0, <2>1, StepIs DEF CallChanges
    <2>3. i \in 0..MaxRequests /\ i \in 1..requests
        BY <1>1, AppFacts DEF ApplicationsInv, NumbersFresh
    <2> HIDE DEF i
    <2>4. /\ apps' \in [AppNames -> Instances] /\ apps'[n].state = "created" /\ apps'[n].id = i
          /\ \A x \in AppNames \ {n} : apps'[x] = apps[x]
        <3>1. [state |-> "created", id |-> i] \in Instances
            BY <2>3 DEF Instances
        <3> QED BY <2>1, <3>1, AppFacts
    <2>5. ApplicationsTypeOK'
        BY <1>1, <2>2, <2>4 DEF ApplicationsInv, ApplicationsTypeOK, CallChanges
    <2>6. NamesAgree' /\ CallsAgree'
        <3>1. n \in Registered' /\ n \notin RunningApps'
            BY <2>4 DEF Registered, RunningApps
        <3>2. n \notin crossed => CallUnderWay(request[c])'
            BY <1>1, <1>2, <2>2, <2>4, <3>1 DEF CallUnderWay, Agreed
        <3> QED BY <1>0, <1>1, <2>2, <2>4, <3>2, CallMoves
    <2>7. /\ \A d \in Operators \ {c} : request'[d] = request[d]
          /\ \A d \in Operators : locked # d
        BY <1>1, <2>2, AppFacts DEF CallChanges
    <2>8. BetweenUnderLock'
        BY <1>1, <2>4, <2>7, AppFacts DEF ApplicationsInv, BetweenUnderLock
    <2>9. LockHeld'
        <3>1. \A d \in Operators : request'[d].at \notin {"starting", "stopping"}
            BY <2>2, <2>7 DEF ApplicationsInv, LockHeld
        <3> QED BY <1>1, <2>7, <3>1, AppFacts DEF LockHeld
    <2>10. NumbersFresh'
        <3>1. NumbersFresh
            BY DEF ApplicationsInv
        <3>2. \A d \in Operators \ {c} : request[d].at \in Unborn => request[d].no # i
            BY <1>1, <3>1 DEF NumbersFresh, Unborn, i
        <3>3. \A d \in Operators : request'[d].at \in Unborn => d # c /\ request[d].at \in Unborn /\ request'[d] = request[d]
            BY <2>2, <2>7 DEF Unborn
        <3>4. \A x \in AppNames : apps'[x].id <= requests
            BY <2>3, <2>4, <3>1, AppFacts DEF NumbersFresh
        <3>5. \A d \in Operators : request'[d].at \in Unborn => \A x \in AppNames : apps'[x].id # request'[d].no
            BY <2>4, <3>1, <3>2, <3>3 DEF NumbersFresh
        <3>6. \A d \in Operators : request'[d].at # "idle" => request'[d].no \in 1..requests
            BY <2>2, <2>3, <2>7, <3>1 DEF NumbersFresh
        <3>7. \A d, e \in Operators : d # e /\ request'[d].at \in Unborn /\ request'[e].at \in Unborn
                => request'[d].no # request'[e].no
            BY <3>1, <3>3 DEF NumbersFresh
        <3>8. \A d \in Operators : request'[d].at \in Unborn => \A f \in halt.first : f[2] # request'[d].no
            BY <3>1, <3>3 DEF NumbersFresh
        <3> QED BY <1>1, <3>1, <3>4, <3>5, <3>6, <3>7, <3>8 DEF NumbersFresh, Unborn
    <2>11. <<n, i>> \notin halt.first
        <3>1. \A f \in halt.first : f[2] # i
            BY <1>1 DEF ApplicationsInv, NumbersFresh, Unborn, i
        <3>2. <<n, i>>[2] = i
            OBVIOUS
        <3> QED BY <3>1, <3>2
    <2>12. ShutdownReaches' /\ ShutdownStops'
        BY <1>1, <2>4, <2>11, ShutdownStays
    <2> QED BY <2>5, <2>6, <2>8, <2>9, <2>10, <2>12 DEF ApplicationsInv
<1> QED BY <1>3, <1>4

(***************************************************************************)
(* start() and stop() take the lock, and an application changes only under *)
(* it.                                                                     *)
(***************************************************************************)
LEMMA TakesLock ==
    ASSUME ApplicationsInv, NEW c \in Operators, NEW n \in AppNames, n = request[c].name,
           NEW l \in {"starting", "stopping"}, locked = Unlocked, locked' = c, Become(n, l), Step(c, l),
           request[c].at \in {"start", "stop"}, l = "starting" => apps[n].state = "created",
           UNCHANGED <<release, listed, living, requests, gone, crossed, halt>>,
           n \notin crossed => CallUnderWay(request[c])'
    PROVE  ApplicationsInv'
<1>1. /\ apps' \in [AppNames -> Instances] /\ apps'[n].state = l /\ apps'[n].id = apps[n].id
      /\ \A x \in AppNames \ {n} : apps'[x] = apps[x]
    BY BecomeIs
<1>2. CallChanges(c) /\ request'[c].at = l /\ request'[c].name = n
    BY StepIs
<1>3. /\ \A d \in Operators \ {c} : request'[d] = request[d]
      /\ request' \in [Operators -> Calls]
    BY <1>2 DEF CallChanges
<1>4. ApplicationsTypeOK'
    BY <1>1, <1>3 DEF ApplicationsInv, ApplicationsTypeOK
<1>5. NamesAgree' /\ CallsAgree'
    BY <1>1, <1>2, CallMoves
<1>6. BetweenUnderLock'
    <2> SUFFICES ASSUME NEW x \in AppNames, apps'[x].state \in {"starting", "stopping"}, x # n PROVE x \in crossed
        BY <1>2 DEF BetweenUnderLock
    <2>1. apps[x].state \in {"starting", "stopping"}
        BY <1>1
    <2> QED BY <2>1, AppFacts DEF ApplicationsInv, BetweenUnderLock
<1>7. LockHeld'
    <2>1. \A d \in Operators \ {c} : request'[d].at \notin {"starting", "stopping"}
        BY <1>3, AppFacts DEF ApplicationsInv, LockHeld
    <2> QED BY <1>1, <1>2, <2>1, AppFacts DEF LockHeld
<1>8. NumbersFresh'
    <2>1. \A x \in AppNames : apps'[x].id = apps[x].id
        BY <1>1
    <2> QED BY <1>2, <2>1, NumbersStay DEF Unborn
<1>9. ShutdownReaches' /\ ShutdownStops'
    <2>1. l = "starting" => <<n, apps'[n].id>> \notin halt.first
        BY <1>1 DEF ApplicationsInv, ShutdownReaches
    <2> QED BY <1>1, <2>1, ShutdownStays
<1> QED BY <1>4, <1>5, <1>6, <1>7, <1>8, <1>9 DEF ApplicationsInv

LEMMA ReturnsLock ==
    ASSUME ApplicationsInv, NEW c \in Operators, NEW n \in AppNames, n = request[c].name,
           request[c].at \in {"starting", "stopping"}, NEW s \in {"running", "stopped", "failed"}, Become(n, s),
           s = "running" => request[c].at = "starting",
           locked' = Unlocked, CallChanges(c), request'[c].at \in {"idle", "unregister"},
           living' \in [AppNames -> SUBSET (0..MaxRequests)], \A x \in AppNames \ {n} : living'[x] = living[x],
           UNCHANGED <<release, listed, requests, gone, crossed, halt>>,
           n \notin crossed => Agreed(n)'
    PROVE  ApplicationsInv'
<1>1. /\ apps' \in [AppNames -> Instances] /\ apps'[n].state = s /\ apps'[n].id = apps[n].id
      /\ \A x \in AppNames \ {n} : apps'[x] = apps[x]
    BY BecomeIs
<1>2. locked = c /\ apps[n].state = request[c].at
    BY DEF ApplicationsInv, LockHeld
<1>3. /\ \A d \in Operators \ {c} : request'[d] = request[d]
      /\ request' \in [Operators -> Calls]
      /\ request'[c].at # "idle" => request'[c].name = n
    BY DEF CallChanges
<1>4. ApplicationsTypeOK'
    BY <1>1, <1>3 DEF ApplicationsInv, ApplicationsTypeOK
<1>5. NamesAgree' /\ CallsAgree'
    <2>1. n \notin crossed /\ request'[c].at # "idle" => CallUnderWay(request[c])'
        BY <1>3 DEF CallUnderWay
    <2> QED BY <1>1, <2>1, CallMoves
<1>6. BetweenUnderLock'
    <2> SUFFICES ASSUME NEW x \in AppNames, apps'[x].state \in {"starting", "stopping"} PROVE x \in crossed
        BY DEF BetweenUnderLock
    <2>1. x # n /\ apps[x].state \in {"starting", "stopping"}
        BY <1>1
    <2> QED BY <1>2, <2>1, AppFacts DEF ApplicationsInv, BetweenUnderLock
<1>7. LockHeld'
    <2>1. \A d \in Operators : request'[d].at \notin {"starting", "stopping"}
        BY <1>2, <1>3 DEF ApplicationsInv, LockHeld
    <2> QED BY <2>1, AppFacts DEF LockHeld
<1>8. NumbersFresh'
    <2>1. \A x \in AppNames : apps'[x].id = apps[x].id
        BY <1>1
    <2> QED BY <2>1, NumbersStay DEF Unborn
<1>9. ShutdownReaches' /\ ShutdownStops'
    <2>1. s = "running" => <<n, apps'[n].id>> \notin halt.first
        BY <1>1, <1>2 DEF ApplicationsInv, ShutdownReaches
    <2> QED BY <1>1, <2>1, ShutdownStays
<1> QED BY <1>4, <1>5, <1>6, <1>7, <1>8, <1>9 DEF ApplicationsInv

LEMMA StartKeeps ==
    ASSUME ApplicationsInv, NEW c \in Operators,
           StartBegin(c) \/ \E ok, left \in BOOLEAN : StartEnds(c, ok, left)
    PROVE  ApplicationsInv'
<1>0. PICK n \in AppNames : n = request[c].name
    BY AppFacts
<1>1. CASE StartBegin(c)
    <2>1. request[c].at = "start" /\ locked = Unlocked /\ UNCHANGED <<release, listed, living, requests, gone, crossed, halt>>
        BY <1>1 DEF StartBegin
    <2>2. n \notin crossed => Agreed(n) /\ living[n] = {} /\ apps[n].state \in {"created", "starting"}
        BY <1>0, <2>1, Alone DEF CallUnderWay
    <2>3. CASE apps[n].state # "created"
        <3>1. Answered(c) /\ UNCHANGED <<apps, locked>>
            BY <1>0, <1>1, <2>3 DEF StartBegin
        <3>2. CallChanges(c) /\ request'[c].at = "idle"
            BY <3>1, AnsweredIs
        <3>3. n \notin crossed => Agreed(n)'
            BY <2>1, <2>2, <3>1 DEF Agreed, Registered, RunningApps
        <3> QED BY <1>0, <2>1, <3>1, <3>2, <3>3, QuietStep DEF Unborn
    <2>4. CASE apps[n].state = "created"
        <3>1. Become(n, "starting") /\ locked' = c /\ Step(c, "starting")
            BY <1>0, <1>1, <2>4 DEF StartBegin
        <3>2. apps'[n].state = "starting" /\ apps'[n].id = apps[n].id
            BY <3>1, BecomeIs
        <3>3. request'[c].at = "starting" /\ request'[c].name = n
            BY <1>0, <3>1, StepIs
        <3>4. n \in Registered /\ n \in Registered' /\ n \notin RunningApps'
            BY <2>4, <3>2 DEF Registered, RunningApps
        <3>5. n \notin crossed => CallUnderWay(request[c])'
            BY <2>1, <2>2, <3>2, <3>3, <3>4 DEF CallUnderWay, Agreed
        <3> QED BY <1>0, <2>1, <2>4, <3>1, <3>5, TakesLock
    <2> QED BY <2>3, <2>4
<1>2. ASSUME NEW ok \in BOOLEAN, NEW left \in BOOLEAN, StartEnds(c, ok, left) PROVE ApplicationsInv'
    <2> DEFINE s == IF ok THEN "running" ELSE "failed"
    <2>1. /\ request[c].at = "starting" /\ (ok => left) /\ Become(n, s) /\ locked' = Unlocked /\ Answered(c)
          /\ living' = IF left THEN [living EXCEPT ![n] = @ \cup {apps[n].id}] ELSE living
          /\ UNCHANGED <<release, listed, requests, gone, crossed, halt>>
        BY <1>0, <1>2 DEF StartEnds
    <2>2. s \in {"running", "stopped", "failed"}
        OBVIOUS
    <2>3. apps'[n].state = s /\ apps'[n].id = apps[n].id
        BY <2>1, <2>2, BecomeIs
    <2>4. /\ living' \in [AppNames -> SUBSET (0..MaxRequests)] /\ \A x \in AppNames \ {n} : living'[x] = living[x]
          /\ living'[n] = IF left THEN living[n] \cup {apps[n].id} ELSE living[n]
        BY <2>1, AppFacts
    <2>5. n \notin crossed => Agreed(n) /\ living[n] = {} /\ apps[n].state \in {"created", "starting"}
        BY <1>0, <2>1, Alone DEF CallUnderWay
    <2>6. n \notin crossed => Agreed(n)'
        BY <2>1, <2>3, <2>4, <2>5 DEF Agreed, Registered, RunningApps
    <2>7. CallChanges(c) /\ request'[c].at = "idle"
        BY <2>1, AnsweredIs
    <2> QED BY <1>0, <2>1, <2>2, <2>4, <2>6, <2>7, ReturnsLock
<1> QED BY <1>1, <1>2

LEMMA StopKeeps ==
    ASSUME ApplicationsInv, NEW c \in Operators,
           StopBegin(c) \/ \E ok, left \in BOOLEAN : StopEnds(c, ok, left)
    PROVE  ApplicationsInv'
<1>0. PICK n \in AppNames : n = request[c].name
    BY AppFacts
<1>1. CASE StopBegin(c)
    <2>1. request[c].at = "stop" /\ locked = Unlocked /\ UNCHANGED <<release, listed, living, requests, gone, crossed, halt>>
        BY <1>1 DEF StopBegin
    <2>2. n \notin crossed => Agreed(n)
        BY <1>0, <2>1, Alone DEF CallUnderWay
    <2>3. RunningApps \subseteq Registered
        BY DEF RunningApps, Registered
    <2>4. CASE n \notin RunningApps
        <3>1. UNCHANGED <<apps, locked>> /\ IF n \in Registered THEN Step(c, "unregister") ELSE Step(c, "namespace")
            BY <1>0, <1>1, <2>3, <2>4 DEF StopBegin
        <3>2. CallChanges(c) /\ request'[c].name = n
              /\ request'[c].at = IF n \in Registered THEN "unregister" ELSE "namespace"
            BY <1>0, <3>1, StepIs
        <3>3. (Agreed(n) => Agreed(n)') /\ Registered' = Registered
            BY <2>1, <3>1 DEF Agreed, Registered, RunningApps
        <3>4. n \notin crossed => CallUnderWay(request[c])'
            BY <2>2, <3>2, <3>3 DEF CallUnderWay
        <3> QED BY <1>0, <2>1, <3>1, <3>2, <3>4, QuietStep DEF Unborn
    <2>5. CASE n \in RunningApps
        <3>1. Become(n, "stopping") /\ locked' = c /\ Step(c, "stopping")
            BY <1>0, <1>1, <2>3, <2>5 DEF StopBegin
        <3>2. apps'[n].state = "stopping" /\ apps'[n].id = apps[n].id
            BY <3>1, BecomeIs
        <3>3. request'[c].at = "stopping" /\ request'[c].name = n
            BY <1>0, <3>1, StepIs
        <3>4. n \in Registered /\ n \in Registered' /\ n \notin RunningApps'
            BY <2>3, <2>5, <3>2 DEF Registered, RunningApps
        <3>5. n \notin crossed => CallUnderWay(request[c])'
            BY <2>1, <2>2, <3>2, <3>3, <3>4 DEF CallUnderWay, Agreed
        <3> QED BY <1>0, <2>1, <3>1, <3>5, TakesLock
    <2> QED BY <2>4, <2>5
<1>2. ASSUME NEW ok \in BOOLEAN, NEW left \in BOOLEAN, StopEnds(c, ok, left) PROVE ApplicationsInv'
    <2> DEFINE s == IF ok THEN "stopped" ELSE "failed"
    <2>1. /\ request[c].at = "stopping" /\ (ok => ~left) /\ Become(n, s) /\ locked' = Unlocked
          /\ living' = IF left THEN living ELSE [living EXCEPT ![n] = @ \ {apps[n].id}]
          /\ IF ok THEN Step(c, "unregister") ELSE Answered(c)
          /\ UNCHANGED <<release, listed, requests, gone, crossed, halt>>
        BY <1>0, <1>2 DEF StopEnds, Stopped
    <2>2. s \in {"running", "stopped", "failed"} /\ s # "running"
        OBVIOUS
    <2>3. apps'[n].state = s /\ apps'[n].id = apps[n].id
        BY <2>1, <2>2, BecomeIs
    <2>4. /\ living' \in [AppNames -> SUBSET (0..MaxRequests)] /\ \A x \in AppNames \ {n} : living'[x] = living[x]
          /\ living'[n] \subseteq living[n]
        BY <2>1, AppFacts
    <2>5. n \notin crossed => Agreed(n)
        BY <1>0, <2>1, Alone DEF CallUnderWay
    <2>6. apps[n].state = "stopping"
        BY <1>0, <2>1 DEF ApplicationsInv, LockHeld
    <2>7. n \notin crossed => Agreed(n)'
        BY <2>1, <2>3, <2>4, <2>5, <2>6 DEF Agreed, Registered, RunningApps
    <2>8. CallChanges(c) /\ request'[c].at \in {"idle", "unregister"}
        BY <2>1, AnsweredIs, StepIs
    <2> QED BY <1>0, <2>1, <2>2, <2>4, <2>7, <2>8, ReturnsLock
<1> QED BY <1>1, <1>2

(***************************************************************************)
(* unregister(): the check and the row; the namespace.                     *)
(***************************************************************************)
LEMMA UnregisterKeeps ==
    ASSUME ApplicationsInv, NEW c \in Operators,
           UnregisterRead(c) \/ UnregisterRow(c) \/ CleanupForUndeploy(c) \/ CleanupNamespace(c)
    PROVE  ApplicationsInv'
<1>0. PICK n \in AppNames : n = request[c].name
    BY AppFacts
<1>1. CASE UnregisterRead(c)
    <2>1. /\ request[c].at = "unregister"
          /\ UNCHANGED <<release, apps, listed, living, locked, requests, gone, crossed, halt>>
          /\ IF Removable(n) THEN Step(c, "unlist") ELSE Answered(c)
        BY <1>0, <1>1 DEF UnregisterRead
    <2>2. CallChanges(c) /\ IF Removable(n) THEN request'[c].at = "unlist" /\ request'[c].name = n
                            ELSE request'[c].at = "idle"
        BY <1>0, <2>1, StepIs, AnsweredIs
    <2>3. n \notin crossed => Agreed(n)
        BY <1>0, <2>1, Alone DEF CallUnderWay
    <2>4. (Agreed(n) => Agreed(n)') /\ (Removable(n) => Removable(n)')
        BY <2>1 DEF Agreed, Removable, Registered, RunningApps
    <2>5. n \notin crossed => IF request'[c].at = "idle" THEN Agreed(n)' ELSE CallUnderWay(request[c])'
        BY <2>2, <2>3, <2>4 DEF CallUnderWay
    <2> QED BY <1>0, <2>1, <2>2, <2>5, QuietStep DEF Unborn
<1>2. CASE UnregisterRow(c)
    <2>1. /\ request[c].at = "unlist" /\ UNCHANGED <<release, apps, living, locked, requests, gone, crossed, halt>>
          /\ \/ listed' = listed \ {n} /\ Step(c, "remove")
             \/ Answered(c) /\ UNCHANGED listed
        BY <1>0, <1>2 DEF UnregisterRow
    <2>2. CallChanges(c) /\ \/ listed' = listed \ {n} /\ request'[c].at = "remove" /\ request'[c].name = n
                            \/ request'[c].at = "idle" /\ UNCHANGED listed
        BY <1>0, <2>1, StepIs, AnsweredIs
    <2>3. n \notin crossed => Agreed(n) /\ Removable(n)
        BY <1>0, <2>1, Alone DEF CallUnderWay
    <2>4. Registered' = Registered /\ RunningApps' = RunningApps
        BY <2>1 DEF Registered, RunningApps
    <2>5. n \notin crossed => IF request'[c].at = "idle" THEN Agreed(n)' ELSE CallUnderWay(request[c])'
        BY <2>1, <2>2, <2>3, <2>4 DEF CallUnderWay, Agreed, Removable
    <2> QED BY <1>0, <2>1, <2>2, <2>5, QuietStep DEF Unborn
<1>3. CASE CleanupForUndeploy(c)
    <2>1. /\ request[c].at = "cleanup" /\ UNCHANGED <<release, apps, locked, requests, gone, crossed, halt>>
          /\ \/ ~request[c].begun /\ Answered(c) /\ UNCHANGED <<living, listed>>
             \/ living' = [living EXCEPT ![n] = {}] /\ listed' = listed \ {n} /\ Step(c, "namespace")
             \/ living' = [living EXCEPT ![n] = {}] /\ Answered(c) /\ UNCHANGED listed
        BY <1>0, <1>3 DEF CleanupForUndeploy
    <2>2. CallChanges(c) /\ \/ ~request[c].begun /\ request'[c].at = "idle" /\ UNCHANGED <<living, listed>>
                            \/ /\ living' = [living EXCEPT ![n] = {}] /\ listed' = listed \ {n}
                               /\ request'[c].at = "namespace" /\ request'[c].name = n
                            \/ living' = [living EXCEPT ![n] = {}] /\ request'[c].at = "idle" /\ UNCHANGED listed
        BY <1>0, <2>1, StepIs, AnsweredIs
    <2>3. n \notin crossed => n \notin Registered /\ n \notin listed /\ (~request[c].begun => living[n] = {})
        BY <1>0, <2>1, Alone DEF CallUnderWay
    <2>4. Registered' = Registered /\ RunningApps' = RunningApps /\ RunningApps \subseteq Registered
        BY <2>1 DEF Registered, RunningApps
    <2>5. n \notin crossed => living'[n] = {} /\ n \notin listed'
        BY <2>2, <2>3, AppFacts
    <2>6. n \notin crossed => Agreed(n)'
        BY <2>3, <2>4, <2>5 DEF Agreed
    <2>7. n \notin crossed => IF request'[c].at = "idle" THEN Agreed(n)' ELSE CallUnderWay(request[c])'
        BY <2>2, <2>3, <2>4, <2>6 DEF CallUnderWay
    <2> QED BY <1>0, <2>1, <2>2, <2>7, QuietStep DEF Unborn
<1>4. CASE CleanupNamespace(c)
    <2>1. /\ request[c].at = "namespace" /\ listed' \in {listed, listed \ {n}} /\ Answered(c)
          /\ UNCHANGED <<release, apps, living, locked, requests, gone, crossed, halt>>
        BY <1>0, <1>4 DEF CleanupNamespace
    <2>2. CallChanges(c) /\ request'[c].at = "idle"
        BY <2>1, AnsweredIs
    <2>3. n \notin crossed => Agreed(n) /\ n \notin Registered
        BY <1>0, <2>1, Alone DEF CallUnderWay
    <2>4. n \notin crossed => Agreed(n)'
        BY <2>1, <2>3 DEF Agreed, Registered, RunningApps
    <2> QED BY <1>0, <2>1, <2>2, <2>4, QuietStep DEF Unborn
<1> QED BY <1>1, <1>2, <1>3, <1>4

(***************************************************************************)
(* unregister(): the entry.                                                *)
(***************************************************************************)
LEMMA RemoveKeeps ==
    ASSUME ApplicationsInv, NEW c \in Operators, UnregisterRemove(c)
    PROVE  ApplicationsInv'
<1>0. PICK n \in AppNames : n = request[c].name
    BY AppFacts
<1>1. /\ request[c].at = "remove" /\ locked = Unlocked
      /\ UNCHANGED <<release, listed, living, locked, requests, gone, crossed, halt>>
    BY DEF UnregisterRemove
<1>2. n \notin crossed => /\ Removable(n) /\ n \notin listed /\ living[n] \subseteq {apps[n].id}
                          /\ (apps[n].state = "created" => living[n] = {})
    BY <1>0, <1>1, Alone DEF CallUnderWay
<1>3. CASE ~Removable(n)
    <2>1. Answered(c) /\ UNCHANGED apps
        BY <1>0, <1>3 DEF UnregisterRemove
    <2>2. CallChanges(c) /\ request'[c].at = "idle"
        BY <2>1, AnsweredIs
    <2> QED BY <1>0, <1>1, <1>2, <1>3, <2>1, <2>2, QuietStep DEF Unborn
<1>4. CASE Removable(n)
    <2>1. /\ apps' = [apps EXCEPT ![n] = NoApp]
          /\ request' = [request EXCEPT ![c].at = "cleanup", ![c].begun = apps[n].state # "created"]
        BY <1>0, <1>4 DEF UnregisterRemove
    <2>2. /\ apps' \in [AppNames -> Instances] /\ apps'[n] = NoApp /\ NoApp.state = "none" /\ NoApp.id = 0
          /\ \A x \in AppNames \ {n} : apps'[x] = apps[x]
        <3>1. NoApp \in Instances
            BY AppFacts DEF NoApp, Instances
        <3> QED BY <2>1, <3>1, AppFacts DEF NoApp
    <2>3. /\ CallChanges(c) /\ request'[c].at = "cleanup" /\ request'[c].name = n
          /\ ~request'[c].begun => apps[n].state = "created"
        <3> DEFINE b == apps[n].state # "created"
                   r == [[request[c] EXCEPT !.at = "cleanup"] EXCEPT !.begun = b]
        <3>1. request' = [request EXCEPT ![c] = r]
            BY <2>1, AppFacts
        <3>2. request[c] \in Calls /\ b \in BOOLEAN
            BY AppFacts
        <3> HIDE DEF b
        <3>3. r \in Calls /\ r.at = "cleanup" /\ r.name = request[c].name /\ r.no = request[c].no /\ r.begun = b
            BY <3>2 DEF Calls
        <3> HIDE DEF r
        <3>4. request' \in [Operators -> Calls] /\ request'[c] = r /\ \A d \in Operators \ {c} : request'[d] = request[d]
            BY <3>1, <3>3, AppFacts
        <3>5. ~b => apps[n].state = "created"
            BY DEF b
        <3> QED BY <1>0, <3>3, <3>4, <3>5 DEF CallChanges
    <2>4. /\ \A d \in Operators \ {c} : request'[d] = request[d]
          /\ request' \in [Operators -> Calls]
        BY <2>3 DEF CallChanges
    <2>5. ApplicationsTypeOK'
        BY <1>1, <2>2, <2>4 DEF ApplicationsInv, ApplicationsTypeOK
    <2>6. NamesAgree' /\ CallsAgree'
        <3>1. n \notin Registered'
            BY <2>2 DEF Registered
        <3>2. n \notin crossed => CallUnderWay(request[c])'
            BY <1>1, <1>2, <2>3, <3>1 DEF CallUnderWay
        <3> QED BY <1>0, <1>1, <2>2, <2>3, <3>2, CallMoves
    <2>7. BetweenUnderLock'
        <3>1. \A d \in Operators : locked # d
            BY <1>1, AppFacts
        <3> QED BY <1>1, <2>2, <3>1, AppFacts DEF ApplicationsInv, BetweenUnderLock
    <2>8. LockHeld'
        <3>1. \A d \in Operators : request'[d].at \notin {"starting", "stopping"}
            BY <1>1, <2>3, <2>4, AppFacts DEF ApplicationsInv, LockHeld
        <3> QED BY <1>1, <3>1, AppFacts DEF LockHeld
    <2>9. NumbersFresh'
        <3>1. \A x \in AppNames : apps'[x].id = apps[x].id \/ apps'[x].id = 0
            BY <2>2
        <3> QED BY <1>1, <2>3, <3>1, NumbersStay DEF Unborn
    <2>10. ShutdownReaches' /\ ShutdownStops'
        BY <1>1, <2>2, ShutdownStays
    <2> QED BY <2>5, <2>6, <2>7, <2>8, <2>9, <2>10 DEF ApplicationsInv
<1> QED BY <1>3, <1>4

(***************************************************************************)
(* A new deploy or undeploy.                                               *)
(***************************************************************************)
LEMMA OpenKeeps ==
    ASSUME ApplicationsInv, NEW c \in Operators, NEW n \in AppNames, Deploy(c, n) \/ Undeploy(c, n)
    PROVE  ApplicationsInv'
<1>0. PICK l \in {"check", "stop"} : Open(c, n, l)
    BY DEF Deploy, Undeploy
<1>1. /\ request[c].at = "idle" /\ requests < MaxRequests /\ requests' = requests + 1
      /\ request' = [request EXCEPT ![c].at = l, ![c].name = n, ![c].no = requests + 1]
      /\ crossed' = IF \E d \in Operators : request[d].at # "idle" /\ request[d].name = n
                    THEN crossed \cup {n} ELSE crossed
      /\ UNCHANGED <<release, apps, listed, living, locked, gone, halt>>
    BY <1>0 DEF Open
<1>a. /\ crossed' = (IF \E d \in Operators : request[d].at # "idle" /\ request[d].name = n
                     THEN crossed \cup {n} ELSE crossed)
      /\ UNCHANGED <<release, apps, listed, living, locked, gone, halt>>
    BY <1>1
<1>2. requests + 1 \in 0..MaxRequests /\ requests \in Nat
    BY <1>1, AppFacts
<1>3. /\ request' \in [Operators -> Calls] /\ \A d \in Operators \ {c} : request'[d] = request[d]
      /\ request'[c].at = l /\ request'[c].name = n /\ request'[c].no = requests + 1
    <2> DEFINE r == [[[request[c] EXCEPT !.at = l] EXCEPT !.name = n] EXCEPT !.no = requests + 1]
    <2>1. request' = [request EXCEPT ![c] = r]
        BY <1>1, AppFacts
    <2>2. request[c] \in Calls
        BY AppFacts
    <2>3. r \in Calls /\ r.at = l /\ r.name = n /\ r.no = requests + 1
        BY <1>2, <2>2 DEF Calls
    <2> HIDE DEF r
    <2> QED BY <2>1, <2>3, AppFacts
<1>4. ApplicationsTypeOK'
    BY <1>1, <1>2, <1>3 DEF ApplicationsInv, ApplicationsTypeOK
<1>5. BetweenUnderLock' /\ LockHeld'
    <2>1. locked # c
        BY <1>1 DEF ApplicationsInv, LockHeld
    <2>2. BetweenUnderLock'
        BY <1>1, <1>3, <2>1 DEF ApplicationsInv, BetweenUnderLock
    <2>3. LockHeld'
        BY <1>1, <1>3, <2>1 DEF ApplicationsInv, LockHeld
    <2> QED BY <2>2, <2>3
<1>6. Registered' = Registered /\ RunningApps' = RunningApps /\ \A x \in AppNames : Agreed(x) <=> Agreed(x)'
    BY <1>1 DEF Registered, RunningApps, Agreed
<1>7. NamesAgree'
    <2> SUFFICES ASSUME NEW x \in AppNames \ crossed',
                        \A d \in Operators : request'[d].at = "idle" \/ request'[d].name # x
                 PROVE  Agreed(x)
        BY <1>6 DEF NamesAgree
    <2>1. \A d \in Operators : request[d].at = "idle" \/ request[d].name # x
        BY <1>1, <1>3
    <2> QED BY <1>1, <2>1 DEF ApplicationsInv, NamesAgree
<1>8. CallsAgree'
    <2> SUFFICES ASSUME NEW d \in Operators, request'[d].at # "idle", request'[d].name \notin crossed'
                 PROVE  /\ CallUnderWay(request[d])'
                        /\ \A e \in Operators \ {d} : request'[e].at = "idle" \/ request'[e].name # request'[d].name
        BY DEF CallsAgree
    <2>1. CASE d = c
        <3>1. \A e \in Operators : request[e].at = "idle" \/ request[e].name # n
            BY <1>1, <1>3, <2>1
        <3>2. Agreed(n)
            BY <1>1, <1>3, <2>1, <3>1 DEF ApplicationsInv, NamesAgree
        <3> QED BY <1>3, <1>6, <2>1, <3>1, <3>2 DEF CallUnderWay
    <2>2. CASE d # c
        <3>1. request'[d] = request[d] /\ request[d].name \notin crossed /\ request[d].name \in AppNames
            BY <1>1, <1>3, <2>2, AppFacts
        <3>2. /\ CallUnderWay(request[d])
              /\ \A e \in Operators \ {d} : request[e].at = "idle" \/ request[e].name # request[d].name
            BY <3>1 DEF ApplicationsInv, CallsAgree
        <3>3. request[d].name # n
            BY <1>a, <3>1
        <3>4. CallUnderWay(request[d])'
            <4>1. PICK x \in AppNames : x = request[d].name
                BY <3>1
            <4> QED BY <1>a, <1>6, <3>1, <3>2, <4>1 DEF CallUnderWay, Removable
        <3> QED BY <1>3, <3>1, <3>2, <3>3, <3>4
    <2> QED BY <2>1, <2>2
<1>9. NumbersFresh'
    <2>1. NumbersFresh
        BY DEF ApplicationsInv
    <2>2. \A x \in AppNames : apps[x].id \in Nat /\ apps[x].id <= requests
        BY <2>1, AppFacts DEF NumbersFresh
    <2>3. \A f \in halt.first : f[2] \in Nat /\ f[2] <= requests
        BY <2>1, AppFacts DEF NumbersFresh, ApplicationsInv, ApplicationsTypeOK
    <2>4. \A d \in Operators : request[d].at # "idle" => request[d].no \in 1..requests
        BY <2>1 DEF NumbersFresh
    <2>5. \A d \in Operators : request'[d].at # "idle" => request'[d].no \in 1..(requests + 1)
        BY <1>2, <1>3, <2>4
    <2>6. \A d, e \in Operators : d # e /\ request'[d].at \in Unborn /\ request'[e].at \in Unborn
            => request'[d].no # request'[e].no
        <3>1. \A d \in Operators \ {c} : request[d].at \in Unborn => request[d].no # requests + 1
            BY <1>2, <2>4 DEF Unborn
        <3> QED BY <1>3, <2>1, <3>1 DEF NumbersFresh
    <2>7. \A d \in Operators : request'[d].at \in Unborn => /\ \A x \in AppNames : apps[x].id # request'[d].no
                                                            /\ \A f \in halt.first : f[2] # request'[d].no
        <3>1. \A x \in AppNames : apps[x].id # requests + 1
            BY <1>2, <2>2
        <3>2. \A f \in halt.first : f[2] # requests + 1
            BY <1>2, <2>3
        <3> QED BY <1>3, <2>1, <3>1, <3>2 DEF NumbersFresh
    <2>8. /\ \A x \in AppNames : apps[x].id <= requests + 1
          /\ \A f \in halt.first : f[2] <= requests + 1
        BY <1>2, <2>2, <2>3
    <2> QED BY <1>1, <2>5, <2>6, <2>7, <2>8 DEF NumbersFresh, Unborn
<1>10. ShutdownReaches' /\ ShutdownStops'
    BY <1>1, ShutdownStays
<1> QED BY <1>4, <1>5, <1>7, <1>8, <1>9, <1>10 DEF ApplicationsInv

(***************************************************************************)
(* The client of a call goes away.                                         *)
(***************************************************************************)
LEMMA GoAwayKeeps ==
    ASSUME ApplicationsInv, NEW c \in Operators, GoAway(c)
    PROVE  ApplicationsInv'
<1>0. PICK n \in AppNames : n = request[c].name
    BY AppFacts
<1>1. /\ request[c].at # "idle" /\ gone < MaxGone /\ gone' = gone + 1 /\ crossed' = crossed \cup {n}
      /\ locked' = (IF locked = c THEN Unlocked ELSE locked) /\ Answered(c)
      /\ UNCHANGED <<release, apps, listed, requests, halt>>
      /\ \/ UNCHANGED living
         \/ living' = [living EXCEPT ![n] = @ \cup {apps[n].id}]
         \/ living' = [living EXCEPT ![n] = @ \ {apps[n].id}]
    BY <1>0 DEF GoAway
<1>2. living' \in [AppNames -> SUBSET (0..MaxRequests)] /\ \A x \in AppNames \ {n} : living'[x] = living[x]
    BY <1>1, AppFacts
<1>3. CallChanges(c) /\ request'[c].at = "idle"
    BY <1>1, AnsweredIs
<1>4. /\ \A d \in Operators \ {c} : request'[d] = request[d]
      /\ request' \in [Operators -> Calls]
    BY <1>3 DEF CallChanges
<1>5. ApplicationsTypeOK'
    <2>1. gone' \in 0..MaxGone
        BY <1>1, ApplicationsAssumption DEF ApplicationsInv, ApplicationsTypeOK
    <2>2. locked' \in Operators \cup {NodeItself, Unlocked} /\ crossed' \subseteq AppNames
        BY <1>1 DEF ApplicationsInv, ApplicationsTypeOK
    <2> QED BY <1>1, <1>2, <1>4, <2>1, <2>2 DEF ApplicationsInv, ApplicationsTypeOK
<1>6. NamesAgree' /\ CallsAgree'
    BY <1>0, <1>1, <1>2, <1>3, CallMoves
<1>7. BetweenUnderLock'
    <2> SUFFICES ASSUME NEW x \in AppNames \ crossed', apps[x].state \in {"starting", "stopping"}
                 PROVE  \/ \E d \in Operators : locked' = d /\ request'[d].name = x
                        \/ locked' = NodeItself /\ halt.todo[1] = x
        BY <1>1 DEF BetweenUnderLock
    <2>1. x # n /\ x \notin crossed
        BY <1>1
    <2>2. \/ \E d \in Operators : locked = d /\ request[d].name = x
          \/ locked = NodeItself /\ halt.todo[1] = x
        BY <2>1 DEF ApplicationsInv, BetweenUnderLock
    <2> QED BY <1>0, <1>1, <1>4, <2>1, <2>2, AppFacts
<1>8. LockHeld'
    BY <1>1, <1>3, <1>4, AppFacts DEF ApplicationsInv, LockHeld
<1>9. NumbersFresh'
    BY <1>1, <1>3, NumbersStay DEF Unborn
<1>10. ShutdownReaches' /\ ShutdownStops'
    BY <1>1, ShutdownStays
<1> QED BY <1>5, <1>6, <1>7, <1>8, <1>9, <1>10 DEF ApplicationsInv

(***************************************************************************)
(* The shutdown stops applications behind the back of the calls, and takes *)
(* nothing away from what they count on.                                   *)
(***************************************************************************)
LEMMA HaltFrame ==
    ASSUME ApplicationsInv, UNCHANGED <<request, listed, crossed>>, NEW n \in AppNames,
           apps[n].state \in {"running", "stopping"}, apps'[n].state \in {"stopping", "stopped", "failed"},
           apps'[n].id = apps[n].id, living'[n] \subseteq living[n],
           \A x \in AppNames \ {n} : apps'[x] = apps[x] /\ living'[x] = living[x]
    PROVE  NamesAgree' /\ CallsAgree'
<1>1. /\ \A x \in AppNames : x \in Registered' <=> x \in Registered
      /\ \A x \in AppNames \ {n} : x \in RunningApps' <=> x \in RunningApps
      /\ n \notin RunningApps' /\ n \in Registered
    BY DEF Registered, RunningApps
<1>2. \A x \in AppNames : Agreed(x) => Agreed(x)'
    <2>1. Agreed(n) => Agreed(n)'
        BY <1>1 DEF Agreed
    <2>2. \A x \in AppNames \ {n} : Agreed(x) => Agreed(x)'
        BY <1>1 DEF Agreed
    <2> QED BY <2>1, <2>2
<1>3. NamesAgree'
    BY <1>2 DEF ApplicationsInv, NamesAgree
<1>4. CallsAgree'
    <2> SUFFICES ASSUME NEW d \in Operators, CallUnderWay(request[d]) PROVE CallUnderWay(request[d])'
        BY DEF ApplicationsInv, CallsAgree
    <2>1. PICK x \in AppNames : x = request[d].name
        BY AppFacts
    <2>2. CASE x = n
        BY <1>1, <1>2, <2>1, <2>2 DEF CallUnderWay, Removable
    <2>3. CASE x # n
        BY <1>1, <1>2, <2>1, <2>3 DEF CallUnderWay, Removable
    <2> QED BY <2>2, <2>3
<1> QED BY <1>3, <1>4

LEMMA TodoFacts ==
    ASSUME ApplicationsInv, halt.todo # <<>>
    PROVE  /\ Head(halt.todo) = halt.todo[1] /\ halt.todo[1] \in AppNames /\ Tail(halt.todo) \in Seq(AppNames)
           /\ \A i \in 1..Len(halt.todo) : i = 1 \/ \E j \in 1..Len(Tail(halt.todo)) : Tail(halt.todo)[j] = halt.todo[i]
<1>1. halt.todo \in Seq(AppNames) /\ Len(halt.todo) \in Nat /\ Len(halt.todo) # 0
    <2>1. halt.todo \in Seq(AppNames)
        BY DEF ApplicationsInv, ApplicationsTypeOK
    <2> QED BY <2>1, LenProperties, EmptySeq
<1>2. /\ Head(halt.todo) = halt.todo[1] /\ Tail(halt.todo) \in Seq(AppNames)
      /\ Len(Tail(halt.todo)) = Len(halt.todo) - 1
      /\ \A k \in 1..Len(Tail(halt.todo)) : Tail(halt.todo)[k] = halt.todo[k + 1]
    BY <1>1, HeadTailProperties
<1>3. halt.todo[1] \in AppNames
    <2>1. 1 \in 1..Len(halt.todo)
        BY <1>1
    <2> QED BY <1>1, <2>1, ElementOfSeq
<1>4. ASSUME NEW i \in 1..Len(halt.todo), i # 1
      PROVE  \E j \in 1..Len(Tail(halt.todo)) : Tail(halt.todo)[j] = halt.todo[i]
    <2>1. i - 1 \in 1..Len(Tail(halt.todo)) /\ (i - 1) + 1 = i
        BY <1>1, <1>2, <1>4
    <2> QED BY <1>2, <2>1
<1> QED BY <1>2, <1>3, <1>4

LEMMA HaltIs ==
    ASSUME ApplicationsInv
    PROVE  halt \in [at: {"no", "release", "rest", "done"}, todo: Seq(AppNames),
                     stopped: SUBSET AppNames, first: SUBSET (AppNames \X (0..MaxRequests))]
BY DEF ApplicationsInv, ApplicationsTypeOK

(***************************************************************************)
(* The next application of the list: it is passed over, or stopped under   *)
(* the lock.                                                               *)
(***************************************************************************)
LEMMA VisitKeeps ==
    ASSUME ApplicationsInv, ShutdownVisit
    PROVE  ApplicationsInv'
<1>0. /\ halt.todo # <<>> /\ locked = Unlocked
      /\ UNCHANGED <<release, listed, living, request, requests, gone, crossed>>
    BY DEF ShutdownVisit
<1>1. PICK n \in AppNames : n = halt.todo[1] /\ n = Head(halt.todo)
    BY <1>0, TodoFacts
<1>2. CASE n \in RunningApps
    <2>1. Become(n, "stopping") /\ locked' = NodeItself /\ UNCHANGED halt
        BY <1>1, <1>2 DEF ShutdownVisit
    <2>2. /\ apps' \in [AppNames -> Instances] /\ apps'[n].state = "stopping" /\ apps'[n].id = apps[n].id
          /\ \A x \in AppNames \ {n} : apps'[x] = apps[x]
        BY <2>1, BecomeIs
    <2>3. ApplicationsTypeOK'
        BY <1>0, <2>1, <2>2 DEF ApplicationsInv, ApplicationsTypeOK
    <2>4. NamesAgree' /\ CallsAgree'
        BY <1>0, <1>2, <2>2, HaltFrame DEF RunningApps
    <2>5. BetweenUnderLock'
        BY <1>0, <1>1, <2>1, <2>2, AppFacts DEF ApplicationsInv, BetweenUnderLock
    <2>6. LockHeld'
        BY <1>0, <1>1, <2>1, <2>2, AppFacts DEF ApplicationsInv, LockHeld
    <2>7. NumbersFresh'
        <3>1. \A x \in AppNames : apps'[x].id = apps[x].id
            BY <2>2
        <3> QED BY <1>0, <2>1, <3>1 DEF ApplicationsInv, NumbersFresh
    <2>8. ShutdownReaches' /\ ShutdownStops'
        BY <2>1, <2>2, ShutdownStays
    <2> QED BY <2>3, <2>4, <2>5, <2>6, <2>7, <2>8 DEF ApplicationsInv
<1>3. CASE n \notin RunningApps
    <2>1. halt' = [halt EXCEPT !.todo = Tail(@)] /\ UNCHANGED <<apps, locked>>
        BY <1>1, <1>3 DEF ShutdownVisit
    <2>2. /\ halt' \in [at: {"no", "release", "rest", "done"}, todo: Seq(AppNames),
                        stopped: SUBSET AppNames, first: SUBSET (AppNames \X (0..MaxRequests))]
          /\ halt'.at = halt.at /\ halt'.todo = Tail(halt.todo) /\ halt'.stopped = halt.stopped
          /\ halt'.first = halt.first
        BY <1>0, <2>1, HaltIs, TodoFacts
    <2>3. ApplicationsTypeOK'
        BY <1>0, <2>1, <2>2 DEF ApplicationsInv, ApplicationsTypeOK
    <2>4. NamesAgree' /\ CallsAgree'
        BY <1>0, <2>1, ZenonT(40) DEF ApplicationsInv, NamesAgree, CallsAgree, CallUnderWay, Agreed, Removable, Registered,
                          RunningApps
    <2>5. BetweenUnderLock' /\ LockHeld' /\ NumbersFresh'
        BY <1>0, <2>1, <2>2, AppFacts DEF ApplicationsInv, BetweenUnderLock, LockHeld, NumbersFresh
    <2>6. \A x \in AppNames : (ToStop(x)' <=> ToStop(x)) /\ (ToStop(x) => x # n)
        BY <1>3, <2>1, <2>2 DEF ToStop, RunningApps
    <2>7. halt.at \in {"release", "rest"}
        BY <1>0, HaltIs DEF ApplicationsInv, ShutdownReaches
    <2>8. ShutdownReaches'
        <3>1. ASSUME halt.at = "rest", NEW x \in AppNames, ToStop(x)
              PROVE  \E j \in 1..Len(halt'.todo) : halt'.todo[j] = x
            <4>1. PICK i \in 1..Len(halt.todo) : halt.todo[i] = x
                BY <3>1 DEF ApplicationsInv, ShutdownReaches
            <4>2. i # 1
                BY <1>1, <2>6, <3>1, <4>1
            <4> QED BY <1>0, <2>2, <4>1, <4>2, TodoFacts
        <3>2. /\ \A x \in halt.stopped : x \in AppNames /\ ~ToStop(x)
              /\ \A x \in AppNames : <<x, apps[x].id>> \in halt.first => apps[x].state \notin {"created", "starting"}
            BY HaltIs DEF ApplicationsInv, ShutdownReaches
        <3> QED BY <2>1, <2>2, <2>6, <2>7, <3>1, <3>2 DEF ShutdownReaches
    <2>9. ShutdownStops'
        BY <2>2, <2>7 DEF ShutdownStops
    <2> QED BY <2>3, <2>4, <2>5, <2>8, <2>9 DEF ApplicationsInv
<1> QED BY <1>2, <1>3

(***************************************************************************)
(* The application that the shutdown stops has stopped or failed.          *)
(***************************************************************************)
LEMMA StoppedKeeps ==
    ASSUME ApplicationsInv, NEW ok \in BOOLEAN, NEW left \in BOOLEAN, ShutdownStopped(ok, left)
    PROVE  ApplicationsInv'
<1>0. /\ locked = NodeItself /\ halt.todo # <<>> /\ apps[halt.todo[1]].state = "stopping"
      /\ UNCHANGED <<release, listed, request, requests, gone, crossed>>
    BY DEF ShutdownStopped, ApplicationsInv, LockHeld
<1>1. PICK n \in AppNames : n = halt.todo[1] /\ n = Head(halt.todo)
    BY <1>0, TodoFacts
<1>2. /\ \E s \in {"stopped", "failed"} : Become(n, s)
      /\ living' = living \/ living' = [living EXCEPT ![n] = @ \ {apps[n].id}]
      /\ locked' = Unlocked
    BY <1>1 DEF ShutdownStopped, Stopped
<1>3. /\ apps' \in [AppNames -> Instances] /\ apps'[n].state \in {"stopped", "failed"}
      /\ apps'[n].id = apps[n].id /\ \A x \in AppNames \ {n} : apps'[x] = apps[x]
    BY <1>2, BecomeIs
<1>4. /\ living' \in [AppNames -> SUBSET (0..MaxRequests)] /\ living'[n] \subseteq living[n]
      /\ \A x \in AppNames \ {n} : living'[x] = living[x]
    BY <1>2, AppFacts
<1>5. PICK done \in {halt.stopped, halt.stopped \cup {n}} :
          halt' = [halt EXCEPT !.todo = Tail(halt.todo), !.stopped = done]
    BY <1>1 DEF ShutdownStopped
<1>6. /\ halt' \in [at: {"no", "release", "rest", "done"}, todo: Seq(AppNames),
                    stopped: SUBSET AppNames, first: SUBSET (AppNames \X (0..MaxRequests))]
      /\ halt'.at = halt.at /\ halt'.todo = Tail(halt.todo) /\ halt'.first = halt.first
      /\ halt'.stopped \subseteq halt.stopped \cup {n}
    <2>1. done \in SUBSET AppNames /\ done \subseteq halt.stopped \cup {n}
        BY <1>5, HaltIs
    <2>2. Tail(halt.todo) \in Seq(AppNames)
        BY <1>0, TodoFacts
    <2>3. /\ halt'.at = halt.at /\ halt'.todo = Tail(halt.todo) /\ halt'.first = halt.first
          /\ halt'.stopped = done
        BY <1>5, HaltIs
    <2>4. halt' \in [at: {"no", "release", "rest", "done"}, todo: Seq(AppNames),
                     stopped: SUBSET AppNames, first: SUBSET (AppNames \X (0..MaxRequests))]
        BY <1>5, <2>1, <2>2, HaltIs
    <2> QED BY <2>1, <2>3, <2>4
<1>7. ApplicationsTypeOK'
    BY <1>0, <1>2, <1>3, <1>4, <1>6 DEF ApplicationsInv, ApplicationsTypeOK
<1>8. NamesAgree' /\ CallsAgree'
    BY <1>0, <1>1, <1>3, <1>4, HaltFrame
<1>9. BetweenUnderLock' /\ LockHeld'
    <2>1. BetweenUnderLock'
        BY <1>0, <1>1, <1>3, AppFacts DEF ApplicationsInv, BetweenUnderLock
    <2>2. LockHeld'
        BY <1>0, <1>2, AppFacts DEF ApplicationsInv, LockHeld
    <2> QED BY <2>1, <2>2
<1>10. NumbersFresh'
    <2>1. \A x \in AppNames : apps'[x].id = apps[x].id
        BY <1>3
    <2> QED BY <1>0, <1>6, <2>1 DEF ApplicationsInv, NumbersFresh
<1>11. halt.at \in {"release", "rest"}
    BY <1>0, HaltIs DEF ApplicationsInv, ShutdownReaches
<1>12. ShutdownReaches'
    <2>1. \A x \in AppNames : ToStop(x)' => ToStop(x) /\ x # n
        BY <1>3, <1>6 DEF ToStop, RunningApps
    <2>2. ASSUME halt.at = "rest", NEW x \in AppNames, ToStop(x)'
          PROVE  \E j \in 1..Len(halt'.todo) : halt'.todo[j] = x
        <3>1. PICK i \in 1..Len(halt.todo) : halt.todo[i] = x
            BY <2>1, <2>2 DEF ApplicationsInv, ShutdownReaches
        <3>2. i # 1
            BY <1>1, <2>1, <2>2, <3>1
        <3> QED BY <1>0, <1>6, <3>1, <3>2, TodoFacts
    <2>3. \A x \in halt'.stopped : x \in AppNames /\ ~ToStop(x)'
        <3>1. \A x \in halt.stopped : x \in AppNames /\ ~ToStop(x)
            BY HaltIs DEF ApplicationsInv, ShutdownReaches
        <3> QED BY <1>6, <2>1, <3>1
    <2>4. \A x \in AppNames : <<x, apps'[x].id>> \in halt.first => apps'[x].state \notin {"created", "starting"}
        BY <1>3 DEF ApplicationsInv, ShutdownReaches
    <2> QED BY <1>6, <1>11, <2>2, <2>3, <2>4 DEF ShutdownReaches
<1>13. ShutdownStops'
    BY <1>6, <1>11 DEF ShutdownStops
<1> QED BY <1>7, <1>8, <1>9, <1>10, <1>12, <1>13 DEF ApplicationsInv

(***************************************************************************)
(* A step of the shutdown that only moves on in its own lists disturbs     *)
(* neither the calls nor the lock.                                         *)
(***************************************************************************)
LEMMA HaltMoves ==
    ASSUME ApplicationsInv, locked = Unlocked, NumbersFresh', ShutdownReaches', ShutdownStops',
           halt' \in [at: {"no", "release", "rest", "done"}, todo: Seq(AppNames),
                      stopped: SUBSET AppNames, first: SUBSET (AppNames \X (0..MaxRequests))],
           UNCHANGED <<release, apps, listed, living, locked, request, requests, gone, crossed>>
    PROVE  ApplicationsInv'
<1>1. ApplicationsTypeOK'
    BY DEF ApplicationsInv, ApplicationsTypeOK
<1>2. NamesAgree' /\ CallsAgree'
    <2>1. Registered' = Registered /\ RunningApps' = RunningApps
        BY DEF Registered, RunningApps
    <2>2. NamesAgree'
        BY <2>1 DEF ApplicationsInv, NamesAgree, Agreed
    <2>3. CallsAgree'
        BY <2>1, ZenonT(40) DEF ApplicationsInv, CallsAgree, CallUnderWay, Agreed, Removable
    <2> QED BY <2>2, <2>3
<1>3. BetweenUnderLock' /\ LockHeld'
    BY AppFacts DEF ApplicationsInv, BetweenUnderLock, LockHeld
<1> QED BY <1>1, <1>2, <1>3 DEF ApplicationsInv

LEMMA BeginKeeps ==
    ASSUME ApplicationsInv, ShutdownBegin
    PROVE  ApplicationsInv'
<1>1. /\ halt.at = "no" /\ locked = Unlocked
      /\ halt' = [halt EXCEPT !.at = "release", !.todo = Reverse(release),
                              !.first = {<<n, apps[n].id>> : n \in RunningApps}]
      /\ UNCHANGED <<release, apps, listed, living, locked, request, requests, gone, crossed>>
    BY DEF ShutdownBegin
<1>2. Reverse(release) \in Seq(AppNames)
    <2>1. release \in Seq(AppNames)
        BY ApplicationsAssumption DEF ApplicationsInv, ApplicationsTypeOK
    <2>2. Len(release) \in Nat /\ \A i \in 1..Len(release) : release[(Len(release) - i) + 1] \in AppNames
        <3>1. Len(release) \in Nat
            BY <2>1, LenProperties
        <3>2. \A i \in 1..Len(release) : (Len(release) - i) + 1 \in 1..Len(release)
            BY <3>1
        <3> QED BY <2>1, <3>1, <3>2, ElementOfSeq
    <2> QED BY <2>2 DEF Reverse
<1>3. {<<n, apps[n].id>> : n \in RunningApps} \subseteq AppNames \X (0..MaxRequests)
    BY AppFacts DEF RunningApps
<1>4. /\ halt' \in [at: {"no", "release", "rest", "done"}, todo: Seq(AppNames),
                    stopped: SUBSET AppNames, first: SUBSET (AppNames \X (0..MaxRequests))]
      /\ halt'.at = "release" /\ halt'.stopped = halt.stopped
      /\ halt'.first = {<<n, apps[n].id>> : n \in RunningApps}
    BY <1>1, <1>2, <1>3, HaltIs
<1>5. NumbersFresh'
    <2>1. \A f \in halt'.first : \E n \in AppNames : f[2] = apps[n].id
        BY <1>4 DEF RunningApps
    <2> QED BY <1>1, <2>1 DEF ApplicationsInv, NumbersFresh
<1>6. ShutdownReaches'
    <2>1. halt.stopped = {}
        BY <1>1 DEF ApplicationsInv, ShutdownReaches
    <2>2. \A n \in AppNames : <<n, apps[n].id>> \in halt'.first => n \in RunningApps
        BY <1>4
    <2> QED BY <1>1, <1>4, <2>1, <2>2 DEF ShutdownReaches, RunningApps
<1>7. ShutdownStops'
    BY <1>4 DEF ShutdownStops
<1> QED BY <1>1, <1>4, <1>5, <1>6, <1>7, HaltMoves

(***************************************************************************)
(* An order of a finite set lists each of its members.                     *)
(***************************************************************************)
LEMMA OrderLists ==
    ASSUME NEW S, IsFiniteSet(S), NEW visits \in SetToSeqs(S)
    PROVE  visits \in Seq(S) /\ \A x \in S : \E i \in 1..Len(visits) : visits[i] = x
<1> DEFINE k == Cardinality(S)
<1>1. k \in Nat
    BY FS_CardinalityType
<1>2. visits \in [1..k -> S] /\ \A i, j \in 1..k : i # j => visits[i] # visits[j]
    BY DEF SetToSeqs
<1>3. visits \in Seq(S) /\ Len(visits) = k
    BY <1>1, <1>2
<1>4. visits \in Injection(1..k, S)
    BY <1>2 DEF Injection, IsInjective
<1>5. Cardinality(1..k) = k
    <2>1. 1 \in Int /\ k \in Int
        BY <1>1
    <2>2. Cardinality(1..k) = IF 1 > k THEN 0 ELSE k - 1 + 1
        BY <2>1, FS_Interval
    <2> QED BY <1>1, <2>2
<1>6. visits \in Surjection(1..k, S)
    BY <1>4, <1>5, FS_Injection
<1>7. \A x \in S : \E i \in 1..k : visits[i] = x
    BY <1>6 DEF Surjection
<1> QED BY <1>3, <1>7

LEMMA ListKeeps ==
    ASSUME ApplicationsInv, ShutdownList
    PROVE  ApplicationsInv'
<1> DEFINE S == IF release = <<>> THEN RunningApps ELSE Registered \ halt.stopped
<1>1. /\ halt.at = "release" /\ locked = Unlocked
      /\ UNCHANGED <<release, apps, listed, living, locked, request, requests, gone, crossed>>
    BY DEF ShutdownList
<1>2. PICK visits \in SetToSeqs(S) : halt' = [halt EXCEPT !.at = "rest", !.todo = visits]
    BY DEF ShutdownList
<1>3. S \subseteq AppNames /\ IsFiniteSet(S)
    <2>1. S \in SUBSET AppNames
        BY DEF Registered, RunningApps
    <2> QED BY <2>1, ApplicationsAssumption, FS_Subset
<1>4. visits \in Seq(S) /\ \A x \in S : \E i \in 1..Len(visits) : visits[i] = x
    BY <1>3, OrderLists
<1>5. \A x \in AppNames : ToStop(x) => x \in S
    BY DEF ApplicationsInv, ShutdownReaches, ToStop, Registered, RunningApps
<1> HIDE DEF S
<1>6. visits \in Seq(AppNames)
    BY <1>3, <1>4
<1>7. /\ halt' \in [at: {"no", "release", "rest", "done"}, todo: Seq(AppNames),
                    stopped: SUBSET AppNames, first: SUBSET (AppNames \X (0..MaxRequests))]
      /\ halt'.at = "rest" /\ halt'.todo = visits /\ halt'.stopped = halt.stopped /\ halt'.first = halt.first
    BY <1>2, <1>6, HaltIs
<1>8. \A x \in AppNames : ToStop(x)' <=> ToStop(x)
    BY <1>1, <1>7 DEF ToStop, RunningApps
<1>9. NumbersFresh'
    BY <1>1, <1>7 DEF ApplicationsInv, NumbersFresh
<1>10. ShutdownReaches'
    <2>1. \A x \in AppNames : ToStop(x)' => \E i \in 1..Len(halt'.todo) : halt'.todo[i] = x
        BY <1>4, <1>5, <1>7, <1>8
    <2>2. \A x \in halt'.stopped : ~ToStop(x)'
        <3>1. \A x \in halt.stopped : x \in AppNames /\ ~ToStop(x)
            BY HaltIs DEF ApplicationsInv, ShutdownReaches
        <3> QED BY <1>7, <1>8, <3>1
    <2>3. \A x \in AppNames : <<x, apps[x].id>> \in halt.first => apps[x].state \notin {"created", "starting"}
        BY DEF ApplicationsInv, ShutdownReaches
    <2> QED BY <1>1, <1>7, <2>1, <2>2, <2>3 DEF ShutdownReaches
<1>11. ShutdownStops'
    BY <1>7 DEF ShutdownStops
<1> QED BY <1>1, <1>7, <1>9, <1>10, <1>11, HaltMoves

LEMMA EndKeeps ==
    ASSUME ApplicationsInv, ShutdownEnd
    PROVE  ApplicationsInv'
<1>1. /\ halt.at = "rest" /\ halt.todo = <<>> /\ locked = Unlocked /\ halt' = [halt EXCEPT !.at = "done"]
      /\ UNCHANGED <<release, apps, listed, living, locked, request, requests, gone, crossed>>
    BY DEF ShutdownEnd
<1>2. /\ halt' \in [at: {"no", "release", "rest", "done"}, todo: Seq(AppNames),
                    stopped: SUBSET AppNames, first: SUBSET (AppNames \X (0..MaxRequests))]
      /\ halt'.at = "done" /\ halt'.todo = <<>> /\ halt'.stopped = halt.stopped /\ halt'.first = halt.first
    BY <1>1, HaltIs
<1>3. \A x \in AppNames : ~ToStop(x) /\ ~ToStop(x)'
    <2>1. \A x \in AppNames : ~ToStop(x)
        BY <1>1 DEF ApplicationsInv, ShutdownReaches
    <2> QED BY <1>1, <1>2, <2>1 DEF ToStop, RunningApps
<1>4. NumbersFresh'
    BY <1>1, <1>2 DEF ApplicationsInv, NumbersFresh
<1>5. ShutdownReaches'
    <2>1. \A x \in AppNames : <<x, apps[x].id>> \in halt.first => apps[x].state \notin {"created", "starting"}
        BY DEF ApplicationsInv, ShutdownReaches
    <2>2. halt'.stopped \subseteq AppNames
        BY <1>2
    <2> QED BY <1>1, <1>2, <1>3, <2>1, <2>2 DEF ShutdownReaches
<1>6. ShutdownStops'
    BY <1>1, <1>2, <1>3 DEF ShutdownStops, ToStop, RunningApps
<1> QED BY <1>1, <1>2, <1>4, <1>5, <1>6, HaltMoves

LEMMA ApplicationsStart == ApplicationsInit => ApplicationsInv
<1> SUFFICES ASSUME ApplicationsInit PROVE ApplicationsInv
    OBVIOUS
<1>1. /\ release \in Releases /\ listed = Registered /\ locked = Unlocked
      /\ requests = 0 /\ gone = 0 /\ crossed = {}
      /\ apps \in [AppNames -> {NoApp, [state |-> "running", id |-> 0]}]
      /\ living = [n \in AppNames |-> IF n \in Registered THEN {0} ELSE {}]
      /\ request = [c \in Operators |-> NoRequest]
      /\ halt = [at |-> "no", todo |-> <<>>, stopped |-> {}, first |-> {}]
    BY DEF ApplicationsInit
<1>2. 0 \in 0..MaxRequests /\ 0 \in 0..MaxGone
    BY ApplicationsAssumption
<1>3. /\ NoRequest \in Calls /\ NoRequest.at = "idle"
      /\ \A c \in Operators : request[c] = NoRequest
    <2>1. (CHOOSE n \in AppNames : TRUE) \in AppNames
        BY ApplicationsAssumption
    <2> QED BY <1>1, <1>2, <2>1 DEF NoRequest, Calls
<1>4. /\ apps \in [AppNames -> Instances]
      /\ \A n \in AppNames : apps[n].state \in {"none", "running"} /\ apps[n].id = 0
    BY <1>1, <1>2 DEF NoApp, Instances
<1>5. ApplicationsTypeOK
    <2>1. living \in [AppNames -> SUBSET (0..MaxRequests)]
        BY <1>1, <1>2
    <2>2. listed \subseteq AppNames
        BY <1>1 DEF Registered
    <2>3. request \in [Operators -> Calls]
        BY <1>1, <1>3
    <2>4. halt \in [at: {"no", "release", "rest", "done"}, todo: Seq(AppNames),
                    stopped: SUBSET AppNames, first: SUBSET (AppNames \X (0..MaxRequests))]
        BY <1>1
    <2> QED BY <1>1, <1>2, <1>4, <2>1, <2>2, <2>3, <2>4 DEF ApplicationsTypeOK
<1>6. \A n \in AppNames : Agreed(n)
    BY <1>1, <1>4 DEF Agreed, Registered, RunningApps
<1>7. BetweenUnderLock /\ NamesAgree /\ CallsAgree
    BY <1>3, <1>4, <1>6 DEF BetweenUnderLock, NamesAgree, CallsAgree
<1>8. LockHeld
    BY <1>1, <1>3, ApplicationsAssumption DEF LockHeld
<1>9. NumbersFresh
    BY <1>1, <1>3, <1>4 DEF NumbersFresh, Unborn
<1>10. ShutdownReaches /\ ShutdownStops
    BY <1>1 DEF ShutdownReaches, ShutdownStops
<1> QED BY <1>5, <1>7, <1>8, <1>9, <1>10 DEF ApplicationsInv

LEMMA ApplicationsStep == ApplicationsInv /\ [ApplicationsNext]_applicationsVars => ApplicationsInv'
<1> SUFFICES ASSUME ApplicationsInv, [ApplicationsNext]_applicationsVars PROVE ApplicationsInv'
    OBVIOUS
<1>1. CASE \E c \in Operators, n \in AppNames : Deploy(c, n) \/ Undeploy(c, n)
    BY <1>1, OpenKeeps
<1>2. CASE \E c \in Operators : GoAway(c)
    BY <1>2, GoAwayKeeps
<1>3. CASE ShutdownBegin
    BY <1>3, BeginKeeps
<1>4. ASSUME NEW c \in Operators,
             \/ RegisterCheck(c) \/ RegisterRow(c) \/ RegisterInsert(c) \/ StartBegin(c)
             \/ StopBegin(c) \/ UnregisterRead(c) \/ UnregisterRow(c) \/ UnregisterRemove(c)
             \/ CleanupForUndeploy(c) \/ CleanupNamespace(c)
             \/ \E ok, left \in BOOLEAN : StartEnds(c, ok, left) \/ StopEnds(c, ok, left)
      PROVE  ApplicationsInv'
    BY <1>4, RegisterKeeps, InsertKeeps, StartKeeps, StopKeeps, UnregisterKeeps, RemoveKeeps
<1>5. CASE ShutdownList \/ ShutdownVisit \/ ShutdownEnd
    BY <1>5, ListKeeps, VisitKeeps, EndKeeps
<1>6. CASE \E ok, left \in BOOLEAN : ShutdownStopped(ok, left)
    BY <1>6, StoppedKeeps
<1>7. CASE UNCHANGED applicationsVars
    <2>1. UNCHANGED <<release, apps, listed, living, locked, request, requests, gone, crossed, halt>>
        BY <1>7 DEF applicationsVars
    <2>2. Registered' = Registered /\ RunningApps' = RunningApps
        BY <2>1 DEF Registered, RunningApps
    <2>3. \A n \in AppNames : (ToStop(n)' <=> ToStop(n)) /\ (Agreed(n)' <=> Agreed(n))
        BY <2>1, <2>2 DEF ToStop, Agreed
    <2>4. ApplicationsTypeOK' /\ BetweenUnderLock' /\ LockHeld' /\ NumbersFresh'
        BY <2>1 DEF ApplicationsInv, ApplicationsTypeOK, BetweenUnderLock, LockHeld, NumbersFresh
    <2>5. NamesAgree' /\ ShutdownStops'
        BY <2>1, <2>2, <2>3 DEF ApplicationsInv, NamesAgree, ShutdownStops
    <2>6. CallsAgree'
        BY <2>1, <2>2, ZenonT(40) DEF ApplicationsInv, CallsAgree, CallUnderWay, Agreed, Removable
    <2>7. ShutdownReaches'
        BY <2>1, <2>3, HaltIs, ShutdownStays
    <2> QED BY <2>4, <2>5, <2>6, <2>7 DEF ApplicationsInv
<1> QED
    BY <1>1, <1>2, <1>3, <1>4, <1>5, <1>6, <1>7 DEF ApplicationsNext, ApplicationsGoesOn

(***************************************************************************)
(* Deploys, undeploys, clients that go away and the shutdown, interleaved  *)
(* in any way: nobody sees an application between two states, the map, the *)
(* rows and the actors of a name agree between calls that do not overlap,  *)
(* and a shutdown that has returned leaves none of the instances running   *)
(* that it found running.                                                  *)
(***************************************************************************)
THEOREM ApplicationsHold == ApplicationsSpec => []ApplicationsInv
BY ApplicationsStart, ApplicationsStep, PTL DEF ApplicationsSpec

(***************************************************************************)
(* The application manager of a node keeps its invariant beside the pool   *)
(* and the journals that the node hosts.                                   *)
(***************************************************************************)
THEOREM HostedApplicationsHold == HostingSpec => []ApplicationsInv
<1>1. HostingInit => ApplicationsInv
    BY ApplicationsStart DEF HostingInit
<1>2. ApplicationsInv /\ [HostingNext]_hostingVars => ApplicationsInv'
    <2> SUFFICES ASSUME ApplicationsInv, [HostingNext]_hostingVars PROVE ApplicationsInv'
        OBVIOUS
    <2>1. ApplicationsNext \/ UNCHANGED applicationsVars
        BY DEF HostingNext, Pooling, Journaling, Managing, hostingVars
    <2> QED BY <2>1, ApplicationsStep
<1> QED BY <1>1, <1>2, PTL DEF HostingSpec

-----------------------------------------------------------------------------
(* The journal of a durable actor.                                         *)

\* What TablesKept says of the rows J of the journal.
RowsKept(J) ==
    /\ IsFiniteSet(J) /\ HasLast(J)
    /\ \A d, e \in J : d.seq = e.seq => d = e
    /\ \A e \in J :
         /\ e.seq > 0
         /\ e.kind = "received" => e.of \in Orders
         /\ e.kind = "resolved" => e.by \in PromiseCallers
    /\ \A p \in Promises : HasLast({e \in J : e.kind = "resolved" /\ e.of = p})

(***************************************************************************)
(* A table with a last row has one when a row is added.                    *)
(***************************************************************************)
LEMMA LastAdded ==
    ASSUME NEW S, \A d \in S : d.seq \in Nat, HasLast(S), NEW e, e.seq \in Nat
    PROVE  HasLast(S \cup {e})
<1>1. CASE S = {}
    BY <1>1 DEF HasLast
<1>2. CASE S # {}
    <2>1. PICK g \in S : \A d \in S : d.seq <= g.seq
        BY <1>2 DEF HasLast
    <2>2. CASE e.seq <= g.seq
        BY <2>1, <2>2 DEF HasLast
    <2>3. CASE g.seq < e.seq
        <3>1. \A d \in S : d.seq <= e.seq
            BY <2>1, <2>3
        <3> QED BY <3>1 DEF HasLast
    <2> QED BY <2>1, <2>2, <2>3
<1> QED BY <1>1, <1>2

(***************************************************************************)
(* A row with a number of its own is appended to the journal.              *)
(***************************************************************************)
LEMMA RowAdded ==
    ASSUME NEW J, J \subseteq Entries, RowsKept(J), NEW e \in Entries, e.seq > 0,
           e.kind = "received" => e.of \in Orders,
           e.kind = "resolved" => e.by \in PromiseCallers,
           \A d \in J : d.seq # e.seq
    PROVE  RowsKept(J \cup {e}) /\ J \cup {e} \subseteq Entries
<1>1. \A d \in J \cup {e} : d.seq \in Nat
    BY DEF Entries
<1>2. IsFiniteSet(J \cup {e})
    BY FS_AddElement DEF RowsKept
<1>3. HasLast(J \cup {e})
    BY <1>1, LastAdded DEF RowsKept
<1>4. ASSUME NEW p \in Promises
      PROVE  HasLast({d \in J \cup {e} : d.kind = "resolved" /\ d.of = p})
    <2> DEFINE R == {d \in J : d.kind = "resolved" /\ d.of = p}
               Q == {d \in J \cup {e} : d.kind = "resolved" /\ d.of = p}
    <2>1. HasLast(R) /\ \A d \in R : d.seq \in Nat
        BY <1>1 DEF RowsKept
    <2>2. Q = R \/ Q = R \cup {e}
        OBVIOUS
    <2>3. HasLast(R \cup {e})
        <3> HIDE DEF R
        <3> QED BY <1>1, <2>1, LastAdded
    <2> QED BY <2>1, <2>2, <2>3
<1> QED BY <1>2, <1>3, <1>4 DEF RowsKept

(***************************************************************************)
(* There are as many numbers in use as rows.                               *)
(***************************************************************************)
LEMMA RowsCounted ==
    ASSUME RowsKept(journal) PROVE Cardinality(Numbers) = Cardinality(journal)
<1> DEFINE f == [e \in journal |-> e.seq]
<1>1. f \in Bijection(journal, Numbers)
    BY DEF RowsKept, Numbers, Bijection, Injection, Surjection, IsInjective
<1>2. ExistsBijection(journal, Numbers)
    BY <1>1 DEF ExistsBijection
<1> QED BY <1>2, FS_Bijection DEF RowsKept

(***************************************************************************)
(* The number of the last row.                                             *)
(***************************************************************************)
LEMMA LastNumberKnown ==
    ASSUME RowsKept(journal), journal \subseteq Entries
    PROVE  /\ LastNumber \in Nat /\ \A n \in Numbers : n <= LastNumber
           /\ journal # {} => LastNumber \in Numbers
           /\ journal = {} => LastNumber = 0
<1>1. CASE journal = {}
    BY <1>1 DEF LastNumber, Numbers
<1>2. CASE journal # {}
    <2>1. PICK e \in journal : \A d \in journal : d.seq <= e.seq
        BY <1>2 DEF RowsKept, HasLast
    <2>2. e.seq \in Numbers /\ \A n \in Numbers : n \in Nat /\ e.seq >= n
        BY <2>1 DEF Numbers, Entries
    <2>3. LastNumber = CHOOSE x \in Numbers : \A y \in Numbers : x >= y
        BY <1>2 DEF LastNumber, Max
    <2>4. LastNumber \in Numbers /\ \A y \in Numbers : LastNumber >= y
        BY <2>2, <2>3
    <2> QED BY <1>2, <2>2, <2>4
<1> QED BY <1>1, <1>2

(***************************************************************************)
(* get_latest_checkpoint() returns one of the checkpoints, or none.        *)
(***************************************************************************)
LEMMA LatestKnown ==
    ASSUME HasLast(checkpoints), \A c \in checkpoints : c.seq \in Nat /\ c.state \in Seq(Orders)
    PROVE  /\ Latest.seq \in Nat /\ Latest.state \in Seq(Orders)
           /\ \A c \in checkpoints : c.seq <= Latest.seq
           /\ checkpoints # {} => Latest \in checkpoints
           /\ checkpoints = {} => Latest.seq = 0 /\ Latest.state = <<>>
<1>1. CASE checkpoints = {}
    BY <1>1 DEF Latest
<1>2. CASE checkpoints # {}
    <2>1. \E c \in checkpoints : \A d \in checkpoints : d.seq <= c.seq
        BY <1>2 DEF HasLast
    <2>2. Latest = CHOOSE c \in checkpoints : \A d \in checkpoints : d.seq <= c.seq
        BY <1>2 DEF Latest
    <2>3. Latest \in checkpoints /\ \A d \in checkpoints : d.seq <= Latest.seq
        BY <2>1, <2>2
    <2> QED BY <1>2, <2>3
<1> QED BY <1>1, <1>2

(***************************************************************************)
(* Rows with different numbers that can be listed are listed once each, in *)
(* the order of their numbers.                                             *)
(***************************************************************************)
LEMMA Listed ==
    ASSUME NEW S, IsFiniteSet(S), InOrder(S) # {}, \A d \in S : d.seq \in Nat /\ d.of \in Orders,
           \A d, e \in S : d.seq = e.seq => d = e
    PROVE  \E rows :
             /\ Cardinality(S) \in Nat
             /\ rows \in [1..Cardinality(S) -> S]
             /\ BySeq(S) = [i \in 1..Cardinality(S) |-> rows[i].of]
             /\ \A i, j \in 1..Cardinality(S) : i < j => rows[i].seq < rows[j].seq
             /\ \A e \in S : \E i \in 1..Cardinality(S) : rows[i] = e
<1> DEFINE n == Cardinality(S)
           rows == CHOOSE f \in InOrder(S) : TRUE
<1>1. n \in Nat
    BY FS_CardinalityType
<1>2. rows \in InOrder(S)
    OBVIOUS
<1>3. BySeq(S) = [i \in 1..n |-> rows[i].of]
    BY DEF BySeq
<1> HIDE DEF rows
<1>4. /\ rows \in [1..n -> S] /\ IsInjective(rows)
      /\ \A e \in S : \E i \in 1..n : rows[i] = e
      /\ \A i, j \in 1..n : i < j => rows[i].seq <= rows[j].seq
    BY <1>2 DEF InOrder, Bijection, Injection, Surjection
<1> HIDE DEF n
<1>5. ASSUME NEW i \in 1..n, NEW j \in 1..n, i < j PROVE rows[i].seq < rows[j].seq
    <2>1. rows[i].seq <= rows[j].seq /\ rows[i] \in S /\ rows[j] \in S
        BY <1>4, <1>5
    <2>2. rows[i] # rows[j]
        BY <1>1, <1>4, <1>5 DEF IsInjective
    <2>3. rows[i].seq # rows[j].seq
        BY <2>1, <2>2
    <2> QED BY <2>1, <2>3
<1> QED BY <1>1, <1>3, <1>4, <1>5 DEF n

(***************************************************************************)
(* A row above all others is listed behind them.                           *)
(***************************************************************************)
LEMMA ListedLast ==
    ASSUME NEW S, IsFiniteSet(S), InOrder(S) # {}, NEW e, e \notin S,
           \A d \in S : d.seq <= e.seq
    PROVE  InOrder(S \cup {e}) # {}
<1> DEFINE n == Cardinality(S)
<1>1. n \in Nat /\ Cardinality(S \cup {e}) = n + 1
    BY FS_CardinalityType, FS_AddElement
<1>2. PICK f : f \in InOrder(S)
    OBVIOUS
<1>3. /\ f \in [1..n -> S] /\ \A i, j \in 1..n : f[i] = f[j] => i = j
      /\ \A d \in S : \E i \in 1..n : f[i] = d
      /\ \A i, j \in 1..n : i < j => f[i].seq <= f[j].seq
    BY <1>2 DEF InOrder, Bijection, Injection, Surjection, IsInjective
<1> HIDE DEF n
<1> DEFINE g == [i \in 1..(n + 1) |-> IF i = n + 1 THEN e ELSE f[i]]
<1>4. \A i \in 1..(n + 1) : i = n + 1 \/ i \in 1..n
    BY <1>1
<1>5. /\ g \in [1..(n + 1) -> S \cup {e}]
      /\ g[n + 1] = e /\ \A i \in 1..n : g[i] = f[i] /\ i # n + 1
      /\ n + 1 \in 1..(n + 1) /\ 1..n \subseteq 1..(n + 1)
    BY <1>1, <1>3, <1>4
<1> HIDE DEF g
<1>6. \A i, j \in 1..(n + 1) : g[i] = g[j] => i = j
    BY <1>3, <1>4, <1>5
<1>7. \A d \in S \cup {e} : \E i \in 1..(n + 1) : g[i] = d
    BY <1>3, <1>5
<1>8. ASSUME NEW i \in 1..(n + 1), NEW j \in 1..(n + 1), i < j PROVE g[i].seq <= g[j].seq
    <2>1. i \in 1..n
        BY <1>1, <1>8
    <2>2. CASE j = n + 1
        BY <1>3, <1>5, <2>1, <2>2
    <2>3. CASE j \in 1..n
        BY <1>3, <1>5, <1>8, <2>1, <2>3
    <2> QED BY <1>4, <2>2, <2>3
<1>9. g \in InOrder(S \cup {e})
    BY <1>1, <1>5, <1>6, <1>7, <1>8 DEF InOrder, Bijection, Injection, Surjection, IsInjective
<1> QED BY <1>9

(***************************************************************************)
(* Nothing is listed where there is nothing to replay.                     *)
(***************************************************************************)
LEMMA ListedNone == InOrder({}) # {} /\ BySeq({}) = <<>>
<1>1. Cardinality({}) = 0 /\ 1..0 = {}
    BY FS_EmptySet
<1> DEFINE f == [i \in 1..0 |-> 0]
<1>2. f \in InOrder({})
    BY <1>1 DEF InOrder, Bijection, Injection, Surjection, IsInjective
<1>3. BySeq({}) = [i \in 1..0 |-> (CHOOSE g \in InOrder({}) : TRUE)[i].of]
    BY <1>1 DEF BySeq
<1> QED BY <1>1, <1>2, <1>3

\* The part of the invariant that the others follow from.
DurabilityCore ==
    /\ DurabilityTypeOK /\ TablesKept /\ NumbersInUse /\ NumbersDistinct
    /\ OrdersOnce /\ StatesInOrder /\ PromisesAgree /\ PromisesInTurn

(***************************************************************************)
(* The tables in the invariant.                                            *)
(***************************************************************************)
LEMMA TablesKnown ==
    ASSUME DurabilityTypeOK, TablesKept
    PROVE  /\ RowsKept(journal) /\ journal \subseteq Entries
           /\ Latest.seq \in Nat /\ Latest.state \in Seq(Orders)
           /\ \A c \in checkpoints : c.seq <= Latest.seq
           /\ checkpoints # {} => Latest \in checkpoints
           /\ checkpoints = {} => Latest.seq = 0 /\ Latest.state = <<>>
           /\ \A e \in Received : e \in journal /\ e.seq \in Nat /\ e.seq > 0 /\ e.of \in Orders
           /\ Accepted \subseteq Received /\ IsFiniteSet(Accepted)
           /\ \A e \in Received : e \in Accepted <=> e.seq > Latest.seq /\ e.of \notin setup.poison
<1>1. RowsKept(journal)
    BY DEF TablesKept, RowsKept, Resolutions
<1>2. journal \subseteq Entries
    BY DEF DurabilityTypeOK
<1>3. /\ Latest.seq \in Nat /\ Latest.state \in Seq(Orders)
      /\ \A c \in checkpoints : c.seq <= Latest.seq
      /\ checkpoints # {} => Latest \in checkpoints
      /\ checkpoints = {} => Latest.seq = 0 /\ Latest.state = <<>>
    BY LatestKnown DEF DurabilityTypeOK, TablesKept
<1>4. \A e \in Received : e \in journal /\ e.seq \in Nat /\ e.seq > 0 /\ e.of \in Orders
    BY <1>2 DEF Received, TablesKept, Entries
<1>5. Accepted \subseteq Received /\ Accepted \subseteq journal
      /\ \A e \in Received : e \in Accepted <=> e.seq > Latest.seq /\ e.of \notin setup.poison
    BY DEF Accepted, Replayed, Received
<1>6. IsFiniteSet(Accepted)
    BY <1>5, FS_Subset DEF TablesKept
<1> QED BY <1>1, <1>2, <1>3, <1>4, <1>5, <1>6

(***************************************************************************)
(* What on_attach() would restore: the messages of the latest checkpoint   *)
(* were journaled up to its number, those that are replayed above it.      *)
(***************************************************************************)
LEMMA RecoveredInOrder ==
    ASSUME DurabilityTypeOK, TablesKept, OrdersOnce, StatesInOrder
    PROVE  /\ Recovered \in Seq(Orders) /\ IsInjective(Recovered)
           /\ \A i \in DOMAIN Recovered : \E e \in Received : e.of = Recovered[i]
           /\ \A i, j \in DOMAIN Recovered : i < j =>
                (\A d, e \in Received : d.of = Recovered[i] /\ e.of = Recovered[j] => d.seq < e.seq)
           /\ \A e \in Received : e.of \in setup.poison \cup lost \cup ToSet(Recovered)
<1> DEFINE a == Latest.state
           m == Cardinality(Accepted)
           b == BySeq(Accepted)
           n == Len(a)
           L == Latest.seq
<1>1. /\ RowsKept(journal) /\ L \in Nat /\ a \in Seq(Orders)
      /\ checkpoints # {} => Latest \in checkpoints
      /\ checkpoints = {} => a = <<>>
      /\ \A e \in Received : e \in journal /\ e.seq \in Nat /\ e.seq > 0 /\ e.of \in Orders
      /\ Accepted \subseteq Received /\ IsFiniteSet(Accepted)
      /\ \A e \in Received : e \in Accepted <=> e.seq > L /\ e.of \notin setup.poison
    BY TablesKnown
<1>2. Journaled(a, L)
    <2>1. CASE checkpoints = {}
        BY <1>1, <2>1 DEF Journaled
    <2>2. CASE checkpoints # {}
        BY <1>1, <2>2 DEF StatesInOrder
    <2> QED BY <2>1, <2>2
<1>3. \A d, e \in Received : d.of = e.of => d = e
    BY DEF OrdersOnce
<1>4. PICK rows :
         /\ m \in Nat
         /\ rows \in [1..m -> Accepted]
         /\ b = [i \in 1..m |-> rows[i].of]
         /\ \A i, j \in 1..m : i < j => rows[i].seq < rows[j].seq
         /\ \A e \in Accepted : \E i \in 1..m : rows[i] = e
    <2>1. \A d \in Accepted : d.seq \in Nat /\ d.of \in Orders
        BY <1>1
    <2>2. \A d, e \in Accepted : d.seq = e.seq => d = e
        BY <1>1 DEF RowsKept
    <2>3. InOrder(Accepted) # {}
        BY DEF StatesInOrder
    <2> QED BY <1>1, <2>1, <2>2, <2>3, Listed
<1>5. n \in Nat /\ DOMAIN a = 1..n
    BY <1>1, LenProperties
<1>6. Recovered = a \o b
    BY DEF Recovered
<1> HIDE DEF a, b, m, n, L
<1>7. b \in Seq(Orders) /\ Len(b) = m
    <2>1. b \in [1..m -> Orders]
        BY <1>1, <1>4
    <2>2. b \in Seq(Orders)
        BY <1>4, <2>1, SeqDef
    <2>3. DOMAIN b = 1..m
        BY <1>4
    <2>4. DOMAIN b = 1..Len(b) /\ Len(b) \in Nat
        BY <2>2, LenProperties
    <2> QED BY <1>4, <2>2, <2>3, <2>4
<1>8. /\ Recovered \in Seq(Orders) /\ Len(Recovered) = n + m
      /\ \A k \in 1..(n + m) : Recovered[k] = IF k <= n THEN a[k] ELSE b[k - n]
      /\ DOMAIN Recovered = 1..(n + m)
    <2>1. /\ Recovered \in Seq(Orders) /\ Len(Recovered) = n + m
          /\ \A k \in 1..(n + m) : Recovered[k] = IF k <= n THEN a[k] ELSE b[k - n]
        <3>1. /\ a \o b \in Seq(Orders) /\ Len(a \o b) = Len(a) + Len(b)
              /\ \A k \in 1..(Len(a) + Len(b)) :
                   (a \o b)[k] = IF k <= Len(a) THEN a[k] ELSE b[k - Len(a)]
            BY <1>1, <1>7, ConcatProperties
        <3>2. Len(a) = n /\ Len(b) = m
            BY <1>7 DEF n
        <3> QED BY <1>6, <3>1, <3>2
    <2> QED BY <2>1, LenProperties
<1>9. ASSUME NEW k \in 1..(n + m), k <= n PROVE k \in DOMAIN a /\ Recovered[k] = a[k]
    <2>1. k \in 1..n
        BY <1>4, <1>5, <1>9
    <2>2. Recovered[k] = a[k]
        BY <1>8, <1>9
    <2> QED BY <1>5, <2>1, <2>2
<1>10. \A k \in 1..(n + m) : k > n =>
          k - n \in 1..m /\ Recovered[k] = rows[k - n].of /\ rows[k - n] \in Received
          /\ rows[k - n].seq > L
    <2> SUFFICES ASSUME NEW k \in 1..(n + m), k > n
                 PROVE  k - n \in 1..m /\ Recovered[k] = rows[k - n].of /\ rows[k - n] \in Received
                        /\ rows[k - n].seq > L
        OBVIOUS
    <2>1. k - n \in 1..m /\ ~(k <= n)
        BY <1>4, <1>5
    <2>2. Recovered[k] = b[k - n]
        BY <1>8, <2>1
    <2> QED BY <1>1, <1>4, <2>1, <2>2
<1>11. \A k \in 1..(n + m) : \E e \in Received :
          e.of = Recovered[k] /\ (k <= n => e.seq <= L)
    BY <1>2, <1>4, <1>5, <1>9, <1>10 DEF Journaled
<1>12. ASSUME NEW i \in 1..(n + m), NEW j \in 1..(n + m), i < j,
              NEW d \in Received, NEW e \in Received, d.of = Recovered[i], e.of = Recovered[j]
       PROVE  d.seq < e.seq
    <2>1. CASE j <= n
        <3>1. i \in DOMAIN a /\ j \in DOMAIN a /\ d.of = a[i] /\ e.of = a[j]
            BY <1>4, <1>5, <1>9, <1>12, <2>1
        <3> QED BY <1>2, <1>12, <3>1 DEF Journaled
    <2>2. CASE i <= n /\ j > n
        <3>1. d.seq <= L
            BY <1>3, <1>11, <1>12, <2>2
        <3>2. e.seq > L
            BY <1>3, <1>10, <1>12, <2>2
        <3> QED BY <1>1, <3>1, <3>2
    <2>3. CASE i > n
        <3>1. j > n
            BY <1>4, <1>5, <1>12, <2>3
        <3>2. d = rows[i - n] /\ e = rows[j - n] /\ i - n \in 1..m /\ j - n \in 1..m
            BY <1>3, <1>10, <1>12, <2>3, <3>1
        <3>3. i - n < j - n
            BY <1>4, <1>5, <1>12
        <3> QED BY <1>4, <3>2, <3>3
    <2> QED BY <1>4, <1>5, <2>1, <2>2, <2>3
<1>13. IsInjective(Recovered)
    <2> SUFFICES ASSUME NEW i \in 1..(n + m), NEW j \in 1..(n + m), i < j,
                        Recovered[i] = Recovered[j]
                 PROVE  FALSE
        <3>1. \A i, j \in 1..(n + m) : i < j \/ j < i \/ i = j
            BY <1>4, <1>5
        <3> QED BY <1>8, <3>1 DEF IsInjective
    <2>1. PICK e \in Received : e.of = Recovered[i]
        BY <1>11
    <2>2. e.seq < e.seq
        BY <1>12, <2>1
    <2> QED BY <1>1, <2>2
<1>14. ASSUME NEW e \in Received
       PROVE  e.of \in setup.poison \cup lost \cup ToSet(Recovered)
    <2>1. CASE e.seq <= L
        <3>1. e.of \in setup.poison \cup lost \cup ToSet(a)
            BY <1>14, <2>1 DEF StatesInOrder, L, a
        <3>2. ASSUME e.of \in ToSet(a) PROVE e.of \in ToSet(Recovered)
            <4>1. PICK k \in 1..n : e.of = a[k]
                BY <1>5, <3>2 DEF ToSet
            <4>2. k \in 1..(n + m) /\ k <= n
                BY <1>4, <1>5
            <4> QED BY <1>8, <1>9, <4>1, <4>2 DEF ToSet
        <3> QED BY <3>1, <3>2
    <2>2. CASE e.seq > L
        <3>1. CASE e.of \in setup.poison
            BY <3>1
        <3>2. CASE e.of \notin setup.poison
            <4>1. PICK k \in 1..m : rows[k] = e
                BY <1>1, <1>4, <2>2, <3>2
            <4>2. n + k \in 1..(n + m) /\ n + k > n /\ (n + k) - n = k
                BY <1>4, <1>5
            <4>3. Recovered[n + k] = e.of
                BY <1>10, <4>1, <4>2
            <4> QED BY <1>8, <4>2, <4>3 DEF ToSet
        <3> QED BY <3>1, <3>2
    <2> QED BY <1>1, <2>1, <2>2
<1> QED BY <1>8, <1>11, <1>12, <1>13, <1>14

(***************************************************************************)
(* The core is enough.                                                     *)
(***************************************************************************)
LEMMA CoreIsEnough == DurabilityCore => DurabilityInv
<1> SUFFICES ASSUME DurabilityCore PROVE DurabilityInv
    OBVIOUS
<1>1. /\ Recovered \in Seq(Orders) /\ IsInjective(Recovered)
      /\ \A i \in DOMAIN Recovered : \E e \in Received : e.of = Recovered[i]
      /\ \A i, j \in DOMAIN Recovered : i < j =>
           (\A d, e \in Received : d.of = Recovered[i] /\ e.of = Recovered[j] => d.seq < e.seq)
      /\ \A e \in Received : e.of \in setup.poison \cup lost \cup ToSet(Recovered)
    BY RecoveredInOrder DEF DurabilityCore
<1>2. DOMAIN Recovered = 1..Len(Recovered)
    BY <1>1, LenProperties
<1>3. ASSUME NEW i \in 1..Len(Recovered), NEW j \in 1..Len(Recovered), i < j
      PROVE  \E d, e \in Received : d.of = Recovered[i] /\ e.of = Recovered[j] /\ d.seq < e.seq
    <2>1. PICK d \in Received : d.of = Recovered[i]
        BY <1>1, <1>2
    <2>2. PICK e \in Received : e.of = Recovered[j]
        BY <1>1, <1>2
    <2> QED BY <1>1, <1>2, <1>3, <2>1, <2>2
<1>4. RecoveryComplete
    <2> HIDE DEF DurabilityCore
    <2> QED BY <1>1, <1>2, <1>3 DEF RecoveryComplete
<1> QED BY <1>4 DEF DurabilityCore, DurabilityInv

-----------------------------------------------------------------------------
(* The checkpoints and what was received, as tables.                       *)

LatestOf(C) == IF C = {} THEN [seq |-> 0, state |-> <<>>, raw |-> TRUE]
               ELSE CHOOSE c \in C : \A d \in C : d.seq <= c.seq
SavedIn(C, n, st, raw) ==
    {c \in C : c.seq # n} \cup {[seq |-> n, state |-> st, raw |-> raw]}

\* One checkpoint per number.
CheckpointsKept(C) ==
    /\ \A c \in C : c.seq \in Nat /\ c.state \in Seq(Orders) /\ c.raw \in BOOLEAN
    /\ HasLast(C) /\ \A c, d \in C : c.seq = d.seq => c = d

(***************************************************************************)
(* The latest checkpoint has the highest number.                           *)
(***************************************************************************)
LEMMA LatestOfKnown ==
    ASSUME NEW C, CheckpointsKept(C)
    PROVE  /\ LatestOf(C).seq \in Nat /\ LatestOf(C).state \in Seq(Orders)
           /\ \A c \in C : c.seq <= LatestOf(C).seq
           /\ C # {} => LatestOf(C) \in C
           /\ C = {} => LatestOf(C).seq = 0 /\ LatestOf(C).state = <<>>
<1>1. CASE C = {}
    BY <1>1 DEF LatestOf
<1>2. CASE C # {}
    <2>1. \E c \in C : \A d \in C : d.seq <= c.seq
        BY <1>2 DEF HasLast, CheckpointsKept
    <2>2. LatestOf(C) = CHOOSE c \in C : \A d \in C : d.seq <= c.seq
        BY <1>2 DEF LatestOf
    <2>3. LatestOf(C) \in C /\ \A d \in C : d.seq <= LatestOf(C).seq
        BY <2>1, <2>2
    <2> QED BY <1>2, <2>3 DEF CheckpointsKept
<1> QED BY <1>1, <1>2

(***************************************************************************)
(* INSERT OR REPLACE: what is saved becomes the latest checkpoint, unless  *)
(* there is one with a higher number.                                      *)
(***************************************************************************)
LEMMA SavedIsLatest ==
    ASSUME NEW C, CheckpointsKept(C), NEW n \in Nat, NEW st \in Seq(Orders), NEW raw \in BOOLEAN
    PROVE  /\ CheckpointsKept(SavedIn(C, n, st, raw))
           /\ LatestOf(C).seq <= n =>
                LatestOf(SavedIn(C, n, st, raw)) = [seq |-> n, state |-> st, raw |-> raw]
           /\ LatestOf(C).seq > n => LatestOf(SavedIn(C, n, st, raw)) = LatestOf(C)
<1> DEFINE e == [seq |-> n, state |-> st, raw |-> raw]
           D == SavedIn(C, n, st, raw)
           L == LatestOf(C)
<1>1. /\ L.seq \in Nat /\ \A c \in C : c.seq <= L.seq
      /\ C # {} => L \in C
      /\ C = {} => L.seq = 0
    BY LatestOfKnown
<1>2. D = {c \in C : c.seq # n} \cup {e} /\ e.seq = n /\ e.state = st /\ e.raw = raw /\ e \in D
    BY DEF SavedIn
<1>3. \A c \in D : c.seq \in Nat /\ c.state \in Seq(Orders) /\ c.raw \in BOOLEAN
    BY <1>2 DEF CheckpointsKept
<1>4. \A c, d \in D : c.seq = d.seq => c = d
    BY <1>2 DEF CheckpointsKept
<1> HIDE DEF D, e, L
<1>5. CASE L.seq <= n
    <2>1. \A d \in D : d.seq <= e.seq
        BY <1>1, <1>2, <1>3, <1>5 DEF CheckpointsKept
    <2>2. CheckpointsKept(D)
        BY <1>2, <1>3, <1>4, <2>1 DEF CheckpointsKept, HasLast
    <2>3. LatestOf(D) \in D /\ e.seq <= LatestOf(D).seq
        BY <1>2, <2>2, LatestOfKnown
    <2>4. LatestOf(D) = e
        BY <1>2, <1>3, <1>4, <2>1, <2>3
    <2> QED BY <1>1, <1>5, <2>2, <2>4 DEF D, e, L
<1>6. CASE L.seq > n
    <2>1. L \in C /\ L \in D
        BY <1>1, <1>2, <1>6
    <2>2. \A d \in D : d.seq <= L.seq
        BY <1>1, <1>2, <1>6
    <2>3. CheckpointsKept(D)
        BY <1>3, <1>4, <2>1, <2>2 DEF CheckpointsKept, HasLast
    <2>4. LatestOf(D) \in D /\ L.seq <= LatestOf(D).seq
        BY <2>1, <2>3, LatestOfKnown
    <2>5. LatestOf(D) = L
        BY <1>3, <1>4, <2>1, <2>2, <2>4
    <2> QED BY <1>1, <1>6, <2>3, <2>5 DEF D, e, L
<1> QED BY <1>1, <1>5, <1>6 DEF L

\* Journaled, of the received messages R.
ListedIn(R, s, n) ==
    /\ \A i \in DOMAIN s : \E e \in R : e.of = s[i] /\ e.seq <= n
    /\ \A i, j \in DOMAIN s : i < j =>
         (\A d, e \in R : d.of = s[i] /\ e.of = s[j] => d.seq < e.seq)

\* Rows of received messages, one for each message.
ReceivedRows(R) ==
    /\ IsFiniteSet(R)
    /\ \A e \in R : e.seq \in Nat /\ e.of \in Orders
    /\ \A d, e \in R : d.of = e.of => d = e

(***************************************************************************)
(* A message that is not listed does not disturb the list.                 *)
(***************************************************************************)
LEMMA ListedBeside ==
    ASSUME NEW R, NEW s, NEW n, ListedIn(R, s, n), NEW e, e.of \notin ToSet(s)
    PROVE  ListedIn(R \cup {e}, s, n)
<1>1. \A i \in DOMAIN s : s[i] # e.of
    BY DEF ToSet
<1> QED BY <1>1 DEF ListedIn

(***************************************************************************)
(* The last message that was received is listed behind the others.         *)
(***************************************************************************)
LEMMA ListedNext ==
    ASSUME NEW R, ReceivedRows(R), NEW s \in Seq(Orders), NEW n, ListedIn(R, s, n),
           NEW r \in R, r.of \notin ToSet(s), r.seq <= n, \A d \in R \ {r} : d.seq < r.seq
    PROVE  ListedIn(R, Append(s, r.of), n) /\ ToSet(Append(s, r.of)) = ToSet(s) \cup {r.of}
<1> DEFINE t == Append(s, r.of)
           k == Len(s)
<1>1. /\ t \in Seq(Orders) /\ Len(t) = k + 1 /\ k \in Nat
      /\ \A i \in 1..k : t[i] = s[i]
      /\ t[k + 1] = r.of
    BY AppendProperties, LenProperties DEF ReceivedRows
<1>2. DOMAIN s = 1..k /\ DOMAIN t = 1..(k + 1)
    BY <1>1, LenProperties
<1> HIDE DEF t, k
<1>3. \A i \in 1..(k + 1) : i \in 1..k \/ i = k + 1
    BY <1>1
<1>4. \A i \in 1..(k + 1) : \E e \in R : e.of = t[i] /\ e.seq <= n
    BY <1>1, <1>2, <1>3 DEF ListedIn
<1>5. ASSUME NEW i \in 1..(k + 1), NEW j \in 1..(k + 1), i < j,
             NEW d \in R, NEW e \in R, d.of = t[i], e.of = t[j]
      PROVE  d.seq < e.seq
    <2>1. i \in 1..k
        BY <1>1, <1>5
    <2>2. CASE j \in 1..k
        BY <1>1, <1>2, <1>5, <2>1, <2>2 DEF ListedIn
    <2>3. CASE j = k + 1
        <3>1. e = r
            BY <1>1, <1>5, <2>3 DEF ReceivedRows
        <3>2. d # r
            BY <1>1, <1>2, <1>5, <2>1 DEF ToSet
        <3> QED BY <3>1, <3>2
    <2> QED BY <1>3, <2>2, <2>3
<1>6. ListedIn(R, t, n)
    BY <1>2, <1>4, <1>5 DEF ListedIn
<1>7. ToSet(t) = ToSet(s) \cup {r.of}
    <2>1. ToSet(t) = {t[i] : i \in 1..(k + 1)} /\ ToSet(s) = {s[i] : i \in 1..k}
        BY <1>2 DEF ToSet
    <2>2. k + 1 \in 1..(k + 1) /\ 1..k \subseteq 1..(k + 1)
        BY <1>1
    <2> QED BY <1>1, <1>3, <2>1, <2>2
<1> QED BY <1>6, <1>7 DEF t

\* What StatesInOrder says of the tables: R was received, C was saved, P is refused,
\* and X may be left out.
AcceptedOf(R, C, P) == {e \in R : e.seq > LatestOf(C).seq /\ e.of \notin P}
TablesComplete(R, C, P, X) ==
    /\ \A c \in C : ListedIn(R, c.state, c.seq)
    /\ InOrder(AcceptedOf(R, C, P)) # {}
    /\ \A e \in R : e.seq <= LatestOf(C).seq => e.of \in P \cup X \cup ToSet(LatestOf(C).state)

(***************************************************************************)
(* A message is journaled: it is the last one, and above the latest        *)
(* checkpoint or one of those that may be left out.                        *)
(***************************************************************************)
LEMMA ReceivedKeeps ==
    ASSUME NEW R, NEW C, NEW P, NEW X, TablesComplete(R, C, P, X), ReceivedRows(R),
           CheckpointsKept(C), NEW e, e.seq \in Nat, e.of \in Orders,
           \A d \in R : d.of # e.of /\ d.seq < e.seq, LatestOf(C).seq < e.seq \/ e.of \in X
    PROVE  TablesComplete(R \cup {e}, C, P, X) /\ ReceivedRows(R \cup {e})
<1>1. LatestOf(C).seq \in Nat
    BY LatestOfKnown
<1>2. ReceivedRows(R \cup {e})
    BY FS_AddElement DEF ReceivedRows
<1>3. ASSUME NEW c \in C PROVE ListedIn(R \cup {e}, c.state, c.seq)
    <2>1. ListedIn(R, c.state, c.seq)
        BY DEF TablesComplete
    <2>2. e.of \notin ToSet(c.state)
        BY <2>1 DEF ListedIn, ToSet
    <2> QED BY <2>1, <2>2, ListedBeside
<1>4. InOrder(AcceptedOf(R \cup {e}, C, P)) # {}
    <2> DEFINE A == AcceptedOf(R, C, P)
    <2>1. AcceptedOf(R \cup {e}, C, P) = A \/ AcceptedOf(R \cup {e}, C, P) = A \cup {e}
        BY DEF AcceptedOf
    <2>2. InOrder(A) # {}
        BY DEF TablesComplete
    <2>3. A \subseteq R
        BY DEF AcceptedOf
    <2>4. IsFiniteSet(A)
        BY <2>3, FS_Subset DEF ReceivedRows
    <2>5. e \notin A /\ \A d \in A : d.seq <= e.seq
        BY <2>3 DEF ReceivedRows
    <2> HIDE DEF A
    <2>6. InOrder(A \cup {e}) # {}
        BY <2>2, <2>4, <2>5, ListedLast
    <2> QED BY <2>1, <2>2, <2>6
<1>5. ASSUME NEW d \in R \cup {e}, d.seq <= LatestOf(C).seq
      PROVE  d.of \in P \cup X \cup ToSet(LatestOf(C).state)
    <2>1. d # e \/ d.of \in X
        BY <1>1, <1>5
    <2> QED BY <1>5, <2>1 DEF TablesComplete
<1> QED BY <1>2, <1>3, <1>4, <1>5 DEF TablesComplete

(***************************************************************************)
(* A checkpoint is saved under a number that no message is above.          *)
(***************************************************************************)
LEMMA SavedKeeps ==
    ASSUME NEW R, NEW C, NEW P, NEW X, TablesComplete(R, C, P, X), ReceivedRows(R),
           CheckpointsKept(C), NEW n \in Nat, NEW st \in Seq(Orders), NEW raw \in BOOLEAN,
           ListedIn(R, st, n), \A e \in R : e.seq <= n, NEW Y, X \subseteq Y,
           \A e \in R : e.of \in P \cup Y \cup ToSet(st)
    PROVE  /\ TablesComplete(R, SavedIn(C, n, st, raw), P, Y)
           /\ CheckpointsKept(SavedIn(C, n, st, raw))
<1> DEFINE D == SavedIn(C, n, st, raw)
<1>1. /\ CheckpointsKept(D)
      /\ LatestOf(C).seq <= n => LatestOf(D) = [seq |-> n, state |-> st, raw |-> raw]
      /\ LatestOf(C).seq > n => LatestOf(D) = LatestOf(C)
    BY SavedIsLatest
<1>2. LatestOf(C).seq \in Nat
    BY LatestOfKnown
<1>3. \A c \in D : ListedIn(R, c.state, c.seq)
    BY DEF SavedIn, TablesComplete
<1> HIDE DEF D
<1>4. CASE LatestOf(C).seq <= n
    <2>1. LatestOf(D).seq = n /\ LatestOf(D).state = st
        BY <1>1, <1>4
    <2>2. AcceptedOf(R, D, P) = {}
        BY <2>1 DEF AcceptedOf, ReceivedRows
    <2>3. InOrder(AcceptedOf(R, D, P)) # {}
        BY <2>2, ListedNone
    <2> QED BY <1>1, <1>3, <2>1, <2>3 DEF TablesComplete, D
<1>5. CASE LatestOf(C).seq > n
    <2>1. LatestOf(D) = LatestOf(C)
        BY <1>1, <1>2, <1>5
    <2>2. AcceptedOf(R, D, P) = AcceptedOf(R, C, P)
        BY <2>1 DEF AcceptedOf
    <2> QED BY <1>1, <1>3, <2>1, <2>2 DEF TablesComplete, D
<1> QED BY <1>2, <1>4, <1>5

-----------------------------------------------------------------------------
(* The numbers.                                                            *)

(***************************************************************************)
(* The invariant as the proofs of the steps use it.                        *)
(***************************************************************************)
LEMMA CoreKnown ==
    ASSUME DurabilityCore
    PROVE  /\ RowsKept(journal) /\ journal \subseteq Entries /\ CheckpointsKept(checkpoints)
           /\ \A n \in Numbers : n \in Nat /\ n > 0
           /\ Latest = LatestOf(checkpoints) /\ Latest.seq \in Nat
           /\ ReceivedRows(Received) /\ \A e \in Received : e.seq \in Numbers
           /\ TablesComplete(Received, checkpoints, setup.poison, lost)
           /\ ListedIn(Received, state, seq) /\ state \in Seq(Orders) /\ seq \in Nat /\ mark \in Nat
           /\ Effects \in {0, 1}
<1>1. DurabilityTypeOK /\ TablesKept /\ OrdersOnce /\ StatesInOrder
    BY DEF DurabilityCore
<1>2. /\ RowsKept(journal) /\ journal \subseteq Entries /\ Latest.seq \in Nat
      /\ \A e \in Received : e \in journal /\ e.seq \in Nat /\ e.seq > 0 /\ e.of \in Orders
    BY <1>1, TablesKnown
<1>3. Latest = LatestOf(checkpoints)
    BY DEF Latest, LatestOf
<1>4. CheckpointsKept(checkpoints)
    BY <1>1 DEF CheckpointsKept, TablesKept, DurabilityTypeOK
<1>5. \A n \in Numbers : n \in Nat /\ n > 0
    BY <1>2 DEF Numbers, RowsKept, Entries
<1>6. Received \subseteq journal
    BY DEF Received
<1>7. IsFiniteSet(Received)
    BY <1>2, <1>6, FS_Subset DEF RowsKept
<1>8. ReceivedRows(Received) /\ \A e \in Received : e.seq \in Numbers
    BY <1>1, <1>2, <1>7 DEF ReceivedRows, OrdersOnce, Numbers
<1>9. Accepted = AcceptedOf(Received, checkpoints, setup.poison)
    BY <1>3 DEF Accepted, Replayed, AcceptedOf
<1>10. TablesComplete(Received, checkpoints, setup.poison, lost)
    BY <1>1, <1>3, <1>9 DEF StatesInOrder, TablesComplete, Journaled, ListedIn
<1>11. ListedIn(Received, state, seq) /\ state \in Seq(Orders) /\ seq \in Nat /\ mark \in Nat
    BY <1>1 DEF StatesInOrder, Journaled, ListedIn, DurabilityTypeOK
<1>12. Effects \in {0, 1}
    BY DEF Effects
<1> QED BY <1>2, <1>3, <1>4, <1>5, <1>8, <1>10, <1>11, <1>12

(***************************************************************************)
(* What is reserved are numbers that are in no row.                        *)
(***************************************************************************)
LEMMA OpenKnown ==
    ASSUME DurabilityCore
    PROVE  /\ \A n \in Reserved : n \in Nat /\ n > 0
           /\ \A c \in PromiseCallers : \A n \in PromiseReserved(c) : n \in Nat /\ n > 0
           /\ Reserved \cap Numbers = {}
           /\ \A c \in PromiseCallers : PromiseReserved(c) \cap (Numbers \cup Reserved) = {}
           /\ \A c, d \in PromiseCallers : c # d => PromiseReserved(c) \cap PromiseReserved(d) = {}
           /\ loop # "down" => \A n \in Reserved : n <= seq
           /\ loop # "down" => \A c \in PromiseCallers : \A n \in PromiseReserved(c) : n <= seq
           /\ loop # "down" => \A n \in Numbers : n <= seq
<1>1. \A n \in Reserved : n \in Nat
    BY CoreKnown DEF Reserved
<1>2. \A c \in PromiseCallers : \A n \in PromiseReserved(c) : n \in Nat
    BY DEF PromiseReserved, DurabilityCore, DurabilityTypeOK
<1> QED BY <1>1, <1>2 DEF DurabilityCore, NumbersInUse, NumbersDistinct, Unwritten

(***************************************************************************)
(* The message loop takes and writes numbers; W are those it writes.       *)
(***************************************************************************)
LEMMA LoopTakes ==
    ASSUME DurabilityCore, loop # "down", loop' # "down", UNCHANGED work,
           seq' \in Nat, seq' >= seq, NEW W \in SUBSET Reserved, Numbers' = Numbers \cup W,
           Reserved' \subseteq (Reserved \ W) \cup ((seq + 1)..seq'),
           gaps => gaps',
           ~gaps' => seq' \in Reserved' \/ (seq' = seq /\ Reserved \subseteq W \cup Reserved'),
           \A c \in checkpoints' : c \in checkpoints \/ c.seq = seq',
           RowsKept(journal')
    PROVE  NumbersInUse' /\ NumbersDistinct'
<1>1. /\ \A n \in Reserved : n \in Nat /\ n > 0 /\ n <= seq
      /\ \A c \in PromiseCallers : \A n \in PromiseReserved(c) : n \in Nat /\ n > 0 /\ n <= seq
      /\ Reserved \cap Numbers = {}
      /\ \A c \in PromiseCallers : PromiseReserved(c) \cap (Numbers \cup Reserved) = {}
      /\ \A c, d \in PromiseCallers : c # d => PromiseReserved(c) \cap PromiseReserved(d) = {}
      /\ \A n \in Numbers : n <= seq
    BY OpenKnown
<1>2. seq \in Nat /\ \A n \in Numbers : n \in Nat /\ n > 0
    BY CoreKnown
<1>3. \A c \in PromiseCallers : PromiseReserved(c)' = PromiseReserved(c)
    BY DEF PromiseReserved
<1>4. \A n \in (seq + 1)..seq' : n \in Nat /\ n > seq /\ n <= seq' /\ n > 0
    BY <1>2
<1>5. \A n \in Reserved' : n \in Nat /\ n > 0 /\ n <= seq' /\ (n \in Reserved \ W \/ n > seq)
    BY <1>1, <1>2, <1>4
<1>6. Reserved' \cap Numbers' = {}
    BY <1>1, <1>2, <1>5
<1>7. \A c \in PromiseCallers : PromiseReserved(c)' \cap (Numbers' \cup Reserved') = {}
    BY <1>1, <1>2, <1>3, <1>5
<1>8. Cardinality(Numbers') = Cardinality(journal')
    <2> DEFINE f == [e \in journal' |-> e.seq]
    <2>1. f \in Bijection(journal', Numbers')
        BY DEF RowsKept, Numbers, Bijection, Injection, Surjection, IsInjective
    <2>2. ExistsBijection(journal', Numbers')
        BY <2>1 DEF ExistsBijection
    <2> QED BY <2>2, FS_Bijection DEF RowsKept
<1>9. NumbersDistinct'
    BY <1>1, <1>3, <1>6, <1>7, <1>8 DEF NumbersDistinct
<1>10. \A n \in Numbers' \cup Unwritten' : n <= seq'
    <2>1. \A n \in Numbers' : n <= seq'
        BY <1>1, <1>2
    <2>2. \A c \in PromiseCallers : \A n \in PromiseReserved(c)' : n <= seq'
        BY <1>1, <1>2, <1>3
    <2> QED BY <1>5, <2>1, <2>2 DEF Unwritten
<1>11. \A n \in Unwritten' : n > 0
    BY <1>1, <1>3, <1>5 DEF Unwritten
<1>12. ~gaps' => seq' = 0 \/ seq' \in Numbers' \cup Unwritten'
    <2> SUFFICES ASSUME ~gaps', seq' \notin Reserved' PROVE seq' = 0 \/ seq' \in Numbers' \cup Unwritten'
        BY DEF Unwritten
    <2>1. seq' = seq /\ Reserved \subseteq W \cup Reserved'
        OBVIOUS
    <2>2. seq = 0 \/ seq \in Numbers \cup Unwritten
        BY DEF DurabilityCore, NumbersInUse
    <2> QED BY <1>3, <2>1, <2>2 DEF Unwritten
<1>13. ~gaps' => \A c \in checkpoints' : c.seq <= seq'
    <2>1. ~gaps => \A c \in checkpoints : c.seq <= seq /\ c.seq \in Nat
        BY DEF DurabilityCore, NumbersInUse, DurabilityTypeOK
    <2> QED BY <1>2, <2>1
<1> QED BY <1>9, <1>10, <1>11, <1>12, <1>13 DEF NumbersInUse

(***************************************************************************)
(* The same for one call of the promises.                                  *)
(***************************************************************************)
LEMMA CallTakes ==
    ASSUME DurabilityCore, loop # "down", UNCHANGED <<loop, mark, order, checkpoints>>,
           NEW c \in PromiseCallers, \A d \in PromiseCallers \ {c} : work'[d] = work[d],
           seq' \in Nat, seq' >= seq, NEW W \in SUBSET PromiseReserved(c), Numbers' = Numbers \cup W,
           PromiseReserved(c)' \subseteq (PromiseReserved(c) \ W) \cup ((seq + 1)..seq'),
           gaps => gaps',
           ~gaps' => \/ seq' \in PromiseReserved(c)'
                     \/ seq' = seq /\ PromiseReserved(c) \subseteq W \cup PromiseReserved(c)',
           RowsKept(journal')
    PROVE  NumbersInUse' /\ NumbersDistinct'
<1>1. /\ \A n \in Reserved : n \in Nat /\ n > 0 /\ n <= seq
      /\ \A d \in PromiseCallers : \A n \in PromiseReserved(d) : n \in Nat /\ n > 0 /\ n <= seq
      /\ Reserved \cap Numbers = {}
      /\ \A d \in PromiseCallers : PromiseReserved(d) \cap (Numbers \cup Reserved) = {}
      /\ \A d, e \in PromiseCallers : d # e => PromiseReserved(d) \cap PromiseReserved(e) = {}
      /\ \A n \in Numbers : n <= seq
    BY OpenKnown
<1>2. seq \in Nat /\ \A n \in Numbers : n \in Nat /\ n > 0
    BY CoreKnown
<1>3. /\ \A d \in PromiseCallers \ {c} : PromiseReserved(d)' = PromiseReserved(d)
      /\ Reserved' = Reserved
    BY DEF PromiseReserved, Reserved, Effects
<1>4. \A n \in (seq + 1)..seq' : n \in Nat /\ n > seq /\ n <= seq' /\ n > 0
    BY <1>2
<1>5. \A n \in PromiseReserved(c)' :
         n \in Nat /\ n > 0 /\ n <= seq' /\ (n \in PromiseReserved(c) \ W \/ n > seq)
    BY <1>1, <1>2, <1>4
<1>6. Reserved' \cap Numbers' = {}
    BY <1>1, <1>3
<1>7. \A d \in PromiseCallers : PromiseReserved(d)' \cap (Numbers' \cup Reserved') = {}
    <2>1. PromiseReserved(c)' \cap (Numbers' \cup Reserved') = {}
        BY <1>1, <1>2, <1>3, <1>5
    <2>2. \A d \in PromiseCallers \ {c} : PromiseReserved(d)' \cap (Numbers' \cup Reserved') = {}
        BY <1>1, <1>3
    <2> QED BY <2>1, <2>2
<1>8. \A d, e \in PromiseCallers : d # e => PromiseReserved(d)' \cap PromiseReserved(e)' = {}
    <2>1. \A d \in PromiseCallers \ {c} : PromiseReserved(d)' \cap PromiseReserved(c)' = {}
        BY <1>1, <1>2, <1>3, <1>5
    <2> QED BY <1>1, <1>3, <2>1
<1>9. Cardinality(Numbers') = Cardinality(journal')
    <2> DEFINE f == [e \in journal' |-> e.seq]
    <2>1. f \in Bijection(journal', Numbers')
        BY DEF RowsKept, Numbers, Bijection, Injection, Surjection, IsInjective
    <2>2. ExistsBijection(journal', Numbers')
        BY <2>1 DEF ExistsBijection
    <2> QED BY <2>2, FS_Bijection DEF RowsKept
<1>10. NumbersDistinct'
    BY <1>6, <1>7, <1>8, <1>9 DEF NumbersDistinct
<1>11. \A n \in Numbers' \cup Unwritten' : n <= seq'
    <2>1. \A n \in Numbers' \cup Reserved' : n <= seq'
        BY <1>1, <1>2, <1>3
    <2>2. \A d \in PromiseCallers : \A n \in PromiseReserved(d)' : n <= seq'
        BY <1>1, <1>2, <1>3, <1>5
    <2> QED BY <2>1, <2>2 DEF Unwritten
<1>12. \A n \in Unwritten' : n > 0
    <2>1. \A d \in PromiseCallers : \A n \in PromiseReserved(d)' : n > 0
        BY <1>1, <1>3, <1>5
    <2> QED BY <1>1, <1>3, <2>1 DEF Unwritten
<1>13. ~gaps' => seq' = 0 \/ seq' \in Numbers' \cup Unwritten'
    <2> SUFFICES ASSUME ~gaps', seq' \notin PromiseReserved(c)'
                 PROVE  seq' = 0 \/ seq' \in Numbers' \cup Unwritten'
        BY DEF Unwritten
    <2>1. seq' = seq /\ PromiseReserved(c) \subseteq W \cup PromiseReserved(c)'
        OBVIOUS
    <2>2. seq = 0 \/ seq \in Numbers \cup Unwritten
        BY DEF DurabilityCore, NumbersInUse
    <2>3. CASE \E d \in PromiseCallers : seq \in PromiseReserved(d)
        BY <1>3, <2>1, <2>3 DEF Unwritten
    <2> QED BY <1>3, <2>1, <2>2, <2>3 DEF Unwritten
<1>14. ~gaps' => \A k \in checkpoints' : k.seq <= seq'
    <2>1. ~gaps => \A k \in checkpoints : k.seq <= seq /\ k.seq \in Nat
        BY DEF DurabilityCore, NumbersInUse, DurabilityTypeOK
    <2> QED BY <1>2, <2>1
<1> QED BY <1>10, <1>11, <1>12, <1>13, <1>14 DEF NumbersInUse

(***************************************************************************)
(* A life ends: nothing is reserved any more.                              *)
(***************************************************************************)
LEMMA EndTakes ==
    ASSUME DurabilityCore, Ended, RowsKept(journal'), gaps => gaps', loop # "down",
           ~gaps' => seq = 0 \/ seq \in Numbers',
           \A c \in checkpoints' : c \in checkpoints \/ c.seq = seq
    PROVE  NumbersInUse' /\ NumbersDistinct'
<1>1. Reserved' = {} /\ \A c \in PromiseCallers : PromiseReserved(c)' = {}
    BY DEF Ended, Reserved, PromiseReserved, Asleep
<1>2. Cardinality(Numbers') = Cardinality(journal')
    <2> DEFINE f == [e \in journal' |-> e.seq]
    <2>1. f \in Bijection(journal', Numbers')
        BY DEF RowsKept, Numbers, Bijection, Injection, Surjection, IsInjective
    <2>2. ExistsBijection(journal', Numbers')
        BY <2>1 DEF ExistsBijection
    <2> QED BY <2>2, FS_Bijection DEF RowsKept
<1>3. NumbersDistinct'
    BY <1>1, <1>2 DEF NumbersDistinct
<1>4. ~gaps => \A c \in checkpoints : c.seq <= seq /\ c.seq \in Nat
    BY DEF DurabilityCore, NumbersInUse, DurabilityTypeOK
<1>5. ~gaps' => \A c \in checkpoints' : c.seq = 0 \/ \E n \in Numbers' : c.seq <= n
    <2>1. seq \in Nat
        BY CoreKnown
    <2> QED BY <1>4, <2>1
<1> QED BY <1>1, <1>3, <1>5 DEF NumbersInUse, Unwritten, Ended

-----------------------------------------------------------------------------
(* The promises.                                                           *)

\* The rows that load_promises_from_journal() looks at.
PromiseRows(J) == {e \in J : e.kind \in {"created", "resolved"}}

(***************************************************************************)
(* Only those rows count for what is loaded.                               *)
(***************************************************************************)
LEMMA LoadedSame ==
    ASSUME PromiseRows(journal') = PromiseRows(journal)
    PROVE  /\ \A p \in Promises : LoadedResult(p)' = LoadedResult(p)
           /\ LoadedPending' = LoadedPending
<1>1. ASSUME NEW p \in Promises PROVE LoadedResult(p)' = LoadedResult(p)
    <2>1. Resolutions(p)' = Resolutions(p)
        BY DEF Resolutions, PromiseRows
    <2> QED BY <2>1 DEF LoadedResult
<1>2. ASSUME NEW p \in Promises
      PROVE  (\E e \in journal' : e.kind = "created" /\ e.of = p)
             <=> (\E e \in journal : e.kind = "created" /\ e.of = p)
    BY DEF PromiseRows
<1> QED BY <1>1, <1>2 DEF LoadedPending

(***************************************************************************)
(* The result of a promise is that of one of its resolutions.              *)
(***************************************************************************)
LEMMA LoadedKnown ==
    ASSUME RowsKept(journal), NEW p \in Promises
    PROVE  /\ Resolutions(p) = {} => LoadedResult(p) = Nothing
           /\ Resolutions(p) # {} => LoadedResult(p) \in PromiseCallers /\ LoadedResult(p) # Nothing
<1>1. CASE Resolutions(p) = {}
    BY <1>1 DEF LoadedResult
<1>2. CASE Resolutions(p) # {}
    <2> DEFINE last == CHOOSE e \in Resolutions(p) : \A d \in Resolutions(p) : d.seq <= e.seq
    <2>1. HasLast(Resolutions(p)) /\ \A e \in Resolutions(p) : e \in journal /\ e.kind = "resolved"
        BY DEF Resolutions, RowsKept
    <2>2. \E e \in Resolutions(p) : \A d \in Resolutions(p) : d.seq <= e.seq
        BY <1>2, <2>1 DEF HasLast
    <2>3. last \in Resolutions(p)
        BY <2>2
    <2>4. LoadedResult(p) = last.by
        BY <1>2 DEF LoadedResult
    <2> HIDE DEF last
    <2>5. last.by \in PromiseCallers
        BY <2>1, <2>3 DEF RowsKept
    <2> QED BY <1>2, <2>4, <2>5, DurabilityAssumption
<1> QED BY <1>1, <1>2

(***************************************************************************)
(* The message loop leaves the promises alone.                             *)
(***************************************************************************)
LEMMA LoopLeavesPromises ==
    ASSUME DurabilityCore, loop # "down", PromisesAlone,
           PromiseRows(journal') = PromiseRows(journal),
           loop' \in {"down", "exiting"} => \A c \in PromiseCallers : NoWork(c)
    PROVE  PromisesAgree' /\ PromisesInTurn'
<1>1. \A p \in Promises : LoadedResult(p)' = LoadedResult(p)
    BY LoadedSame
<1>2. LoadedPending' = LoadedPending
    BY LoadedSame
<1>3. \A c \in PromiseCallers : work[c].of \in Promises
    BY DEF DurabilityCore, DurabilityTypeOK
<1>4. \A c \in PromiseCallers : NoWork(c)' <=> NoWork(c)
    BY DEF NoWork, PromisesAlone
<1>5. PromisesAgree /\ PromisesInTurn
    BY DEF DurabilityCore
<1>6. PromisesAgree'
    BY <1>1, <1>2, <1>4, <1>5 DEF PromisesAgree, PromisesAlone
<1>7. PromisesInTurn'
    BY <1>1, <1>2, <1>3, <1>4, <1>5 DEF PromisesInTurn, PromisesAlone
<1> QED BY <1>6, <1>7

(***************************************************************************)
(* At the end of a life nothing is on its way.                             *)
(***************************************************************************)
LEMMA EndLeavesPromises == ASSUME Ended PROVE PromisesAgree' /\ PromisesInTurn'
<1>1. \A c \in PromiseCallers : NoWork(c)'
    BY DEF NoWork, Ended, Asleep
<1>2. loop' = "down"
    BY DEF Ended
<1> QED BY <1>1, <1>2 DEF PromisesAgree, PromisesInTurn

-----------------------------------------------------------------------------
(* The states.                                                             *)

\* The part of StatesInOrder about the state of a life.
StateComplete ==
    loop # "down" =>
      \A e \in Received : e.of \in setup.poison \cup lost \cup ToSet(state)
                                   \cup (IF loop = "handling" THEN {order} ELSE {})

(***************************************************************************)
(* The parts of the invariant after a step.                                *)
(***************************************************************************)
LEMMA CoreNext ==
    ASSUME DurabilityTypeOK', RowsKept(journal'), CheckpointsKept(checkpoints'),
           TablesComplete(Received', checkpoints', setup'.poison, lost'),
           ListedIn(Received', state', seq'), StateComplete', OrdersOnce',
           NumbersInUse' /\ NumbersDistinct', PromisesAgree' /\ PromisesInTurn'
    PROVE  DurabilityCore'
<1>1. TablesKept'
    BY DEF TablesKept, RowsKept, CheckpointsKept, Resolutions
<1>2. Latest' = LatestOf(checkpoints')
    BY DEF Latest, LatestOf
<1>3. Accepted' = AcceptedOf(Received', checkpoints', setup'.poison)
    BY <1>2 DEF Accepted, Replayed, AcceptedOf
<1>4. Journaled(state, seq)'
    BY DEF ListedIn, Journaled
<1>5. \A c \in checkpoints' : Journaled(c.state, c.seq)'
    BY DEF ListedIn, Journaled, TablesComplete
<1>6. StatesInOrder'
    BY <1>2, <1>3, <1>4, <1>5 DEF StatesInOrder, StateComplete, TablesComplete, Journaled
<1> QED BY <1>1, <1>6 DEF DurabilityCore

(***************************************************************************)
(* More may be left out.                                                   *)
(***************************************************************************)
LEMMA CompleteStill ==
    ASSUME NEW R, NEW C, NEW P, NEW X, NEW Y, TablesComplete(R, C, P, X), X \subseteq Y
    PROVE  TablesComplete(R, C, P, Y)
BY DEF TablesComplete

(***************************************************************************)
(* A step that receives nothing and saves nothing.                         *)
(***************************************************************************)
LEMMA QuietStates ==
    ASSUME DurabilityCore, Received' = Received, UNCHANGED <<checkpoints, setup>>, lost \subseteq lost'
    PROVE  /\ TablesComplete(Received', checkpoints', setup'.poison, lost')
           /\ CheckpointsKept(checkpoints') /\ Latest' = Latest
<1>1. TablesComplete(Received, checkpoints, setup.poison, lost) /\ CheckpointsKept(checkpoints)
    BY CoreKnown
<1>2. TablesComplete(Received, checkpoints, setup.poison, lost')
    BY <1>1, CompleteStill
<1>3. Latest' = Latest
    BY DEF Latest
<1> QED BY <1>1, <1>2, <1>3

(***************************************************************************)
(* A state that was journaled up to a number was so up to a higher one.    *)
(***************************************************************************)
LEMMA ListedUp ==
    ASSUME NEW R, ReceivedRows(R), NEW s, NEW n \in Nat, NEW m \in Nat, n <= m, ListedIn(R, s, n)
    PROVE  ListedIn(R, s, m)
<1>1. \A e \in R : e.seq \in Nat
    BY DEF ReceivedRows
<1>2. \A i \in DOMAIN s : \E e \in R : e.of = s[i] /\ e.seq <= m
    BY <1>1 DEF ListedIn
<1> QED BY <1>2 DEF ListedIn

(***************************************************************************)
(* A life in the middle of which something happens.                        *)
(***************************************************************************)
LEMMA LifeKnown ==
    ASSUME DurabilityCore, loop # "down"
    PROVE  /\ StateComplete /\ \A e \in Received : e.seq <= seq
           /\ \A m \in todo : m \notin ToSet(state)
<1>1. StateComplete
    BY DEF DurabilityCore, StatesInOrder, StateComplete
<1>2. \A e \in Received : e.seq <= seq
    BY CoreKnown, OpenKnown
<1>3. \A m \in todo : m \notin ToSet(state)
    BY CoreKnown DEF ListedIn, ToSet, DurabilityCore, OrdersOnce
<1> QED BY <1>1, <1>2, <1>3

-----------------------------------------------------------------------------
(* The steps of the message loop.                                          *)

(***************************************************************************)
(* before_method() takes a number above all others.                        *)
(***************************************************************************)
LEMMA BeforeMethodCore ==
    ASSUME DurabilityCore, NEW m \in Orders, BeforeMethod(m) PROVE DurabilityCore'
<1> USE DEF BeforeMethod
<1>1. /\ RowsKept(journal) /\ CheckpointsKept(checkpoints) /\ ReceivedRows(Received)
      /\ ListedIn(Received, state, seq) /\ seq \in Nat /\ Latest.seq \in Nat
      /\ state \in Seq(Orders) /\ \A e \in Received : e.seq \in Nat
    BY CoreKnown DEF ReceivedRows
<1>2. Received' = Received /\ Numbers' = Numbers
    BY DEF Received, Numbers
<1>0. lost \subseteq lost' /\ lost' \subseteq Orders /\ (Latest.seq < seq + 1 \/ m \in lost')
    <2>1. lost \subseteq Orders
        BY DEF DurabilityCore, DurabilityTypeOK
    <2> QED BY <1>1, <2>1
<1>3. /\ TablesComplete(Received', checkpoints', setup'.poison, lost')
      /\ CheckpointsKept(checkpoints') /\ Latest' = Latest
    BY <1>0, <1>2, QuietStates
<1>4. NumbersInUse' /\ NumbersDistinct'
    <2>1. Reserved = {} /\ Reserved' = {seq + 1} /\ seq' = seq + 1 /\ seq' \in Nat /\ seq' >= seq
        BY <1>1 DEF Reserved
    <2>2. Reserved' \subseteq (Reserved \ {}) \cup ((seq + 1)..seq') /\ seq' \in Reserved'
        BY <1>1, <2>1
    <2>3. RowsKept(journal')
        BY <1>1
    <2>4. UNCHANGED work
        BY DEF PromisesAlone
    <2> QED BY <1>2, <2>1, <2>2, <2>3, <2>4, LoopTakes
<1>5. PromisesAgree' /\ PromisesInTurn'
    BY LoopLeavesPromises
<1>6. ListedIn(Received', state', seq')
    <2>1. ListedIn(Received, state, seq + 1)
        BY <1>1, ListedUp
    <2> QED BY <1>2, <2>1
<1>7. /\ StateComplete /\ \A e \in Received : e.seq <= seq
      /\ m \notin ToSet(state)
    BY LifeKnown
<1>8. StateComplete'
    BY <1>0, <1>2, <1>7 DEF StateComplete
<1>9. OrdersOnce'
    BY <1>0, <1>1, <1>2, <1>3, <1>7 DEF OrdersOnce, DurabilityCore
<1>10. DurabilityTypeOK'
    BY <1>0, <1>1 DEF DurabilityCore, DurabilityTypeOK, PromisesAlone
<1> QED BY <1>1, <1>3, <1>4, <1>5, <1>6, <1>8, <1>9, <1>10, CoreNext

(***************************************************************************)
(* The entry of a message is appended under the number that was taken.     *)
(***************************************************************************)
LEMMA AppendReceivedCore ==
    ASSUME DurabilityCore, AppendReceived PROVE DurabilityCore'
<1> USE DEF AppendReceived
<1> DEFINE e == Row(mark, "received", order, Nothing)
<1>1. /\ RowsKept(journal) /\ journal \subseteq Entries
      /\ CheckpointsKept(checkpoints) /\ ReceivedRows(Received)
      /\ ListedIn(Received, state, seq) /\ seq \in Nat /\ mark \in Nat
      /\ Latest = LatestOf(checkpoints)
      /\ TablesComplete(Received, checkpoints, setup.poison, lost)
    BY CoreKnown
<1>2. Reserved = {mark} /\ mark > 0 /\ mark \notin Numbers /\ mark <= seq
    BY OpenKnown DEF Reserved
<1>3. /\ order \in Orders /\ order \notin todo /\ order \notin ToSet(state)
      /\ \A d \in Received : d.of # order /\ d.seq < mark
      /\ Latest.seq < mark \/ order \in lost
    BY DEF DurabilityCore, OrdersOnce
<1>4. /\ e \in Entries /\ e.seq = mark /\ e.of = order /\ e.kind = "received"
      /\ journal' = journal \cup {e}
    BY <1>1, <1>3 DEF Row, Entries
<1> HIDE DEF e
<1>5. \A d \in journal : d.seq # e.seq
    BY <1>2, <1>4 DEF Numbers
<1>6. RowsKept(journal') /\ journal' \subseteq Entries
    BY <1>1, <1>2, <1>3, <1>4, <1>5, RowAdded
<1>7. Received' = Received \cup {e} /\ Numbers' = Numbers \cup {mark}
    BY <1>4 DEF Received, Numbers
<1>8. TablesComplete(Received \cup {e}, checkpoints, setup.poison, lost)
    BY <1>1, <1>3, <1>4, ReceivedKeeps
<1>9. ListedIn(Received \cup {e}, state, seq)
    BY <1>1, <1>3, <1>4, ListedBeside
<1>10. NumbersInUse' /\ NumbersDistinct'
    <2>1. Reserved' = {} /\ UNCHANGED work
        BY DEF Reserved, PromisesAlone
    <2>2. {mark} \in SUBSET Reserved
        BY <1>2
    <2> QED BY <1>1, <1>2, <1>6, <1>7, <2>1, <2>2, LoopTakes
<1>11. PromisesAgree' /\ PromisesInTurn'
    <2>1. PromiseRows(journal') = PromiseRows(journal)
        BY <1>4 DEF PromiseRows
    <2> QED BY <2>1, LoopLeavesPromises
<1>12. StateComplete'
    <2>1. StateComplete
        BY LifeKnown
    <2> QED BY <1>4, <1>7, <2>1 DEF StateComplete
<1>13. OrdersOnce'
    <2>1. /\ \A d \in Received : d.of \notin todo
          /\ \A d, f \in Received : d.of = f.of => d = f
        BY DEF DurabilityCore, OrdersOnce
    <2>2. \A d \in Received' \ {e} : d.seq < e.seq
        BY <1>3, <1>4, <1>7
    <2> QED BY <1>3, <1>4, <1>7, <2>1, <2>2 DEF OrdersOnce
<1>14. DurabilityTypeOK'
    BY <1>6 DEF DurabilityCore, DurabilityTypeOK, PromisesAlone
<1>15. CheckpointsKept(checkpoints') /\ ListedIn(Received', state', seq')
       /\ TablesComplete(Received', checkpoints', setup'.poison, lost')
    BY <1>1, <1>7, <1>8, <1>9
<1> QED BY <1>6, <1>10, <1>11, <1>12, <1>13, <1>14, <1>15, CoreNext

(***************************************************************************)
(* The state, the tables and the promises after a step of the loop that    *)
(* neither receives nor saves anything and keeps the state.                *)
(***************************************************************************)
LEMMA QuietLoop ==
    ASSUME DurabilityCore, loop # "down", Received' = Received,
           UNCHANGED <<checkpoints, setup, lost, state>>, gaps => gaps', PromisesAlone,
           seq' \in Nat, seq' >= seq, PromiseRows(journal') = PromiseRows(journal),
           loop' \notin {"down", "handling"}, loop = "handling" => order \in setup.poison,
           loop' = "exiting" => \A c \in PromiseCallers : NoWork(c)
    PROVE  /\ TablesComplete(Received', checkpoints', setup'.poison, lost')
           /\ CheckpointsKept(checkpoints') /\ Latest' = Latest
           /\ ListedIn(Received', state', seq') /\ StateComplete'
           /\ PromisesAgree' /\ PromisesInTurn'
<1>1. /\ TablesComplete(Received', checkpoints', setup'.poison, lost')
      /\ CheckpointsKept(checkpoints') /\ Latest' = Latest
    BY QuietStates
<1>2. ReceivedRows(Received) /\ ListedIn(Received, state, seq) /\ seq \in Nat
    BY CoreKnown
<1>3. ListedIn(Received', state', seq')
    BY <1>2, ListedUp
<1>4. PromisesAgree' /\ PromisesInTurn'
    BY LoopLeavesPromises
<1>5. StateComplete
    BY LifeKnown
<1>6. StateComplete'
    BY <1>5 DEF StateComplete
<1> QED BY <1>1, <1>3, <1>4, <1>6

(***************************************************************************)
(* The append fails: the message is gone, its number is used up.           *)
(***************************************************************************)
LEMMA AppendFailsCore ==
    ASSUME DurabilityCore, AppendReceivedFails \/ AppendBatchFails PROVE DurabilityCore'
<1>1. /\ loop \in {"received", "batch"} /\ loop' = "idle" /\ order' = Nothing /\ gaps' = TRUE
      /\ Fault /\ PromisesAlone
      /\ UNCHANGED <<setup, todo, mark, state, seq, lastSeq, journal, checkpoints, lives, calls, lost>>
    BY DEF AppendReceivedFails, AppendBatchFails
<1>2. RowsKept(journal') /\ seq' \in Nat /\ seq' >= seq
    BY <1>1, CoreKnown
<1>3. Received' = Received /\ Numbers' = Numbers /\ PromiseRows(journal') = PromiseRows(journal)
    BY <1>1 DEF Received, Numbers
<1>4. /\ TablesComplete(Received', checkpoints', setup'.poison, lost')
      /\ CheckpointsKept(checkpoints')
      /\ ListedIn(Received', state', seq') /\ StateComplete'
      /\ PromisesAgree' /\ PromisesInTurn'
    BY <1>1, <1>2, <1>3, QuietLoop
<1>5. NumbersInUse' /\ NumbersDistinct'
    <2>1. Reserved' = {} /\ UNCHANGED work
        BY <1>1 DEF Reserved, PromisesAlone
    <2> QED BY <1>1, <1>2, <1>3, <2>1, LoopTakes
<1>6. OrdersOnce'
    BY <1>1, <1>3 DEF DurabilityCore, OrdersOnce
<1>7. DurabilityTypeOK'
    BY <1>1, DurabilityAssumption DEF DurabilityCore, DurabilityTypeOK, PromisesAlone, Fault
<1> QED BY <1>2, <1>4, <1>5, <1>6, <1>7, CoreNext

(***************************************************************************)
(* handle_message(): the message that was journaled last is applied last,  *)
(* or refused.                                                             *)
(***************************************************************************)
LEMMA HandleMessageCore ==
    ASSUME DurabilityCore, HandleMessage PROVE DurabilityCore'
<1> USE DEF HandleMessage
<1>1. /\ RowsKept(journal') /\ seq' \in Nat /\ seq' >= seq /\ loop' \in {"idle", "handled"}
      /\ Received' = Received /\ Numbers' = Numbers /\ PromiseRows(journal') = PromiseRows(journal)
    BY CoreKnown DEF Received, Numbers
<1>2. NumbersInUse' /\ NumbersDistinct'
    <2>1. Reserved = {} /\ Reserved' = {} /\ UNCHANGED work
        BY <1>1 DEF Reserved, PromisesAlone
    <2> QED BY <1>1, <2>1, LoopTakes
<1>3. /\ ReceivedRows(Received) /\ ListedIn(Received, state, seq) /\ state \in Seq(Orders)
      /\ order \in Orders \ todo
    BY CoreKnown DEF DurabilityCore, OrdersOnce
<1>4. OrdersOnce'
    BY <1>1, <1>3 DEF DurabilityCore, OrdersOnce
<1>5. CASE order \in setup.poison
    <2>1. /\ TablesComplete(Received', checkpoints', setup'.poison, lost')
          /\ CheckpointsKept(checkpoints')
          /\ ListedIn(Received', state', seq') /\ StateComplete'
          /\ PromisesAgree' /\ PromisesInTurn'
        BY <1>1, <1>5, QuietLoop
    <2>2. DurabilityTypeOK'
        BY <1>5 DEF DurabilityCore, DurabilityTypeOK, PromisesAlone
    <2> QED BY <1>1, <1>2, <1>4, <2>1, <2>2, CoreNext
<1>6. CASE order \notin setup.poison
    <2>1. /\ TablesComplete(Received', checkpoints', setup'.poison, lost')
          /\ CheckpointsKept(checkpoints')
        BY <1>1, QuietStates
    <2>2. PICK r \in Received : r.of = order /\ \A d \in Received \ {r} : d.seq < r.seq
        BY DEF DurabilityCore, OrdersOnce
    <2>3. r.of \notin ToSet(state)
        BY <2>2 DEF DurabilityCore, OrdersOnce
    <2>4. r.seq <= seq /\ StateComplete
        BY LifeKnown
    <2>5. ListedIn(Received, Append(state, order), seq) /\ ToSet(Append(state, order)) = ToSet(state) \cup {order}
        BY <1>3, <2>2, <2>3, <2>4, ListedNext
    <2>6. state' = Append(state, order) /\ loop' = "handled" /\ UNCHANGED order
        BY <1>6
    <2>7. ListedIn(Received', state', seq')
        BY <1>1, <2>5, <2>6
    <2>8. StateComplete'
        BY <1>1, <2>4, <2>5, <2>6 DEF StateComplete
    <2>9. PromisesAgree' /\ PromisesInTurn'
        BY <1>1, LoopLeavesPromises
    <2>10. state' \in Seq(Orders)
        BY <1>3, <2>6, AppendProperties
    <2>11. DurabilityTypeOK'
        BY <2>6, <2>10 DEF DurabilityCore, DurabilityTypeOK, PromisesAlone
    <2> QED BY <1>1, <1>2, <1>4, <2>1, <2>7, <2>8, <2>9, <2>11, CoreNext
<1> QED BY <1>5, <1>6

(***************************************************************************)
(* after_method() takes numbers above all others.                          *)
(***************************************************************************)
LEMMA AfterMethodCore ==
    ASSUME DurabilityCore, AfterMethod PROVE DurabilityCore'
<1> USE DEF AfterMethod
<1>1. seq \in Nat /\ Effects \in {0, 1} /\ Effects' = Effects
    BY CoreKnown DEF Effects
<1>2. RowsKept(journal') /\ seq' \in Nat /\ seq' >= seq /\ mark' \in Nat /\ seq' = mark' + Effects'
      /\ Received' = Received /\ Numbers' = Numbers /\ PromiseRows(journal') = PromiseRows(journal)
    BY <1>1, CoreKnown DEF Received, Numbers
<1>3. NumbersInUse' /\ NumbersDistinct'
    <2>1. Reserved = {} /\ Reserved' = mark'..(mark' + Effects') /\ UNCHANGED work
        BY DEF Reserved, PromisesAlone
    <2>2. seq' \in Reserved' /\ Reserved' \subseteq (seq + 1)..seq'
        BY <1>1, <1>2, <2>1
    <2> QED BY <1>2, <2>1, <2>2, LoopTakes
<1>4. /\ TablesComplete(Received', checkpoints', setup'.poison, lost')
      /\ CheckpointsKept(checkpoints')
      /\ ListedIn(Received', state', seq') /\ StateComplete'
      /\ PromisesAgree' /\ PromisesInTurn'
    BY <1>2, QuietLoop
<1>5. OrdersOnce'
    BY <1>2 DEF DurabilityCore, OrdersOnce
<1>6. DurabilityTypeOK'
    BY <1>2 DEF DurabilityCore, DurabilityTypeOK, PromisesAlone
<1> QED BY <1>2, <1>3, <1>4, <1>5, <1>6, CoreNext

(***************************************************************************)
(* The rows of one transaction of after_method().                          *)
(***************************************************************************)
LEMMA BatchAppended ==
    ASSUME DurabilityCore, loop = "batch",
           journal' = journal \cup {Row(mark, "processed", order, Nothing)}
                      \cup {Row(mark + i, "effect", order, Nothing) : i \in 1..Effects}
    PROVE  /\ RowsKept(journal') /\ journal' \subseteq Entries
           /\ Received' = Received /\ PromiseRows(journal') = PromiseRows(journal)
           /\ Numbers' = Numbers \cup Reserved
<1> DEFINE e == Row(mark, "processed", order, Nothing)
           f == Row(mark + 1, "effect", order, Nothing)
<1>1. /\ RowsKept(journal) /\ journal \subseteq Entries /\ mark \in Nat /\ Effects \in {0, 1}
    BY CoreKnown
<1>2. Reserved = mark..(mark + Effects) /\ (\A n \in Reserved : n > 0) /\ Reserved \cap Numbers = {}
    BY OpenKnown DEF Reserved
<1>3. order \in Orders
    BY DEF DurabilityCore, OrdersOnce
<1>4. /\ e \in Entries /\ e.seq = mark /\ e.kind = "processed"
      /\ f \in Entries /\ f.seq = mark + 1 /\ f.kind = "effect"
    BY <1>1, <1>3 DEF Row, Entries
<1>5. mark \in Reserved /\ \A d \in journal : d.seq # mark
    BY <1>1, <1>2 DEF Numbers
<1>6. RowsKept(journal \cup {e}) /\ journal \cup {e} \subseteq Entries
    <2> HIDE DEF e, f
    <2> QED BY <1>1, <1>2, <1>4, <1>5, RowAdded
<1>7. CASE Effects = 0
    <2>1. journal' = journal \cup {e}
        <3>1. 1..Effects = {}
            BY <1>7
        <3> QED BY <3>1
    <2>2. Reserved = {mark}
        BY <1>1, <1>2, <1>7
    <2> HIDE DEF e, f
    <2>3. Received' = Received /\ PromiseRows(journal') = PromiseRows(journal)
        BY <1>4, <2>1 DEF Received, PromiseRows
    <2>4. Numbers' = Numbers \cup {mark}
        BY <1>4, <2>1 DEF Numbers
    <2> QED BY <1>6, <2>1, <2>2, <2>3, <2>4
<1>8. CASE Effects = 1
    <2>1. journal' = journal \cup {e, f}
        <3>1. 1..Effects = {1}
            BY <1>8
        <3>2. {Row(mark + i, "effect", order, Nothing) : i \in 1..Effects} = {f}
            BY <3>1
        <3> HIDE DEF f
        <3> QED BY <3>2
    <2>2. Reserved = {mark, mark + 1}
        BY <1>1, <1>2, <1>8
    <2> HIDE DEF e, f
    <2>3. \A d \in journal \cup {e} : d.seq # f.seq
        BY <1>1, <1>2, <1>4, <2>2 DEF Numbers
    <2>4. RowsKept((journal \cup {e}) \cup {f}) /\ (journal \cup {e}) \cup {f} \subseteq Entries
        BY <1>1, <1>4, <1>6, <2>3, RowAdded
    <2>5. journal' = (journal \cup {e}) \cup {f}
        BY <2>1
    <2>6. Received' = Received /\ PromiseRows(journal') = PromiseRows(journal)
        BY <1>4, <2>1 DEF Received, PromiseRows
    <2>7. Numbers' = Numbers \cup {mark, mark + 1}
        BY <1>4, <2>1 DEF Numbers
    <2> QED BY <2>2, <2>4, <2>5, <2>6, <2>7
<1> QED BY <1>1, <1>7, <1>8

(***************************************************************************)
(* after_method() appends its rows.                                        *)
(***************************************************************************)
LEMMA AppendBatchCore ==
    ASSUME DurabilityCore, AppendBatch PROVE DurabilityCore'
<1> USE DEF AppendBatch
<1>1. /\ RowsKept(journal') /\ journal' \subseteq Entries
      /\ Received' = Received /\ PromiseRows(journal') = PromiseRows(journal)
      /\ Numbers' = Numbers \cup Reserved
    BY BatchAppended
<1>2. seq' \in Nat /\ seq' >= seq
    BY CoreKnown
<1>3. NumbersInUse' /\ NumbersDistinct'
    <2>1. Reserved' = {} /\ UNCHANGED work
        BY DEF Reserved, PromisesAlone
    <2>2. Reserved \in SUBSET Reserved
        OBVIOUS
    <2> QED BY <1>1, <1>2, <2>1, <2>2, LoopTakes
<1>4. /\ TablesComplete(Received', checkpoints', setup'.poison, lost')
      /\ CheckpointsKept(checkpoints')
      /\ ListedIn(Received', state', seq') /\ StateComplete'
      /\ PromisesAgree' /\ PromisesInTurn'
    BY <1>1, <1>2, QuietLoop
<1>5. OrdersOnce'
    BY <1>1 DEF DurabilityCore, OrdersOnce
<1>6. DurabilityTypeOK'
    BY <1>1 DEF DurabilityCore, DurabilityTypeOK, PromisesAlone
<1> QED BY <1>1, <1>3, <1>4, <1>5, <1>6, CoreNext

(***************************************************************************)
(* No checkpoint is saved, or the write of it failed, or an EXIT comes or  *)
(* has been handled: the loop goes on.                                     *)
(***************************************************************************)
LEMMA GoesOnCore ==
    ASSUME DurabilityCore, loop \in {"check", "idle", "exiting"}, loop' \in {"idle", "exiting"},
           loop' = "exiting" => \A c \in PromiseCallers : NoWork(c),
           order' \in {order, Nothing}, PromisesAlone,
           journalFaults' \in 0..MaxJournalFaults,
           UNCHANGED <<setup, todo, mark, state, seq, lastSeq, journal, checkpoints, lives, calls, gaps, lost>>
    PROVE  DurabilityCore'
<1>1. /\ RowsKept(journal') /\ seq' \in Nat /\ seq' >= seq
      /\ Received' = Received /\ Numbers' = Numbers /\ PromiseRows(journal') = PromiseRows(journal)
    BY CoreKnown DEF Received, Numbers
<1>2. NumbersInUse' /\ NumbersDistinct'
    <2>1. Reserved = {} /\ Reserved' = {} /\ UNCHANGED work
        BY DEF Reserved, PromisesAlone
    <2> QED BY <1>1, <2>1, LoopTakes
<1>3. /\ TablesComplete(Received', checkpoints', setup'.poison, lost')
      /\ CheckpointsKept(checkpoints')
      /\ ListedIn(Received', state', seq') /\ StateComplete'
      /\ PromisesAgree' /\ PromisesInTurn'
    BY <1>1, QuietLoop
<1>4. OrdersOnce'
    BY <1>1 DEF DurabilityCore, OrdersOnce
<1>5. DurabilityTypeOK'
    BY DEF DurabilityCore, DurabilityTypeOK, PromisesAlone
<1> QED BY <1>1, <1>2, <1>3, <1>4, <1>5, CoreNext

(***************************************************************************)
(* A checkpoint of the state, or of nothing at an EXIT, is saved under the *)
(* number of the counter.                                                  *)
(***************************************************************************)
LEMMA SavedCore ==
    ASSUME DurabilityCore, NEW st \in Seq(Orders), NEW raw \in BOOLEAN, loop \in {"check", "idle"},
           loop' \in {"idle", "exiting"},
           loop' = "exiting" => \A c \in PromiseCallers : NoWork(c),
           ListedIn(Received, st, seq), checkpoints' = SavedIn(checkpoints, seq, st, raw), lastSeq' \in Nat,
           lost \subseteq lost', ToSet(state) \subseteq lost' \cup ToSet(st), lost' \subseteq Orders,
           order' \in {order, Nothing}, PromisesAlone,
           UNCHANGED <<setup, todo, mark, state, seq, journal, lives, calls, journalFaults, gaps>>
    PROVE  DurabilityCore'
<1>1. /\ RowsKept(journal') /\ seq' \in Nat /\ seq \in Nat
      /\ Received' = Received /\ Numbers' = Numbers /\ PromiseRows(journal') = PromiseRows(journal)
      /\ TablesComplete(Received, checkpoints, setup.poison, lost)
      /\ CheckpointsKept(checkpoints) /\ ReceivedRows(Received)
      /\ Latest = LatestOf(checkpoints) /\ ListedIn(Received, state, seq)
    BY CoreKnown DEF Received, Numbers
<1>3. StateComplete /\ \A e \in Received : e.seq <= seq
    BY LifeKnown
<1>4. \A e \in Received : e.of \in setup.poison \cup lost' \cup ToSet(st)
    BY <1>3 DEF StateComplete
<1>5. TablesComplete(Received, checkpoints', setup.poison, lost') /\ CheckpointsKept(checkpoints')
    BY <1>1, <1>3, <1>4, SavedKeeps
<1>6. NumbersInUse' /\ NumbersDistinct'
    <2>1. Reserved = {} /\ Reserved' = {} /\ UNCHANGED work
        BY DEF Reserved, PromisesAlone
    <2>2. \A c \in checkpoints' : c \in checkpoints \/ c.seq = seq'
        BY DEF SavedIn
    <2>3. /\ loop # "down" /\ loop' # "down" /\ seq' \in Nat /\ seq' >= seq /\ seq' = seq
          /\ Numbers' = Numbers \cup {} /\ RowsKept(journal') /\ gaps' = gaps
        BY <1>1
    <2>4. /\ {} \in SUBSET Reserved
          /\ Reserved' \subseteq (Reserved \ {}) \cup ((seq + 1)..seq')
          /\ Reserved \subseteq {} \cup Reserved'
        BY <2>1
    <2> QED BY ONLY DurabilityCore, <2>1, <2>2, <2>3, <2>4, LoopTakes
<1>7. PromisesAgree' /\ PromisesInTurn'
    BY <1>1, LoopLeavesPromises
<1>8. StateComplete'
    BY <1>1, <1>3 DEF StateComplete
<1>9. OrdersOnce'
    BY <1>1 DEF DurabilityCore, OrdersOnce
<1>10. DurabilityTypeOK'
    <2>1. \A c \in checkpoints' : c.seq \in Nat /\ c.state \in Seq(Orders) /\ c.raw \in BOOLEAN
        BY <1>5 DEF CheckpointsKept
    <2> QED BY <2>1 DEF DurabilityCore, DurabilityTypeOK, PromisesAlone
<1>11. TablesComplete(Received', checkpoints', setup'.poison, lost') /\ ListedIn(Received', state', seq')
    BY <1>1, <1>5
<1> QED BY <1>1, <1>5, <1>6, <1>7, <1>8, <1>9, <1>10, <1>11, CoreNext

(***************************************************************************)
(* A checkpoint that restores nothing is saved: the messages of the state  *)
(* are left out.                                                           *)
(***************************************************************************)
LEMMA EmptySavedCore ==
    ASSUME DurabilityCore, loop \in {"check", "idle"}, loop' \in {"idle", "exiting"},
           loop' = "exiting" => \A c \in PromiseCallers : NoWork(c),
           checkpoints' = SavedIn(checkpoints, seq, <<>>, FALSE), lastSeq' \in Nat,
           lost' = lost \cup ToSet(state), order' \in {order, Nothing}, PromisesAlone,
           UNCHANGED <<setup, todo, mark, state, seq, journal, lives, calls, journalFaults, gaps>>
    PROVE  DurabilityCore'
<1>1. state \in Seq(Orders)
    BY CoreKnown
<1>2. <<>> \in Seq(Orders)
    OBVIOUS
<1>3. ListedIn(Received, <<>>, seq)
    BY DEF ListedIn
<1>4. ToSet(state) \subseteq Orders /\ lost \subseteq Orders
    BY <1>1 DEF ToSet, DurabilityCore, DurabilityTypeOK
<1>5. lost \subseteq lost' /\ ToSet(state) \subseteq lost' \cup ToSet(<<>>) /\ lost' \subseteq Orders
    BY <1>4
<1> QED BY <1>2, <1>3, <1>5, SavedCore

(***************************************************************************)
(* after_method() comes to the checkpoint.                                 *)
(***************************************************************************)
LEMMA CheckpointCore ==
    ASSUME DurabilityCore, Checkpoint \/ CheckpointFails PROVE DurabilityCore'
<1>1. CASE CheckpointFails
    <2>1. journalFaults' \in 0..MaxJournalFaults
        BY <1>1, DurabilityAssumption DEF CheckpointFails, Fault, DurabilityCore, DurabilityTypeOK
    <2> QED BY <1>1, <2>1, GoesOnCore DEF CheckpointFails
<1>2. CASE Checkpoint
    <2>1. /\ loop = "check" /\ loop' = "idle" /\ order' = Nothing /\ PromisesAlone
          /\ UNCHANGED <<setup, todo, mark, state, seq, journal, lives, calls, journalFaults, gaps>>
        BY <1>2 DEF Checkpoint
    <2>2. CASE /\ checkpoints' = SavedAt(seq, state, Raw) /\ lastSeq' = seq
               /\ lost' = IF Raw THEN lost ELSE lost \cup ToSet(state)
        <3>1. ListedIn(Received, state, seq) /\ state \in Seq(Orders) /\ seq \in Nat
            BY CoreKnown
        <3>2. lost \subseteq Orders /\ ToSet(state) \subseteq Orders
            BY <3>1 DEF DurabilityCore, DurabilityTypeOK, ToSet
        <3>3. CASE Raw
            <4>1. checkpoints' = SavedIn(checkpoints, seq, state, TRUE) /\ lost' = lost
                BY <2>2, <3>3 DEF SavedAt, SavedIn
            <4> QED BY <2>1, <2>2, <3>1, <3>2, <4>1, SavedCore
        <3>4. CASE ~Raw
            <4>1. checkpoints' = SavedIn(checkpoints, seq, <<>>, FALSE) /\ lost' = lost \cup ToSet(state)
                BY <2>2, <3>4 DEF SavedAt, SavedIn, Raw
            <4> QED BY <2>1, <2>2, <3>1, <3>2, <4>1, EmptySavedCore
        <3> QED BY <3>3, <3>4
    <2>3. CASE UNCHANGED <<checkpoints, lastSeq, lost>>
        <3>1. journalFaults' \in 0..MaxJournalFaults
            BY <2>1 DEF DurabilityCore, DurabilityTypeOK
        <3> QED BY <2>1, <2>3, <3>1, GoesOnCore
    <2> QED BY <1>2, <2>2, <2>3 DEF Checkpoint
<1> QED BY <1>1, <1>2

(***************************************************************************)
(* on_exit() and handle_exit().                                            *)
(***************************************************************************)
LEMMA OnExitCore ==
    ASSUME DurabilityCore, (\E saved \in BOOLEAN : OnExit(saved)) \/ ExitHandled PROVE DurabilityCore'
<1>1. journalFaults \in 0..MaxJournalFaults
    BY DEF DurabilityCore, DurabilityTypeOK
<1>2. CASE ExitHandled
    BY <1>1, <1>2, GoesOnCore DEF ExitHandled
<1>3. CASE \E saved \in BOOLEAN : OnExit(saved)
    <2>1. PICK saved \in BOOLEAN : OnExit(saved)
        BY <1>3
    <2>2. /\ loop = "idle" /\ loop' = "exiting" /\ PromisesAlone
          /\ \A c \in PromiseCallers : NoWork(c)
          /\ UNCHANGED <<setup, todo, order, mark, state, seq, journal, lives, calls, gaps>>
        BY <2>1 DEF OnExit
    <2>3. CASE Due(seq) /\ CanSave /\ saved
        <3>1. /\ checkpoints' = SavedAt(seq, <<>>, FALSE) /\ lastSeq' = seq
              /\ lost' = lost \cup ToSet(state) /\ UNCHANGED journalFaults
            BY <2>1, <2>3 DEF OnExit
        <3>2. checkpoints' = SavedIn(checkpoints, seq, <<>>, FALSE)
            BY <3>1 DEF SavedAt, SavedIn
        <3>3. seq \in Nat
            BY CoreKnown
        <3> QED BY <2>2, <3>1, <3>2, <3>3, EmptySavedCore
    <2>4. CASE ~(Due(seq) /\ CanSave /\ saved)
        <3>1. UNCHANGED <<checkpoints, lastSeq, lost>>
            BY <2>1, <2>4 DEF OnExit
        <3>2. journalFaults' \in 0..MaxJournalFaults
            <4>1. CASE saved
                BY <1>1, <2>1, <4>1 DEF OnExit
            <4>2. CASE ~saved
                BY <1>1, <2>1, <4>2, DurabilityAssumption DEF OnExit, Fault
            <4> QED BY <4>1, <4>2
        <3> QED BY <2>2, <3>1, <3>2, GoesOnCore
    <2> QED BY <2>3, <2>4
<1> QED BY <1>2, <1>3

-----------------------------------------------------------------------------
(* The end of a life.                                                      *)

(***************************************************************************)
(* What is left of a life are the tables.                                  *)
(***************************************************************************)
LEMMA EndCore ==
    ASSUME DurabilityCore, Ended, NumbersInUse' /\ NumbersDistinct', RowsKept(journal'),
           journal' \subseteq Entries, ReceivedRows(Received'), \A e \in Received' : e.of \notin todo,
           CheckpointsKept(checkpoints'),
           TablesComplete(Received', checkpoints', setup'.poison, lost'),
           journalFaults' \in 0..MaxJournalFaults, gaps' \in BOOLEAN, lost' \subseteq Orders,
           UNCHANGED <<setup, todo, lives, calls, overlapped>>
    PROVE  DurabilityCore'
<1>1. PromisesAgree' /\ PromisesInTurn'
    BY EndLeavesPromises
<1>2. /\ loop' = "down" /\ order' = Nothing /\ mark' = 0 /\ state' = <<>> /\ seq' = 0 /\ lastSeq' = 0
      /\ pending' = {} /\ resolved' = [p \in Promises |-> Nothing] /\ work' = Asleep
    BY DEF Ended
<1>3. StateComplete' /\ OrdersOnce'
    BY <1>2 DEF StateComplete, OrdersOnce, ReceivedRows
<1>4. ListedIn(Received', state', seq')
    BY <1>2 DEF ListedIn
<1>5. work' \in [PromiseCallers -> [at: {"none", "create", "created", "resolve", "resolved"},
                                   of: Promises, seq: Nat]]
    <2>1. (CHOOSE p \in Promises : TRUE) \in Promises
        BY DurabilityAssumption
    <2> QED BY <1>2, <2>1 DEF Asleep
<1>6. <<>> \in Seq(Orders)
    OBVIOUS
<1>7. \A c \in checkpoints' : c.seq \in Nat /\ c.state \in Seq(Orders) /\ c.raw \in BOOLEAN
    BY DEF CheckpointsKept
<1>8. DurabilityTypeOK'
    BY <1>2, <1>5, <1>6, <1>7 DEF DurabilityCore, DurabilityTypeOK
<1> QED BY <1>1, <1>3, <1>4, <1>8, CoreNext

(***************************************************************************)
(* The EXIT ends the loop, or the node goes down.                          *)
(***************************************************************************)
LEMMA CrashCore ==
    ASSUME DurabilityCore, ExitPropagates \/ Crash PROVE DurabilityCore'
<1>1. /\ Ended /\ loop # "down"
      /\ UNCHANGED <<setup, todo, journal, checkpoints, lives, calls, journalFaults, lost, overlapped>>
    BY DEF ExitPropagates, Crash
<1>2. /\ gaps' \in BOOLEAN
      /\ gaps => gaps'
      /\ ~gaps' => Reserved = {} /\ \A c \in PromiseCallers : PromiseReserved(c) = {}
    <2>1. gaps \in BOOLEAN
        BY DEF DurabilityCore, DurabilityTypeOK
    <2>2. CASE ExitPropagates
        BY <2>1, <2>2 DEF ExitPropagates, Reserved, PromiseReserved, NoWork
    <2>3. CASE Crash
        BY <2>1, <2>3 DEF Crash
    <2> QED BY <2>2, <2>3
<1>3. /\ RowsKept(journal') /\ journal' \subseteq Entries /\ Received' = Received /\ Numbers' = Numbers
      /\ ReceivedRows(Received) /\ \A e \in Received : e.of \notin todo
    BY <1>1, CoreKnown DEF Received, Numbers, DurabilityCore, OrdersOnce
<1>4. /\ TablesComplete(Received', checkpoints', setup'.poison, lost')
      /\ CheckpointsKept(checkpoints')
    BY <1>1, <1>2, <1>3, QuietStates
<1>5. NumbersInUse' /\ NumbersDistinct'
    <2>1. ~gaps' => Unwritten = {}
        BY <1>2 DEF Unwritten
    <2>2. ~gaps' => seq = 0 \/ seq \in Numbers'
        BY <1>1, <1>2, <1>3, <2>1 DEF DurabilityCore, NumbersInUse
    <2> QED BY <1>1, <1>2, <1>3, <2>2, EndTakes
<1>6. journalFaults' \in 0..MaxJournalFaults /\ lost' \subseteq Orders
    BY <1>1 DEF DurabilityCore, DurabilityTypeOK
<1> QED BY <1>1, <1>2, <1>3, <1>4, <1>5, <1>6, EndCore

(***************************************************************************)
(* What stop() leaves in the journal: a write on its way is a row, or its  *)
(* number is lost.                                                         *)
(***************************************************************************)
LEMMA StopLeaves ==
    ASSUME DurabilityCore, NEW landed \in BOOLEAN, NEW saved \in BOOLEAN, Stop(landed, saved)
    PROVE  /\ RowsKept(journal') /\ journal' \subseteq Entries
           /\ ReceivedRows(Received') /\ \A e \in Received' : e.of \notin todo /\ e.seq <= seq
           /\ TablesComplete(Received', checkpoints, setup.poison, lost')
           /\ ListedIn(Received', state, seq)
           /\ ~gaps' => Reserved \subseteq Numbers'
           /\ Numbers \subseteq Numbers'
           /\ \A e \in Received' : e.of \in setup.poison \cup lost' \cup ToSet(state)
           /\ lost' \subseteq Orders
<1> USE DEF Stop
<1>1. /\ RowsKept(journal) /\ journal \subseteq Entries
      /\ CheckpointsKept(checkpoints) /\ ReceivedRows(Received)
      /\ ListedIn(Received, state, seq) /\ seq \in Nat /\ mark \in Nat
      /\ Latest = LatestOf(checkpoints)
      /\ TablesComplete(Received, checkpoints, setup.poison, lost)
    BY CoreKnown
<1>2. StateComplete /\ \A e \in Received : e.seq <= seq /\ e.of \notin todo
    BY LifeKnown DEF DurabilityCore, OrdersOnce
<1>3. lost \subseteq lost' /\ lost \subseteq Orders /\ loop # "down"
    BY DEF DurabilityCore, DurabilityTypeOK
<1>0. lost' \subseteq lost \cup {order} \cup ToSet(state)
    BY DEF Captured
<1>7. ToSet(state) \subseteq Orders
    BY CoreKnown DEF ToSet
<1>4. loop = "handling" => order \in Orders /\ order \in lost'
    BY DEF DurabilityCore, OrdersOnce
<1>5. CASE loop = "received" /\ landed
    <2> DEFINE e == Row(mark, "received", order, Nothing)
    <2>1. Reserved = {mark} /\ mark > 0 /\ mark \notin Numbers /\ mark <= seq
        BY <1>3, <1>5, OpenKnown DEF Reserved
    <2>2. /\ order \in Orders /\ order \notin todo /\ order \notin ToSet(state)
          /\ \A d \in Received : d.of # order /\ d.seq < mark
          /\ Latest.seq < mark \/ order \in lost
        BY <1>5 DEF DurabilityCore, OrdersOnce
    <2>3. /\ e \in Entries /\ e.seq = mark /\ e.of = order /\ e.kind = "received"
          /\ journal' = journal \cup {e} /\ order \in lost'
        BY <1>1, <1>5, <2>2 DEF Row, Entries
    <2> HIDE DEF e
    <2>4. \A d \in journal : d.seq # e.seq
        BY <2>1, <2>3 DEF Numbers
    <2>5. RowsKept(journal') /\ journal' \subseteq Entries
        BY <1>1, <2>1, <2>2, <2>3, <2>4, RowAdded
    <2>6. Received' = Received \cup {e} /\ Numbers' = Numbers \cup {mark}
        BY <2>3 DEF Received, Numbers
    <2>7. /\ TablesComplete(Received \cup {e}, checkpoints, setup.poison, lost)
          /\ ReceivedRows(Received \cup {e})
        BY <1>1, <2>2, <2>3, ReceivedKeeps
    <2>8. TablesComplete(Received \cup {e}, checkpoints, setup.poison, lost')
        BY <1>3, <2>7, CompleteStill
    <2>9. ListedIn(Received \cup {e}, state, seq)
        BY <1>1, <2>2, <2>3, ListedBeside
    <2>10. \A d \in Received' : d.of \in setup.poison \cup lost' \cup ToSet(state)
        BY <1>2, <1>3, <1>5, <2>3, <2>6 DEF StateComplete
    <2>11. \A d \in Received' : d.of \notin todo /\ d.seq <= seq
        BY <1>2, <2>1, <2>2, <2>3, <2>6
    <2>12. lost' \subseteq Orders
        BY <1>0, <1>3, <1>7, <2>2
    <2> QED BY <2>1, <2>5, <2>6, <2>7, <2>8, <2>9, <2>10, <2>11, <2>12
<1>6. CASE ~(loop = "received" /\ landed)
    <2>1. /\ RowsKept(journal') /\ journal' \subseteq Entries /\ Received' = Received
          /\ Numbers \subseteq Numbers'
          /\ ~gaps' => Reserved \subseteq Numbers'
        <3>1. CASE landed
            <4>1. loop = "batch"
                BY <1>6, <3>1
            <4>2. journal' = journal \cup {Row(mark, "processed", order, Nothing)}
                             \cup {Row(mark + i, "effect", order, Nothing) : i \in 1..Effects}
                BY <3>1, <4>1
            <4>3. /\ RowsKept(journal') /\ journal' \subseteq Entries
                  /\ Received' = Received /\ Numbers' = Numbers \cup Reserved
                BY <4>1, <4>2, BatchAppended
            <4> QED BY <4>3
        <3>2. CASE ~landed
            <4>1. journal' = journal
                BY <3>2
            <4>2. ~gaps' => Reserved = {}
                BY <3>2 DEF Reserved
            <4> QED BY <1>1, <4>1, <4>2 DEF Received, Numbers
        <3> QED BY <3>1, <3>2
    <2>2. TablesComplete(Received, checkpoints, setup.poison, lost')
        BY <1>1, <1>3, CompleteStill
    <2>3. \A d \in Received : d.of \in setup.poison \cup lost' \cup ToSet(state)
        BY <1>2, <1>3, <1>4 DEF StateComplete
    <2>4. lost' \subseteq Orders
        <3>1. lost' \subseteq lost \cup ToSet(state) \/ loop = "handling"
            BY <1>6 DEF Captured
        <3> QED BY <1>0, <1>3, <1>4, <1>7, <3>1
    <2> QED BY <1>1, <1>2, <2>1, <2>2, <2>3, <2>4
<1> QED BY <1>5, <1>6

(***************************************************************************)
(* stop() aborts the loop and saves the state.                             *)
(***************************************************************************)
LEMMA StopCore ==
    ASSUME DurabilityCore, NEW landed \in BOOLEAN, NEW saved \in BOOLEAN, Stop(landed, saved)
    PROVE  DurabilityCore'
<1>1. /\ RowsKept(journal') /\ journal' \subseteq Entries
      /\ ReceivedRows(Received') /\ \A e \in Received' : e.of \notin todo /\ e.seq <= seq
    BY StopLeaves
<1>2. /\ TablesComplete(Received', checkpoints, setup.poison, lost')
      /\ ListedIn(Received', state, seq)
      /\ ~gaps' => Reserved \subseteq Numbers'
      /\ Numbers \subseteq Numbers'
      /\ \A e \in Received' : e.of \in setup.poison \cup lost' \cup ToSet(state)
      /\ lost' \subseteq Orders
    BY StopLeaves
<1>3. /\ Ended /\ loop # "down" /\ \A c \in PromiseCallers : NoWork(c)
      /\ UNCHANGED <<setup, todo, lives, calls, overlapped>>
    BY DEF Stop
<1>4. /\ gaps => gaps'
      /\ gaps' \in BOOLEAN
    BY DEF Stop, DurabilityCore, DurabilityTypeOK
<1>5. journalFaults' \in 0..MaxJournalFaults
    <2>1. journalFaults \in 0..MaxJournalFaults
        BY DEF DurabilityCore, DurabilityTypeOK
    <2>2. CASE saved
        BY <2>1, <2>2 DEF Stop
    <2>3. CASE ~saved
        BY <2>1, <2>3, DurabilityAssumption DEF Stop, Fault
    <2> QED BY <2>2, <2>3
<1>6. /\ CheckpointsKept(checkpoints) /\ Latest = LatestOf(checkpoints)
      /\ seq \in Nat /\ state \in Seq(Orders)
    BY CoreKnown
<1>8. /\ TablesComplete(Received', checkpoints', setup.poison, lost')
      /\ CheckpointsKept(checkpoints')
      /\ \A c \in checkpoints' : c \in checkpoints \/ c.seq = seq
    <2>1. CASE checkpoints' = checkpoints
        BY <1>2, <1>6, <2>1
    <2>2. CASE checkpoints' = SavedAt(seq, Captured, Raw) /\ (Raw \/ ToSet(state) \subseteq lost')
        <3>1. PICK st \in Seq(Orders), raw \in BOOLEAN :
                /\ checkpoints' = SavedIn(checkpoints, seq, st, raw)
                /\ st = state \/ (st = <<>> /\ ToSet(state) \subseteq lost')
            <4>1. <<>> \in Seq(Orders)
                OBVIOUS
            <4>2. CASE Raw
                <5>1. checkpoints' = SavedIn(checkpoints, seq, state, TRUE)
                    BY <2>2, <4>2 DEF SavedAt, SavedIn, Captured
                <5> QED BY <1>6, <5>1
            <4>3. CASE ~Raw
                <5>1. checkpoints' = SavedIn(checkpoints, seq, <<>>, FALSE)
                    BY <2>2, <4>3 DEF SavedAt, SavedIn, Captured, Raw
                <5> QED BY <2>2, <4>1, <4>3, <5>1
            <4> QED BY <4>2, <4>3
        <3>2. ListedIn(Received', st, seq) /\ \A e \in Received' : e.of \in setup.poison \cup lost' \cup ToSet(st)
            <4>1. CASE st = state
                BY <1>2, <4>1
            <4>2. CASE st = <<>> /\ ToSet(state) \subseteq lost'
                <5>1. ListedIn(Received', st, seq)
                    BY <4>2 DEF ListedIn
                <5> QED BY <1>2, <4>2, <5>1
            <4> QED BY <3>1, <4>1, <4>2
        <3>3. /\ TablesComplete(Received', SavedIn(checkpoints, seq, st, raw), setup.poison, lost')
              /\ CheckpointsKept(SavedIn(checkpoints, seq, st, raw))
            BY <1>1, <1>2, <1>6, <3>2, SavedKeeps
        <3>4. \A c \in SavedIn(checkpoints, seq, st, raw) : c \in checkpoints \/ c.seq = seq
            BY DEF SavedIn
        <3> QED BY <3>1, <3>3, <3>4
    <2>3. \/ checkpoints' = checkpoints
          \/ checkpoints' = SavedAt(seq, Captured, Raw) /\ (Raw \/ ToSet(state) \subseteq lost')
        BY DEF Stop, Captured
    <2> QED BY <2>1, <2>2, <2>3
<1>9. NumbersInUse' /\ NumbersDistinct'
    <2>1. Unwritten = Reserved
        BY <1>3 DEF Unwritten, PromiseReserved, NoWork
    <2>2. ~gaps => seq = 0 \/ seq \in Numbers \cup Unwritten
        BY <1>3 DEF DurabilityCore, NumbersInUse
    <2>3. ~gaps' => seq = 0 \/ seq \in Numbers'
        BY <1>2, <1>4, <2>1, <2>2
    <2> QED BY <1>1, <1>3, <1>4, <1>8, <2>3, EndTakes
<1> QED BY <1>1, <1>2, <1>3, <1>4, <1>5, <1>8, <1>9, EndCore

-----------------------------------------------------------------------------
(* Activation.                                                             *)

(***************************************************************************)
(* on_attach() starts from the tables.                                     *)
(***************************************************************************)
LEMMA AttachCore ==
    ASSUME DurabilityCore, Attach PROVE DurabilityCore'
<1> USE DEF Attach
<1>1. /\ RowsKept(journal) /\ journal \subseteq Entries
      /\ CheckpointsKept(checkpoints) /\ ReceivedRows(Received)
      /\ TablesComplete(Received, checkpoints, setup.poison, lost)
      /\ \A e \in Received : e.seq \in Numbers /\ e.seq \in Nat /\ e.of \in Orders
    BY CoreKnown DEF ReceivedRows
<1>2. /\ LastNumber \in Nat /\ \A n \in Numbers : n <= LastNumber
      /\ journal # {} => LastNumber \in Numbers
      /\ journal = {} => LastNumber = 0
    BY <1>1, LastNumberKnown
<1>3. /\ seq' = LastNumber /\ loop' = "idle" /\ loop = "down"
      /\ Received' = Received /\ Numbers' = Numbers /\ journal' = journal
    BY DEF AttachedSeq, Received, Numbers
<1>4. \A c \in PromiseCallers : NoWork(c) /\ NoWork(c)'
    BY DEF DurabilityCore, PromisesInTurn, NoWork
<1>5. NumbersDistinct' /\ Unwritten' = {}
    <2>1. Reserved' = {} /\ \A c \in PromiseCallers : PromiseReserved(c)' = {}
        BY <1>3, <1>4 DEF Reserved, PromiseReserved, NoWork
    <2>2. Cardinality(Numbers') = Cardinality(journal')
        BY <1>3 DEF DurabilityCore, NumbersDistinct
    <2> QED BY <2>1, <2>2 DEF NumbersDistinct, Unwritten
<1>6. NumbersInUse'
    <2>1. \A n \in Numbers' : n \in Nat /\ n <= seq'
        BY <1>1, <1>2, <1>3, CoreKnown
    <2>2. ~gaps => \A c \in checkpoints : c.seq = 0 \/ \E n \in Numbers : c.seq <= n
        BY <1>3 DEF DurabilityCore, NumbersInUse
    <2>3. \A c \in checkpoints : c.seq \in Nat
        BY <1>1 DEF CheckpointsKept
    <2>4. ~gaps => \A c \in checkpoints : c.seq <= seq'
        BY <1>2, <1>3, <2>1, <2>2, <2>3
    <2> QED BY <1>2, <1>3, <1>5, <2>1, <2>4 DEF NumbersInUse
<1>7. /\ Recovered \in Seq(Orders)
      /\ \A i \in DOMAIN Recovered : \E e \in Received : e.of = Recovered[i]
      /\ \A i, j \in DOMAIN Recovered : i < j =>
           (\A d, e \in Received : d.of = Recovered[i] /\ e.of = Recovered[j] => d.seq < e.seq)
      /\ \A e \in Received : e.of \in setup.poison \cup lost \cup ToSet(Recovered)
    BY RecoveredInOrder DEF DurabilityCore
<1>8. \A e \in Received : e.of \in Orders \ todo
    BY <1>1 DEF DurabilityCore, OrdersOnce
<1>9. /\ state' \in Seq(Orders) /\ ListedIn(Received', state', seq') /\ StateComplete'
      /\ TablesComplete(Received', checkpoints', setup'.poison, lost')
    <2>1. CASE setup.replay
        <3>1. state' = Recovered /\ lost' = lost
            BY <2>1
        <3>2. \A i \in DOMAIN Recovered : \E e \in Received : e.of = Recovered[i] /\ e.seq <= seq'
            BY <1>1, <1>2, <1>3, <1>7
        <3>3. ListedIn(Received', state', seq')
            BY <1>3, <1>7, <3>1, <3>2 DEF ListedIn
        <3>4. StateComplete'
            BY <1>3, <1>7, <3>1 DEF StateComplete
        <3> QED BY <1>1, <1>3, <1>7, <3>1, <3>3, <3>4
    <2>2. CASE ~setup.replay
        <3>1. state' = <<>> /\ lost' = Orders \ todo
            BY <2>2
        <3>2. <<>> \in Seq(Orders)
            OBVIOUS
        <3>3. ListedIn(Received', state', seq')
            BY <3>1 DEF ListedIn
        <3>4. StateComplete'
            BY <1>3, <1>8, <3>1 DEF StateComplete
        <3>5. TablesComplete(Received, checkpoints, setup.poison, lost')
            BY <1>1, <1>8, <3>1 DEF TablesComplete
        <3> QED BY <1>3, <3>1, <3>2, <3>3, <3>4, <3>5
    <2> QED BY <2>1, <2>2
<1>10. OrdersOnce'
    BY <1>3 DEF DurabilityCore, OrdersOnce
<1>11. PromisesAgree' /\ PromisesInTurn'
    <2>1. PromiseRows(journal') = PromiseRows(journal)
        BY <1>3
    <2>2. \A p \in Promises : LoadedResult(p)' = LoadedResult(p)
        BY <2>1, LoadedSame
    <2>3. LoadedPending' = LoadedPending
        BY <2>1, LoadedSame
    <2>4. pending' = LoadedPending /\ \A p \in Promises : resolved'[p] = LoadedResult(p)
        OBVIOUS
    <2>5. PromisesAgree'
        BY <2>2, <2>3, <2>4 DEF PromisesAgree
    <2> QED BY <1>4, <2>5 DEF PromisesInTurn
<1>12. DurabilityTypeOK'
    <2>1. LoadedPending \subseteq Promises
        BY DEF LoadedPending
    <2>2. \A p \in Promises : LoadedResult(p) \in PromiseCallers \cup {Nothing}
        BY <1>1, LoadedKnown
    <2>3. resolved' \in [Promises -> PromiseCallers \cup {Nothing}]
        BY <2>2
    <2>4. seq' \in Nat /\ lastSeq' \in Nat
        BY <1>2, <1>3
    <2>5. lives' \in 0..MaxLives
        BY DurabilityAssumption DEF DurabilityCore, DurabilityTypeOK
    <2>6. lost' \subseteq Orders
        BY DEF DurabilityCore, DurabilityTypeOK
    <2> QED BY <1>3, <1>9, <2>1, <2>3, <2>4, <2>5, <2>6 DEF DurabilityCore, DurabilityTypeOK
<1> QED BY <1>1, <1>5, <1>6, <1>9, <1>10, <1>11, <1>12, CoreNext

-----------------------------------------------------------------------------
(* The steps of a promise call.                                            *)

(***************************************************************************)
(* A call leaves the loop and its tables alone.                            *)
(***************************************************************************)
LEMMA CallLeavesLoop ==
    ASSUME DurabilityCore, loop # "down", LoopAlone, UNCHANGED setup, Received' = Received,
           gaps => gaps', seq' \in Nat, seq' >= seq
    PROVE  /\ TablesComplete(Received', checkpoints', setup'.poison, lost')
           /\ CheckpointsKept(checkpoints') /\ ListedIn(Received', state', seq')
           /\ StateComplete' /\ OrdersOnce'
<1>1. /\ TablesComplete(Received', checkpoints', setup'.poison, lost')
      /\ CheckpointsKept(checkpoints') /\ Latest' = Latest
    BY QuietStates DEF LoopAlone
<1>2. ReceivedRows(Received) /\ ListedIn(Received, state, seq) /\ seq \in Nat
    BY CoreKnown
<1>3. ListedIn(Received', state', seq')
    BY <1>2, ListedUp DEF LoopAlone
<1>4. StateComplete
    BY LifeKnown
<1>5. StateComplete'
    BY <1>4 DEF StateComplete, LoopAlone
<1>6. OrdersOnce'
    BY <1>1 DEF DurabilityCore, OrdersOnce, LoopAlone
<1> QED BY <1>1, <1>3, <1>5, <1>6

\* What PromisesInTurn says of caller c and its promise p.
InTurn(c, p) ==
    \/ p \in overlapped
    \/ work[c].at = "create" /\ p \notin pending /\ resolved[p] = Nothing
       /\ LoadedResult(p) = Nothing /\ p \notin LoadedPending
    \/ work[c].at = "created" /\ p \in LoadedPending /\ p \notin pending /\ resolved[p] = Nothing
    \/ work[c].at = "resolve" /\ p \in pending /\ p \in LoadedPending /\ resolved[p] = LoadedResult(p)
    \/ work[c].at = "resolved" /\ p \in pending /\ LoadedResult(p) = c

(***************************************************************************)
(* The calls in the invariant.                                             *)
(***************************************************************************)
LEMMA InTurnKnown ==
    ASSUME DurabilityCore, NEW c \in PromiseCallers, ~NoWork(c)
    PROVE  work[c].of \in Promises /\ InTurn(c, work[c].of) /\ loop \notin {"down", "exiting"}
<1>1. work[c].of \in Promises
    BY DEF DurabilityCore, DurabilityTypeOK
<1> QED BY <1>1 DEF DurabilityCore, PromisesInTurn, InTurn

(***************************************************************************)
(* The calls after a step.                                                 *)
(***************************************************************************)
LEMMA InTurnNext ==
    ASSUME loop' \notin {"down", "exiting"},
           \A c, d \in PromiseCallers :
             c # d /\ ~NoWork(c)' /\ ~NoWork(d)' /\ work'[c].of = work'[d].of => work'[c].of \in overlapped',
           \A c \in PromiseCallers : work'[c].of \in Promises,
           \A c \in PromiseCallers, p \in Promises : ~NoWork(c)' /\ work'[c].of = p => InTurn(c, p)'
    PROVE  PromisesInTurn'
<1>1. ASSUME NEW c \in PromiseCallers, ~NoWork(c)'
      PROVE  \E p \in Promises : p = work'[c].of /\ InTurn(c, p)'
    BY <1>1
<1> QED BY <1>1 DEF PromisesInTurn, InTurn

(***************************************************************************)
(* A call takes a number after its check.                                  *)
(***************************************************************************)
LEMMA BeginCore ==
    ASSUME DurabilityCore, NEW c \in PromiseCallers, NEW p \in Promises,
           CreatePromise(c, p) \/ ResolvePromise(c, p)
    PROVE  DurabilityCore'
<1>1. PICK kind \in {"create", "resolve"} :
         /\ Begin(c, p, kind)
         /\ kind = "create" => p \notin pending /\ resolved[p] = Nothing
         /\ kind = "resolve" => p \in pending
    BY DEF CreatePromise, ResolvePromise
<1>2. /\ loop \notin {"down", "exiting"} /\ NoWork(c) /\ seq' = seq + 1 /\ calls < MaxPromiseCalls
      /\ work' = [work EXCEPT ![c] = [at |-> kind, of |-> p, seq |-> seq + 1]] /\ calls' = calls + 1
      /\ overlapped' = IF \E d \in PromiseCallers \ {c} : ~NoWork(d) /\ work[d].of = p
                       THEN overlapped \cup {p} ELSE overlapped
      /\ LoopAlone /\ UNCHANGED <<setup, journal, pending, resolved, lives, journalFaults, gaps>>
    BY <1>1 DEF Begin, Up
<1>3. work \in [PromiseCallers -> [at: {"none", "create", "created", "resolve", "resolved"},
                                  of: Promises, seq: Nat]]
    BY DEF DurabilityCore, DurabilityTypeOK
<1>4. /\ RowsKept(journal') /\ seq \in Nat /\ seq' \in Nat /\ seq' >= seq
      /\ Received' = Received /\ Numbers' = Numbers /\ PromiseRows(journal') = PromiseRows(journal)
    BY <1>2, CoreKnown DEF Received, Numbers
<1>5. work'[c].at = kind /\ work'[c].of = p /\ work'[c].seq = seq + 1
      /\ \A d \in PromiseCallers \ {c} : work'[d] = work[d]
    BY <1>2, <1>3
<1>6. NumbersInUse' /\ NumbersDistinct'
    <2>1. PromiseReserved(c) = {} /\ PromiseReserved(c)' = {seq + 1}
        BY <1>1, <1>2, <1>5 DEF PromiseReserved, NoWork
    <2>2. seq' \in PromiseReserved(c)' /\ PromiseReserved(c)' \subseteq (seq + 1)..seq'
        BY <1>2, <1>4, <2>1
    <2>3. UNCHANGED <<loop, mark, order, checkpoints>>
        BY <1>2 DEF LoopAlone
    <2> QED BY <1>2, <1>4, <1>5, <2>1, <2>2, <2>3, CallTakes
<1>7. /\ TablesComplete(Received', checkpoints', setup'.poison, lost')
      /\ CheckpointsKept(checkpoints') /\ ListedIn(Received', state', seq')
      /\ StateComplete' /\ OrdersOnce'
    BY <1>2, <1>4, CallLeavesLoop
<1>8. \A q \in Promises : LoadedResult(q)' = LoadedResult(q)
    BY <1>4, LoadedSame
<1>9. LoadedPending' = LoadedPending
    BY <1>4, LoadedSame
<1>10. /\ ~NoWork(c)' /\ \A d \in PromiseCallers \ {c} : NoWork(d)' <=> NoWork(d)
       /\ \A d \in PromiseCallers : work[d].of \in Promises /\ work'[d].of \in Promises
    BY <1>1, <1>3, <1>5 DEF NoWork
<1>11. overlapped \subseteq overlapped'
    BY <1>2
<1>12. PromisesAgree'
    BY <1>2, <1>5, <1>8, <1>9, <1>10, <1>11 DEF DurabilityCore, PromisesAgree, LoopAlone
<1>13. PromisesInTurn'
    <2>1. PromisesInTurn /\ PromisesAgree
        BY DEF DurabilityCore
    <2>2. loop' = loop
        BY <1>2 DEF LoopAlone
    <2>3. ASSUME NEW d \in PromiseCallers, NEW e \in PromiseCallers, d # e,
                 ~NoWork(d)', ~NoWork(e)', work'[d].of = work'[e].of
          PROVE  work'[d].of \in overlapped'
        <3>1. CASE d # c /\ e # c
            BY <1>5, <1>10, <1>11, <2>1, <2>3, <3>1 DEF PromisesInTurn
        <3>2. CASE d = c
            BY <1>2, <1>5, <1>10, <2>3, <3>2
        <3>3. CASE e = c
            BY <1>2, <1>5, <1>10, <2>3, <3>3
        <3> QED BY <3>1, <3>2, <3>3
    <2>4. ASSUME p \notin overlapped'
          PROVE  resolved[p] = LoadedResult(p) /\ (p \in pending <=> p \in LoadedPending)
        <3>1. \A d \in PromiseCallers : NoWork(d) \/ work[d].of # p
            BY <1>2, <2>4
        <3> QED BY <1>2, <1>11, <2>1, <2>4, <3>1 DEF PromisesAgree
    <2>5. ASSUME NEW d \in PromiseCallers, NEW q \in Promises, ~NoWork(d)', work'[d].of = q
          PROVE  InTurn(d, q)'
        <3>1. CASE d = c
            <4>1. q = p /\ work'[d].at = kind
                BY <1>5, <2>5, <3>1
            <4> QED BY <1>1, <1>2, <1>8, <1>9, <2>4, <4>1 DEF InTurn
        <3>2. CASE d # c
            <4>1. ~NoWork(d) /\ work[d].of = q /\ work'[d] = work[d]
                BY <1>5, <1>10, <2>5, <3>2
            <4>2. InTurn(d, q)
                BY <4>1, InTurnKnown
            <4> QED BY <1>2, <1>8, <1>9, <1>11, <4>1, <4>2 DEF InTurn
        <3> QED BY <3>1, <3>2
    <2> QED BY <1>2, <1>10, <2>2, <2>3, <2>5, InTurnNext
<1>14. DurabilityTypeOK'
    <2>1. work' \in [PromiseCallers -> [at: {"none", "create", "created", "resolve", "resolved"},
                                       of: Promises, seq: Nat]]
        BY <1>1, <1>2, <1>3, <1>4
    <2>2. calls' \in 0..MaxPromiseCalls
        BY <1>2, DurabilityAssumption DEF DurabilityCore, DurabilityTypeOK
    <2>3. overlapped' \subseteq Promises
        BY <1>2 DEF DurabilityCore, DurabilityTypeOK
    <2> QED BY <1>2, <1>4, <2>1, <2>2, <2>3 DEF DurabilityCore, DurabilityTypeOK, LoopAlone
<1> QED BY <1>4, <1>6, <1>7, <1>12, <1>13, <1>14, CoreNext

(***************************************************************************)
(* A row of a promise changes what is loaded of that promise only.         *)
(***************************************************************************)
LEMMA LoadedBeside ==
    ASSUME NEW e, journal' = journal \cup {e}, NEW q \in Promises, e.of # q
    PROVE  LoadedResult(q)' = LoadedResult(q) /\ (q \in LoadedPending' <=> q \in LoadedPending)
<1>1. Resolutions(q)' = Resolutions(q)
    BY DEF Resolutions
<1>2. LoadedResult(q)' = LoadedResult(q)
    BY <1>1 DEF LoadedResult
<1>3. (\E d \in journal' : d.kind = "created" /\ d.of = q)
      <=> (\E d \in journal : d.kind = "created" /\ d.of = q)
    OBVIOUS
<1> QED BY <1>2, <1>3 DEF LoadedPending

(***************************************************************************)
(* The first resolution of a promise is the one that is loaded.            *)
(***************************************************************************)
LEMMA FirstResolution ==
    ASSUME NEW e, journal' = journal \cup {e}, e.kind = "resolved", e.seq \in Nat,
           NEW p \in Promises, e.of = p, Resolutions(p) = {}
    PROVE  LoadedResult(p)' = e.by
<1>1. Resolutions(p)' = {e}
    BY DEF Resolutions
<1>2. (CHOOSE d \in {e} : \A f \in {e} : f.seq <= d.seq) = e
    <2>1. e \in {e} /\ \A f \in {e} : f.seq <= e.seq
        OBVIOUS
    <2> QED BY <2>1
<1>3. LoadedResult(p)' = (CHOOSE d \in {e} : \A f \in {e} : f.seq <= d.seq).by
    BY <1>1 DEF LoadedResult
<1> QED BY <1>2, <1>3

(***************************************************************************)
(* The entry of a call is appended.                                        *)
(***************************************************************************)
LEMMA AppendPromiseCore ==
    ASSUME DurabilityCore, NEW c \in PromiseCallers, AppendPromise(c) PROVE DurabilityCore'
<1>0. PICK p \in Promises, n \in Nat : work[c].of = p /\ work[c].seq = n
    BY DEF DurabilityCore, DurabilityTypeOK
<1> DEFINE done == IF work[c].at = "create" THEN "created" ELSE "resolved"
           by == IF done = "created" THEN Nothing ELSE c
           e == Row(n, done, p, by)
<1>1. /\ work[c].at \in {"create", "resolve"} /\ journal' = journal \cup {e}
      /\ work' = [work EXCEPT ![c].at = done]
      /\ LoopAlone /\ UNCHANGED <<setup, seq, pending, resolved, overlapped, lives, calls, journalFaults, gaps>>
    BY <1>0 DEF AppendPromise
<1>2. work \in [PromiseCallers -> [at: {"none", "create", "created", "resolve", "resolved"},
                                  of: Promises, seq: Nat]]
    BY DEF DurabilityCore, DurabilityTypeOK
<1>3. ~NoWork(c) /\ p \in Promises /\ n \in Nat /\ done \in {"created", "resolved"}
    BY <1>1, <1>2 DEF NoWork
<1>4. loop \notin {"down", "exiting"} /\ InTurn(c, p)
    BY <1>0, <1>3, InTurnKnown
<1>5. /\ e \in Entries /\ e.seq = n /\ e.kind = done /\ e.of = p /\ e.by = by
      /\ done = "resolved" => by = c
    BY <1>1, <1>3 DEF Row, Entries
<1>6. /\ work'[c].at = done /\ work'[c].of = p /\ work'[c].seq = n
      /\ \A d \in PromiseCallers \ {c} : work'[d] = work[d]
    BY <1>0, <1>1, <1>2
<1>7. done = "created" <=> work[c].at = "create"
    OBVIOUS
<1> HIDE DEF e, done, by
<1>8. PromiseReserved(c) = {n} /\ PromiseReserved(c)' = {} /\ n > 0 /\ n \notin Numbers
    <2>1. PromiseReserved(c) = {n} /\ PromiseReserved(c)' = {}
        BY <1>0, <1>1, <1>3, <1>6 DEF PromiseReserved
    <2> QED BY <2>1, OpenKnown
<1>9. /\ RowsKept(journal) /\ journal \subseteq Entries /\ seq \in Nat /\ seq' = seq
    BY <1>1, CoreKnown
<1>10. RowsKept(journal') /\ journal' \subseteq Entries
    <2>1. \A d \in journal : d.seq # e.seq
        BY <1>5, <1>8 DEF Numbers
    <2> QED BY <1>1, <1>3, <1>5, <1>8, <1>9, <2>1, RowAdded
<1>11. Received' = Received /\ Numbers' = Numbers \cup {n}
    BY <1>1, <1>3, <1>5 DEF Received, Numbers
<1>12. NumbersInUse' /\ NumbersDistinct'
    <2>1. UNCHANGED <<loop, mark, order, checkpoints>>
        BY <1>1 DEF LoopAlone
    <2>2. {n} \in SUBSET PromiseReserved(c) /\ PromiseReserved(c)' \subseteq {} /\ seq' >= seq
        BY <1>8, <1>9
    <2> QED BY <1>1, <1>4, <1>6, <1>8, <1>9, <1>10, <1>11, <2>1, <2>2, CallTakes
<1>13. /\ TablesComplete(Received', checkpoints', setup'.poison, lost')
       /\ CheckpointsKept(checkpoints') /\ ListedIn(Received', state', seq')
       /\ StateComplete' /\ OrdersOnce'
    BY <1>1, <1>4, <1>9, <1>11, CallLeavesLoop
<1>14. \A q \in Promises : q # p => LoadedResult(q)' = LoadedResult(q) /\ (q \in LoadedPending' <=> q \in LoadedPending)
    BY <1>1, <1>5, LoadedBeside
<1>15. /\ \A d \in PromiseCallers : NoWork(d)' <=> NoWork(d)
       /\ \A d \in PromiseCallers : work[d].of \in Promises /\ work'[d].of = work[d].of
    BY <1>0, <1>2, <1>3, <1>6 DEF NoWork
<1>16. InTurn(c, p)'
    <2>1. CASE p \in overlapped
        BY <1>1, <2>1 DEF InTurn
    <2>2. CASE p \notin overlapped /\ work[c].at = "create"
        <3>1. p \notin pending /\ resolved[p] = Nothing /\ LoadedResult(p) = Nothing
            BY <1>4, <2>2 DEF InTurn
        <3>2. Resolutions(p)' = Resolutions(p) /\ \E d \in journal' : d.kind = "created" /\ d.of = p
            BY <1>1, <1>5, <1>7, <2>2 DEF Resolutions
        <3>3. LoadedResult(p)' = Nothing
            BY <3>1, <3>2 DEF LoadedResult
        <3>4. p \in LoadedPending'
            BY <1>3, <3>2, <3>3 DEF LoadedPending
        <3>5. work'[c].at = "created"
            BY <1>6, <1>7, <2>2
        <3> QED BY <1>1, <3>1, <3>4, <3>5 DEF InTurn
    <2>3. CASE p \notin overlapped /\ work[c].at = "resolve"
        <3>1. p \in pending /\ p \in LoadedPending
            BY <1>4, <2>3 DEF InTurn
        <3>2. Resolutions(p) = {}
            BY <1>3, <1>9, <3>1, LoadedKnown DEF LoadedPending
        <3>3. e.kind = "resolved" /\ e.by = c
            BY <1>3, <1>5, <1>7, <2>3
        <3>4. LoadedResult(p)' = c
            BY <1>1, <1>3, <1>5, <3>2, <3>3, FirstResolution
        <3>5. work'[c].at = "resolved"
            BY <1>3, <1>6, <1>7, <2>3
        <3> QED BY <1>1, <3>1, <3>4, <3>5 DEF InTurn
    <2> QED BY <1>1, <2>1, <2>2, <2>3
<1>17. PromisesInTurn'
    <2>1. loop' = loop
        BY <1>1 DEF LoopAlone
    <2>2. \A d, f \in PromiseCallers :
             d # f /\ ~NoWork(d)' /\ ~NoWork(f)' /\ work'[d].of = work'[f].of => work'[d].of \in overlapped'
        BY <1>1, <1>15 DEF DurabilityCore, PromisesInTurn
    <2>3. ASSUME NEW d \in PromiseCallers, NEW q \in Promises, ~NoWork(d)', work'[d].of = q
          PROVE  InTurn(d, q)'
        <3>1. CASE d = c
            <4>1. q = p
                BY <1>6, <2>3, <3>1
            <4> QED BY <1>16, <3>1, <4>1
        <3>2. CASE d # c /\ q # p
            <4>1. ~NoWork(d) /\ work[d].of = q /\ work'[d] = work[d]
                BY <1>6, <1>15, <2>3, <3>2
            <4>2. InTurn(d, q)
                BY <4>1, InTurnKnown
            <4> QED BY <1>1, <1>14, <3>2, <4>1, <4>2 DEF InTurn
        <3>3. CASE d # c /\ q = p
            <4>1. q \in overlapped'
                BY <1>3, <1>6, <1>15, <2>2, <2>3, <3>3
            <4> QED BY <4>1 DEF InTurn
        <3> QED BY <3>1, <3>2, <3>3
    <2> QED BY <1>4, <1>15, <2>1, <2>2, <2>3, InTurnNext
<1>18. PromisesAgree'
    <2>1. ASSUME NEW q \in Promises \ overlapped', \A d \in PromiseCallers : NoWork(d)' \/ work'[d].of # q
          PROVE  (q \in pending' <=> q \in LoadedPending') /\ resolved'[q] = LoadedResult(q)'
        <3>1. q # p /\ \A d \in PromiseCallers : NoWork(d) \/ work[d].of # q
            BY <1>3, <1>6, <1>15, <2>1
        <3>2. (q \in pending <=> q \in LoadedPending) /\ resolved[q] = LoadedResult(q)
            BY <1>1, <1>4, <2>1, <3>1 DEF DurabilityCore, PromisesAgree
        <3> QED BY <1>1, <1>14, <3>1, <3>2
    <2> QED BY <2>1 DEF PromisesAgree
<1>19. DurabilityTypeOK'
    <2>1. work' \in [PromiseCallers -> [at: {"none", "create", "created", "resolve", "resolved"},
                                       of: Promises, seq: Nat]]
        BY <1>1, <1>2, <1>3
    <2> QED BY <1>1, <1>10, <2>1 DEF DurabilityCore, DurabilityTypeOK, LoopAlone
<1> QED BY <1>10, <1>12, <1>13, <1>17, <1>18, <1>19, CoreNext

(***************************************************************************)
(* The append of a call fails, or the call settles its promise.            *)
(***************************************************************************)
LEMMA CallEndsCore ==
    ASSUME DurabilityCore, NEW c \in PromiseCallers, AppendPromiseFails(c) \/ SettlePromise(c)
    PROVE  DurabilityCore'
<1> DEFINE p == work[c].of
<1>1. /\ work' = [work EXCEPT ![c] = Asleep[c]] /\ ~NoWork(c)
      /\ LoopAlone /\ UNCHANGED <<setup, seq, journal, overlapped, lives, calls>>
    BY DEF AppendPromiseFails, SettlePromise, NoWork
<1>2. work \in [PromiseCallers -> [at: {"none", "create", "created", "resolve", "resolved"},
                                  of: Promises, seq: Nat]]
      /\ pending \subseteq Promises /\ resolved \in [Promises -> PromiseCallers \cup {Nothing}]
    BY DEF DurabilityCore, DurabilityTypeOK
<1>3. loop \notin {"down", "exiting"} /\ InTurn(c, p) /\ p \in Promises
    BY <1>1, InTurnKnown
<1>4. Asleep[c] \in [at: {"none", "create", "created", "resolve", "resolved"}, of: Promises, seq: Nat]
      /\ Asleep[c].at = "none"
    <2>1. (CHOOSE q \in Promises : TRUE) \in Promises
        BY DurabilityAssumption
    <2> QED BY <2>1 DEF Asleep
<1>5. /\ NoWork(c)' /\ work' \in [PromiseCallers -> [at: {"none", "create", "created", "resolve", "resolved"},
                                                  of: Promises, seq: Nat]]
      /\ \A d \in PromiseCallers \ {c} : work'[d] = work[d] /\ (NoWork(d)' <=> NoWork(d))
    BY <1>1, <1>2, <1>4 DEF NoWork
<1>6. /\ RowsKept(journal') /\ seq' \in Nat /\ seq' >= seq /\ seq' = seq
      /\ Received' = Received /\ Numbers' = Numbers /\ PromiseRows(journal') = PromiseRows(journal)
    BY <1>1, CoreKnown DEF Received, Numbers
<1>7. /\ gaps => gaps'
      /\ gaps' \in BOOLEAN
      /\ ~gaps' => work[c].at \in {"created", "resolved"}
      /\ journalFaults' \in 0..MaxJournalFaults
    <2>1. gaps \in BOOLEAN /\ journalFaults \in 0..MaxJournalFaults
        BY DEF DurabilityCore, DurabilityTypeOK
    <2>2. CASE AppendPromiseFails(c)
        BY <2>1, <2>2, DurabilityAssumption DEF AppendPromiseFails, Fault
    <2>3. CASE SettlePromise(c)
        BY <2>1, <2>3 DEF SettlePromise
    <2> QED BY <2>2, <2>3
<1>8. NumbersInUse' /\ NumbersDistinct'
    <2>1. UNCHANGED <<loop, mark, order, checkpoints>>
        BY <1>1 DEF LoopAlone
    <2>2. PromiseReserved(c)' = {}
        BY <1>5 DEF PromiseReserved, NoWork
    <2>3. ~gaps' => PromiseReserved(c) = {}
        BY <1>7 DEF PromiseReserved
    <2> QED BY <1>3, <1>5, <1>6, <1>7, <2>1, <2>2, <2>3, CallTakes
<1>9. /\ TablesComplete(Received', checkpoints', setup'.poison, lost')
      /\ CheckpointsKept(checkpoints') /\ ListedIn(Received', state', seq')
      /\ StateComplete' /\ OrdersOnce'
    BY <1>1, <1>3, <1>6, <1>7, CallLeavesLoop
<1>10. \A q \in Promises : LoadedResult(q)' = LoadedResult(q) /\ (q \in LoadedPending' <=> q \in LoadedPending)
    BY <1>6, LoadedSame
<1>11. /\ \A q \in Promises : q # p => (q \in pending' <=> q \in pending) /\ resolved'[q] = resolved[q]
       /\ pending' \subseteq Promises /\ resolved' \in [Promises -> PromiseCallers \cup {Nothing}]
    <2>1. CASE AppendPromiseFails(c)
        BY <1>2, <2>1 DEF AppendPromiseFails
    <2>2. CASE SettlePromise(c) /\ work[c].at = "created"
        BY <1>2, <1>3, <2>2 DEF SettlePromise
    <2>3. CASE SettlePromise(c) /\ work[c].at # "created"
        BY <1>2, <1>3, <2>3 DEF SettlePromise
    <2> QED BY <2>1, <2>2, <2>3
<1>12. p \notin overlapped => (p \in pending' <=> p \in LoadedPending) /\ resolved'[p] = LoadedResult(p)
    <2> SUFFICES ASSUME p \notin overlapped
                 PROVE  (p \in pending' <=> p \in LoadedPending) /\ resolved'[p] = LoadedResult(p)
        OBVIOUS
    <2>1. CASE AppendPromiseFails(c)
        BY <1>3, <2>1 DEF AppendPromiseFails, InTurn
    <2>2. CASE SettlePromise(c) /\ work[c].at = "created"
        BY <1>3, <2>2 DEF SettlePromise, InTurn, LoadedPending
    <2>3. CASE SettlePromise(c) /\ work[c].at = "resolved"
        <3>1. LoadedResult(p) = c /\ c # Nothing
            BY <1>3, <2>3, DurabilityAssumption DEF InTurn
        <3>2. p \notin LoadedPending
            BY <3>1 DEF LoadedPending
        <3>3. p \notin pending' /\ resolved'[p] = c
            BY <1>2, <1>3, <2>3 DEF SettlePromise
        <3> QED BY <3>1, <3>2, <3>3
    <2> QED BY <2>1, <2>2, <2>3 DEF SettlePromise
<1> HIDE DEF p
<1>13. PromisesAgree'
    <2>1. ASSUME NEW q \in Promises \ overlapped', \A d \in PromiseCallers : NoWork(d)' \/ work'[d].of # q
          PROVE  (q \in pending' <=> q \in LoadedPending') /\ resolved'[q] = LoadedResult(q)'
        <3>1. CASE q = p
            BY <1>1, <1>10, <1>12, <2>1, <3>1
        <3>2. CASE q # p
            <4>1. \A d \in PromiseCallers : NoWork(d) \/ work[d].of # q
                BY <1>5, <2>1, <3>2 DEF p
            <4>2. (q \in pending <=> q \in LoadedPending) /\ resolved[q] = LoadedResult(q)
                BY <1>1, <1>3, <2>1, <4>1 DEF DurabilityCore, PromisesAgree
            <4> QED BY <1>10, <1>11, <3>2, <4>2
        <3> QED BY <3>1, <3>2
    <2> QED BY <2>1 DEF PromisesAgree
<1>14. PromisesInTurn'
    <2>1. loop' = loop
        BY <1>1 DEF LoopAlone
    <2>2. \A d, f \in PromiseCallers :
             d # f /\ ~NoWork(d)' /\ ~NoWork(f)' /\ work'[d].of = work'[f].of => work'[d].of \in overlapped'
        BY <1>1, <1>5 DEF DurabilityCore, PromisesInTurn
    <2>3. ASSUME NEW d \in PromiseCallers, NEW q \in Promises, ~NoWork(d)', work'[d].of = q
          PROVE  InTurn(d, q)'
        <3>1. d # c /\ ~NoWork(d) /\ work[d].of = q /\ work'[d] = work[d]
            BY <1>5, <2>3
        <3>2. InTurn(d, q)
            BY <3>1, InTurnKnown
        <3>3. CASE q # p
            BY <1>1, <1>10, <1>11, <3>1, <3>2, <3>3 DEF InTurn
        <3>4. CASE q = p
            <4>1. q \in overlapped
                BY <1>1, <3>1, <3>4 DEF DurabilityCore, PromisesInTurn, p
            <4> QED BY <1>1, <4>1 DEF InTurn
        <3> QED BY <3>3, <3>4
    <2>4. \A d \in PromiseCallers : work'[d].of \in Promises
        BY <1>5
    <2> QED BY <1>3, <2>1, <2>2, <2>3, <2>4, InTurnNext
<1>15. DurabilityTypeOK'
    BY <1>1, <1>5, <1>7, <1>11 DEF DurabilityCore, DurabilityTypeOK, LoopAlone
<1> QED BY <1>6, <1>8, <1>9, <1>13, <1>14, <1>15, CoreNext

-----------------------------------------------------------------------------
(* Every step keeps the core.                                              *)

(***************************************************************************)
(* The first activation has empty tables.                                  *)
(***************************************************************************)
LEMMA DurabilityStart == ASSUME DurabilityInit PROVE DurabilityCore
<1> USE DEF DurabilityInit
<1>1. Numbers = {} /\ Received = {} /\ IsFiniteSet(journal) /\ Cardinality(journal) = 0
    BY FS_EmptySet DEF Numbers, Received
<1>2. \A c \in PromiseCallers : NoWork(c) /\ PromiseReserved(c) = {}
    BY DEF NoWork, PromiseReserved, Asleep
<1>3. Reserved = {} /\ Unwritten = {}
    BY <1>2 DEF Reserved, Unwritten
<1>4. DurabilityTypeOK
    <2>1. (CHOOSE p \in Promises : TRUE) \in Promises
        BY DurabilityAssumption
    <2>2. work \in [PromiseCallers -> [at: {"none", "create", "created", "resolve", "resolved"},
                                      of: Promises, seq: Nat]]
        BY <2>1 DEF Asleep
    <2>3. <<>> \in Seq(Orders)
        OBVIOUS
    <2>4. 0 \in 0..MaxLives /\ 0 \in 0..MaxPromiseCalls /\ 0 \in 0..MaxJournalFaults
        BY DurabilityAssumption
    <2> QED BY <2>2, <2>3, <2>4 DEF DurabilityTypeOK
<1>5. TablesKept
    BY <1>1 DEF TablesKept, HasLast, Resolutions
<1>6. NumbersInUse /\ NumbersDistinct
    BY <1>1, <1>2, <1>3 DEF NumbersInUse, NumbersDistinct
<1>7. OrdersOnce
    BY <1>1 DEF OrdersOnce
<1>8. StatesInOrder
    <2>1. Accepted = {}
        BY <1>1 DEF Accepted, Replayed
    <2>2. Journaled(state, seq)
        BY DEF Journaled
    <2> QED BY <1>1, <2>1, <2>2, ListedNone DEF StatesInOrder
<1>9. PromisesAgree /\ PromisesInTurn
    BY <1>2 DEF PromisesAgree, PromisesInTurn
<1> QED BY <1>4, <1>5, <1>6, <1>7, <1>8, <1>9 DEF DurabilityCore

(***************************************************************************)
(* The core depends on the facet's variables only, and messages that the   *)
(* actor handles without the facet are nothing to it.                      *)
(***************************************************************************)
LEMMA AsideCore ==
    ASSUME DurabilityCore, todo' \subseteq todo,
           lives' \in 0..MaxLives, journalFaults' \in 0..MaxJournalFaults,
           UNCHANGED <<setup, loop, order, mark, state, seq, lastSeq, journal, checkpoints>>,
           UNCHANGED <<pending, resolved, work, calls, gaps, lost, overlapped>>
    PROVE  DurabilityCore'
<1>1. /\ UNCHANGED <<setup, loop, order, mark, state, seq, lastSeq, journal, checkpoints>>
      /\ UNCHANGED <<pending, resolved, work, calls, gaps, lost, overlapped>>
    OBVIOUS
<1>2. /\ RowsKept(journal) /\ CheckpointsKept(checkpoints)
      /\ TablesComplete(Received, checkpoints, setup.poison, lost)
      /\ ListedIn(Received, state, seq)
    BY CoreKnown
<1>3. /\ Received' = Received /\ Numbers' = Numbers /\ PromiseRows(journal') = PromiseRows(journal)
      /\ Reserved' = Reserved /\ Latest' = Latest
      /\ \A c \in PromiseCallers : PromiseReserved(c)' = PromiseReserved(c) /\ (NoWork(c)' <=> NoWork(c))
    BY <1>1 DEF Received, Numbers, Reserved, Effects, Latest, PromiseReserved, NoWork
<1>4. Unwritten' = Unwritten
    BY <1>3 DEF Unwritten
<1>5. NumbersInUse' /\ NumbersDistinct'
    BY <1>1, <1>3, <1>4 DEF DurabilityCore, NumbersInUse, NumbersDistinct
<1>6. \A p \in Promises : LoadedResult(p)' = LoadedResult(p)
    BY <1>3, LoadedSame
<1>7. LoadedPending' = LoadedPending
    BY <1>3, LoadedSame
<1>8. PromisesAgree'
    BY <1>1, <1>3, <1>6, <1>7 DEF DurabilityCore, PromisesAgree
<1>9. PromisesInTurn'
    <2>1. \A c \in PromiseCallers : work[c].of \in Promises
        BY DEF DurabilityCore, DurabilityTypeOK
    <2> QED BY <1>1, <1>3, <1>6, <1>7, <2>1 DEF DurabilityCore, PromisesInTurn
<1>10. StateComplete' /\ OrdersOnce'
    BY <1>1, <1>3 DEF DurabilityCore, StatesInOrder, StateComplete, OrdersOnce
<1>11. DurabilityTypeOK'
    BY <1>1 DEF DurabilityCore, DurabilityTypeOK
<1> QED BY <1>1, <1>2, <1>3, <1>5, <1>8, <1>9, <1>10, <1>11, CoreNext

LEMMA DurabilityStutter ==
    ASSUME DurabilityCore, UNCHANGED durabilityVars PROVE DurabilityCore'
<1>1. lives \in 0..MaxLives /\ journalFaults \in 0..MaxJournalFaults
    BY DEF DurabilityCore, DurabilityTypeOK
<1> QED BY <1>1, AsideCore DEF durabilityVars

(***************************************************************************)
(* on_attach() fails: nothing is written, whatever the actor then does.    *)
(***************************************************************************)
LEMMA AttachFailsCore ==
    ASSUME DurabilityCore, NEW S, AttachFails(S) PROVE DurabilityCore'
<1>1. lives' \in 0..MaxLives
    BY DurabilityAssumption DEF AttachFails, DurabilityCore, DurabilityTypeOK
<1>2. journalFaults' \in 0..MaxJournalFaults
    BY DurabilityAssumption DEF AttachFails, Fault, DurabilityCore, DurabilityTypeOK
<1>3. /\ todo' \subseteq todo
      /\ UNCHANGED <<setup, loop, order, mark, state, seq, lastSeq, journal, checkpoints>>
      /\ UNCHANGED <<pending, resolved, work, calls, gaps, lost, overlapped>>
    BY DEF AttachFails, PromisesAlone
<1> QED BY <1>1, <1>2, <1>3, AsideCore

(***************************************************************************)
(* Every step of the facet.                                                *)
(***************************************************************************)
LEMMA DurabilityStep ==
    ASSUME DurabilityCore, [DurabilityNext]_durabilityVars PROVE DurabilityCore'
<1>1. CASE UNCHANGED durabilityVars
    BY <1>1, DurabilityStutter
<1>2. CASE Attach
    BY <1>2, AttachCore
<1>3. CASE \E m \in Orders : BeforeMethod(m)
    BY <1>3, BeforeMethodCore
<1>4. CASE AppendReceived
    BY <1>4, AppendReceivedCore
<1>5. CASE AppendReceivedFails \/ AppendBatchFails
    BY <1>5, AppendFailsCore
<1>6. CASE HandleMessage
    BY <1>6, HandleMessageCore
<1>7. CASE AfterMethod
    BY <1>7, AfterMethodCore
<1>8. CASE AppendBatch
    BY <1>8, AppendBatchCore
<1>9. CASE Checkpoint \/ CheckpointFails
    BY <1>9, CheckpointCore
<1>10. CASE (\E saved \in BOOLEAN : OnExit(saved)) \/ ExitHandled
    BY <1>10, OnExitCore
<1>11. CASE ExitPropagates \/ Crash
    BY <1>11, CrashCore
<1>12. CASE \E landed, saved \in BOOLEAN : Stop(landed, saved)
    BY <1>12, StopCore
<1>13. CASE \E c \in PromiseCallers, p \in Promises : CreatePromise(c, p) \/ ResolvePromise(c, p)
    BY <1>13, BeginCore
<1>14. CASE \E c \in PromiseCallers : AppendPromise(c)
    BY <1>14, AppendPromiseCore
<1>15. CASE \E c \in PromiseCallers : AppendPromiseFails(c) \/ SettlePromise(c)
    BY <1>15, CallEndsCore
<1>16. CASE \E S \in SUBSET Orders : AttachFails(S)
    BY <1>16, AttachFailsCore
<1> QED BY <1>1, <1>2, <1>3, <1>4, <1>5, <1>6, <1>7, <1>8, <1>9, <1>10, <1>11, <1>12, <1>13, <1>14,
           <1>15, <1>16 DEF DurabilityNext

(***************************************************************************)
(* The journal, the checkpoints and the promises of a durable actor keep   *)
(* their invariant over any number of failed writes, stops, crashes and    *)
(* activations: what an activation restores (on_attach) is complete and in *)
(* order, numbers are used once, and the promises in memory are those of   *)
(* the journal.                                                            *)
(***************************************************************************)
THEOREM DurabilityHolds == DurabilitySpec => []DurabilityInv
<1>1. DurabilityInit => DurabilityCore
    BY DurabilityStart
<1>2. DurabilityCore /\ [DurabilityNext]_durabilityVars => DurabilityCore'
    BY DurabilityStep
<1> QED BY <1>1, <1>2, CoreIsEnough, PTL DEF DurabilitySpec

(***************************************************************************)
(* So does the journal of a durable actor beside the pool and the          *)
(* applications that the node hosts.                                       *)
(***************************************************************************)
THEOREM HostedDurabilityHolds == HostingSpec => []DurabilityInv
<1>1. HostingInit => DurabilityCore
    BY DurabilityStart DEF HostingInit
<1>2. DurabilityCore /\ [HostingNext]_hostingVars => DurabilityCore'
    <2> SUFFICES ASSUME DurabilityCore, [HostingNext]_hostingVars PROVE DurabilityCore'
        OBVIOUS
    <2>1. DurabilityNext \/ UNCHANGED durabilityVars
        BY DEF HostingNext, Pooling, Journaling, Managing, hostingVars
    <2> QED BY <2>1, DurabilityStep
<1> QED BY <1>1, <1>2, CoreIsEnough, PTL DEF HostingSpec
==============================================================================
