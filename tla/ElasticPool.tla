----------------------------- MODULE ElasticPool -----------------------------
(***************************************************************************)
(* The elastic worker pool (crates/elastic-pool/src/elastic_pool.rs).      *)
(* The worker map, the deque of available ids and the queue of waiters     *)
(* have a lock each, and checkout and checkin take them one after the      *)
(* other: a step of this module is one critical section.  A client checks  *)
(* a handle in once.  Metrics are left out: the auto-scaler's load is a    *)
(* choice, and the size it compares is the size of the pool.  One          *)
(* administrative call (scale_to, scale_by, delete) runs at a time.        *)
(***************************************************************************)
EXTENDS Integers, Sequences, SequencesExt, FiniteSets

CONSTANTS
    Clients,
    WorkerIds,    \* bound: workers (ULIDs, never reused) that may be spawned
    MaxQueue,     \* bound: waiters in the queue, those that gave up included
    MinSize,
    MaxSize,
    InitialSize,
    Strategy,     \* scaling strategy
    MinStep,      \* min_scale_step
    MaxStep       \* max_scale_step

ASSUME PoolAssumption ==
    /\ \A k \in {WorkerIds, MaxQueue, MinSize, MaxSize, InitialSize, MinStep, MaxStep} : k \in Nat
    /\ MinSize <= InitialSize /\ InitialSize <= MaxSize /\ InitialSize <= WorkerIds
    /\ Strategy \in {"incremental", "half", "exponential"}

VARIABLES
    worker,     \* worker[w]: its state, "unused" before it is spawned and
                \* "removed" after it left the map
    available,  \* available_workers
    queue,      \* checkout_queue: the waiters, live while they still wait
    pc,         \* pc[c]: where the call of client c is
    held,       \* held[c]: the worker id c works with
    waiter,     \* waiter[c]: the waiter that the checkin of c has taken
    inbox,      \* inbox[c]: the worker sent to c's waiter
    draining,   \* draining
    drain,      \* where drain() is
    paused,     \* scaling_state is Paused
    change,     \* workers that scale_to() is about to add or remove
    auto        \* workers that the auto-scaler is about to add or remove

poolVars == <<worker, available, queue, pc, held, waiter, inbox, draining, drain, paused,
          change, auto>>
clientVars == <<pc, held, waiter, inbox>>
adminVars == <<draining, drain, paused, change, auto>>

Workers == 1..WorkerIds
None == 0

NoWaiter == [client |-> "none", live |-> FALSE]
Waiters == [client: Clients, live: BOOLEAN]

InMap(w) == worker[w] \in {"available", "busy"}
Pool == {w \in Workers : InMap(w)}
Size == Cardinality(Pool)
Spawned == Cardinality({w \in Workers : worker[w] # "unused"})

PoolTypeOK ==
    /\ worker \in [Workers -> {"unused", "available", "busy", "removed"}]
    /\ available \in Seq(Workers)
    /\ queue \in Seq(Waiters)
    /\ pc \in [Clients -> {"idle", "asked", "popped", "missed", "waiting", "using",
                           "returning", "handing", "pushing"}]
    /\ held \in [Clients -> Workers \union {None}]
    /\ waiter \in [Clients -> Waiters \union {NoWaiter}]
    /\ inbox \in [Clients -> Workers \union {None}]
    /\ draining \in BOOLEAN /\ paused \in BOOLEAN
    /\ drain \in {"idle", "waiting", "drained"}
    /\ change \in Int /\ auto \in Int

\* new: initial_size workers, all available.
PoolInit ==
    /\ available = [k \in 1..InitialSize |-> k]
    /\ worker = [w \in Workers |-> IF w <= InitialSize THEN "available" ELSE "unused"]
    /\ queue = <<>>
    /\ pc = [c \in Clients |-> "idle"]
    /\ held = [c \in Clients |-> None]
    /\ waiter = [c \in Clients |-> NoWaiter]
    /\ inbox = [c \in Clients |-> None]
    /\ draining = FALSE /\ drain = "idle" /\ paused = FALSE
    /\ change = 0 /\ auto = 0

Go(c, l) == pc' = [pc EXCEPT ![c] = l]

-----------------------------------------------------------------------------
(* checkout                                                                *)

\* The draining flag is read once, first.
CheckoutAsk(c) ==
    /\ pc[c] = "idle" /\ ~draining
    /\ Go(c, "asked")
    /\ UNCHANGED <<worker, available, queue, held, waiter, inbox, adminVars>>

CheckoutPop(c) ==
    /\ pc[c] = "asked" /\ available # <<>>
    /\ held' = [held EXCEPT ![c] = Head(available)]
    /\ available' = Tail(available)
    /\ Go(c, "popped")
    /\ UNCHANGED <<worker, queue, waiter, inbox, adminVars>>

CheckoutMiss(c) ==
    /\ pc[c] = "asked" /\ available = <<>>
    /\ Go(c, "missed")
    /\ UNCHANGED <<worker, available, queue, held, waiter, inbox, adminVars>>

\* checkout_worker: the worker is busy, or the call fails if it left the map.
CheckoutMark(c) ==
    /\ pc[c] = "popped"
    /\ IF InMap(held[c])
       THEN /\ worker' = [worker EXCEPT ![held[c]] = "busy"]
            /\ Go(c, "using") /\ UNCHANGED held
       ELSE /\ Go(c, "idle") /\ held' = [held EXCEPT ![c] = None]
            /\ UNCHANGED worker
    /\ UNCHANGED <<available, queue, waiter, inbox, adminVars>>

CheckoutWait(c) ==
    /\ pc[c] = "missed" /\ Len(queue) < MaxQueue
    /\ queue' = Append(queue, [client |-> c, live |-> TRUE])
    /\ Go(c, "waiting")
    /\ UNCHANGED <<worker, available, held, waiter, inbox, adminVars>>

CheckoutReceive(c) ==
    /\ pc[c] = "waiting" /\ inbox[c] # None
    /\ held' = [held EXCEPT ![c] = inbox[c]]
    /\ inbox' = [inbox EXCEPT ![c] = None]
    /\ Go(c, "using")
    /\ UNCHANGED <<worker, available, queue, waiter, adminVars>>

GiveUp(v, c) == IF v.client = c THEN [v EXCEPT !.live = FALSE] ELSE v

\* The timeout fires before an answer: the receiver is dropped, the waiter
\* stays where it is.
CheckoutTimeout(c) ==
    /\ pc[c] = "waiting" /\ inbox[c] = None
    /\ queue' = [k \in 1..Len(queue) |-> GiveUp(queue[k], c)]
    /\ waiter' = [d \in Clients |-> GiveUp(waiter[d], c)]
    /\ Go(c, "idle")
    /\ UNCHANGED <<worker, available, held, inbox, adminVars>>

-----------------------------------------------------------------------------
(* checkin                                                                 *)

CheckinMark(c) ==
    /\ pc[c] = "using"
    /\ IF InMap(held[c])
       THEN /\ worker' = [worker EXCEPT ![held[c]] = "available"]
            /\ Go(c, "returning") /\ UNCHANGED held
       ELSE /\ Go(c, "idle") /\ held' = [held EXCEPT ![c] = None]
            /\ UNCHANGED worker
    /\ UNCHANGED <<available, queue, waiter, inbox, adminVars>>

CheckinTakeWaiter(c) ==
    /\ pc[c] = "returning" /\ queue # <<>>
    /\ waiter' = [waiter EXCEPT ![c] = Head(queue)]
    /\ queue' = Tail(queue)
    /\ Go(c, "handing")
    /\ UNCHANGED <<worker, available, held, inbox, adminVars>>

CheckinNoWaiter(c) ==
    /\ pc[c] = "returning" /\ queue = <<>>
    /\ Go(c, "pushing")
    /\ UNCHANGED <<worker, available, queue, held, waiter, inbox, adminVars>>

\* Mutant: the worker is pushed back although a waiter got it.
HandAndPush(c) ==
    /\ pc[c] = "handing"
    /\ worker' = [worker EXCEPT ![held[c]] = "busy"]
    /\ inbox' = IF waiter[c].live THEN [inbox EXCEPT ![waiter[c].client] = held[c]] ELSE inbox
    /\ available' = Append(available, held[c])
    /\ held' = [held EXCEPT ![c] = None]
    /\ waiter' = [waiter EXCEPT ![c] = NoWaiter]
    /\ Go(c, "idle")
    /\ UNCHANGED <<queue, adminVars>>

\* checkout_worker for the waiter, then send; a send to a waiter that has
\* given up is dropped.  If the worker left the map the waiter gets the error
\* (its call ends) and the id is pushed back.
CheckinHand(c) ==
    /\ pc[c] = "handing"
    /\ LET d == waiter[c].client IN
       IF InMap(held[c])
       THEN /\ worker' = [worker EXCEPT ![held[c]] = "busy"]
            /\ inbox' = IF waiter[c].live THEN [inbox EXCEPT ![d] = held[c]] ELSE inbox
            /\ Go(c, "idle")
            /\ UNCHANGED available
       ELSE /\ available' = Append(available, held[c])
            /\ pc' = [e \in Clients |->
                        IF e = c \/ (e = d /\ waiter[c].live) THEN "idle" ELSE pc[e]]
            /\ UNCHANGED <<worker, inbox>>
    /\ held' = [held EXCEPT ![c] = None]
    /\ waiter' = [waiter EXCEPT ![c] = NoWaiter]
    /\ UNCHANGED <<queue, adminVars>>

CheckinPush(c) ==
    /\ pc[c] = "pushing"
    /\ available' = Append(available, held[c])
    /\ held' = [held EXCEPT ![c] = None]
    /\ Go(c, "idle")
    /\ UNCHANGED <<worker, queue, waiter, inbox, adminVars>>

-----------------------------------------------------------------------------
(* Scaling.                                                                *)

\* spawn_workers: n new workers at the end of the deque.
SpawnWorkers(n) ==
    LET ids == [k \in 1..n |-> Spawned + k] IN
    /\ Spawned + n <= WorkerIds
    /\ available' = available \o ids
    /\ worker' = [w \in Workers |-> IF w \in ToSet(ids) THEN "available" ELSE worker[w]]

Dropped(ids) == worker' = [w \in Workers |-> IF w \in ToSet(ids) THEN "removed" ELSE worker[w]]

Least(a, b) == IF a < b THEN a ELSE b
Most(a, b) == IF a < b THEN b ELSE a

\* remove_workers: up to n from the front of the deque.
RemoveWorkers(n) ==
    LET k == Least(n, Len(available)) IN
    /\ available' = SubSeq(available, k + 1, Len(available))
    /\ Dropped(SubSeq(available, 1, k))

\* The auto-scaler takes up to n from the back.
PopWorkers(n) ==
    LET k == Len(available) - Least(n, Len(available)) IN
    /\ available' = SubSeq(available, 1, k)
    /\ Dropped(SubSeq(available, k + 1, Len(available)))

\* scale_to reads the size, then spawns or removes the difference; scale_by
\* is a scale_to of a size within the limits.
ScaleTo(n) ==
    /\ change = 0 /\ n # Size
    /\ change' = n - Size
    /\ UNCHANGED <<worker, available, queue, clientVars, draining, drain, paused, auto>>

\* delete: scaling is paused, then as many workers are removed as there are.
Delete ==
    /\ change = 0
    /\ paused' = TRUE /\ change' = -Size
    /\ UNCHANGED <<worker, available, queue, clientVars, draining, drain, auto>>

ScaleApply ==
    /\ change # 0
    /\ IF change > 0 THEN SpawnWorkers(change) ELSE RemoveWorkers(-change)
    /\ change' = 0
    /\ UNCHANGED <<queue, clientVars, draining, drain, paused, auto>>

\* calculate_scale_amount
ScaleAmount(size) ==
    LET amount == CASE Strategy = "incremental" -> 1
                    [] Strategy = "half" -> Most(size \div 2, 1)
                    [] Strategy = "exponential" -> size
    IN  Least(Most(amount, MinStep), MaxStep)

\* auto_scaler_loop finds the load high, or low; scale_up and scale_down read
\* the size, and change the pool under the locks afterwards.
AutoDecide ==
    /\ ~paused /\ auto = 0
    /\ \/ Size < MaxSize /\ auto' = ScaleAmount(Size)
       \/ Size > MinSize /\ auto' = -ScaleAmount(Size)
    /\ UNCHANGED <<worker, available, queue, clientVars, draining, drain, paused, change>>

AutoApply ==
    /\ auto # 0
    /\ IF auto > 0 THEN SpawnWorkers(auto) ELSE PopWorkers(-auto)
    /\ auto' = 0
    /\ UNCHANGED <<queue, clientVars, draining, drain, paused, change>>

SetPaused(b) ==
    /\ paused # b /\ paused' = b
    /\ UNCHANGED <<worker, available, queue, clientVars, draining, drain, change, auto>>

\* drain: the flag, then a loop until no worker is busy or the deadline.
DrainStart ==
    /\ drain # "waiting"
    /\ draining' = TRUE /\ drain' = "waiting"
    /\ UNCHANGED <<worker, available, queue, clientVars, paused, change, auto>>

DrainDone ==
    /\ drain = "waiting" /\ \A w \in Workers : worker[w] # "busy"
    /\ drain' = "drained"
    /\ UNCHANGED <<worker, available, queue, clientVars, draining, paused, change, auto>>

DrainTimeout ==
    /\ drain = "waiting" /\ \E w \in Workers : worker[w] = "busy"
    /\ drain' = "idle"
    /\ UNCHANGED <<worker, available, queue, clientVars, draining, paused, change, auto>>

-----------------------------------------------------------------------------
\* A call runs to its end; whether one starts or times out is open.
Progress(c) ==
    \/ CheckoutPop(c) \/ CheckoutMiss(c) \/ CheckoutMark(c) \/ CheckoutWait(c)
    \/ CheckoutReceive(c)
    \/ CheckinTakeWaiter(c) \/ CheckinNoWaiter(c) \/ CheckinHand(c) \/ CheckinPush(c)

ClientNext(c) == CheckoutAsk(c) \/ CheckoutTimeout(c) \/ CheckinMark(c) \/ Progress(c)

DrainNext == DrainStart \/ DrainDone \/ DrainTimeout

ScaleNext ==
    \/ AutoDecide \/ AutoApply \/ ScaleApply \/ Delete
    \/ \E n \in 0..WorkerIds : ScaleTo(n)
    \/ \E b \in BOOLEAN : SetPaused(b)

PoolNext == (\E c \in Clients : ClientNext(c)) \/ DrainNext \/ ScaleNext

PoolSpec == PoolInit /\ [][PoolNext]_poolVars

-----------------------------------------------------------------------------
(* Properties.                                                             *)

Owns(c, w) == held[c] = w \/ inbox[c] = w

\* A worker is at one place: with one client, or once in the deque as an
\* available member of the map.  No interleaving of checkouts, checkins,
\* timeouts and scaling gives it to two clients or removes it under one.
SoleOwner ==
    /\ \A w \in Workers : \A c, d \in Clients : Owns(c, w) /\ Owns(d, w) => c = d
    /\ \A c \in Clients : held[c] = None \/ held[c] # inbox[c]
    /\ \A c \in Clients : \A w \in Workers :
          Owns(c, w) => InMap(w) /\ \A k \in 1..Len(available) : available[k] # w
    /\ \A j, k \in 1..Len(available) : available[j] = available[k] => j = k
    /\ \A k \in 1..Len(available) : worker[available[k]] = "available"
    /\ \A c \in Clients : pc[c] = "using" => worker[held[c]] = "busy"

\* A client has a worker in hand exactly between the pop and the push, or has
\* been sent one while it waits; the state in the map says which.
InHand == {"popped", "using", "returning", "handing", "pushing"}

PlacesAgree ==
    \A c \in Clients :
        /\ held[c] # None <=> pc[c] \in InHand
        /\ pc[c] \in InHand \ {"using"} => worker[held[c]] = "available"
        /\ inbox[c] # None => pc[c] = "waiting" /\ worker[inbox[c]] = "busy"
        /\ IF pc[c] = "handing" THEN waiter[c] \in Waiters ELSE waiter[c] = NoWaiter

\* A waiter that has not given up is waiting, once, and has got no worker,
\* whether it is in the queue or a checkin has taken it from there.
WaitersWait ==
    /\ \A k \in 1..Len(queue) : queue[k].live =>
        /\ pc[queue[k].client] = "waiting" /\ inbox[queue[k].client] = None
        /\ \A j \in 1..Len(queue) : queue[j] = queue[k] => j = k
        /\ \A d \in Clients : waiter[d] # queue[k]
    /\ \A c \in Clients : waiter[c].live =>
        /\ pc[waiter[c].client] = "waiting" /\ inbox[waiter[c].client] = None
        /\ \A d \in Clients : waiter[d] = waiter[c] => d = c

\* The ids in use are the first ones: a new worker gets none that was used.
IdsInOrder == \A w \in Workers : worker[w] # "unused" <=> w <= Spawned

PoolInv == PoolTypeOK /\ SoleOwner /\ PlacesAgree /\ WaitersWait /\ IdsInOrder

\* drain: "Wait for all actors to become available": once the pool drains and
\* the clients return what they use, no worker stays busy.
DrainCompletes == draining ~> \A w \in Workers : worker[w] # "busy"
==============================================================================
