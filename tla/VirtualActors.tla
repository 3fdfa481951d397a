---------------------------- MODULE VirtualActors ----------------------------
(***************************************************************************)
(* Activation of virtual actors (crates/actor): dispatch_local_message()   *)
(* finds, activates or waits for the actor it sends to, the activation     *)
(* evicts the least recently used actors of the type, and stop_actor()     *)
(* takes an instance away.  Two mechanisms are to keep an actor from being *)
(* activated twice: the map activation_in_flight, used until the actor has *)
(* a facet of its own and by the eviction, and the flag is_activating of   *)
(* that facet.  A step is what runs between two awaits; all actors are of  *)
(* one registered type.  The message and the instance of a call are named  *)
(* by the call.                                                            *)
(***************************************************************************)
EXTENDS Naturals, Sequences, FiniteSets, SequencesExt

CONSTANTS
    Callers,     \* calls of dispatch_local_message(), one message each
    Actors,      \* the ids of virtual actors
    Target,      \* Target[c]: the receiver of the message of c
    Operator,    \* a call of stop_actor()
    MaxPool,     \* max_pool_per_actor_type
    MaxSpawnFaults, \* bound on failing spawns
    Deniable,    \* the calls whose message an instance may refuse once it was queued
    NoOne

ASSUME VirtualAssumption ==
    /\ Target \in [Callers -> Actors]
    /\ Operator \notin Callers /\ NoOne \notin Callers \union Actors
    /\ MaxPool \in Nat \ {0} /\ MaxSpawnFaults \in Nat
    /\ Deniable \subseteq Callers

VARIABLES
    at,        \* at[c]: where the call is
    mode,      \* mode[c]: which path took it to activate_virtual_actor()
    seen,      \* seen[c]: the instance whose sender c has looked up
    inst,      \* inst[c]: the instance that the activation of c made
    reg,       \* reg[a]: the instance registered for a
    facet,     \* facet[a]: "none", "idle", "activating" (is_activating)
    guard,     \* guard[a]: who has the entry of activation_in_flight
    pending,   \* pending[a]: messages queued for the activation
    tracked,   \* active_instances_by_type, least recently used first
    victims,   \* victims[p]: the actors p still has to stop
    stopAt,    \* stopAt[p]: where p is in stop_actor()
    mailed,    \* messages in the mailbox of a running instance
    lost,      \* messages taken with success by an instance that has ended
    refused,   \* queued messages that the activated instance's tell() refused: a warning only
    bypassed,  \* actors activated, or robbed of a running instance, without the entry of activation_in_flight
    spawnFaults

virtualVars == <<at, mode, seen, inst, reg, facet, guard, pending, tracked,
                 victims, stopAt, mailed, lost, refused, bypassed, spawnFaults>>

Stoppers == Callers \union {Operator}
Answers  == {"ok", "err"}
Places   == {"start", "active", "sender", "facet", "queue", "queueWon", "loop", "claim", "late",
             "lost", "waiting", "hung", "tell", "won", "activate", "evict", "metadata", "spawn",
             "mark", "take", "markAgain", "takeAgain", "done"} \union Answers

VirtualTypeOK ==
    /\ at \in [Callers -> Places]
    /\ mode \in [Callers -> {"none", "guard", "facet", "sender"}]
    /\ seen \in [Callers -> Callers \union {NoOne}]
    /\ inst \in [Callers -> {"none", "running", "stopped"}]
    /\ reg \in [Actors -> Callers \union {NoOne}]
    /\ facet \in [Actors -> {"none", "idle", "activating"}]
    /\ guard \in [Actors -> Callers \union {NoOne}]
    /\ pending \in [Actors -> SUBSET Callers]
    /\ tracked \in Seq(Actors)
    /\ victims \in [Stoppers -> Seq(Actors)]
    /\ stopAt \in [Stoppers -> {"idle", "stop", "unregister", "facet", "done"}]
    /\ mailed \subseteq Callers /\ lost \subseteq Callers /\ refused \subseteq Callers
    /\ bypassed \subseteq Actors /\ spawnFaults \in 0..MaxSpawnFaults

VirtualInit ==
    /\ at = [c \in Callers |-> "start"]
    /\ mode = [c \in Callers |-> "none"]
    /\ seen = [c \in Callers |-> NoOne]
    /\ inst = [c \in Callers |-> "none"]
    /\ reg = [a \in Actors |-> NoOne]
    /\ facet = [a \in Actors |-> "none"]
    /\ guard = [a \in Actors |-> NoOne]
    /\ pending = [a \in Actors |-> {}]
    /\ tracked = <<>>
    /\ victims = [p \in Stoppers |-> <<>>]
    /\ stopAt = [p \in Stoppers |-> "idle"]
    /\ mailed = {} /\ lost = {} /\ refused = {} /\ bypassed = {} /\ spawnFaults = 0
-----------------------------------------------------------------------------
CallStep(c, from, to) == at[c] = from /\ at' = [at EXCEPT ![c] = to]

\* is_actor_state_active(): registered and not stopping.
IsActive(a) == reg[a] # NoOne /\ inst[reg[a]] = "running"

\* The list of those of seq that are in S, in their order: the only member of
\* the set.
Filtered(seq, S) ==
    LET places == {i \in 1..Len(seq) : seq[i] \in S}
        n == Cardinality(places)
    IN {[k \in 1..n |-> seq[f[k]]] :
            f \in {g \in [1..n -> places] : \A j, k \in 1..n : j < k => g[j] < g[k]}}

\* The actor becomes the one used last.
Tracks(a) == \E others \in Filtered(tracked, Actors \ {a}) : tracked' = Append(others, a)

\* tell(): a running instance has the message or refuses it (visibility, a full
\* mailbox); the mailbox of one that has ended takes it or refuses it, by its
\* kind and by how far the end has come.
Tell(c, i) ==
    \/ /\ inst[i] = "running"
       /\ mailed' = mailed \union {c}
       /\ at' = [at EXCEPT ![c] = "ok"]
       /\ UNCHANGED lost
    \/ /\ inst[i] = "stopped"
       /\ lost' = lost \union {c}
       /\ at' = [at EXCEPT ![c] = "ok"]
       /\ UNCHANGED mailed
    \/ /\ at' = [at EXCEPT ![c] = "err"]
       /\ UNCHANGED <<mailed, lost>>

TellSeen(c) ==
    /\ at[c] = "tell"
    /\ Tell(c, seen[c])
    /\ UNCHANGED <<mode, seen, inst, reg, facet, guard, pending, tracked, victims,
                   stopAt, refused, bypassed, spawnFaults>>

\* lookup_actor(): the sender of the registered instance, whatever its state.
Found(c) ==
    /\ reg[Target[c]] # NoOne
    /\ seen' = [seen EXCEPT ![c] = reg[Target[c]]]

Lookup(c) ==
    /\ \/ CallStep(c, "start", "tell") /\ Found(c)
       \/ CallStep(c, "start", "active") /\ reg[Target[c]] = NoOne /\ UNCHANGED seen
    /\ UNCHANGED <<mode, inst, reg, facet, guard, pending, tracked, victims, stopAt,
                   mailed, lost, refused, bypassed, spawnFaults>>

\* is_active(): the actor has come up since the look-up, so
\* get_or_activate_local_sender() looks again.
CheckActive(c) ==
    /\ IF IsActive(Target[c]) THEN CallStep(c, "active", "sender") ELSE CallStep(c, "active", "facet")
    /\ UNCHANGED <<mode, seen, inst, reg, facet, guard, pending, tracked, victims,
                   stopAt, mailed, lost, refused, bypassed, spawnFaults>>

\* It activates without any guard when the actor has gone again.
LocalSender(c) ==
    /\ \/ CallStep(c, "sender", "tell") /\ Found(c) /\ UNCHANGED <<mode, bypassed>>
       \/ /\ reg[Target[c]] = NoOne
          /\ IF mode[c] = "none"
             THEN /\ CallStep(c, "sender", "activate")
                  /\ mode' = [mode EXCEPT ![c] = "sender"]
                  /\ bypassed' = bypassed \union {Target[c]}
             ELSE CallStep(c, "sender", "err") /\ UNCHANGED <<mode, bypassed>>
          /\ UNCHANGED seen
    /\ UNCHANGED <<inst, reg, facet, guard, pending, tracked, victims, stopAt, mailed,
                   lost, refused, spawnFaults>>

\* get_facet() and start_activation(): one caller turns the flag of the facet.
\* Without a facet the type-registered path is taken.
StartActivation(c) ==
    LET a == Target[c] IN
    /\ \/ facet[a] = "none" /\ CallStep(c, "facet", "loop") /\ UNCHANGED facet
       \/ facet[a] = "activating" /\ CallStep(c, "facet", "queue") /\ UNCHANGED facet
       \/ /\ facet[a] = "idle" /\ CallStep(c, "facet", "queueWon")
          /\ facet' = [facet EXCEPT ![a] = "activating"]
    /\ UNCHANGED <<mode, seen, inst, reg, guard, pending, tracked, victims, stopAt,
                   mailed, lost, refused, bypassed, spawnFaults>>

\* queue_message(): the loser's call returns with success, the winner activates.
QueueMessage(c) ==
    /\ pending' = [pending EXCEPT ![Target[c]] = @ \union {c}]
    /\ \/ CallStep(c, "queue", "ok") /\ UNCHANGED <<mode, bypassed>>
       \/ /\ CallStep(c, "queueWon", "activate")
          /\ mode' = [mode EXCEPT ![c] = "facet"]
          /\ bypassed' = bypassed \union {Target[c]}
       \/ /\ CallStep(c, "won", "activate")
          /\ mode' = [mode EXCEPT ![c] = "guard"]
          /\ UNCHANGED bypassed
    /\ UNCHANGED <<seen, inst, reg, facet, guard, tracked, victims, stopAt, mailed,
                   lost, refused, spawnFaults>>

\* The loop of the type-registered path.
LoopLookup(c) ==
    /\ \/ CallStep(c, "loop", "tell") /\ Found(c)
       \/ CallStep(c, "loop", "claim") /\ reg[Target[c]] = NoOne /\ UNCHANGED seen
    /\ UNCHANGED <<mode, inst, reg, facet, guard, pending, tracked, victims, stopAt,
                   mailed, lost, refused, bypassed, spawnFaults>>

\* Mutant: the entry is overwritten by whoever comes.
ClaimAlways(c) ==
    /\ CallStep(c, "claim", "won")
    /\ guard' = [guard EXCEPT ![Target[c]] = c]
    /\ UNCHANGED <<mode, seen, inst, reg, facet, pending, tracked, victims, stopAt,
                   mailed, lost, refused, bypassed, spawnFaults>>

\* try_acquire_activation(): the loser has a clone of the Notify.
Claim(c) ==
    LET a == Target[c] IN
    /\ \/ guard[a] = NoOne /\ CallStep(c, "claim", "won") /\ guard' = [guard EXCEPT ![a] = c]
       \/ guard[a] # NoOne /\ CallStep(c, "claim", "lost") /\ UNCHANGED guard
    /\ UNCHANGED <<mode, seen, inst, reg, facet, pending, tracked, victims, stopAt,
                   mailed, lost, refused, bypassed, spawnFaults>>

\* notified(): waits for a call of notify_waiters() that is still to come.  A
\* Notify that was notified before, and is in the map no more, wakes nobody.
AwaitNotify(c) ==
    /\ CallStep(c, "lost", "waiting") \/ CallStep(c, "late", "hung")
    /\ UNCHANGED <<mode, seen, inst, reg, facet, guard, pending, tracked, victims,
                   stopAt, mailed, lost, refused, bypassed, spawnFaults>>

\* Mutant: the entry is removed without notify_waiters().
NobodyWoken(a) == at

\* notify_waiters(): wakes who is waiting; a caller that has the Notify and does
\* not wait yet is late.
Woken(a) == [c \in Callers |-> CASE Target[c] = a /\ at[c] = "waiting" -> "loop"
                                 [] Target[c] = a /\ at[c] = "lost"    -> "late"
                                 [] OTHER -> at[c]]

\* release_activation_guard()
Release(a) == guard' = [guard EXCEPT ![a] = NoOne]

\* What follows an activation with result r in dispatch_local_message(): the
\* entry is released whatever the result.
CallReturns(c, r) ==
    LET a == Target[c] IN
    IF mode[c] = "guard"
    THEN Release(a) /\ at' = [Woken(a) EXCEPT ![c] = r]
    ELSE at' = [at EXCEPT ![c] = r] /\ UNCHANGED guard
-----------------------------------------------------------------------------
\* activate_virtual_actor(): an active actor is left alone, and so is what is
\* queued for it.
Activate(c) ==
    LET a == Target[c] IN
    /\ IF IsActive(a)
       THEN /\ CallStep(c, "activate", "done")
            /\ IF a \in Range(tracked) THEN Tracks(a) ELSE UNCHANGED tracked
       ELSE CallStep(c, "activate", "evict") /\ UNCHANGED tracked
    /\ UNCHANGED <<mode, seen, inst, reg, facet, guard, pending, victims, stopAt, mailed,
                   lost, refused, bypassed, spawnFaults>>

\* evict_lru_if_needed(), under the write lock of the tracking: forget the
\* inactive; with no room left, the oldest are victims, and those whose entry
\* of activation_in_flight is free are taken on.
EvictLru(c) ==
    /\ stopAt[c] = "idle" /\ at[c] = "evict"
    /\ \E live \in Filtered(tracked, {a \in Actors : IsActive(a)}) :
         LET old == SubSeq(live, 1, Len(live) - (MaxPool - 1)) IN
         IF Len(live) < MaxPool
         THEN /\ at' = [at EXCEPT ![c] = "metadata"] /\ tracked' = live
              /\ UNCHANGED <<victims, stopAt, guard>>
         ELSE \E free \in Filtered(old, {a \in Actors : guard[a] = NoOne}),
                 kept \in Filtered(old, {a \in Actors : guard[a] # NoOne}),
                 rest \in Filtered(tracked, Actors \ Range(old)) :
              /\ tracked' = rest \o kept
              /\ guard' = [a \in Actors |-> IF a \in Range(free) THEN c ELSE guard[a]]
              /\ victims' = [victims EXCEPT ![c] = free]
              /\ stopAt' = [stopAt EXCEPT ![c] = IF free = <<>> THEN @ ELSE "stop"]
              /\ at' = IF free = <<>> THEN [at EXCEPT ![c] = "metadata"] ELSE at
    /\ UNCHANGED <<mode, seen, inst, reg, facet, pending, mailed, lost, refused, bypassed, spawnFaults>>

\* spawn_actor() up to register(): a behavior that cannot be created is an
\* error; otherwise the actor gets a new facet, whose flag is not set.
SpawnFails(c) ==
    /\ at[c] \in {"metadata", "spawn"} /\ spawnFaults < MaxSpawnFaults
    /\ spawnFaults' = spawnFaults + 1
    /\ CallReturns(c, "err")
    /\ UNCHANGED <<mode, seen, inst, reg, facet, pending, tracked, victims, stopAt,
                   mailed, lost, refused, bypassed>>

RegisterFacet(c) ==
    /\ CallStep(c, "metadata", "spawn")
    /\ facet' = [facet EXCEPT ![Target[c]] = "idle"]
    /\ UNCHANGED <<mode, seen, inst, reg, guard, pending, tracked, victims, stopAt,
                   mailed, lost, refused, bypassed, spawnFaults>>

\* start_registered_local_actor(): start() and register_started(), which
\* replaces the sender of an instance that is registered already.
StartInstance(c) ==
    /\ CallStep(c, "spawn", "mark")
    /\ inst' = [inst EXCEPT ![c] = "running"]
    /\ reg' = [reg EXCEPT ![Target[c]] = c]
    /\ UNCHANGED <<mode, seen, facet, guard, pending, tracked, victims, stopAt, mailed,
                   lost, refused, bypassed, spawnFaults>>

\* mark_activated(), in spawn_actor() and again in activate_virtual_actor().
MarkActivated(c) ==
    /\ CallStep(c, "mark", "take") \/ CallStep(c, "markAgain", "takeAgain")
    /\ Tracks(Target[c])
    /\ UNCHANGED <<mode, seen, inst, reg, facet, guard, pending, victims, stopAt, mailed,
                   lost, refused, bypassed, spawnFaults>>

\* Mutant: the messages that were taken are not told to anybody.
TakePendingDrops(c) ==
    /\ CallStep(c, "take", "markAgain") \/ CallStep(c, "takeAgain", "done")
    /\ pending' = [pending EXCEPT ![Target[c]] = {}]
    /\ UNCHANGED <<mode, seen, inst, reg, facet, guard, tracked, victims, stopAt, mailed,
                   lost, refused, bypassed, spawnFaults>>

\* take_pending_messages() and the tell of each to the instance of c, in
\* spawn_actor() and again in activate_virtual_actor().  A tell that is refused
\* is a warning in the log: its message is in nobody's hands any more.
TakePending(c) ==
    LET queued == pending[Target[c]] IN
    /\ CallStep(c, "take", "markAgain") \/ CallStep(c, "takeAgain", "done")
    /\ pending' = [pending EXCEPT ![Target[c]] = {}]
    /\ \E denied \in SUBSET (queued \intersect Deniable) :
         /\ refused' = refused \union denied
         /\ IF inst[c] = "running"
            THEN mailed' = mailed \union (queued \ denied) /\ UNCHANGED lost
            ELSE lost' = lost \union (queued \ denied) /\ UNCHANGED mailed
    /\ UNCHANGED <<mode, seen, inst, reg, facet, guard, tracked, victims, stopAt,
                   bypassed, spawnFaults>>

\* Back in dispatch_local_message() (or get_or_activate_local_sender(), which
\* looks the sender up once more).
Dispatched(c) ==
    /\ at[c] = "done"
    /\ CallReturns(c, IF mode[c] = "sender" THEN "sender" ELSE "ok")
    /\ UNCHANGED <<mode, seen, inst, reg, facet, pending, tracked, victims, stopAt,
                   mailed, lost, refused, bypassed, spawnFaults>>
-----------------------------------------------------------------------------
\* get_actor_instance(): the registered instance ends; with none there is nothing
\* to stop, and the call goes on to unregister all the same.
StopRegistered(a) == inst' = IF reg[a] = NoOne THEN inst ELSE [inst EXCEPT ![reg[a]] = "stopped"]

\* stop_actor(), a call of an operator: an id of the registered type is in scope
\* whether or not an instance is registered, and nothing before the stop of the
\* instance changes any state.
BeginStop(a) ==
    /\ stopAt[Operator] = "idle"
    /\ StopRegistered(a)
    /\ stopAt' = [stopAt EXCEPT ![Operator] = "unregister"]
    /\ victims' = [victims EXCEPT ![Operator] = <<a>>]
    /\ UNCHANGED <<at, mode, seen, reg, facet, guard, pending, tracked, mailed,
                   lost, refused, bypassed, spawnFaults>>

\* stop_actor() for the next victim of an eviction.
StopInstance(p) ==
    /\ stopAt[p] = "stop"
    /\ StopRegistered(Head(victims[p]))
    /\ stopAt' = [stopAt EXCEPT ![p] = "unregister"]
    /\ UNCHANGED <<at, mode, seen, reg, facet, guard, pending, tracked, victims, mailed,
                   lost, refused, bypassed, spawnFaults>>

\* unregister_with_cleanup() removes the sender that is registered now, be it
\* that of an instance that was started since.
Unregister(p) ==
    LET a == Head(victims[p]) IN
    /\ stopAt[p] = "unregister"
    /\ reg' = [reg EXCEPT ![a] = NoOne]
    /\ stopAt' = [stopAt EXCEPT ![p] = "facet"]
    /\ bypassed' = IF IsActive(a) THEN bypassed \union {a} ELSE bypassed
    /\ UNCHANGED <<at, mode, seen, inst, facet, guard, pending, tracked, victims, mailed,
                   lost, refused, spawnFaults>>

\* mark_deactivated() clears the flag of the facet.
MarkDeactivated(p) ==
    LET a == Head(victims[p]) IN
    /\ stopAt[p] = "facet"
    /\ facet' = [facet EXCEPT ![a] = IF @ = "none" THEN @ ELSE "idle"]
    /\ tracked' \in Filtered(tracked, Actors \ {a})
    /\ stopAt' = [stopAt EXCEPT ![p] = "done"]
    /\ UNCHANGED <<at, mode, seen, inst, reg, guard, pending, victims, mailed, lost, refused,
                   bypassed, spawnFaults>>

\* The eviction releases the entry and goes on with the next victim, then the
\* activation goes on.
StopReturns(p) ==
    LET a == Head(victims[p])
        rest == Tail(victims[p])
    IN /\ stopAt[p] = "done" /\ p # Operator
       /\ victims' = [victims EXCEPT ![p] = rest]
       /\ stopAt' = [stopAt EXCEPT ![p] = IF rest = <<>> THEN "idle" ELSE "stop"]
       /\ Release(a)
       /\ at' = IF rest = <<>> THEN [Woken(a) EXCEPT ![p] = "metadata"] ELSE Woken(a)
       /\ UNCHANGED <<mode, seen, inst, reg, facet, pending, tracked, mailed, lost, refused,
                      bypassed, spawnFaults>>
-----------------------------------------------------------------------------
CallerStep(c) ==
    \/ Lookup(c) \/ CheckActive(c) \/ LocalSender(c) \/ TellSeen(c)
    \/ StartActivation(c) \/ QueueMessage(c)
    \/ LoopLookup(c) \/ Claim(c) \/ AwaitNotify(c)
    \/ Activate(c) \/ EvictLru(c) \/ RegisterFacet(c) \/ StartInstance(c)
    \/ MarkActivated(c) \/ TakePending(c) \/ Dispatched(c)

StopStep(p) == StopInstance(p) \/ Unregister(p) \/ MarkDeactivated(p) \/ StopReturns(p)

VirtualNext ==
    \/ \E c \in Callers : CallerStep(c)
    \/ \E c \in Callers : SpawnFails(c)
    \/ \E a \in Actors : BeginStop(a)
    \/ \E p \in Stoppers : StopStep(p)

VirtualSpec == VirtualInit /\ [][VirtualNext]_virtualVars

\* The calls that were begun go on.
VirtualGoesOn ==
    \/ \E c \in Callers : at[c] # "start" /\ CallerStep(c)
    \/ \E p \in Stoppers : StopStep(p)
-----------------------------------------------------------------------------
Activating == {"activate", "evict", "metadata", "spawn", "mark", "take", "markAgain", "takeAgain", "done"}

\* c is in the section that the entry of a protects.
Guarded(c, a) ==
    \/ Target[c] = a /\ (at[c] = "won" \/ (mode[c] = "guard" /\ at[c] \in Activating))
    \/ a \in Range(victims[c])

\* An entry of activation_in_flight belongs to the one call that activates or
\* evicts the actor, until it is released.
EntryHasOneOwner ==
    \A a \in Actors, c \in Callers : Guarded(c, a) <=> guard[a] = c

\* Whoever has the Notify of an entry, and waits on it or is about to, has
\* somebody who will still notify it.
WaitersHaveAWinner ==
    \A c \in Callers : at[c] \in {"lost", "waiting"} => guard[Target[c]] # NoOne

\* A message whose call returned Ok was handed to an instance, is queued for the
\* next activation, or was refused when the activation told it, the one way in
\* which dispatch_local_message() loses what it accepted; so is the message of
\* the call that activates.
AcceptedIsSomewhere ==
    \A c \in Callers :
        at[c] = "ok" \/ (at[c] \in Activating /\ mode[c] # "sender")
            => c \in mailed \union lost \union refused \union pending[Target[c]]

\* The registered instance is one of the actor.
RegisteredIsOurs ==
    \A a \in Actors : reg[a] # NoOne => Target[reg[a]] = a /\ inst[reg[a]] # "none"

Running(a) == {c \in Callers : Target[c] = a /\ inst[c] = "running"}

\* activation_in_flight alone does its work: as long as nobody activates the
\* actor past it, and no stop_actor() past it takes the entry of a new instance
\* from the registry, at most one instance of the actor runs.
SingleBehindEntry ==
    \A a \in Actors \ bypassed : \A c, d \in Running(a) : c = d

\* Why: an instance that runs is registered, where activate_virtual_actor()
\* looks, and who is about to start one has found none.
RunningIsFound ==
    /\ \A a \in Actors \ bypassed : \A c \in Running(a) : reg[a] = c
    /\ \A c \in Callers :
         /\ at[c] \in Activating /\ mode[c] # "guard" => Target[c] \in bypassed
         /\ at[c] \in {"evict", "metadata", "spawn"} /\ Target[c] \notin bypassed
                => Running(Target[c]) = {}

Distinct(seq) == \A i, j \in 1..Len(seq) : seq[i] = seq[j] => i = j

\* A call stops its victims one by one while it evicts, and none of them twice;
\* what it activates under the entry is not among them.
VictimsInTurn ==
    /\ Distinct(tracked)
    /\ \A p \in Stoppers : stopAt[p] # "idle" => victims[p] # <<>>
    /\ \A c \in Callers :
         /\ Distinct(victims[c])
         /\ stopAt[c] = "idle" => victims[c] = <<>>
         /\ stopAt[c] # "idle" => at[c] = "evict"
         /\ at[c] = "evict" /\ mode[c] = "guard" => Target[c] \notin Range(victims[c])

\* What activation, eviction and stop_actor() keep at every await.
VirtualInv ==
    VirtualTypeOK /\ EntryHasOneOwner /\ WaitersHaveAWinner /\ AcceptedIsSomewhere
    /\ RegisteredIsOurs /\ SingleBehindEntry /\ RunningIsFound /\ VictimsInTurn

\* The calls of dispatch_local_message() that were begun all return, except for
\* one that was late for the notification.
Unanswered == {c \in Callers : at[c] \notin Answers \union {"start", "hung"}}

DispatchReturns == []<>(Unanswered = {})
=============================================================================
