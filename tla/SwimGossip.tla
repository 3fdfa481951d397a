----------------------------- MODULE SwimGossip -----------------------------
(***************************************************************************)
(* Dissemination in SwimProtocol                                           *)
(* (crates/services/src/node_registry/swim.rs): a change to the member     *)
(* table is queued once the table's lock is dropped, sent with later       *)
(* messages and applied by whoever receives it.  The network loses,        *)
(* repeats and reorders.  What makes a node suspect or drop another (its   *)
(* probes, its callers) is a choice of the environment.                    *)
(***************************************************************************)
EXTENDS SwimTable, Sequences, FiniteSets

CONSTANTS
    Subjects,        \* the nodes whose membership is followed
    MaxInc,          \* bound on incarnations
    MaxPiggyback,    \* max_piggyback_updates
    BroadcastLimit,  \* effective_broadcast_limit
    MaxPending       \* bound on the tasks about to queue an update

ASSUME GossipAssumption ==
    Subjects \subseteq Nodes /\ MaxInc \in Nat /\ \A k \in {MaxPiggyback, BroadcastLimit, MaxPending} : k \in Nat \ {0}

VARIABLES
    local,     \* local[n]: local_incarnation
    view,   \* view[n][i]: the entry of i in the table of n
    pending,   \* pending[n]: updates of n in the table, not queued yet
    queue,     \* queue[n]: updates_queue, oldest first
    condemned,    \* condemned[n]: to_declare_dead
    net,       \* updates ever sent
    minted     \* minted[n]: highest incarnation n ever gave itself

gossipVars == <<local, view, pending, queue, condemned, net, minted>>

GossipEntries == [state: States, inc: 0..MaxInc]
Updates == [id: Subjects, state: States, inc: 0..MaxInc]

GossipTypeOK ==
    /\ local \in [Subjects -> 0..MaxInc]
    /\ view \in [Nodes -> [Subjects -> GossipEntries \union {Absent}]]
    /\ pending \in [Nodes -> SUBSET Updates]
    /\ queue \in [Nodes -> Seq([u: Updates, count: 0..BroadcastLimit])]
    /\ condemned \in [Nodes -> SUBSET Subjects]
    /\ net \in SUBSET Updates
    /\ minted \in [Subjects -> 0..MaxInc]

GossipInit ==
    /\ local = [n \in Subjects |-> 0]
    /\ view = [n \in Nodes |-> [i \in Subjects |-> Absent]]
    /\ pending = [n \in Nodes |-> {}]
    /\ queue = [n \in Nodes |-> <<>>]
    /\ condemned = [n \in Nodes |-> {}]
    /\ net = {}
    /\ minted = [n \in Subjects |-> 0]

-----------------------------------------------------------------------------
Update(i, e) == [id |-> i, state |-> e.state, inc |-> e.inc]

SetView(n, i, e) == view' = [view EXCEPT ![n][i] = e]

CanQueue(n) == Cardinality(pending[n]) < MaxPending

\* A write to the table, and the update to queue if it changed something.
WriteAndQueue(n, i, e) ==
    /\ CanQueue(n)
    /\ SetView(n, i, e)
    /\ pending' = IF e = view[n][i] THEN pending
                  ELSE [pending EXCEPT ![n] = @ \union {Update(i, e)}]

\* queue_update: one update per node, 2 * max_piggyback_updates in all.
Queued(q, u) ==
    LET new == [u |-> u, count |-> 0]
        same == {k \in 1..Len(q) : q[k].u.id = u.id}
        q2 == IF same = {} THEN Append(q, new)
              ELSE [k \in 1..Len(q) |->
                      IF k \in same /\ u.inc >= q[k].u.inc THEN new ELSE q[k]]
        limit == 2 * MaxPiggyback
    IN  IF Len(q2) > limit THEN SubSeq(q2, Len(q2) - limit + 1, Len(q2)) ELSE q2

QueueUpdate(n) ==
    /\ \E u \in pending[n] :
        /\ queue' = [queue EXCEPT ![n] = Queued(@, u)]
        /\ pending' = [pending EXCEPT ![n] = @ \ {u}]
    /\ UNCHANGED <<local, view, condemned, net, minted>>

\* upsert_member, for a registration: incarnation 0.
UpsertMember(n, i) ==
    /\ WriteAndQueue(n, i, Upserted(view[n][i], "alive", 0))
    /\ UNCHANGED <<local, queue, condemned, net, minted>>

SuspectMember(n, i) ==
    /\ WriteAndQueue(n, i, Suspected(view[n][i]))
    /\ UNCHANGED <<local, queue, condemned, net, minted>>

\* check_suspect_timeouts: collect, then declare_dead one by one.
CollectCondemned(n) ==
    /\ condemned[n] = {}
    /\ \E S \in SUBSET Subjects \ {{}} :
        /\ \A i \in S : view[n][i].state = "suspect"
        /\ condemned' = [condemned EXCEPT ![n] = S]
    /\ UNCHANGED <<local, view, pending, queue, net, minted>>

DeclareCondemned(n) ==
    /\ \E i \in condemned[n] :
        /\ WriteAndQueue(n, i, Killed(view[n][i]))
        /\ condemned' = [condemned EXCEPT ![n] = @ \ {i}]
    /\ UNCHANGED <<local, queue, net, minted>>

ReapDeadNode(n, i) ==
    /\ view[n][i].state \in {"dead", "left"}
    /\ SetView(n, i, Absent)
    /\ UNCHANGED <<local, pending, queue, condemned, net, minted>>

\* A process restarts with a new SwimProtocol.
RestartGossip(n) ==
    /\ local' = [i \in Subjects |-> IF i = n THEN 0 ELSE local[i]]
    /\ view' = [view EXCEPT ![n] = [i \in Subjects |-> Absent]]
    /\ pending' = [pending EXCEPT ![n] = {}]
    /\ queue' = [queue EXCEPT ![n] = <<>>]
    /\ condemned' = [condemned EXCEPT ![n] = {}]
    /\ UNCHANGED <<net, minted>>

-----------------------------------------------------------------------------
\* get_piggyback_updates: the first MaxPiggyback updates are sent; an update
\* sent BroadcastLimit times leaves the queue.
GetPiggybackUpdates(n) ==
    /\ queue[n] # <<>>
    /\ LET q == queue[n]
           sent == {j \in 1..Len(q) : j <= MaxPiggyback}
           counted == [j \in 1..Len(q) |->
                          [u |-> q[j].u, count |-> IF j \in sent THEN q[j].count + 1 ELSE q[j].count]]
           kept == {j \in 1..Len(q) : counted[j].count < BroadcastLimit}
       IN  /\ net' = net \union {q[j].u : j \in sent}
           /\ \E f \in [1..Cardinality(kept) -> kept] :   \* the order is kept
                /\ \A a, b \in DOMAIN f : a < b => f[a] < f[b]
                /\ queue' = [queue EXCEPT ![n] = [k \in DOMAIN f |-> counted[f[k]]]]
    /\ UNCHANGED <<local, view, pending, condemned, minted>>

\* apply_updates, Alive: process_alive.
ApplyAlive(n, u) ==
    /\ u.state = "alive"
    /\ SetView(n, u.id, ProcessedAlive(view[n][u.id], u.inc))
    /\ UNCHANGED <<local, pending, queue, condemned, net, minted>>

\* Suspect about the node itself: a new incarnation, and the node is alive.
Refute(n, u) ==
    /\ u.state = "suspect" /\ u.id = n
    /\ CanQueue(n) /\ local[n] < MaxInc
    /\ LET inc == local[n] + 1 IN
        /\ local' = [local EXCEPT ![n] = inc]
        /\ minted' = [minted EXCEPT ![n] = IF inc > @ THEN inc ELSE @]
        /\ pending' = [pending EXCEPT ![n] = @ \union {Update(n, [state |-> "alive", inc |-> inc])}]
    /\ UNCHANGED <<view, queue, condemned, net>>

\* Mutant: the suspicion of another node is refuted on its behalf.
ApplySuspectRefutes(n, u) ==
    /\ u.state = "suspect" /\ u.id # n /\ view[n][u.id] # Absent
    /\ view[n][u.id].inc < MaxInc
    /\ SetView(n, u.id, [state |-> "alive", inc |-> view[n][u.id].inc + 1])
    /\ UNCHANGED <<local, pending, queue, condemned, net, minted>>

\* Suspect about a known member (or Left, which nothing in the code sends).
ApplySuspect(n, u) ==
    /\ u.state = "suspect" /\ u.id # n /\ view[n][u.id] # Absent
    /\ SetView(n, u.id, UpdateState(view[n][u.id], u.state, u.inc))
    /\ UNCHANGED <<local, pending, queue, condemned, net, minted>>

\* Dead: declare_dead, whatever the incarnation of the update.
ApplyDead(n, u) ==
    /\ u.state = "dead"
    /\ WriteAndQueue(n, u.id, Killed(view[n][u.id]))
    /\ UNCHANGED <<local, queue, condemned, net, minted>>

ApplyUpdate(n, u) ==
    ApplyAlive(n, u) \/ Refute(n, u) \/ ApplySuspect(n, u) \/ ApplyDead(n, u)

\* get_full_state of o merged by n, member by member.
MergeFullState(n, o, i) ==
    /\ o # n /\ i # n /\ view[o][i] # Absent
    /\ SetView(n, i, Merged(view[n][i], view[o][i]))
    /\ UNCHANGED <<local, pending, queue, condemned, net, minted>>

-----------------------------------------------------------------------------
GossipNext ==
    \E n \in Nodes :
        \/ QueueUpdate(n) \/ CollectCondemned(n) \/ DeclareCondemned(n)
        \/ GetPiggybackUpdates(n) \/ RestartGossip(n)
        \/ \E i \in Subjects \ {n} : UpsertMember(n, i) \/ SuspectMember(n, i)
        \/ \E i \in Subjects : ReapDeadNode(n, i)
        \/ \E u \in net : ApplyUpdate(n, u)
        \/ \E o \in Nodes, i \in Subjects : MergeFullState(n, o, i)

GossipSpec == GossipInit /\ [][GossipNext]_gossipVars

-----------------------------------------------------------------------------
(* Properties.                                                             *)

\* Nobody but a node itself mints its incarnations: whatever a table, a queue
\* or a message says of it, the node has reached that incarnation.
IncarnationMinted ==
    \A i \in Subjects :
        /\ local[i] <= minted[i]
        /\ \A n \in Nodes :
            /\ view[n][i].inc <= minted[i]
            /\ \A u \in pending[n] : u.id = i => u.inc <= minted[i]
            /\ \A k \in 1..Len(queue[n]) : queue[n][k].u.id = i => queue[n][k].u.inc <= minted[i]
        /\ \A u \in net : u.id = i => u.inc <= minted[i]

GossipInv == GossipTypeOK /\ IncarnationMinted

\* Late, repeated and reordered reports never take a known member back to an
\* older incarnation.
IncarnationMonotone ==
    [][\A n \in Nodes, i \in Subjects :
          view[n][i] # Absent /\ view'[n][i] # Absent
              => view'[n][i].inc >= view[n][i].inc]_gossipVars

\* A dead member comes back only with a higher incarnation, or after it was reaped.
NoResurrection ==
    [][\A n \in Nodes, i \in Subjects :
          view[n][i].state = "dead" /\ Active(view'[n][i])
              => view'[n][i].inc > view[n][i].inc]_gossipVars

\* However updates arrive (apply_updates), a table goes back neither to an older
\* incarnation nor from dead to alive.
TableNeverGoesBack == IncarnationMonotone /\ NoResurrection
=============================================================================
