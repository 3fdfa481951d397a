-------------------------------- MODULE Swim --------------------------------
(***************************************************************************)
(* Failure detection in the node registry                                  *)
(* (crates/services/src/node_registry/mod.rs): the probe loop, which is    *)
(* one task, and the registry's calls work on the SwimProtocol member      *)
(* table, locked anew for each access.  The registry's pings carry no      *)
(* updates, so that the update queue is left to SwimGossip and every       *)
(* incarnation here is the 0 a registration gives.  Thin nodes, which are  *)
(* neither probed nor asked to probe, are left out.                        *)
(***************************************************************************)
EXTENDS SwimTable

CONSTANTS
    Seeds,       \* _unknown_ placeholder ids
    AnsweredBy,  \* AnsweredBy[i]: the node listening at the address of i
    Observers    \* the nodes whose registry is followed

Ids == Nodes \union Seeds

ASSUME SwimAssumption ==
    /\ Nodes \intersect Seeds = {}
    /\ Observers \subseteq Nodes
    /\ AnsweredBy \in [Ids -> Nodes] /\ \A n \in Nodes : AnsweredBy[n] = n

VARIABLES
    foreign,   \* the nodes of another cluster; nothing changes it
    up,        \* the nodes whose process runs
    members,   \* members[n][i]: the entry of i in the table of n
    aged,      \* aged[n]: members other than n whose last_probe_success, the
               \* time they joined, is MAX_PROBE_AGE ago
    loop,      \* loop[n]: where run_swim_loop is
    target,    \* target[n]: the member being probed
    doomed,    \* doomed[n]: to_declare_dead
    beat,      \* beat[n]: the clone send_heartbeat is about to write back
    blamed     \* blamed[n]: nodes that failed a probe of n, or were dropped by a
               \* caller, since they joined

vars == <<foreign, up, members, aged, loop, target, doomed, beat, blamed>>

Entries == [state: States, inc: {0}]
None == "none"
NoClone == [id |-> None, entry |-> Absent]
Clones == [id: Ids, entry: Entries]

TypeOK ==
    /\ foreign \subseteq Nodes \ Observers
    /\ up \subseteq Nodes
    /\ members \in [Observers -> [Ids -> Entries \union {Absent}]]
    /\ aged \in [Observers -> SUBSET Ids]
    /\ loop \in [Observers -> {"idle", "ping", "indirect", "suspect", "check", "declare"}]
    /\ target \in [Observers -> Ids \union {None}]
    /\ doomed \in [Observers -> SUBSET Ids]
    /\ beat \in [Observers -> Clones \union {NoClone}]
    /\ blamed \in [Observers -> SUBSET Nodes]

Empty == [i \in Ids |-> Absent]

Init ==
    /\ foreign \in SUBSET (Nodes \ Observers)
    /\ up = Nodes
    /\ members = [n \in Observers |-> Empty]
    /\ aged = [n \in Observers |-> {}]
    /\ loop = [n \in Observers |-> "idle"]
    /\ target = [n \in Observers |-> None]
    /\ doomed = [n \in Observers |-> {}]
    /\ beat = [n \in Observers |-> NoClone]
    /\ blamed = [n \in Observers |-> {}]

-----------------------------------------------------------------------------
\* The table of n becomes t; a member that leaves is forgotten.
Write(n, t) ==
    /\ members' = [members EXCEPT ![n] = t]
    /\ aged' = [aged EXCEPT ![n] = {i \in @ : t[i] # Absent}]

SetEntry(n, i, e) == Write(n, [members[n] EXCEPT ![i] = e])

\* Entries S leave the table (remove_member_silently) and i is upserted alive.
Replace(n, S, i) ==
    Write(n, [j \in Ids |->
                 IF j = i THEN Upserted(members[n][i], "alive", 0)
                 ELSE IF j \in S THEN Absent ELSE members[n][j]])

Blame(n, i) == blamed' = [blamed EXCEPT ![n] = @ \union ({i} \intersect Nodes)]

\* A member that joins afresh has a clean record.
Joined(n, i) ==
    blamed' = IF members[n][i] = Absent THEN [blamed EXCEPT ![n] = @ \ {i}] ELSE blamed

LoopAt(n, l) == n \in up /\ loop[n] = l

GoTo(n, l) == loop' = [loop EXCEPT ![n] = l]

-----------------------------------------------------------------------------
(* probe_node: what the answer to a ping of t does to the table of n.      *)

\* A foreign cluster answers: the member is dropped.
Mismatch(n, t) ==
    /\ AnsweredBy[t] \in up \intersect foreign
    /\ SetEntry(n, t, IF t \in Seeds THEN Absent ELSE Killed(members[n][t]))
    /\ Blame(n, t)

\* reconcile_ping_response: the node that answered is upserted, in place of
\* the placeholder if it was pinged as one.
Reconcile(n, t) ==
    LET r == AnsweredBy[t] IN
    /\ r \in up \ foreign
    /\ Replace(n, IF t \in Seeds THEN {t} ELSE {}, r)
    /\ Joined(n, r)

\* select_indirect_targets
Intermediaries(n, t) == {i \in Ids \ {n, t} : members[n][i].state = "alive"}

\* An intermediary answered the ping_req, which it does without a ping of the
\* target: process_alive with the incarnation of the selected member.
Vouched(n, t) ==
    /\ \E i \in Intermediaries(n, t) : AnsweredBy[i] \in up
    /\ SetEntry(n, t, ProcessedAlive(members[n][t], 0))
    /\ Joined(n, t)

-----------------------------------------------------------------------------
(* run_swim_loop                                                           *)

\* select_probe_target: a clone of an active member other than the node itself.
SelectProbeTarget(n, i) ==
    /\ LoopAt(n, "idle") /\ i # n /\ Active(members[n][i]) /\ i \notin aged[n]
    /\ target' = [target EXCEPT ![n] = i]
    /\ GoTo(n, "ping")
    /\ UNCHANGED <<foreign, up, members, aged, doomed, beat, blamed>>

\* There is none, or should_probe_member refuses it.
NoProbeTarget(n) ==
    /\ LoopAt(n, "idle")
    /\ LET active == {i \in Ids \ {n} : Active(members[n][i])} IN
        active = {} \/ active \intersect aged[n] # {}
    /\ GoTo(n, "check")
    /\ UNCHANGED <<foreign, up, members, aged, target, doomed, beat, blamed>>

DirectPingForeign(n) ==
    /\ LoopAt(n, "ping") /\ Mismatch(n, target[n])
    /\ GoTo(n, "check")
    /\ UNCHANGED <<foreign, up, target, doomed, beat>>

DirectPingAnswered(n) ==
    /\ LoopAt(n, "ping") /\ Reconcile(n, target[n])
    /\ GoTo(n, "check")
    /\ UNCHANGED <<foreign, up, target, doomed, beat>>

\* The ping fails, the node being down or the network losing it.
DirectPingFails(n) ==
    /\ LoopAt(n, "ping")
    /\ Blame(n, target[n])
    /\ GoTo(n, "indirect")
    /\ UNCHANGED <<foreign, up, members, aged, target, doomed, beat>>

IndirectPingAnswered(n) ==
    /\ LoopAt(n, "indirect") /\ Vouched(n, target[n])
    /\ GoTo(n, "check")
    /\ UNCHANGED <<foreign, up, target, doomed, beat>>

\* Mutant: without an intermediary the failed probe has no effect.
IndirectPingFailsTried(n) ==
    /\ LoopAt(n, "indirect")
    /\ SetEntry(n, target[n], IF Intermediaries(n, target[n]) = {} THEN members[n][target[n]]
                                ELSE Suspected(members[n][target[n]]))
    /\ GoTo(n, "check")
    /\ UNCHANGED <<foreign, up, target, doomed, beat, blamed>>

\* No intermediary, or none got an answer: suspect_member, here in probe_node ...
IndirectPingFails(n) ==
    /\ LoopAt(n, "indirect")
    /\ SetEntry(n, target[n], Suspected(members[n][target[n]]))
    /\ GoTo(n, "suspect")
    /\ UNCHANGED <<foreign, up, target, doomed, beat, blamed>>

\* ... and again in the loop.
SuspectAgain(n) ==
    /\ LoopAt(n, "suspect")
    /\ SetEntry(n, target[n], Suspected(members[n][target[n]]))
    /\ GoTo(n, "check")
    /\ UNCHANGED <<foreign, up, target, doomed, beat, blamed>>

\* Mutant: every member whose state has not changed for that long.
CollectTimeoutsOfAll(n, S) ==
    /\ LoopAt(n, "check")
    /\ doomed' = [doomed EXCEPT ![n] = S]
    /\ target' = [target EXCEPT ![n] = None]
    /\ GoTo(n, "declare")
    /\ UNCHANGED <<foreign, up, members, aged, beat, blamed>>

\* check_suspect_timeouts collects the suspects S whose timeout has elapsed ...
CollectTimeouts(n, S) ==
    /\ LoopAt(n, "check")
    /\ \A i \in S : members[n][i].state = "suspect"
    /\ doomed' = [doomed EXCEPT ![n] = S]
    /\ target' = [target EXCEPT ![n] = None]
    /\ GoTo(n, "declare")
    /\ UNCHANGED <<foreign, up, members, aged, beat, blamed>>

\* ... and declares them dead after dropping the lock.
DeclareDoomed(n) ==
    /\ LoopAt(n, "declare")
    /\ \E i \in doomed[n] :
        /\ SetEntry(n, i, Killed(members[n][i]))
        /\ doomed' = [doomed EXCEPT ![n] = @ \ {i}]
    /\ UNCHANGED <<foreign, up, loop, target, beat, blamed>>

\* reap_dead_nodes removes the dead S whose reap timeout has elapsed.
ReapDeadNodes(n, S) ==
    /\ LoopAt(n, "declare") /\ doomed[n] = {}
    /\ \A i \in S : members[n][i].state \in {"dead", "left"}
    /\ Write(n, [i \in Ids |-> IF i \in S THEN Absent ELSE members[n][i]])
    /\ GoTo(n, "idle")
    /\ UNCHANGED <<foreign, up, target, doomed, beat, blamed>>

-----------------------------------------------------------------------------
(* Calls of the registry.                                                  *)

\* register_node: an active placeholder of the same address gives way; a
\* placeholder is not registered beside an active member of its address.
RegisterNode(n, i) ==
    /\ n \in up
    /\ LET aliases == {j \in Ids \ {i} : Active(members[n][j]) /\ AnsweredBy[j] = AnsweredBy[i]}
       IN  /\ i \in Nodes \/ aliases = {}
           /\ Replace(n, aliases, i)
           /\ Joined(n, i)
    /\ UNCHANGED <<foreign, up, loop, target, doomed, beat>>

\* kickoff_seed_reconcile_ping: probe_node in a task of its own.
SeedPing(n, t) ==
    /\ n \in up
    /\ \/ Mismatch(n, t) \/ Reconcile(n, t) \/ Vouched(n, t)
       \/ SetEntry(n, t, Suspected(members[n][t])) /\ Blame(n, t)
    /\ UNCHANGED <<foreign, up, loop, target, doomed, beat>>

\* lookup_node and sync_with_db find the registration in the object registry.
Discover(n, i) ==
    /\ n \in up
    /\ SetEntry(n, i, Upserted(members[n][i], "alive", 0))
    /\ Joined(n, i)
    /\ UNCHANGED <<foreign, up, loop, target, doomed, beat>>

\* unregister_node
UnregisterNode(n, i) ==
    /\ n \in up
    /\ SetEntry(n, i, Killed(members[n][i]))
    /\ Blame(n, i)
    /\ UNCHANGED <<foreign, up, loop, target, doomed, beat>>

\* send_heartbeat: get_member and record_probe_success on the clone ...
HeartbeatRead(n, i) ==
    /\ n \in up /\ beat[n] = NoClone /\ members[n][i] # Absent
    /\ LET e == members[n][i] IN
        beat' = [beat EXCEPT ![n] = [id |-> i, entry |->
                    IF e.state = "suspect" THEN [state |-> "alive", inc |-> e.inc] ELSE e]]
    /\ UNCHANGED <<foreign, up, members, aged, loop, target, doomed, blamed>>

\* ... then upsert_member with the clone.
HeartbeatWrite(n) ==
    /\ n \in up /\ beat[n] # NoClone
    /\ LET b == beat[n] IN
        SetEntry(n, b.id, Upserted(members[n][b.id], b.entry.state, b.entry.inc))
    /\ beat' = [beat EXCEPT ![n] = NoClone]
    /\ UNCHANGED <<foreign, up, loop, target, doomed, blamed>>

\* A node stops; when it runs again its table is empty.
Crash(n) ==
    /\ n \in up
    /\ up' = up \ {n}
    /\ UNCHANGED <<foreign, members, aged, loop, target, doomed, beat, blamed>>

Restart(n) ==
    /\ n \in Nodes \ up
    /\ up' = up \union {n}
    /\ members' = [o \in Observers |-> IF o = n THEN Empty ELSE members[o]]
    /\ aged' = [o \in Observers |-> IF o = n THEN {} ELSE aged[o]]
    /\ loop' = [o \in Observers |-> IF o = n THEN "idle" ELSE loop[o]]
    /\ target' = [o \in Observers |-> IF o = n THEN None ELSE target[o]]
    /\ doomed' = [o \in Observers |-> IF o = n THEN {} ELSE doomed[o]]
    /\ beat' = [o \in Observers |-> IF o = n THEN NoClone ELSE beat[o]]
    /\ blamed' = [o \in Observers |-> IF o = n THEN {} ELSE blamed[o]]
    /\ UNCHANGED foreign

\* MAX_PROBE_AGE has passed since i joined; a node never probes itself.
Age(n, i) ==
    /\ n \in up /\ i # n /\ members[n][i] # Absent /\ i \notin aged[n]
    /\ aged' = [aged EXCEPT ![n] = @ \union {i}]
    /\ UNCHANGED <<foreign, up, members, loop, target, doomed, beat, blamed>>

-----------------------------------------------------------------------------
ProbeLoop(n) ==
    \/ NoProbeTarget(n)
    \/ \E i \in Ids : SelectProbeTarget(n, i)
    \/ DirectPingAnswered(n) \/ DirectPingForeign(n) \/ DirectPingFails(n)
    \/ IndirectPingAnswered(n) \/ IndirectPingFails(n) \/ SuspectAgain(n)
    \/ \E S \in SUBSET Ids : CollectTimeouts(n, S)
    \/ DeclareDoomed(n)
    \/ \E S \in SUBSET Ids : ReapDeadNodes(n, S)

Calls(n) ==
    \/ \E i \in Ids : RegisterNode(n, i) \/ Discover(n, i) \/ UnregisterNode(n, i) \/ HeartbeatRead(n, i)
    \/ \E t \in Seeds : SeedPing(n, t)
    \/ HeartbeatWrite(n)

Next ==
    \/ \E n \in Observers : ProbeLoop(n) \/ Calls(n)
    \/ \E n \in Nodes : Crash(n) \/ Restart(n)
    \/ \E n \in Observers, i \in Ids : Age(n, i)

Spec == Init /\ [][Next]_vars

-----------------------------------------------------------------------------
(* Properties.                                                             *)

\* A node is suspected or declared dead only if, since it joined, one of its
\* probes failed or a caller dropped it: suspect_member and declare_dead work
\* by id, after awaits in which the table may have changed.
NoUnprovokedSuspicion ==
    \A n \in Observers, i \in Nodes :
        members[n][i].state \in {"suspect", "dead"} => i \in blamed[n]

\* What the loop and the heartbeat remember across awaits is covered by blame:
\* the target of a failed probe, the suspects about to be declared dead and a
\* dead clone that send_heartbeat would write back.
TargetBlamed ==
    \A n \in Observers :
        /\ loop[n] \in {"ping", "indirect", "suspect"} =>
              target[n] \in Ids /\ (target[n] \in Nodes => members[n][target[n]] # Absent)
        /\ loop[n] \in {"indirect", "suspect"} /\ target[n] \in Nodes => target[n] \in blamed[n]

DoomedBlamed ==
    \A n \in Observers, i \in Nodes :
        i \in doomed[n] => loop[n] = "declare" /\ members[n][i] # Absent /\ i \in blamed[n]

CloneBlamed ==
    \A n \in Observers :
        beat[n] # NoClone /\ beat[n].id \in Nodes /\ beat[n].entry.state # "alive"
        /\ members[n][beat[n].id] = Absent => beat[n].id \in blamed[n]

\* Nothing says that a node has left.
NobodyLeft ==
    \A n \in Observers :
        /\ \A i \in Ids : members[n][i].state # "left"
        /\ beat[n] # NoClone => beat[n].entry.state \in {"alive", "dead"}

RegistryInv ==
    /\ TypeOK
    /\ NoUnprovokedSuspicion
    /\ TargetBlamed
    /\ DoomedBlamed
    /\ CloneBlamed
    /\ NobodyLeft

\* A dead member comes back only after it was reaped: neither a heartbeat, nor
\* a registration, nor a late answer to a probe revives it.
DeadUntilReaped ==
    [][\A n \in Observers, i \in Ids :
          members[n][i].state = "dead" => members'[n][i] \in {members[n][i], Absent}]_vars

\* Nobody answers for i: the intermediaries n could ask are down.
Unvouched(n, i) == \A j \in Intermediaries(n, i) : AnsweredBy[j] \notin up

\* A node that stops for good leaves the active view of an observer that stays
\* up (as often as somebody registers it again), provided that nobody answers
\* for it, which an intermediary does without a ping, and that it joined less
\* than MAX_PROBE_AGE ago, after which a member is no longer probed.
CrashDetected ==
    \A n \in Observers, i \in Nodes \ Observers :
        <>[](i \notin up /\ n \in up /\ Unvouched(n, i) /\ i \notin aged[n])
            => []<>~Active(members[n][i])
=============================================================================
