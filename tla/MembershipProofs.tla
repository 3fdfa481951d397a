-------------------------- MODULE MembershipProofs --------------------------
(***************************************************************************)
(* Proofs about SWIM in the node registry, for any number of nodes, seeds, *)
(* observers and subjects and every bound: nobody is suspected without     *)
(* cause, a dead member stays dead until it is reaped, and only a node     *)
(* itself raises its incarnation.                                          *)
(***************************************************************************)
EXTENDS Membership, FiniteSetTheorems, SequenceTheorems, TLAPS

-----------------------------------------------------------------------------
(* Detection: the table of one observer.                                   *)

Tables == [Ids -> Entries \union {Absent}]

(***************************************************************************)
(* What the calls of SwimProtocol make of an entry of incarnation 0.       *)
(***************************************************************************)
LEMMA EntryOps ==
    ASSUME NEW e \in Entries \union {Absent}
    PROVE  /\ Absent \notin Entries /\ Absent.state = "absent"
           /\ Upserted(e, "alive", 0) \in Entries
           /\ e = Absent => Upserted(e, "alive", 0).state = "alive"
           /\ e # Absent => \A s \in States : Upserted(e, s, 0) = e
           /\ ProcessedAlive(e, 0) \in Entries
           /\ e = Absent => ProcessedAlive(e, 0).state = "alive"
           /\ e # Absent => ProcessedAlive(e, 0) = e
           /\ Suspected(e) \in Entries \union {Absent}
           /\ Suspected(e) = e \/ (e # Absent /\ Suspected(e).state = "suspect" /\ Suspected(e) # Absent)
           /\ e.state = "dead" => Suspected(e) = e
           /\ Killed(e) \in Entries \union {Absent}
           /\ Killed(e) = e \/ (e # Absent /\ Killed(e).state = "dead" /\ Killed(e) # Absent)
<1> USE DEF Entries, Absent, States
<1>1. Absent \notin Entries /\ Absent.state = "absent"
    OBVIOUS
<1>2. CASE e = Absent
    BY <1>2 DEF Upserted, ProcessedAlive, Suspected, Killed, Active
<1>3. CASE e \in Entries
    <2>1. e # Absent /\ e.inc = 0 /\ e.state \in States /\ e = [state |-> e.state, inc |-> 0]
        BY <1>3
    <2>2. \A s \in States : Upserted(e, s, 0) = e
        BY <2>1 DEF Upserted
    <2>3. ProcessedAlive(e, 0) = e
        BY <2>1 DEF ProcessedAlive, UpdateState, Priority
    <2> QED BY <1>1, <1>3, <2>1, <2>2, <2>3 DEF Suspected, Killed, Active
<1> QED BY <1>2, <1>3

(***************************************************************************)
(* A write to the table of n leaves the tables of the others alone.        *)
(***************************************************************************)
LEMMA WriteFacts ==
    ASSUME TypeOK, NEW n \in Observers, NEW t \in Tables, Write(n, t)
    PROVE  /\ members' \in [Observers -> Tables]
           /\ aged' \in [Observers -> SUBSET Ids]
           /\ members'[n] = t
           /\ \A o \in Observers \ {n} : members'[o] = members[o]
BY DEF Write, TypeOK, Tables

(***************************************************************************)
(* A write of one entry.                                                   *)
(***************************************************************************)
LEMMA SetEntryFacts ==
    ASSUME TypeOK, NEW n \in Observers, NEW i \in Ids, NEW e \in Entries \union {Absent},
           SetEntry(n, i, e)
    PROVE  /\ members' \in [Observers -> Tables]
           /\ aged' \in [Observers -> SUBSET Ids]
           /\ members'[n][i] = e
           /\ \A j \in Ids \ {i} : members'[n][j] = members[n][j]
           /\ \A o \in Observers \ {n} : members'[o] = members[o]
<1>1. members[n] \in Tables
    BY DEF TypeOK, Tables
<1>2. [members[n] EXCEPT ![i] = e] \in Tables
    BY <1>1 DEF Tables
<1>3. Write(n, [members[n] EXCEPT ![i] = e])
    BY DEF SetEntry
<1> HIDE DEF Tables
<1>4. /\ members' \in [Observers -> Tables]
      /\ aged' \in [Observers -> SUBSET Ids]
      /\ members'[n] = [members[n] EXCEPT ![i] = e]
      /\ \A o \in Observers \ {n} : members'[o] = members[o]
    BY <1>2, <1>3, WriteFacts
<1> QED BY <1>1, <1>4 DEF Tables

(***************************************************************************)
(* remove_member_silently of S and upsert_member of i in one write.        *)
(***************************************************************************)
LEMMA ReplaceFacts ==
    ASSUME TypeOK, NEW n \in Observers, NEW i \in Ids, NEW S, Replace(n, S, i)
    PROVE  /\ members' \in [Observers -> Tables]
           /\ aged' \in [Observers -> SUBSET Ids]
           /\ members'[n][i] = Upserted(members[n][i], "alive", 0)
           /\ \A j \in Ids \ {i} : members'[n][j] = IF j \in S THEN Absent ELSE members[n][j]
           /\ \A o \in Observers \ {n} : members'[o] = members[o]
<1> DEFINE t == [j \in Ids |-> IF j = i THEN Upserted(members[n][i], "alive", 0)
                               ELSE IF j \in S THEN Absent ELSE members[n][j]]
<1>1. members[n] \in Tables
    BY DEF TypeOK, Tables
<1>2. Upserted(members[n][i], "alive", 0) \in Entries
    BY <1>1, EntryOps DEF Tables
<1>3. t \in Tables
    BY <1>1, <1>2 DEF Tables
<1>4. Write(n, t)
    BY DEF Replace
<1>5. /\ t[i] = Upserted(members[n][i], "alive", 0)
      /\ \A j \in Ids \ {i} : t[j] = IF j \in S THEN Absent ELSE members[n][j]
    OBVIOUS
<1> HIDE DEF t
<1> QED BY <1>3, <1>4, <1>5, WriteFacts

-----------------------------------------------------------------------------
(* How the entry of a node may change, and what it costs in blame.         *)

\* The entry of i stays and no blame is taken back; or it is written, suspected
\* or dead only with blame, and blame is taken back only if i was not there.
Calm(n, i) ==
    \/ members'[n][i] = members[n][i] /\ (i \in blamed[n] => i \in blamed'[n])
    \/ /\ members'[n][i] # Absent
       /\ members'[n][i].state \in {"suspect", "dead"} => i \in blamed'[n]
       /\ members[n][i] # Absent /\ i \in blamed[n] => i \in blamed'[n]

\* The table of n changes, calmly, and no other.
CalmTable(n) ==
    /\ \A o \in Observers \ {n} : members'[o] = members[o] /\ blamed'[o] = blamed[o]
    /\ \A i \in Nodes : Calm(n, i)
    /\ \A i \in Ids : members'[n][i].state # "left"

\* What a step of the table of n keeps in type besides.
CalmTypes ==
    /\ members' \in [Observers -> Tables]
    /\ aged' \in [Observers -> SUBSET Ids]
    /\ blamed' \in [Observers -> SUBSET Nodes]

(***************************************************************************)
(* A calm change gives nobody a suspect or a dead member without blame,    *)
(* and leaves the clone of a heartbeat covered.                            *)
(***************************************************************************)
LEMMA CalmKeeps ==
    ASSUME RegistryInv, NEW n \in Observers, CalmTable(n),
           \A o \in Observers : beat'[o] = beat[o] \/ beat'[o] = NoClone
    PROVE  NoUnprovokedSuspicion' /\ CloneBlamed' /\ NobodyLeft'
<1>1. NoUnprovokedSuspicion'
    <2> SUFFICES ASSUME NEW o \in Observers, NEW i \in Nodes,
                        members'[o][i].state \in {"suspect", "dead"}
                 PROVE  i \in blamed'[o]
        BY DEF NoUnprovokedSuspicion
    <2>1. CASE o # n
        BY <2>1 DEF CalmTable, RegistryInv, NoUnprovokedSuspicion
    <2>2. CASE o = n
        BY <2>2 DEF CalmTable, Calm, RegistryInv, NoUnprovokedSuspicion
    <2> QED BY <2>1, <2>2
<1>2. CloneBlamed'
    <2> SUFFICES ASSUME NEW o \in Observers, beat'[o] # NoClone, beat[o].id \in Nodes,
                        beat[o].entry.state # "alive", members'[o][beat[o].id] = Absent
                 PROVE  beat[o].id \in blamed'[o]
        BY DEF CloneBlamed
    <2>1. CASE o # n
        BY <2>1 DEF CalmTable, RegistryInv, CloneBlamed
    <2>2. CASE o = n
        BY <2>2 DEF CalmTable, Calm, RegistryInv, CloneBlamed
    <2> QED BY <2>1, <2>2
<1>3. NobodyLeft'
    BY DEF CalmTable, RegistryInv, NobodyLeft
<1> QED BY <1>1, <1>2, <1>3

(***************************************************************************)
(* A calm change beside the loop leaves what the loop remembers covered.   *)
(***************************************************************************)
LEMMA CalmLoop ==
    ASSUME RegistryInv, NEW n \in Observers, CalmTable(n),
           UNCHANGED <<loop, target, doomed>>
    PROVE  TargetBlamed' /\ DoomedBlamed'
<1>1. TargetBlamed'
    <2> SUFFICES ASSUME NEW o \in Observers
                 PROVE  /\ loop[o] \in {"ping", "indirect", "suspect"} =>
                              target[o] \in Ids
                              /\ (target[o] \in Nodes => members'[o][target[o]] # Absent)
                        /\ loop[o] \in {"indirect", "suspect"} /\ target[o] \in Nodes
                              => target[o] \in blamed'[o]
        BY DEF TargetBlamed
    <2>1. CASE o # n
        BY <2>1 DEF CalmTable, RegistryInv, TargetBlamed
    <2>2. CASE o = n
        BY <2>2 DEF CalmTable, Calm, RegistryInv, TargetBlamed
    <2> QED BY <2>1, <2>2
<1>2. DoomedBlamed'
    <2> SUFFICES ASSUME NEW o \in Observers, NEW i \in Nodes, i \in doomed[o]
                 PROVE  loop[o] = "declare" /\ members'[o][i] # Absent /\ i \in blamed'[o]
        BY DEF DoomedBlamed
    <2>1. CASE o # n
        BY <2>1 DEF CalmTable, RegistryInv, DoomedBlamed
    <2>2. CASE o = n
        BY <2>2 DEF CalmTable, Calm, RegistryInv, DoomedBlamed
    <2> QED BY <2>1, <2>2
<1> QED BY <1>1, <1>2

(***************************************************************************)
(* An entry of a table is in its type, and nobody has left.                *)
(***************************************************************************)
LEMMA InvEntry ==
    ASSUME RegistryInv, NEW n \in Observers, NEW i \in Ids
    PROVE  TypeOK /\ members[n][i] \in Entries \union {Absent} /\ members[n][i].state # "left"
BY DEF RegistryInv, TypeOK, NobodyLeft

(***************************************************************************)
(* probe_node, a foreign cluster answers: the member is dropped, and       *)
(* blamed.                                                                 *)
(***************************************************************************)
LEMMA MismatchCalm ==
    ASSUME RegistryInv, NEW n \in Observers, NEW t \in Ids, Mismatch(n, t)
    PROVE  CalmTable(n) /\ CalmTypes
<1> USE SwimAssumption DEF Ids
<1>0. TypeOK /\ members[n][t] \in Entries \union {Absent} /\ members[n][t].state # "left"
    BY InvEntry, Zenon
<1> DEFINE e == IF t \in Seeds THEN Absent ELSE Killed(members[n][t])
<1>1. e \in Entries \union {Absent} /\ SetEntry(n, t, e)
    BY <1>0, EntryOps DEF Mismatch
<1>2. blamed' = [blamed EXCEPT ![n] = @ \union ({t} \intersect Nodes)]
    BY DEF Mismatch, Blame
<1>3. /\ blamed' \in [Observers -> SUBSET Nodes]
      /\ \A o \in Observers \ {n} : blamed'[o] = blamed[o]
      /\ blamed[n] \subseteq blamed'[n] /\ (t \in Nodes => t \in blamed'[n])
    BY <1>0, <1>2 DEF TypeOK
<1>4. e.state # "left" /\ (t \in Nodes => (members[n][t] = Absent /\ e = Absent)
                                         \/ (members[n][t] # Absent /\ e # Absent))
    BY <1>0, EntryOps
<1> HIDE DEF e
<1>5. /\ members' \in [Observers -> Tables]
      /\ aged' \in [Observers -> SUBSET Ids]
      /\ members'[n][t] = e
      /\ \A j \in Ids \ {t} : members'[n][j] = members[n][j]
      /\ \A o \in Observers \ {n} : members'[o] = members[o]
    BY <1>0, <1>1, SetEntryFacts
<1>6. \A i \in Nodes : Calm(n, i)
    BY <1>3, <1>4, <1>5 DEF Calm
<1>7. \A i \in Ids : members'[n][i].state # "left"
    BY <1>4, <1>5 DEF RegistryInv, NobodyLeft
<1> QED BY <1>3, <1>5, <1>6, <1>7 DEF CalmTable, CalmTypes

(***************************************************************************)
(* upsert_member of i in place of placeholders: i keeps its entry, or      *)
(* joins with a clean record.                                              *)
(***************************************************************************)
LEMMA ReplaceCalm ==
    ASSUME RegistryInv, NEW n \in Observers, NEW i \in Ids, NEW S,
           S \intersect Nodes = {}, Replace(n, S, i), Joined(n, i)
    PROVE  CalmTable(n) /\ CalmTypes
<1> USE SwimAssumption DEF Ids
<1>0. TypeOK /\ members[n][i] \in Entries \union {Absent} /\ members[n][i].state # "left"
    BY InvEntry, Zenon
<1>1. /\ members' \in [Observers -> Tables]
      /\ aged' \in [Observers -> SUBSET Ids]
      /\ members'[n][i] = Upserted(members[n][i], "alive", 0)
      /\ \A j \in Ids \ {i} : members'[n][j] = IF j \in S THEN Absent ELSE members[n][j]
      /\ \A o \in Observers \ {n} : members'[o] = members[o]
    BY <1>0, ReplaceFacts
<1>2. /\ Upserted(members[n][i], "alive", 0) # Absent
      /\ members[n][i] # Absent => Upserted(members[n][i], "alive", 0) = members[n][i]
      /\ members[n][i] = Absent => Upserted(members[n][i], "alive", 0).state = "alive"
      /\ Absent.state # "left"
    BY <1>0, EntryOps DEF States
<1>3. /\ blamed' \in [Observers -> SUBSET Nodes]
      /\ \A o \in Observers \ {n} : blamed'[o] = blamed[o]
      /\ \A j \in Nodes \ {i} : j \in blamed[n] => j \in blamed'[n]
      /\ members[n][i] # Absent => blamed' = blamed
    BY <1>0 DEF Joined, TypeOK
<1>4. \A j \in Nodes : Calm(n, j)
    BY <1>1, <1>2, <1>3 DEF Calm
<1>5. \A j \in Ids : members'[n][j].state # "left"
    BY <1>0, <1>1, <1>2 DEF RegistryInv, NobodyLeft
<1> QED BY <1>1, <1>3, <1>4, <1>5 DEF CalmTable, CalmTypes

(***************************************************************************)
(* A member is seen alive: an answer of an intermediary (process_alive) or *)
(* a registration found in the object registry (upsert_member).            *)
(***************************************************************************)
LEMMA AliveCalm ==
    ASSUME RegistryInv, NEW n \in Observers, NEW i \in Ids, NEW e,
           e \in {Upserted(members[n][i], "alive", 0), ProcessedAlive(members[n][i], 0)},
           SetEntry(n, i, e), Joined(n, i)
    PROVE  CalmTable(n) /\ CalmTypes
<1> USE SwimAssumption DEF Ids
<1>0. TypeOK /\ members[n][i] \in Entries \union {Absent} /\ members[n][i].state # "left"
    BY InvEntry, Zenon
<1>1. /\ e \in Entries /\ e # Absent
      /\ members[n][i] # Absent => e = members[n][i]
      /\ members[n][i] = Absent => e.state = "alive"
    BY <1>0, EntryOps DEF States
<1>2. /\ members' \in [Observers -> Tables]
      /\ aged' \in [Observers -> SUBSET Ids]
      /\ members'[n][i] = e
      /\ \A j \in Ids \ {i} : members'[n][j] = members[n][j]
      /\ \A o \in Observers \ {n} : members'[o] = members[o]
    BY <1>0, <1>1, SetEntryFacts
<1>3. /\ blamed' \in [Observers -> SUBSET Nodes]
      /\ \A o \in Observers \ {n} : blamed'[o] = blamed[o]
      /\ \A j \in Nodes \ {i} : j \in blamed[n] => j \in blamed'[n]
      /\ members[n][i] # Absent => blamed' = blamed
    BY <1>0 DEF Joined, TypeOK
<1>4. \A j \in Nodes : Calm(n, j)
    BY <1>1, <1>2, <1>3 DEF Calm
<1>5. \A j \in Ids : members'[n][j].state # "left"
    BY <1>0, <1>1, <1>2 DEF RegistryInv, NobodyLeft
<1> QED BY <1>2, <1>3, <1>4, <1>5 DEF CalmTable, CalmTypes

(***************************************************************************)
(* suspect_member and declare_dead of a member that is blamed, or a        *)
(* placeholder.                                                            *)
(***************************************************************************)
LEMMA BlamedCalm ==
    ASSUME RegistryInv, NEW n \in Observers, NEW i \in Ids, NEW e,
           e \in {Suspected(members[n][i]), Killed(members[n][i])},
           SetEntry(n, i, e),
           blamed' = blamed \/ Blame(n, i),
           i \in Nodes => i \in blamed'[n]
    PROVE  CalmTable(n) /\ CalmTypes
<1> USE SwimAssumption DEF Ids
<1>0. TypeOK /\ members[n][i] \in Entries \union {Absent} /\ members[n][i].state # "left"
    BY InvEntry, Zenon
<1>1. /\ e \in Entries \union {Absent} /\ e.state # "left"
      /\ e = members[n][i] \/ (members[n][i] # Absent /\ e # Absent)
    BY <1>0, EntryOps
<1>2. /\ members' \in [Observers -> Tables]
      /\ aged' \in [Observers -> SUBSET Ids]
      /\ members'[n][i] = e
      /\ \A j \in Ids \ {i} : members'[n][j] = members[n][j]
      /\ \A o \in Observers \ {n} : members'[o] = members[o]
    BY <1>0, <1>1, SetEntryFacts
<1>3. /\ blamed' \in [Observers -> SUBSET Nodes]
      /\ \A o \in Observers \ {n} : blamed'[o] = blamed[o]
      /\ blamed[n] \subseteq blamed'[n]
    BY <1>0 DEF Blame, TypeOK
<1>4. \A j \in Nodes : Calm(n, j)
    BY <1>1, <1>2, <1>3 DEF Calm
<1>5. \A j \in Ids : members'[n][j].state # "left"
    BY <1>1, <1>2 DEF RegistryInv, NobodyLeft
<1> QED BY <1>2, <1>3, <1>4, <1>5 DEF CalmTable, CalmTypes

-----------------------------------------------------------------------------
(* The steps of an observer.                                               *)

(***************************************************************************)
(* A call of the registry that changes the table calmly.                   *)
(***************************************************************************)
LEMMA CallStep ==
    ASSUME RegistryInv, NEW n \in Observers, CalmTable(n), CalmTypes,
           UNCHANGED <<foreign, up, loop, target, doomed, beat>>
    PROVE  RegistryInv'
<1>1. TypeOK'
    BY DEF RegistryInv, TypeOK, CalmTypes, Tables
<1> QED BY <1>1, CalmKeeps, CalmLoop DEF RegistryInv

(***************************************************************************)
(* A step of run_swim_loop that changes the table calmly and moves on to   *)
(* where neither a target nor a doomed member is remembered.               *)
(***************************************************************************)
LEMMA LoopMovesOn ==
    ASSUME RegistryInv, NEW n \in Observers, CalmTable(n), CalmTypes,
           loop[n] # "declare", NEW l \in {"check", "idle"}, GoTo(n, l),
           UNCHANGED <<foreign, up, target, doomed, beat>>
    PROVE  RegistryInv'
<1>1. TypeOK /\ loop' = [loop EXCEPT ![n] = l]
    BY DEF RegistryInv, GoTo
<1>2. loop'[n] = l /\ \A o \in Observers \ {n} : loop'[o] = loop[o]
    BY <1>1 DEF TypeOK
<1>3. loop' \in [Observers -> {"idle", "ping", "indirect", "suspect", "check", "declare"}]
    BY <1>1 DEF TypeOK
<1>4. TypeOK'
    BY <1>1, <1>3 DEF TypeOK, CalmTypes, Tables
<1>5. TargetBlamed'
    BY <1>2 DEF RegistryInv, TargetBlamed, CalmTable
<1>6. DoomedBlamed'
    BY <1>2 DEF RegistryInv, DoomedBlamed, CalmTable
<1> QED BY <1>4, <1>5, <1>6, CalmKeeps DEF RegistryInv

(***************************************************************************)
(* A step that leaves the tables and the blame alone is calm.              *)
(***************************************************************************)
LEMMA KeptIsCalm ==
    ASSUME RegistryInv, NEW n \in Observers, UNCHANGED <<members, aged, blamed>>
    PROVE  CalmTable(n) /\ CalmTypes
BY DEF CalmTable, CalmTypes, Calm, RegistryInv, TypeOK, NobodyLeft, Tables

(***************************************************************************)
(* probe_node reconciles the answer of a node that is not foreign.         *)
(***************************************************************************)
LEMMA ReconcileCalm ==
    ASSUME RegistryInv, NEW n \in Observers, NEW t \in Ids, Reconcile(n, t)
    PROVE  CalmTable(n) /\ CalmTypes
<1>1. AnsweredBy[t] \in Ids
    BY SwimAssumption DEF Ids
<1>2. (IF t \in Seeds THEN {t} ELSE {}) \intersect Nodes = {}
    BY SwimAssumption
<1> QED BY <1>1, <1>2, ReplaceCalm DEF Reconcile

(***************************************************************************)
(* An intermediary answers for the target.                                 *)
(***************************************************************************)
LEMMA VouchedCalm ==
    ASSUME RegistryInv, NEW n \in Observers, NEW t \in Ids, Vouched(n, t)
    PROVE  CalmTable(n) /\ CalmTypes
BY AliveCalm DEF Vouched

(***************************************************************************)
(* register_node: only placeholders give way.                              *)
(***************************************************************************)
LEMMA RegisterStep ==
    ASSUME RegistryInv, NEW n \in Observers, NEW i \in Ids, RegisterNode(n, i)
    PROVE  RegistryInv'
<1> DEFINE aliases == {j \in Ids \ {i} : Active(members[n][j]) /\ AnsweredBy[j] = AnsweredBy[i]}
<1>1. aliases \intersect Nodes = {}
    BY SwimAssumption DEF RegisterNode, Ids
<1>2. /\ Replace(n, aliases, i) /\ Joined(n, i)
      /\ UNCHANGED <<foreign, up, loop, target, doomed, beat>>
    BY DEF RegisterNode
<1> HIDE DEF aliases
<1> QED BY <1>1, <1>2, ReplaceCalm, CallStep

(***************************************************************************)
(* kickoff_seed_reconcile_ping, lookup_node, sync_with_db and              *)
(* unregister_node.                                                        *)
(***************************************************************************)
LEMMA CallsStep ==
    ASSUME RegistryInv, NEW n \in Observers, NEW i \in Ids,
           \/ Discover(n, i)
           \/ UnregisterNode(n, i)
           \/ i \in Seeds /\ SeedPing(n, i)
    PROVE  RegistryInv'
<1>0. UNCHANGED <<foreign, up, loop, target, doomed, beat>>
    BY DEF Discover, UnregisterNode, SeedPing
<1>1. CASE Discover(n, i)
    BY <1>0, <1>1, AliveCalm, CallStep DEF Discover
<1>2. ASSUME Blame(n, i) PROVE i \in Nodes => i \in blamed'[n]
    BY <1>2 DEF Blame, RegistryInv, TypeOK
<1>3. CASE UnregisterNode(n, i)
    BY <1>0, <1>2, <1>3, BlamedCalm, CallStep DEF UnregisterNode
<1>4. CASE i \in Seeds /\ SeedPing(n, i)
    <2>1. CASE Mismatch(n, i) \/ Reconcile(n, i) \/ Vouched(n, i)
        BY <1>0, <2>1, MismatchCalm, ReconcileCalm, VouchedCalm, CallStep
    <2>2. CASE SetEntry(n, i, Suspected(members[n][i])) /\ Blame(n, i)
        BY <1>0, <1>2, <2>2, BlamedCalm, CallStep
    <2> QED BY <1>4, <2>1, <2>2 DEF SeedPing
<1> QED BY <1>1, <1>3, <1>4

(***************************************************************************)
(* send_heartbeat works on a clone: the member may have been declared      *)
(* dead, reaped and registered again before the clone is written back.     *)
(***************************************************************************)
LEMMA HeartbeatStep ==
    ASSUME RegistryInv, NEW n \in Observers,
           HeartbeatWrite(n) \/ \E i \in Ids : HeartbeatRead(n, i)
    PROVE  RegistryInv'
<1>0. TypeOK
    BY DEF RegistryInv
<1>1. ASSUME NEW i \in Ids, HeartbeatRead(n, i) PROVE RegistryInv'
    <2>1. members[n][i] \in Entries /\ members[n][i].state # "left"
        BY <1>1, InvEntry DEF HeartbeatRead
    <2> DEFINE e == IF members[n][i].state = "suspect"
                    THEN [state |-> "alive", inc |-> members[n][i].inc] ELSE members[n][i]
    <2>2. e \in Entries /\ e.state \in {"alive", "dead"}
        BY <2>1 DEF Entries, States
    <2>3. beat' = [beat EXCEPT ![n] = [id |-> i, entry |-> e]]
          /\ UNCHANGED <<foreign, up, members, aged, loop, target, doomed, blamed>>
          /\ members[n][i] # Absent
        BY <1>1 DEF HeartbeatRead
    <2> HIDE DEF e
    <2>4. [id |-> i, entry |-> e] \in Clones
        BY <2>2 DEF Clones
    <2>5. TypeOK'
        BY <1>0, <2>3, <2>4 DEF TypeOK
    <2>6. /\ beat'[n].id = i /\ beat'[n].entry = e
          /\ \A o \in Observers \ {n} : beat'[o] = beat[o]
        BY <1>0, <2>3 DEF TypeOK
    <2>7. NoUnprovokedSuspicion' /\ TargetBlamed' /\ DoomedBlamed'
        BY <2>3 DEF RegistryInv, NoUnprovokedSuspicion, TargetBlamed, DoomedBlamed
    <2>8. CloneBlamed' /\ NobodyLeft'
        BY <2>2, <2>3, <2>6 DEF RegistryInv, CloneBlamed, NobodyLeft
    <2> QED BY <2>5, <2>7, <2>8 DEF RegistryInv
<1>2. CASE HeartbeatWrite(n)
    <2> DEFINE b == beat[n]
    <2>1. b \in Clones /\ b # NoClone /\ b.entry.state \in {"alive", "dead"}
        BY <1>0, <1>2 DEF HeartbeatWrite, TypeOK, RegistryInv, NobodyLeft
    <2>2. b.id \in Ids /\ b.entry \in Entries /\ b.entry.inc = 0 /\ b.entry.state \in States
        BY <2>1 DEF Clones, Entries, States
    <2> DEFINE e == Upserted(members[n][b.id], b.entry.state, b.entry.inc)
    <2>3. /\ SetEntry(n, b.id, e) /\ beat' = [beat EXCEPT ![n] = NoClone]
          /\ UNCHANGED <<foreign, up, loop, target, doomed, blamed>>
        BY <1>2 DEF HeartbeatWrite
    <2>4. /\ members[n][b.id] # Absent => e = members[n][b.id]
          /\ members[n][b.id] = Absent => e = [state |-> b.entry.state, inc |-> 0]
        BY <2>2, EntryOps, InvEntry DEF Upserted
    <2>5. e \in Entries /\ e.state # "left" /\ e # Absent
        BY <2>1, <2>2, <2>4, EntryOps, InvEntry DEF Entries
    <2>6. b.id \in Nodes /\ members[n][b.id] = Absent /\ e.state # "alive" => b.id \in blamed[n]
        BY <2>1, <2>4 DEF RegistryInv, CloneBlamed
    <2> HIDE DEF e
    <2>7. /\ members' \in [Observers -> Tables]
          /\ aged' \in [Observers -> SUBSET Ids]
          /\ members'[n][b.id] = e
          /\ \A j \in Ids \ {b.id} : members'[n][j] = members[n][j]
          /\ \A o \in Observers \ {n} : members'[o] = members[o]
        BY <1>0, <2>2, <2>3, <2>5, SetEntryFacts
    <2>8. \A i \in Nodes : Calm(n, i)
        BY <2>3, <2>4, <2>5, <2>6, <2>7 DEF Calm, Ids
    <2>9. CalmTable(n)
        BY <2>3, <2>5, <2>7, <2>8 DEF CalmTable, RegistryInv, NobodyLeft
    <2>10. TypeOK'
        BY <1>0, <2>3, <2>7 DEF TypeOK, Tables
    <2>11. \A o \in Observers : beat'[o] = beat[o] \/ beat'[o] = NoClone
        BY <1>0, <2>3 DEF TypeOK
    <2> QED BY <2>3, <2>9, <2>10, <2>11, CalmKeeps, CalmLoop DEF RegistryInv
<1> QED BY <1>1, <1>2

(***************************************************************************)
(* run_swim_loop, from the choice of a target to the answer or the failure *)
(* of its probe.                                                           *)
(***************************************************************************)
LEMMA ProbeStep ==
    ASSUME RegistryInv, NEW n \in Observers,
           \/ NoProbeTarget(n) \/ \E i \in Ids : SelectProbeTarget(n, i)
           \/ DirectPingAnswered(n) \/ DirectPingForeign(n) \/ DirectPingFails(n)
           \/ IndirectPingAnswered(n) \/ IndirectPingFails(n) \/ SuspectAgain(n)
    PROVE  RegistryInv'
<1>0. TypeOK
    BY DEF RegistryInv
<1>1. loop[n] \in {"ping", "indirect", "suspect"} =>
        target[n] \in Ids /\ (target[n] \in Nodes => members[n][target[n]] # Absent)
    BY DEF RegistryInv, TargetBlamed
<1>2. loop[n] \in {"indirect", "suspect"} /\ target[n] \in Nodes => target[n] \in blamed[n]
    BY DEF RegistryInv, TargetBlamed
<1>3. CASE NoProbeTarget(n)
    BY <1>3, KeptIsCalm, LoopMovesOn DEF NoProbeTarget, LoopAt
<1>4. ASSUME NEW i \in Ids, SelectProbeTarget(n, i) PROVE RegistryInv'
    <2>1. /\ target' = [target EXCEPT ![n] = i] /\ loop' = [loop EXCEPT ![n] = "ping"]
          /\ UNCHANGED <<foreign, up, members, aged, doomed, beat, blamed>>
          /\ loop[n] = "idle" /\ members[n][i] # Absent
        BY <1>4 DEF SelectProbeTarget, GoTo, LoopAt, Active, Absent
    <2>2. TypeOK'
        BY <1>0, <2>1 DEF TypeOK
    <2>3. /\ target'[n] = i /\ loop'[n] = "ping"
          /\ \A o \in Observers \ {n} : target'[o] = target[o] /\ loop'[o] = loop[o]
        BY <1>0, <2>1 DEF TypeOK
    <2>4. TargetBlamed' /\ DoomedBlamed'
        BY <2>1, <2>3 DEF RegistryInv, TargetBlamed, DoomedBlamed
    <2>5. NoUnprovokedSuspicion' /\ CloneBlamed' /\ NobodyLeft'
        BY <2>1 DEF RegistryInv, NoUnprovokedSuspicion, CloneBlamed, NobodyLeft
    <2> QED BY <2>2, <2>4, <2>5 DEF RegistryInv
<1>5. CASE DirectPingAnswered(n)
    BY <1>1, <1>5, ReconcileCalm, LoopMovesOn DEF DirectPingAnswered, LoopAt
<1>6. CASE DirectPingForeign(n)
    BY <1>1, <1>6, MismatchCalm, LoopMovesOn DEF DirectPingForeign, LoopAt
<1>7. CASE DirectPingFails(n)
    <2>1. /\ loop' = [loop EXCEPT ![n] = "indirect"] /\ loop[n] = "ping"
          /\ blamed' = [blamed EXCEPT ![n] = @ \union ({target[n]} \intersect Nodes)]
          /\ UNCHANGED <<foreign, up, members, aged, target, doomed, beat>>
        BY <1>7 DEF DirectPingFails, LoopAt, GoTo, Blame
    <2>2. TypeOK'
        BY <1>0, <2>1 DEF TypeOK
    <2>3. /\ loop'[n] = "indirect" /\ \A o \in Observers \ {n} : loop'[o] = loop[o]
          /\ target[n] \in Nodes => target[n] \in blamed'[n]
          /\ \A o \in Observers : blamed[o] \subseteq blamed'[o]
        BY <1>0, <2>1 DEF TypeOK
    <2>4. TargetBlamed'
        BY <1>1, <2>1, <2>3 DEF RegistryInv, TargetBlamed
    <2>5. DoomedBlamed'
        BY <2>1, <2>3 DEF RegistryInv, DoomedBlamed
    <2>6. NoUnprovokedSuspicion' /\ CloneBlamed' /\ NobodyLeft'
        BY <2>1, <2>3 DEF RegistryInv, NoUnprovokedSuspicion, CloneBlamed, NobodyLeft
    <2> QED BY <2>2, <2>4, <2>5, <2>6 DEF RegistryInv
<1>8. CASE IndirectPingAnswered(n)
    BY <1>1, <1>8, VouchedCalm, LoopMovesOn DEF IndirectPingAnswered, LoopAt
<1>9. CASE IndirectPingFails(n)
    <2>1. /\ SetEntry(n, target[n], Suspected(members[n][target[n]]))
          /\ loop' = [loop EXCEPT ![n] = "suspect"] /\ loop[n] = "indirect"
          /\ UNCHANGED <<foreign, up, target, doomed, beat, blamed>>
        BY <1>9 DEF IndirectPingFails, LoopAt, GoTo
    <2>2. CalmTable(n) /\ CalmTypes
        BY <1>1, <1>2, <2>1, BlamedCalm
    <2>3. loop'[n] = "suspect" /\ \A o \in Observers \ {n} : loop'[o] = loop[o]
        BY <1>0, <2>1 DEF TypeOK
    <2>4. TypeOK'
        BY <1>0, <2>1, <2>2 DEF TypeOK, CalmTypes, Tables
    <2>5. TargetBlamed'
        <3>1. target[n] \in Nodes => members'[n][target[n]] # Absent
            BY <1>1, <2>1, <2>2 DEF CalmTable, Calm
        <3> QED BY <1>1, <1>2, <2>1, <2>2, <2>3, <3>1 DEF RegistryInv, TargetBlamed, CalmTable
    <2>6. DoomedBlamed'
        BY <2>1, <2>2, <2>3 DEF RegistryInv, DoomedBlamed, CalmTable
    <2> QED BY <2>1, <2>2, <2>4, <2>5, <2>6, CalmKeeps DEF RegistryInv
<1>10. CASE SuspectAgain(n)
    <2>1. /\ SetEntry(n, target[n], Suspected(members[n][target[n]])) /\ GoTo(n, "check")
          /\ loop[n] = "suspect" /\ UNCHANGED <<foreign, up, target, doomed, beat, blamed>>
        BY <1>10 DEF SuspectAgain, LoopAt
    <2>2. CalmTable(n) /\ CalmTypes
        BY <1>1, <1>2, <2>1, BlamedCalm
    <2> QED BY <2>1, <2>2, LoopMovesOn
<1> QED BY <1>3, <1>4, <1>5, <1>6, <1>7, <1>8, <1>9, <1>10

(***************************************************************************)
(* check_suspect_timeouts collects under one lock and declares dead under  *)
(* others: those it declares dead are still blamed.                        *)
(***************************************************************************)
LEMMA TimeoutStep ==
    ASSUME RegistryInv, NEW n \in Observers,
           DeclareDoomed(n) \/ \E S \in SUBSET Ids : CollectTimeouts(n, S)
    PROVE  RegistryInv'
<1>0. TypeOK
    BY DEF RegistryInv
<1>1. ASSUME NEW S \in SUBSET Ids, CollectTimeouts(n, S) PROVE RegistryInv'
    <2>1. /\ \A i \in S : members[n][i].state = "suspect"
          /\ doomed' = [doomed EXCEPT ![n] = S] /\ target' = [target EXCEPT ![n] = None]
          /\ loop' = [loop EXCEPT ![n] = "declare"]
          /\ UNCHANGED <<foreign, up, members, aged, beat, blamed>>
        BY <1>1 DEF CollectTimeouts, GoTo
    <2>2. TypeOK'
        BY <1>0, <2>1 DEF TypeOK
    <2>3. /\ doomed'[n] = S /\ loop'[n] = "declare"
          /\ \A o \in Observers \ {n} : /\ doomed'[o] = doomed[o] /\ loop'[o] = loop[o]
                                        /\ target'[o] = target[o]
        BY <1>0, <2>1 DEF TypeOK
    <2>4. TargetBlamed'
        BY <2>1, <2>3 DEF RegistryInv, TargetBlamed
    <2>5. DoomedBlamed'
        <3>1. \A i \in S : members[n][i] # Absent /\ (i \in Nodes => i \in blamed[n])
            BY <2>1 DEF Absent, RegistryInv, NoUnprovokedSuspicion
        <3> QED BY <2>1, <2>3, <3>1 DEF RegistryInv, DoomedBlamed
    <2>6. NoUnprovokedSuspicion' /\ CloneBlamed' /\ NobodyLeft'
        BY <2>1 DEF RegistryInv, NoUnprovokedSuspicion, CloneBlamed, NobodyLeft
    <2> QED BY <2>2, <2>4, <2>5, <2>6 DEF RegistryInv
<1>2. CASE DeclareDoomed(n)
    <2>1. PICK i \in doomed[n] : /\ SetEntry(n, i, Killed(members[n][i]))
                                 /\ doomed' = [doomed EXCEPT ![n] = @ \ {i}]
        BY <1>2 DEF DeclareDoomed
    <2>2. UNCHANGED <<foreign, up, loop, target, beat, blamed>> /\ i \in Ids
        BY <1>0, <1>2 DEF DeclareDoomed, TypeOK
    <2>3. i \in Nodes => i \in blamed[n]
        BY <2>1 DEF RegistryInv, DoomedBlamed
    <2>4. CalmTable(n) /\ CalmTypes
        BY <2>1, <2>2, <2>3, BlamedCalm
    <2>5. doomed' \in [Observers -> SUBSET Ids] /\ \A o \in Observers : doomed'[o] \subseteq doomed[o]
        BY <1>0, <2>1 DEF TypeOK
    <2>6. TypeOK'
        BY <1>0, <2>2, <2>4, <2>5 DEF TypeOK, CalmTypes, Tables
    <2>7. TargetBlamed'
        <3> SUFFICES ASSUME NEW o \in Observers
                     PROVE  /\ loop[o] \in {"ping", "indirect", "suspect"} =>
                                  target[o] \in Ids
                                  /\ (target[o] \in Nodes => members'[o][target[o]] # Absent)
                            /\ loop[o] \in {"indirect", "suspect"} /\ target[o] \in Nodes
                                  => target[o] \in blamed'[o]
            BY <2>2 DEF TargetBlamed
        <3>1. CASE o # n
            BY <2>2, <2>4, <3>1 DEF CalmTable, RegistryInv, TargetBlamed
        <3>2. CASE o = n
            BY <2>2, <2>4, <3>2 DEF CalmTable, Calm, RegistryInv, TargetBlamed
        <3> QED BY <3>1, <3>2
    <2>8. DoomedBlamed'
        <3> SUFFICES ASSUME NEW o \in Observers, NEW j \in Nodes, j \in doomed[o]
                     PROVE  loop[o] = "declare" /\ members'[o][j] # Absent /\ j \in blamed'[o]
            BY <2>2, <2>5 DEF DoomedBlamed
        <3>1. CASE o # n
            BY <2>4, <3>1 DEF CalmTable, RegistryInv, DoomedBlamed
        <3>2. CASE o = n
            BY <2>4, <3>2 DEF CalmTable, Calm, RegistryInv, DoomedBlamed
        <3> QED BY <3>1, <3>2
    <2> QED BY <2>2, <2>4, <2>6, <2>7, <2>8, CalmKeeps DEF RegistryInv
<1> QED BY <1>1, <1>2

(***************************************************************************)
(* reap_dead_nodes: whoever is removed was dead, hence blamed; a clone of  *)
(* it that a heartbeat still holds is covered by that blame.               *)
(***************************************************************************)
LEMMA ReapStep ==
    ASSUME RegistryInv, NEW n \in Observers, NEW S \in SUBSET Ids, ReapDeadNodes(n, S)
    PROVE  RegistryInv'
<1>0. TypeOK
    BY DEF RegistryInv
<1> DEFINE t == [i \in Ids |-> IF i \in S THEN Absent ELSE members[n][i]]
<1>1. /\ doomed[n] = {} /\ \A i \in S : members[n][i].state \in {"dead", "left"}
      /\ Write(n, t) /\ loop' = [loop EXCEPT ![n] = "idle"]
      /\ UNCHANGED <<foreign, up, target, doomed, beat, blamed>>
    BY DEF ReapDeadNodes, GoTo
<1>2. t \in Tables /\ \A i \in Ids : t[i] = IF i \in S THEN Absent ELSE members[n][i]
    BY <1>0 DEF TypeOK, Tables
<1> HIDE DEF t
<1>3. /\ members' \in [Observers -> Tables]
      /\ aged' \in [Observers -> SUBSET Ids]
      /\ members'[n] = t
      /\ \A o \in Observers \ {n} : members'[o] = members[o]
    BY <1>0, <1>1, <1>2, WriteFacts
<1>4. loop'[n] = "idle" /\ \A o \in Observers \ {n} : loop'[o] = loop[o]
    BY <1>0, <1>1 DEF TypeOK
<1>5. TypeOK'
    BY <1>0, <1>1, <1>3 DEF TypeOK, Tables
<1>6. \A i \in Ids : i \in S => members[n][i].state = "dead" /\ (i \in Nodes => i \in blamed[n])
    BY <1>1 DEF RegistryInv, NobodyLeft, NoUnprovokedSuspicion
<1>7. \A i \in Nodes : i \in Ids
    BY DEF Ids
<1>8. NoUnprovokedSuspicion'
    BY <1>1, <1>2, <1>3, <1>7 DEF RegistryInv, NoUnprovokedSuspicion, Absent
<1>9. TargetBlamed' /\ DoomedBlamed'
    BY <1>1, <1>3, <1>4 DEF RegistryInv, TargetBlamed, DoomedBlamed
<1>10. CloneBlamed'
    BY <1>1, <1>2, <1>3, <1>6, <1>7 DEF RegistryInv, CloneBlamed
<1>11. NobodyLeft'
    BY <1>1, <1>2, <1>3 DEF RegistryInv, NobodyLeft, Absent
<1> QED BY <1>5, <1>8, <1>9, <1>10, <1>11 DEF RegistryInv

(***************************************************************************)
(* Nodes crash and restart with an empty table; members grow old.          *)
(***************************************************************************)
LEMMA NodeStep ==
    ASSUME RegistryInv,
           \/ \E n \in Nodes : Crash(n) \/ Restart(n)
           \/ \E n \in Observers, i \in Ids : Age(n, i)
           \/ UNCHANGED vars
    PROVE  RegistryInv'
<1>0. TypeOK
    BY DEF RegistryInv
<1>1. ASSUME up' \subseteq Nodes, aged' \in [Observers -> SUBSET Ids],
             UNCHANGED <<foreign, members, loop, target, doomed, beat, blamed>>
      PROVE  RegistryInv'
    <2>1. TypeOK'
        BY <1>0, <1>1 DEF TypeOK
    <2> QED BY <1>1, <2>1 DEF RegistryInv, NoUnprovokedSuspicion, TargetBlamed, DoomedBlamed,
                              CloneBlamed, NobodyLeft
<1>2. ASSUME NEW n \in Nodes, Crash(n) PROVE RegistryInv'
    BY <1>0, <1>1, <1>2 DEF Crash, TypeOK
<1>3. ASSUME NEW n \in Observers, NEW i \in Ids, Age(n, i) PROVE RegistryInv'
    BY <1>0, <1>1, <1>3 DEF Age, TypeOK
<1>4. CASE UNCHANGED vars
    BY <1>0, <1>1, <1>4 DEF vars, TypeOK
<1>5. ASSUME NEW n \in Nodes, Restart(n) PROVE RegistryInv'
    <2>0. Empty \in Tables /\ \A i \in Ids : Empty[i] = Absent
        BY DEF Empty, Tables
    <2> HIDE DEF Empty
    <2>1. /\ members' \in [Observers -> Tables] /\ aged' \in [Observers -> SUBSET Ids]
          /\ up' \subseteq Nodes /\ foreign' = foreign
        BY <1>0, <1>5, <2>0 DEF Restart, TypeOK, Tables
    <2>2. /\ loop' \in [Observers -> {"idle", "ping", "indirect", "suspect", "check", "declare"}]
          /\ target' \in [Observers -> Ids \union {None}]
          /\ doomed' \in [Observers -> SUBSET Ids]
          /\ beat' \in [Observers -> Clones \union {NoClone}]
          /\ blamed' \in [Observers -> SUBSET Nodes]
        BY <1>0, <1>5 DEF Restart, TypeOK
    <2>3. TypeOK'
        BY <1>0, <2>1, <2>2 DEF TypeOK, Tables
    <2>4. n \in Observers =>
            /\ members'[n] = Empty /\ loop'[n] = "idle" /\ doomed'[n] = {} /\ beat'[n] = NoClone
        BY <1>5 DEF Restart
    <2>5. \A o \in Observers \ {n} :
            /\ members'[o] = members[o] /\ loop'[o] = loop[o] /\ target'[o] = target[o]
            /\ doomed'[o] = doomed[o] /\ beat'[o] = beat[o] /\ blamed'[o] = blamed[o]
        BY <1>5 DEF Restart
    <2>6. NoUnprovokedSuspicion' /\ NobodyLeft'
        BY <2>0, <2>4, <2>5 DEF RegistryInv, NoUnprovokedSuspicion, NobodyLeft, Absent, Ids
    <2>7. TargetBlamed' /\ DoomedBlamed' /\ CloneBlamed'
        BY <2>4, <2>5 DEF RegistryInv, TargetBlamed, DoomedBlamed, CloneBlamed
    <2> QED BY <2>3, <2>6, <2>7 DEF RegistryInv
<1> QED BY <1>2, <1>3, <1>4, <1>5

(***************************************************************************)
(* No step of the loop, of a call or of a node suspects without cause.     *)
(***************************************************************************)
LEMMA RegistryStep == RegistryInv /\ [Next]_vars => RegistryInv'
<1> SUFFICES ASSUME RegistryInv, [Next]_vars PROVE RegistryInv'
    OBVIOUS
<1>1. ASSUME NEW n \in Observers, ProbeLoop(n) PROVE RegistryInv'
    BY <1>1, ProbeStep, TimeoutStep, ReapStep DEF ProbeLoop
<1>2. ASSUME NEW n \in Observers, Calls(n) PROVE RegistryInv'
    BY <1>2, RegisterStep, CallsStep, HeartbeatStep DEF Calls, Ids
<1> QED BY <1>1, <1>2, NodeStep DEF Next

(***************************************************************************)
(* Empty tables satisfy the invariant.                                     *)
(***************************************************************************)
LEMMA RegistryInit == Init => RegistryInv
<1> SUFFICES ASSUME Init PROVE RegistryInv
    OBVIOUS
<1>1. TypeOK
    BY DEF Init, TypeOK, Empty
<1>2. NoUnprovokedSuspicion /\ NobodyLeft
    BY DEF Init, Empty, NoUnprovokedSuspicion, NobodyLeft, Absent, Ids
<1>3. TargetBlamed /\ DoomedBlamed /\ CloneBlamed
    BY DEF Init, TargetBlamed, DoomedBlamed, CloneBlamed
<1> QED BY <1>1, <1>2, <1>3 DEF RegistryInv

(***************************************************************************)
(* No observer, among any number of nodes, suspects a node or declares it  *)
(* dead unless one of its probes failed or a caller dropped it since it    *)
(* joined (suspect_member and declare_dead of swim.rs).                    *)
(***************************************************************************)
THEOREM RegistryHolds == Spec => []RegistryInv
BY RegistryInit, RegistryStep, PTL DEF Spec

-----------------------------------------------------------------------------
(* A dead member stays dead until it is reaped.                            *)

DeadKept ==
    \A n \in Observers, i \in Ids :
        members[n][i].state = "dead" => members'[n][i] \in {members[n][i], Absent}

(***************************************************************************)
(* None of the writes of an entry, by upsert_member, process_alive,        *)
(* suspect_member or declare_dead, revives a dead one.                     *)
(***************************************************************************)
LEMMA SetEntryDead ==
    ASSUME RegistryInv, NEW n \in Observers, NEW i \in Ids, NEW e, SetEntry(n, i, e),
           \/ e = Absent
           \/ e \in {Suspected(members[n][i]), Killed(members[n][i]),
                     Upserted(members[n][i], "alive", 0), ProcessedAlive(members[n][i], 0)}
           \/ \E c \in Entries : e = Upserted(members[n][i], c.state, c.inc)
    PROVE  DeadKept
<1>0. TypeOK /\ members[n][i] \in Entries \union {Absent}
    BY InvEntry
<1>1. \A c \in Entries : /\ Upserted(members[n][i], c.state, c.inc) \in Entries \union {Absent}
                         /\ members[n][i] # Absent =>
                               Upserted(members[n][i], c.state, c.inc) = members[n][i]
    BY <1>0 DEF Upserted, Entries
<1>2. e \in Entries \union {Absent}
    BY <1>0, <1>1, EntryOps
<1>3. members[n][i].state = "dead" => e \in {members[n][i], Absent}
    <2> SUFFICES ASSUME members[n][i].state = "dead" PROVE e \in {members[n][i], Absent}
        OBVIOUS
    <2>1. members[n][i] # Absent /\ members[n][i] \in Entries
        BY <1>0 DEF Absent
    <2>2. Suspected(members[n][i]) = members[n][i] /\ Killed(members[n][i]) = members[n][i]
        BY DEF Suspected, Killed, Active
    <2> QED BY <1>1, <2>1, <2>2, EntryOps DEF States
<1> QED BY <1>0, <1>2, <1>3, SetEntryFacts DEF DeadKept

(***************************************************************************)
(* Nor does an upsert_member in place of placeholders.                     *)
(***************************************************************************)
LEMMA ReplaceDead ==
    ASSUME RegistryInv, NEW n \in Observers, NEW i \in Ids, NEW S, Replace(n, S, i)
    PROVE  DeadKept
<1>0. TypeOK /\ members[n][i] \in Entries \union {Absent}
    BY InvEntry
<1>1. members[n][i].state = "dead" => Upserted(members[n][i], "alive", 0) = members[n][i]
    BY <1>0, EntryOps DEF States
<1> QED BY <1>0, <1>1, ReplaceFacts DEF DeadKept

(***************************************************************************)
(* A step leaves a dead member dead or removes it.                         *)
(***************************************************************************)
LEMMA DeadStep == RegistryInv /\ [Next]_vars => DeadKept
<1> SUFFICES ASSUME RegistryInv, [Next]_vars PROVE DeadKept
    OBVIOUS
<1>0. TypeOK
    BY DEF RegistryInv
<1>1. ASSUME members' = members PROVE DeadKept
    BY <1>1 DEF DeadKept
<1>2. ASSUME NEW n \in Observers, NEW t \in Ids, Mismatch(n, t) \/ Reconcile(n, t) \/ Vouched(n, t)
      PROVE  DeadKept
    <2>1. AnsweredBy[t] \in Ids
        BY SwimAssumption DEF Ids
    <2> QED BY <1>2, <2>1, SetEntryDead, ReplaceDead DEF Mismatch, Reconcile, Vouched
<1>3. ASSUME NEW n \in Observers, loop[n] \in {"ping", "indirect", "suspect"}
      PROVE  target[n] \in Ids
    BY <1>3 DEF RegistryInv, TargetBlamed
<1>4. ASSUME NEW n \in Observers, ProbeLoop(n) PROVE DeadKept
    <2>1. CASE DirectPingAnswered(n) \/ DirectPingForeign(n) \/ IndirectPingAnswered(n)
        BY <1>2, <1>3, <2>1
           DEF DirectPingAnswered, DirectPingForeign, IndirectPingAnswered, LoopAt
    <2>2. CASE IndirectPingFails(n) \/ SuspectAgain(n)
        BY <1>3, <2>2, SetEntryDead DEF IndirectPingFails, SuspectAgain, LoopAt
    <2>3. CASE DeclareDoomed(n)
        BY <1>0, <2>3, SetEntryDead DEF DeclareDoomed, TypeOK
    <2>4. ASSUME NEW S \in SUBSET Ids, ReapDeadNodes(n, S) PROVE DeadKept
        <3> DEFINE t == [i \in Ids |-> IF i \in S THEN Absent ELSE members[n][i]]
        <3>1. Write(n, t)
            BY <2>4 DEF ReapDeadNodes
        <3>2. t \in Tables /\ \A i \in Ids : t[i] \in {members[n][i], Absent}
            BY <1>0 DEF TypeOK, Tables
        <3> HIDE DEF t
        <3> QED BY <1>0, <3>1, <3>2, WriteFacts DEF DeadKept
    <2>5. CASE members' = members
        BY <1>1, <2>5
    <2> QED BY <1>4, <2>1, <2>2, <2>3, <2>4, <2>5
            DEF ProbeLoop, NoProbeTarget, SelectProbeTarget, DirectPingFails, CollectTimeouts
<1>5. ASSUME NEW n \in Observers, Calls(n) PROVE DeadKept
    <2>1. ASSUME NEW i \in Ids, RegisterNode(n, i) PROVE DeadKept
        BY <2>1, ReplaceDead DEF RegisterNode
    <2>2. ASSUME NEW i \in Ids, Discover(n, i) \/ UnregisterNode(n, i) PROVE DeadKept
        BY <2>2, SetEntryDead DEF Discover, UnregisterNode
    <2>3. ASSUME NEW i \in Seeds, SeedPing(n, i) PROVE DeadKept
        BY <1>2, <2>3, SetEntryDead DEF SeedPing, Ids
    <2>4. CASE HeartbeatWrite(n)
        BY <1>0, <2>4, SetEntryDead DEF HeartbeatWrite, TypeOK, Clones
    <2>5. ASSUME NEW i \in Ids, HeartbeatRead(n, i) PROVE DeadKept
        BY <1>1, <2>5 DEF HeartbeatRead
    <2> QED BY <1>5, <2>1, <2>2, <2>3, <2>4, <2>5 DEF Calls
<1>6. ASSUME NEW n \in Nodes, Restart(n) PROVE DeadKept
    BY <1>6 DEF Restart, Empty, DeadKept
<1> QED BY <1>1, <1>4, <1>5, <1>6 DEF Next, vars, Crash, Age

(***************************************************************************)
(* Neither a heartbeat, nor a registration, nor a late answer to a probe   *)
(* revives a dead member: only reap_dead_nodes removes it.                 *)
(***************************************************************************)
THEOREM DeadUntilReapedHolds == Spec => DeadUntilReaped
<1>1. RegistryInv /\ [Next]_vars =>
        [\A n \in Observers, i \in Ids :
            members[n][i].state = "dead" => members'[n][i] \in {members[n][i], Absent}]_vars
    BY DeadStep DEF DeadKept
<1> QED BY RegistryInit, RegistryStep, <1>1, PTL DEF Spec, DeadUntilReaped

-----------------------------------------------------------------------------
(* Dissemination.                                                          *)

QEntries == [u: Updates, count: 0..BroadcastLimit]

\* A table goes neither back to an older incarnation nor from dead to active.
Forward(e, r) ==
    /\ e # Absent /\ r # Absent => r.inc >= e.inc
    /\ e.state = "dead" /\ Active(r) => r.inc > e.inc

\* The outcome r of a call on the entry e of a node that has minted up to m.
Sound(e, r, m) ==
    /\ r \in GossipEntries \union {Absent}
    /\ r.inc <= m
    /\ r # e => r \in GossipEntries
    /\ Forward(e, r)

(***************************************************************************)
(* Every call of SwimProtocol on an entry keeps it within what the node    *)
(* has minted and moves it forward (update_state, upsert_member,           *)
(* process_alive, suspect_member, declare_dead, merge_full_state).         *)
(***************************************************************************)
LEMMA GossipOps ==
    ASSUME NEW e \in GossipEntries \union {Absent}, NEW m \in Nat, e.inc <= m,
           NEW s \in States, NEW k \in 0..MaxInc, k <= m
    PROVE  /\ Sound(e, e, m)
           /\ Sound(e, Upserted(e, "alive", 0), m)
           /\ Sound(e, Suspected(e), m)
           /\ Sound(e, Killed(e), m)
           /\ Sound(e, ProcessedAlive(e, k), m)
           /\ e # Absent => Sound(e, UpdateState(e, s, k), m)
           /\ Sound(e, Merged(e, [state |-> s, inc |-> k]), m)
<1> USE GossipAssumption DEF GossipEntries, States, Sound, Forward, Active
<1>1. CASE e = Absent
    BY <1>1 DEF Absent, Upserted, Suspected, Killed, ProcessedAlive, Merged
<1>2. CASE e \in GossipEntries
    <2>1. e # Absent /\ e.inc \in 0..MaxInc /\ e.state \in States /\ Absent \notin GossipEntries
        BY <1>2 DEF Absent
    <2>2. \A q \in States : Sound(e, UpdateState(e, q, k), m)
        BY <1>2, <2>1 DEF UpdateState, Priority
    <2>3. Sound(e, e, m) /\ Sound(e, Suspected(e), m) /\ Sound(e, Killed(e), m)
        BY <1>2, <2>1 DEF Suspected, Killed
    <2>4. Upserted(e, "alive", 0) = e
        BY <2>1 DEF Upserted
    <2> HIDE DEF Sound
    <2> QED BY <2>1, <2>2, <2>3, <2>4 DEF ProcessedAlive, Merged
<1> QED BY <1>1, <1>2

(***************************************************************************)
(* queue_update keeps what was queued, replaces or appends the new update, *)
(* and drops the oldest beyond the limit.                                  *)
(***************************************************************************)
LEMMA QueuedFacts ==
    ASSUME NEW q \in Seq(QEntries), NEW u \in Updates
    PROVE  /\ Queued(q, u) \in Seq(QEntries)
           /\ \A k \in 1..Len(Queued(q, u)) :
                 Queued(q, u)[k].u = u \/ \E j \in 1..Len(q) : Queued(q, u)[k].u = q[j].u
<1> DEFINE new == [u |-> u, count |-> 0]
           same == {k \in 1..Len(q) : q[k].u.id = u.id}
           q2 == IF same = {} THEN Append(q, new)
                 ELSE [k \in 1..Len(q) |->
                         IF k \in same /\ u.inc >= q[k].u.inc THEN new ELSE q[k]]
           limit == 2 * MaxPiggyback
           Old(x) == x.u = u \/ \E j \in 1..Len(q) : x.u = q[j].u
<1>1. new \in QEntries /\ new.u = u
    BY GossipAssumption DEF QEntries
<1>2. limit \in Nat
    BY GossipAssumption
<1>3. q2 \in Seq(QEntries) /\ \A k \in 1..Len(q2) : Old(q2[k])
    <2>1. CASE same = {}
        <3>1. q2 = Append(q, new)
            BY <2>1
        <3> QED BY <1>1, <3>1, AppendProperties
    <2>2. CASE same # {}
        <3>1. q2 = [k \in 1..Len(q) |-> IF k \in same /\ u.inc >= q[k].u.inc THEN new ELSE q[k]]
            BY <2>2
        <3>2. Len(q) \in Nat /\ \A k \in 1..Len(q) : q[k] \in QEntries
            BY ElementOfSeq, LenProperties
        <3>3. \A k \in 1..Len(q) : q2[k] \in QEntries /\ (q2[k] = new \/ q2[k] = q[k])
            BY <1>1, <3>1, <3>2
        <3>4. q2 \in Seq(QEntries) /\ Len(q2) = Len(q)
            BY <3>1, <3>2, <3>3, IsASeq
        <3> QED BY <1>1, <3>3, <3>4
    <2> QED BY <2>1, <2>2
<1>4. Queued(q, u) = IF Len(q2) > limit THEN SubSeq(q2, Len(q2) - limit + 1, Len(q2)) ELSE q2
    BY DEF Queued
<1> HIDE DEF q2, limit, Old
<1>5. CASE Len(q2) > limit
    <2>1. Len(q2) \in Nat /\ Len(q2) - limit + 1 \in 1..Len(q2) + 1
        BY <1>2, <1>3, <1>5, LenProperties
    <2>2. \A i \in (Len(q2) - limit + 1)..Len(q2) : i \in 1..Len(q2)
        BY <1>2, <2>1
    <2>3. /\ Queued(q, u) \in Seq(QEntries)
          /\ \A k \in 1..Len(Queued(q, u)) : \E i \in 1..Len(q2) : Queued(q, u)[k] = q2[i]
        BY <1>2, <1>3, <1>4, <1>5, <2>1, <2>2, SubSeqProperties
    <2> QED BY <1>3, <2>3 DEF Old
<1>6. CASE ~(Len(q2) > limit)
    BY <1>3, <1>4, <1>6 DEF Old
<1> QED BY <1>5, <1>6

\* Whatever is said in u, its node has minted it.
Known(u) == u \in Updates /\ u.inc <= minted[u.id]

(***************************************************************************)
(* The invariant, said of each update that is about to be queued, queued   *)
(* or sent.                                                                *)
(***************************************************************************)
LEMMA GossipSays ==
    ASSUME GossipInv
    PROVE  /\ GossipTypeOK
           /\ \A i \in Subjects : local[i] <= minted[i] /\ minted[i] \in Nat
           /\ \A n \in Nodes, i \in Subjects :
                 /\ view[n][i] \in GossipEntries \union {Absent}
                 /\ view[n][i].inc <= minted[i]
           /\ \A n \in Nodes : \A u \in pending[n] : Known(u)
           /\ \A n \in Nodes : /\ queue[n] \in Seq(QEntries)
                               /\ \A k \in 1..Len(queue[n]) : Known(queue[n][k].u)
           /\ \A u \in net : Known(u)
<1>1. GossipTypeOK
    BY DEF GossipInv
<1>2. \A i \in Subjects : local[i] <= minted[i] /\ minted[i] \in Nat
    BY <1>1, GossipAssumption DEF GossipInv, IncarnationMinted, GossipTypeOK
<1>3. \A n \in Nodes, i \in Subjects : /\ view[n][i] \in GossipEntries \union {Absent}
                                       /\ view[n][i].inc <= minted[i]
    BY <1>1 DEF GossipInv, IncarnationMinted, GossipTypeOK
<1>4. \A u \in Updates : u.id \in Subjects
    BY DEF Updates
<1>5. \A n \in Nodes : \A u \in pending[n] : Known(u)
    BY <1>1, <1>4 DEF GossipInv, IncarnationMinted, GossipTypeOK, Known
<1>6. ASSUME NEW n \in Nodes
      PROVE  queue[n] \in Seq(QEntries) /\ \A k \in 1..Len(queue[n]) : Known(queue[n][k].u)
    <2>1. queue[n] \in Seq(QEntries)
        BY <1>1 DEF GossipTypeOK, QEntries
    <2>2. \A k \in 1..Len(queue[n]) : queue[n][k].u \in Updates
        <3>1. \A k \in 1..Len(queue[n]) : queue[n][k] \in QEntries
            BY <2>1, ElementOfSeq
        <3> QED BY <3>1 DEF QEntries
    <2> QED BY <1>4, <2>1, <2>2 DEF GossipInv, IncarnationMinted, Known
<1>7. \A u \in net : Known(u)
    BY <1>1, <1>4 DEF GossipInv, IncarnationMinted, GossipTypeOK, Known
<1> QED BY <1>1, <1>2, <1>3, <1>5, <1>6, <1>7

(***************************************************************************)
(* Conversely, a step that only says what is known keeps the invariant.    *)
(***************************************************************************)
LEMMA GossipKept ==
    ASSUME local' \in [Subjects -> 0..MaxInc], minted' \in [Subjects -> 0..MaxInc],
           view' \in [Nodes -> [Subjects -> GossipEntries \union {Absent}]],
           pending' \in [Nodes -> SUBSET Updates],
           queue' \in [Nodes -> Seq(QEntries)],
           condemned' \in [Nodes -> SUBSET Subjects],
           \A i \in Subjects : local'[i] <= minted'[i],
           \A n \in Nodes, i \in Subjects : view'[n][i].inc <= minted'[i],
           \A n \in Nodes : \A u \in pending'[n] : Known(u)',
           \A n \in Nodes : \A k \in 1..Len(queue'[n]) : Known(queue[n][k].u)',
           \A u \in net' : Known(u)'
    PROVE  GossipInv'
<1>1. GossipTypeOK'
    <2>1. net' \in SUBSET Updates
        BY DEF Known
    <2> QED BY <2>1 DEF GossipTypeOK, QEntries
<1>2. IncarnationMinted'
    BY DEF IncarnationMinted, Known
<1> QED BY <1>1, <1>2 DEF GossipInv

\* One entry of the table of n changes to r, soundly.
SoundWrite(n, i, r) ==
    SetView(n, i, r) /\ Sound(view[n][i], r, minted[i])

(***************************************************************************)
(* A sound write of one entry that is not to be queued (process_alive,     *)
(* update_state, merge_full_state).                                        *)
(***************************************************************************)
LEMMA SoundWriteStep ==
    ASSUME GossipInv, NEW n \in Nodes, NEW i \in Subjects, NEW r, SoundWrite(n, i, r),
           UNCHANGED <<local, queue, net, minted>>,
           condemned' \in [Nodes -> SUBSET Subjects],
           \/ pending' = pending
           \/ r # view[n][i] /\ pending' = [pending EXCEPT ![n] = @ \union {Update(i, r)}]
    PROVE  /\ GossipInv'
           /\ \A o \in Nodes, j \in Subjects : Forward(view[o][j], view'[o][j])
<1>0. /\ GossipTypeOK
      /\ \A j \in Subjects : local[j] <= minted[j] /\ minted[j] \in Nat
      /\ \A o \in Nodes, j \in Subjects : /\ view[o][j] \in GossipEntries \union {Absent}
                                          /\ view[o][j].inc <= minted[j]
    BY GossipSays
<1>1. /\ r \in GossipEntries \union {Absent} /\ r.inc <= minted[i]
      /\ r # view[n][i] => r \in GossipEntries
      /\ Forward(view[n][i], r)
    BY DEF SoundWrite, Sound
<1>2. view' = [view EXCEPT ![n][i] = r]
    BY DEF SoundWrite, SetView
<1>3. view' \in [Nodes -> [Subjects -> GossipEntries \union {Absent}]]
    BY <1>0, <1>1, <1>2 DEF GossipTypeOK
<1>4. \A o \in Nodes, j \in Subjects : view'[o][j] = IF o = n /\ j = i THEN r ELSE view[o][j]
    BY <1>0, <1>2 DEF GossipTypeOK
<1>5. \A o \in Nodes, j \in Subjects : view'[o][j].inc <= minted[j]
    BY <1>0, <1>1, <1>4
<1>6. r # view[n][i] => Known(Update(i, r))
    <2> SUFFICES ASSUME r \in GossipEntries PROVE Known(Update(i, r))
        BY <1>1
    <2>1. Update(i, r) \in Updates
        BY DEF Update, Updates, GossipEntries
    <2> QED BY <1>1, <2>1 DEF Update, Known
<1>7. \A u : Known(u)' <=> Known(u)
    BY DEF Known
<1>8. /\ pending' \in [Nodes -> SUBSET Updates]
      /\ \A o \in Nodes : \A u \in pending'[o] : Known(u)
    <2>1. pending \in [Nodes -> SUBSET Updates] /\ \A o \in Nodes : \A u \in pending[o] : Known(u)
        BY <1>0, GossipSays DEF GossipTypeOK
    <2>2. CASE r # view[n][i] /\ pending' = [pending EXCEPT ![n] = @ \union {Update(i, r)}]
        <3>1. Known(Update(i, r)) /\ Update(i, r) \in Updates
            BY <1>6, <2>2 DEF Known
        <3>2. \A o \in Nodes : pending'[o] = IF o = n THEN pending[n] \union {Update(i, r)}
                                           ELSE pending[o]
            BY <2>1, <2>2
        <3> QED BY <2>1, <2>2, <3>1, <3>2
    <2> QED BY <2>1, <2>2
<1>9. /\ \A o \in Nodes : \A k \in 1..Len(queue[o]) : Known(queue[o][k].u)'
      /\ \A u \in net : Known(u)'
      /\ queue \in [Nodes -> Seq(QEntries)]
    <2>1. \A o \in Nodes : \A k \in 1..Len(queue[o]) : Known(queue[o][k].u)
        BY GossipSays
    <2>2. \A o \in Nodes : \A k \in 1..Len(queue'[o]) : queue'[o][k].u \in Updates
                              /\ queue'[o][k].u.inc <= minted'[queue'[o][k].u.id]
        BY <2>1 DEF Known
    <2>3. \A u \in net : Known(u)'
        BY <1>7, GossipSays
    <2> QED BY <1>0, <2>2, <2>3 DEF GossipTypeOK, QEntries, Known
<1>10. GossipInv'
    BY <1>0, <1>3, <1>5, <1>7, <1>8, <1>9, GossipKept DEF GossipTypeOK
<1>11. \A o \in Nodes, j \in Subjects : Forward(view[o][j], view[o][j])
    <2> SUFFICES ASSUME NEW o \in Nodes, NEW j \in Subjects
                 PROVE  Forward(view[o][j], view[o][j])
        OBVIOUS
    <2>1. view[o][j] # Absent => view[o][j].inc \in Nat
        BY <1>0, GossipAssumption DEF GossipEntries
    <2> QED BY <2>1 DEF Forward, Active, Absent
<1>12. \A o \in Nodes, j \in Subjects : Forward(view[o][j], view'[o][j])
    BY <1>1, <1>4, <1>11
<1> QED BY <1>10, <1>12

\* No table goes back.
AllForward == \A n \in Nodes, i \in Subjects : Forward(view[n][i], view'[n][i])

(***************************************************************************)
(* A write by a local decision: registration, suspicion, the end of a      *)
(* suspect, or the news of a death.                                        *)
(***************************************************************************)
LEMMA WriteAndQueueStep ==
    ASSUME GossipInv, NEW n \in Nodes, NEW i \in Subjects,
           NEW r \in {Upserted(view[n][i], "alive", 0), Suspected(view[n][i]), Killed(view[n][i])},
           WriteAndQueue(n, i, r), UNCHANGED <<local, queue, net, minted>>,
           condemned' \in [Nodes -> SUBSET Subjects]
    PROVE  GossipInv' /\ AllForward
<1>1. /\ view[n][i] \in GossipEntries \union {Absent} /\ view[n][i].inc <= minted[i]
      /\ minted[i] \in Nat
    BY GossipSays
<1>2. 0 \in 0..MaxInc /\ 0 <= minted[i] /\ "alive" \in States
    BY <1>1, GossipAssumption DEF States
<1>3. Sound(view[n][i], r, minted[i])
    BY <1>1, <1>2, GossipOps
<1>4. SoundWrite(n, i, r)
    BY <1>3 DEF WriteAndQueue, SoundWrite
<1>5. \/ pending' = pending
      \/ r # view[n][i] /\ pending' = [pending EXCEPT ![n] = @ \union {Update(i, r)}]
    BY DEF WriteAndQueue
<1> QED BY <1>4, <1>5, SoundWriteStep DEF AllForward

(***************************************************************************)
(* apply_updates: an update that somebody sent, however late.              *)
(***************************************************************************)
LEMMA ApplyStep ==
    ASSUME GossipInv, NEW n \in Nodes, NEW u \in net,
           ApplyAlive(n, u) \/ ApplySuspect(n, u) \/ ApplyDead(n, u)
    PROVE  GossipInv' /\ AllForward
<1>1. Known(u) /\ GossipTypeOK
    BY GossipSays
<1>2. u.id \in Subjects /\ u.inc \in 0..MaxInc /\ u.inc <= minted[u.id]
    BY <1>1 DEF Known, Updates
<1>3. /\ view[n][u.id] \in GossipEntries \union {Absent} /\ view[n][u.id].inc <= minted[u.id]
      /\ minted[u.id] \in Nat /\ condemned \in [Nodes -> SUBSET Subjects]
    BY <1>1, <1>2, GossipSays DEF GossipTypeOK
<1>4. "alive" \in States /\ "suspect" \in States
    BY DEF States
<1>5. CASE ApplyAlive(n, u)
    <2>1. Sound(view[n][u.id], ProcessedAlive(view[n][u.id], u.inc), minted[u.id])
        BY <1>2, <1>3, <1>4, GossipOps
    <2>2. SoundWrite(n, u.id, ProcessedAlive(view[n][u.id], u.inc))
        BY <1>5, <2>1 DEF ApplyAlive, SoundWrite
    <2>3. UNCHANGED <<local, pending, queue, condemned, net, minted>>
        BY <1>5 DEF ApplyAlive
    <2> QED BY <1>2, <1>3, <2>2, <2>3, SoundWriteStep DEF AllForward
<1>6. CASE ApplySuspect(n, u)
    <2>0. u.state = "suspect" /\ view[n][u.id] # Absent
        BY <1>6 DEF ApplySuspect
    <2>1. Sound(view[n][u.id], UpdateState(view[n][u.id], u.state, u.inc), minted[u.id])
        BY <1>2, <1>3, <1>4, <2>0, GossipOps
    <2>2. SoundWrite(n, u.id, UpdateState(view[n][u.id], u.state, u.inc))
        BY <1>6, <2>1 DEF ApplySuspect, SoundWrite
    <2>3. UNCHANGED <<local, pending, queue, condemned, net, minted>>
        BY <1>6 DEF ApplySuspect
    <2> QED BY <1>2, <1>3, <2>2, <2>3, SoundWriteStep DEF AllForward
<1>7. CASE ApplyDead(n, u)
    BY <1>2, <1>3, <1>7, WriteAndQueueStep DEF ApplyDead
<1> QED BY <1>5, <1>6, <1>7

(***************************************************************************)
(* merge_full_state of one member.                                         *)
(***************************************************************************)
LEMMA MergeStep ==
    ASSUME GossipInv, NEW n \in Nodes, NEW o \in Nodes, NEW i \in Subjects,
           MergeFullState(n, o, i)
    PROVE  GossipInv' /\ AllForward
<1>1. /\ view[n][i] \in GossipEntries \union {Absent} /\ view[n][i].inc <= minted[i]
      /\ view[o][i] \in GossipEntries /\ view[o][i].inc <= minted[i]
      /\ minted[i] \in Nat /\ condemned \in [Nodes -> SUBSET Subjects]
    BY GossipSays DEF MergeFullState, GossipTypeOK
<1>2. /\ view[o][i].state \in States /\ view[o][i].inc \in 0..MaxInc
      /\ view[o][i] = [state |-> view[o][i].state, inc |-> view[o][i].inc]
    BY <1>1 DEF GossipEntries
<1>3. Sound(view[n][i], Merged(view[n][i], view[o][i]), minted[i])
    <2>1. Sound(view[n][i], Merged(view[n][i], [state |-> view[o][i].state,
                                                inc |-> view[o][i].inc]), minted[i])
        BY <1>1, <1>2, GossipOps
    <2> QED BY <1>2, <2>1, Zenon
<1>4. SoundWrite(n, i, Merged(view[n][i], view[o][i]))
    BY <1>3 DEF MergeFullState, SoundWrite
<1>5. UNCHANGED <<local, pending, queue, condemned, net, minted>>
    BY DEF MergeFullState
<1> QED BY <1>1, <1>4, <1>5, SoundWriteStep DEF AllForward

(***************************************************************************)
(* Steps that leave minted and the tables alone are forward.               *)
(***************************************************************************)
LEMMA ViewKept == ASSUME GossipInv, view' = view PROVE AllForward
<1> SUFFICES ASSUME NEW n \in Nodes, NEW i \in Subjects PROVE Forward(view[n][i], view[n][i])
    BY DEF AllForward
<1>1. view[n][i] # Absent => view[n][i].inc \in Nat
    BY GossipSays, GossipAssumption DEF GossipEntries
<1> QED BY <1>1 DEF Forward, Active, Absent

(***************************************************************************)
(* queue_update and get_piggyback_updates queue and send only what was     *)
(* known.                                                                  *)
(***************************************************************************)
LEMMA QueueStep ==
    ASSUME GossipInv, NEW n \in Nodes, QueueUpdate(n) \/ GetPiggybackUpdates(n)
    PROVE  GossipInv'
<1>0. /\ GossipTypeOK /\ \A i \in Subjects : local[i] <= minted[i]
      /\ \A o \in Nodes, i \in Subjects : view[o][i].inc <= minted[i]
      /\ \A o \in Nodes : \A u \in pending[o] : Known(u)
      /\ \A o \in Nodes : queue[o] \in Seq(QEntries) /\ \A k \in 1..Len(queue[o]) : Known(queue[o][k].u)
      /\ \A u \in net : Known(u)
    BY GossipSays
<1>1. UNCHANGED <<local, view, condemned, minted>>
    BY DEF QueueUpdate, GetPiggybackUpdates
<1>2. /\ pending' \in [Nodes -> SUBSET Updates] /\ \A o \in Nodes : pending'[o] \subseteq pending[o]
    BY <1>0 DEF QueueUpdate, GetPiggybackUpdates, GossipTypeOK
<1>3. /\ queue' \in [Nodes -> Seq(QEntries)]
      /\ \A o \in Nodes : \A k \in 1..Len(queue'[o]) : Known(queue'[o][k].u)
    <2>1. ASSUME NEW q \in Seq(QEntries), queue' = [queue EXCEPT ![n] = q],
                 \A k \in 1..Len(q) : Known(q[k].u)
          PROVE  /\ queue' \in [Nodes -> Seq(QEntries)]
                 /\ \A o \in Nodes : \A k \in 1..Len(queue'[o]) : Known(queue'[o][k].u)
        <3>1. queue \in [Nodes -> Seq(QEntries)]
            BY <1>0 DEF GossipTypeOK, QEntries
        <3>2. \A o \in Nodes : queue'[o] = IF o = n THEN q ELSE queue[o]
            BY <2>1, <3>1
        <3> QED BY <1>0, <2>1, <3>1, <3>2
    <2>2. CASE QueueUpdate(n)
        <3>1. PICK u \in pending[n] : queue' = [queue EXCEPT ![n] = Queued(queue[n], u)]
            BY <2>2 DEF QueueUpdate
        <3>2. Known(u) /\ u \in Updates /\ queue[n] \in Seq(QEntries)
            BY <1>0 DEF Known
        <3>3. /\ Queued(queue[n], u) \in Seq(QEntries)
              /\ \A k \in 1..Len(Queued(queue[n], u)) :
                    \/ Queued(queue[n], u)[k].u = u
                    \/ \E j \in 1..Len(queue[n]) : Queued(queue[n], u)[k].u = queue[n][j].u
            BY <3>2, QueuedFacts
        <3>4. \A k \in 1..Len(Queued(queue[n], u)) : Known(Queued(queue[n], u)[k].u)
            BY <1>0, <3>2, <3>3
        <3> QED BY <2>1, <3>1, <3>3, <3>4
    <2>3. CASE GetPiggybackUpdates(n)
        <3> DEFINE q == queue[n]
                   sent == {j \in 1..Len(q) : j <= MaxPiggyback}
                   counted == [j \in 1..Len(q) |->
                                 [u |-> q[j].u,
                                  count |-> IF j \in sent THEN q[j].count + 1 ELSE q[j].count]]
                   kept == {j \in 1..Len(q) : counted[j].count < BroadcastLimit}
        <3>1. PICK f \in [1..Cardinality(kept) -> kept] :
                queue' = [queue EXCEPT ![n] = [k \in DOMAIN f |-> counted[f[k]]]]
            BY <2>3 DEF GetPiggybackUpdates
        <3>2. q \in Seq(QEntries) /\ Len(q) \in Nat /\ \A j \in 1..Len(q) : q[j] \in QEntries
            BY <1>0, ElementOfSeq, LenProperties
        <3>3. Cardinality(kept) \in Nat
            <4>1. IsFiniteSet(1..Len(q))
                BY <3>2, FS_Interval
            <4>2. IsFiniteSet(kept)
                BY <4>1, FS_Subset
            <4> QED BY <4>2, FS_CardinalityType
        <3>4. \A j \in kept : counted[j] \in QEntries /\ counted[j].u = q[j].u /\ j \in 1..Len(q)
            <4> SUFFICES ASSUME NEW j \in 1..Len(q), counted[j].count < BroadcastLimit
                         PROVE  counted[j] \in QEntries /\ counted[j].u = q[j].u
                OBVIOUS
            <4>1. q[j].u \in Updates /\ q[j].count \in 0..BroadcastLimit
                BY <3>2 DEF QEntries
            <4>2. counted[j].count \in Nat /\ counted[j].u = q[j].u
                  /\ counted[j] = [u |-> counted[j].u, count |-> counted[j].count]
                BY <4>1, GossipAssumption
            <4> HIDE DEF counted
            <4>3. counted[j].count \in 0..BroadcastLimit
                BY <4>2, GossipAssumption
            <4> QED BY <4>1, <4>2, <4>3 DEF QEntries
        <3> DEFINE r == [k \in DOMAIN f |-> counted[f[k]]]
        <3> HIDE DEF counted, kept
        <3>5. \A k \in 1..Cardinality(kept) : r[k] \in QEntries /\ f[k] \in kept /\ r[k].u = q[f[k]].u
            BY <3>4
        <3>6. r \in Seq(QEntries) /\ Len(r) = Cardinality(kept)
            BY <3>3, <3>5
        <3>7. \A k \in 1..Len(r) : Known(r[k].u)
            BY <1>0, <3>4, <3>5, <3>6
        <3>8. queue' = [queue EXCEPT ![n] = r]
            BY <3>1
        <3> HIDE DEF r
        <3> QED BY <2>1, <3>6, <3>7, <3>8
    <2> QED BY <2>2, <2>3
<1>4. \A u \in net' : Known(u)
    <2>1. CASE QueueUpdate(n)
        BY <1>0, <2>1 DEF QueueUpdate
    <2>2. CASE GetPiggybackUpdates(n)
        BY <1>0, <2>2 DEF GetPiggybackUpdates
    <2> QED BY <2>1, <2>2
<1>5. /\ \A o \in Nodes : \A u \in pending'[o] : Known(u)'
      /\ \A u \in net' : Known(u)'
      /\ \A o \in Nodes : \A k \in 1..Len(queue'[o]) : Known(queue[o][k].u)'
    BY <1>0, <1>1, <1>2, <1>3, <1>4 DEF Known
<1> QED BY <1>0, <1>1, <1>2, <1>3, <1>5, GossipKept DEF GossipTypeOK

(***************************************************************************)
(* A node refutes a suspicion: the only step that mints an incarnation.    *)
(***************************************************************************)
LEMMA RefuteStep ==
    ASSUME GossipInv, NEW n \in Nodes, NEW u \in net, Refute(n, u) PROVE GossipInv'
<1>0. /\ GossipTypeOK /\ \A i \in Subjects : local[i] <= minted[i] /\ minted[i] \in Nat
      /\ \A o \in Nodes, i \in Subjects : /\ view[o][i] \in GossipEntries \union {Absent}
                                          /\ view[o][i].inc <= minted[i]
      /\ \A o \in Nodes : \A v \in pending[o] : Known(v)
      /\ \A o \in Nodes : queue[o] \in Seq(QEntries) /\ \A k \in 1..Len(queue[o]) : Known(queue[o][k].u)
      /\ \A v \in net : Known(v)
    BY GossipSays
<1> DEFINE inc == local[n] + 1
           m == IF inc > minted[n] THEN inc ELSE minted[n]
           v == Update(n, [state |-> "alive", inc |-> inc])
<1>1. n \in Subjects
    BY <1>0 DEF Refute, Known, Updates
<1>2. /\ local' = [local EXCEPT ![n] = inc] /\ minted' = [minted EXCEPT ![n] = m]
      /\ pending' = [pending EXCEPT ![n] = @ \union {v}]
      /\ UNCHANGED <<view, queue, condemned, net>>
    BY DEF Refute
<1>3. inc \in 0..MaxInc /\ m \in 0..MaxInc /\ inc <= m /\ minted[n] <= m
    BY <1>0, <1>1, GossipAssumption DEF GossipTypeOK, Refute
<1> HIDE DEF inc, m
<1>4. local' \in [Subjects -> 0..MaxInc] /\ minted' \in [Subjects -> 0..MaxInc]
    BY <1>0, <1>2, <1>3 DEF GossipTypeOK
<1>5. /\ \A i \in Subjects : minted'[i] = IF i = n THEN m ELSE minted[i]
      /\ \A i \in Subjects : local'[i] = IF i = n THEN inc ELSE local[i]
    BY <1>0, <1>2 DEF GossipTypeOK
<1>6. \A i \in Subjects : minted[i] <= minted'[i] /\ minted[i] \in Nat /\ minted'[i] \in Nat
    BY <1>0, <1>3, <1>5, GossipAssumption
<1>7. ASSUME NEW w, Known(w) PROVE Known(w)'
    <2>1. w.id \in Subjects /\ w.inc \in Nat
        BY <1>7, GossipAssumption DEF Known, Updates
    <2> QED BY <1>6, <1>7, <2>1 DEF Known
<1>8. v \in Updates /\ v.inc <= minted'[v.id]
    <2>1. v \in Updates
        BY <1>1, <1>3 DEF Update, Updates, States
    <2>2. v.id = n /\ v.inc = inc
        BY DEF Update
    <2> QED BY <1>1, <1>3, <1>5, <2>1, <2>2
<1> HIDE DEF v
<1>9. /\ pending' \in [Nodes -> SUBSET Updates]
      /\ \A o \in Nodes : \A w \in pending'[o] : Known(w)'
    <2>1. \A o \in Nodes : pending'[o] = IF o = n THEN pending[n] \union {v} ELSE pending[o]
        BY <1>0, <1>2 DEF GossipTypeOK
    <2>2. \A o \in Nodes : \A w \in pending[o] : Known(w)'
        BY <1>0, <1>7
    <2>3. pending' \in [Nodes -> SUBSET Updates]
        BY <1>0, <1>2, <1>8 DEF GossipTypeOK
    <2> QED BY <1>8, <2>1, <2>2, <2>3 DEF Known
<1>10. \A i \in Subjects : local'[i] <= minted'[i]
    BY <1>0, <1>3, <1>5
<1>11. \A o \in Nodes, i \in Subjects : view'[o][i].inc <= minted'[i]
    <2> SUFFICES ASSUME NEW o \in Nodes, NEW i \in Subjects PROVE view[o][i].inc <= minted'[i]
        BY <1>2
    <2>1. view[o][i].inc \in Nat /\ view[o][i].inc <= minted[i]
        BY <1>0, GossipAssumption DEF GossipEntries, Absent
    <2> QED BY <1>6, <2>1
<1>12. \A o \in Nodes : \A k \in 1..Len(queue'[o]) : Known(queue[o][k].u)'
    <2> SUFFICES ASSUME NEW o \in Nodes, NEW k \in 1..Len(queue[o])
                 PROVE  queue[o][k].u \in Updates /\ queue[o][k].u.inc <= minted'[queue[o][k].u.id]
        BY <1>2 DEF Known
    <2>1. Known(queue[o][k].u)
        BY <1>0
    <2>2. queue[o][k].u.id \in Subjects /\ queue[o][k].u.inc \in Nat
        BY <2>1, GossipAssumption DEF Known, Updates
    <2> QED BY <1>6, <2>1, <2>2 DEF Known
<1>13. \A w \in net' : Known(w)'
    BY <1>0, <1>2, <1>7
<1> QED BY <1>0, <1>2, <1>4, <1>9, <1>10, <1>11, <1>12, <1>13, GossipKept
        DEF GossipTypeOK, QEntries

(***************************************************************************)
(* Suspects are collected, dead members reaped, and processes restart with *)
(* empty tables.                                                           *)
(***************************************************************************)
LEMMA ForgetStep ==
    ASSUME GossipInv, NEW n \in Nodes,
           \/ CollectCondemned(n) \/ RestartGossip(n)
           \/ \E i \in Subjects : ReapDeadNode(n, i)
           \/ UNCHANGED gossipVars
    PROVE  GossipInv' /\ AllForward
<1>0. /\ GossipTypeOK /\ \A i \in Subjects : local[i] <= minted[i] /\ minted[i] \in Nat
      /\ \A o \in Nodes, i \in Subjects : /\ view[o][i] \in GossipEntries \union {Absent}
                                          /\ view[o][i].inc <= minted[i]
      /\ \A o \in Nodes : \A u \in pending[o] : Known(u)
      /\ \A o \in Nodes : queue[o] \in Seq(QEntries) /\ \A k \in 1..Len(queue[o]) : Known(queue[o][k].u)
      /\ \A u \in net : Known(u)
    BY GossipSays
<1>1. /\ net' = net /\ minted' = minted
      /\ local' \in [Subjects -> 0..MaxInc] /\ \A i \in Subjects : local'[i] \in {local[i], 0}
    <2>1. 0 \in 0..MaxInc /\ local \in [Subjects -> 0..MaxInc]
        BY <1>0, GossipAssumption DEF GossipTypeOK
    <2>2. CASE RestartGossip(n)
        BY <2>1, <2>2 DEF RestartGossip
    <2> QED BY <2>1, <2>2 DEF CollectCondemned, ReapDeadNode, gossipVars
<1>2. /\ condemned' \in [Nodes -> SUBSET Subjects]
      /\ pending' \in [Nodes -> SUBSET Updates] /\ \A o \in Nodes : pending'[o] \subseteq pending[o]
    BY <1>0 DEF CollectCondemned, RestartGossip, ReapDeadNode, gossipVars, GossipTypeOK
<1>3. /\ view' \in [Nodes -> [Subjects -> GossipEntries \union {Absent}]]
      /\ \A o \in Nodes, i \in Subjects : view'[o][i] \in {view[o][i], Absent}
    <2>1. CASE RestartGossip(n)
        BY <1>0, <2>1 DEF RestartGossip, GossipTypeOK
    <2>2. ASSUME NEW i \in Subjects, ReapDeadNode(n, i)
          PROVE  /\ view' \in [Nodes -> [Subjects -> GossipEntries \union {Absent}]]
                 /\ \A o \in Nodes, j \in Subjects : view'[o][j] \in {view[o][j], Absent}
        BY <1>0, <2>2 DEF ReapDeadNode, SetView, GossipTypeOK
    <2>3. CASE view' = view
        BY <1>0, <2>3 DEF GossipTypeOK
    <2> QED BY <2>1, <2>2, <2>3 DEF CollectCondemned, gossipVars
<1>4. /\ queue' \in [Nodes -> Seq(QEntries)]
      /\ \A o \in Nodes : queue'[o] = queue[o] \/ queue'[o] = <<>>
    <2>1. queue \in [Nodes -> Seq(QEntries)] /\ <<>> \in Seq(QEntries)
        BY <1>0, EmptySeq DEF GossipTypeOK, QEntries
    <2> QED BY <2>1 DEF CollectCondemned, RestartGossip, ReapDeadNode, gossipVars
<1>5. \A o \in Nodes : \A k \in 1..Len(queue'[o]) : Known(queue[o][k].u)'
    <2> SUFFICES ASSUME NEW o \in Nodes, NEW k \in 1..Len(queue'[o])
                 PROVE  /\ queue'[o][k].u \in Updates
                        /\ queue'[o][k].u.inc <= minted'[queue'[o][k].u.id]
        BY DEF Known
    <2>1. queue'[o] = queue[o]
        BY <1>4, EmptySeq
    <2> QED BY <1>0, <1>1, <2>1 DEF Known
<1>6. /\ \A i \in Subjects : local'[i] <= minted'[i]
      /\ \A o \in Nodes, i \in Subjects : view'[o][i].inc <= minted'[i]
      /\ \A o \in Nodes : \A u \in pending'[o] : Known(u)'
      /\ \A u \in net' : Known(u)'
    <2>1. \A i \in Subjects : 0 <= minted[i]
        BY <1>0
    <2>2. Absent.inc = 0
        BY DEF Absent
    <2> QED BY <1>0, <1>1, <1>2, <1>3, <2>1, <2>2 DEF Known
<1>7. GossipInv'
    BY <1>0, <1>1, <1>2, <1>3, <1>4, <1>5, <1>6, GossipKept DEF GossipTypeOK
<1>8. AllForward
    <2> SUFFICES ASSUME NEW o \in Nodes, NEW i \in Subjects PROVE Forward(view[o][i], view'[o][i])
        BY DEF AllForward
    <2>1. view[o][i] # Absent => view[o][i].inc \in Nat
        BY <1>0, GossipAssumption DEF GossipEntries
    <2> QED BY <1>3, <2>1 DEF Forward, Active, Absent
<1> QED BY <1>7, <1>8

(***************************************************************************)
(* However updates are queued, lost, repeated and reordered, every step    *)
(* says only what a node has minted and takes no table back.               *)
(***************************************************************************)
LEMMA GossipStep == GossipInv /\ [GossipNext]_gossipVars => GossipInv' /\ AllForward
<1> SUFFICES ASSUME GossipInv, [GossipNext]_gossipVars PROVE GossipInv' /\ AllForward
    OBVIOUS
<1>0. condemned \in [Nodes -> SUBSET Subjects]
    BY DEF GossipInv, GossipTypeOK
<1>1. ASSUME NEW n \in Nodes, QueueUpdate(n) \/ GetPiggybackUpdates(n)
      PROVE  GossipInv' /\ AllForward
    BY <1>1, QueueStep, ViewKept DEF QueueUpdate, GetPiggybackUpdates
<1>2. ASSUME NEW n \in Nodes, DeclareCondemned(n) PROVE GossipInv' /\ AllForward
    <2>1. PICK i \in condemned[n] : /\ WriteAndQueue(n, i, Killed(view[n][i]))
                                    /\ condemned' = [condemned EXCEPT ![n] = @ \ {i}]
        BY <1>2 DEF DeclareCondemned
    <2>2. i \in Subjects /\ condemned' \in [Nodes -> SUBSET Subjects]
        BY <1>0, <2>1
    <2>3. UNCHANGED <<local, queue, net, minted>>
        BY <1>2 DEF DeclareCondemned
    <2> QED BY <2>1, <2>2, <2>3, WriteAndQueueStep
<1>3. ASSUME NEW n \in Nodes, NEW i \in Subjects, UpsertMember(n, i) \/ SuspectMember(n, i)
      PROVE  GossipInv' /\ AllForward
    BY <1>0, <1>3, WriteAndQueueStep DEF UpsertMember, SuspectMember
<1>4. ASSUME NEW n \in Nodes, NEW u \in net, ApplyUpdate(n, u) PROVE GossipInv' /\ AllForward
    <2>1. CASE Refute(n, u)
        BY <2>1, RefuteStep, ViewKept DEF Refute
    <2> QED BY <1>4, <2>1, ApplyStep DEF ApplyUpdate
<1>5. CASE UNCHANGED gossipVars
    <2>1. CASE Nodes = {}
        <3>1. GossipInv'
            BY <1>5 DEF gossipVars, GossipInv, GossipTypeOK, IncarnationMinted
        <3> QED BY <2>1, <3>1 DEF AllForward
    <2> QED BY <1>5, <2>1, ForgetStep
<1> QED BY <1>1, <1>2, <1>3, <1>4, <1>5, ForgetStep, MergeStep DEF GossipNext

(***************************************************************************)
(* Empty tables and queues say nothing.                                    *)
(***************************************************************************)
LEMMA GossipStart == GossipInit => GossipInv
<1> SUFFICES ASSUME GossipInit PROVE GossipInv
    OBVIOUS
<1>1. 0 \in 0..MaxInc /\ <<>> \in Seq([u: Updates, count: 0..BroadcastLimit])
    BY GossipAssumption, EmptySeq
<1>2. GossipTypeOK
    BY <1>1 DEF GossipInit, GossipTypeOK
<1>3. IncarnationMinted
    BY EmptySeq DEF GossipInit, IncarnationMinted, Absent
<1> QED BY <1>2, <1>3 DEF GossipInv

(***************************************************************************)
(* Nobody but a node itself mints its incarnations, however many nodes     *)
(* gossip about it (apply_updates, queue_update, merge_full_state).        *)
(***************************************************************************)
THEOREM GossipHolds == GossipSpec => []GossipInv
BY GossipStart, GossipStep, PTL DEF GossipSpec

(***************************************************************************)
(* The two halves of AllForward, as the action properties state them.      *)
(***************************************************************************)
LEMMA ForwardSays ==
    AllForward =>
        /\ \A n \in Nodes, i \in Subjects :
              view[n][i] # Absent /\ view'[n][i] # Absent => view'[n][i].inc >= view[n][i].inc
        /\ \A n \in Nodes, i \in Subjects :
              view[n][i].state = "dead" /\ Active(view'[n][i])
                  => view'[n][i].inc > view[n][i].inc
BY DEF AllForward, Forward

(***************************************************************************)
(* However late, repeated or reordered the updates are, no table goes back *)
(* to an older incarnation or from dead to active without a newer one.     *)
(***************************************************************************)
THEOREM TableNeverGoesBackHolds == GossipSpec => TableNeverGoesBack
<1>1. GossipInv /\ [GossipNext]_gossipVars =>
        [\A n \in Nodes, i \in Subjects :
              view[n][i] # Absent /\ view'[n][i] # Absent
                  => view'[n][i].inc >= view[n][i].inc]_gossipVars
    BY GossipStep, ForwardSays
<1>2. GossipInv /\ [GossipNext]_gossipVars =>
        [\A n \in Nodes, i \in Subjects :
              view[n][i].state = "dead" /\ Active(view'[n][i])
                  => view'[n][i].inc > view[n][i].inc]_gossipVars
    BY GossipStep, ForwardSays
<1>3. GossipInv /\ [GossipNext]_gossipVars => GossipInv'
    BY GossipStep
<1> QED BY GossipStart, <1>1, <1>2, <1>3, PTL
        DEF GossipSpec, TableNeverGoesBack, IncarnationMonotone, NoResurrection

(***************************************************************************)
(* Both halves of the node registry keep their invariant and their action  *)
(* properties side by side.                                                *)
(***************************************************************************)
THEOREM MembershipHolds ==
    MembershipSpec => []MembershipInv /\ DeadUntilReaped /\ TableNeverGoesBack
<1>1. MembershipInit => MembershipInv
    BY RegistryInit, GossipStart DEF MembershipInit, MembershipInv
<1>2. [MembershipNext]_membershipVars => [Next]_vars /\ [GossipNext]_gossipVars
    BY DEF MembershipNext, membershipVars, vars, gossipVars
<1>3. MembershipInv /\ [MembershipNext]_membershipVars => MembershipInv'
    BY <1>2, RegistryStep, GossipStep DEF MembershipInv
<1>4. MembershipInv /\ [MembershipNext]_membershipVars =>
        [\A n \in Observers, i \in Ids :
            members[n][i].state = "dead" => members'[n][i] \in {members[n][i], Absent}]_vars
    BY <1>2, DeadStep DEF DeadKept, MembershipInv
<1>5. MembershipInv /\ [MembershipNext]_membershipVars =>
        [\A n \in Nodes, i \in Subjects :
              view[n][i] # Absent /\ view'[n][i] # Absent
                  => view'[n][i].inc >= view[n][i].inc]_gossipVars
    BY <1>2, GossipStep, ForwardSays DEF MembershipInv
<1>6. MembershipInv /\ [MembershipNext]_membershipVars =>
        [\A n \in Nodes, i \in Subjects :
              view[n][i].state = "dead" /\ Active(view'[n][i])
                  => view'[n][i].inc > view[n][i].inc]_gossipVars
    BY <1>2, GossipStep, ForwardSays DEF MembershipInv
<1>7. MembershipSpec => MembershipInit /\ [][MembershipNext]_membershipVars
    BY DEF MembershipSpec
<1> QED BY <1>1, <1>3, <1>4, <1>5, <1>6, <1>7, PTL
        DEF DeadUntilReaped, TableNeverGoesBack, IncarnationMonotone, NoResurrection
=============================================================================
