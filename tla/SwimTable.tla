----------------------------- MODULE SwimTable -----------------------------
(***************************************************************************)
(* One member of a SWIM table and what the calls of SwimProtocol do to it  *)
(* (crates/services/src/node_registry/swim.rs).  Addresses, timestamps and *)
(* counters of the member are left out; an elapsed timeout is a choice.    *)
(***************************************************************************)
EXTENDS Naturals

CONSTANT Nodes   \* nodes that run the protocol

States == {"alive", "suspect", "dead", "left"}

\* No entry in the table.
Absent == [state |-> "absent", inc |-> 0]

\* NodeState::priority
Priority(s) == CASE s = "alive" -> 0 [] s = "suspect" -> 1 [] s = "dead" -> 2 [] s = "left" -> 3

\* NodeState::is_active
Active(e) == e.state \in {"alive", "suspect"}

\* Mutants of UpdateState: only the severity is compared; an equal incarnation wins.
UpdateStateBySeverity(e, s, inc) ==
    IF Priority(s) >= Priority(e.state) THEN [state |-> s, inc |-> inc] ELSE e

UpdateStateOnEqual(e, s, inc) ==
    IF inc >= e.inc THEN [state |-> s, inc |-> inc] ELSE e

\* update_state: a higher incarnation wins, then the more severe state.
UpdateState(e, s, inc) ==
    IF inc > e.inc THEN [state |-> s, inc |-> inc]
    ELSE IF inc = e.inc /\ Priority(s) > Priority(e.state) THEN [state |-> s, inc |-> e.inc]
    ELSE e

\* Mutant of Upserted: the incarnation is not compared.
UpsertedAnyway(e, s, inc) == [state |-> s, inc |-> inc]

\* upsert_member: only a new member or a higher incarnation is written.
Upserted(e, s, inc) ==
    IF e = Absent \/ inc > e.inc THEN [state |-> s, inc |-> inc] ELSE e

\* process_alive: a new member, or update_state.
ProcessedAlive(e, inc) ==
    IF e = Absent THEN [state |-> "alive", inc |-> inc] ELSE UpdateState(e, "alive", inc)

\* suspect_member
Suspected(e) == IF e.state = "alive" THEN [state |-> "suspect", inc |-> e.inc] ELSE e

\* declare_dead looks at no incarnation.
Killed(e) == IF Active(e) THEN [state |-> "dead", inc |-> e.inc] ELSE e

\* merge_full_state, for one member of the remote table.
Merged(e, remote) ==
    IF e # Absent THEN UpdateState(e, remote.state, remote.inc)
    ELSE IF Active(remote) THEN remote
    ELSE Absent
=============================================================================
