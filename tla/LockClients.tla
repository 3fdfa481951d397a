---------------------------- MODULE LockClients ----------------------------
(***************************************************************************)
(* What the lock managers of crates/locks that keep their leases outside   *)
(* the process have in common: the clients and the leases they ask for,    *)
(* the clock and the supply of versions.                                   *)
(***************************************************************************)
EXTENDS Naturals

CONSTANTS
    Holders,      \* the holder_id of every client
    Lease,        \* Lease[h]: the lease_duration_secs client h asks for
    MaxTime,      \* bound on the clock (epoch seconds)
    MaxVersion,   \* bound on the number of versions generated
    NoRow,        \* no row for the key
    NoHandle      \* the client keeps no Lock

ASSUME LeaseAssumption == Lease \in [Holders -> Nat]
ASSUME BoundAssumption == MaxTime \in Nat /\ MaxVersion \in Nat

VARIABLES
    now,          \* Utc::now().timestamp()
    nextVersion   \* the next Ulid::new()

Rows == [holder: Holders, version: Nat, expires: Nat, locked: BOOLEAN]
=============================================================================
