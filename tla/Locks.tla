------------------------------- MODULE Locks -------------------------------
(***************************************************************************)
(* A deployment of the locks crate.  The factory                           *)
(* (crates/locks/src/factory.rs) reads the configuration once and builds   *)
(* one lock manager for the process: the backend is chosen in the initial  *)
(* state and never changes.                                                *)
(***************************************************************************)
EXTENDS SqlLock, DdbLock, RedisLock

VARIABLE backend   \* the LockBackend of the configuration

locksVars == <<backend, now, nextVersion, row, handle, item, before, ddbHandle, op,
               key, redisHandle, call>>

Backends == {"sqlite", "ddb", "redis"}

\* Every manager starts with an empty store and clients without a Lock.
LocksInit ==
    /\ backend \in Backends
    /\ Init
    /\ DdbInit
    /\ RedisInit

LocksNext ==
    \/ /\ backend = "sqlite"
       /\ Next
       /\ UNCHANGED <<backend, item, before, ddbHandle, op, key, redisHandle, call>>
    \/ /\ backend = "ddb"
       /\ DdbNext
       /\ UNCHANGED <<backend, row, handle, key, redisHandle, call>>
    \/ /\ backend = "redis"
       /\ RedisNext
       /\ UNCHANGED <<backend, row, handle, item, before, ddbHandle, op>>

LocksSpec == LocksInit /\ [][LocksNext]_locksVars

\* Under whichever backend create_lock_manager() chose, the row, item or key backs
\* what the clients have in hand (acquire_lock, renew_lock, release_lock).
LocksInv == LeaseInv /\ DdbLeaseInv /\ RedisLeaseInv
=============================================================================
