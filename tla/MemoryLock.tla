----------------------------- MODULE MemoryLock -----------------------------
(***************************************************************************)
(* The in-memory lock manager (crates/locks/src/memory.rs) and the tasks   *)
(* of one process that use it.  acquire_lock, release_lock and get_lock    *)
(* hold the mutex of the table from beginning to end and are one action    *)
(* each.  renew_lock drops the mutex between its checks and its write, and *)
(* waits for the semaphore of the entry in between: it is three actions,   *)
(* and its task can be aborted at each of its awaits.                      *)
(***************************************************************************)
EXTENDS Naturals

CONSTANTS
    Tasks,        \* the tasks that call the manager
    HolderOf,     \* HolderOf[t]: the holder_id task t presents
    Leases,       \* the lease_duration_secs a call may ask for
    MaxTime,      \* bound on the clock
    MaxVersion,   \* bound on the number of versions generated
    NoEntry,      \* the table has no entry for the key
    NoHandle      \* the task keeps no Lock

ASSUME TaskAssumption ==
    /\ DOMAIN HolderOf = Tasks
    /\ Leases \subseteq Nat
ASSUME BoundAssumption == MaxTime \in Nat /\ MaxVersion \in Nat

VARIABLES
    entry,        \* the LockEntry of the key
    now,          \* SystemTime::now()
    nextVersion,  \* the next Ulid::new(); also names a new semaphore
    handle,       \* handle[t]: the Lock the manager last returned to t
    phase,        \* phase[t]: where task t is in renew_lock
    sem,          \* sem[t]: the semaphore renew_lock of t has cloned (0 outside it)
    overtaken,    \* some renew_lock wrote over a live lease of another holder
    undercut      \* the tasks whose lease another task of their holder has
                  \* released, or replaced by one that ends earlier

memoryVars == <<entry, now, nextVersion, handle, phase, sem, overtaken, undercut>>

Holders == {HolderOf[t] : t \in Tasks}
Entries == [holder: Holders, version: Nat, expires: Nat, locked: BOOLEAN, sem: Nat]
Handles == [version: Nat, expires: Nat]

ASSUME NullAssumption == NoEntry \notin Entries /\ NoHandle \notin Handles

Phases   == {"idle", "validated", "permit"}

MemoryTypeOK ==
    /\ entry \in Entries \union {NoEntry}
    /\ now \in 0..MaxTime
    /\ nextVersion \in 0..MaxVersion
    /\ handle \in [Tasks -> Handles \union {NoHandle}]
    /\ phase \in [Tasks -> Phases]
    /\ sem \in [Tasks -> 0..MaxVersion]
    /\ overtaken \in BOOLEAN
    /\ undercut \subseteq Tasks

MemoryInit ==
    /\ entry = NoEntry
    /\ now = 0
    /\ nextVersion = 0
    /\ handle = [t \in Tasks |-> NoHandle]
    /\ phase = [t \in Tasks |-> "idle"]
    /\ sem = [t \in Tasks |-> 0]
    /\ overtaken = FALSE
    /\ undercut = {}

-----------------------------------------------------------------------------
\* There is an entry and not (expires_at <= now || !locked).
Live == entry # NoEntry /\ entry.expires > now /\ entry.locked

\* The Lock a task keeps of an entry (lock_to_proto).
LockOf(e) == [version |-> e.version, expires |-> e.expires]

\* The other tasks of the holder of t that still keep a Lock.
Siblings(t) == {u \in Tasks \ {t} : HolderOf[u] = HolderOf[t] /\ handle[u] # NoHandle}

\* insert(key, LockEntry { ... locked: true }) and the Lock returned for it.
Insert(t, lease, semaphore) ==
    /\ nextVersion < MaxVersion
    /\ nextVersion' = nextVersion + 1
    /\ entry' = [holder |-> HolderOf[t], version |-> nextVersion,
                 expires |-> now + lease, locked |-> TRUE, sem |-> semaphore]
    /\ handle' = [handle EXCEPT ![t] = LockOf(entry')]
    /\ undercut' = (undercut \ {t})
                      \union {u \in Siblings(t) : handle[u].expires > now + lease}
    /\ UNCHANGED now

-----------------------------------------------------------------------------
\* Mutant: the entry is written although the lease of another is live.
AcquireAnyway(t) ==
    /\ phase[t] = "idle"
    /\ \E lease \in Leases : Insert(t, lease, IF entry = NoEntry THEN nextVersion ELSE entry.sem)
    /\ UNCHANGED <<phase, sem, overtaken>>

\* A new entry gets a new semaphore, an old one keeps its own.
AcquireFree(t) ==
    /\ phase[t] = "idle"
    /\ ~Live
    /\ \E lease \in Leases : Insert(t, lease, IF entry = NoEntry THEN nextVersion ELSE entry.sem)
    /\ UNCHANGED <<phase, sem, overtaken>>

\* Mutant: the existing Lock is returned to whoever asks.
AcquireHeldByAny(t) ==
    /\ phase[t] = "idle"
    /\ Live
    /\ handle' = [handle EXCEPT ![t] = LockOf(entry)]
    /\ undercut' = undercut \ {t}
    /\ UNCHANGED <<entry, now, nextVersion, phase, sem, overtaken>>

\* A live entry of the same holder is returned as it is.
AcquireHeld(t) ==
    /\ phase[t] = "idle"
    /\ Live /\ entry.holder = HolderOf[t]
    /\ handle' = [handle EXCEPT ![t] = LockOf(entry)]
    /\ undercut' = undercut \ {t}
    /\ UNCHANGED <<entry, now, nextVersion, phase, sem, overtaken>>

\* Under the mutex: the entry exists, is the caller's and is live.  Its
\* semaphore is cloned and the mutex dropped.
RenewValidate(t) ==
    /\ phase[t] = "idle"
    /\ handle[t] # NoHandle
    /\ Live /\ entry.holder = HolderOf[t]
    /\ phase' = [phase EXCEPT ![t] = "validated"]
    /\ sem' = [sem EXCEPT ![t] = entry.sem]
    /\ UNCHANGED <<entry, now, nextVersion, handle, overtaken, undercut>>

\* Mutant: a permit is also taken together with the clone of the semaphore,
\* so that a renewal waits for itself.
RenewPermitNested(t) ==
    /\ phase[t] = "validated"
    /\ \A u \in Tasks : phase[u] # "idle" => sem[u] # sem[t]
    /\ phase' = [phase EXCEPT ![t] = "permit"]
    /\ UNCHANGED <<entry, now, nextVersion, handle, sem, overtaken, undercut>>

\* semaphore.acquire().await: the semaphore has one permit.
RenewPermit(t) ==
    /\ phase[t] = "validated"
    /\ \A u \in Tasks : phase[u] = "permit" => sem[u] # sem[t]
    /\ phase' = [phase EXCEPT ![t] = "permit"]
    /\ UNCHANGED <<entry, now, nextVersion, handle, sem, overtaken, undercut>>

\* Under the mutex again: the entry is inserted, whatever the table holds by
\* now, and the permit is dropped.
RenewWrite(t) ==
    /\ phase[t] = "permit"
    /\ \E lease \in Leases : Insert(t, lease, sem[t])
    /\ phase' = [phase EXCEPT ![t] = "idle"]
    /\ sem' = [sem EXCEPT ![t] = 0]
    /\ overtaken' = (overtaken \/ (Live /\ entry.holder # HolderOf[t]))

\* The task is aborted at an await of renew_lock (JoinHandle::abort): a
\* permit it holds is given back.
RenewAbort(t) ==
    /\ phase[t] # "idle"
    /\ phase' = [phase EXCEPT ![t] = "idle"]
    /\ sem' = [sem EXCEPT ![t] = 0]
    /\ handle' = [handle EXCEPT ![t] = NoHandle]
    /\ UNCHANGED <<entry, now, nextVersion, overtaken, undercut>>

\* Holder and version must match, expiry is not looked at.  On Ok the caller is
\* done with its Lock; other tasks of the holder keep theirs.
Release(t, deleteLock) ==
    /\ phase[t] = "idle"
    /\ handle[t] # NoHandle
    /\ entry # NoEntry /\ entry.holder = HolderOf[t] /\ entry.version = handle[t].version
    /\ entry' = IF deleteLock THEN NoEntry ELSE [entry EXCEPT !.locked = FALSE]
    /\ handle' = [handle EXCEPT ![t] = NoHandle]
    /\ undercut' = (undercut \ {t}) \union Siblings(t)
    /\ UNCHANGED <<now, nextVersion, phase, sem, overtaken>>

\* LockNotFound, InvalidHolderId or VersionMismatch: the caller keeps its Lock
\* or drops it.
LockReleaseFails(t) ==
    /\ phase[t] = "idle"
    /\ handle[t] # NoHandle
    /\ entry # NoEntry => entry.holder # HolderOf[t] \/ entry.version # handle[t].version
    /\ handle' = [handle EXCEPT ![t] = NoHandle]
    /\ UNCHANGED <<entry, now, nextVersion, phase, sem, overtaken, undercut>>

Tick ==
    /\ now < MaxTime
    /\ now' = now + 1
    /\ UNCHANGED <<entry, nextVersion, handle, phase, sem, overtaken, undercut>>

MemoryNext ==
    \/ Tick
    \/ \E t \in Tasks :
        \/ AcquireFree(t)
        \/ AcquireHeld(t)
        \/ RenewValidate(t)
        \/ RenewPermit(t)
        \/ RenewWrite(t)
        \/ RenewAbort(t)
        \/ \E d \in BOOLEAN : Release(t, d)
        \/ LockReleaseFails(t)

MemorySpec == MemoryInit /\ [][MemoryNext]_memoryVars
-----------------------------------------------------------------------------
Believes(t) == handle[t] # NoHandle /\ handle[t].expires > now

(***************************************************************************)
(* Tasks of two holders both have an unexpired Lock in hand only after a   *)
(* renew_lock wrote, without looking at the table again, over a lease that *)
(* another holder acquired after its checks; or when a task of the same    *)
(* holder_id released the lease of one of them, or renewed it for a        *)
(* shorter time.  Releases of one's own, releases that fail, old versions  *)
(* and aborted renewals do not lead there.                                 *)
(***************************************************************************)
OnlyOvertakingOverlaps ==
    overtaken \/ \A t, u \in Tasks \ undercut :
                    Believes(t) /\ Believes(u) => HolderOf[t] = HolderOf[u]

(***************************************************************************)
(* A live lease changes hands from one holder to another only by the       *)
(* blind write of a renewal: acquire_lock and release_lock never do it.    *)
(***************************************************************************)
OnlyRenewalSteals ==
    [][Live /\ Live' /\ entry'.holder # entry.holder =>
        \E t \in Tasks : phase[t] = "permit" /\ phase'[t] = "idle"
                         /\ entry'.holder = HolderOf[t]]_memoryVars

(***************************************************************************)
(* A version is a fencing token of one holder: no two holders keep the     *)
(* same one, and the version of the entry is known to nobody but its       *)
(* holder, even after a blind write.                                       *)
(***************************************************************************)
FencingToken ==
    \A t \in Tasks : handle[t] # NoHandle =>
        /\ \A u \in Tasks : handle[u] # NoHandle /\ handle[u].version = handle[t].version
                            => HolderOf[u] = HolderOf[t]
        /\ entry # NoEntry /\ entry.version = handle[t].version
                            => entry.holder = HolderOf[t]

\* What the manager has handed out it has generated, and no lease runs longer
\* than the longest that can be asked for.
Generated ==
    /\ entry # NoEntry => /\ entry.version < nextVersion /\ entry.sem < nextVersion
                          /\ \E lease \in Leases : entry.expires <= now + lease
    /\ \A t \in Tasks : handle[t] # NoHandle =>
          /\ handle[t].version < nextVersion
          /\ \E lease \in Leases : handle[t].expires <= now + lease
    /\ \A t \in Tasks : sem[t] <= nextVersion

\* Until a renewal is overtaken, a Lock that has not expired, and that no task of
\* its holder has undercut, is backed by a live entry of its holder that lasts at
\* least as long.
BackedByEntry ==
    overtaken \/ \A t \in Tasks \ undercut : Believes(t) =>
        Live /\ entry.holder = HolderOf[t] /\ handle[t].expires <= entry.expires

\* What acquire_lock(), renew_lock() and release_lock() leave at every step:
\* versions are fencing tokens, and only an overtaken renewal or a task of the
\* same holder makes two holders.
FencingInv ==
    MemoryTypeOK /\ Generated /\ FencingToken /\ BackedByEntry /\ OnlyOvertakingOverlaps

(***************************************************************************)
(* A renewal that passed its checks completes or is aborted: no permit is  *)
(* kept for ever (up to the bound on versions).                            *)
(***************************************************************************)
RenewalCompletes ==
    \A t \in Tasks :
        phase[t] = "validated" ~> phase[t] = "idle" \/ nextVersion = MaxVersion
=============================================================================
