------------------------------ MODULE SqlLock ------------------------------
(***************************************************************************)
(* The SQLite lock manager (crates/locks/src/sql.rs) and the clients that  *)
(* hold its leases.  Every operation of the manager is one transaction on  *)
(* a pool of one connection, so it is one action.  Rows of different       *)
(* (tenant, namespace, lock_key) never meet in a query: one row is         *)
(* modelled.  ULIDs are compared for equality only; a counter stands for   *)
(* their freshness.                                                        *)
(***************************************************************************)
EXTENDS LockClients

VARIABLES
    row,          \* the row of table locks for the key
    handle        \* handle[h]: the Lock the manager last returned to h

vars == <<row, now, nextVersion, handle>>

Handles == [version: Nat, expires: Nat]

ASSUME NullAssumption ==
    /\ NoRow \notin Rows
    /\ NoRow \notin Holders
    /\ NoHandle \notin Handles

TypeOK ==
    /\ row \in Rows \union {NoRow}
    /\ now \in Nat
    /\ nextVersion \in Nat
    /\ handle \in [Holders -> Handles \union {NoHandle}]

Init ==
    /\ row = NoRow
    /\ now = 0
    /\ nextVersion = 0
    /\ handle = [h \in Holders |-> NoHandle]

-----------------------------------------------------------------------------
\* There is a row and not (expires_at_row <= now || locked_flag == 0).
Live == row # NoRow /\ row.expires > now /\ row.locked

\* The Lock a client keeps of a row (lock_from_row).
HandleOf(r) == [version |-> r.version, expires |-> r.expires]

\* The response reaches the client, or is lost on the way.
Respond(h, r) ==
    \/ handle' = [handle EXCEPT ![h] = HandleOf(r)]
    \/ handle' = handle

\* INSERT, or UPDATE ... SET holder_id, version, expires_at, locked = 1.
WriteLease(h) ==
    /\ nextVersion < MaxVersion
    /\ nextVersion' = nextVersion + 1
    /\ row' = [holder |-> h, version |-> nextVersion,
               expires |-> now + Lease[h], locked |-> TRUE]
    /\ Respond(h, row')
    /\ UNCHANGED now

-----------------------------------------------------------------------------
\* Mutant: the lease is taken for expired one second too early.
AcquireFreeEarly(h) ==
    /\ row # NoRow => row.expires <= now + 1 \/ ~row.locked
    /\ WriteLease(h)

\* No row, or an expired or unlocked one: the caller gets a new version.
AcquireFree(h) ==
    /\ ~Live
    /\ WriteLease(h)

\* A live row of the same holder is returned as it is.
AcquireHeld(h) ==
    /\ Live /\ row.holder = h
    /\ Respond(h, row)
    /\ UNCHANGED <<row, now, nextVersion>>

\* Mutant: the holder of the row is not compared with the caller.
RenewAnyHolder(h) ==
    /\ handle[h] # NoHandle
    /\ Live
    /\ WriteLease(h)

\* The version the caller presents is not looked at.
Renew(h) ==
    /\ handle[h] # NoHandle
    /\ Live /\ row.holder = h
    /\ WriteLease(h)

\* Mutant: release_lock without its version check.
ReleaseAnyVersion(h, deleteLock) ==
    /\ handle[h] # NoHandle
    /\ handle' = [handle EXCEPT ![h] = NoHandle]
    /\ row' = IF row # NoRow /\ row.holder = h
              THEN IF deleteLock THEN NoRow ELSE [row EXCEPT !.locked = FALSE]
              ELSE row
    /\ UNCHANGED <<now, nextVersion>>

\* Expiry is not looked at, the version is.  The caller gives up its lease
\* whether or not the manager accepts the release.
Release(h, deleteLock) ==
    /\ handle[h] # NoHandle
    /\ handle' = [handle EXCEPT ![h] = NoHandle]
    /\ row' = IF row # NoRow /\ row.holder = h /\ row.version = handle[h].version
              THEN IF deleteLock THEN NoRow ELSE [row EXCEPT !.locked = FALSE]
              ELSE row
    /\ UNCHANGED <<now, nextVersion>>

\* A client process restarts under the same holder_id.
Restart(h) ==
    /\ handle[h] # NoHandle
    /\ handle' = [handle EXCEPT ![h] = NoHandle]
    /\ UNCHANGED <<row, now, nextVersion>>

Tick ==
    /\ now < MaxTime
    /\ now' = now + 1
    /\ UNCHANGED <<row, nextVersion, handle>>

Next ==
    \/ Tick
    \/ \E h \in Holders :
        \/ AcquireFree(h)
        \/ AcquireHeld(h)
        \/ Renew(h)
        \/ Restart(h)
        \/ \E d \in BOOLEAN : Release(h, d)

Spec == Init /\ [][Next]_vars
-----------------------------------------------------------------------------
\* Client h has in hand a Lock that has not expired.
Believes(h) == handle[h] # NoHandle /\ handle[h].expires > now

\* The row is a live lease of h.
Owns(h) == Live /\ row.holder = h

(***************************************************************************)
(* Two holders never both have an unexpired Lock in hand, whatever answers *)
(* were lost and whichever clients restarted (acquire_lock, renew_lock,    *)
(* release_lock of sql.rs).                                                *)
(***************************************************************************)
MutualExclusion == \A g, h \in Holders : Believes(g) /\ Believes(h) => g = h

(***************************************************************************)
(* The inductive form of it: an unexpired Lock in hand is backed by the    *)
(* live row of the same holder, which does not end before it, and no row   *)
(* outlives the lease its holder asks for.                                 *)
(***************************************************************************)
LeaseBounded == row # NoRow => row.expires <= now + Lease[row.holder]

HandleBacked ==
    \A h \in Holders : Believes(h) => Owns(h) /\ handle[h].expires <= row.expires

LeaseInv == TypeOK /\ LeaseBounded /\ HandleBacked

(***************************************************************************)
(* A release frees a live lease only with the version of that very lease:  *)
(* a Lock from before a renewal or an earlier acquisition cannot           *)
(* (the version check of release_lock).                                    *)
(***************************************************************************)
StaleReleaseHarmless ==
    [][\A h \in Holders :
        Owns(h) /\ now' = now /\ ~Owns(h)' =>
            handle[h] # NoHandle /\ handle[h].version = row.version]_vars

(***************************************************************************)
(* The refinement mapping: the owner is the holder of the live row, the    *)
(* believers the clients with an unexpired Lock.                           *)
(***************************************************************************)
Nobody    == NoRow
Owner     == IF Live THEN row.holder ELSE Nobody
Believers == {h \in Holders : Believes(h)}

LeaseSpec == INSTANCE LeaseService WITH
              owner <- Owner, believers <- Believers, Nobody <- Nobody

(***************************************************************************)
(* The SQLite manager implements the abstract lease: no transaction, lost  *)
(* answer, restart or passing of time hands a live lease from one holder   *)
(* to another.                                                             *)
(***************************************************************************)
ImplementsLease == LeaseSpec!Spec
=============================================================================
