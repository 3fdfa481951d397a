------------------------------ MODULE DdbLock ------------------------------
(***************************************************************************)
(* The DynamoDB lock manager (crates/locks/src/ddb.rs).  An operation      *)
(* reads the clock, gets the item, decides, and puts or deletes it under a *)
(* condition the service evaluates atomically: other clients and the clock *)
(* move between any two of these.  get_item asks for no consistent read:   *)
(* it may return the item as it was before the last write (a replica lags  *)
(* by at most one write here).                                             *)
(* A client runs one operation at a time; it may restart at any await.     *)
(***************************************************************************)
EXTENDS LockClients

CONSTANTS
    MaxOpTime,    \* bound on the clock of this manager
    MaxOpVersion, \* bound on the number of versions it generates
    NoOp          \* the client runs no operation

ASSUME OpBoundAssumption == MaxOpTime \in Nat /\ MaxOpVersion \in Nat

VARIABLES
    item,         \* the item of the key
    before,       \* the item before the last write
    ddbHandle,    \* ddbHandle[h]: the Lock last returned to h
    op            \* op[h]: the operation client h runs

ddbVars == <<item, before, now, nextVersion, ddbHandle, op>>

\* A Lock, and whether it was read from a replica that lagged behind.
DdbHandles == [version: Nat, expires: Nat, stale: BOOLEAN]
Kinds   == {"acquire", "renew", "release", "delete"}
Ops     == [kind: Kinds, at: Nat, version: Nat, phase: {"get", "put"},
            seen: Rows \union {NoRow}]

ASSUME DdbNullAssumption ==
    /\ NoRow \notin Rows
    /\ NoRow \notin Holders
    /\ NoHandle \notin DdbHandles
    /\ NoOp \notin Ops

DdbTypeOK ==
    /\ item \in Rows \union {NoRow}
    /\ before \in Rows \union {NoRow}
    /\ now \in Nat
    /\ nextVersion \in Nat
    /\ ddbHandle \in [Holders -> DdbHandles \union {NoHandle}]
    /\ op \in [Holders -> Ops \union {NoOp}]

DdbInit ==
    /\ item = NoRow
    /\ before = NoRow
    /\ now = 0
    /\ nextVersion = 0
    /\ ddbHandle = [h \in Holders |-> NoHandle]
    /\ op = [h \in Holders |-> NoOp]

-----------------------------------------------------------------------------
\* The item is a lease that an operation begun at time t must respect:
\* not (expires_dt < now || !locked).
LiveAt(r, t) == r # NoRow /\ r.expires >= t /\ r.locked

DdbHandleOf(r, lagged) == [version |-> r.version, expires |-> r.expires, stale |-> lagged]

\* The client takes the clock and sends get_item.  A release gives up the
\* lease whatever its outcome; acquire presents no version.
Begin(h, kind) ==
    /\ op[h] = NoOp
    /\ kind # "acquire" => ddbHandle[h] # NoHandle
    /\ op' = [op EXCEPT ![h] =
                [kind |-> kind, at |-> now, phase |-> "get", seen |-> NoRow,
                 version |-> IF ddbHandle[h] = NoHandle THEN 0 ELSE ddbHandle[h].version]]
    /\ ddbHandle' = IF kind \in {"release", "delete"}
                    THEN [ddbHandle EXCEPT ![h] = NoHandle] ELSE ddbHandle
    /\ UNCHANGED <<item, before, now, nextVersion>>

\* What get_item may return.
Readable == {item, before}

\* acquire_lock goes on to write: there is no item, or an expired or
\* unlocked one.
AcquireProceeds(h, r) == ~LiveAt(r, op[h].at)

\* Mutant: the holder of the item is not compared with the caller.
RenewProceedsForAny(h, r) == r # NoRow /\ r.expires >= op[h].at

\* renew_lock: the item is the caller's and has not expired; neither the
\* version the caller presents nor the locked flag is looked at.
RenewProceeds(h, r) == r # NoRow /\ r.holder = h /\ r.expires >= op[h].at

\* release_lock: version and holder match.
ReleaseProceeds(h, r) == r # NoRow /\ r.version = op[h].version /\ r.holder = h

Proceeds(h, r) ==
    CASE op[h].kind = "acquire" -> AcquireProceeds(h, r)
      [] op[h].kind = "renew"   -> RenewProceeds(h, r)
      [] OTHER                  -> ReleaseProceeds(h, r)

\* The operation o once it has decided on the item r.
Decided(o, r) ==
    [kind |-> o.kind, at |-> o.at, version |-> o.version, phase |-> "put", seen |-> r]

\* The item allows the operation to go on to its conditional write.
GetProceeds(h) ==
    /\ op[h] # NoOp /\ op[h].phase = "get"
    /\ \E r \in Readable :
        /\ Proceeds(h, r)
        /\ op' = [op EXCEPT ![h] = Decided(@, r)]
    /\ UNCHANGED <<item, before, now, nextVersion, ddbHandle>>

\* acquire_lock finds a live lease of the caller and returns it unwritten.
GetReturnsExisting(h) ==
    /\ op[h] # NoOp /\ op[h].phase = "get" /\ op[h].kind = "acquire"
    /\ \E r \in Readable :
        /\ ~AcquireProceeds(h, r)
        /\ r.holder = h
        /\ ddbHandle' = [ddbHandle EXCEPT ![h] = DdbHandleOf(r, r # item)]
    /\ op' = [op EXCEPT ![h] = NoOp]
    /\ UNCHANGED <<item, before, now, nextVersion>>

\* The item forbids the operation: LockAlreadyHeld, LockNotFound,
\* InvalidHolderId, LockExpired or VersionMismatch.
GetFails(h) ==
    /\ op[h] # NoOp /\ op[h].phase = "get"
    /\ \E r \in Readable :
        /\ ~Proceeds(h, r)
        /\ op[h].kind = "acquire" => r.holder # h
    /\ op' = [op EXCEPT ![h] = NoOp]
    /\ UNCHANGED <<item, before, now, nextVersion, ddbHandle>>

\* Mutant: an item that ends this very second counts as expired.
ConditionEarly(h) ==
    IF op[h].kind = "acquire"
    THEN IF op[h].seen = NoRow THEN item = NoRow
         ELSE item # NoRow /\ (item.expires <= op[h].at \/ ~item.locked)
    ELSE item # NoRow /\ item.version = op[h].seen.version

\* The condition expression of the write, evaluated on the item as it is.
Condition(h) ==
    IF op[h].kind = "acquire"
    THEN IF op[h].seen = NoRow THEN item = NoRow
         ELSE item # NoRow /\ (item.expires < op[h].at \/ ~item.locked)
    ELSE item # NoRow /\ item.version = op[h].seen.version

\* Mutant: put_item without its condition expression.
PutLeaseBlindly(h) ==
    /\ op[h] # NoOp /\ op[h].phase = "put"
    /\ op[h].kind \in {"acquire", "renew"}
    /\ nextVersion < MaxOpVersion
    /\ nextVersion' = nextVersion + 1
    /\ item' = [holder |-> h, version |-> nextVersion,
               expires |-> op[h].at + Lease[h], locked |-> TRUE]
    /\ before' = item
    /\ ddbHandle' = [ddbHandle EXCEPT ![h] = DdbHandleOf(item', FALSE)]
    /\ op' = [op EXCEPT ![h] = NoOp]
    /\ UNCHANGED now

\* put_item of a new lease; its answer may be lost.  The lease runs from the
\* time the operation began.
PutLease(h) ==
    /\ op[h] # NoOp /\ op[h].phase = "put"
    /\ op[h].kind \in {"acquire", "renew"}
    /\ Condition(h)
    /\ nextVersion < MaxOpVersion
    /\ nextVersion' = nextVersion + 1
    /\ item' = [holder |-> h, version |-> nextVersion,
               expires |-> op[h].at + Lease[h], locked |-> TRUE]
    /\ before' = item
    /\ \/ ddbHandle' = [ddbHandle EXCEPT ![h] = DdbHandleOf(item', FALSE)]
       \/ ddbHandle' = ddbHandle
    /\ op' = [op EXCEPT ![h] = NoOp]
    /\ UNCHANGED now

\* delete_item, or put_item of the item that was read with locked = false.
PutRelease(h) ==
    /\ op[h] # NoOp /\ op[h].phase = "put"
    /\ op[h].kind \in {"release", "delete"}
    /\ Condition(h)
    /\ item' = IF op[h].kind = "delete" THEN NoRow
              ELSE [op[h].seen EXCEPT !.locked = FALSE]
    /\ before' = item
    /\ op' = [op EXCEPT ![h] = NoOp]
    /\ UNCHANGED <<now, nextVersion, ddbHandle>>

\* ConditionalCheckFailedException.
PutFails(h) ==
    /\ op[h] # NoOp /\ op[h].phase = "put"
    /\ ~Condition(h)
    /\ op' = [op EXCEPT ![h] = NoOp]
    /\ UNCHANGED <<item, before, now, nextVersion, ddbHandle>>

\* The request fails, or the caller is aborted, with nothing written.
Abandon(h) ==
    /\ op[h] # NoOp
    /\ op' = [op EXCEPT ![h] = NoOp]
    /\ UNCHANGED <<item, before, now, nextVersion, ddbHandle>>

\* The client process restarts under the same holder_id.
DdbRestart(h) ==
    /\ ddbHandle[h] # NoHandle
    /\ ddbHandle' = [ddbHandle EXCEPT ![h] = NoHandle]
    /\ op' = [op EXCEPT ![h] = NoOp]
    /\ UNCHANGED <<item, before, now, nextVersion>>

\* The service removes the item when its ttl attribute (the expiry and a day)
\* has passed; here, any time after the expiry.
TtlDelete ==
    /\ item # NoRow /\ item.expires < now
    /\ item' = NoRow
    /\ before' = item
    /\ UNCHANGED <<now, nextVersion, ddbHandle, op>>

DdbTick ==
    /\ now < MaxOpTime
    /\ now' = now + 1
    /\ UNCHANGED <<item, before, nextVersion, ddbHandle, op>>

DdbNext ==
    \/ DdbTick
    \/ TtlDelete
    \/ \E h \in Holders :
        \/ \E k \in Kinds : Begin(h, k)
        \/ GetProceeds(h)
        \/ GetReturnsExisting(h)
        \/ GetFails(h)
        \/ PutLease(h)
        \/ PutRelease(h)
        \/ PutFails(h)
        \/ Abandon(h)
        \/ DdbRestart(h)

DdbSpec == DdbInit /\ [][DdbNext]_ddbVars
-----------------------------------------------------------------------------
\* The client has an unexpired Lock in hand, and not one that acquire_lock
\* read from a lagging replica.
Valid(h) == /\ ddbHandle[h] # NoHandle /\ ddbHandle[h].expires > now
            /\ ~ddbHandle[h].stale

DdbOwns(h) == LiveAt(item, now) /\ item.holder = h

(***************************************************************************)
(* Two holders have an unexpired Lock in hand only if acquire_lock took    *)
(* the Lock of one of them from a read that lagged: it returns a lease it  *)
(* has read and does not write.  Every other decision taken on an old item *)
(* is made up for by the condition of the write that follows.              *)
(***************************************************************************)
OnlyStaleReadOverlaps ==
    \A g, h \in Holders : Valid(g) /\ Valid(h) => g = h

(***************************************************************************)
(* The inductive form of it.  A lease in hand is backed by the live item;  *)
(* the item of a holder ends within the lease of the operation it is       *)
(* running, so that the write of that operation never shortens it.         *)
(***************************************************************************)
DdbHandleBacked ==
    \A h \in Holders : Valid(h) => DdbOwns(h) /\ ddbHandle[h].expires <= item.expires

DdbLeaseBounded ==
    item # NoRow =>
        /\ item.expires <= now + Lease[item.holder]
        /\ op[item.holder] # NoOp => item.expires <= op[item.holder].at + Lease[item.holder]

OpsInPast == \A h \in Holders : op[h] # NoOp => op[h].at <= now

ReleaseGaveUp ==
    \A h \in Holders : op[h] # NoOp /\ op[h].kind \in {"release", "delete"}
                       => ddbHandle[h] = NoHandle

SeenByOwner ==
    \A h \in Holders :
        op[h] # NoOp /\ op[h].phase = "put" /\ op[h].kind # "acquire" =>
            /\ op[h].seen # NoRow /\ op[h].seen.holder = h
            /\ op[h].seen.version < nextVersion

VersionsUsed ==
    /\ item # NoRow => item.version < nextVersion
    /\ \A h \in Holders :
        op[h] # NoOp /\ op[h].phase = "put" /\ op[h].kind # "acquire"
        /\ item # NoRow /\ item.version = op[h].seen.version =>
            item.holder = h /\ item.expires = op[h].seen.expires

\* A lagging replica never contradicts the item about a version they share.
LagConsistent ==
    before # NoRow =>
        /\ before.version < nextVersion
        /\ item # NoRow /\ item.version = before.version =>
              item.holder = before.holder /\ item.expires = before.expires

\* The state of acquire_lock(), renew_lock() and release_lock() at every await:
\* what the parts above say of handles, rows and operations under way.
DdbLeaseInv ==
    /\ DdbTypeOK
    /\ OnlyStaleReadOverlaps
    /\ DdbHandleBacked
    /\ DdbLeaseBounded
    /\ OpsInPast
    /\ ReleaseGaveUp
    /\ SeenByOwner
    /\ VersionsUsed
    /\ LagConsistent

-----------------------------------------------------------------------------
DdbNobody    == NoRow
DdbOwner     == IF LiveAt(item, now) THEN item.holder ELSE DdbNobody
DdbBelievers == {h \in Holders : Valid(h)}

DdbLeaseSpec == INSTANCE LeaseService WITH
    owner <- DdbOwner, believers <- DdbBelievers, Nobody <- DdbNobody

(***************************************************************************)
(* Stale Locks aside, the manager implements the abstract lease: the       *)
(* condition expressions make up for everything that happens between       *)
(* get_item and put_item.                                                  *)
(***************************************************************************)
DdbImplementsLease == DdbLeaseSpec!Spec
=============================================================================
