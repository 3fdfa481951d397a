---------------------------- MODULE LocksProofs ----------------------------
(***************************************************************************)
(* Proofs about the lock managers that keep their leases outside the       *)
(* process, and about the manager that the factory chooses, for every set  *)
(* of holders, every assignment of lease durations and every bound.        *)
(***************************************************************************)
EXTENDS Locks, TLAPS

-----------------------------------------------------------------------------
(* SQL: an operation is a transaction.                                     *)

USE LeaseAssumption, BoundAssumption, NullAssumption

(***************************************************************************)
(* Every operation of the manager and every client step keeps the          *)
(* variables in their types.                                               *)
(***************************************************************************)
LEMMA TypeStep == TypeOK /\ [Next]_vars => TypeOK'
<1> SUFFICES ASSUME TypeOK, [Next]_vars PROVE TypeOK'
    OBVIOUS
<1> USE DEF TypeOK, Rows, Handles
<1>1. ASSUME NEW h \in Holders, WriteLease(h) PROVE TypeOK'
    BY <1>1 DEF WriteLease, Respond, HandleOf
<1>2. CASE Tick
    BY <1>2 DEF Tick
<1>3. ASSUME NEW h \in Holders, AcquireFree(h) PROVE TypeOK'
    BY <1>1, <1>3 DEF AcquireFree
<1>4. ASSUME NEW h \in Holders, AcquireHeld(h) PROVE TypeOK'
    BY <1>4 DEF AcquireHeld, Respond, HandleOf, Live
<1>5. ASSUME NEW h \in Holders, Renew(h) PROVE TypeOK'
    BY <1>1, <1>5 DEF Renew
<1>6. ASSUME NEW h \in Holders, Restart(h) PROVE TypeOK'
    BY <1>6 DEF Restart
<1>7. ASSUME NEW h \in Holders, NEW d \in BOOLEAN, Release(h, d) PROVE TypeOK'
    BY <1>7 DEF Release
<1>8. CASE UNCHANGED vars
    BY <1>8 DEF vars
<1> QED BY <1>2, <1>3, <1>4, <1>5, <1>6, <1>7, <1>8 DEF Next

(***************************************************************************)
(* The row a grant or a renewal writes: a lease of h of exactly Lease[h],  *)
(* of which h may or may not learn (the INSERT and the two UPDATEs).       *)
(***************************************************************************)
LEMMA WriteLeaseInv ==
    ASSUME LeaseInv, NEW h \in Holders, WriteLease(h), TypeOK',
           Live => row.holder = h
    PROVE  LeaseInv'
<1> USE DEF TypeOK, Rows, Handles
<1>1. /\ row' = [holder |-> h, version |-> nextVersion,
                 expires |-> now + Lease[h], locked |-> TRUE]
      /\ now' = now
      /\ row' # NoRow
    <2>1. nextVersion \in Nat /\ now + Lease[h] \in Nat
        BY DEF LeaseInv
    <2>2. [holder |-> h, version |-> nextVersion,
           expires |-> now + Lease[h], locked |-> TRUE] \in Rows
        BY <2>1
    <2> QED BY <2>2 DEF WriteLease
<1>2. LeaseBounded'
    BY <1>1 DEF LeaseBounded
<1>3. ASSUME NEW g \in Holders, Believes(g)'
      PROVE  Owns(g)' /\ handle'[g].expires <= row'.expires
    <2>1. CASE handle' = [handle EXCEPT ![h] = HandleOf(row')] /\ g = h
        BY <1>1, <1>3, <2>1 DEF Believes, Owns, Live, HandleOf
    <2>2. CASE handle'[g] = handle[g]
        <3>1. Believes(g)
            BY <1>1, <1>3, <2>2 DEF Believes
        <3>2. Owns(g) /\ handle[g].expires <= row.expires
            BY <3>1 DEF LeaseInv, HandleBacked
        <3>3. g = h /\ row.expires <= now + Lease[h] /\ row \in Rows
            BY <3>2 DEF Owns, Live, LeaseInv, LeaseBounded
        <3>4. handle[g] \in Handles
            BY <3>1 DEF Believes, LeaseInv
        <3> QED BY <1>1, <1>3, <2>2, <3>2, <3>3, <3>4 DEF Believes, Owns, Live, LeaseInv
    <2> QED BY <2>1, <2>2 DEF WriteLease, Respond, LeaseInv
<1> QED BY <1>2, <1>3 DEF LeaseInv, HandleBacked

(***************************************************************************)
(* No step of the manager, of a client or of the clock leaves a client     *)
(* with an unexpired Lock the table does not back.                         *)
(***************************************************************************)
LEMMA LeaseStep == LeaseInv /\ [Next]_vars => LeaseInv'
<1> SUFFICES ASSUME LeaseInv, [Next]_vars PROVE LeaseInv'
    OBVIOUS
<1>0. TypeOK /\ TypeOK'
    BY TypeStep DEF LeaseInv
<1> USE DEF TypeOK, Rows, Handles
<1>1. CASE Tick
    BY <1>0, <1>1 DEF Tick, LeaseInv, LeaseBounded, HandleBacked, Believes, Owns, Live
<1>2. ASSUME NEW h \in Holders, AcquireFree(h) PROVE LeaseInv'
    BY <1>0, <1>2, WriteLeaseInv DEF AcquireFree
<1>3. ASSUME NEW h \in Holders, AcquireHeld(h) PROVE LeaseInv'
    <2>1. row' = row /\ now' = now /\ Live /\ row.holder = h
        BY <1>3 DEF AcquireHeld
    <2>2. LeaseBounded'
        BY <2>1 DEF LeaseInv, LeaseBounded
    <2>3. ASSUME NEW g \in Holders, Believes(g)'
          PROVE  Owns(g)' /\ handle'[g].expires <= row'.expires
        <3>1. CASE handle' = [handle EXCEPT ![h] = HandleOf(row)] /\ g = h
            BY <1>0, <2>1, <3>1 DEF Owns, Live, HandleOf
        <3>2. CASE handle'[g] = handle[g]
            BY <2>1, <2>3, <3>2 DEF LeaseInv, HandleBacked, Believes, Owns, Live
        <3> QED BY <1>0, <1>3, <3>1, <3>2 DEF AcquireHeld, Respond
    <2> QED BY <1>0, <2>2, <2>3 DEF LeaseInv, HandleBacked
<1>4. ASSUME NEW h \in Holders, Renew(h) PROVE LeaseInv'
    BY <1>0, <1>4, WriteLeaseInv DEF Renew
<1>5. ASSUME NEW h \in Holders, Restart(h) PROVE LeaseInv'
    BY <1>0, <1>5 DEF Restart, LeaseInv, LeaseBounded, HandleBacked, Believes, Owns, Live
<1>6. ASSUME NEW h \in Holders, NEW d \in BOOLEAN, Release(h, d) PROVE LeaseInv'
    <2>1. now' = now /\ handle' = [handle EXCEPT ![h] = NoHandle]
        BY <1>6 DEF Release
    <2>2. row' = NoRow \/ row' = row
          \/ (row # NoRow /\ row' = [row EXCEPT !.locked = FALSE])
        BY <1>6 DEF Release
    <2>3. LeaseBounded'
        BY <1>0, <2>1, <2>2 DEF LeaseInv, LeaseBounded
    <2>4. ASSUME NEW g \in Holders, Believes(g)'
          PROVE  Owns(g)' /\ handle'[g].expires <= row'.expires
        <3>1. g # h /\ handle'[g] = handle[g] /\ Believes(g)
            BY <1>0, <2>1, <2>4 DEF Believes
        <3>2. Owns(g) /\ handle[g].expires <= row.expires
            BY <3>1 DEF LeaseInv, HandleBacked
        <3>3. row' = row
            BY <1>6, <3>1, <3>2 DEF Release, Owns
        <3> QED BY <2>1, <3>1, <3>2, <3>3 DEF Owns, Live
    <2> QED BY <1>0, <2>3, <2>4 DEF LeaseInv, HandleBacked
<1>7. CASE UNCHANGED vars
    BY <1>0, <1>7 DEF vars, LeaseInv, LeaseBounded, HandleBacked, Believes, Owns, Live
<1> QED BY <1>1, <1>2, <1>3, <1>4, <1>5, <1>6, <1>7 DEF Next

(***************************************************************************)
(* The empty table and the clients without a Lock satisfy the invariant.   *)
(***************************************************************************)
LEMMA LeaseInit == Init => LeaseInv
BY DEF Init, LeaseInv, TypeOK, LeaseBounded, HandleBacked, Believes

(***************************************************************************)
(* The variables keep their types in every behaviour of the manager.       *)
(***************************************************************************)
THEOREM TypeCorrect == Spec => []TypeOK
<1>1. LeaseInv => TypeOK
    BY DEF LeaseInv
<1> QED BY LeaseInit, LeaseStep, <1>1, PTL DEF Spec

(***************************************************************************)
(* For any number of clients, two holders never both have an unexpired     *)
(* Lock in hand: acquire_lock, renew_lock and release_lock of sql.rs give  *)
(* mutual exclusion whatever answers are lost and whoever restarts.        *)
(***************************************************************************)
THEOREM MutualExclusionHolds == Spec => []MutualExclusion
<1>1. LeaseInv => MutualExclusion
    BY DEF LeaseInv, HandleBacked, MutualExclusion, Owns
<1> QED BY LeaseInit, LeaseStep, <1>1, PTL DEF Spec
(***************************************************************************)
(* A release frees a live lease only with the version of that very lease   *)
(* (the version check of release_lock); a renewal never shortens a lease   *)
(* to nothing.                                                             *)
(***************************************************************************)
THEOREM StaleReleaseHarmlessHolds == Spec => StaleReleaseHarmless
<1>1. ASSUME LeaseInv, [Next]_vars, NEW h \in Holders,
             Owns(h), now' = now, ~Owns(h)'
      PROVE  handle[h] # NoHandle /\ handle[h].version = row.version
    <2> USE DEF TypeOK, Rows, Handles
    <2>0. TypeOK /\ row # NoRow /\ row.holder = h /\ Live
        BY <1>1 DEF LeaseInv, Owns, Live
    <2>1. row' # row
        BY <1>1 DEF Owns, Live
    <2>2. ASSUME NEW g \in Holders, Renew(g) PROVE FALSE
        <3>1. g = h /\ Lease[h] > 0
            BY <1>1, <2>0, <2>2 DEF Renew, LeaseInv, LeaseBounded, Live
        <3>2. row' = [holder |-> h, version |-> nextVersion,
                      expires |-> now + Lease[h], locked |-> TRUE]
            BY <2>2, <3>1 DEF Renew, WriteLease
        <3>3. row' \in Rows
            BY <2>0, <3>2
        <3>4. row' # NoRow /\ row'.holder = h /\ row'.locked
            BY <3>2, <3>3
        <3>5. row'.expires > now'
            BY <1>1, <2>0, <3>1, <3>2
        <3> QED BY <1>1, <3>4, <3>5, Zenon DEF Owns, Live
    <2>3. ASSUME NEW g \in Holders, NEW d \in BOOLEAN, Release(g, d)
          PROVE  handle[h] # NoHandle /\ handle[h].version = row.version
        BY <2>0, <2>1, <2>3 DEF Release
    <2> QED BY <1>1, <2>0, <2>1, <2>2, <2>3
            DEF Next, vars, Tick, AcquireFree, AcquireHeld, Restart
<1>2. LeaseInv /\ [Next]_vars =>
        [\A h \in Holders :
            Owns(h) /\ now' = now /\ ~Owns(h)' =>
                handle[h] # NoHandle /\ handle[h].version = row.version]_vars
    BY <1>1
<1> QED BY LeaseInit, LeaseStep, <1>2, PTL DEF Spec, StaleReleaseHarmless

\* The owner and the believers of the abstract lease.
BelieverIsOwner ==
    /\ Believers \in {{}, {Owner}}
    /\ Owner \in Holders \union {Nobody}
    /\ Owner = Nobody => Believers = {}

(***************************************************************************)
(* Whoever believes it holds the lease is the owner of the live row.       *)
(***************************************************************************)
LEMMA BelieversAre == LeaseInv => BelieverIsOwner
<1> SUFFICES ASSUME LeaseInv PROVE BelieverIsOwner
    OBVIOUS
<1> USE DEF LeaseInv, TypeOK, Rows
<1>1. Live => Owner = row.holder /\ row.holder \in Holders
    BY DEF Owner, Live
<1>2. ~Live => Owner = Nobody
    BY DEF Owner
<1>3. Nobody \notin Holders
    BY DEF Nobody
<1>4. \A h \in Holders : Believes(h) => Live /\ h = row.holder
    BY DEF HandleBacked, Owns
<1> QED BY <1>1, <1>2, <1>3, <1>4 DEF Believers, BelieverIsOwner

(***************************************************************************)
(* Every step of the manager, of a client or of the clock is a step of the *)
(* abstract lease service or leaves it alone.                              *)
(***************************************************************************)
LEMMA SqlSimulates ==
    LeaseInv /\ LeaseInv' /\ [Next]_vars => [LeaseSpec!Next]_<<Owner, Believers>>
<1> SUFFICES ASSUME LeaseInv, LeaseInv', [Next]_vars
             PROVE  [LeaseSpec!Next]_<<Owner, Believers>>
    OBVIOUS
<1>1. BelieverIsOwner /\ BelieverIsOwner'
    BY BelieversAre, PTL
<1>2. Owner' = Owner \/ Owner = Nobody \/ Owner' = Nobody
    <2> USE DEF LeaseInv, TypeOK, Rows
    <2>1. CASE ~Live
        BY <2>1 DEF Owner
    <2>2. CASE ~Live'
        BY <2>2 DEF Owner, Nobody
    <2>3. CASE Live /\ Live'
        <3>1. row'.holder = row.holder
            BY <2>3 DEF Next, vars, Tick, AcquireFree, AcquireHeld, Restart,
                        Renew, WriteLease, Release, Live
        <3> QED BY <2>3, <3>1 DEF Owner
    <2> QED BY <2>1, <2>2, <2>3
<1> QED BY <1>1, <1>2
        DEF BelieverIsOwner, LeaseSpec!Next, LeaseSpec!Grant, LeaseSpec!Confirm, LeaseSpec!Fade,
            LeaseSpec!Vacate

(***************************************************************************)
(* The SQLite manager implements the abstract lease service.               *)
(***************************************************************************)
THEOREM LeaseRefinement == Spec => ImplementsLease
<1>1. Init => LeaseSpec!Init
    BY DEF Init, LeaseSpec!Init, Owner, Believers, Believes, Live, Nobody
<1> QED BY LeaseInit, LeaseStep, <1>1, SqlSimulates, PTL DEF Spec, ImplementsLease, LeaseSpec!Spec

-----------------------------------------------------------------------------
(* DynamoDB: what is between get_item and the conditional write.           *)

(***************************************************************************)
(* Every await of an operation, the clock and the service keep the         *)
(* variables in their types.                                               *)
(***************************************************************************)
LEMMA DdbTypeStep == DdbTypeOK /\ SeenByOwner /\ [DdbNext]_ddbVars => DdbTypeOK'
<1> SUFFICES ASSUME DdbTypeOK, SeenByOwner, [DdbNext]_ddbVars PROVE DdbTypeOK'
    OBVIOUS
<1> USE LeaseAssumption, OpBoundAssumption, DdbNullAssumption
    DEF DdbTypeOK, Rows, DdbHandles, Ops, Kinds
<1>1. CASE DdbTick
    BY <1>1 DEF DdbTick
<1>2. CASE TtlDelete
    BY <1>2 DEF TtlDelete
<1>3. ASSUME NEW h \in Holders, NEW k \in Kinds, Begin(h, k) PROVE DdbTypeOK'
    BY <1>3 DEF Begin
<1>4. ASSUME NEW h \in Holders, GetProceeds(h) PROVE DdbTypeOK'
    <2>1. PICK r \in Readable : op' = [op EXCEPT ![h] = Decided(op[h], r)]
        BY <1>4 DEF GetProceeds
    <2>2. op[h] \in Ops /\ r \in Rows \union {NoRow}
        BY <1>4 DEF GetProceeds, Readable
    <2> QED BY <1>4, <2>1, <2>2 DEF GetProceeds, Decided
<1>5. ASSUME NEW h \in Holders, GetReturnsExisting(h) PROVE DdbTypeOK'
    BY <1>5 DEF GetReturnsExisting, Readable, AcquireProceeds, LiveAt, DdbHandleOf
<1>6. ASSUME NEW h \in Holders, PutLease(h) PROVE DdbTypeOK'
    <2>1. op[h] \in Ops
        BY <1>6 DEF PutLease
    <2>2. op[h].at + Lease[h] \in Nat
        BY <2>1
    <2>3. item' \in Rows
        BY <1>6, <2>2 DEF PutLease
    <2>4. DdbHandleOf(item', FALSE) \in DdbHandles
        BY <2>3 DEF DdbHandleOf
    <2>5. ddbHandle' \in [Holders -> DdbHandles \union {NoHandle}]
        BY <1>6, <2>4 DEF PutLease
    <2>6. /\ before' = item /\ now' = now /\ nextVersion' = nextVersion + 1
          /\ op' = [op EXCEPT ![h] = NoOp]
        BY <1>6 DEF PutLease
    <2> QED BY <2>3, <2>5, <2>6
<1>7. ASSUME NEW h \in Holders, PutRelease(h) PROVE DdbTypeOK'
    <2>1. op[h].seen \in Rows
        BY <1>7 DEF PutRelease, SeenByOwner
    <2>2. item' \in Rows \union {NoRow}
        BY <1>7, <2>1 DEF PutRelease
    <2> QED BY <1>7, <2>2 DEF PutRelease
<1>8. ASSUME NEW h \in Holders, GetFails(h) \/ PutFails(h) \/ Abandon(h) \/ DdbRestart(h)
      PROVE  DdbTypeOK'
    BY <1>8 DEF GetFails, PutFails, Abandon, DdbRestart
<1>9. CASE UNCHANGED ddbVars
    BY <1>9 DEF ddbVars
<1> QED BY <1>1, <1>2, <1>3, <1>4, <1>5, <1>6, <1>7, <1>8, <1>9 DEF DdbNext

(***************************************************************************)
(* put_item of a lease by acquire_lock or renew_lock: whoever had a Lock   *)
(* in hand when the condition held is the caller itself, and the new lease *)
(* does not end before it.                                                 *)
(***************************************************************************)
LEMMA PutLeaseStep ==
    ASSUME DdbLeaseInv, NEW h \in Holders, PutLease(h), DdbTypeOK' PROVE DdbLeaseInv'
<1> USE LeaseAssumption, DdbNullAssumption
<1>0. DdbTypeOK
    BY DEF DdbLeaseInv
<1>1. op[h] \in Ops /\ op[h].at \in Nat /\ op[h].at <= now /\ now \in Nat
      /\ nextVersion \in Nat /\ Lease[h] \in Nat
    BY <1>0 DEF PutLease, DdbLeaseInv, OpsInPast, DdbTypeOK, Ops
<1>2. /\ item' = [holder |-> h, version |-> nextVersion,
                 expires |-> op[h].at + Lease[h], locked |-> TRUE]
      /\ before' = item /\ now' = now /\ nextVersion' = nextVersion + 1
      /\ op' = [op EXCEPT ![h] = NoOp]
    BY DEF PutLease
<1>3. item' \in Rows /\ item' # NoRow
    <2>1. op[h].at + Lease[h] \in Nat
        BY <1>1
    <2>2. item' \in Rows
        BY <1>1, <1>2, <2>1 DEF Rows
    <2> QED BY <2>2
<1>4. /\ item'.holder = h /\ item'.version = nextVersion
      /\ item'.expires = op[h].at + Lease[h] /\ item'.locked
    BY <1>2
<1>5. ASSUME NEW g \in Holders, Valid(g)
      PROVE  g = h /\ item.expires <= item'.expires
    <2>1. /\ LiveAt(item, now) /\ item.holder = g /\ item # NoRow /\ item.expires >= now
          /\ item.locked /\ item \in Rows
        BY <1>0, <1>5 DEF DdbLeaseInv, DdbHandleBacked, DdbOwns, LiveAt, DdbTypeOK
    <2>2. item.expires \in Nat
        BY <2>1 DEF Rows
    <2>3. op[h].kind # "acquire"
        BY <1>1, <2>1, <2>2 DEF PutLease, Condition
    <2>4. item.holder = h
        BY <2>1, <2>3 DEF PutLease, Condition, DdbLeaseInv, VersionsUsed
    <2> QED BY <1>4, <2>1, <2>4 DEF DdbLeaseInv, DdbLeaseBounded, PutLease
<1>6. DdbHandleBacked'
    <2> SUFFICES ASSUME NEW g \in Holders, Valid(g)'
                 PROVE  DdbOwns(g)' /\ ddbHandle'[g].expires <= item'.expires
        BY DEF DdbHandleBacked
    <2>1. ddbHandle'[g] \in DdbHandles /\ ddbHandle'[g].expires > now
        BY <1>2 DEF DdbTypeOK, Valid
    <2>2. ddbHandle'[g].expires \in Nat /\ item'.expires \in Nat
        BY <1>3, <2>1 DEF DdbHandles, Rows
    <2>3. CASE ddbHandle' = [ddbHandle EXCEPT ![h] = DdbHandleOf(item', FALSE)] /\ g = h
        <3>1. ddbHandle'[g].expires = item'.expires
            BY <1>0, <2>3 DEF DdbHandleOf, DdbTypeOK
        <3>2. item'.expires >= now /\ ddbHandle'[g].expires <= item'.expires
            BY <1>1, <2>1, <2>2, <3>1
        <3> QED BY <1>2, <1>3, <1>4, <2>3, <3>2 DEF DdbOwns, LiveAt
    <2>4. CASE ddbHandle'[g] = ddbHandle[g]
        <3>1. Valid(g)
            BY <1>2, <2>4 DEF Valid
        <3>2. g = h /\ item.expires <= item'.expires /\ ddbHandle[g].expires <= item.expires
              /\ item \in Rows
            BY <1>0, <1>5, <3>1 DEF DdbLeaseInv, DdbHandleBacked, DdbOwns, LiveAt, DdbTypeOK
        <3>3. item.expires \in Nat
            BY <3>2 DEF Rows
        <3>4. ddbHandle'[g].expires <= item'.expires /\ item'.expires >= now
            BY <1>1, <2>1, <2>2, <2>4, <3>2, <3>3
        <3> QED BY <1>2, <1>3, <1>4, <3>2, <3>4 DEF DdbOwns, LiveAt
    <2> QED BY <1>0, <2>3, <2>4 DEF PutLease, DdbTypeOK
<1>7. OnlyStaleReadOverlaps'
    BY <1>6 DEF OnlyStaleReadOverlaps, DdbHandleBacked, DdbOwns
<1>8. DdbLeaseBounded'
    BY <1>0, <1>1, <1>2, <1>4 DEF DdbLeaseBounded, DdbTypeOK
<1>9. OpsInPast' /\ ReleaseGaveUp'
    BY <1>0, <1>2 DEF OpsInPast, ReleaseGaveUp, DdbLeaseInv, DdbTypeOK, PutLease
<1>10. SeenByOwner'
    <2> SUFFICES ASSUME NEW g \in Holders, op'[g] # NoOp, op'[g].phase = "put",
                        op'[g].kind # "acquire"
                 PROVE  /\ op'[g].seen # NoRow /\ op'[g].seen.holder = g
                        /\ op'[g].seen.version < nextVersion'
        BY DEF SeenByOwner
    <2>1. op'[g] = op[g]
        BY <1>0, <1>2 DEF DdbTypeOK
    <2>2. op[g].seen # NoRow /\ op[g].seen.holder = g /\ op[g].seen.version < nextVersion
        BY <2>1 DEF DdbLeaseInv, SeenByOwner
    <2>3. op[g].seen.version \in Nat
        BY <1>0, <2>1, <2>2 DEF DdbTypeOK, Ops, Rows
    <2> QED BY <1>1, <1>2, <2>1, <2>2, <2>3
<1>11. VersionsUsed'
    <2> SUFFICES ASSUME NEW g \in Holders, op'[g] # NoOp, op'[g].phase = "put",
                        op'[g].kind # "acquire", item'.version = op'[g].seen.version
                 PROVE  FALSE
        BY <1>1, <1>2, <1>4 DEF VersionsUsed
    <2>1. op'[g] = op[g]
        BY <1>0, <1>2 DEF DdbTypeOK
    <2>2. op[g].seen # NoRow /\ op[g].seen.version < nextVersion
        BY <2>1 DEF DdbLeaseInv, SeenByOwner
    <2>3. op[g].seen.version = nextVersion
        BY <1>4, <2>1
    <2> QED BY <1>1, <2>2, <2>3
<1>12. LagConsistent'
    <2> SUFFICES ASSUME item # NoRow
                 PROVE  item.version < nextVersion + 1 /\ nextVersion # item.version
        BY <1>2, <1>4 DEF LagConsistent
    <2>1. item.version < nextVersion /\ item.version \in Nat
        BY <1>0 DEF DdbLeaseInv, VersionsUsed, DdbTypeOK, Rows
    <2> QED BY <1>1, <2>1
<1> QED BY <1>6, <1>7, <1>8, <1>9, <1>10, <1>11, <1>12 DEF DdbLeaseInv

(***************************************************************************)
(* release_lock: whoever runs it gave its Lock up before, so that nobody   *)
(* has the lease in hand that the conditional write takes away.            *)
(***************************************************************************)
LEMMA PutReleaseStep ==
    ASSUME DdbLeaseInv, NEW h \in Holders, PutRelease(h), DdbTypeOK' PROVE DdbLeaseInv'
<1> USE LeaseAssumption, DdbNullAssumption
<1>0. DdbTypeOK
    BY DEF DdbLeaseInv
<1>1. /\ op[h] # NoOp /\ op[h].phase = "put" /\ op[h].kind \in {"release", "delete"}
      /\ item # NoRow /\ item.version = op[h].seen.version
      /\ before' = item /\ now' = now /\ nextVersion' = nextVersion
      /\ ddbHandle' = ddbHandle /\ op' = [op EXCEPT ![h] = NoOp]
    BY DEF PutRelease, Condition
<1>2. /\ op[h].seen # NoRow /\ op[h].seen.holder = h
      /\ item.holder = h /\ item.expires = op[h].seen.expires
      /\ op[h].seen \in Rows
    BY <1>0, <1>1 DEF DdbLeaseInv, SeenByOwner, VersionsUsed, DdbTypeOK, Ops
<1>3. item' # NoRow => /\ item'.holder = item.holder /\ item'.version = item.version
                       /\ item'.expires = item.expires
    BY <1>1, <1>2 DEF PutRelease, Rows
<1>4. \A g \in Holders : ~Valid(g)
    BY <1>1, <1>2 DEF DdbLeaseInv, DdbHandleBacked, DdbOwns, ReleaseGaveUp, Valid
<1>5. DdbHandleBacked' /\ OnlyStaleReadOverlaps'
    BY <1>1, <1>4 DEF DdbHandleBacked, OnlyStaleReadOverlaps, Valid
<1>6. \A g \in Holders : op'[g] = op[g] \/ op'[g] = NoOp
    BY <1>0, <1>1 DEF DdbTypeOK
<1>7. op'[h] = NoOp
    BY <1>0, <1>1 DEF DdbTypeOK
<1>8. DdbLeaseBounded'
    BY <1>1, <1>2, <1>3, <1>7 DEF DdbLeaseInv, DdbLeaseBounded
<1>9. OpsInPast' /\ ReleaseGaveUp' /\ SeenByOwner'
    BY <1>1, <1>6 DEF DdbLeaseInv, OpsInPast, ReleaseGaveUp, SeenByOwner
<1>10. VersionsUsed'
    BY <1>1, <1>3, <1>6 DEF DdbLeaseInv, VersionsUsed
<1>11. LagConsistent'
    BY <1>1, <1>3 DEF DdbLeaseInv, VersionsUsed, LagConsistent
<1> QED BY <1>5, <1>8, <1>9, <1>10, <1>11 DEF DdbLeaseInv

(***************************************************************************)
(* Steps that write no item and hand out no Lock: an operation begins,     *)
(* goes on, fails or is given up, or its client restarts.                  *)
(***************************************************************************)
LEMMA QuietStep ==
    ASSUME DdbLeaseInv, DdbTypeOK', UNCHANGED <<item, before, now, nextVersion>>,
           \A g \in Holders : ddbHandle'[g] = ddbHandle[g] \/ ddbHandle'[g] = NoHandle
    PROVE  DdbHandleBacked' /\ OnlyStaleReadOverlaps' /\ LagConsistent'
<1>1. \A g \in Holders : Valid(g)' => Valid(g) /\ ddbHandle'[g] = ddbHandle[g]
    BY DEF Valid
<1>2. DdbHandleBacked'
    BY <1>1 DEF DdbLeaseInv, DdbHandleBacked, DdbOwns, LiveAt
<1>3. OnlyStaleReadOverlaps'
    BY <1>1 DEF DdbLeaseInv, OnlyStaleReadOverlaps
<1>4. LagConsistent'
    BY DEF DdbLeaseInv, LagConsistent
<1> QED BY <1>2, <1>3, <1>4

(***************************************************************************)
(* The same steps keep what is known of the operations, when each of them  *)
(* goes on as it was or ends.                                              *)
(***************************************************************************)
LEMMA OpsEndStep ==
    ASSUME DdbLeaseInv, DdbTypeOK', UNCHANGED <<item, before, now, nextVersion>>,
           \A g \in Holders : ddbHandle'[g] = ddbHandle[g] \/ ddbHandle'[g] = NoHandle,
           \A g \in Holders : op'[g] = op[g] \/ op'[g] = NoOp
    PROVE  DdbLeaseInv'
<1>1. DdbLeaseBounded'
    <2> SUFFICES ASSUME item # NoRow
                 PROVE  /\ item.expires <= now + Lease[item.holder]
                        /\ op'[item.holder] # NoOp =>
                              item.expires <= op'[item.holder].at + Lease[item.holder]
        BY DEF DdbLeaseBounded
    <2>1. item.holder \in Holders
        BY DEF DdbLeaseInv, DdbTypeOK, Rows
    <2> QED BY <2>1 DEF DdbLeaseInv, DdbLeaseBounded
<1>2. OpsInPast' /\ ReleaseGaveUp' /\ SeenByOwner'
    BY DEF DdbLeaseInv, OpsInPast, ReleaseGaveUp, SeenByOwner
<1>3. VersionsUsed'
    BY DEF DdbLeaseInv, VersionsUsed
<1> QED BY <1>1, <1>2, <1>3, QuietStep DEF DdbLeaseInv

(***************************************************************************)
(* An operation begins: acquire_lock, renew_lock or release_lock reads the *)
(* clock; the caller of release_lock gives up its Lock.                    *)
(***************************************************************************)
LEMMA BeginStep ==
    ASSUME DdbLeaseInv, NEW h \in Holders, NEW k \in Kinds, Begin(h, k), DdbTypeOK'
    PROVE  DdbLeaseInv'
<1> USE LeaseAssumption, DdbNullAssumption
<1>0. DdbTypeOK
    BY DEF DdbLeaseInv
<1>1. /\ UNCHANGED <<item, before, now, nextVersion>>
      /\ \A g \in Holders : ddbHandle'[g] = ddbHandle[g] \/ ddbHandle'[g] = NoHandle
      /\ k \in {"release", "delete"} => ddbHandle'[h] = NoHandle
    BY <1>0 DEF Begin, DdbTypeOK
<1>2. op'[h].at = now /\ op'[h].kind = k /\ op'[h].phase = "get"
    BY <1>0 DEF Begin, DdbTypeOK
<1>3. \A g \in Holders : g # h => op'[g] = op[g]
    BY <1>0 DEF Begin, DdbTypeOK
<1>4. DdbLeaseBounded'
    <2> SUFFICES ASSUME item # NoRow
                 PROVE  /\ item.expires <= now + Lease[item.holder]
                        /\ op'[item.holder] # NoOp =>
                              item.expires <= op'[item.holder].at + Lease[item.holder]
        BY <1>1 DEF DdbLeaseBounded
    <2>1. item.holder \in Holders
        BY <1>0 DEF DdbTypeOK, Rows
    <2>2. item.expires <= now + Lease[item.holder]
        BY DEF DdbLeaseInv, DdbLeaseBounded
    <2>3. CASE item.holder = h
        BY <1>2, <2>2, <2>3
    <2>4. CASE item.holder # h
        BY <1>3, <2>1, <2>2, <2>4 DEF DdbLeaseInv, DdbLeaseBounded
    <2> QED BY <2>3, <2>4
<1>5. OpsInPast'
    BY <1>0, <1>1, <1>2, <1>3 DEF DdbLeaseInv, OpsInPast, DdbTypeOK
<1>6. ReleaseGaveUp'
    BY <1>1, <1>2, <1>3 DEF DdbLeaseInv, ReleaseGaveUp
<1>7. SeenByOwner'
    BY <1>1, <1>2, <1>3 DEF DdbLeaseInv, SeenByOwner
<1>8. VersionsUsed'
    BY <1>1, <1>2, <1>3 DEF DdbLeaseInv, VersionsUsed
<1> QED BY <1>1, <1>4, <1>5, <1>6, <1>7, <1>8, QuietStep DEF DdbLeaseInv

(***************************************************************************)
(* get_item returns an item on which the operation goes on, perhaps the    *)
(* one before the last write: the item that a renewal or a release has     *)
(* seen was the caller's, under a version that no later item reuses.       *)
(***************************************************************************)
LEMMA GetProceedsStep ==
    ASSUME DdbLeaseInv, NEW h \in Holders, GetProceeds(h), DdbTypeOK' PROVE DdbLeaseInv'
<1> USE DdbNullAssumption
<1>0. DdbTypeOK
    BY DEF DdbLeaseInv
<1>1. PICK r \in Readable : Proceeds(h, r) /\ op' = [op EXCEPT ![h] = Decided(op[h], r)]
    BY DEF GetProceeds
<1>2. UNCHANGED <<item, before, now, nextVersion>> /\ ddbHandle' = ddbHandle /\ op[h] # NoOp
    BY DEF GetProceeds
<1>3. op'[h].at = op[h].at /\ op'[h].kind = op[h].kind /\ op'[h].seen = r
    BY <1>0, <1>1 DEF DdbTypeOK, Decided
<1>4. \A g \in Holders : g # h => op'[g] = op[g]
    BY <1>0, <1>1 DEF DdbTypeOK
<1>5. op[h].kind # "acquire" => r # NoRow /\ r.holder = h
    BY <1>1 DEF Proceeds, RenewProceeds, ReleaseProceeds
<1>6. r # NoRow =>
        /\ r.version < nextVersion
        /\ item # NoRow /\ item.version = r.version =>
               item.holder = r.holder /\ item.expires = r.expires
    BY <1>1 DEF Readable, DdbLeaseInv, LagConsistent, VersionsUsed
<1>7. DdbLeaseBounded'
    <2> SUFFICES ASSUME item # NoRow
                 PROVE  /\ item.expires <= now + Lease[item.holder]
                        /\ op'[item.holder] # NoOp =>
                              item.expires <= op'[item.holder].at + Lease[item.holder]
        BY <1>2 DEF DdbLeaseBounded
    <2>1. item.holder \in Holders
        BY <1>0 DEF DdbTypeOK, Rows
    <2> QED BY <1>2, <1>3, <1>4, <2>1 DEF DdbLeaseInv, DdbLeaseBounded
<1>8. OpsInPast'
    BY <1>2, <1>3, <1>4 DEF DdbLeaseInv, OpsInPast
<1>9. ReleaseGaveUp'
    BY <1>2, <1>3, <1>4 DEF DdbLeaseInv, ReleaseGaveUp
<1>10. SeenByOwner'
    BY <1>2, <1>3, <1>4, <1>5, <1>6 DEF DdbLeaseInv, SeenByOwner
<1>11. VersionsUsed'
    BY <1>2, <1>3, <1>4, <1>5, <1>6 DEF DdbLeaseInv, VersionsUsed
<1> QED BY <1>2, <1>7, <1>8, <1>9, <1>10, <1>11, QuietStep DEF DdbLeaseInv

(***************************************************************************)
(* acquire_lock returns a live lease of the caller that it has read: the   *)
(* item itself, or an older one, and then the Lock is marked stale.        *)
(***************************************************************************)
LEMMA GetReturnsStep ==
    ASSUME DdbLeaseInv, NEW h \in Holders, GetReturnsExisting(h), DdbTypeOK'
    PROVE  DdbLeaseInv'
<1> USE DdbNullAssumption
<1>0. DdbTypeOK
    BY DEF DdbLeaseInv
<1>1. PICK r \in Readable :
        /\ LiveAt(r, op[h].at) /\ r.holder = h
        /\ ddbHandle' = [ddbHandle EXCEPT ![h] = DdbHandleOf(r, r # item)]
    BY DEF GetReturnsExisting, AcquireProceeds
<1>2. /\ UNCHANGED <<item, before, now, nextVersion>>
      /\ op' = [op EXCEPT ![h] = NoOp] /\ op[h] # NoOp /\ op[h].kind = "acquire"
    BY DEF GetReturnsExisting
<1>3. \A g \in Holders : op'[g] = op[g] \/ op'[g] = NoOp
    BY <1>0, <1>2 DEF DdbTypeOK
<1>4. op'[h] = NoOp
    BY <1>0, <1>2 DEF DdbTypeOK
<1>5. \A g \in Holders : g # h => ddbHandle'[g] = ddbHandle[g]
    BY <1>0, <1>1 DEF DdbTypeOK
<1>6. ddbHandle'[h].expires = r.expires /\ ddbHandle'[h].stale = (r # item)
    BY <1>0, <1>1 DEF DdbTypeOK, DdbHandleOf
<1>7. DdbHandleBacked'
    <2> SUFFICES ASSUME NEW g \in Holders, Valid(g)'
                 PROVE  DdbOwns(g)' /\ ddbHandle'[g].expires <= item'.expires
        BY DEF DdbHandleBacked
    <2>1. CASE g # h
        BY <1>2, <1>5, <2>1 DEF DdbLeaseInv, DdbHandleBacked, Valid, DdbOwns, LiveAt
    <2>2. CASE g = h
        <3>1. r = item
            BY <1>6, <2>2 DEF Valid
        <3>2. item.expires > now /\ now \in Nat /\ item # NoRow /\ item.locked
            BY <1>0, <1>1, <1>2, <1>6, <2>2, <3>1 DEF Valid, LiveAt, DdbTypeOK
        <3>3. item.expires \in Nat
            BY <1>0, <3>2 DEF DdbTypeOK, Rows
        <3>4. item.expires >= now /\ item.expires <= item.expires
            BY <3>2, <3>3
        <3> QED BY <1>1, <1>2, <1>6, <2>2, <3>1, <3>2, <3>4 DEF DdbOwns, LiveAt
    <2> QED BY <2>1, <2>2
<1>8. OnlyStaleReadOverlaps'
    BY <1>7 DEF OnlyStaleReadOverlaps, DdbHandleBacked, DdbOwns
<1>9. DdbLeaseBounded'
    <2> SUFFICES ASSUME item # NoRow
                 PROVE  /\ item.expires <= now + Lease[item.holder]
                        /\ op'[item.holder] # NoOp =>
                              item.expires <= op'[item.holder].at + Lease[item.holder]
        BY <1>2 DEF DdbLeaseBounded
    <2>1. item.holder \in Holders
        BY <1>0 DEF DdbTypeOK, Rows
    <2> QED BY <1>3, <2>1 DEF DdbLeaseInv, DdbLeaseBounded
<1>10. OpsInPast' /\ SeenByOwner'
    BY <1>2, <1>3 DEF DdbLeaseInv, OpsInPast, SeenByOwner
<1>11. ReleaseGaveUp'
    BY <1>3, <1>4, <1>5 DEF DdbLeaseInv, ReleaseGaveUp
<1>12. VersionsUsed' /\ LagConsistent'
    BY <1>2, <1>3 DEF DdbLeaseInv, VersionsUsed, LagConsistent
<1> QED BY <1>7, <1>8, <1>9, <1>10, <1>11, <1>12 DEF DdbLeaseInv

(***************************************************************************)
(* The service removes an item that has expired: no Lock of it is still    *)
(* unexpired.                                                              *)
(***************************************************************************)
LEMMA TtlDeleteStep == ASSUME DdbLeaseInv, TtlDelete, DdbTypeOK' PROVE DdbLeaseInv'
<1> USE DdbNullAssumption
<1>0. DdbTypeOK
    BY DEF DdbLeaseInv
<1>1. /\ item # NoRow /\ item.expires < now /\ item' = NoRow /\ before' = item
      /\ UNCHANGED <<now, nextVersion, ddbHandle, op>>
    BY DEF TtlDelete
<1>2. item.expires \in Nat /\ now \in Nat
    BY <1>0, <1>1 DEF DdbTypeOK, Rows
<1>3. \A g \in Holders : ~Valid(g)
    BY <1>1, <1>2 DEF DdbLeaseInv, DdbHandleBacked, DdbOwns, LiveAt
<1>4. DdbHandleBacked' /\ OnlyStaleReadOverlaps'
    BY <1>1, <1>3 DEF DdbHandleBacked, OnlyStaleReadOverlaps, Valid
<1>5. DdbLeaseBounded' /\ OpsInPast' /\ ReleaseGaveUp' /\ SeenByOwner'
    BY <1>1 DEF DdbLeaseInv, DdbLeaseBounded, OpsInPast, ReleaseGaveUp, SeenByOwner
<1>6. VersionsUsed' /\ LagConsistent'
    BY <1>1 DEF DdbLeaseInv, VersionsUsed, LagConsistent
<1> QED BY <1>4, <1>5, <1>6 DEF DdbLeaseInv

(***************************************************************************)
(* Time passes: Locks expire, and no item becomes longer than its lease.   *)
(***************************************************************************)
LEMMA DdbTickStep == ASSUME DdbLeaseInv, DdbTick, DdbTypeOK' PROVE DdbLeaseInv'
<1> USE DdbNullAssumption
<1>0. DdbTypeOK
    BY DEF DdbLeaseInv
<1>1. now \in Nat /\ now' = now + 1 /\ UNCHANGED <<item, before, nextVersion, ddbHandle, op>>
    BY <1>0 DEF DdbTick, DdbTypeOK
<1>2. ASSUME NEW g \in Holders, Valid(g)'
      PROVE  Valid(g) /\ DdbOwns(g) /\ DdbOwns(g)' /\ ddbHandle[g].expires <= item.expires
    <2>1. ddbHandle[g] \in DdbHandles /\ ddbHandle[g].expires > now + 1 /\ ~ddbHandle[g].stale
          /\ ddbHandle[g] # NoHandle
        BY <1>0, <1>1, <1>2 DEF Valid, DdbTypeOK
    <2>2. ddbHandle[g].expires \in Nat
        BY <2>1 DEF DdbHandles
    <2>3. Valid(g)
        BY <1>1, <2>1, <2>2 DEF Valid
    <2>4. DdbOwns(g) /\ ddbHandle[g].expires <= item.expires
        BY <2>3 DEF DdbLeaseInv, DdbHandleBacked
    <2>5. item # NoRow /\ item.locked /\ item.holder = g /\ item.expires \in Nat
        BY <1>0, <2>4 DEF DdbOwns, LiveAt, DdbTypeOK, Rows
    <2>6. item.expires >= now + 1
        BY <1>1, <2>1, <2>2, <2>4, <2>5
    <2> QED BY <1>1, <2>3, <2>4, <2>5, <2>6 DEF DdbOwns, LiveAt
<1>3. DdbHandleBacked' /\ OnlyStaleReadOverlaps'
    BY <1>1, <1>2 DEF DdbHandleBacked, OnlyStaleReadOverlaps, DdbOwns
<1>4. DdbLeaseBounded'
    <2> SUFFICES ASSUME item # NoRow PROVE item.expires <= now + 1 + Lease[item.holder]
        BY <1>1 DEF DdbLeaseInv, DdbLeaseBounded
    <2>1. item.expires \in Nat /\ Lease[item.holder] \in Nat
        BY <1>0, LeaseAssumption DEF DdbTypeOK, Rows
    <2> QED BY <1>1, <2>1 DEF DdbLeaseInv, DdbLeaseBounded
<1>5. OpsInPast'
    <2> SUFFICES ASSUME NEW g \in Holders, op[g] # NoOp PROVE op[g].at <= now + 1
        BY <1>1 DEF OpsInPast
    <2>1. op[g].at \in Nat /\ op[g].at <= now
        BY <1>0 DEF DdbLeaseInv, OpsInPast, DdbTypeOK, Ops
    <2> QED BY <1>1, <2>1
<1>6. ReleaseGaveUp' /\ SeenByOwner' /\ VersionsUsed' /\ LagConsistent'
    BY <1>1 DEF DdbLeaseInv, ReleaseGaveUp, SeenByOwner, VersionsUsed, LagConsistent
<1> QED BY <1>3, <1>4, <1>5, <1>6 DEF DdbLeaseInv

(***************************************************************************)
(* No step of a client, of the service or of the clock breaks what backs   *)
(* the Locks in hand.                                                      *)
(***************************************************************************)
LEMMA DdbLeaseStep == DdbLeaseInv /\ [DdbNext]_ddbVars => DdbLeaseInv'
<1> SUFFICES ASSUME DdbLeaseInv, [DdbNext]_ddbVars PROVE DdbLeaseInv'
    OBVIOUS
<1>0. DdbTypeOK /\ DdbTypeOK'
    BY DdbTypeStep DEF DdbLeaseInv
<1>1. ASSUME NEW h \in Holders, GetFails(h) \/ PutFails(h) \/ Abandon(h) \/ DdbRestart(h)
      PROVE  DdbLeaseInv'
    <2>1. /\ UNCHANGED <<item, before, now, nextVersion>>
          /\ \A g \in Holders : ddbHandle'[g] = ddbHandle[g] \/ ddbHandle'[g] = NoHandle
          /\ \A g \in Holders : op'[g] = op[g] \/ op'[g] = NoOp
        BY <1>0, <1>1 DEF GetFails, PutFails, Abandon, DdbRestart, DdbTypeOK
    <2> QED BY <1>0, <2>1, OpsEndStep
<1>2. CASE UNCHANGED ddbVars
    BY <1>0, <1>2, OpsEndStep DEF ddbVars
<1> QED BY <1>0, <1>1, <1>2, BeginStep, GetProceedsStep, GetReturnsStep, PutLeaseStep,
           PutReleaseStep, TtlDeleteStep, DdbTickStep DEF DdbNext

(***************************************************************************)
(* The empty table satisfies the invariant.                                *)
(***************************************************************************)
LEMMA DdbLeaseInit == DdbInit => DdbLeaseInv
BY DdbNullAssumption
   DEF DdbInit, DdbLeaseInv, DdbTypeOK, OnlyStaleReadOverlaps, DdbHandleBacked, Valid,
       DdbLeaseBounded, OpsInPast, ReleaseGaveUp, SeenByOwner, VersionsUsed, LagConsistent

(***************************************************************************)
(* The DynamoDB manager, at every await of acquire_lock, renew_lock and    *)
(* release_lock and for any number of clients: a Lock that did not come    *)
(* from a lagging read is backed by the live item of the same holder, so   *)
(* that two holders never have one in hand.                                *)
(***************************************************************************)
THEOREM DdbLeaseHolds == DdbSpec => []DdbLeaseInv
BY DdbLeaseInit, DdbLeaseStep, PTL DEF DdbSpec

\* The owner and the believers that the item stands for.
DdbBelieverIsOwner ==
    /\ DdbBelievers \in {{}, {DdbOwner}}
    /\ DdbOwner \in Holders \union {DdbNobody}
    /\ DdbOwner = DdbNobody => DdbBelievers = {}

(***************************************************************************)
(* Whoever has a Lock that is not stale in hand owns the live item.        *)
(***************************************************************************)
LEMMA DdbBelieversAre == DdbLeaseInv => DdbBelieverIsOwner
<1> SUFFICES ASSUME DdbLeaseInv PROVE DdbBelieverIsOwner
    OBVIOUS
<1>1. LiveAt(item, now) => DdbOwner = item.holder /\ item.holder \in Holders
    BY DEF DdbOwner, LiveAt, DdbLeaseInv, DdbTypeOK, Rows
<1>2. ~LiveAt(item, now) => DdbOwner = DdbNobody
    BY DEF DdbOwner
<1>3. DdbNobody \notin Holders
    BY DdbNullAssumption DEF DdbNobody
<1>4. \A h \in Holders : Valid(h) => LiveAt(item, now) /\ h = item.holder
    BY DEF DdbLeaseInv, DdbHandleBacked, DdbOwns
<1> QED BY <1>1, <1>2, <1>3, <1>4 DEF DdbBelievers, DdbBelieverIsOwner

(***************************************************************************)
(* A live item passes from one holder to another only through a moment at  *)
(* which it is not live: the conditions of the writes see to it.           *)
(***************************************************************************)
LEMMA DdbOwnerStep ==
    ASSUME DdbLeaseInv, DdbLeaseInv', [DdbNext]_ddbVars, LiveAt(item, now), LiveAt(item', now')
    PROVE  item'.holder = item.holder
<1>0. /\ item # NoRow /\ item.expires >= now /\ item.locked
      /\ item.expires \in Nat /\ now \in Nat
    BY DEF LiveAt, DdbLeaseInv, DdbTypeOK, Rows
<1>1. ASSUME NEW h \in Holders, PutLease(h) PROVE item'.holder = item.holder
    <2>1. op[h] # NoOp /\ op[h].phase = "put" /\ op[h].at \in Nat /\ op[h].at <= now
          /\ item'.holder = h /\ Condition(h)
        BY <1>1 DEF PutLease, DdbLeaseInv, OpsInPast, DdbTypeOK, Ops
    <2>2. op[h].kind # "acquire"
        BY <1>0, <2>1 DEF Condition
    <2> QED BY <1>0, <2>1, <2>2 DEF Condition, DdbLeaseInv, VersionsUsed
<1>2. ASSUME NEW h \in Holders, PutRelease(h) PROVE FALSE
    <2>1. op[h].seen \in Rows
        BY <1>2, DdbNullAssumption DEF PutRelease, DdbLeaseInv, SeenByOwner, DdbTypeOK, Ops
    <2>2. item' # NoRow => ~item'.locked
        BY <1>2, <2>1 DEF PutRelease, Rows
    <2> QED BY <2>2 DEF LiveAt
<1>3. ~TtlDelete
    BY DEF TtlDelete, LiveAt
<1> QED BY <1>1, <1>2, <1>3
        DEF DdbNext, ddbVars, DdbTick, Begin, GetProceeds, GetReturnsExisting, GetFails,
            PutFails, Abandon, DdbRestart

(***************************************************************************)
(* Every step of the DynamoDB manager is one of the abstract lease or leaves*)
(* it alone.                                                               *)
(***************************************************************************)
LEMMA DdbSimulates ==
    DdbLeaseInv /\ DdbLeaseInv' /\ [DdbNext]_ddbVars => [DdbLeaseSpec!Next]_<<DdbOwner, DdbBelievers>>
<1> SUFFICES ASSUME DdbLeaseInv, DdbLeaseInv', [DdbNext]_ddbVars
             PROVE  [DdbLeaseSpec!Next]_<<DdbOwner, DdbBelievers>>
    OBVIOUS
<1>1. DdbBelieverIsOwner /\ DdbBelieverIsOwner'
    BY DdbBelieversAre, PTL
<1>2. DdbOwner' = DdbOwner \/ DdbOwner = DdbNobody \/ DdbOwner' = DdbNobody
    BY DdbOwnerStep DEF DdbOwner, DdbNobody
<1> QED BY <1>1, <1>2
        DEF DdbBelieverIsOwner, DdbLeaseSpec!Next, DdbLeaseSpec!Grant,
            DdbLeaseSpec!Confirm, DdbLeaseSpec!Fade, DdbLeaseSpec!Vacate

(***************************************************************************)
(* Stale Locks aside, the DynamoDB manager implements the abstract lease   *)
(* service.                                                                *)
(***************************************************************************)
THEOREM DdbLeaseRefinement == DdbSpec => DdbImplementsLease
<1>1. DdbInit => DdbLeaseSpec!Init
    BY DEF DdbInit, DdbLeaseSpec!Init, DdbOwner, DdbBelievers, Valid, LiveAt, DdbNobody
<1> QED BY DdbLeaseInit, DdbLeaseStep, <1>1, DdbSimulates, PTL
        DEF DdbSpec, DdbImplementsLease, DdbLeaseSpec!Spec

-----------------------------------------------------------------------------
(* Redis: the scripts are atomic, the answers are late.                    *)

(***************************************************************************)
(* Commands, answers and the clock keep the variables in their types.      *)
(***************************************************************************)
LEMMA RedisTypeStep == RedisTypeOK /\ [RedisNext]_redisVars => RedisTypeOK'
<1> SUFFICES ASSUME RedisTypeOK, [RedisNext]_redisVars PROVE RedisTypeOK'
    OBVIOUS
<1> USE LeaseAssumption DEF RedisTypeOK
<1>1. ASSUME NEW h \in Holders, SetKey(h) PROVE RedisTypeOK'
    <2>1. now + Lease[h] \in Nat
        OBVIOUS
    <2>2. [holder |-> h, version |-> nextVersion, expires |-> now + Lease[h]] \in Keys
        BY <2>1 DEF Keys
    <2>3. [version |-> nextVersion, keyEnds |-> now + Lease[h], result |-> "ok"] \in Answers
        BY <2>1 DEF Answers
    <2> QED BY <1>1, <2>2, <2>3 DEF SetKey, Answer
<1>2. ASSUME NEW h \in Holders, AcquireOk(h) \/ RenewOk(h) PROVE RedisTypeOK'
    BY <1>1, <1>2 DEF AcquireOk, RenewOk
<1>3. ASSUME NEW h \in Holders, RedisAcquireHeld(h) \/ RenewNotHeld(h) PROVE RedisTypeOK'
    <2>1. \A x \in {"held", "not held"} : [version |-> 0, keyEnds |-> 0, result |-> x] \in Answers
        BY DEF Answers
    <2> QED BY <1>3, <2>1 DEF RedisAcquireHeld, RenewNotHeld, Answer
<1>4. ASSUME NEW h \in Holders, RedisRelease(h) PROVE RedisTypeOK'
    BY <1>4 DEF RedisRelease
<1>5. ASSUME NEW h \in Holders, Receive(h) PROVE RedisTypeOK'
    <2>1. call[h] \in Answers /\ now + Lease[h] \in Nat
        BY <1>5 DEF Receive
    <2>2. [version |-> call[h].version, expires |-> now + Lease[h],
           keyEnds |-> call[h].keyEnds] \in RedisHandles
        BY <2>1 DEF Answers, RedisHandles
    <2> QED BY <1>5, <2>2 DEF Receive
<1>6. ASSUME NEW h \in Holders, Lose(h) \/ RedisRestart(h) PROVE RedisTypeOK'
    BY <1>6 DEF Lose, RedisRestart
<1>7. CASE RedisTick
    BY <1>7 DEF RedisTick
<1>8. CASE UNCHANGED redisVars
    BY <1>8 DEF redisVars
<1> QED BY <1>2, <1>3, <1>4, <1>5, <1>6, <1>7, <1>8 DEF RedisNext

(***************************************************************************)
(* SET by the acquiring command or by the renewal script: the key was free *)
(* or the caller's, and does not end earlier than before.                  *)
(***************************************************************************)
LEMMA SetKeyStep ==
    ASSUME RedisLeaseInv, NEW h \in Holders, SetKey(h), Exists => key.holder = h, RedisTypeOK'
    PROVE  RedisLeaseInv'
<1> USE LeaseAssumption, RedisNullAssumption
<1>0. RedisTypeOK /\ now \in Nat /\ nextVersion \in Nat /\ Lease[h] \in Nat
    BY DEF RedisLeaseInv, RedisTypeOK
<1>1. /\ key' = [holder |-> h, version |-> nextVersion, expires |-> now + Lease[h]]
      /\ now' = now /\ redisHandle' = redisHandle
      /\ call' = [call EXCEPT ![h] = [version |-> nextVersion, keyEnds |-> now + Lease[h],
                                      result |-> "ok"]]
    BY DEF SetKey, Answer
<1>2. key' # NoKey /\ key'.holder = h /\ key'.expires = now + Lease[h]
    <2>1. now + Lease[h] \in Nat
        BY <1>0
    <2>2. key' \in Keys
        BY <1>0, <1>1, <2>1 DEF Keys
    <2> QED BY <1>1, <2>2
<1>3. Exists => key.expires \in Nat /\ key.expires <= now + Lease[h]
    BY <1>0 DEF Exists, RedisLeaseInv, KeyBounded, RedisTypeOK, Keys
<1>4. ASSUME NEW e \in Nat, e > now, e <= now + Lease[h]
      PROVE  RedisOwns(h)' /\ e <= key'.expires
    <2>1. key'.expires > now'
        BY <1>0, <1>1, <1>2, <1>4
    <2> QED BY <1>2, <1>4, <2>1 DEF RedisOwns, Exists
<1>5. KeyBacksLock'
    <2> SUFFICES ASSUME NEW g \in Holders, Covered(g)'
                 PROVE  RedisOwns(g)' /\ redisHandle'[g].keyEnds <= key'.expires
        BY DEF KeyBacksLock
    <2>1. Covered(g) /\ redisHandle[g].keyEnds > now
        BY <1>1 DEF Covered
    <2>2. Exists /\ g = h /\ redisHandle[g].keyEnds <= key.expires
        BY <2>1 DEF RedisLeaseInv, KeyBacksLock, RedisOwns
    <2>3. redisHandle[g].keyEnds \in Nat
        BY <1>0, <2>1 DEF Covered, RedisTypeOK, RedisHandles
    <2>4. redisHandle[g].keyEnds <= now + Lease[h]
        BY <1>0, <1>3, <2>2, <2>3
    <2> QED BY <1>1, <1>4, <2>1, <2>2, <2>3, <2>4
<1>6. KeyBacksAnswer'
    <2> SUFFICES ASSUME NEW g \in Holders, call'[g] # NoCall, call'[g].result = "ok",
                        call'[g].keyEnds > now
                 PROVE  RedisOwns(g)' /\ call'[g].keyEnds <= key'.expires
        BY <1>1 DEF KeyBacksAnswer
    <2>1. CASE g = h
        <3>1. call'[g].keyEnds = now + Lease[h]
            BY <1>0, <1>1, <2>1 DEF RedisTypeOK
        <3>2. call'[g].keyEnds \in Nat /\ call'[g].keyEnds <= now + Lease[h]
            BY <1>0, <3>1
        <3> QED BY <1>4, <2>1, <3>2
    <2>2. CASE g # h
        <3>1. call'[g] = call[g]
            BY <1>0, <1>1, <2>2 DEF RedisTypeOK
        <3> QED BY <2>2, <3>1 DEF RedisLeaseInv, KeyBacksAnswer, RedisOwns
    <2> QED BY <2>1, <2>2
<1>7. KeyBounded'
    BY <1>0, <1>1, <1>2 DEF KeyBounded
<1>8. OnlyDelayOverlaps'
    BY <1>5 DEF KeyBacksLock, OnlyDelayOverlaps, RedisOwns
<1> QED BY <1>5, <1>6, <1>7, <1>8 DEF RedisLeaseInv

(***************************************************************************)
(* Steps that leave the key alone and make nobody believe in a lease that  *)
(* no answer announced: refusals, answers that arrive or are lost,         *)
(* restarts.                                                               *)
(***************************************************************************)
LEMMA KeyKeptStep ==
    ASSUME RedisLeaseInv, RedisTypeOK', UNCHANGED <<key, now>>,
           \A g \in Holders :
              \/ redisHandle'[g] = redisHandle[g]
              \/ redisHandle'[g] = NoHandle
              \/ call[g] # NoCall /\ call[g].result = "ok"
                 /\ redisHandle'[g].keyEnds = call[g].keyEnds,
           \A g \in Holders : \/ call'[g] = call[g]
                              \/ call'[g] = NoCall
                              \/ call'[g].result # "ok"
    PROVE  RedisLeaseInv'
<1>1. KeyBacksLock'
    BY DEF RedisLeaseInv, KeyBacksLock, KeyBacksAnswer, Covered, RedisOwns, Exists
<1>2. KeyBacksAnswer'
    BY DEF RedisLeaseInv, KeyBacksAnswer, RedisOwns, Exists
<1>3. KeyBounded'
    BY DEF RedisLeaseInv, KeyBounded
<1>4. OnlyDelayOverlaps'
    BY <1>1 DEF KeyBacksLock, OnlyDelayOverlaps, RedisOwns
<1> QED BY <1>1, <1>2, <1>3, <1>4 DEF RedisLeaseInv

(***************************************************************************)
(* The release script deletes the key of a caller that has given up its    *)
(* Lock and waits for no answer.                                           *)
(***************************************************************************)
LEMMA RedisReleaseStep ==
    ASSUME RedisLeaseInv, NEW h \in Holders, RedisRelease(h), RedisTypeOK'
    PROVE  RedisLeaseInv'
<1>0. RedisTypeOK
    BY DEF RedisLeaseInv
<1>1. /\ call[h] = NoCall /\ now' = now /\ call' = call
      /\ redisHandle' = [redisHandle EXCEPT ![h] = NoHandle]
      /\ key' = IF Exists /\ key.holder = h THEN NoKey ELSE key
    BY DEF RedisRelease
<1>2. redisHandle'[h] = NoHandle /\ \A g \in Holders : g # h => redisHandle'[g] = redisHandle[g]
    BY <1>0, <1>1 DEF RedisTypeOK
<1>3. \A g \in Holders : g # h /\ RedisOwns(g) => RedisOwns(g)' /\ key' = key
    BY <1>1 DEF RedisOwns, Exists
<1>4. KeyBacksLock'
    BY <1>1, <1>2, <1>3 DEF RedisLeaseInv, KeyBacksLock, Covered
<1>5. KeyBacksAnswer'
    BY <1>1, <1>3 DEF RedisLeaseInv, KeyBacksAnswer
<1>6. KeyBounded'
    BY <1>1 DEF RedisLeaseInv, KeyBounded
<1>7. OnlyDelayOverlaps'
    BY <1>4 DEF KeyBacksLock, OnlyDelayOverlaps, RedisOwns
<1> QED BY <1>4, <1>5, <1>6, <1>7 DEF RedisLeaseInv

(***************************************************************************)
(* Time passes: the key ends no earlier than what was announced of it.     *)
(***************************************************************************)
LEMMA RedisTickStep == ASSUME RedisLeaseInv, RedisTick, RedisTypeOK' PROVE RedisLeaseInv'
<1> USE LeaseAssumption, RedisNullAssumption
<1>0. RedisTypeOK
    BY DEF RedisLeaseInv
<1>1. now \in Nat /\ now' = now + 1 /\ UNCHANGED <<key, nextVersion, redisHandle, call>>
    BY <1>0 DEF RedisTick, RedisTypeOK
<1>2. key # NoKey => key.expires \in Nat
    BY <1>0 DEF RedisTypeOK, Keys
<1>3. ASSUME NEW g \in Holders, NEW e \in Nat, e > now + 1,
             RedisOwns(g), e <= key.expires
      PROVE  RedisOwns(g)'
    <2>1. key # NoKey /\ key.holder = g /\ key.expires > now + 1
        BY <1>1, <1>2, <1>3 DEF RedisOwns, Exists
    <2> QED BY <1>1, <2>1 DEF RedisOwns, Exists
<1>4. KeyBacksLock'
    <2> SUFFICES ASSUME NEW g \in Holders, Covered(g)'
                 PROVE  RedisOwns(g)' /\ redisHandle[g].keyEnds <= key.expires
        BY <1>1 DEF KeyBacksLock
    <2>1. redisHandle[g] # NoHandle /\ redisHandle[g].keyEnds > now + 1
          /\ redisHandle[g].keyEnds \in Nat
        BY <1>0, <1>1 DEF Covered, RedisTypeOK, RedisHandles
    <2>2. Covered(g)
        BY <1>1, <2>1 DEF Covered
    <2> QED BY <1>3, <2>1, <2>2 DEF RedisLeaseInv, KeyBacksLock
<1>5. KeyBacksAnswer'
    <2> SUFFICES ASSUME NEW g \in Holders, call[g] # NoCall, call[g].result = "ok",
                        call[g].keyEnds > now + 1
                 PROVE  RedisOwns(g)' /\ call[g].keyEnds <= key.expires
        BY <1>1 DEF KeyBacksAnswer
    <2>1. call[g].keyEnds \in Nat
        BY <1>0 DEF RedisTypeOK, Answers
    <2>2. call[g].keyEnds > now
        BY <1>1, <2>1
    <2> QED BY <1>3, <2>1, <2>2 DEF RedisLeaseInv, KeyBacksAnswer
<1>6. KeyBounded'
    <2> SUFFICES ASSUME key # NoKey PROVE key.expires <= now + 1 + Lease[key.holder]
        BY <1>1 DEF KeyBounded
    <2>1. key.expires \in Nat /\ Lease[key.holder] \in Nat
        BY <1>0 DEF RedisTypeOK, Keys
    <2> QED BY <1>1, <2>1 DEF RedisLeaseInv, KeyBounded
<1>7. OnlyDelayOverlaps'
    BY <1>4 DEF KeyBacksLock, OnlyDelayOverlaps, RedisOwns
<1> QED BY <1>4, <1>5, <1>6, <1>7 DEF RedisLeaseInv

(***************************************************************************)
(* No command, answer, restart or passing of time leaves a client with a   *)
(* Lock whose key lasts and is not the client's.                           *)
(***************************************************************************)
LEMMA RedisLeaseStep == RedisLeaseInv /\ [RedisNext]_redisVars => RedisLeaseInv'
<1> SUFFICES ASSUME RedisLeaseInv, [RedisNext]_redisVars PROVE RedisLeaseInv'
    OBVIOUS
<1>0. RedisTypeOK /\ RedisTypeOK'
    BY RedisTypeStep DEF RedisLeaseInv
<1>1. ASSUME NEW h \in Holders, AcquireOk(h) \/ RenewOk(h) PROVE RedisLeaseInv'
    BY <1>0, <1>1, SetKeyStep DEF AcquireOk, RenewOk
<1>2. ASSUME NEW h \in Holders, RedisAcquireHeld(h) \/ RenewNotHeld(h) PROVE RedisLeaseInv'
    <2>1. UNCHANGED <<key, now, redisHandle>>
        BY <1>2 DEF RedisAcquireHeld, RenewNotHeld
    <2>2. PICK x \in {"held", "not held"} :
            call' = [call EXCEPT ![h] = [version |-> 0, keyEnds |-> 0, result |-> x]]
        BY <1>2 DEF RedisAcquireHeld, RenewNotHeld, Answer
    <2>3. \A g \in Holders : call'[g] = call[g] \/ call'[g].result # "ok"
        BY <1>0, <2>2 DEF RedisTypeOK
    <2> QED BY <1>0, <2>1, <2>3, KeyKeptStep
<1>3. ASSUME NEW h \in Holders, Receive(h) PROVE RedisLeaseInv'
    <2>1. UNCHANGED <<key, now>>
        BY <1>3 DEF Receive
    <2>2. \A g \in Holders : call'[g] = call[g] \/ call'[g] = NoCall
        BY <1>0, <1>3 DEF Receive, RedisTypeOK
    <2>3. \A g \in Holders : \/ redisHandle'[g] = redisHandle[g]
                             \/ call[g] # NoCall /\ call[g].result = "ok"
                                /\ redisHandle'[g].keyEnds = call[g].keyEnds
        BY <1>0, <1>3 DEF Receive, RedisTypeOK
    <2> QED BY <1>0, <2>1, <2>2, <2>3, KeyKeptStep
<1>4. ASSUME NEW h \in Holders, Lose(h) \/ RedisRestart(h) PROVE RedisLeaseInv'
    <2>1. UNCHANGED <<key, now>>
        BY <1>4 DEF Lose, RedisRestart
    <2>2. /\ \A g \in Holders : call'[g] = call[g] \/ call'[g] = NoCall
          /\ \A g \in Holders : redisHandle'[g] = redisHandle[g] \/ redisHandle'[g] = NoHandle
        BY <1>0, <1>4 DEF Lose, RedisRestart, RedisTypeOK
    <2> QED BY <1>0, <2>1, <2>2, KeyKeptStep
<1>5. CASE UNCHANGED redisVars
    BY <1>0, <1>5, KeyKeptStep DEF redisVars
<1> QED BY <1>0, <1>1, <1>2, <1>3, <1>4, <1>5, RedisReleaseStep, RedisTickStep DEF RedisNext

(***************************************************************************)
(* The empty server satisfies the invariant.                               *)
(***************************************************************************)
LEMMA RedisLeaseInit == RedisInit => RedisLeaseInv
BY RedisNullAssumption
   DEF RedisInit, RedisLeaseInv, RedisTypeOK, KeyBacksLock, KeyBacksAnswer, KeyBounded,
       OnlyDelayOverlaps, Covered, Dated

(***************************************************************************)
(* The Redis manager, for any number of clients and however late or lost   *)
(* the answers of SET NX and of the scripts are: two holders have an       *)
(* unexpired Lock in hand only if the key of one of them has ended.        *)
(***************************************************************************)
THEOREM RedisLeaseHolds == RedisSpec => []RedisLeaseInv
BY RedisLeaseInit, RedisLeaseStep, PTL DEF RedisSpec

\* The owner and the believers that the key stands for.
RedisBelieverIsOwner ==
    /\ RedisBelievers \in {{}, {RedisOwner}}
    /\ RedisOwner \in Holders \union {RedisNobody}
    /\ RedisOwner = RedisNobody => RedisBelievers = {}

(***************************************************************************)
(* Whoever has a Lock whose key lasts owns that key.                       *)
(***************************************************************************)
LEMMA RedisBelieversAre == RedisLeaseInv => RedisBelieverIsOwner
<1> SUFFICES ASSUME RedisLeaseInv PROVE RedisBelieverIsOwner
    OBVIOUS
<1>1. Exists => RedisOwner = key.holder /\ key.holder \in Holders
    BY DEF RedisOwner, Exists, RedisLeaseInv, RedisTypeOK, Keys
<1>2. ~Exists => RedisOwner = RedisNobody
    BY DEF RedisOwner
<1>3. RedisNobody \notin Holders
    BY RedisNullAssumption DEF RedisNobody
<1>4. \A h \in Holders : Covered(h) => Exists /\ h = key.holder
    BY DEF RedisLeaseInv, KeyBacksLock, RedisOwns
<1> QED BY <1>1, <1>2, <1>3, <1>4 DEF RedisBelievers, RedisBelieverIsOwner

(***************************************************************************)
(* Every step of the Redis manager is one of the abstract lease or leaves  *)
(* it alone.                                                               *)
(***************************************************************************)
LEMMA RedisSimulates ==
    RedisLeaseInv /\ RedisLeaseInv' /\ [RedisNext]_redisVars => [RedisLeaseSpec!Next]_<<RedisOwner, RedisBelievers>>
<1> SUFFICES ASSUME RedisLeaseInv, RedisLeaseInv', [RedisNext]_redisVars
             PROVE  [RedisLeaseSpec!Next]_<<RedisOwner, RedisBelievers>>
    OBVIOUS
<1>1. RedisBelieverIsOwner /\ RedisBelieverIsOwner'
    BY RedisBelieversAre, PTL
<1>2. Exists /\ Exists' => key'.holder = key.holder
    <2> SUFFICES ASSUME Exists, Exists' PROVE key'.holder = key.holder
        OBVIOUS
    <2>1. ASSUME NEW h \in Holders, RenewOk(h) PROVE key'.holder = key.holder
        BY <2>1 DEF RenewOk, SetKey
    <2>2. ASSUME NEW h \in Holders, RedisRelease(h) PROVE key'.holder = key.holder
        BY <2>2 DEF RedisRelease, Exists
    <2> QED BY <2>1, <2>2
            DEF RedisNext, redisVars, RedisTick, AcquireOk, RedisAcquireHeld,
                RenewNotHeld, Receive, Lose, RedisRestart
<1>3. \/ RedisOwner' = RedisOwner \/ RedisOwner = RedisNobody
      \/ RedisOwner' = RedisNobody
    BY <1>2 DEF RedisOwner, RedisNobody
<1> QED BY <1>1, <1>3
        DEF RedisBelieverIsOwner, RedisLeaseSpec!Next, RedisLeaseSpec!Grant,
            RedisLeaseSpec!Confirm, RedisLeaseSpec!Fade, RedisLeaseSpec!Vacate

(***************************************************************************)
(* The Redis manager implements the abstract lease service.                *)
(***************************************************************************)
THEOREM RedisLeaseRefinement == RedisSpec => RedisImplementsLease
<1>1. RedisInit => RedisLeaseSpec!Init
    BY DEF RedisInit, RedisLeaseSpec!Init, RedisOwner, RedisBelievers, Covered, Exists,
           RedisNobody
<1> QED BY RedisLeaseInit, RedisLeaseStep, <1>1, RedisSimulates, PTL
        DEF RedisSpec, RedisImplementsLease, RedisLeaseSpec!Spec

-----------------------------------------------------------------------------
(* The process: one manager is chosen, the stores of the others stay empty.*)

\* The clock and the supply of versions, which the managers share.
ClockTyped == now \in Nat /\ nextVersion \in Nat

SqlIdle == row = NoRow /\ handle = [h \in Holders |-> NoHandle]

DdbIdle ==
    /\ item = NoRow /\ before = NoRow
    /\ ddbHandle = [h \in Holders |-> NoHandle] /\ op = [h \in Holders |-> NoOp]

RedisIdle ==
    /\ key = NoKey
    /\ redisHandle = [h \in Holders |-> NoHandle] /\ call = [h \in Holders |-> NoCall]

\* The lease that a store stands for is free.
SqlFree   == Owner = Nobody /\ Believers = {}
DdbFree   == DdbOwner = DdbNobody /\ DdbBelievers = {}
RedisFree == RedisOwner = RedisNobody /\ RedisBelievers = {}

\* The invariant of the process that the choice of the factory is fixed in.
ChosenInv ==
    /\ LocksInv
    /\ backend \in Backends
    /\ backend # "sqlite" => SqlIdle
    /\ backend # "ddb" => DdbIdle
    /\ backend # "redis" => RedisIdle

(***************************************************************************)
(* A store nobody uses satisfies its invariant and stands for a lease      *)
(* nobody owns, whatever the clock says.                                   *)
(***************************************************************************)
LEMMA SqlIdleFree ==
    SqlIdle /\ ClockTyped => LeaseInv /\ SqlFree
BY DEF ClockTyped, SqlFree, SqlIdle, LeaseInv, TypeOK, LeaseBounded, HandleBacked, Believes, Owner, Live, Believers

(***************************************************************************)
(* The same of a DynamoDB table nobody uses.                               *)
(***************************************************************************)
LEMMA DdbIdleFree ==
    DdbIdle /\ ClockTyped => DdbLeaseInv /\ DdbFree
BY DEF ClockTyped, DdbFree, DdbIdle, DdbLeaseInv, DdbTypeOK, OnlyStaleReadOverlaps, DdbHandleBacked, Valid,
       DdbLeaseBounded, OpsInPast, ReleaseGaveUp, SeenByOwner, VersionsUsed, LagConsistent,
       DdbOwner, LiveAt, DdbBelievers

(***************************************************************************)
(* The same of a Redis server nobody uses.                                 *)
(***************************************************************************)
LEMMA RedisIdleFree ==
    RedisIdle /\ ClockTyped => RedisLeaseInv /\ RedisFree
BY DEF ClockTyped, RedisFree, RedisIdle, RedisLeaseInv, RedisTypeOK, KeyBacksLock, KeyBacksAnswer, KeyBounded,
       OnlyDelayOverlaps, Covered, Dated, RedisOwner, Exists, RedisBelievers

(***************************************************************************)
(* A step of the process is a step of the chosen manager and leaves the    *)
(* stores of the others empty.                                             *)
(***************************************************************************)
LEMMA ChosenStep == ChosenInv /\ [LocksNext]_locksVars => ChosenInv'
<1> SUFFICES ASSUME ChosenInv, [LocksNext]_locksVars PROVE ChosenInv'
    OBVIOUS
<1>0. LeaseInv /\ DdbLeaseInv /\ RedisLeaseInv
    BY DEF ChosenInv, LocksInv
<1>1. CASE backend = "sqlite" /\ Next /\ UNCHANGED <<backend, item, before, ddbHandle, op,
                                                     key, redisHandle, call>>
    <2>1. LeaseInv' /\ ClockTyped'
        BY <1>0, <1>1, LeaseStep DEF LeaseInv, TypeOK, ClockTyped
    <2>2. DdbIdle' /\ RedisIdle'
        BY <1>1 DEF ChosenInv, DdbIdle, RedisIdle
    <2>3. DdbLeaseInv' /\ RedisLeaseInv'
        BY <2>1, <2>2, DdbIdleFree, RedisIdleFree, PTL
    <2> QED BY <1>1, <2>1, <2>2, <2>3 DEF ChosenInv, LocksInv
<1>2. CASE backend = "ddb" /\ DdbNext /\ UNCHANGED <<backend, row, handle, key, redisHandle,
                                                     call>>
    <2>1. DdbLeaseInv' /\ ClockTyped'
        BY <1>0, <1>2, DdbLeaseStep DEF DdbLeaseInv, DdbTypeOK, ClockTyped
    <2>2. SqlIdle' /\ RedisIdle'
        BY <1>2 DEF ChosenInv, SqlIdle, RedisIdle
    <2>3. LeaseInv' /\ RedisLeaseInv'
        BY <2>1, <2>2, SqlIdleFree, RedisIdleFree, PTL
    <2> QED BY <1>2, <2>1, <2>2, <2>3 DEF ChosenInv, LocksInv
<1>3. CASE backend = "redis" /\ RedisNext /\ UNCHANGED <<backend, row, handle, item, before,
                                                         ddbHandle, op>>
    <2>1. RedisLeaseInv' /\ ClockTyped'
        BY <1>0, <1>3, RedisLeaseStep DEF RedisLeaseInv, RedisTypeOK, ClockTyped
    <2>2. SqlIdle' /\ DdbIdle'
        BY <1>3 DEF ChosenInv, SqlIdle, DdbIdle
    <2>3. LeaseInv' /\ DdbLeaseInv'
        BY <2>1, <2>2, SqlIdleFree, DdbIdleFree, PTL
    <2> QED BY <1>3, <2>1, <2>2, <2>3 DEF ChosenInv, LocksInv
<1>4. CASE UNCHANGED locksVars
    <2>1. LeaseInv' /\ DdbLeaseInv' /\ RedisLeaseInv'
        BY <1>0, <1>4, LeaseStep, DdbLeaseStep, RedisLeaseStep
           DEF locksVars, vars, ddbVars, redisVars
    <2> QED BY <1>4, <2>1 DEF ChosenInv, LocksInv, locksVars, SqlIdle, DdbIdle, RedisIdle
<1> QED BY <1>1, <1>2, <1>3, <1>4 DEF LocksNext

(***************************************************************************)
(* The process starts with empty stores.                                   *)
(***************************************************************************)
LEMMA ChosenInit == LocksInit => ChosenInv
BY LeaseInit, DdbLeaseInit, RedisLeaseInit
   DEF LocksInit, Init, DdbInit, RedisInit, ChosenInv, LocksInv, SqlIdle, DdbIdle, RedisIdle

(***************************************************************************)
(* Whichever manager create_lock_manager() chose, the row, the item or the *)
(* key backs the Locks that acquire_lock and renew_lock handed out.        *)
(***************************************************************************)
THEOREM LocksInvHolds == LocksSpec => []LocksInv
<1>1. ChosenInv => LocksInv
    BY DEF ChosenInv
<1> QED BY ChosenInit, ChosenStep, <1>1, PTL DEF LocksSpec

(***************************************************************************)
(* Whichever manager create_lock_manager() chose, it implements the        *)
(* abstract lease, and the stores of the others stand for a lease that is  *)
(* never granted.                                                          *)
(***************************************************************************)
THEOREM LocksImplementLease ==
    LocksSpec => ImplementsLease /\ DdbImplementsLease /\ RedisImplementsLease
<1>1. LocksInit => LeaseSpec!Init /\ DdbLeaseSpec!Init /\ RedisLeaseSpec!Init
    BY DEF LocksInit, Init, DdbInit, RedisInit,
           LeaseSpec!Init, Owner, Believers, Believes, Live, Nobody,
           DdbLeaseSpec!Init, DdbOwner, DdbBelievers, Valid, LiveAt, DdbNobody,
           RedisLeaseSpec!Init, RedisOwner, RedisBelievers, Covered, Exists, RedisNobody
<1>2. ASSUME ChosenInv, ChosenInv', [LocksNext]_locksVars
      PROVE  /\ [LeaseSpec!Next]_<<Owner, Believers>>
             /\ [DdbLeaseSpec!Next]_<<DdbOwner, DdbBelievers>>
             /\ [RedisLeaseSpec!Next]_<<RedisOwner, RedisBelievers>>
    <2>1. /\ LeaseInv /\ DdbLeaseInv /\ RedisLeaseInv /\ ClockTyped
          /\ LeaseInv' /\ DdbLeaseInv' /\ RedisLeaseInv' /\ ClockTyped'
        BY <1>2 DEF ChosenInv, LocksInv, LeaseInv, TypeOK, ClockTyped
    <2>2. backend' = backend /\ backend \in Backends
        BY <1>2 DEF LocksNext, locksVars, ChosenInv
    <2>3. [LeaseSpec!Next]_<<Owner, Believers>>
        <3>1. CASE backend = "sqlite"
            BY <1>2, <2>1, <3>1, SqlSimulates DEF LocksNext, locksVars, vars
        <3>2. CASE backend # "sqlite"
            <4>1. SqlIdle /\ SqlIdle'
                BY <1>2, <2>2, <3>2 DEF ChosenInv
            <4>2. SqlFree /\ SqlFree'
                BY <2>1, <4>1, SqlIdleFree, PTL
            <4> QED BY <4>2 DEF SqlFree, Nobody
        <3> QED BY <3>1, <3>2
    <2>4. [DdbLeaseSpec!Next]_<<DdbOwner, DdbBelievers>>
        <3>1. CASE backend = "ddb"
            BY <1>2, <2>1, <3>1, DdbSimulates DEF LocksNext, locksVars, ddbVars
        <3>2. CASE backend # "ddb"
            <4>1. DdbIdle /\ DdbIdle'
                BY <1>2, <2>2, <3>2 DEF ChosenInv
            <4>2. DdbFree /\ DdbFree'
                BY <2>1, <4>1, DdbIdleFree, PTL
            <4> QED BY <4>2 DEF DdbFree, DdbNobody
        <3> QED BY <3>1, <3>2
    <2>5. [RedisLeaseSpec!Next]_<<RedisOwner, RedisBelievers>>
        <3>1. CASE backend = "redis"
            BY <1>2, <2>1, <3>1, RedisSimulates DEF LocksNext, locksVars, redisVars
        <3>2. CASE backend # "redis"
            <4>1. RedisIdle /\ RedisIdle'
                BY <1>2, <2>2, <3>2 DEF ChosenInv
            <4>2. RedisFree /\ RedisFree'
                BY <2>1, <4>1, RedisIdleFree, PTL
            <4> QED BY <4>2 DEF RedisFree, RedisNobody
        <3> QED BY <3>1, <3>2
    <2> QED BY <2>3, <2>4, <2>5
<1> QED BY ChosenInit, ChosenStep, <1>1, <1>2, PTL
        DEF LocksSpec, ImplementsLease, LeaseSpec!Spec, DdbImplementsLease,
            DdbLeaseSpec!Spec, RedisImplementsLease, RedisLeaseSpec!Spec
=============================================================================
