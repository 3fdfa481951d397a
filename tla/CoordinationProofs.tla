------------------------- MODULE CoordinationProofs -------------------------
(***************************************************************************)
(* Proofs about the in-memory lock manager and the background scheduler,   *)
(* for every set of tasks, holders, schedulers and nodes, every lease      *)
(* duration and every bound.                                               *)
(***************************************************************************)
EXTENDS Coordination, SequenceTheorems, TLAPS

-----------------------------------------------------------------------------
(* The in-memory lock manager.                                             *)

(***************************************************************************)
(* A new entry, of acquire_lock or of renew_lock: its version is nobody's, *)
(* and it lasts at least as long as any Lock of its holder that it does    *)
(* not undercut.  The caller has looked at the table or owns up to having  *)
(* written over a lease.                                                   *)
(***************************************************************************)
LEMMA InsertStep ==
    ASSUME FencingInv, NEW t \in Tasks, NEW l \in Leases, NEW m \in Nat, Insert(t, l, m),
           m <= nextVersion, phase' \in [Tasks -> Phases],
           sem' \in [Tasks -> 0..MaxVersion], \A u \in Tasks : sem'[u] <= nextVersion,
           overtaken' \in BOOLEAN, overtaken => overtaken',
           ~overtaken' => ~Live \/ entry.holder = HolderOf[t]
    PROVE  FencingInv'
<1> USE TaskAssumption, BoundAssumption, NullAssumption
<1> DEFINE h == HolderOf[t]
           e == [holder |-> h, version |-> nextVersion, expires |-> now + l,
                 locked |-> TRUE, sem |-> m]
<1>1. /\ nextVersion < MaxVersion /\ nextVersion' = nextVersion + 1 /\ now' = now
      /\ entry' = e /\ handle' = [handle EXCEPT ![t] = LockOf(entry')]
      /\ undercut' = (undercut \ {t}) \union {u \in Siblings(t) : handle[u].expires > now + l}
    BY DEF Insert
<1>2. /\ h \in Holders /\ l \in Nat /\ now \in Nat /\ nextVersion \in Nat
      /\ \A u \in Tasks : HolderOf[u] \in Holders
    BY DEF FencingInv, MemoryTypeOK, Holders
<1>3. /\ e \in Entries /\ e # NoEntry
      /\ LockOf(e) \in Handles /\ LockOf(e) # NoHandle
    <2>1. e \in Entries
        BY <1>2 DEF Entries
    <2>2. LockOf(e) \in Handles
        BY <1>2 DEF Handles, LockOf
    <2> QED BY <2>1, <2>2
<1>4. /\ handle \in [Tasks -> Handles \union {NoHandle}]
      /\ handle' = [handle EXCEPT ![t] = LockOf(e)]
      /\ handle'[t] = LockOf(e) /\ \A u \in Tasks \ {t} : handle'[u] = handle[u]
    BY <1>1 DEF FencingInv, MemoryTypeOK
<1>5. /\ e.version = nextVersion /\ e.expires = now + l /\ e.holder = h
      /\ e.sem = m /\ e.locked = TRUE
      /\ LockOf(e).version = nextVersion /\ LockOf(e).expires = now + l
    BY DEF LockOf
<1> HIDE DEF e
<1>6. MemoryTypeOK'
    <2>1. handle' \in [Tasks -> Handles \union {NoHandle}]
        BY <1>3, <1>4
    <2>2. nextVersion' \in 0..MaxVersion
        BY <1>1, <1>2
    <2>3. now' \in 0..MaxTime /\ entry' \in Entries \union {NoEntry}
        BY <1>1, <1>3 DEF FencingInv, MemoryTypeOK
    <2>4. undercut' \subseteq Tasks
        BY <1>1 DEF FencingInv, MemoryTypeOK, Siblings
    <2> QED BY <2>1, <2>2, <2>3, <2>4 DEF MemoryTypeOK
<1>7. \A u \in Tasks : handle[u] # NoHandle =>
        /\ handle[u].version \in Nat /\ handle[u].expires \in Nat
        /\ handle[u].version < nextVersion
        /\ \E k \in Leases : handle[u].expires <= now + k
    BY <1>4 DEF FencingInv, Generated, Handles
<1>8. Generated'
    <2>1. /\ entry'.version < nextVersion' /\ entry'.sem < nextVersion'
          /\ \E k \in Leases : entry'.expires <= now' + k
        BY <1>1, <1>2, <1>5
    <2>2. ASSUME NEW u \in Tasks, handle'[u] # NoHandle
          PROVE  /\ handle'[u].version < nextVersion'
                 /\ \E k \in Leases : handle'[u].expires <= now' + k
        BY <1>1, <1>2, <1>4, <1>5, <1>7, <2>2
    <2>3. \A u \in Tasks : sem'[u] <= nextVersion'
        BY <1>1, <1>2
    <2> QED BY <2>1, <2>2, <2>3 DEF Generated
<1>9. FencingToken'
    <2>1. ASSUME NEW u \in Tasks, handle'[u] # NoHandle, NEW v \in Tasks, handle'[v] # NoHandle,
                 handle'[v].version = handle'[u].version
          PROVE  HolderOf[v] = HolderOf[u]
        BY <1>2, <1>4, <1>5, <1>7, <2>1 DEF FencingInv, FencingToken
    <2>2. ASSUME NEW u \in Tasks, handle'[u] # NoHandle, entry'.version = handle'[u].version
          PROVE  entry'.holder = HolderOf[u]
        BY <1>1, <1>2, <1>4, <1>5, <1>7, <2>2
    <2> QED BY <2>1, <2>2 DEF FencingToken
<1>10. BackedByEntry'
    <2> SUFFICES ASSUME ~overtaken', NEW u \in Tasks, u \notin undercut', Believes(u)'
                 PROVE  (Live /\ entry.holder = HolderOf[u] /\ handle[u].expires <= entry.expires)'
        BY DEF BackedByEntry
    <2>1. CASE u = t /\ l > 0
        BY <1>1, <1>2, <1>3, <1>4, <1>5, <2>1 DEF Live
    <2>2. CASE u = t /\ ~(l > 0)
        BY <1>1, <1>2, <1>4, <1>5, <2>2 DEF Believes
    <2>3. CASE u # t
        <3>1. Believes(u) /\ handle'[u] = handle[u] /\ u \notin undercut
            BY <1>1, <1>4, <2>3 DEF Believes
        <3>2. ~overtaken /\ Live /\ entry.holder = HolderOf[u]
            BY <3>1 DEF FencingInv, BackedByEntry
        <3>3. HolderOf[u] = h
            BY <3>2
        <3>4. u \in Siblings(t)
            BY <2>3, <3>1, <3>3 DEF Siblings, Believes
        <3>5. handle[u].expires <= now + l /\ handle[u].expires > now
              /\ handle[u].expires \in Nat
            BY <1>1, <1>2, <1>7, <3>1, <3>4 DEF Believes
        <3> QED BY <1>1, <1>2, <1>3, <1>5, <3>1, <3>3, <3>5 DEF Live
    <2> QED BY <2>1, <2>2, <2>3
<1>11. OnlyOvertakingOverlaps'
    BY <1>10 DEF BackedByEntry, OnlyOvertakingOverlaps
<1> QED BY <1>6, <1>8, <1>9, <1>10, <1>11 DEF FencingInv

(***************************************************************************)
(* Initially nobody has a Lock.                                            *)
(***************************************************************************)
LEMMA FencingStart == MemoryInit => FencingInv
<1> SUFFICES ASSUME MemoryInit PROVE FencingInv
    OBVIOUS
<1> USE DEF MemoryInit
<1>1. MemoryTypeOK
    <2>1. now \in 0..MaxTime /\ nextVersion \in 0..MaxVersion /\ sem \in [Tasks -> 0..MaxVersion]
        BY BoundAssumption
    <2>2. phase \in [Tasks -> Phases] /\ handle \in [Tasks -> Handles \union {NoHandle}]
        BY DEF Phases
    <2> QED BY <2>1, <2>2 DEF MemoryTypeOK
<1>2. Generated /\ FencingToken /\ BackedByEntry /\ OnlyOvertakingOverlaps
    BY DEF Generated, FencingToken, BackedByEntry, OnlyOvertakingOverlaps, Believes
<1> QED BY <1>1, <1>2 DEF FencingInv

(***************************************************************************)
(* Every call on the manager, every await of a renewal, every abort and    *)
(* every tick of the clock keeps the fencing invariant.                    *)
(***************************************************************************)
LEMMA FencingStep == FencingInv /\ [MemoryNext]_memoryVars => FencingInv'
<1> SUFFICES ASSUME FencingInv, [MemoryNext]_memoryVars PROVE FencingInv'
    OBVIOUS
<1> USE TaskAssumption, BoundAssumption, NullAssumption
<1>0. /\ handle \in [Tasks -> Handles \union {NoHandle}] /\ now \in Nat /\ nextVersion \in Nat
      /\ entry \in Entries \union {NoEntry} /\ phase \in [Tasks -> Phases]
      /\ sem \in [Tasks -> 0..MaxVersion] /\ \A u \in Tasks : sem[u] <= nextVersion
      /\ undercut \subseteq Tasks
    BY DEF FencingInv, MemoryTypeOK, Generated
<1>1. ASSUME NEW t \in Tasks, AcquireFree(t) PROVE FencingInv'
    <2> DEFINE m == IF entry = NoEntry THEN nextVersion ELSE entry.sem
    <2>1. m \in Nat /\ m <= nextVersion
        BY <1>0 DEF Entries, FencingInv, Generated
    <2>2. PICK l \in Leases : Insert(t, l, m)
        BY <1>1 DEF AcquireFree
    <2> HIDE DEF m
    <2>3. /\ phase' \in [Tasks -> Phases] /\ overtaken' \in BOOLEAN /\ overtaken' = overtaken
          /\ ~Live /\ sem' \in [Tasks -> 0..MaxVersion] /\ \A u \in Tasks : sem'[u] <= nextVersion
        BY <1>0, <1>1 DEF AcquireFree, FencingInv, MemoryTypeOK
    <2> QED BY <2>1, <2>2, <2>3, InsertStep
<1>2. ASSUME NEW t \in Tasks, AcquireHeld(t) PROVE FencingInv'
    <2>1. /\ UNCHANGED <<entry, now, nextVersion, phase, sem, overtaken>>
          /\ handle' = [handle EXCEPT ![t] = LockOf(entry)] /\ undercut' = undercut \ {t}
          /\ entry \in Entries /\ Live /\ entry.holder = HolderOf[t]
          /\ LockOf(entry) \in Handles /\ LockOf(entry) # NoHandle
          /\ LockOf(entry).version = entry.version /\ LockOf(entry).expires = entry.expires
        BY <1>0, <1>2 DEF AcquireHeld, Live, LockOf, Handles, Entries
    <2>2. handle'[t] = LockOf(entry) /\ \A u \in Tasks \ {t} : handle'[u] = handle[u]
        BY <1>0, <2>1
    <2>3. MemoryTypeOK'
        <3>1. handle' \in [Tasks -> Handles \union {NoHandle}]
            BY <1>0, <2>1
        <3> QED BY <1>0, <2>1, <3>1 DEF FencingInv, MemoryTypeOK
    <2>4. Generated'
        BY <1>0, <2>1, <2>2 DEF FencingInv, Generated
    <2>5. FencingToken'
        <3>1. ASSUME NEW u \in Tasks, handle'[u] # NoHandle, NEW v \in Tasks,
                     handle'[v] # NoHandle, handle'[v].version = handle'[u].version
              PROVE  HolderOf[v] = HolderOf[u]
            BY <2>1, <2>2, <3>1 DEF FencingInv, FencingToken, Live
        <3>2. ASSUME NEW u \in Tasks, handle'[u] # NoHandle, entry'.version = handle'[u].version
              PROVE  entry'.holder = HolderOf[u]
            BY <2>1, <2>2, <3>2 DEF FencingInv, FencingToken, Live
        <3> QED BY <3>1, <3>2 DEF FencingToken
    <2>6. BackedByEntry'
        <3> SUFFICES ASSUME ~overtaken', NEW u \in Tasks, u \notin undercut', Believes(u)'
                 PROVE  (Live /\ entry.holder = HolderOf[u] /\ handle[u].expires <= entry.expires)'
            BY DEF BackedByEntry
        <3>1. CASE u = t
            <4>1. entry.expires \in Nat
                BY <2>1 DEF Entries
            <4> QED BY <2>1, <2>2, <3>1, <4>1 DEF Live
        <3>2. CASE u # t
            BY <2>1, <2>2, <3>2 DEF FencingInv, BackedByEntry, Believes, Live
        <3> QED BY <3>1, <3>2
    <2>7. OnlyOvertakingOverlaps'
        BY <2>6 DEF BackedByEntry, OnlyOvertakingOverlaps
    <2> QED BY <2>3, <2>4, <2>5, <2>6, <2>7 DEF FencingInv
<1>3. ASSUME NEW t \in Tasks, RenewValidate(t) PROVE FencingInv'
    <2>1. UNCHANGED <<entry, now, nextVersion, handle, overtaken, undercut>>
        BY <1>3 DEF RenewValidate
    <2>2. MemoryTypeOK'
        <3>1. entry.sem \in 0..MaxVersion
            BY <1>0, <1>3 DEF RenewValidate, Live, Entries, FencingInv, Generated, MemoryTypeOK
        <3>2. phase' \in [Tasks -> Phases] /\ sem' \in [Tasks -> 0..MaxVersion]
            BY <1>3, <3>1 DEF RenewValidate, FencingInv, MemoryTypeOK, Phases
        <3> QED BY <2>1, <3>2 DEF FencingInv, MemoryTypeOK
    <2>3. Generated'
        <3>1. entry.sem \in Nat /\ entry.sem <= nextVersion
            BY <1>0, <1>3 DEF RenewValidate, Live, Entries, FencingInv, Generated
        <3>2. \A u \in Tasks : sem'[u] <= nextVersion
            BY <1>3, <3>1 DEF RenewValidate, FencingInv, Generated, MemoryTypeOK
        <3> QED BY <2>1, <3>2 DEF FencingInv, Generated
    <2> QED BY <2>1, <2>2, <2>3 DEF FencingInv, FencingToken, BackedByEntry,
                                    OnlyOvertakingOverlaps, Believes, Live
<1>4. ASSUME NEW t \in Tasks, RenewPermit(t) PROVE FencingInv'
    <2>1. UNCHANGED <<entry, now, nextVersion, handle, sem, overtaken, undercut>>
        BY <1>4 DEF RenewPermit
    <2>2. MemoryTypeOK'
        <3>1. phase' \in [Tasks -> Phases]
            BY <1>0, <1>4 DEF RenewPermit, Phases
        <3> QED BY <2>1, <3>1 DEF FencingInv, MemoryTypeOK
    <2> QED BY <2>1, <2>2 DEF FencingInv, Generated, FencingToken, BackedByEntry,
                              OnlyOvertakingOverlaps, Believes, Live
<1>5. ASSUME NEW t \in Tasks, RenewWrite(t) PROVE FencingInv'
    <2>1. /\ sem' = [sem EXCEPT ![t] = 0] /\ phase' = [phase EXCEPT ![t] = "idle"]
          /\ overtaken' = (overtaken \/ (Live /\ entry.holder # HolderOf[t]))
        BY <1>5 DEF RenewWrite
    <2>2. /\ phase' \in [Tasks -> Phases] /\ overtaken' \in BOOLEAN
          /\ sem' \in [Tasks -> 0..MaxVersion] /\ \A u \in Tasks : sem'[u] <= nextVersion
        BY <1>0, <2>1 DEF Phases
    <2>3. sem[t] \in Nat /\ sem[t] <= nextVersion
        BY <1>0
    <2>4. PICK l \in Leases : Insert(t, l, sem[t])
        BY <1>5 DEF RenewWrite
    <2> QED BY <2>1, <2>2, <2>3, <2>4, InsertStep
<1>6. ASSUME NEW t \in Tasks, RenewAbort(t) PROVE FencingInv'
    <2>1. /\ UNCHANGED <<entry, now, nextVersion, overtaken, undercut>>
          /\ handle' = [handle EXCEPT ![t] = NoHandle] /\ sem' = [sem EXCEPT ![t] = 0]
          /\ phase' = [phase EXCEPT ![t] = "idle"]
        BY <1>6 DEF RenewAbort
    <2>2. \A u \in Tasks : handle'[u] # NoHandle => handle'[u] = handle[u]
        BY <1>0, <2>1
    <2>3. /\ handle' \in [Tasks -> Handles \union {NoHandle}] /\ phase' \in [Tasks -> Phases]
          /\ sem' \in [Tasks -> 0..MaxVersion] /\ \A u \in Tasks : sem'[u] <= nextVersion
        BY <1>0, <2>1 DEF Phases
    <2>4. MemoryTypeOK'
        BY <2>1, <2>3 DEF FencingInv, MemoryTypeOK
    <2>5. Generated' /\ FencingToken'
        BY <2>1, <2>2, <2>3 DEF FencingInv, Generated, FencingToken
    <2>6. BackedByEntry'
        BY <2>1, <2>2 DEF FencingInv, BackedByEntry, Believes, Live
    <2> QED BY <2>4, <2>5, <2>6 DEF FencingInv, BackedByEntry, OnlyOvertakingOverlaps
<1>7. ASSUME NEW t \in Tasks, NEW d \in BOOLEAN, Release(t, d) PROVE FencingInv'
    <2>1. /\ UNCHANGED <<now, nextVersion, phase, sem, overtaken>>
          /\ handle' = [handle EXCEPT ![t] = NoHandle]
          /\ undercut' = (undercut \ {t}) \union Siblings(t)
          /\ entry # NoEntry /\ entry.holder = HolderOf[t]
          /\ entry' = NoEntry \/ entry' = [entry EXCEPT !.locked = FALSE]
        BY <1>7 DEF Release
    <2>2. /\ \A u \in Tasks : handle'[u] # NoHandle => handle'[u] = handle[u] /\ u # t
          /\ handle' \in [Tasks -> Handles \union {NoHandle}]
        BY <1>0, <2>1
    <2>3. /\ entry' \in Entries \union {NoEntry}
          /\ entry' # NoEntry => /\ entry'.holder = entry.holder
                                /\ entry'.version = entry.version /\ entry'.sem = entry.sem
                                /\ entry'.expires = entry.expires
        BY <1>0, <2>1 DEF Entries
    <2>4. MemoryTypeOK'
        <3>1. undercut' \subseteq Tasks
            BY <1>0, <2>1 DEF Siblings
        <3> QED BY <2>1, <2>2, <2>3, <3>1 DEF FencingInv, MemoryTypeOK
    <2>5. Generated'
        BY <2>1, <2>2, <2>3 DEF FencingInv, Generated
    <2>6. FencingToken'
        BY <2>1, <2>2, <2>3 DEF FencingInv, FencingToken
    <2>7. BackedByEntry'
        <3> SUFFICES ASSUME ~overtaken', NEW u \in Tasks, u \notin undercut', Believes(u)'
                     PROVE  FALSE
            BY DEF BackedByEntry
        <3>1. u # t /\ Believes(u) /\ u \notin undercut /\ u \notin Siblings(t)
            BY <2>1, <2>2 DEF Believes
        <3>2. HolderOf[u] = HolderOf[t]
            BY <2>1, <3>1 DEF FencingInv, BackedByEntry
        <3> QED BY <3>1, <3>2 DEF Siblings, Believes
    <2> QED BY <2>4, <2>5, <2>6, <2>7
            DEF FencingInv, BackedByEntry, OnlyOvertakingOverlaps
<1>10. ASSUME NEW t \in Tasks, LockReleaseFails(t) PROVE FencingInv'
    <2>1. /\ UNCHANGED <<entry, now, nextVersion, phase, sem, overtaken, undercut>>
          /\ handle' = [handle EXCEPT ![t] = NoHandle]
        BY <1>10 DEF LockReleaseFails
    <2>2. \A u \in Tasks : handle'[u] # NoHandle => handle'[u] = handle[u]
        BY <1>0, <2>1
    <2>3. MemoryTypeOK'
        <3>1. handle' \in [Tasks -> Handles \union {NoHandle}]
            BY <1>0, <2>1
        <3> QED BY <2>1, <3>1 DEF FencingInv, MemoryTypeOK
    <2>4. Generated' /\ FencingToken'
        BY <2>1, <2>2 DEF FencingInv, Generated, FencingToken
    <2>5. BackedByEntry'
        BY <2>1, <2>2 DEF FencingInv, BackedByEntry, Believes, Live
    <2> QED BY <2>3, <2>4, <2>5 DEF FencingInv, BackedByEntry, OnlyOvertakingOverlaps
<1>8. CASE Tick
    <2>1. UNCHANGED <<entry, nextVersion, handle, phase, sem, overtaken, undercut>> /\ now' = now + 1
          /\ now < MaxTime
        BY <1>8 DEF Tick
    <2>2. MemoryTypeOK'
        <3>1. now' \in 0..MaxTime
            BY <1>0, <2>1
        <3> QED BY <2>1, <3>1 DEF FencingInv, MemoryTypeOK
    <2>3. Generated'
        BY <1>0, <2>1 DEF FencingInv, Generated, Entries, Handles
    <2>4. FencingToken'
        BY <2>1 DEF FencingInv, FencingToken
    <2>5. BackedByEntry'
        BY <1>0, <2>1 DEF FencingInv, BackedByEntry, Believes, Live, Entries, Handles
    <2> QED BY <2>2, <2>3, <2>4, <2>5
            DEF FencingInv, BackedByEntry, OnlyOvertakingOverlaps
<1>9. CASE UNCHANGED memoryVars
    BY <1>9 DEF memoryVars, FencingInv, MemoryTypeOK, Generated, FencingToken, BackedByEntry,
                OnlyOvertakingOverlaps, Believes, Live
<1> QED BY <1>1, <1>2, <1>3, <1>4, <1>5, <1>6, <1>7, <1>8, <1>9, <1>10 DEF MemoryNext

(***************************************************************************)
(* For any tasks, holders and lease durations: a version is a fencing      *)
(* token of one holder, and two holders are both sure of the lock only     *)
(* after the blind write of a renew_lock, or when a task of the same       *)
(* holder_id cut the lease of one of them short (acquire_lock, renew_lock, *)
(* release_lock of memory.rs, renewals aborted at any await included).     *)
(***************************************************************************)
THEOREM FencingHolds == MemorySpec => []FencingInv
BY FencingStart, FencingStep, PTL DEF MemorySpec

(***************************************************************************)
(* A step that moves a live lease from one holder to another is the write  *)
(* of a renewal.                                                           *)
(***************************************************************************)
LEMMA StealStep ==
    ASSUME FencingInv, [MemoryNext]_memoryVars, Live, Live', entry'.holder # entry.holder
    PROVE  \E t \in Tasks : phase[t] = "permit" /\ phase'[t] = "idle" /\ entry'.holder = HolderOf[t]
<1> USE TaskAssumption
<1>0. entry \in Entries /\ phase \in [Tasks -> Phases]
    BY DEF FencingInv, MemoryTypeOK, Live
<1>1. CASE Tick \/ UNCHANGED memoryVars
    BY <1>1 DEF Tick, memoryVars
<1>2. ASSUME NEW t \in Tasks, RenewWrite(t)
      PROVE  phase[t] = "permit" /\ phase'[t] = "idle" /\ entry'.holder = HolderOf[t]
    BY <1>0, <1>2 DEF RenewWrite, Insert
<1>3. ASSUME NEW t \in Tasks, NEW d \in BOOLEAN, Release(t, d) PROVE FALSE
    <2>1. entry' = entry \/ entry' = NoEntry \/ entry' = [entry EXCEPT !.locked = FALSE]
        BY <1>3 DEF Release
    <2> QED BY <1>0, <2>1 DEF Live, Entries
<1>4. ASSUME NEW t \in Tasks, AcquireFree(t) PROVE FALSE
    BY <1>4 DEF AcquireFree
<1>5. ASSUME NEW t \in Tasks,
             AcquireHeld(t) \/ RenewValidate(t) \/ RenewPermit(t) \/ RenewAbort(t)
                \/ LockReleaseFails(t)
      PROVE  FALSE
    BY <1>5 DEF AcquireHeld, RenewValidate, RenewPermit, RenewAbort, LockReleaseFails
<1> QED BY <1>1, <1>2, <1>3, <1>4, <1>5 DEF MemoryNext

(***************************************************************************)
(* A live lease changes hands only by the blind write of a renewal,        *)
(* whatever the tasks do: acquire_lock and release_lock never take it.     *)
(***************************************************************************)
THEOREM OnlyRenewalStealsHolds == MemorySpec => OnlyRenewalSteals
<1>1. FencingInv /\ [MemoryNext]_memoryVars =>
        [Live /\ Live' /\ entry'.holder # entry.holder =>
            \E t \in Tasks : phase[t] = "permit" /\ phase'[t] = "idle"
                             /\ entry'.holder = HolderOf[t]]_memoryVars
    BY StealStep
<1> QED BY <1>1, FencingHolds, PTL DEF MemorySpec, OnlyRenewalSteals

-----------------------------------------------------------------------------
(* The background scheduler.                                               *)

TaskNames == {"main", "worker", "heartbeat"}

\* NoOrphanTasks, of one scheduler.
Accounted(m, w, h, a) ==
    /\ m \notin {"spawned", "waiting", "woken"} =>
          /\ w \notin {"none", "ended"} => "worker" \in a
          /\ h \notin {"none", "ended"} => "heartbeat" \in a
    /\ a # {} => m \in {"releasing", "ok", "error", "stopped", "failed"}

Once(seq) == \A i, j \in 1..Len(seq) : seq[i] = seq[j] => i = j

(***************************************************************************)
(* Dropping the future of a task leaves the others in the queue of the     *)
(* Notify, each once.                                                      *)
(***************************************************************************)
LEMMA WithoutFacts ==
    ASSUME NEW seq \in Seq(TaskNames), Once(seq), NEW t
    PROVE  /\ Without(seq, t) \in Seq(TaskNames) /\ Once(Without(seq, t))
           /\ \A i \in 1..Len(Without(seq, t)) :
                 Without(seq, t)[i] # t /\ \E j \in 1..Len(seq) : Without(seq, t)[i] = seq[j]
<1>1. CASE \E k \in 1..Len(seq) : seq[k] = t
    <2> DEFINE k == CHOOSE i \in 1..Len(seq) : seq[i] = t
               r == [i \in 1..(Len(seq) - 1) |-> IF i < k THEN seq[i] ELSE seq[i + 1]]
    <2>1. k \in 1..Len(seq) /\ seq[k] = t
        BY <1>1
    <2>2. Without(seq, t) = r
        BY <1>1 DEF Without
    <2> HIDE DEF k
    <2>3. Len(seq) \in Nat /\ \A i \in 1..Len(seq) : seq[i] \in TaskNames
        BY LenProperties, ElementOfSeq
    <2>4. \A i \in 1..(Len(seq) - 1) :
            r[i] \in TaskNames /\ r[i] = seq[IF i < k THEN i ELSE i + 1]
        BY <2>1, <2>3
    <2>5. r \in Seq(TaskNames) /\ Len(r) = Len(seq) - 1
        BY <2>1, <2>3, <2>4
    <2> HIDE DEF r
    <2>6. Once(r)
        BY <2>1, <2>3, <2>4, <2>5 DEF Once
    <2>7. \A i \in 1..Len(r) : r[i] # t /\ \E j \in 1..Len(seq) : r[i] = seq[j]
        BY <2>1, <2>3, <2>4, <2>5, SMTT(30) DEF Once
    <2> QED BY <2>2, <2>5, <2>6, <2>7
<1>2. CASE ~\E k \in 1..Len(seq) : seq[k] = t
    BY <1>2 DEF Without
<1> QED BY <1>1, <1>2

(***************************************************************************)
(* A task that is not in the queue joins it at the end.                    *)
(***************************************************************************)
LEMMA QueueUp ==
    ASSUME NEW seq \in Seq(TaskNames), Once(seq), NEW t \in TaskNames,
           \A i \in 1..Len(seq) : seq[i] # t
    PROVE  /\ Append(seq, t) \in Seq(TaskNames) /\ Once(Append(seq, t))
           /\ \A i \in 1..Len(Append(seq, t)) :
                 Append(seq, t)[i] = t \/ \E j \in 1..Len(seq) : Append(seq, t)[i] = seq[j]
<1>1. /\ Append(seq, t) \in Seq(TaskNames) /\ Len(Append(seq, t)) = Len(seq) + 1
      /\ \A i \in 1..Len(seq) : Append(seq, t)[i] = seq[i]
      /\ Append(seq, t)[Len(seq) + 1] = t /\ Len(seq) \in Nat
    BY AppendProperties, LenProperties
<1>2. \A i \in 1..Len(Append(seq, t)) : i \in 1..Len(seq) \/ i = Len(seq) + 1
    BY <1>1
<1> QED BY <1>1, <1>2 DEF Once

(***************************************************************************)
(* notify_one takes the oldest from the queue: the others stay, and it is  *)
(* not among them.                                                         *)
(***************************************************************************)
LEMMA Dequeue ==
    ASSUME NEW seq \in Seq(TaskNames), Once(seq), seq # <<>>
    PROVE  /\ Head(seq) \in TaskNames /\ \E j \in 1..Len(seq) : Head(seq) = seq[j]
           /\ Tail(seq) \in Seq(TaskNames) /\ Once(Tail(seq))
           /\ \A i \in 1..Len(Tail(seq)) :
                 Tail(seq)[i] # Head(seq) /\ \E j \in 1..Len(seq) : Tail(seq)[i] = seq[j]
<1>1. /\ Head(seq) = seq[1] /\ Tail(seq) \in Seq(TaskNames) /\ Len(Tail(seq)) = Len(seq) - 1
      /\ \A i \in 1..Len(Tail(seq)) : Tail(seq)[i] = seq[i + 1]
      /\ Len(seq) \in Nat /\ Len(seq) >= 1
    BY HeadTailProperties, LenProperties, EmptySeq
<1>2. Head(seq) \in TaskNames /\ 1 \in 1..Len(seq)
    BY <1>1, ElementOfSeq
<1>3. \A i \in 1..Len(Tail(seq)) : i + 1 \in 1..Len(seq) /\ i + 1 # 1
    BY <1>1
<1>4. Once(Tail(seq))
    BY <1>1, <1>3 DEF Once
<1> QED BY <1>1, <1>2, <1>3, <1>4 DEF Once

(***************************************************************************)
(* What start() holds depends on where it is: as long as it moves without  *)
(* passing its claim or its return, the claims stay accounted for.         *)
(***************************************************************************)
LEMMA SameClaims ==
    ASSUME ClaimAccounted, active' = active, \A t \in Schedulers : Claimed(t)' <=> Claimed(t)
    PROVE  ClaimAccounted'
BY DEF ClaimAccounted, Claimed

(***************************************************************************)
(* The lock of a node is written only by a start() or a heartbeat of it    *)
(* that has not released its lease.                                        *)
(***************************************************************************)
LEMMA WrittenByHolder ==
    ASSUME SafetyInv, NEW s \in Schedulers, main'[s] \notin {"new", "refused", "ok", "stopped"},
           \A n \in Nodes \ {NodeOf[s]} : row'[n] = row[n],
           \A t \in Schedulers \ {s} : main'[t] = main[t], late \subseteq late'
    PROVE  ReleasedWhenStopped'
<1> SUFFICES ASSUME NEW n \in Nodes, n \notin late',
                    \A t \in Schedulers : NodeOf[t] = n => main'[t] \in {"new", "refused", "ok", "stopped"}
             PROVE  ~row'[n].locked
    BY DEF ReleasedWhenStopped
<1>1. n # NodeOf[s]
    OBVIOUS
<1>2. \A t \in Schedulers : NodeOf[t] = n => main[t] \in {"new", "refused", "ok", "stopped"}
    BY <1>1
<1> QED BY <1>1, <1>2 DEF SafetyInv, ReleasedWhenStopped

(***************************************************************************)
(* What a call on the lock manager does to the row of a node and to the    *)
(* Locks that the schedulers keep.                                         *)
(***************************************************************************)
LEMMA LockEffects ==
    ASSUME SchedulerTypeOK, NEW n \in Nodes,
           NewVersion(n) \/ AcquireEffect(n) \/ UNCHANGED <<row, lease>>
    PROVE  /\ row' \in [Nodes -> [locked: BOOLEAN, live: BOOLEAN]]
           /\ lease' \in [Schedulers -> {"none", "current", "stale"}]
           /\ \A k \in Nodes \ {n} : row'[k] = row[k]
<1>1. CASE NewVersion(n)
    <2>1. [locked |-> TRUE, live |-> TRUE] \in [locked: BOOLEAN, live: BOOLEAN]
        OBVIOUS
    <2> DEFINE w == [locked |-> TRUE, live |-> TRUE]
    <2>2. row' = [row EXCEPT ![n] = w] /\ w \in [locked: BOOLEAN, live: BOOLEAN]
        BY <1>1, <2>1 DEF NewVersion
    <2> HIDE DEF w
    <2>3. row' \in [Nodes -> [locked: BOOLEAN, live: BOOLEAN]] /\ \A k \in Nodes \ {n} : row'[k] = row[k]
        BY <2>2 DEF SchedulerTypeOK
    <2>4. lease' \in [Schedulers -> {"none", "current", "stale"}]
        BY <1>1 DEF NewVersion, SchedulerTypeOK
    <2> QED BY <2>3, <2>4
<1>2. CASE UNCHANGED <<row, lease>>
    BY <1>2 DEF SchedulerTypeOK
<1> QED BY <1>1, <1>2 DEF AcquireEffect

(***************************************************************************)
(* Initially nothing is claimed, spawned or locked.                        *)
(***************************************************************************)
LEMMA SafetyStart == SchedulerInit => SafetyInv
<1> SUFFICES ASSUME SchedulerInit PROVE SafetyInv
    OBVIOUS
<1> USE DEF SchedulerInit
<1>1. SchedulerTypeOK
    <2>1. row \in [Nodes -> [locked: BOOLEAN, live: BOOLEAN]]
        OBVIOUS
    <2>2. waiters \in [Schedulers -> Seq({"main", "worker", "heartbeat"})]
        OBVIOUS
    <2>3. tries \in [Schedulers -> 1..LEASE_RETRY_MAX]
        BY SchedulerAssumption
    <2>4. /\ active \subseteq Nodes /\ permit \in [Schedulers -> BOOLEAN]
          /\ stopped \in [Schedulers -> BOOLEAN] /\ late \subseteq Nodes
          /\ aborted \in [Schedulers -> SUBSET {"worker", "heartbeat"}]
        OBVIOUS
    <2> QED BY <2>1, <2>2, <2>3, <2>4 DEF SchedulerTypeOK, Final
<1>2. ClaimAccounted
    BY DEF ClaimAccounted, Claimed, Final
<1>3. WaitersWait
    BY DEF WaitersWait
<1>4. NoOrphanTasks /\ ReleasedWhenStopped
    BY DEF NoOrphanTasks, ReleasedWhenStopped, Nodes
<1> QED BY <1>1, <1>2, <1>3, <1>4 DEF SafetyInv

(***************************************************************************)
(* One scheduler moves: whoever is left in its queue waits there, and its  *)
(* tasks run only under its lease.                                         *)
(***************************************************************************)
LEMMA OneMoves ==
    ASSUME SafetyInv, NEW s \in Schedulers,
           \A t \in Schedulers \ {s} :
              /\ main'[t] = main[t] /\ worker'[t] = worker[t] /\ heartbeat'[t] = heartbeat[t]
              /\ waiters'[t] = waiters[t] /\ aborted'[t] = aborted[t],
           Once(waiters'[s]),
           \A i \in 1..Len(waiters'[s]) :
              /\ waiters'[s][i] = "main" => main'[s] = "waiting"
              /\ waiters'[s][i] = "worker" => worker'[s] = "select"
              /\ waiters'[s][i] = "heartbeat" => heartbeat'[s] = "select",
           Accounted(main'[s], worker'[s], heartbeat'[s], aborted'[s])
    PROVE  NoOrphanTasks' /\ WaitersWait'
<1>1. NoOrphanTasks'
    <2>1. ASSUME NEW t \in Schedulers
          PROVE  Accounted(main'[t], worker'[t], heartbeat'[t], aborted'[t])
        <3>1. CASE t = s
            BY <3>1
        <3>2. CASE t # s
            BY <3>2 DEF SafetyInv, NoOrphanTasks, Accounted
        <3> QED BY <3>1, <3>2
    <2> QED BY <2>1 DEF NoOrphanTasks, Accounted
<1>2. ASSUME NEW t \in Schedulers
      PROVE  /\ \A i, j \in 1..Len(waiters'[t]) : waiters'[t][i] = waiters'[t][j] => i = j
             /\ \A i \in 1..Len(waiters'[t]) :
                  /\ waiters'[t][i] = "main" => main'[t] = "waiting"
                  /\ waiters'[t][i] = "worker" => worker'[t] = "select"
                  /\ waiters'[t][i] = "heartbeat" => heartbeat'[t] = "select"
    <2>1. CASE t = s
        BY <2>1 DEF Once
    <2>2. CASE t # s
        BY <2>2 DEF SafetyInv, WaitersWait
    <2> QED BY <2>1, <2>2
<1> QED BY <1>1, <1>2 DEF WaitersWait

(***************************************************************************)
(* No lock is taken, and no start() comes to have released its lease.      *)
(***************************************************************************)
LEMMA NothingLocked ==
    ASSUME SafetyInv, NEW s \in Schedulers,
           \A n \in Nodes : row'[n].locked => row[n].locked,
           \A t \in Schedulers \ {s} : main'[t] = main[t],
           main'[s] \in {"new", "refused", "ok", "stopped"}
               => main[s] \in {"new", "refused", "ok", "stopped"}, late \subseteq late'
    PROVE  ReleasedWhenStopped'
<1> SUFFICES ASSUME NEW n \in Nodes, n \notin late',
                    \A t \in Schedulers : NodeOf[t] = n => main'[t] \in {"new", "refused", "ok", "stopped"}
             PROVE  ~row'[n].locked
    BY DEF ReleasedWhenStopped
<1>1. \A t \in Schedulers : NodeOf[t] = n => main[t] \in {"new", "refused", "ok", "stopped"}
    OBVIOUS
<1> QED BY <1>1 DEF SafetyInv, ReleasedWhenStopped

(***************************************************************************)
(* What the invariant says of one scheduler.                               *)
(***************************************************************************)
LEMMA SchedulerFacts ==
    ASSUME SafetyInv, NEW s \in Schedulers
    PROVE  /\ NodeOf[s] \in Nodes /\ waiters[s] \in Seq(TaskNames) /\ Once(waiters[s])
           /\ \A i \in 1..Len(waiters[s]) :
                 /\ waiters[s][i] = "main" => main[s] = "waiting"
                 /\ waiters[s][i] = "worker" => worker[s] = "select"
                 /\ waiters[s][i] = "heartbeat" => heartbeat[s] = "select"
           /\ Accounted(main[s], worker[s], heartbeat[s], aborted[s])
BY DEF SafetyInv, SchedulerTypeOK, WaitersWait, NoOrphanTasks, Accounted, Once, TaskNames, Nodes

(***************************************************************************)
(* start(): the claim, the lease and the two tasks, or the claim given     *)
(* back.                                                                   *)
(***************************************************************************)
LEMMA StartSteps ==
    ASSUME SafetyInv, NEW s \in Schedulers, Start(s) \/ StartAcquired(s) \/ StartFailed(s)
    PROVE  SafetyInv'
<1>0. /\ SchedulerTypeOK /\ main \in [Schedulers -> {"new", "acquiring", "spawned", "waiting", "woken",
                                "releasing", "ok", "error"} \union Final]
      /\ worker \in [Schedulers -> {"none", "looping", "select", "processing", "ended"}]
      /\ heartbeat \in [Schedulers -> {"none", "looping", "select", "renew", "acquire",
                                     "store", "ended"}]
      /\ active \subseteq Nodes
    BY DEF SafetyInv, SchedulerTypeOK
<1>1. CASE Start(s)
    <2>1. /\ main[s] = "new"
          /\ UNCHANGED <<row, worker, heartbeat, tries, lease, permit, waiters, stopped, aborted, late>>
          /\ \/ NodeOf[s] \in active /\ main' = [main EXCEPT ![s] = "refused"] /\ active' = active
             \/ /\ NodeOf[s] \notin active /\ main' = [main EXCEPT ![s] = "acquiring"]
                /\ active' = active \union {NodeOf[s]}
        BY <1>1 DEF Start, notify, aftermath
    <2>2. SchedulerTypeOK'
        BY <1>0, <2>1, SchedulerFacts DEF SchedulerTypeOK, Final
    <2>3. ClaimAccounted'
        <3>1. CASE main' = [main EXCEPT ![s] = "refused"] /\ active' = active
            BY <1>0, <2>1, <3>1, SameClaims DEF Claimed, Final, SafetyInv
        <3>2. CASE /\ NodeOf[s] \notin active /\ main' = [main EXCEPT ![s] = "acquiring"]
                   /\ active' = active \union {NodeOf[s]}
            <4>1. Claimed(s)' /\ \A t \in Schedulers \ {s} : Claimed(t)' <=> Claimed(t)
                BY <1>0, <3>2 DEF Claimed, Final
            <4>2. \A t \in Schedulers : Claimed(t) => NodeOf[t] # NodeOf[s]
                BY <3>2 DEF SafetyInv, ClaimAccounted
            <4>3. active = {NodeOf[t] : t \in {u \in Schedulers : Claimed(u)}} /\ ~Claimed(s)
                BY <2>1 DEF SafetyInv, ClaimAccounted, Claimed
            <4>4. active' = {NodeOf[t] : t \in {u \in Schedulers : Claimed(u)'}}
                BY <3>2, <4>1, <4>3
            <4>5. \A t, u \in Schedulers : Claimed(t)' /\ Claimed(u)' /\ NodeOf[t] = NodeOf[u] => t = u
                BY <4>1, <4>2 DEF SafetyInv, ClaimAccounted
            <4> QED BY <4>4, <4>5 DEF ClaimAccounted
        <3> QED BY <2>1, <3>1, <3>2
    <2>4. main'[s] \in {"refused", "acquiring"} /\ \A t \in Schedulers \ {s} : main'[t] = main[t]
        BY <1>0, <2>1
    <2>5. NoOrphanTasks' /\ WaitersWait'
        <3>1. Accounted(main'[s], worker'[s], heartbeat'[s], aborted'[s])
            BY <2>1, <2>4, SchedulerFacts DEF Accounted
        <3> QED BY <2>1, <2>4, <3>1, SchedulerFacts, OneMoves
    <2>6. ReleasedWhenStopped'
        BY <2>1, <2>4, NothingLocked
    <2> QED BY <2>2, <2>3, <2>5, <2>6 DEF SafetyInv
<1>2. CASE StartAcquired(s)
    <2>1. /\ main[s] = "acquiring"
          /\ UNCHANGED <<active, tries, permit, waiters, stopped, aborted, late>>
          /\ main' = [main EXCEPT ![s] = "spawned"] /\ worker' = [worker EXCEPT ![s] = "looping"]
          /\ heartbeat' = [heartbeat EXCEPT ![s] = "looping"]
          /\ row' = IF Held(NodeOf[s]) THEN row
                    ELSE [row EXCEPT ![NodeOf[s]] = [locked |-> TRUE, live |-> TRUE]]
          /\ lease' = [t \in Schedulers |->
                        IF t = s THEN "current"
                        ELSE IF NodeOf[t] = NodeOf[s] /\ ~Held(NodeOf[s]) /\ lease[t] = "current"
                             THEN "stale" ELSE lease[t]]
        BY <1>2 DEF StartAcquired, notify, aftermath
    <2>2. /\ row' \in [Nodes -> [locked: BOOLEAN, live: BOOLEAN]]
          /\ \A k \in Nodes \ {NodeOf[s]} : row'[k] = row[k]
        <3> DEFINE w == [locked |-> TRUE, live |-> TRUE]
        <3>1. (row' = row \/ row' = [row EXCEPT ![NodeOf[s]] = w]) /\ w \in [locked: BOOLEAN, live: BOOLEAN]
            BY <2>1
        <3> HIDE DEF w
        <3>2. row \in [Nodes -> [locked: BOOLEAN, live: BOOLEAN]] /\ NodeOf[s] \in Nodes
            BY <1>0, SchedulerFacts DEF SchedulerTypeOK
        <3> QED BY <3>1, <3>2
    <2>3. SchedulerTypeOK'
        <3>1. lease' \in [Schedulers -> {"none", "current", "stale"}]
            BY <2>1 DEF SafetyInv, SchedulerTypeOK
        <3>2. /\ main' \in [Schedulers -> {"new", "acquiring", "spawned", "waiting", "woken",
                                "releasing", "ok", "error"} \union Final]
              /\ worker' \in [Schedulers -> {"none", "looping", "select", "processing", "ended"}]
              /\ heartbeat' \in [Schedulers -> {"none", "looping", "select", "renew", "acquire",
                                     "store", "ended"}]
            BY <1>0, <2>1
        <3> QED BY <1>0, <2>1, <2>2, <3>1, <3>2 DEF SchedulerTypeOK
    <2>4. ClaimAccounted'
        BY <1>0, <2>1, SameClaims DEF Claimed, Final, SafetyInv
    <2>5. /\ main'[s] = "spawned"
          /\ \A t \in Schedulers \ {s} : main'[t] = main[t] /\ worker'[t] = worker[t] /\ heartbeat'[t] = heartbeat[t]
        BY <1>0, <2>1
    <2>6. \A i \in 1..Len(waiters[s]) : FALSE
        <3>1. \A i \in 1..Len(waiters[s]) : waiters[s][i] \in TaskNames
            BY SchedulerFacts, ElementOfSeq
        <3>2. worker[s] # "select" /\ heartbeat[s] # "select"
            BY <2>1, SchedulerFacts DEF Accounted
        <3> QED BY <2>1, <3>1, <3>2, SchedulerFacts DEF TaskNames
    <2>7. NoOrphanTasks' /\ WaitersWait'
        <3>1. Accounted(main'[s], worker'[s], heartbeat'[s], aborted'[s])
            BY <2>1, <2>5, SchedulerFacts DEF Accounted
        <3> QED BY <2>1, <2>5, <2>6, <3>1, SchedulerFacts, OneMoves
    <2>8. ReleasedWhenStopped'
        BY <2>1, <2>2, <2>5, WrittenByHolder
    <2> QED BY <2>3, <2>4, <2>7, <2>8 DEF SafetyInv
<1>3. CASE StartFailed(s)
    <2>1. /\ main[s] = "acquiring"
          /\ UNCHANGED <<worker, heartbeat, tries, permit, waiters, stopped, aborted, late>>
          /\ main' = [main EXCEPT ![s] = "failed"] /\ active' = active \ {NodeOf[s]}
          /\ AcquireEffect(NodeOf[s]) \/ UNCHANGED <<row, lease>>
        BY <1>3 DEF StartFailed, notify, aftermath
    <2>2. NodeOf[s] \in Nodes
        BY SchedulerFacts
    <2>3. /\ row' \in [Nodes -> [locked: BOOLEAN, live: BOOLEAN]]
          /\ lease' \in [Schedulers -> {"none", "current", "stale"}]
          /\ \A k \in Nodes \ {NodeOf[s]} : row'[k] = row[k]
        BY <1>0, <2>1, <2>2, LockEffects
    <2>4. SchedulerTypeOK'
        BY <1>0, <2>1, <2>3 DEF SchedulerTypeOK, Final
    <2>5. main'[s] = "failed" /\ \A t \in Schedulers \ {s} : main'[t] = main[t]
        BY <1>0, <2>1
    <2>6. ClaimAccounted'
        <3>1. Claimed(s) /\ ~Claimed(s)' /\ \A t \in Schedulers \ {s} : Claimed(t)' <=> Claimed(t)
            BY <2>1, <2>5 DEF Claimed, Final
        <3> QED BY <2>1, <3>1 DEF SafetyInv, ClaimAccounted
    <2>7. NoOrphanTasks' /\ WaitersWait'
        <3>1. Accounted(main'[s], worker'[s], heartbeat'[s], aborted'[s])
            BY <2>1, <2>5, SchedulerFacts DEF Accounted
        <3> QED BY <2>1, <2>5, <3>1, SchedulerFacts, OneMoves
    <2>8. ReleasedWhenStopped'
        BY <2>1, <2>3, <2>5, WrittenByHolder
    <2> QED BY <2>4, <2>6, <2>7, <2>8 DEF SafetyInv
<1> QED BY <1>1, <1>2, <1>3

(***************************************************************************)
(* start() waits for stop(), aborts its tasks, releases its lease and      *)
(* gives back its claim, with or without an error.                         *)
(***************************************************************************)
LEMMA MainSteps ==
    ASSUME SafetyInv, NEW s \in Schedulers, MainStep(s)
    PROVE  SafetyInv'
<1>0. /\ SchedulerTypeOK /\ main \in [Schedulers -> {"new", "acquiring", "spawned", "waiting", "woken",
                                "releasing", "ok", "error"} \union Final]
      /\ waiters \in [Schedulers -> Seq(TaskNames)]
      /\ active \subseteq Nodes /\ aborted \in [Schedulers -> SUBSET {"worker", "heartbeat"}]
    BY DEF SafetyInv, SchedulerTypeOK, TaskNames
<1>1. CASE AwaitStop(s)
    <2>1. /\ main[s] = "spawned"
          /\ UNCHANGED <<active, row, worker, heartbeat, tries, lease, stopped, aborted, late>>
          /\ \/ /\ main' = [main EXCEPT ![s] = "woken"] /\ permit' = [permit EXCEPT ![s] = FALSE]
                /\ waiters' = waiters
             \/ /\ main' = [main EXCEPT ![s] = "waiting"] /\ permit' = permit
                /\ waiters' = [waiters EXCEPT ![s] = Append(@, "main")]
        BY <1>1 DEF AwaitStop, aftermath
    <2>2. /\ Append(waiters[s], "main") \in Seq(TaskNames) /\ Once(Append(waiters[s], "main"))
          /\ \A i \in 1..Len(Append(waiters[s], "main")) :
                 Append(waiters[s], "main")[i] = "main"
                 \/ \E j \in 1..Len(waiters[s]) : Append(waiters[s], "main")[i] = waiters[s][j]
        <3>1. \A i \in 1..Len(waiters[s]) : waiters[s][i] # "main"
            BY <2>1, SchedulerFacts
        <3>2. waiters[s] \in Seq(TaskNames) /\ Once(waiters[s]) /\ "main" \in TaskNames
            BY SchedulerFacts DEF TaskNames
        <3> QED BY <3>1, <3>2, QueueUp
    <2>3. \/ main'[s] = "woken" /\ waiters'[s] = waiters[s]
          \/ main'[s] = "waiting" /\ waiters'[s] = Append(waiters[s], "main")
        BY <1>0, <2>1
    <2>4. \A t \in Schedulers \ {s} : main'[t] = main[t] /\ waiters'[t] = waiters[t]
        BY <1>0, <2>1
    <2>5. SchedulerTypeOK'
        <3>1. main' \in [Schedulers -> {"new", "acquiring", "spawned", "waiting", "woken",
                                "releasing", "ok", "error"} \union Final]
            BY <1>0, <2>1
        <3>2. waiters' \in [Schedulers -> Seq({"main", "worker", "heartbeat"})]
            BY <1>0, <2>1, <2>2 DEF TaskNames
        <3>3. permit' \in [Schedulers -> BOOLEAN]
            BY <1>0, <2>1 DEF SchedulerTypeOK
        <3> QED BY <1>0, <2>1, <3>1, <3>2, <3>3 DEF SchedulerTypeOK
    <2>6. ClaimAccounted'
        BY <2>1, <2>3, <2>4, SameClaims DEF Claimed, Final, SafetyInv
    <2>7. NoOrphanTasks' /\ WaitersWait'
        <3>1. Once(waiters'[s]) /\ \A i \in 1..Len(waiters'[s]) :
              /\ waiters'[s][i] = "main" => main'[s] = "waiting"
              /\ waiters'[s][i] = "worker" => worker'[s] = "select"
              /\ waiters'[s][i] = "heartbeat" => heartbeat'[s] = "select"
            <4>1. CASE main'[s] = "woken" /\ waiters'[s] = waiters[s]
                BY <2>1, <4>1, SchedulerFacts
            <4>2. CASE main'[s] = "waiting" /\ waiters'[s] = Append(waiters[s], "main")
                <5> DEFINE q == Append(waiters[s], "main")
                <5>1. /\ Once(q) /\ waiters'[s] = q /\ worker'[s] = worker[s] /\ heartbeat'[s] = heartbeat[s]
                      /\ \A i \in 1..Len(q) : q[i] = "main" \/ \E j \in 1..Len(waiters[s]) : q[i] = waiters[s][j]
                    BY <2>1, <2>2, <4>2
                <5> HIDE DEF q
                <5> QED BY <4>2, <5>1, SchedulerFacts
            <4> QED BY <2>3, <4>1, <4>2
        <3>2. Accounted(main'[s], worker'[s], heartbeat'[s], aborted'[s])
            BY <2>1, <2>3, SchedulerFacts DEF Accounted
        <3> QED BY <2>1, <2>3, <2>4, <3>1, <3>2, OneMoves
    <2>8. ReleasedWhenStopped'
        BY <2>1, <2>3, <2>4, NothingLocked
    <2> QED BY <2>5, <2>6, <2>7, <2>8 DEF SafetyInv
<1>2. CASE AbortTasks(s)
    <2> DEFINE w == EndedWait(worker[s])
               h == EndedWait(heartbeat[s])
               a == {"worker", "heartbeat"}
    <2>1. /\ main[s] = "woken" /\ main' = [main EXCEPT ![s] = "releasing"]
          /\ worker' = [worker EXCEPT ![s] = w] /\ heartbeat' = [heartbeat EXCEPT ![s] = h]
          /\ waiters' = [waiters EXCEPT ![s] = <<>>] /\ aborted' = [aborted EXCEPT ![s] = a]
          /\ UNCHANGED <<active, row, tries, lease, permit, stopped, late>>
        BY <1>2 DEF AbortTasks
    <2>2. /\ worker \in [Schedulers -> {"none", "looping", "select", "processing", "ended"}]
          /\ heartbeat \in [Schedulers -> {"none", "looping", "select", "renew", "acquire",
                                     "store", "ended"}]
        BY <1>0 DEF SchedulerTypeOK
    <2>3. /\ w \in {"none", "looping", "select", "processing", "ended"}
          /\ h \in {"none", "looping", "select", "renew", "acquire", "store", "ended"}
        BY <2>2 DEF EndedWait
    <2>4. a \in SUBSET {"worker", "heartbeat"} /\ "worker" \in a /\ "heartbeat" \in a
        OBVIOUS
    <2> HIDE DEF w, h, a
    <2>5. /\ main'[s] = "releasing" /\ aborted'[s] = a /\ waiters'[s] = <<>>
          /\ \A t \in Schedulers \ {s} : /\ main'[t] = main[t] /\ waiters'[t] = waiters[t]
                                         /\ worker'[t] = worker[t] /\ heartbeat'[t] = heartbeat[t]
                                         /\ aborted'[t] = aborted[t]
        BY <1>0, <2>1, <2>2
    <2>6. SchedulerTypeOK'
        <3>1. main' \in [Schedulers -> {"new", "acquiring", "spawned", "waiting", "woken",
                                "releasing", "ok", "error"} \union Final]
            BY <1>0, <2>1
        <3>2. waiters' \in [Schedulers -> Seq({"main", "worker", "heartbeat"})]
            BY <1>0, <2>1 DEF TaskNames
        <3>3. /\ worker' \in [Schedulers -> {"none", "looping", "select", "processing", "ended"}]
              /\ heartbeat' \in [Schedulers -> {"none", "looping", "select", "renew", "acquire",
                                     "store", "ended"}]
            BY <2>1, <2>2, <2>3
        <3>4. aborted' \in [Schedulers -> SUBSET {"worker", "heartbeat"}]
            BY <1>0, <2>1, <2>4
        <3> QED BY <1>0, <2>1, <3>1, <3>2, <3>3, <3>4 DEF SchedulerTypeOK
    <2>7. ClaimAccounted'
        BY <2>1, <2>5, SameClaims DEF Claimed, Final, SafetyInv
    <2>8. NoOrphanTasks' /\ WaitersWait'
        <3>1. Accounted(main'[s], worker'[s], heartbeat'[s], aborted'[s])
            BY <2>4, <2>5 DEF Accounted
        <3> QED BY <2>5, <3>1, OneMoves DEF Once
    <2>9. ReleasedWhenStopped'
        BY <2>1, <2>5, NothingLocked
    <2> QED BY <2>6, <2>7, <2>8, <2>9 DEF SafetyInv
<1>3. CASE ReleaseLease(s)
    <2>1. /\ main[s] = "releasing" /\ main' = [main EXCEPT ![s] = "ok"]
          /\ row' = [row EXCEPT ![NodeOf[s]] = [locked |-> FALSE, live |-> FALSE]]
          /\ lease' = [lease EXCEPT ![s] = "none"] /\ late' = late \ {NodeOf[s]}
          /\ UNCHANGED <<active, worker, heartbeat, tries, permit, waiters, stopped, aborted>>
        BY <1>3 DEF ReleaseLease, notify
    <2>2. main'[s] = "ok" /\ \A t \in Schedulers \ {s} : main'[t] = main[t]
        BY <1>0, <2>1
    <2>3. /\ row' \in [Nodes -> [locked: BOOLEAN, live: BOOLEAN]] /\ ~row'[NodeOf[s]].locked
          /\ \A k \in Nodes \ {NodeOf[s]} : row'[k] = row[k]
        <3>1. row \in [Nodes -> [locked: BOOLEAN, live: BOOLEAN]] /\ NodeOf[s] \in Nodes
            BY <1>0, SchedulerFacts DEF SchedulerTypeOK
        <3> DEFINE w == [locked |-> FALSE, live |-> FALSE]
        <3>2. w \in [locked: BOOLEAN, live: BOOLEAN] /\ w.locked = FALSE
            BY <3>1
        <3>3. row' = [row EXCEPT ![NodeOf[s]] = w]
            BY <2>1
        <3> HIDE DEF w
        <3> QED BY <3>1, <3>2, <3>3
    <2>4. SchedulerTypeOK'
        BY <1>0, <2>1, <2>3 DEF SchedulerTypeOK
    <2>5. ClaimAccounted'
        BY <2>1, <2>2, SameClaims DEF Claimed, Final, SafetyInv
    <2>6. NoOrphanTasks' /\ WaitersWait'
        <3>1. Accounted(main'[s], worker'[s], heartbeat'[s], aborted'[s])
            BY <2>1, <2>2, SchedulerFacts DEF Accounted
        <3> QED BY <2>1, <2>2, <3>1, SchedulerFacts, OneMoves
    <2>7. ReleasedWhenStopped'
        <3> SUFFICES ASSUME NEW n \in Nodes, n # NodeOf[s], n \notin late',
                            \A t \in Schedulers : NodeOf[t] = n => main'[t] \in {"new", "refused", "ok", "stopped"}
                     PROVE  ~row'[n].locked
            BY <2>3 DEF ReleasedWhenStopped
        <3>1. \A t \in Schedulers : NodeOf[t] = n => main[t] \in {"new", "refused", "ok", "stopped"}
            BY <2>2
        <3> QED BY <2>1, <2>3, <3>1 DEF SafetyInv, ReleasedWhenStopped
    <2> QED BY <2>4, <2>5, <2>6, <2>7 DEF SafetyInv
<1>4. CASE ReleaseFails(s)
    <2>1. /\ main[s] = "releasing" /\ main' = [main EXCEPT ![s] = "error"]
          /\ UNCHANGED <<active, row, worker, heartbeat, tries, lease, permit, waiters, stopped,
                         aborted, late>>
        BY <1>4 DEF ReleaseFails, notify, aftermath
    <2>2. main'[s] = "error" /\ \A t \in Schedulers \ {s} : main'[t] = main[t]
        BY <1>0, <2>1
    <2>3. SchedulerTypeOK'
        BY <1>0, <2>1 DEF SchedulerTypeOK
    <2>4. ClaimAccounted'
        BY <2>1, <2>2, SameClaims DEF Claimed, Final, SafetyInv
    <2>5. NoOrphanTasks' /\ WaitersWait'
        <3>1. Accounted(main'[s], worker'[s], heartbeat'[s], aborted'[s])
            BY <2>1, <2>2, SchedulerFacts DEF Accounted
        <3> QED BY <2>1, <2>2, <3>1, SchedulerFacts, OneMoves
    <2>6. ReleasedWhenStopped'
        BY <2>1, <2>2, NothingLocked
    <2> QED BY <2>3, <2>4, <2>5, <2>6 DEF SafetyInv
<1>5. CASE Return(s)
    <2>1. /\ main[s] \in {"ok", "error"} /\ active' = active \ {NodeOf[s]}
          /\ main' = [main EXCEPT ![s] = IF @ = "ok" THEN "stopped" ELSE "failed"]
          /\ UNCHANGED <<row, worker, heartbeat, tries, lease, permit, waiters, stopped, aborted, late>>
        BY <1>5 DEF Return, notify, aftermath
    <2>2. /\ main'[s] = IF main[s] = "ok" THEN "stopped" ELSE "failed"
          /\ \A t \in Schedulers \ {s} : main'[t] = main[t]
        BY <1>0, <2>1
    <2>3. SchedulerTypeOK'
        BY <1>0, <2>1 DEF SchedulerTypeOK, Final
    <2>4. ClaimAccounted'
        <3>1. Claimed(s) /\ ~Claimed(s)' /\ \A t \in Schedulers \ {s} : Claimed(t)' <=> Claimed(t)
            BY <2>1, <2>2 DEF Claimed, Final
        <3> QED BY <2>1, <3>1 DEF SafetyInv, ClaimAccounted
    <2>5. NoOrphanTasks' /\ WaitersWait'
        <3>1. Accounted(main'[s], worker'[s], heartbeat'[s], aborted'[s])
            BY <2>1, <2>2, SchedulerFacts DEF Accounted
        <3> QED BY <2>1, <2>2, <3>1, SchedulerFacts, OneMoves
    <2>6. ReleasedWhenStopped'
        BY <2>1, <2>2, NothingLocked
    <2> QED BY <2>3, <2>4, <2>5, <2>6 DEF SafetyInv
<1> QED BY <1>1, <1>2, <1>3, <1>4, <1>5, StartSteps DEF MainStep

(***************************************************************************)
(* stop() wakes the oldest waiter, which waits, or stores a permit.        *)
(***************************************************************************)
LEMMA StopStep ==
    ASSUME SafetyInv, NEW s \in Schedulers, Stop(s)
    PROVE  SafetyInv'
<1>0. /\ SchedulerTypeOK /\ main \in [Schedulers -> {"new", "acquiring", "spawned", "waiting", "woken",
                                "releasing", "ok", "error"} \union Final]
      /\ worker \in [Schedulers -> {"none", "looping", "select", "processing", "ended"}]
      /\ heartbeat \in [Schedulers -> {"none", "looping", "select", "renew", "acquire",
                                     "store", "ended"}]
      /\ waiters \in [Schedulers -> Seq(TaskNames)]
    BY DEF SafetyInv, SchedulerTypeOK, TaskNames
<1>1. stopped' = [stopped EXCEPT ![s] = TRUE] /\ UNCHANGED <<active, row, tries, lease, aborted, late>>
    BY DEF Stop, aftermath
<1>2. stopped' \in [Schedulers -> BOOLEAN]
    BY <1>0, <1>1 DEF SchedulerTypeOK
<1>3. CASE waiters[s] = <<>>
    <2>1. permit' = [permit EXCEPT ![s] = TRUE] /\ UNCHANGED <<waiters, main, worker, heartbeat>>
        BY <1>3 DEF Stop
    <2>2. permit' \in [Schedulers -> BOOLEAN]
        BY <1>0, <2>1 DEF SchedulerTypeOK
    <2>3. SchedulerTypeOK'
        BY <1>0, <1>1, <1>2, <2>1, <2>2 DEF SchedulerTypeOK
    <2>4. ClaimAccounted'
        BY <1>1, <2>1, SameClaims DEF Claimed, SafetyInv
    <2> QED BY <1>1, <2>1, <2>3, <2>4 DEF SafetyInv, NoOrphanTasks, WaitersWait, ReleasedWhenStopped
<1>4. CASE waiters[s] # <<>>
    <2> DEFINE t == Head(waiters[s])
    <2>1. /\ waiters' = [waiters EXCEPT ![s] = Tail(@)] /\ permit' = permit
          /\ main' = IF t = "main" THEN [main EXCEPT ![s] = "woken"] ELSE main
          /\ worker' = IF t = "worker" THEN [worker EXCEPT ![s] = "ended"] ELSE worker
          /\ heartbeat' = IF t = "heartbeat" THEN [heartbeat EXCEPT ![s] = "ended"] ELSE heartbeat
        BY <1>4 DEF Stop
    <2>2. waiters[s] \in Seq(TaskNames) /\ Once(waiters[s])
        BY SchedulerFacts
    <2>3. /\ t \in TaskNames /\ \E j \in 1..Len(waiters[s]) : t = waiters[s][j]
          /\ Tail(waiters[s]) \in Seq(TaskNames) /\ Once(Tail(waiters[s]))
          /\ \A i \in 1..Len(Tail(waiters[s])) :
                 /\ Tail(waiters[s])[i] # t
                 /\ \E j \in 1..Len(waiters[s]) : Tail(waiters[s])[i] = waiters[s][j]
        BY <1>4, <2>2, Dequeue
    <2> HIDE DEF t
    <2>4. t = "main" => main[s] = "waiting"
        BY <2>3, SchedulerFacts
    <2>5. /\ main'[s] = (IF t = "main" THEN "woken" ELSE main[s])
          /\ worker'[s] = (IF t = "worker" THEN "ended" ELSE worker[s])
          /\ heartbeat'[s] = (IF t = "heartbeat" THEN "ended" ELSE heartbeat[s])
          /\ waiters'[s] = Tail(waiters[s])
          /\ \A u \in Schedulers \ {s} : /\ main'[u] = main[u] /\ waiters'[u] = waiters[u]
                                         /\ worker'[u] = worker[u] /\ heartbeat'[u] = heartbeat[u]
        BY <1>0, <2>1
    <2>6. SchedulerTypeOK'
        <3>1. /\ main' \in [Schedulers -> {"new", "acquiring", "spawned", "waiting", "woken",
                                "releasing", "ok", "error"} \union Final]
              /\ worker' \in [Schedulers -> {"none", "looping", "select", "processing", "ended"}]
              /\ heartbeat' \in [Schedulers -> {"none", "looping", "select", "renew", "acquire",
                                     "store", "ended"}]
            BY <1>0, <2>1
        <3>2. waiters' \in [Schedulers -> Seq({"main", "worker", "heartbeat"})]
            BY <1>0, <2>1, <2>3 DEF TaskNames
        <3> QED BY <1>0, <1>1, <1>2, <2>1, <3>1, <3>2 DEF SchedulerTypeOK
    <2>7. ClaimAccounted'
        BY <1>1, <2>4, <2>5, SameClaims DEF Claimed, Final, SafetyInv
    <2>8. NoOrphanTasks' /\ WaitersWait'
        <3>1. Once(waiters'[s]) /\ \A i \in 1..Len(waiters'[s]) :
              /\ waiters'[s][i] = "main" => main'[s] = "waiting"
              /\ waiters'[s][i] = "worker" => worker'[s] = "select"
              /\ waiters'[s][i] = "heartbeat" => heartbeat'[s] = "select"
            BY <2>3, <2>5, SchedulerFacts
        <3>2. Accounted(main'[s], worker'[s], heartbeat'[s], aborted'[s])
            BY <1>1, <2>4, <2>5, SchedulerFacts DEF Accounted
        <3> QED BY <1>1, <2>5, <3>1, <3>2, OneMoves
    <2>9. ReleasedWhenStopped'
        BY <1>1, <2>4, <2>5, NothingLocked
    <2> QED BY <2>6, <2>7, <2>8, <2>9 DEF SafetyInv
<1> QED BY <1>3, <1>4

(***************************************************************************)
(* A task of a scheduler moves and start() does not: the claims stay, and  *)
(* the task is alive where its start() waits, or was aborted.              *)
(***************************************************************************)
LEMMA TaskMoves ==
    ASSUME SafetyInv, NEW s \in Schedulers, UNCHANGED <<active, main, stopped, aborted>>,
           worker' \in [Schedulers -> {"none", "looping", "select", "processing", "ended"}],
           heartbeat' \in [Schedulers -> {"none", "looping", "select", "renew", "acquire",
                                     "store", "ended"}],
           tries' \in [Schedulers -> 1..LEASE_RETRY_MAX],
           lease' \in [Schedulers -> {"none", "current", "stale"}],
           row' \in [Nodes -> [locked: BOOLEAN, live: BOOLEAN]],
           late' \subseteq Nodes, late \subseteq late',
           row' = row \/ heartbeat[s] \in {"renew", "acquire"},
           row' = row \/ main[s] \notin {"ok", "stopped"} \/ NodeOf[s] \in late',
           \A n \in Nodes \ {NodeOf[s]} : row'[n] = row[n],
           permit' \in [Schedulers -> BOOLEAN],
           waiters' \in [Schedulers -> Seq(TaskNames)],
           \A t \in Schedulers \ {s} : /\ worker'[t] = worker[t] /\ heartbeat'[t] = heartbeat[t]
                                       /\ waiters'[t] = waiters[t],
           Once(waiters'[s]),
           \A i \in 1..Len(waiters'[s]) :
              /\ waiters'[s][i] = "main" => main[s] = "waiting"
              /\ waiters'[s][i] = "worker" => worker'[s] = "select"
              /\ waiters'[s][i] = "heartbeat" => heartbeat'[s] = "select",
           worker'[s] = worker[s] \/ worker[s] \notin {"none", "ended"},
           heartbeat'[s] = heartbeat[s] \/ heartbeat[s] \notin {"none", "ended"}
    PROVE  SafetyInv'
<1>1. SchedulerTypeOK'
    BY DEF SafetyInv, SchedulerTypeOK, TaskNames
<1>2. ClaimAccounted'
    BY SameClaims DEF SafetyInv, Claimed
<1>3. NoOrphanTasks' /\ WaitersWait'
    <2>1. Accounted(main'[s], worker'[s], heartbeat'[s], aborted'[s])
        BY SchedulerFacts DEF Accounted
    <2> QED BY <2>1, OneMoves
<1>4. ReleasedWhenStopped'
    <2>1. CASE row' = row
        BY <2>1 DEF SafetyInv, ReleasedWhenStopped
    <2>2. CASE heartbeat[s] \in {"renew", "acquire"} /\ NodeOf[s] \in late'
        <3> SUFFICES ASSUME NEW n \in Nodes, n \notin late',
                            \A t \in Schedulers : NodeOf[t] = n => main'[t] \in {"new", "refused", "ok", "stopped"}
                     PROVE  ~row'[n].locked
            BY DEF ReleasedWhenStopped
        <3>1. row'[n] = row[n] /\ n \notin late
            BY <2>2
        <3> QED BY <3>1 DEF SafetyInv, ReleasedWhenStopped
    <2>3. CASE heartbeat[s] \in {"renew", "acquire"} /\ main[s] \notin {"ok", "stopped"}
        <3>1. main'[s] \notin {"new", "refused", "ok", "stopped"}
            BY <2>3, SchedulerFacts DEF Accounted
        <3> QED BY <3>1, WrittenByHolder
    <2> QED BY <2>1, <2>2, <2>3
<1> QED BY <1>1, <1>2, <1>3, <1>4 DEF SafetyInv

(***************************************************************************)
(* The worker polls, takes a request and finishes it, or is dropped.       *)
(***************************************************************************)
LEMMA WorkerSteps ==
    ASSUME SafetyInv, NEW s \in Schedulers, WorkerStep(s) \/ WorkerNext(s)
    PROVE  SafetyInv'
<1>0. /\ worker \in [Schedulers -> {"none", "looping", "select", "processing", "ended"}]
      /\ heartbeat \in [Schedulers -> {"none", "looping", "select", "renew", "acquire",
                                     "store", "ended"}]
      /\ waiters \in [Schedulers -> Seq(TaskNames)] /\ permit \in [Schedulers -> BOOLEAN]
      /\ tries \in [Schedulers -> 1..LEASE_RETRY_MAX]
      /\ lease \in [Schedulers -> {"none", "current", "stale"}]
      /\ row \in [Nodes -> [locked: BOOLEAN, live: BOOLEAN]]
    BY DEF SafetyInv, SchedulerTypeOK, TaskNames
<1>1. UNCHANGED <<active, row, main, heartbeat, tries, lease, stopped, aborted, late>> /\ late \subseteq Nodes
    BY DEF WorkerStep, WorkerDropped, WorkerPoll, WorkerDone, WorkerNext, aftermath, SafetyInv, SchedulerTypeOK
<1>2. waiters[s] \in Seq(TaskNames) /\ Once(waiters[s]) /\ "worker" \in TaskNames
    BY SchedulerFacts DEF TaskNames
<1>3. CASE WorkerDropped(s) \/ WorkerDone(s)
    <2>1. PICK p \in {"looping", "ended"} : worker' = [worker EXCEPT ![s] = p]
        BY <1>3 DEF WorkerDropped, WorkerDone
    <2>2. worker[s] \notin {"none", "ended", "select"} /\ UNCHANGED <<permit, waiters>>
        BY <1>3 DEF WorkerDropped, WorkerDone, notify
    <2> QED BY <1>0, <1>1, <2>1, <2>2, SchedulerFacts, TaskMoves
<1>4. CASE WorkerPoll(s)
    <2>1. CASE worker' = [worker EXCEPT ![s] = "ended"] /\ permit' = [permit EXCEPT ![s] = FALSE]
               /\ waiters' = waiters
        <3>1. worker[s] = "looping"
            BY <1>4 DEF WorkerPoll
        <3>2. permit' \in [Schedulers -> BOOLEAN]
            BY <1>0, <2>1
        <3> QED BY <1>0, <1>1, <2>1, <3>1, <3>2, SchedulerFacts, TaskMoves
    <2>2. CASE worker' = [worker EXCEPT ![s] = "select"] /\ permit' = permit
               /\ waiters' = [waiters EXCEPT ![s] = Append(@, "worker")]
        <3>1. worker[s] = "looping"
            BY <1>4 DEF WorkerPoll
        <3>2. \A i \in 1..Len(waiters[s]) : waiters[s][i] # "worker"
            BY <3>1, SchedulerFacts
        <3> DEFINE q == Append(waiters[s], "worker")
        <3>3. /\ q \in Seq(TaskNames) /\ Once(q)
              /\ \A i \in 1..Len(q) : q[i] = "worker" \/ \E j \in 1..Len(waiters[s]) : q[i] = waiters[s][j]
            BY <1>2, <3>2, QueueUp
        <3>4. waiters' = [waiters EXCEPT ![s] = q]
            BY <2>2
        <3> HIDE DEF q
        <3>5. worker'[s] = "select" /\ waiters'[s] = q
            BY <1>0, <2>2, <3>4
        <3>6. \A i \in 1..Len(q) :
                /\ q[i] = "main" => main[s] = "waiting"
                /\ q[i] = "heartbeat" => heartbeat[s] = "select"
            BY <3>3, SchedulerFacts
        <3>7. waiters' \in [Schedulers -> Seq(TaskNames)] /\ \A t \in Schedulers \ {s} : waiters'[t] = waiters[t]
            BY <1>0, <3>3, <3>4
        <3> QED BY <1>0, <1>1, <2>2, <3>1, <3>3, <3>5, <3>6, <3>7, TaskMoves, ZenonT(40)
    <2> QED BY <1>4, <2>1, <2>2 DEF WorkerPoll
<1>5. CASE WorkerNext(s)
    <2>1. PICK p \in {"processing", "ended"} : worker' = [worker EXCEPT ![s] = p]
        BY <1>5 DEF WorkerNext
    <2> DEFINE q == Without(waiters[s], "worker")
    <2>2. /\ worker[s] \in {"looping", "select"} /\ permit' = permit
          /\ waiters' = [waiters EXCEPT ![s] = q]
        BY <1>5 DEF WorkerNext, Leave
    <2>3. /\ q \in Seq(TaskNames) /\ Once(q)
          /\ \A i \in 1..Len(q) : q[i] # "worker" /\ \E j \in 1..Len(waiters[s]) : q[i] = waiters[s][j]
        <3>1. waiters[s] \in Seq(TaskNames) /\ Once(waiters[s])
            BY <1>2
        <3> QED BY <3>1, WithoutFacts
    <2> HIDE DEF q
    <2>4. \A i \in 1..Len(q) :
            /\ q[i] # "worker"
            /\ q[i] = "main" => main[s] = "waiting"
            /\ q[i] = "heartbeat" => heartbeat[s] = "select"
        BY <2>3, SchedulerFacts
    <2>5. /\ waiters' \in [Schedulers -> Seq(TaskNames)] /\ waiters'[s] = q
          /\ \A t \in Schedulers \ {s} : waiters'[t] = waiters[t]
        BY <1>0, <2>2, <2>3
    <2> QED BY <1>0, <1>1, <2>1, <2>2, <2>3, <2>4, <2>5, TaskMoves
<1> QED BY <1>3, <1>4, <1>5 DEF WorkerStep

(***************************************************************************)
(* The heartbeat polls, renews, acquires, stores what it got, or ends.     *)
(***************************************************************************)
LEMMA HeartbeatSteps ==
    ASSUME SafetyInv, NEW s \in Schedulers, HeartbeatStep(s) \/ HeartbeatTick(s)
    PROVE  SafetyInv'
<1>0. /\ worker \in [Schedulers -> {"none", "looping", "select", "processing", "ended"}]
      /\ heartbeat \in [Schedulers -> {"none", "looping", "select", "renew", "acquire",
                                     "store", "ended"}]
      /\ waiters \in [Schedulers -> Seq(TaskNames)] /\ permit \in [Schedulers -> BOOLEAN]
      /\ tries \in [Schedulers -> 1..LEASE_RETRY_MAX]
      /\ lease \in [Schedulers -> {"none", "current", "stale"}]
      /\ row \in [Nodes -> [locked: BOOLEAN, live: BOOLEAN]]
      /\ SchedulerTypeOK
    BY DEF SafetyInv, SchedulerTypeOK, TaskNames
<1>1. UNCHANGED <<active, main, worker, stopped, aborted>> /\ late \subseteq Nodes
    BY DEF HeartbeatStep, HeartbeatPoll, HeartbeatStore, RenewWritten, RenewAdopts, RenewFails,
           AcquireWritten, AcquireFails, HeartbeatDropped, HeartbeatTick, aftermath, SafetyInv,
           SchedulerTypeOK
<1>2. waiters[s] \in Seq(TaskNames) /\ Once(waiters[s]) /\ "heartbeat" \in TaskNames /\ NodeOf[s] \in Nodes
    BY SchedulerFacts DEF TaskNames
<1>3. CASE HeartbeatStore(s) \/ RenewAdopts(s)
    <2>1. /\ heartbeat[s] \in {"store", "renew"}
          /\ heartbeat' = [heartbeat EXCEPT ![s] = "looping"]
          /\ UNCHANGED <<row, permit, waiters, late>>
          /\ lease' = [lease EXCEPT ![s] = "current"]
          /\ tries' = tries \/ tries' = [tries EXCEPT ![s] = 1]
        BY <1>3 DEF HeartbeatStore, RenewAdopts, StoreLease, FirstTry, notify, aftermath
    <2>2. /\ lease' \in [Schedulers -> {"none", "current", "stale"}]
          /\ tries' \in [Schedulers -> 1..LEASE_RETRY_MAX]
        BY <1>0, <2>1, SchedulerAssumption
    <2> QED BY <1>0, <1>1, <2>1, <2>2, SchedulerFacts, TaskMoves
<1>4. CASE HeartbeatPoll(s)
    <2>0. heartbeat[s] = "looping" /\ UNCHANGED <<row, tries, lease, late>>
        BY <1>4 DEF HeartbeatPoll, aftermath
    <2>1. CASE heartbeat' = [heartbeat EXCEPT ![s] = "ended"] /\ permit' = [permit EXCEPT ![s] = FALSE]
               /\ waiters' = waiters
        <3>1. permit' \in [Schedulers -> BOOLEAN]
            BY <1>0, <2>1
        <3> QED BY <1>0, <1>1, <2>0, <2>1, <3>1, SchedulerFacts, TaskMoves
    <2>2. CASE heartbeat' = [heartbeat EXCEPT ![s] = "select"] /\ permit' = permit
               /\ waiters' = [waiters EXCEPT ![s] = Append(@, "heartbeat")]
        <3>1. \A i \in 1..Len(waiters[s]) : waiters[s][i] # "heartbeat"
            BY <2>0, SchedulerFacts
        <3> DEFINE q == Append(waiters[s], "heartbeat")
        <3>2. /\ q \in Seq(TaskNames) /\ Once(q)
              /\ \A i \in 1..Len(q) : q[i] = "heartbeat" \/ \E j \in 1..Len(waiters[s]) : q[i] = waiters[s][j]
            BY <1>2, <3>1, QueueUp
        <3>3. waiters' = [waiters EXCEPT ![s] = q]
            BY <2>2
        <3> HIDE DEF q
        <3>4. heartbeat'[s] = "select" /\ waiters'[s] = q
            BY <1>0, <2>2, <3>3
        <3>5. \A i \in 1..Len(q) :
                /\ q[i] = "main" => main[s] = "waiting"
                /\ q[i] = "worker" => worker[s] = "select"
            BY <3>2, SchedulerFacts
        <3>6. waiters' \in [Schedulers -> Seq(TaskNames)] /\ \A t \in Schedulers \ {s} : waiters'[t] = waiters[t]
            BY <1>0, <3>2, <3>3
        <3> QED BY <1>0, <1>1, <2>0, <2>2, <3>2, <3>4, <3>5, <3>6, TaskMoves, ZenonT(40)
    <2> QED BY <1>4, <2>1, <2>2 DEF HeartbeatPoll
<1>5. CASE HeartbeatTick(s)
    <2> DEFINE q == Without(waiters[s], "heartbeat")
    <2>1. /\ heartbeat[s] \in {"looping", "select"} /\ UNCHANGED <<row, tries, lease, permit, late>>
          /\ heartbeat' = [heartbeat EXCEPT ![s] = "renew"]
          /\ waiters' = [waiters EXCEPT ![s] = q]
        BY <1>5 DEF HeartbeatTick, Leave, aftermath
    <2>2. /\ q \in Seq(TaskNames) /\ Once(q)
          /\ \A i \in 1..Len(q) : q[i] # "heartbeat" /\ \E j \in 1..Len(waiters[s]) : q[i] = waiters[s][j]
        <3>1. waiters[s] \in Seq(TaskNames) /\ Once(waiters[s])
            BY <1>2
        <3> QED BY <3>1, WithoutFacts
    <2> HIDE DEF q
    <2>3. \A i \in 1..Len(q) :
            /\ q[i] # "heartbeat"
            /\ q[i] = "main" => main[s] = "waiting"
            /\ q[i] = "worker" => worker[s] = "select"
        BY <2>2, SchedulerFacts
    <2>4. /\ waiters' \in [Schedulers -> Seq(TaskNames)] /\ waiters'[s] = q
          /\ \A t \in Schedulers \ {s} : waiters'[t] = waiters[t]
        BY <1>0, <2>1, <2>2
    <2> QED BY <1>0, <1>1, <2>1, <2>2, <2>3, <2>4, TaskMoves
<1>6. CASE RenewWritten(s) \/ RenewFails(s) \/ AcquireWritten(s) \/ AcquireFails(s)
           \/ HeartbeatDropped(s)
    <2>1. /\ heartbeat[s] \in {"looping", "renew", "acquire", "store"} /\ UNCHANGED <<permit, waiters>>
          /\ NewVersion(NodeOf[s]) \/ AcquireEffect(NodeOf[s]) \/ UNCHANGED <<row, lease>>
          /\ row' = row \/ heartbeat[s] \in {"renew", "acquire"}
          /\ Written(s)
        BY <1>6 DEF RenewWritten, RenewFails, AcquireWritten, AcquireFails, HeartbeatDropped,
                    RenewLost, AcquireLost, notify
    <2>2. /\ row' \in [Nodes -> [locked: BOOLEAN, live: BOOLEAN]]
          /\ lease' \in [Schedulers -> {"none", "current", "stale"}]
          /\ \A k \in Nodes \ {NodeOf[s]} : row'[k] = row[k]
        BY <1>0, <1>2, <2>1, LockEffects
    <2>3. /\ late' \subseteq Nodes /\ late \subseteq late'
          /\ row' = row \/ main[s] \notin {"ok", "stopped"} \/ NodeOf[s] \in late'
        BY <1>1, <1>2, <2>1 DEF Written
    <2>4. /\ tries' \in [Schedulers -> 1..LEASE_RETRY_MAX]
          /\ \/ heartbeat' = heartbeat
             \/ \E p \in {"store", "acquire", "ended"} : heartbeat' = [heartbeat EXCEPT ![s] = p]
        <3>0. ASSUME FirstTry(s) PROVE tries' \in [Schedulers -> 1..LEASE_RETRY_MAX]
            <4>1. 1 \in 1..LEASE_RETRY_MAX
                BY SchedulerAssumption
            <4> QED BY <1>0, <3>0, <4>1 DEF FirstTry
        <3>1. CASE RenewWritten(s) \/ AcquireWritten(s) \/ HeartbeatDropped(s)
            BY <3>0, <3>1 DEF RenewWritten, AcquireWritten, HeartbeatDropped
        <3>2. CASE NextAttempt(s)
            <4>1. CASE tries[s] < LEASE_RETRY_MAX /\ "heartbeat" \notin aborted[s]
                <5>1. tries' = [tries EXCEPT ![s] = tries[s] + 1] /\ heartbeat' = heartbeat
                    BY <3>2, <4>1 DEF NextAttempt
                <5>2. tries[s] + 1 \in 1..LEASE_RETRY_MAX
                    BY <1>0, <4>1, SchedulerAssumption
                <5> QED BY <1>0, <5>1, <5>2
            <4>2. CASE tries[s] < LEASE_RETRY_MAX /\ "heartbeat" \in aborted[s]
                BY <3>0, <3>2, <4>2 DEF NextAttempt
            <4>3. CASE ~(tries[s] < LEASE_RETRY_MAX)
                <5>1. /\ FirstTry(s)
                      /\ \E p \in {"acquire", "ended"} : heartbeat' = [heartbeat EXCEPT ![s] = p]
                    BY <3>2, <4>3 DEF NextAttempt
                <5> QED BY <3>0, <5>1
            <4> QED BY <4>1, <4>2, <4>3
        <3> QED BY <1>6, <3>1, <3>2 DEF RenewFails, AcquireFails
    <2>5. /\ heartbeat' \in [Schedulers -> {"none", "looping", "select", "renew", "acquire",
                                     "store", "ended"}]
          /\ \A t \in Schedulers \ {s} : heartbeat'[t] = heartbeat[t]
        BY <1>0, <2>4
    <2>6. \A i \in 1..Len(waiters[s]) : waiters[s][i] # "heartbeat"
        BY <2>1, SchedulerFacts
    <2> QED BY <1>0, <1>1, <2>1, <2>2, <2>3, <2>4, <2>5, <2>6, SchedulerFacts, TaskMoves, ZenonT(40)
<1> QED BY <1>3, <1>4, <1>5, <1>6 DEF HeartbeatStep

(***************************************************************************)
(* Every step of start(), of stop(), of the two tasks and of the lease     *)
(* keeps the claim, the tasks and the lock of a node together.             *)
(***************************************************************************)
LEMMA SafetyStep == SafetyInv /\ [SchedulerNext]_schedulerVars => SafetyInv'
<1> SUFFICES ASSUME SafetyInv, [SchedulerNext]_schedulerVars PROVE SafetyInv'
    OBVIOUS
<1>1. ASSUME NEW n \in Nodes, Expire(n) PROVE SafetyInv'
    <2>1. /\ row' = [row EXCEPT ![n].live = FALSE]
          /\ UNCHANGED <<active, main, worker, heartbeat, tries, lease, permit, waiters, stopped,
                         aborted, late>>
        BY <1>1 DEF Expire, notify, aftermath
    <2>2. row \in [Nodes -> [locked: BOOLEAN, live: BOOLEAN]]
        BY DEF SafetyInv, SchedulerTypeOK
    <2>3. /\ row' \in [Nodes -> [locked: BOOLEAN, live: BOOLEAN]]
          /\ \A k \in Nodes : row'[k].locked = row[k].locked
        <3> DEFINE w == [row[n] EXCEPT !.live = FALSE]
        <3>1. w \in [locked: BOOLEAN, live: BOOLEAN] /\ w.locked = row[n].locked
            BY <2>2
        <3>2. row' = [row EXCEPT ![n] = w]
            BY <2>1
        <3> HIDE DEF w
        <3> QED BY <2>2, <3>1, <3>2
    <2>4. SchedulerTypeOK'
        BY <2>1, <2>3 DEF SafetyInv, SchedulerTypeOK
    <2>5. ClaimAccounted'
        BY <2>1, SameClaims DEF SafetyInv, Claimed
    <2>6. NoOrphanTasks' /\ WaitersWait' /\ ReleasedWhenStopped'
        BY <2>1, <2>3 DEF SafetyInv, NoOrphanTasks, WaitersWait, ReleasedWhenStopped
    <2> QED BY <2>4, <2>5, <2>6 DEF SafetyInv
<1>2. CASE UNCHANGED schedulerVars
    BY <1>2 DEF schedulerVars, SafetyInv, SchedulerTypeOK, ClaimAccounted, Claimed, NoOrphanTasks,
                WaitersWait, ReleasedWhenStopped
<1> QED BY <1>1, <1>2, StartSteps, MainSteps, StopStep, WorkerSteps, HeartbeatSteps
        DEF SchedulerNext

(***************************************************************************)
(* For any number of schedulers and nodes: a node has one start() past its *)
(* claim and the set of claims is exact, a task that runs outside the wait *)
(* of its start() was aborted, stop() wakes only who waits, and a node     *)
(* whose start()s have all returned Ok is unlocked, unless an aborted      *)
(* heartbeat took the lock in its last poll (background.rs: start, stop,   *)
(* run_worker_loop, the heartbeat).                                        *)
(***************************************************************************)
THEOREM SchedulerSafe == SchedulerSpec => []SafetyInv
BY SafetyStart, SafetyStep, PTL DEF SchedulerSpec

(***************************************************************************)
(* Whichever of the two is followed, both invariants hold.                 *)
(***************************************************************************)
THEOREM CoordinationHolds ==
    CoordinationSpec => [](FencingInv /\ SafetyInv)
<1>1. CoordinationInit => FencingInv /\ SafetyInv
    BY FencingStart, SafetyStart DEF CoordinationInit
<1>2. [CoordinationNext]_coordinationVars => [MemoryNext]_memoryVars /\ [SchedulerNext]_schedulerVars
    BY DEF CoordinationNext, Locking, Scheduling, coordinationVars
<1>3. FencingInv /\ SafetyInv /\ [CoordinationNext]_coordinationVars => FencingInv' /\ SafetyInv'
    BY <1>2, FencingStep, SafetyStep
<1> QED BY <1>1, <1>3, PTL DEF CoordinationSpec
=============================================================================
