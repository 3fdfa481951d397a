-------------------------- MODULE SupervisorProofs --------------------------
(***************************************************************************)
(* Proofs about the supervisor, for every set of callers and children,     *)
(* every assignment of restart policies and every bound.                   *)
(***************************************************************************)
EXTENDS Supervisor, SequenceTheorems, TLAPS

-----------------------------------------------------------------------------
(* Sequences of ids and of tasks.                                          *)

(***************************************************************************)
(* What the rest of a sequence holds: restart_one and shutdown take the    *)
(* first of what they have left.                                           *)
(***************************************************************************)
LEMMA RestOf ==
    ASSUME NEW S, NEW s \in Seq(S), s # <<>>
    PROVE  /\ Tail(s) \in Seq(S)
           /\ Head(s) \in Range(s)
           /\ Range(s) = {Head(s)} \cup Range(Tail(s))
<1>1. Tail(s) \in Seq(S) /\ Len(Tail(s)) = Len(s) - 1 /\ Len(s) \in Nat \ {0}
      /\ Head(s) = s[1] /\ \A i \in 1..Len(Tail(s)) : Tail(s)[i] = s[i + 1]
    BY HeadTailProperties, EmptySeq
<1>2. DOMAIN s = 1..Len(s) /\ DOMAIN Tail(s) = 1..Len(Tail(s))
    BY <1>1, LenProperties
<1>3. ASSUME NEW x \in Range(s) PROVE x = Head(s) \/ x \in Range(Tail(s))
    <2>1. PICK i \in 1..Len(s) : x = s[i]
        BY <1>2 DEF Range
    <2>2. CASE i # 1
        <3>1. i - 1 \in 1..Len(Tail(s)) /\ Tail(s)[i - 1] = s[i]
            BY <1>1, <2>2
        <3> QED BY <1>2, <2>1, <3>1 DEF Range
    <2> QED BY <1>1, <2>1, <2>2
<1>4. ASSUME NEW x \in Range(Tail(s)) PROVE x \in Range(s)
    <2>1. PICK i \in 1..Len(Tail(s)) : x = Tail(s)[i]
        BY <1>2 DEF Range
    <2>2. i + 1 \in 1..Len(s) /\ x = s[i + 1]
        BY <1>1, <2>1
    <2> QED BY <1>2, <2>2 DEF Range
<1>5. Head(s) \in Range(s)
    BY <1>1, <1>2 DEF Range
<1> QED BY <1>1, <1>3, <1>4, <1>5

(***************************************************************************)
(* IndexMap::insert of a new id.                                           *)
(***************************************************************************)
LEMMA AddedLast ==
    ASSUME NEW S, NEW s \in Seq(S), NEW e \in S, IsInjective(s), e \notin Range(s)
    PROVE  /\ Append(s, e) \in Seq(S)
           /\ IsInjective(Append(s, e))
           /\ Range(Append(s, e)) = Range(s) \cup {e}
<1> DEFINE t == Append(s, e)
<1>1. /\ t \in Seq(S) /\ Len(t) = Len(s) + 1 /\ Len(s) \in Nat
      /\ \A i \in 1..Len(s) : t[i] = s[i]
      /\ t[Len(s) + 1] = e
    BY AppendProperties, LenProperties
<1>2. DOMAIN s = 1..Len(s) /\ DOMAIN t = 1..(Len(s) + 1)
    BY <1>1, LenProperties
<1>3. \A i \in 1..Len(s) : t[i] # e
    BY <1>1, <1>2 DEF Range
<1> HIDE DEF t
<1>4. IsInjective(t)
    BY <1>1, <1>2, <1>3 DEF IsInjective
<1>5. Range(t) = Range(s) \cup {e}
    BY <1>1, <1>2 DEF Range
<1> QED BY <1>1, <1>4, <1>5 DEF t

(***************************************************************************)
(* IndexMap::shift_remove.                                                 *)
(***************************************************************************)
LEMMA RemovedAt ==
    ASSUME NEW S, NEW s \in Seq(S), IsInjective(s), NEW i \in DOMAIN s
    PROVE  /\ RemoveAt(s, i) \in Seq(S)
           /\ IsInjective(RemoveAt(s, i))
           /\ Range(RemoveAt(s, i)) = Range(s) \ {s[i]}
<1> DEFINE n == Len(s)
           a == SubSeq(s, 1, i - 1)
           b == SubSeq(s, i + 1, n)
           t == RemoveAt(s, i)
<1>1. n \in Nat /\ DOMAIN s = 1..n /\ i \in 1..n /\ \A k \in 1..n : s[k] \in S
    BY LenProperties, ElementOfSeq
<1> HIDE DEF n
<1>2. a \in Seq(S) /\ Len(a) = i - 1 /\ \A k \in 1..(i - 1) : a[k] = s[k]
    <2>1. \A k \in 1..(i - 1) : s[k] \in S
        BY <1>1
    <2>2. 1 \in Int /\ i - 1 \in Int
        BY <1>1
    <2>3. a \in Seq(S) /\ Len(a) = (IF 1 <= i - 1 THEN (i - 1) - 1 + 1 ELSE 0)
          /\ \A k \in 1..((i - 1) - 1 + 1) : a[k] = s[1 + k - 1]
        BY <2>1, <2>2, SubSeqProperties
    <2> QED BY <1>1, <2>3
<1>3. b \in Seq(S) /\ Len(b) = n - i /\ \A k \in 1..(n - i) : b[k] = s[i + k]
    <2>1. \A k \in (i + 1)..n : s[k] \in S
        BY <1>1
    <2>2. i + 1 \in Int /\ n \in Int
        BY <1>1
    <2>3. b \in Seq(S) /\ Len(b) = (IF i + 1 <= n THEN n - (i + 1) + 1 ELSE 0)
          /\ \A k \in 1..(n - (i + 1) + 1) : b[k] = s[(i + 1) + k - 1]
        BY <2>1, <2>2, SubSeqProperties
    <2> QED BY <1>1, <2>3
<1>4. t = a \o b
    BY DEF RemoveAt, n
<1> HIDE DEF a, b, t
<1>5. t \in Seq(S) /\ Len(t) = n - 1
      /\ \A k \in 1..(n - 1) : t[k] = IF k <= i - 1 THEN s[k] ELSE s[k + 1]
    <2>1. t \in Seq(S) /\ Len(t) = Len(a) + Len(b)
          /\ \A k \in 1..(Len(a) + Len(b)) :
               t[k] = IF k <= Len(a) THEN a[k] ELSE b[k - Len(a)]
        BY <1>2, <1>3, <1>4, ConcatProperties
    <2>2. Len(t) = n - 1
        BY <1>1, <1>2, <1>3, <2>1
    <2>3. ASSUME NEW k \in 1..(n - 1) PROVE t[k] = IF k <= i - 1 THEN s[k] ELSE s[k + 1]
        <3>1. CASE k <= i - 1
            BY <1>1, <1>2, <1>3, <2>1, <3>1
        <3>2. CASE ~(k <= i - 1)
            <4>1. k - Len(a) \in 1..(n - i) /\ i + (k - Len(a)) = k + 1
                BY <1>1, <1>2, <3>2
            <4>2. t[k] = b[k - Len(a)]
                BY <1>1, <1>2, <1>3, <2>1, <3>2
            <4> QED BY <1>3, <3>2, <4>1, <4>2
        <3> QED BY <3>1, <3>2
    <2> QED BY <2>1, <2>2, <2>3
<1>6. DOMAIN t = 1..(n - 1)
    BY <1>5, LenProperties
<1>7. IsInjective(t)
    <2> SUFFICES ASSUME NEW j \in 1..(n - 1), NEW k \in 1..(n - 1), t[j] = t[k]
                 PROVE  j = k
        BY <1>6 DEF IsInjective
    <2>1. \A x, y \in 1..n : s[x] = s[y] => x = y
        BY <1>1 DEF IsInjective
    <2>2. j \in 1..n /\ k \in 1..n /\ j + 1 \in 1..n /\ k + 1 \in 1..n
        BY <1>1
    <2> QED BY <1>1, <1>5, <2>1, <2>2
<1>8. ASSUME NEW x \in Range(t) PROVE x \in Range(s) \ {s[i]}
    <2>1. PICK k \in 1..(n - 1) : x = t[k]
        BY <1>6, <1>8 DEF Range
    <2>2. \A y, z \in 1..n : s[y] = s[z] => y = z
        BY <1>1 DEF IsInjective
    <2>3. k \in 1..n /\ k + 1 \in 1..n
        BY <1>1
    <2>4. x \in {s[y] : y \in 1..n}
        BY <1>5, <2>1, <2>3
    <2>5. x # s[i]
        BY <1>1, <1>5, <2>1, <2>2, <2>3
    <2> QED BY <1>1, <2>4, <2>5 DEF Range
<1>9. ASSUME NEW x \in Range(s) \ {s[i]} PROVE x \in Range(t)
    <2>1. PICK k \in 1..n : x = s[k]
        BY <1>1, <1>9 DEF Range
    <2>2. k < i \/ k > i
        BY <1>1, <1>9, <2>1
    <2>3. CASE k < i
        <3>1. k \in 1..(n - 1) /\ t[k] = x
            BY <1>1, <1>5, <2>1, <2>3
        <3> QED BY <1>6, <3>1 DEF Range
    <2>4. CASE k > i
        <3>1. k - 1 \in 1..(n - 1) /\ (k - 1) + 1 = k /\ ~(k - 1 <= i - 1)
            BY <1>1, <2>4
        <3>2. t[k - 1] = x
            BY <1>5, <2>1, <3>1
        <3> QED BY <1>6, <3>1, <3>2 DEF Range
    <2> QED BY <2>2, <2>3, <2>4
<1> QED BY <1>5, <1>7, <1>8, <1>9 DEF t

(***************************************************************************)
(* shutdown() stops in reverse order what it collected.                    *)
(***************************************************************************)
LEMMA ReversedHolds ==
    ASSUME NEW S, NEW s \in Seq(S)
    PROVE  Reverse(s) \in Seq(S) /\ Range(Reverse(s)) = Range(s)
<1> DEFINE n == Len(s)
           t == Reverse(s)
<1>1. n \in Nat /\ DOMAIN s = 1..n /\ \A k \in 1..n : s[k] \in S
    BY LenProperties, ElementOfSeq
<1>2. t = [k \in 1..n |-> s[(n - k) + 1]]
    BY DEF Reverse
<1> HIDE DEF n, t
<1>3. \A k \in 1..n : (n - k) + 1 \in 1..n /\ t[k] = s[(n - k) + 1]
    BY <1>1, <1>2
<1>4. t \in [1..n -> S]
    BY <1>1, <1>2, <1>3
<1>5. t \in Seq(S)
    BY <1>1, <1>4, SeqDef
<1>6. DOMAIN t = 1..n
    BY <1>2
<1>7. ASSUME NEW x \in Range(s) PROVE x \in Range(t)
    <2>1. PICK k \in 1..n : x = s[k]
        BY <1>1, <1>7 DEF Range
    <2>2. (n - k) + 1 \in 1..n /\ (n - ((n - k) + 1)) + 1 = k
        BY <1>1
    <2> QED BY <1>3, <1>6, <2>1, <2>2 DEF Range
<1>8. ASSUME NEW x \in Range(t) PROVE x \in Range(s)
    BY <1>1, <1>3, <1>6, <1>8 DEF Range
<1> QED BY <1>5, <1>7, <1>8 DEF t

-----------------------------------------------------------------------------
(* One call goes on.                                                       *)

\* What CallsInStep says of one call.
InStep(r) ==
    /\ r.locks = LocksAt(r.pc)
    /\ r.pc \in {"failed", "adapt", "adapted", "collect", "insert"} => r.id \in Ids
    /\ r.pc = "adapt" => r.plan \in {"adaptOne", "adaptAll", "adaptRest"}
    /\ r.pc \in {"adapted", "collect"} => r.plan \in {"one", "all", "rest"}
    /\ r.pc \in {"midStopped", "collectOwn"} => r.todo = <<>>
    /\ r.pc = "restarted" => r.todo # <<>>
    /\ r.task # 0 => r.pc = "insert"

\* The call of c becomes r, which excludes no other call.
Moves(c, r) ==
    /\ call' = [call EXCEPT ![c] = r]
    /\ r \in CallRecords' /\ InStep(r)
    /\ \A d \in Callers \ {c} :
         /\ r.locks \cap call[d].locks = {}
         /\ r.pc \in Exclusive => call[d].pc = "idle"
         /\ call[d].pc \in Exclusive => r.pc = "idle"

(***************************************************************************)
(* A step of one call leaves the others where they are, and a task that is *)
(* started since is above all that were.                                   *)
(***************************************************************************)
LEMMA CallMoves ==
    ASSUME SupervisorInv, NEW c \in Callers, NEW r, Moves(c, r),
           last' \in Nat, last' >= last
    PROVE  /\ call' \in [Callers -> CallRecords'] /\ call'[c] = r
           /\ \A d \in Callers \ {c} : call'[d] = call[d]
           /\ CallsInStep'
           /\ \A d, e \in Callers : d # e => call'[d].locks \cap call'[e].locks = {}
<1>1. last \in Nat /\ call \in [Callers -> CallRecords]
    BY DEF SupervisorInv, TypeOK
<1>2. 0..last \subseteq 0..last'
    BY <1>1
<1>3. CallRecords \subseteq CallRecords'
    BY <1>2 DEF CallRecords
<1>4. /\ call' \in [Callers -> CallRecords'] /\ call'[c] = r
      /\ \A d \in Callers \ {c} : call'[d] = call[d]
    BY <1>1, <1>3 DEF Moves
<1>5. \A d, e \in Callers : d # e => call'[d].locks \cap call'[e].locks = {}
    <2>1. \A d, e \in Callers : d # e => call[d].locks \cap call[e].locks = {}
        BY DEF SupervisorInv, OneHolder
    <2>2. \A d \in Callers \ {c} : r.locks \cap call[d].locks = {}
        BY DEF Moves
    <2> QED BY <1>4, <2>1, <2>2
<1>6. \A d \in Callers : InStep(call'[d])
    <2>1. \A d \in Callers : InStep(call[d])
        BY DEF SupervisorInv, CallsInStep, InStep
    <2> QED BY <1>4, <2>1 DEF Moves
<1>7. \A d, e \in Callers : d # e /\ call'[d].pc \in Exclusive => call'[e].pc = "idle"
    <2>1. \A d, e \in Callers : d # e /\ call[d].pc \in Exclusive => call[e].pc = "idle"
        BY DEF SupervisorInv, CallsInStep
    <2>2. \A d \in Callers \ {c} : /\ r.pc \in Exclusive => call[d].pc = "idle"
                                   /\ call[d].pc \in Exclusive => r.pc = "idle"
        BY DEF Moves
    <2> QED BY <1>4, <2>1, <2>2
<1>8. CallsInStep'
    BY <1>6, <1>7 DEF CallsInStep, InStep
<1> QED BY <1>4, <1>5, <1>8

\* What OldStillToCome says of one call.
StillToCome(r) ==
    \A t \in (r.old \cap running) \ abandoned :
      \E id \in Range(IF r.pc = "restarted" THEN Tail(r.todo) ELSE r.todo) \cap Range(kids) :
        child[id].task = t /\ Restartable(id, r.normal)

\* The types of the counters after a step.
CountersTyped ==
    /\ strategy' \in Plans /\ good' \in Nat /\ bad' \in Nat
    /\ events' \in 0..EventCap /\ rx' \in {"kept", "drained", "dropped"}
    /\ begun' \in 0..MaxCalls

ChildRecords == [task : 0..last, stamps : 0..MaxRestarts]
MidRecords == [in : BOOLEAN, tasks : Seq(Nat), stamps : 0..MaxRestarts]

\* No task is started, stopped, stored or dropped.
SameTasks ==
    /\ UNCHANGED <<kids, running, last, abandoned>>
    /\ child' \in [Ids -> ChildRecords] /\ \A id \in Ids : child'[id].task = child[id].task
    /\ mid' \in MidRecords /\ mid'.tasks = mid.tasks /\ mid'.in = mid.in

(***************************************************************************)
(* A call that only goes on keeps the invariant, if it leaves no task to   *)
(* be stopped behind and none of those it is to replace.                   *)
(***************************************************************************)
LEMMA CallGoesOn ==
    ASSUME SupervisorInv, NEW c \in Callers, NEW r, Moves(c, r),
           SameTasks, CountersTyped,
           r.task = call[c].task,
           call[c].pc \in Exclusive =>
             Range(call[c].todo) \cap running
               \subseteq abandoned \cup (IF r.pc \in Exclusive THEN Range(r.todo) ELSE {}),
           r.pc \in {"restart", "restarted"} => StillToCome(r),
           r.pc = "ok" => r.old \cap running \subseteq abandoned
    PROVE  SupervisorInv'
<1>0. /\ kids \in Seq(Ids) /\ IsInjective(kids)
      /\ child \in [Ids -> ChildRecords] /\ mid \in MidRecords
      /\ running \subseteq 1..last /\ abandoned \subseteq 1..last /\ last \in Nat
      /\ Range(mid.tasks) \subseteq 1..last
    BY DEF SupervisorInv, TypeOK, ChildRecords, MidRecords
<1>1. /\ kids' = kids /\ running' = running /\ last' = last /\ abandoned' = abandoned
      /\ \A id \in Ids : child'[id].task = child[id].task
      /\ mid'.tasks = mid.tasks /\ mid'.in = mid.in
    BY DEF SameTasks
<1>2. /\ call' \in [Callers -> CallRecords'] /\ call'[c] = r
      /\ \A d \in Callers \ {c} : call'[d] = call[d]
      /\ CallsInStep'
      /\ \A d, e \in Callers : d # e => call'[d].locks \cap call'[e].locks = {}
    BY <1>0, <1>1, CallMoves
<1>3. Range(kids) \subseteq Ids
    BY <1>0, RangeOfSeq
<1>4. \A d \in Callers : call'[d].task = call[d].task
    BY <1>2
<1>5. TypeOK'
    BY <1>0, <1>1, <1>2 DEF TypeOK, SameTasks, CountersTyped, ChildRecords, MidRecords
<1>6. OneHolder'
    <2>1. /\ \A i, j \in Range(kids) : i # j /\ child[i].task # 0 => child[i].task # child[j].task
          /\ \A d \in Callers, i \in Range(kids) :
               call[d].task # 0 => call[d].task # child[i].task
          /\ \A i \in Range(kids) : child[i].task \notin Range(mid.tasks)
        BY DEF SupervisorInv, OneHolder
    <2>2. \A i \in Range(kids) : child'[i].task = child[i].task
        BY <1>1, <1>3
    <2>3. \A i, j \in Range(kids') : i # j /\ child'[i].task # 0 => child'[i].task # child'[j].task
        BY <1>1, <2>1, <2>2
    <2>4. \A d \in Callers, i \in Range(kids') : call'[d].task # 0 => call'[d].task # child'[i].task
        BY <1>1, <1>4, <2>1, <2>2
    <2>5. \A i \in Range(kids') : child'[i].task \notin Range(mid'.tasks)
        BY <1>1, <2>1, <2>2
    <2> QED BY <1>2, <2>3, <2>4, <2>5 DEF OneHolder
<1>7. StartedInOnePlace'
    BY <1>1, <1>3, <1>4 DEF SupervisorInv, StartedInOnePlace
<1>8. OnlyKnownOrphans'
    <2>1. SUFFICES ASSUME NEW t \in running, t \notin abandoned PROVE t \in Owned'
        BY <1>1 DEF OnlyKnownOrphans
    <2>2. t \in Owned
        BY <2>1 DEF SupervisorInv, OnlyKnownOrphans
    <2>3. CASE \E id \in Range(kids) : t = child[id].task
        BY <1>1, <1>3, <2>3 DEF Owned
    <2>4. CASE t \in Range(mid.tasks)
        BY <1>1, <2>4 DEF Owned
    <2>5. CASE \E d \in Callers : t = call[d].task
        BY <1>4, <2>5 DEF Owned
    <2>6. CASE \E d \in Callers : call[d].pc \in Exclusive /\ t \in Range(call[d].todo)
        <3>1. PICK d \in Callers : call[d].pc \in Exclusive /\ t \in Range(call[d].todo)
            BY <2>6
        <3>2. call'[d].pc \in Exclusive /\ t \in Range(call'[d].todo)
            <4>1. CASE d = c
                BY <1>2, <2>1, <3>1, <4>1
            <4>2. CASE d # c
                BY <1>2, <3>1, <4>2
            <4> QED BY <4>1, <4>2
        <3> QED BY <3>2 DEF Owned
    <2> QED BY <2>2, <2>3, <2>4, <2>5, <2>6 DEF Owned
<1>9. NoOldGeneration'
    BY <1>1, <1>2 DEF SupervisorInv, NoOldGeneration
<1>10. OldStillToCome'
    <2>1. SUFFICES ASSUME NEW d \in Callers, call'[d].pc \in {"restart", "restarted"},
                          NEW t \in (call'[d].old \cap running) \ abandoned
                   PROVE  \E id \in Range(Left(d)') \cap Range(kids) :
                            child'[id].task = t /\ Restartable(id, call'[d].normal)
        BY <1>1 DEF OldStillToCome
    <2>2. CASE d = c
        <3>1. PICK id \in Range(IF r.pc = "restarted" THEN Tail(r.todo) ELSE r.todo) \cap Range(kids) :
                 child[id].task = t /\ Restartable(id, r.normal)
            BY <1>2, <2>1, <2>2 DEF StillToCome
        <3> QED BY <1>1, <1>2, <1>3, <2>2, <3>1 DEF Left
    <2>3. CASE d # c
        <3>1. PICK id \in Range(Left(d)) \cap Range(kids) :
                 child[id].task = t /\ Restartable(id, call[d].normal)
            BY <1>2, <2>1, <2>3 DEF SupervisorInv, OldStillToCome
        <3>2. Left(d)' = Left(d)
            BY <1>2, <2>3 DEF Left
        <3> QED BY <1>1, <1>2, <1>3, <2>3, <3>1, <3>2
    <2> QED BY <2>2, <2>3
<1> QED BY <1>2, <1>5, <1>6, <1>7, <1>8, <1>9, <1>10 DEF SupervisorInv

(***************************************************************************)
(* A call that has begun and takes no further lock excludes nobody.        *)
(***************************************************************************)
LEMMA MovesOn ==
    ASSUME SupervisorInv, NEW c \in Callers, NEW r \in CallRecords, InStep(r),
           call' = [call EXCEPT ![c] = r], last' = last,
           r.locks \subseteq call[c].locks,
           r.pc = "idle" \/ call[c].pc # "idle",
           r.pc \in Exclusive => call[c].pc \in Exclusive
    PROVE  Moves(c, r)
<1>1. r \in CallRecords'
    BY DEF CallRecords
<1>2. ASSUME NEW d \in Callers \ {c}
      PROVE  /\ r.locks \cap call[d].locks = {}
             /\ r.pc \in Exclusive => call[d].pc = "idle"
             /\ call[d].pc \in Exclusive => r.pc = "idle"
    <2>1. call[c].locks \cap call[d].locks = {}
        BY DEF SupervisorInv, OneHolder
    <2>2. /\ call[c].pc \in Exclusive => call[d].pc = "idle"
          /\ call[d].pc \in Exclusive => call[c].pc = "idle"
        BY DEF SupervisorInv, CallsInStep
    <2> QED BY <2>1, <2>2
<1> QED BY <1>1, <1>2 DEF Moves

(***************************************************************************)
(* A caller that is in no call.                                            *)
(***************************************************************************)
LEMMA IdleTyped ==
    ASSUME last \in Nat
    PROVE  /\ Idle \in CallRecords /\ InStep(Idle)
           /\ Idle.task = 0 /\ Idle.locks = {} /\ Idle.todo = <<>> /\ Idle.old = {}
<1>1. <<>> \in Seq(Ids \cup Nat)
    OBVIOUS
<1> QED BY <1>1 DEF Idle, CallRecords, Steps, InStep, LocksAt

(***************************************************************************)
(* The same for a call that returns.                                       *)
(***************************************************************************)
LEMMA Returns ==
    ASSUME SupervisorInv, NEW c \in Callers, Return(c), SameTasks, CountersTyped,
           call[c].pc # "insert", call[c].pc \in Exclusive => call[c].todo = <<>>
    PROVE  SupervisorInv'
<1>1. last \in Nat /\ Idle \in CallRecords /\ InStep(Idle)
    <2>1. last \in Nat
        BY DEF SupervisorInv, TypeOK
    <2> QED BY <2>1, IdleTyped
<1>2. Moves(c, Idle)
    BY <1>1, MovesOn DEF Return, Idle, Exclusive, SameTasks
<1>3. call[c].task = 0
    BY DEF SupervisorInv, CallsInStep
<1>4. call[c].pc \in Exclusive => Range(call[c].todo) = {}
    BY DEF Range
<1> QED BY <1>2, <1>3, <1>4, CallGoesOn DEF Idle

\* The types of the tasks and the calls.
WorldTyped ==
    /\ kids \in Seq(Ids) /\ IsInjective(kids) /\ Range(kids) \subseteq Ids
    /\ child \in [Ids -> ChildRecords] /\ mid \in MidRecords
    /\ running \subseteq 1..last /\ abandoned \subseteq 1..last /\ last \in Nat
    /\ Range(mid.tasks) \subseteq 1..last
    /\ call \in [Callers -> CallRecords]
    /\ strategy \in Plans /\ good \in Nat /\ bad \in Nat
    /\ events \in 0..EventCap /\ rx \in {"kept", "drained", "dropped"}
    /\ begun \in 0..MaxCalls

(***************************************************************************)
(* The type invariant, with the ids in the map.                            *)
(***************************************************************************)
LEMMA WorldIsTyped == ASSUME SupervisorInv PROVE WorldTyped
    BY RangeOfSeq DEF SupervisorInv, TypeOK, WorldTyped, ChildRecords, MidRecords

(***************************************************************************)
(* event_tx.send() never fills the channel beyond its capacity.            *)
(***************************************************************************)
LEMMA SendTyped ==
    ASSUME WorldTyped, Send, UNCHANGED <<stats, rx, begun>> PROVE CountersTyped
<1>1. EventCap \in Nat
    BY SupervisorAssumption
<1> QED BY <1>1 DEF WorldTyped, Send, CountersTyped, stats

(***************************************************************************)
(* The steps of handle_failure up to its plan.                             *)
(***************************************************************************)
LEMMA ChooseStrategyStep ==
    ASSUME SupervisorInv, NEW c \in Callers, ChooseStrategy(c) PROVE SupervisorInv'
<1> DEFINE r == [call[c] EXCEPT !.plan = strategy,
                   !.pc = IF strategy \in {"one", "all", "rest"} THEN "collect" ELSE "adapt"]
<1>1. WorldTyped
    BY WorldIsTyped
<1>2. call[c] \in CallRecords /\ call[c].pc = "failed" /\ InStep(call[c])
    BY <1>1 DEF WorldTyped, ChooseStrategy, SupervisorInv, CallsInStep, InStep
<1>3. r \in CallRecords
    BY <1>1, <1>2 DEF WorldTyped, CallRecords, Steps, Plans
<1>4. InStep(r)
    BY <1>1, <1>2 DEF InStep, LocksAt, WorldTyped, Plans, CallRecords
<1>5. call' = [call EXCEPT ![c] = r]
    BY <1>1 DEF ChooseStrategy, WorldTyped
<1>6. SameTasks
    BY <1>1 DEF ChooseStrategy, SameTasks, WorldTyped, tasks, ChildRecords, MidRecords
<1>7. CountersTyped
    BY <1>1, SendTyped DEF ChooseStrategy
<1>8. r.locks = call[c].locks /\ r.task = call[c].task /\ r.pc \in {"collect", "adapt"}
    BY <1>2 DEF CallRecords
<1> HIDE DEF r
<1>9. Moves(c, r)
    BY <1>2, <1>3, <1>4, <1>5, <1>6, <1>8, MovesOn DEF Exclusive, SameTasks
<1> QED BY <1>2, <1>6, <1>7, <1>8, <1>9, CallGoesOn DEF Exclusive

(***************************************************************************)
(* apply_adaptive_strategy turns an adaptive strategy into a plain one.    *)
(***************************************************************************)
LEMMA ApplyAdaptiveStrategyStep ==
    ASSUME SupervisorInv, NEW c \in Callers, ApplyAdaptiveStrategy(c) PROVE SupervisorInv'
<1> DEFINE conservative == bad > 2 * good /\ call[c].plan = "adaptOne"
           plan == CASE call[c].plan = "adaptOne"  -> IF conservative THEN "all" ELSE "one"
                     [] call[c].plan = "adaptAll"  -> "all"
                     [] call[c].plan = "adaptRest" -> "rest"
           r == [call[c] EXCEPT !.plan = plan, !.normal = FALSE,
                                !.pc = IF conservative THEN "adapted" ELSE "collect"]
<1>1. WorldTyped
    BY WorldIsTyped
<1>2. call[c] \in CallRecords /\ call[c].pc = "adapt" /\ InStep(call[c])
    BY <1>1 DEF WorldTyped, ApplyAdaptiveStrategy, SupervisorInv, CallsInStep, InStep
<1>3. plan \in {"one", "all", "rest"}
    BY <1>2 DEF InStep
<1>4. call' = [call EXCEPT ![c] = r] /\ strategy' \in Plans
    <2>1. /\ strategy' = IF conservative THEN "adaptAll" ELSE strategy
          /\ call' = [call EXCEPT ![c].plan = plan, ![c].normal = FALSE,
                      ![c].pc = IF conservative THEN "adapted" ELSE "collect"]
        BY DEF ApplyAdaptiveStrategy
    <2> HIDE DEF plan, conservative
    <2> QED BY <1>1, <2>1 DEF WorldTyped, Plans
<1> HIDE DEF plan, conservative
<1>5. r \in CallRecords
    BY <1>2, <1>3 DEF CallRecords, Steps, Plans
<1>6. InStep(r)
    BY <1>2, <1>3 DEF InStep, LocksAt, CallRecords
<1>7. SameTasks
    BY <1>1 DEF ApplyAdaptiveStrategy, SameTasks, WorldTyped, tasks, ChildRecords, MidRecords
<1>8. CountersTyped
    BY <1>1, <1>4 DEF ApplyAdaptiveStrategy, WorldTyped, CountersTyped
<1>9. r.locks = call[c].locks /\ r.task = call[c].task /\ r.pc \in {"adapted", "collect"}
    BY <1>2 DEF CallRecords
<1> HIDE DEF r
<1>10. Moves(c, r)
    BY <1>2, <1>4, <1>5, <1>6, <1>7, <1>9, MovesOn DEF Exclusive, SameTasks
<1> QED BY <1>2, <1>7, <1>8, <1>9, <1>10, CallGoesOn DEF Exclusive

(***************************************************************************)
(* The plan of handle_failure names every child it is to replace:          *)
(* rest-for-one begins with the failed child, whose id is in the map once. *)
(***************************************************************************)
LEMMA PlanNamesOld ==
    ASSUME WorldTyped, NEW c \in Callers, call[c].plan \in {"one", "all", "rest"},
           call[c].id \in Ids, call[c].plan = "rest" => call[c].id \in Range(kids)
    PROVE  /\ IdsToRestart(c) \in Seq(Ids)
           /\ OldGeneration(c) \subseteq 0..last
           /\ \A t \in OldGeneration(c) : \E id \in Range(IdsToRestart(c)) \cap Range(kids) :
                child[id].task = t /\ Restartable(id, call[c].normal)
<1>1. /\ kids \in Seq(Ids) /\ IsInjective(kids) /\ Len(kids) \in Nat
      /\ DOMAIN kids = 1..Len(kids) /\ \A i \in 1..Len(kids) : kids[i] \in Ids
      /\ \A i \in 1..Len(kids) : kids[i] \in Range(kids)
    BY LenProperties, ElementOfSeq DEF WorldTyped, Range
<1> DEFINE Affected(i) == \/ kids[i] = call[c].id \/ call[c].plan = "all"
                          \/ /\ call[c].plan = "rest"
                             /\ \E j \in 1..i : kids[j] = call[c].id
<1>2. ASSUME NEW t \in OldGeneration(c)
      PROVE  \E i \in 1..Len(kids) : /\ t = child[kids[i]].task /\ Affected(i)
                                     /\ Restartable(kids[i], call[c].normal)
    BY <1>1, <1>2 DEF OldGeneration
<1>3. OldGeneration(c) \subseteq 0..last
    <2> SUFFICES ASSUME NEW t \in OldGeneration(c) PROVE t \in 0..last
        OBVIOUS
    <2>1. PICK i \in 1..Len(kids) : t = child[kids[i]].task
        BY <1>2
    <2> QED BY <1>1, <2>1 DEF WorldTyped, ChildRecords
<1>4. CASE call[c].plan = "one"
    <2>1. IdsToRestart(c) = <<call[c].id>>
        BY <1>4 DEF IdsToRestart
    <2>2. IdsToRestart(c) \in Seq(Ids) /\ call[c].id \in Range(IdsToRestart(c))
        BY <2>1 DEF Range
    <2>3. ASSUME NEW t \in OldGeneration(c)
          PROVE  \E id \in Range(IdsToRestart(c)) \cap Range(kids) :
                   child[id].task = t /\ Restartable(id, call[c].normal)
        <3>1. PICK i \in 1..Len(kids) : /\ t = child[kids[i]].task /\ Affected(i)
                                        /\ Restartable(kids[i], call[c].normal)
            BY <1>2
        <3>2. kids[i] = call[c].id
            BY <1>4, <3>1
        <3> QED BY <1>1, <2>2, <3>1, <3>2
    <2> QED BY <1>3, <2>2, <2>3
<1>5. CASE call[c].plan = "all"
    <2>1. IdsToRestart(c) = kids
        BY <1>5 DEF IdsToRestart
    <2>3. ASSUME NEW t \in OldGeneration(c)
          PROVE  \E id \in Range(kids) : child[id].task = t /\ Restartable(id, call[c].normal)
        <3>1. PICK i \in 1..Len(kids) : /\ t = child[kids[i]].task
                                        /\ Restartable(kids[i], call[c].normal)
            BY <1>2
        <3> QED BY <1>1, <3>1
    <2> QED BY <1>1, <1>3, <2>1, <2>3
<1>6. CASE call[c].plan = "rest"
    <2> DEFINE at == CHOOSE i \in DOMAIN kids : kids[i] = call[c].id
               s == SubSeq(kids, at, Len(kids))
    <2>1. at \in 1..Len(kids) /\ kids[at] = call[c].id
        <3>1. \E i \in DOMAIN kids : kids[i] = call[c].id
            BY <1>6 DEF Range
        <3> QED BY <1>1, <3>1
    <2>2. IdsToRestart(c) = s
        BY <1>6 DEF IdsToRestart
    <2> HIDE DEF at
    <2>3. /\ s \in Seq(Ids) /\ Len(s) = Len(kids) - at + 1
          /\ \A i \in 1..(Len(kids) - at + 1) : s[i] = kids[at + i - 1]
        <3>1. \A i \in at..Len(kids) : kids[i] \in Ids
            BY <1>1, <2>1
        <3>2. at \in Int /\ Len(kids) \in Int
            BY <1>1, <2>1
        <3>3. /\ s \in Seq(Ids)
              /\ Len(s) = IF at <= Len(kids) THEN Len(kids) - at + 1 ELSE 0
              /\ \A i \in 1..(Len(kids) - at + 1) : s[i] = kids[at + i - 1]
            BY <3>1, <3>2, SubSeqProperties
        <3> QED BY <1>1, <2>1, <3>3
    <2> HIDE DEF s
    <2>4. ASSUME NEW t \in OldGeneration(c)
          PROVE  \E id \in Range(s) \cap Range(kids) :
                   child[id].task = t /\ Restartable(id, call[c].normal)
        <3>1. PICK i \in 1..Len(kids) : /\ t = child[kids[i]].task /\ Affected(i)
                                        /\ Restartable(kids[i], call[c].normal)
            BY <1>2
        <3>2. PICK j \in 1..i : kids[j] = call[c].id
            BY <1>6, <3>1
        <3>3. j = at
            BY <1>1, <2>1, <3>2 DEF IsInjective
        <3>4. (i - at) + 1 \in 1..(Len(kids) - at + 1) /\ at + ((i - at) + 1) - 1 = i
            BY <1>1, <2>1, <3>2, <3>3
        <3>5. s[(i - at) + 1] = kids[i]
            BY <2>3, <3>4
        <3>6. DOMAIN s = 1..(Len(kids) - at + 1)
            BY <2>3, LenProperties
        <3>7. kids[i] \in Range(s)
            BY <3>4, <3>5, <3>6 DEF Range
        <3> QED BY <1>1, <3>1, <3>7
    <2> QED BY <1>3, <2>2, <2>3, <2>4
<1> QED BY <1>4, <1>5, <1>6

(***************************************************************************)
(* restart_all and restart_rest_for_one read the ids from the map.         *)
(***************************************************************************)
LEMMA CollectIdsStep ==
    ASSUME SupervisorInv, NEW c \in Callers, CollectIds(c) PROVE SupervisorInv'
<1> DEFINE ids == IdsToRestart(c)
           gen == OldGeneration(c)
           r == [call[c] EXCEPT !.pc = "restart", !.id = 0, !.plan = "",
                                !.todo = ids, !.old = gen]
<1>1. WorldTyped
    BY WorldIsTyped
<1>2. call[c] \in CallRecords /\ call[c].pc = "collect" /\ InStep(call[c])
    BY <1>1 DEF WorldTyped, CollectIds, SupervisorInv, CallsInStep, InStep
<1>3. /\ ids \in Seq(Ids) /\ gen \subseteq 0..last
      /\ \A t \in gen : \E id \in Range(ids) \cap Range(kids) :
           child[id].task = t /\ Restartable(id, call[c].normal)
    BY <1>1, <1>2, PlanNamesOld DEF InStep, CollectIds
<1>4. call' = [call EXCEPT ![c] = r]
    BY <1>1 DEF CollectIds
<1> HIDE DEF ids, gen
<1>5. r \in CallRecords
    <2>1. ids \in Seq(Ids \cup Nat)
        BY <1>3, SeqMonotonic
    <2> QED BY <1>2, <1>3, <2>1 DEF CallRecords, Steps
<1>6. InStep(r)
    BY <1>2 DEF InStep, LocksAt, CallRecords
<1>7. SameTasks
    BY <1>1 DEF CollectIds, SameTasks, WorldTyped, tasks, ChildRecords, MidRecords
<1>8. CountersTyped
    BY <1>1 DEF CollectIds, WorldTyped, CountersTyped, stats
<1>9. r.locks = call[c].locks /\ r.task = call[c].task /\ r.pc = "restart"
      /\ r.todo = ids /\ r.old = gen /\ r.normal = call[c].normal
    BY <1>2 DEF CallRecords
<1> HIDE DEF r
<1>10. Moves(c, r)
    BY <1>2, <1>4, <1>5, <1>6, <1>7, <1>9, MovesOn DEF Exclusive, SameTasks
<1>11. StillToCome(r)
    BY <1>3, <1>9 DEF StillToCome
<1> QED BY <1>2, <1>7, <1>8, <1>9, <1>10, <1>11, CallGoesOn DEF Exclusive

(***************************************************************************)
(* A call that goes to its next point without anything in its hands.       *)
(***************************************************************************)
LEMMA GoesTo ==
    ASSUME SupervisorInv, NEW c \in Callers, NEW p \in Steps, Goto(c, p),
           SameTasks, CountersTyped, call[c].pc # "idle",
           InStep([call[c] EXCEPT !.pc = p]), LocksAt(p) = LocksAt(call[c].pc),
           p \in Exclusive <=> call[c].pc \in Exclusive,
           p \notin {"restart", "restarted"},
           p = "ok" => call[c].old \cap running \subseteq abandoned
    PROVE  SupervisorInv'
<1> DEFINE r == [call[c] EXCEPT !.pc = p]
<1>1. WorldTyped
    BY WorldIsTyped
<1>2. call[c] \in CallRecords /\ InStep(call[c])
    BY <1>1 DEF WorldTyped, SupervisorInv, CallsInStep, InStep
<1>3. r \in CallRecords
    BY <1>2 DEF CallRecords
<1>4. call' = [call EXCEPT ![c] = r]
    BY DEF Goto
<1>5. /\ r.locks = call[c].locks /\ r.task = call[c].task /\ r.pc = p
      /\ r.todo = call[c].todo /\ r.old = call[c].old
    BY <1>2 DEF CallRecords
<1> HIDE DEF r
<1>6. Moves(c, r)
    BY <1>2, <1>3, <1>4, <1>5, MovesOn DEF SameTasks, r
<1> QED BY <1>5, <1>6, CallGoesOn

\* Nothing but the calls, the channel and the counters changes.
LEMMA Alone ==
    ASSUME WorldTyped, UNCHANGED <<kids, tasks, mid, abandoned>> PROVE SameTasks
    BY DEF WorldTyped, SameTasks, tasks, ChildRecords, MidRecords

(***************************************************************************)
(* The steps of the calls between two points at which they hold no lock.   *)
(***************************************************************************)
LEMMA PlainSteps ==
    ASSUME SupervisorInv, NEW c \in Callers,
           \/ StrategyAdapted(c) \/ GetSupervisor(c) \/ StartSupervisor(c)
           \/ SupervisorStarted(c) \/ MidStopped(c) \/ OwnStopped(c) \/ FailureHandled(c)
    PROVE  SupervisorInv'
<1>1. WorldTyped
    BY WorldIsTyped
<1>2. call[c] \in CallRecords /\ InStep(call[c])
    BY <1>1 DEF WorldTyped, SupervisorInv, CallsInStep, InStep
<1>3. SameTasks
    BY <1>1, Alone DEF StrategyAdapted, GetSupervisor, StartSupervisor, SupervisorStarted,
                       MidStopped, OwnStopped, FailureHandled
<1>4. ASSUME UNCHANGED <<stats, events, rx, begun>> PROVE CountersTyped
    BY <1>1, <1>4 DEF WorldTyped, CountersTyped, stats
<1> USE DEF Steps, Exclusive, LocksAt, InStep
<1>5. CASE StrategyAdapted(c)
    <2>1. Goto(c, "collect") /\ CountersTyped
        BY <1>1, <1>5, SendTyped DEF StrategyAdapted
    <2>2. InStep([call[c] EXCEPT !.pc = "collect"])
        BY <1>2, <1>5 DEF StrategyAdapted, CallRecords
    <2> QED BY <1>3, <1>5, <2>1, <2>2, GoesTo DEF StrategyAdapted
<1>6. CASE GetSupervisor(c)
    <2>0. CountersTyped /\ call[c].pc = "midDelay"
        BY <1>4, <1>6 DEF GetSupervisor
    <2>1. CASE Return(c)
        BY <1>3, <2>0, <2>1, Returns
    <2>2. CASE Goto(c, "midWrite")
        <3>1. InStep([call[c] EXCEPT !.pc = "midWrite"])
            BY <1>2, <2>0 DEF CallRecords
        <3> QED BY <1>3, <2>0, <2>2, <3>1, GoesTo
    <2> QED BY <1>6, <2>1, <2>2 DEF GetSupervisor
<1>7. CASE StartSupervisor(c)
    <2>0. CountersTyped /\ call[c].pc = "midWrite" /\ Goto(c, "midStart")
        BY <1>4, <1>7 DEF StartSupervisor
    <2>1. InStep([call[c] EXCEPT !.pc = "midStart"])
        BY <1>2, <2>0 DEF CallRecords
    <2> QED BY <1>3, <2>0, <2>1, GoesTo
<1>8. CASE SupervisorStarted(c)
    <2>0. CountersTyped /\ call[c].pc = "midStart" /\ Goto(c, "added")
        BY <1>4, <1>8 DEF SupervisorStarted
    <2>1. InStep([call[c] EXCEPT !.pc = "added"])
        BY <1>2, <2>0 DEF CallRecords
    <2> QED BY <1>3, <2>0, <2>1, GoesTo
<1>9. CASE MidStopped(c)
    <2>0. CountersTyped /\ call[c].pc = "midStopped" /\ Goto(c, "collectOwn")
        BY <1>1, <1>9, SendTyped DEF MidStopped
    <2>1. InStep([call[c] EXCEPT !.pc = "collectOwn"])
        BY <1>2, <2>0 DEF CallRecords
    <2> QED BY <1>3, <2>0, <2>1, GoesTo
<1>10. CASE OwnStopped(c)
    <2>0. CountersTyped /\ call[c].pc = "ownStopped" /\ Goto(c, "stopOwn")
        BY <1>1, <1>10, SendTyped DEF OwnStopped
    <2>1. InStep([call[c] EXCEPT !.pc = "stopOwn"])
        BY <1>2, <2>0 DEF CallRecords
    <2> QED BY <1>3, <2>0, <2>1, GoesTo
<1>11. CASE FailureHandled(c)
    <2>0. CountersTyped /\ call[c].pc = "restart" /\ call[c].todo = <<>> /\ Goto(c, "ok")
        BY <1>4, <1>11 DEF FailureHandled
    <2>1. InStep([call[c] EXCEPT !.pc = "ok"])
        BY <1>2, <2>0 DEF CallRecords
    <2>2. Range(Left(c)) = {}
        BY <2>0 DEF Left, Range
    <2>3. call[c].old \cap running \subseteq abandoned
        BY <2>0, <2>2 DEF SupervisorInv, OldStillToCome
    <2> QED BY <1>3, <2>0, <2>1, <2>3, GoesTo
<1> QED BY <1>5, <1>6, <1>7, <1>8, <1>9, <1>10, <1>11

(***************************************************************************)
(* The calls return, with or without an event.                             *)
(***************************************************************************)
LEMMA ReturnSteps ==
    ASSUME SupervisorInv, NEW c \in Callers,
           \/ CollectFails(c) \/ MaxRestartsExceeded(c) \/ ReturnOk(c) \/ ChildStarted(c)
           \/ ChildStopped(c) \/ ShutdownReturns(c)
    PROVE  SupervisorInv'
<1>1. WorldTyped
    BY WorldIsTyped
<1>2. SameTasks
    BY <1>1, Alone DEF CollectFails, MaxRestartsExceeded, ReturnOk, ChildStarted, ChildStopped,
                       ShutdownReturns
<1>3. CountersTyped
    <2>1. ASSUME UNCHANGED <<stats, events, rx, begun>> PROVE CountersTyped
        BY <1>1, <2>1 DEF WorldTyped, CountersTyped, stats
    <2> QED BY <1>1, <2>1, SendTyped DEF CollectFails, MaxRestartsExceeded, ReturnOk,
                       ChildStarted, ChildStopped, ShutdownReturns
<1>4. Return(c) /\ call[c].pc # "insert" /\ (call[c].pc \in Exclusive => call[c].todo = <<>>)
    BY DEF CollectFails, MaxRestartsExceeded, ReturnOk, ChildStarted, ChildStopped,
           ShutdownReturns, Exclusive
<1> QED BY <1>2, <1>3, <1>4, Returns

(***************************************************************************)
(* handle_failure turns to its next id: what it leaves behind was replaced *)
(* or is not to be.                                                        *)
(***************************************************************************)
LEMMA TurnsToNext ==
    ASSUME SupervisorInv, NEW c \in Callers, NextId(c), SameTasks, CountersTyped,
           \/ call[c].pc = "restarted"
           \/ /\ call[c].pc = "restart" /\ call[c].todo # <<>>
              /\ \/ Head(call[c].todo) \notin Range(kids)
                 \/ ~Restartable(Head(call[c].todo), call[c].normal)
    PROVE  SupervisorInv'
<1> DEFINE rest == Tail(call[c].todo)
           r == [call[c] EXCEPT !.pc = "restart", !.todo = rest, !.locks = {}]
<1>1. WorldTyped
    BY WorldIsTyped
<1>2. call[c] \in CallRecords /\ InStep(call[c])
    BY <1>1 DEF WorldTyped, SupervisorInv, CallsInStep, InStep
<1>3. /\ call[c].todo \in Seq(Ids \cup Nat) /\ call[c].todo # <<>> /\ rest \in Seq(Ids \cup Nat)
      /\ Range(call[c].todo) = {Head(call[c].todo)} \cup Range(rest)
    <2>1. call[c].todo \in Seq(Ids \cup Nat) /\ call[c].todo # <<>>
        BY <1>2 DEF CallRecords, InStep
    <2> QED BY <2>1, RestOf
<1>4. call' = [call EXCEPT ![c] = r]
    BY <1>1 DEF NextId, WorldTyped
<1> HIDE DEF rest
<1>5. r \in CallRecords
    BY <1>2, <1>3 DEF CallRecords, Steps
<1>6. InStep(r)
    BY <1>2 DEF InStep, LocksAt, CallRecords
<1>7. /\ r.locks = {} /\ r.task = call[c].task /\ r.pc = "restart"
      /\ r.todo = rest /\ r.old = call[c].old /\ r.normal = call[c].normal
    BY <1>2 DEF CallRecords
<1> HIDE DEF r
<1>8. Moves(c, r)
    BY <1>2, <1>4, <1>5, <1>6, <1>7, MovesOn DEF Exclusive, SameTasks
<1>9. StillToCome(r)
    <2> SUFFICES ASSUME NEW t \in (call[c].old \cap running) \ abandoned
                 PROVE  \E id \in Range(rest) \cap Range(kids) :
                          child[id].task = t /\ Restartable(id, call[c].normal)
        BY <1>7 DEF StillToCome
    <2>1. PICK id \in Range(Left(c)) \cap Range(kids) :
             child[id].task = t /\ Restartable(id, call[c].normal)
        BY DEF SupervisorInv, OldStillToCome
    <2>2. id \in Range(rest)
        BY <1>3, <2>1 DEF Left, rest
    <2> QED BY <2>1, <2>2
<1> QED BY <1>7, <1>8, <1>9, CallGoesOn DEF Exclusive

(***************************************************************************)
(* restart_one of an id that is gone, or that its policy does not restart, *)
(* and the end of one that was restarted.                                  *)
(***************************************************************************)
LEMMA PassedOver ==
    ASSUME SupervisorInv, NEW c \in Callers,
           RestartMissing(c) \/ RestartSkipped(c) \/ ChildRestarted(c)
    PROVE  SupervisorInv'
<1>1. WorldTyped
    BY WorldIsTyped
<1>2. NextId(c)
    BY DEF RestartMissing, RestartSkipped, ChildRestarted
<1>3. CountersTyped
    <2>1. ASSUME UNCHANGED <<stats, events, rx, begun>> PROVE CountersTyped
        BY <1>1, <2>1 DEF WorldTyped, CountersTyped, stats
    <2> QED BY <1>1, <2>1, SendTyped DEF RestartMissing, RestartSkipped, ChildRestarted
<1>4. CASE RestartMissing(c)
    <2>1. SameTasks
        BY <1>1, <1>4, Alone DEF RestartMissing
    <2> QED BY <1>2, <1>3, <1>4, <2>1, TurnsToNext DEF RestartMissing, AtRestart
<1>5. CASE ChildRestarted(c)
    <2>1. SameTasks
        BY <1>1, <1>5, Alone DEF ChildRestarted
    <2> QED BY <1>2, <1>3, <1>5, <2>1, TurnsToNext DEF ChildRestarted
<1>6. CASE RestartSkipped(c)
    <2> DEFINE id == Head(call[c].todo)
    <2>1. id \in Ids /\ UNCHANGED <<kids, running, last, abandoned, mid>>
        BY <1>1, <1>6 DEF RestartSkipped, WorldTyped
    <2>2. PICK n \in Kept(child[id].stamps) :
             BelowMax(n) /\ child' = [child EXCEPT ![id].stamps = n + 1]
        BY <1>6 DEF RestartSkipped
    <2>3. n + 1 \in 0..MaxRestarts
        BY <1>1, <2>1, <2>2, SupervisorAssumption DEF WorldTyped, Kept, BelowMax, ChildRecords
    <2> HIDE DEF id
    <2>4. SameTasks
        BY <1>1, <2>1, <2>2, <2>3 DEF WorldTyped, SameTasks, ChildRecords, MidRecords
    <2> QED BY <1>2, <1>3, <1>6, <2>4, TurnsToNext DEF RestartSkipped, AtRestart
<1> QED BY <1>4, <1>5, <1>6

(***************************************************************************)
(* restart_one takes both locks when both are free.                        *)
(***************************************************************************)
LEMMA HoldMoves ==
    ASSUME SupervisorInv, NEW c \in Callers, AtRestart(c), NEW p \in {"exceeded", "restarted"},
           Hold(c, p), last' \in Nat, last' >= last
    PROVE  \E r : /\ Moves(c, r)
                  /\ r.pc = p /\ r.task = 0 /\ r.todo = call[c].todo /\ r.old = call[c].old
                  /\ r.normal = call[c].normal
<1> DEFINE r == [call[c] EXCEPT !.pc = p, !.locks = BothLocks]
<1>1. WorldTyped
    BY WorldIsTyped
<1>2. call[c] \in CallRecords /\ InStep(call[c]) /\ call[c].pc = "restart" /\ call[c].todo # <<>>
    BY <1>1 DEF WorldTyped, SupervisorInv, CallsInStep, InStep, AtRestart
<1>3. 0..last \subseteq 0..last'
    BY <1>1 DEF WorldTyped
<1>4. r \in CallRecords'
    BY <1>2, <1>3 DEF CallRecords, Steps, BothLocks
<1>5. InStep(r)
    BY <1>2 DEF InStep, LocksAt, CallRecords
<1>6. call' = [call EXCEPT ![c] = r]
    BY <1>1 DEF Hold, WorldTyped
<1>7. /\ r.locks = BothLocks /\ r.task = 0 /\ r.pc = p
      /\ r.todo = call[c].todo /\ r.old = call[c].old /\ r.normal = call[c].normal
    BY <1>2 DEF CallRecords, InStep
<1> HIDE DEF r
<1>8. ASSUME NEW d \in Callers \ {c}
      PROVE  r.locks \cap call[d].locks = {} /\ call[d].pc \notin Exclusive
    <2>1. "children" \notin call[d].locks /\ "stats" \notin call[d].locks
        BY DEF AtRestart, Free
    <2>2. call[d].pc \notin Exclusive
        BY <1>2 DEF SupervisorInv, CallsInStep
    <2> QED BY <1>7, <2>1, <2>2 DEF BothLocks
<1>9. Moves(c, r)
    BY <1>4, <1>5, <1>6, <1>7, <1>8 DEF Moves, Exclusive
<1> QED BY <1>7, <1>9

(***************************************************************************)
(* restart_one gives up a child that was restarted too often.              *)
(***************************************************************************)
LEMMA RestartExceededStep ==
    ASSUME SupervisorInv, NEW c \in Callers, RestartExceeded(c) PROVE SupervisorInv'
<1> DEFINE id == Head(call[c].todo)
<1>1. WorldTyped
    BY WorldIsTyped
<1>2. id \in Ids /\ UNCHANGED <<kids, running, last, abandoned, mid>> /\ AtRestart(c)
      /\ Hold(c, "exceeded")
    BY <1>1 DEF RestartExceeded, WorldTyped
<1>3. PICK n \in Kept(child[id].stamps) : child' = [child EXCEPT ![id].stamps = n]
    BY DEF RestartExceeded
<1>4. n \in 0..MaxRestarts
    BY <1>1, <1>2, <1>3, SupervisorAssumption DEF WorldTyped, Kept, ChildRecords
<1> HIDE DEF id
<1>5. SameTasks
    BY <1>1, <1>2, <1>3, <1>4 DEF WorldTyped, SameTasks, ChildRecords, MidRecords
<1>6. CountersTyped
    BY <1>1 DEF RestartExceeded, WorldTyped, CountersTyped, stats
<1>7. PICK r : Moves(c, r) /\ r.pc = "exceeded" /\ r.task = 0
    BY <1>1, <1>2, HoldMoves DEF WorldTyped
<1>8. call[c].task = 0 /\ call[c].pc \notin Exclusive
    BY <1>2 DEF SupervisorInv, CallsInStep, AtRestart, Exclusive
<1> QED BY <1>5, <1>6, <1>7, <1>8, CallGoesOn DEF Exclusive

(***************************************************************************)
(* A call that takes &self begins.                                         *)
(***************************************************************************)
LEMMA BeginMoves ==
    ASSUME SupervisorInv, NEW c \in Callers, MayBegin(c), NEW r \in CallRecords', InStep(r),
           call' = [call EXCEPT ![c] = r], r.pc \notin Exclusive,
           \A d \in Callers \ {c} : r.locks \cap call[d].locks = {}
    PROVE  Moves(c, r)
    BY DEF Moves, MayBegin

(***************************************************************************)
(* A failure is reported.                                                  *)
(***************************************************************************)
LEMMA HandleFailureStep ==
    ASSUME SupervisorInv, NEW c \in Callers, HandleFailure(c) PROVE SupervisorInv'
<1>1. WorldTyped
    BY WorldIsTyped
<1>2. PICK id \in Ids, normal \in BOOLEAN :
         call' = [call EXCEPT ![c] = [Idle EXCEPT !.pc = "failed", !.id = id, !.normal = normal]]
    BY DEF HandleFailure
<1> DEFINE r == [Idle EXCEPT !.pc = "failed", !.id = id, !.normal = normal]
<1>3. SameTasks
    BY <1>1, Alone DEF HandleFailure
<1>4. CountersTyped
    <2>1. begun + 1 \in 0..MaxCalls
        BY <1>1, SupervisorAssumption DEF HandleFailure, MayBegin, WorldTyped
    <2> QED BY <1>1, <2>1 DEF HandleFailure, WorldTyped, CountersTyped, stats
<1>5. r \in CallRecords' /\ r.pc = "failed" /\ r.task = 0 /\ r.locks = {}
    <2>1. CallRecords' = CallRecords
        BY <1>3 DEF SameTasks, CallRecords
    <2>2. Idle \in CallRecords /\ Idle.task = 0 /\ Idle.locks = {}
        BY <1>1, IdleTyped DEF WorldTyped
    <2>3. r \in CallRecords /\ r.pc = "failed" /\ r.task = 0 /\ r.locks = {}
        BY <2>2 DEF CallRecords, Steps
    <2> QED BY <2>1, <2>3
<1>6. InStep(r)
    BY DEF InStep, LocksAt, Idle
<1> HIDE DEF r
<1>7. Moves(c, r)
    BY <1>2, <1>5, <1>6, BeginMoves DEF HandleFailure, Exclusive, r
<1>8. call[c].task = 0 /\ call[c].pc \notin Exclusive
    BY DEF HandleFailure, MayBegin, SupervisorInv, CallsInStep, Exclusive
<1> QED BY <1>3, <1>4, <1>5, <1>7, <1>8, CallGoesOn

(***************************************************************************)
(* restart_supervisor decides whether it restarts the child supervisor.    *)
(***************************************************************************)
LEMMA RestartSupervisorStep ==
    ASSUME SupervisorInv, NEW c \in Callers, RestartSupervisor(c) PROVE SupervisorInv'
<1>1. WorldTyped
    BY WorldIsTyped
<1>2. PICK p \in {"midExceeded", "midDelay"}, n \in 0..MaxRestarts :
         /\ call' = [call EXCEPT ![c] = [Idle EXCEPT !.pc = p]]
         /\ mid' = [mid EXCEPT !.stamps = n]
    <2>1. PICK n \in Kept(mid.stamps) :
          \/ /\ ~BelowMax(n)
             /\ call' = [call EXCEPT ![c] = [Idle EXCEPT !.pc = "midExceeded"]]
             /\ mid' = [mid EXCEPT !.stamps = n]
          \/ /\ BelowMax(n)
             /\ call' = [call EXCEPT ![c] = [Idle EXCEPT !.pc = "midDelay"]]
             /\ mid' = [mid EXCEPT !.stamps = n + 1]
        BY DEF RestartSupervisor
    <2>2. n \in 0..MaxRestarts /\ (BelowMax(n) => n + 1 \in 0..MaxRestarts)
        BY <1>1, <2>1, SupervisorAssumption DEF WorldTyped, MidRecords, Kept, BelowMax
    <2> QED BY <2>1, <2>2
<1> DEFINE r == [Idle EXCEPT !.pc = p]
<1>3. SameTasks
    BY <1>1, <1>2 DEF RestartSupervisor, SameTasks, WorldTyped, tasks, ChildRecords, MidRecords
<1>4. CountersTyped
    <2>1. begun + 1 \in 0..MaxCalls
        BY <1>1, SupervisorAssumption DEF RestartSupervisor, MayBegin, WorldTyped
    <2> QED BY <1>1, <2>1 DEF RestartSupervisor, WorldTyped, CountersTyped, stats
<1>5. r \in CallRecords' /\ r.pc = p /\ r.task = 0 /\ r.locks = {}
    <2>1. CallRecords' = CallRecords
        BY <1>3 DEF SameTasks, CallRecords
    <2>2. Idle \in CallRecords /\ Idle.task = 0 /\ Idle.locks = {}
        BY <1>1, IdleTyped DEF WorldTyped
    <2>3. r \in CallRecords /\ r.pc = p /\ r.task = 0 /\ r.locks = {}
        BY <2>2 DEF CallRecords, Steps
    <2> QED BY <2>1, <2>3
<1>6. InStep(r)
    BY DEF InStep, LocksAt, Idle
<1> HIDE DEF r
<1>7. Moves(c, r)
    BY <1>2, <1>5, <1>6, BeginMoves DEF RestartSupervisor, Exclusive, r
<1>8. call[c].task = 0 /\ call[c].pc \notin Exclusive
    BY DEF RestartSupervisor, MayBegin, SupervisorInv, CallsInStep, Exclusive
<1> QED BY <1>3, <1>4, <1>5, <1>7, <1>8, CallGoesOn DEF Exclusive

-----------------------------------------------------------------------------
(* Tasks are started, stored and stopped.                                  *)

\* A child's task that goes on running is stored where it was, or dropped.
ChildrenKeepTasks ==
    \A id \in Range(kids) :
      child[id].task \in running' \ abandoned' =>
        id \in Range(kids') /\ child'[id].task = child[id].task

\* No task but a new one begins to run, and what was dropped stays so.
OnlyNewRun ==
    /\ last' \in Nat /\ last' >= last
    /\ running' \subseteq running \cup ((last + 1)..last')
    /\ abandoned \subseteq abandoned'

(***************************************************************************)
(* Whatever one call starts, stops or stores, a task that a failure is to  *)
(* replace stays with a child that handle_failure has still to turn to.    *)
(***************************************************************************)
LEMMA OldKept ==
    ASSUME SupervisorInv, NEW c \in Callers, NEW r, Moves(c, r), OnlyNewRun,
           ChildrenKeepTasks \/ \A d \in Callers \ {c} : call[d].pc = "idle",
           r.pc # "ok",
           r.pc \in {"restart", "restarted"} => StillToCome(r)'
    PROVE  NoOldGeneration' /\ OldStillToCome'
<1>1. WorldTyped
    BY WorldIsTyped
<1>2. last' \in Nat /\ last' >= last /\ last \in Nat
    BY <1>1 DEF OnlyNewRun, WorldTyped
<1>3. /\ call' \in [Callers -> CallRecords'] /\ call'[c] = r
      /\ \A d \in Callers \ {c} : call'[d] = call[d]
    BY <1>2, CallMoves
<1>4. \A d \in Callers : call[d].old \cap running' \subseteq running
    <2> SUFFICES ASSUME NEW d \in Callers, NEW t \in call[d].old, t \in running'
                 PROVE  t \in running
        OBVIOUS
    <2>1. t \in 0..last
        BY <1>1 DEF WorldTyped, CallRecords
    <2> QED BY <1>2, <2>1 DEF OnlyNewRun
<1>5. NoOldGeneration'
    <2> SUFFICES ASSUME NEW d \in Callers, call'[d].pc = "ok"
                 PROVE  call'[d].old \cap running' \subseteq abandoned'
        BY DEF NoOldGeneration
    <2>1. d # c /\ call'[d] = call[d]
        BY <1>3
    <2>2. call[d].old \cap running \subseteq abandoned
        BY <2>1 DEF SupervisorInv, NoOldGeneration
    <2> QED BY <1>4, <2>1, <2>2 DEF OnlyNewRun
<1>6. OldStillToCome'
    <2> SUFFICES ASSUME NEW d \in Callers, call'[d].pc \in {"restart", "restarted"},
                        NEW t \in (call'[d].old \cap running') \ abandoned'
                 PROVE  \E id \in Range(Left(d)') \cap Range(kids') :
                          child'[id].task = t /\ Restartable(id, call'[d].normal)
        BY DEF OldStillToCome
    <2>1. CASE d = c
        <3>1. \E id \in Range(IF r.pc = "restarted" THEN Tail(r.todo) ELSE r.todo) \cap Range(kids') :
                 child'[id].task = t /\ Restartable(id, r.normal)
            BY <1>3, <2>1 DEF StillToCome
        <3> QED BY <1>3, <2>1, <3>1 DEF Left
    <2>2. CASE d # c
        <3>1. call'[d] = call[d] /\ Left(d)' = Left(d)
            BY <1>3, <2>2 DEF Left
        <3>2. t \in (call[d].old \cap running) \ abandoned
            BY <1>4, <3>1 DEF OnlyNewRun
        <3>3. PICK id \in Range(Left(d)) \cap Range(kids) :
                 child[id].task = t /\ Restartable(id, call[d].normal)
            BY <3>1, <3>2 DEF SupervisorInv, OldStillToCome
        <3>4. ChildrenKeepTasks
            BY <2>2, <3>1
        <3>5. id \in Range(kids') /\ child'[id].task = t
            BY <3>3, <3>4 DEF ChildrenKeepTasks
        <3> QED BY <3>1, <3>3, <3>5
    <2> QED BY <2>1, <2>2
<1> QED BY <1>5, <1>6

\* Which tasks are where: no task is in two places.
TasksApart ==
    /\ \A i, j \in Range(kids) : i # j /\ child[i].task # 0 => child[i].task # child[j].task
    /\ \A d \in Callers, i \in Range(kids) : call[d].task # 0 => call[d].task # child[i].task
    /\ \A i \in Range(kids) : child[i].task \notin Range(mid.tasks)
    /\ StartedInOnePlace

\* The types of the tasks after a step.
TasksTyped ==
    /\ kids' \in Seq(Ids) /\ IsInjective(kids') /\ child' \in [Ids -> ChildRecords']
    /\ mid' \in MidRecords /\ Range(mid'.tasks) \subseteq 1..last'
    /\ running' \subseteq 1..last' /\ abandoned' \subseteq 1..last'

(***************************************************************************)
(* The parts of the invariant that a step of one call has to establish.    *)
(***************************************************************************)
LEMMA StepKeeps ==
    ASSUME SupervisorInv, NEW c \in Callers, NEW r, Moves(c, r), OnlyNewRun, TasksTyped,
           CountersTyped, TasksApart', OnlyKnownOrphans',
           ChildrenKeepTasks \/ \A d \in Callers \ {c} : call[d].pc = "idle",
           r.pc # "ok", r.pc \in {"restart", "restarted"} => StillToCome(r)'
    PROVE  SupervisorInv'
<1>1. last' \in Nat /\ last' >= last
    BY DEF OnlyNewRun
<1>2. /\ call' \in [Callers -> CallRecords'] /\ CallsInStep'
      /\ \A d, e \in Callers : d # e => call'[d].locks \cap call'[e].locks = {}
    BY <1>1, CallMoves
<1>3. TypeOK'
    BY <1>1, <1>2 DEF TypeOK, TasksTyped, CountersTyped, ChildRecords, MidRecords
<1>4. OneHolder' /\ StartedInOnePlace'
    BY <1>2 DEF TasksApart, OneHolder
<1>5. NoOldGeneration' /\ OldStillToCome'
    BY OldKept
<1> QED BY <1>2, <1>3, <1>4, <1>5 DEF SupervisorInv

\* The invariant as the proofs of the steps use it.
LEMMA KnownBefore ==
    ASSUME SupervisorInv
    PROVE  /\ WorldTyped /\ TasksApart /\ OnlyKnownOrphans
           /\ \A d \in Callers : InStep(call[d])
    BY WorldIsTyped DEF SupervisorInv, OneHolder, TasksApart, CallsInStep, InStep

(***************************************************************************)
(* The task of one child is aborted, and a new one may be started and      *)
(* stored in its place: restart_one, restart_child and remove_child.       *)
(***************************************************************************)
LEMMA ChildReplaced ==
    ASSUME SupervisorInv, NEW c \in Callers, NEW r, Moves(c, r), NEW id \in Range(kids),
           CountersTyped, UNCHANGED <<mid, abandoned>>,
           kids' \in Seq(Ids), IsInjective(kids'),
           Range(kids') = Range(kids) \/ (Range(kids') = Range(kids) \ {id} /\ child'[id].task = 0),
           child' \in [Ids -> ChildRecords'],
           \A i \in Ids \ {id} : child'[i].task = child[i].task,
           \/ /\ child'[id].task = 0 /\ last' = last
              /\ running' = running \ {child[id].task}
           \/ /\ child'[id].task = last + 1 /\ last' = last + 1
              /\ running' = (running \ {child[id].task}) \cup {last + 1},
           r.task = 0, call[c].task = 0, call[c].pc \notin Exclusive,
           r.pc # "ok", r.pc \in {"restart", "restarted"} => StillToCome(r)'
    PROVE  SupervisorInv'
<1>1. WorldTyped /\ TasksApart /\ OnlyKnownOrphans
    BY KnownBefore
<1>2. last \in Nat /\ last' \in Nat /\ last' >= last
    BY <1>1 DEF WorldTyped
<1>3. /\ call'[c] = r /\ \A d \in Callers \ {c} : call'[d] = call[d]
    BY <1>2, CallMoves
<1>4. \A d \in Callers : call'[d].task = call[d].task
    BY <1>3
<1>5. OnlyNewRun
    BY <1>1, <1>2 DEF OnlyNewRun, WorldTyped
<1>6. id \in Ids /\ Range(kids) \subseteq Ids /\ Range(kids') \subseteq Range(kids)
      /\ Range(kids) \ {id} \subseteq Range(kids')
    BY <1>1 DEF WorldTyped
<1>7. TasksTyped
    <2>1. 1..last \subseteq 1..last' /\ running \subseteq 1..last
        BY <1>1, <1>2 DEF WorldTyped
    <2>2. running' \subseteq 1..last'
        <3>1. CASE running' = running \ {child[id].task}
            BY <2>1, <3>1
        <3>2. CASE last' = last + 1 /\ running' = (running \ {child[id].task}) \cup {last + 1}
            <4>1. last + 1 \in 1..last'
                BY <1>2, <3>2
            <4> QED BY <2>1, <3>2, <4>1
        <3> QED BY <3>1, <3>2
    <2> QED BY <1>1, <2>1, <2>2 DEF TasksTyped, WorldTyped
<1>8. \A i \in Ids : child[i].task \in 0..last
    BY <1>1 DEF WorldTyped, ChildRecords
<1>9. \A d \in Callers : call[d].task \in 0..last
    BY <1>1 DEF WorldTyped, CallRecords
<1>10. Range(mid.tasks) \subseteq 1..last /\ mid' = mid
    BY <1>1 DEF WorldTyped
<1>11. TasksApart'
    <2>1. \A i, j \in Range(kids') : i # j /\ child'[i].task # 0 => child'[i].task # child'[j].task
        <3>1. \A i, j \in Range(kids) : i # j /\ child[i].task # 0 => child[i].task # child[j].task
            BY <1>1 DEF TasksApart
        <3> QED BY <1>2, <1>6, <1>8, <3>1
    <2>2. \A d \in Callers, i \in Range(kids') : call'[d].task # 0 => call'[d].task # child'[i].task
        <3>1. \A d \in Callers, i \in Range(kids) : call[d].task # 0 => call[d].task # child[i].task
            BY <1>1 DEF TasksApart
        <3> QED BY <1>2, <1>4, <1>6, <1>9, <3>1
    <2>3. \A i \in Range(kids') : child'[i].task \notin Range(mid'.tasks)
        <3>1. \A i \in Range(kids) : child[i].task \notin Range(mid.tasks)
            BY <1>1 DEF TasksApart
        <3>2. 0 \notin Range(mid.tasks) /\ last + 1 \notin Range(mid.tasks)
            BY <1>2, <1>10
        <3>3. child'[id].task \in {0, last + 1}
            OBVIOUS
        <3> QED BY <1>6, <1>10, <3>1, <3>2, <3>3
    <2>4. StartedInOnePlace'
        <3>1. /\ \A d, e \in Callers : d # e /\ call[d].task # 0 => call[d].task # call[e].task
              /\ \A d \in Callers : call[d].task \notin Range(mid.tasks)
              /\ \A i \in Ids \ Range(kids) : child[i].task = 0
              /\ ~mid.in => mid.tasks = <<>>
            BY <1>1 DEF TasksApart, StartedInOnePlace
        <3>2. \A i \in Ids \ Range(kids') : child'[i].task = 0
            BY <1>6, <3>1
        <3> QED BY <1>4, <1>10, <3>1, <3>2 DEF StartedInOnePlace
    <2> QED BY <2>1, <2>2, <2>3, <2>4 DEF TasksApart
<1>12. OnlyKnownOrphans'
    <2> SUFFICES ASSUME NEW t \in running', t \notin abandoned PROVE t \in Owned'
        BY DEF OnlyKnownOrphans
    <2>1. CASE t \notin running
        <3>1. t = last + 1 /\ child'[id].task = t /\ last + 1 # 0
            BY <1>2, <2>1
        <3>2. id \in Range(kids')
            BY <3>1
        <3> QED BY <3>1, <3>2 DEF Owned
    <2>2. CASE t \in running
        <3>1. t \in Owned
            BY <1>1, <2>2 DEF OnlyKnownOrphans
        <3>2. t # child[id].task
            BY <1>1, <1>2, <1>6, <1>8
        <3>3. CASE \E i \in Range(kids) : t = child[i].task
            <4>1. PICK i \in Range(kids) : t = child[i].task
                BY <3>3
            <4>2. i # id /\ i \in Range(kids') /\ child'[i].task = t
                BY <1>6, <3>2, <4>1
            <4> QED BY <4>2 DEF Owned
        <3>4. CASE t \in Range(mid.tasks)
            BY <1>10, <3>4 DEF Owned
        <3>5. CASE \E d \in Callers : t = call[d].task
            BY <1>4, <3>5 DEF Owned
        <3>6. CASE \E d \in Callers : call[d].pc \in Exclusive /\ t \in Range(call[d].todo)
            <4>1. PICK d \in Callers : call[d].pc \in Exclusive /\ t \in Range(call[d].todo)
                BY <3>6
            <4>2. d # c /\ call'[d] = call[d]
                BY <1>3, <4>1
            <4> QED BY <4>1, <4>2 DEF Owned
        <3> QED BY <3>1, <3>3, <3>4, <3>5, <3>6 DEF Owned
    <2> QED BY <2>1, <2>2
<1>13. ChildrenKeepTasks
    <2> SUFFICES ASSUME NEW i \in Range(kids), child[i].task \in running'
                 PROVE  i \in Range(kids') /\ child'[i].task = child[i].task
        BY DEF ChildrenKeepTasks
    <2>1. i # id
        BY <1>1, <1>2, <1>6, <1>8
    <2> QED BY <1>6, <2>1
<1> QED BY <1>5, <1>7, <1>11, <1>12, <1>13, StepKeeps

(***************************************************************************)
(* perform_restart starts a task in the place of the one it aborted.       *)
(***************************************************************************)
LEMMA PerformRestartStep ==
    ASSUME SupervisorInv, NEW c \in Callers, PerformRestart(c) PROVE SupervisorInv'
<1> DEFINE id == Head(call[c].todo)
<1>1. WorldTyped /\ \A d \in Callers : InStep(call[d])
    BY KnownBefore
<1>2. /\ id \in Range(kids) /\ id \in Ids /\ AtRestart(c) /\ Hold(c, "restarted")
      /\ UNCHANGED <<kids, mid, abandoned>>
      /\ last' = last + 1 /\ running' = (running \ {child[id].task}) \cup {last + 1}
    BY <1>1 DEF PerformRestart, WorldTyped
<1>3. PICK n \in Kept(child[id].stamps) :
         /\ BelowMax(n)
         /\ child' = [child EXCEPT ![id] = [task |-> last + 1, stamps |-> n + 1]]
    BY DEF PerformRestart
<1>4. n + 1 \in 0..MaxRestarts
    BY <1>1, <1>2, <1>3, SupervisorAssumption DEF WorldTyped, Kept, BelowMax, ChildRecords
<1>5. CountersTyped
    BY <1>1 DEF PerformRestart, WorldTyped, CountersTyped
<1>6. call[c].pc = "restart" /\ call[c].todo # <<>> /\ call[c].task = 0
      /\ call[c].todo \in Seq(Ids \cup Nat)
    BY <1>1, <1>2 DEF AtRestart, InStep, WorldTyped, CallRecords
<1>7. Range(call[c].todo) = {id} \cup Range(Tail(call[c].todo))
    BY <1>6, RestOf
<1> HIDE DEF id
<1>8. last \in Nat /\ last' \in Nat /\ last' >= last
    BY <1>1, <1>2 DEF WorldTyped
<1>9. /\ child' \in [Ids -> ChildRecords'] /\ child'[id].task = last + 1
      /\ \A i \in Ids \ {id} : child'[i] = child[i]
    <2>1. 0..last \subseteq 0..last' /\ last + 1 \in 0..last'
        BY <1>2, <1>8
    <2>2. ChildRecords \subseteq ChildRecords'
          /\ [task |-> last + 1, stamps |-> n + 1] \in ChildRecords'
        BY <1>4, <2>1 DEF ChildRecords
    <2>3. child \in [Ids -> ChildRecords]
        BY <1>1 DEF WorldTyped
    <2> QED BY <1>2, <1>3, <2>2, <2>3
<1>10. PICK r : /\ Moves(c, r)
                /\ r.pc = "restarted" /\ r.task = 0 /\ r.todo = call[c].todo
                /\ r.old = call[c].old /\ r.normal = call[c].normal
    BY <1>2, <1>8, HoldMoves
<1>11. StillToCome(r)'
    <2> SUFFICES ASSUME NEW t \in (call[c].old \cap running') \ abandoned
                 PROVE  \E i \in Range(Tail(call[c].todo)) \cap Range(kids) :
                          child'[i].task = t /\ Restartable(i, call[c].normal)
        BY <1>2, <1>10 DEF StillToCome
    <2>1. t \in 0..last
        BY <1>1 DEF WorldTyped, CallRecords
    <2>2. t \in (call[c].old \cap running) \ abandoned /\ t # child[id].task
        BY <1>1, <1>2, <1>8, <2>1 DEF WorldTyped
    <2>3. PICK i \in Range(call[c].todo) \cap Range(kids) :
             child[i].task = t /\ Restartable(i, call[c].normal)
        BY <1>6, <2>2 DEF SupervisorInv, OldStillToCome, Left
    <2>4. i # id /\ i \in Ids /\ i \in Range(Tail(call[c].todo))
        BY <1>1, <1>7, <2>2, <2>3 DEF WorldTyped
    <2> QED BY <1>9, <2>3, <2>4
<1> QED
    <2>1. kids' \in Seq(Ids) /\ IsInjective(kids') /\ Range(kids') = Range(kids)
        BY <1>1, <1>2 DEF WorldTyped
    <2>2. call[c].pc \notin Exclusive
        BY <1>6 DEF Exclusive
    <2> QED BY <1>2, <1>5, <1>6, <1>9, <1>10, <1>11, <2>1, <2>2, ChildReplaced

(***************************************************************************)
(* perform_restart fails: the child is left without a task.                *)
(***************************************************************************)
LEMMA PerformRestartFailsStep ==
    ASSUME SupervisorInv, NEW c \in Callers, PerformRestartFails(c) PROVE SupervisorInv'
<1> DEFINE id == Head(call[c].todo)
<1>1. WorldTyped /\ \A d \in Callers : InStep(call[d])
    BY KnownBefore
<1>2. /\ id \in Range(kids) /\ id \in Ids /\ AtRestart(c) /\ Return(c)
      /\ UNCHANGED <<kids, mid, abandoned, last>>
      /\ running' = running \ {child[id].task}
    BY <1>1 DEF PerformRestartFails, WorldTyped
<1>3. PICK n \in Kept(child[id].stamps) :
         /\ BelowMax(n)
         /\ child' = [child EXCEPT ![id] = [task |-> 0, stamps |-> n + 1]]
    BY DEF PerformRestartFails
<1>4. n + 1 \in 0..MaxRestarts
    BY <1>1, <1>2, <1>3, SupervisorAssumption DEF WorldTyped, Kept, BelowMax, ChildRecords
<1>5. CountersTyped
    BY <1>1 DEF PerformRestartFails, WorldTyped, CountersTyped
<1>6. call[c].pc = "restart" /\ call[c].task = 0
    BY <1>1, <1>2 DEF AtRestart, InStep
<1> HIDE DEF id
<1>7. /\ child' \in [Ids -> ChildRecords'] /\ child'[id].task = 0
      /\ \A i \in Ids \ {id} : child'[i] = child[i]
    <2>1. ChildRecords' = ChildRecords /\ [task |-> 0, stamps |-> n + 1] \in ChildRecords
        BY <1>1, <1>2, <1>4 DEF ChildRecords, WorldTyped
    <2>2. child \in [Ids -> ChildRecords]
        BY <1>1 DEF WorldTyped
    <2> QED BY <1>2, <1>3, <2>1, <2>2
<1>8. Idle \in CallRecords /\ InStep(Idle) /\ Idle.task = 0 /\ Idle.locks = {} /\ Idle.pc = "idle"
    BY <1>1, IdleTyped DEF WorldTyped, Idle
<1>9. Moves(c, Idle)
    BY <1>2, <1>8, MovesOn DEF Return, Exclusive
<1>10. kids' \in Seq(Ids) /\ IsInjective(kids') /\ Range(kids') = Range(kids)
    BY <1>1, <1>2 DEF WorldTyped
<1>11. call[c].pc \notin Exclusive
    BY <1>6 DEF Exclusive
<1> QED BY <1>2, <1>5, <1>6, <1>7, <1>8, <1>9, <1>10, <1>11, ChildReplaced

(***************************************************************************)
(* remove_child aborts the task and takes the child out of the map.        *)
(***************************************************************************)
LEMMA RemoveChildStep ==
    ASSUME SupervisorInv, NEW c \in Callers, RemoveChild(c) PROVE SupervisorInv'
<1> DEFINE r == [Idle EXCEPT !.pc = "stopped", !.locks = {"children"}]
<1>1. WorldTyped /\ \A d \in Callers : InStep(call[d])
    BY KnownBefore
<1>2. PICK i \in DOMAIN kids :
         /\ kids' = RemoveAt(kids, i)
         /\ running' = running \ {child[kids[i]].task}
         /\ child' = [child EXCEPT ![kids[i]] = [task |-> 0, stamps |-> 0]]
    BY DEF RemoveChild
<1> DEFINE id == kids[i]
<1>3. /\ MayBegin(c) /\ Free("children") /\ UNCHANGED <<mid, abandoned, last>>
      /\ call' = [call EXCEPT ![c] = r]
    BY DEF RemoveChild
<1>4. CountersTyped
    <2>1. begun + 1 \in 0..MaxCalls
        BY <1>1, SupervisorAssumption DEF RemoveChild, MayBegin, WorldTyped
    <2> QED BY <1>1, <2>1 DEF RemoveChild, WorldTyped, CountersTyped, stats
<1>5. /\ kids' \in Seq(Ids) /\ IsInjective(kids') /\ Range(kids') = Range(kids) \ {id}
      /\ id \in Range(kids) /\ id \in Ids
    <2>1. kids \in Seq(Ids) /\ IsInjective(kids) /\ Range(kids) \subseteq Ids
        BY <1>1 DEF WorldTyped
    <2>2. id \in Range(kids)
        BY DEF Range
    <2> QED BY <1>2, <2>1, <2>2, RemovedAt
<1>6. /\ running' = running \ {child[id].task}
      /\ child' = [child EXCEPT ![id] = [task |-> 0, stamps |-> 0]]
    BY <1>2
<1> HIDE DEF id
<1>7. /\ child' \in [Ids -> ChildRecords'] /\ child'[id].task = 0
      /\ \A j \in Ids \ {id} : child'[j] = child[j]
    <2>1. ChildRecords' = ChildRecords /\ [task |-> 0, stamps |-> 0] \in ChildRecords
        BY <1>1, <1>3, SupervisorAssumption DEF ChildRecords, WorldTyped
    <2>2. child \in [Ids -> ChildRecords]
        BY <1>1 DEF WorldTyped
    <2> QED BY <1>5, <1>6, <2>1, <2>2
<1>8. r \in CallRecords' /\ r.pc = "stopped" /\ r.task = 0 /\ r.locks = {"children"}
    <2>1. CallRecords' = CallRecords
        BY <1>3 DEF CallRecords
    <2>2. Idle \in CallRecords /\ Idle.task = 0
        BY <1>1, IdleTyped DEF WorldTyped
    <2>3. r \in CallRecords /\ r.pc = "stopped" /\ r.task = 0 /\ r.locks = {"children"}
        BY <2>2 DEF CallRecords, Steps
    <2> QED BY <2>1, <2>3
<1>9. InStep(r)
    BY DEF InStep, LocksAt, Idle
<1> HIDE DEF r
<1>10. \A d \in Callers \ {c} : r.locks \cap call[d].locks = {}
    BY <1>3, <1>8 DEF Free
<1>11. Moves(c, r)
    BY <1>3, <1>8, <1>9, <1>10, BeginMoves DEF Exclusive
<1>12. call[c].task = 0 /\ call[c].pc \notin Exclusive
    BY <1>1, <1>3 DEF MayBegin, InStep, Exclusive
<1> QED BY <1>3, <1>4, <1>5, <1>6, <1>7, <1>8, <1>11, <1>12, ChildReplaced

(***************************************************************************)
(* restart_child runs alone.                                               *)
(***************************************************************************)
LEMMA RestartChildStep ==
    ASSUME SupervisorInv, NEW c \in Callers, RestartChild(c) PROVE SupervisorInv'
<1>1. WorldTyped /\ \A d \in Callers : InStep(call[d])
    BY KnownBefore
<1>2. PICK id \in Range(kids), ok \in BOOLEAN :
          /\ child' = [child EXCEPT ![id].task = IF ok THEN last + 1 ELSE 0]
          /\ running' = (running \ {child[id].task}) \cup (IF ok THEN {last + 1} ELSE {})
          /\ last' = IF ok THEN last + 1 ELSE last
    BY DEF RestartChild
<1>3. /\ MayBegin(c) /\ UNCHANGED <<kids, mid, abandoned, call>>
      /\ \A d \in Callers : call[d].pc = "idle"
    BY DEF RestartChild, AloneBegins
<1>4. CountersTyped
    <2>1. begun + 1 \in 0..MaxCalls
        BY <1>1, <1>3, SupervisorAssumption DEF MayBegin, WorldTyped
    <2> QED BY <1>1, <2>1 DEF RestartChild, WorldTyped, CountersTyped, stats
<1>5. last \in Nat /\ last' \in Nat /\ last' >= last /\ 0..last \subseteq 0..last'
    BY <1>1, <1>2 DEF WorldTyped
<1>6. id \in Ids /\ kids' \in Seq(Ids) /\ IsInjective(kids') /\ Range(kids') = Range(kids)
    BY <1>1, <1>3 DEF WorldTyped
<1>7. /\ child' \in [Ids -> ChildRecords']
      /\ child'[id].task = IF ok THEN last + 1 ELSE 0
      /\ \A j \in Ids \ {id} : child'[j] = child[j]
    <2>1. child \in [Ids -> ChildRecords]
        BY <1>1 DEF WorldTyped
    <2>2. (IF ok THEN last + 1 ELSE 0) \in 0..last'
        BY <1>2, <1>5
    <2>3. \A x \in ChildRecords : x \in ChildRecords'
        BY <1>5 DEF ChildRecords
    <2>4. [child[id] EXCEPT !.task = IF ok THEN last + 1 ELSE 0] \in ChildRecords'
        BY <1>6, <2>1, <2>2 DEF ChildRecords
    <2>5. child' = [child EXCEPT ![id] = [child[id] EXCEPT !.task = IF ok THEN last + 1 ELSE 0]]
        BY <1>2
    <2>6. child'[id] = [child[id] EXCEPT !.task = IF ok THEN last + 1 ELSE 0]
        BY <1>6, <2>1, <2>5
    <2>7. child'[id].task = IF ok THEN last + 1 ELSE 0
        BY <1>6, <2>1, <2>6 DEF ChildRecords
    <2> QED BY <1>6, <2>1, <2>3, <2>4, <2>5, <2>7
<1>8. Moves(c, call[c])
    <2>1. call[c] \in CallRecords'
        BY <1>1, <1>5 DEF WorldTyped, CallRecords
    <2>2. call' = [call EXCEPT ![c] = call[c]]
        BY <1>1, <1>3 DEF WorldTyped
    <2>3. call[c].locks = {}
        BY <1>1, <1>3 DEF InStep, LocksAt
    <2> QED BY <1>1, <1>3, <2>1, <2>2, <2>3 DEF Moves, Exclusive
<1>9. call[c].task = 0 /\ call[c].pc \notin Exclusive /\ call[c].pc = "idle"
    BY <1>1, <1>3 DEF InStep, Exclusive
<1>10. \/ /\ child'[id].task = 0 /\ last' = last
          /\ running' = running \ {child[id].task}
       \/ /\ child'[id].task = last + 1 /\ last' = last + 1
          /\ running' = (running \ {child[id].task}) \cup {last + 1}
    BY <1>2, <1>7
<1> QED BY <1>3, <1>4, <1>6, <1>7, <1>8, <1>9, <1>10, ChildReplaced

(***************************************************************************)
(* add_child starts a task that only its call knows of.                    *)
(***************************************************************************)
LEMMA AddChildStep ==
    ASSUME SupervisorInv, NEW c \in Callers, AddChild(c) PROVE SupervisorInv'
<1>1. /\ WorldTyped /\ TasksApart /\ OnlyKnownOrphans
      /\ \A d \in Callers : InStep(call[d])
    BY KnownBefore
<1>2. PICK id \in Ids :
         call' = [call EXCEPT ![c] = [Idle EXCEPT !.pc = "insert", !.id = id, !.task = last + 1]]
    BY DEF AddChild
<1> DEFINE r == [Idle EXCEPT !.pc = "insert", !.id = id, !.task = last + 1]
<1>3. /\ MayBegin(c) /\ last' = last + 1 /\ running' = running \cup {last + 1}
      /\ UNCHANGED <<kids, child, mid, abandoned>>
    BY DEF AddChild
<1>4. CountersTyped
    <2>1. begun + 1 \in 0..MaxCalls
        BY <1>1, <1>3, SupervisorAssumption DEF MayBegin, WorldTyped
    <2> QED BY <1>1, <2>1 DEF AddChild, WorldTyped, CountersTyped, stats
<1>5. /\ last \in Nat /\ last' \in Nat /\ last' >= last /\ last + 1 \in 1..last'
      /\ 0..last \subseteq 0..last' /\ 1..last \subseteq 1..last' /\ last + 1 \in 0..last'
    BY <1>1, <1>3 DEF WorldTyped
<1>6. r \in CallRecords' /\ r.pc = "insert" /\ r.task = last + 1 /\ r.locks = {} /\ r.id = id
    <2>1. Idle \in CallRecords /\ Idle.task = 0 /\ Idle.locks = {}
        BY <1>5, IdleTyped
    <2>2. r.pc = "insert" /\ r.task = last + 1 /\ r.locks = {} /\ r.id = id
        BY <2>1 DEF CallRecords
    <2> QED BY <1>5, <2>1, <2>2 DEF CallRecords, Steps
<1>7. InStep(r)
    BY <1>6 DEF InStep, LocksAt
<1>8. call' = [call EXCEPT ![c] = r]
    BY <1>2
<1> HIDE DEF r
<1>9. Moves(c, r)
    BY <1>3, <1>6, <1>7, <1>8, BeginMoves DEF Exclusive
<1>10. call'[c] = r /\ \A d \in Callers \ {c} : call'[d] = call[d]
    BY <1>5, <1>9, CallMoves
<1>11. OnlyNewRun
    BY <1>3, <1>5 DEF OnlyNewRun
<1>12. TasksTyped
    <2>1. running' \subseteq 1..last'
        BY <1>1, <1>3, <1>5 DEF WorldTyped
    <2>2. child' \in [Ids -> ChildRecords']
        <3>1. \A x \in ChildRecords : x \in ChildRecords'
            BY <1>5 DEF ChildRecords
        <3> QED BY <1>1, <1>3, <3>1 DEF WorldTyped
    <2> QED BY <1>1, <1>3, <1>5, <2>1, <2>2 DEF TasksTyped, WorldTyped
<1>13. /\ \A i \in Ids : child[i].task \in 0..last
       /\ \A d \in Callers : call[d].task \in 0..last
       /\ last + 1 \notin Range(mid.tasks)
       /\ Range(kids) \subseteq Ids
    <2>1. Range(mid.tasks) \subseteq 1..last
        BY <1>1 DEF WorldTyped
    <2>2. last + 1 \notin Range(mid.tasks)
        BY <1>5, <2>1
    <2> QED BY <1>1, <2>2 DEF WorldTyped, ChildRecords, CallRecords
<1>14. TasksApart'
    <2>1. /\ \A i, j \in Range(kids) : i # j /\ child[i].task # 0 => child[i].task # child[j].task
          /\ \A d \in Callers, i \in Range(kids) : call[d].task # 0 => call[d].task # child[i].task
          /\ \A i \in Range(kids) : child[i].task \notin Range(mid.tasks)
          /\ \A d, e \in Callers : d # e /\ call[d].task # 0 => call[d].task # call[e].task
          /\ \A d \in Callers : call[d].task \notin Range(mid.tasks)
          /\ \A i \in Ids \ Range(kids) : child[i].task = 0
          /\ ~mid.in => mid.tasks = <<>>
        BY <1>1 DEF TasksApart, StartedInOnePlace
    <2>2. \A d \in Callers, i \in Range(kids') : call'[d].task # 0 => call'[d].task # child'[i].task
        BY <1>3, <1>5, <1>6, <1>10, <1>13, <2>1
    <2>3. \A d, e \in Callers : d # e /\ call'[d].task # 0 => call'[d].task # call'[e].task
        BY <1>5, <1>6, <1>10, <1>13, <2>1
    <2>4. \A d \in Callers : call'[d].task \notin Range(mid'.tasks)
        BY <1>3, <1>6, <1>10, <1>13, <2>1
    <2> QED BY <1>3, <2>1, <2>2, <2>3, <2>4 DEF TasksApart, StartedInOnePlace
<1>15. OnlyKnownOrphans'
    <2> SUFFICES ASSUME NEW t \in running', t \notin abandoned PROVE t \in Owned'
        BY <1>3 DEF OnlyKnownOrphans
    <2>1. CASE t = last + 1
        BY <1>6, <1>10, <2>1 DEF Owned
    <2>2. CASE t \in running
        <3>1. t \in Owned /\ t # 0
            BY <1>1, <2>2 DEF OnlyKnownOrphans, WorldTyped
        <3>2. CASE \E i \in Range(kids) : t = child[i].task
            BY <1>3, <3>2 DEF Owned
        <3>3. CASE t \in Range(mid.tasks)
            BY <1>3, <3>3 DEF Owned
        <3>4. CASE \E d \in Callers : t = call[d].task
            <4>1. PICK d \in Callers : t = call[d].task
                BY <3>4
            <4>2. d # c
                BY <1>1, <1>3, <3>1, <4>1 DEF InStep, MayBegin
            <4> QED BY <1>10, <4>1, <4>2 DEF Owned
        <3>5. CASE \E d \in Callers : call[d].pc \in Exclusive /\ t \in Range(call[d].todo)
            BY <1>3, <3>5 DEF MayBegin
        <3> QED BY <3>1, <3>2, <3>3, <3>4, <3>5 DEF Owned
    <2> QED BY <1>3, <2>1, <2>2
<1>16. ChildrenKeepTasks
    BY <1>3 DEF ChildrenKeepTasks
<1> QED BY <1>4, <1>6, <1>9, <1>11, <1>12, <1>14, <1>15, <1>16, StepKeeps

(***************************************************************************)
(* add_child stores its task; an actor that was there is dropped.          *)
(***************************************************************************)
LEMMA InsertChildStep ==
    ASSUME SupervisorInv, NEW c \in Callers, InsertChild(c) PROVE SupervisorInv'
<1> DEFINE id == call[c].id
           r == [Idle EXCEPT !.pc = "added"]
<1>1. /\ WorldTyped /\ TasksApart /\ OnlyKnownOrphans
      /\ \A d \in Callers : InStep(call[d])
    BY KnownBefore
<1>2. /\ call[c].pc = "insert" /\ id \in Ids
      /\ kids' = IF id \in Range(kids) THEN kids ELSE Append(kids, id)
      /\ abandoned' = abandoned \cup (running \cap {child[id].task})
      /\ child' = [child EXCEPT ![id] = [task |-> call[c].task, stamps |-> 0]]
      /\ call' = [call EXCEPT ![c] = r]
      /\ UNCHANGED <<running, last, stats, mid, events, rx, begun>>
    BY <1>1 DEF InsertChild, InStep
<1>3. CountersTyped
    BY <1>1, <1>2 DEF WorldTyped, CountersTyped, stats
<1> HIDE DEF id
<1>4. kids' \in Seq(Ids) /\ IsInjective(kids') /\ Range(kids') = Range(kids) \cup {id}
    <2>1. kids \in Seq(Ids) /\ IsInjective(kids)
        BY <1>1 DEF WorldTyped
    <2>2. CASE id \in Range(kids)
        BY <1>2, <2>1, <2>2
    <2>3. CASE id \notin Range(kids)
        BY <1>2, <2>1, <2>3, AddedLast
    <2> QED BY <2>2, <2>3
<1>5. /\ last \in Nat /\ last' = last /\ call[c].task \in 0..last
      /\ CallRecords' = CallRecords /\ ChildRecords' = ChildRecords
      /\ child \in [Ids -> ChildRecords] /\ Range(kids) \subseteq Ids
    BY <1>1, <1>2 DEF WorldTyped, CallRecords, ChildRecords
<1>6. /\ child' \in [Ids -> ChildRecords'] /\ child'[id].task = call[c].task
      /\ \A i \in Ids \ {id} : child'[i] = child[i]
    <2>1. [task |-> call[c].task, stamps |-> 0] \in ChildRecords
        BY <1>5, SupervisorAssumption DEF ChildRecords
    <2> QED BY <1>2, <1>5, <2>1
<1>7. r \in CallRecords /\ r.pc = "added" /\ r.task = 0 /\ r.locks = {}
    <2>1. Idle \in CallRecords /\ Idle.task = 0 /\ Idle.locks = {}
        BY <1>5, IdleTyped
    <2> QED BY <2>1 DEF CallRecords, Steps
<1>8. InStep(r)
    BY DEF InStep, LocksAt, Idle
<1> HIDE DEF r
<1>9. Moves(c, r)
    BY <1>2, <1>5, <1>7, <1>8, MovesOn DEF Exclusive
<1>10. call'[c] = r /\ \A d \in Callers \ {c} : call'[d] = call[d]
    BY <1>5, <1>9, CallMoves
<1>11. OnlyNewRun
    BY <1>2, <1>5 DEF OnlyNewRun
<1>12. TasksTyped
    BY <1>1, <1>2, <1>4, <1>5, <1>6 DEF TasksTyped, WorldTyped
<1>13. TasksApart'
    <2>1. /\ \A i, j \in Range(kids) : i # j /\ child[i].task # 0 => child[i].task # child[j].task
          /\ \A d \in Callers, i \in Range(kids) : call[d].task # 0 => call[d].task # child[i].task
          /\ \A i \in Range(kids) : child[i].task \notin Range(mid.tasks)
          /\ \A d, e \in Callers : d # e /\ call[d].task # 0 => call[d].task # call[e].task
          /\ \A d \in Callers : call[d].task \notin Range(mid.tasks)
          /\ \A i \in Ids \ Range(kids) : child[i].task = 0
          /\ ~mid.in => mid.tasks = <<>>
        BY <1>1 DEF TasksApart, StartedInOnePlace
    <2>2. \A i, j \in Range(kids') : i # j /\ child'[i].task # 0 => child'[i].task # child'[j].task
        BY <1>4, <1>5, <1>6, <2>1
    <2>3. \A d \in Callers, i \in Range(kids') : call'[d].task # 0 => call'[d].task # child'[i].task
        BY <1>4, <1>5, <1>6, <1>7, <1>10, <2>1
    <2>4. \A i \in Range(kids') : child'[i].task \notin Range(mid'.tasks)
        BY <1>2, <1>4, <1>5, <1>6, <2>1
    <2>5. \A d, e \in Callers : d # e /\ call'[d].task # 0 => call'[d].task # call'[e].task
        BY <1>7, <1>10, <2>1
    <2>6. \A d \in Callers : call'[d].task \notin Range(mid'.tasks)
        <3>1. 0 \notin Range(mid.tasks)
            BY <1>1 DEF WorldTyped
        <3> QED BY <1>2, <1>7, <1>10, <2>1, <3>1
    <2>7. \A i \in Ids \ Range(kids') : child'[i].task = 0
        BY <1>4, <1>6, <2>1
    <2> QED BY <1>2, <2>1, <2>2, <2>3, <2>4, <2>5, <2>6, <2>7 DEF TasksApart, StartedInOnePlace
<1>14. OnlyKnownOrphans'
    <2> SUFFICES ASSUME NEW t \in running, t \notin abandoned' PROVE t \in Owned'
        BY <1>2 DEF OnlyKnownOrphans
    <2>1. t \in Owned /\ t # child[id].task
        BY <1>1, <1>2 DEF OnlyKnownOrphans
    <2>2. CASE \E i \in Range(kids) : t = child[i].task
        <3>1. PICK i \in Range(kids) : t = child[i].task
            BY <2>2
        <3>2. i \in Range(kids') /\ child'[i].task = t
            BY <1>4, <1>5, <1>6, <2>1, <3>1
        <3> QED BY <3>2 DEF Owned
    <2>3. CASE t \in Range(mid.tasks)
        BY <1>2, <2>3 DEF Owned
    <2>4. CASE \E d \in Callers : t = call[d].task
        <3>1. PICK d \in Callers : t = call[d].task
            BY <2>4
        <3>2. CASE d = c
            BY <1>4, <1>6, <3>1, <3>2 DEF Owned
        <3>3. CASE d # c
            BY <1>10, <3>1, <3>3 DEF Owned
        <3> QED BY <3>2, <3>3
    <2>5. CASE \E d \in Callers : call[d].pc \in Exclusive /\ t \in Range(call[d].todo)
        <3>1. PICK d \in Callers : call[d].pc \in Exclusive /\ t \in Range(call[d].todo)
            BY <2>5
        <3>2. d # c
            BY <1>2, <3>1 DEF Exclusive
        <3> QED BY <1>10, <3>1, <3>2 DEF Owned
    <2> QED BY <2>1, <2>2, <2>3, <2>4, <2>5 DEF Owned
<1>15. ChildrenKeepTasks
    <2> SUFFICES ASSUME NEW i \in Range(kids), child[i].task \in running \ abandoned'
                 PROVE  i \in Range(kids') /\ child'[i].task = child[i].task
        BY <1>2 DEF ChildrenKeepTasks
    <2>1. i # id
        BY <1>2
    <2> QED BY <1>4, <1>5, <1>6, <2>1
<1> QED BY <1>3, <1>7, <1>9, <1>11, <1>12, <1>13, <1>14, <1>15, StepKeeps

(***************************************************************************)
(* remove_supervisor_child shuts the child supervisor down, or drops it.   *)
(***************************************************************************)
LEMMA RemoveSupervisorChildStep ==
    ASSUME SupervisorInv, NEW c \in Callers, RemoveSupervisorChild(c) PROVE SupervisorInv'
<1> DEFINE r == [Idle EXCEPT !.pc = "midRemoved", !.locks = {"supervisors"}]
<1>1. /\ WorldTyped /\ TasksApart /\ OnlyKnownOrphans
      /\ \A d \in Callers : InStep(call[d])
    BY KnownBefore
<1>2. /\ MayBegin(c) /\ Free("supervisors") /\ mid' = [mid EXCEPT !.in = FALSE, !.tasks = <<>>]
      /\ \/ abandoned' = abandoned \cup (running \cap Range(mid.tasks)) /\ running' = running
         \/ running' = running \ Range(mid.tasks) /\ abandoned' = abandoned
      /\ call' = [call EXCEPT ![c] = r]
      /\ UNCHANGED <<kids, child, last>>
    BY DEF RemoveSupervisorChild
<1>3. CountersTyped
    <2>1. begun + 1 \in 0..MaxCalls
        BY <1>1, <1>2, SupervisorAssumption DEF MayBegin, WorldTyped
    <2> QED BY <1>1, <2>1 DEF RemoveSupervisorChild, WorldTyped, CountersTyped, stats
<1>4. last \in Nat /\ last' = last /\ CallRecords' = CallRecords /\ ChildRecords' = ChildRecords
    BY <1>1, <1>2 DEF WorldTyped, CallRecords, ChildRecords
<1>5. r \in CallRecords /\ r.pc = "midRemoved" /\ r.task = 0 /\ r.locks = {"supervisors"}
    <2>1. Idle \in CallRecords /\ Idle.task = 0
        BY <1>4, IdleTyped
    <2> QED BY <2>1 DEF CallRecords, Steps
<1>6. InStep(r)
    BY DEF InStep, LocksAt, Idle
<1> HIDE DEF r
<1>7. Moves(c, r)
    <2>1. \A d \in Callers \ {c} : r.locks \cap call[d].locks = {}
        BY <1>2, <1>5 DEF Free
    <2> QED BY <1>2, <1>4, <1>5, <1>6, <2>1, BeginMoves DEF Exclusive
<1>8. call'[c] = r /\ \A d \in Callers \ {c} : call'[d] = call[d]
    BY <1>4, <1>7, CallMoves
<1>9. call[c].task = 0 /\ \A d \in Callers : call[d].pc \notin Exclusive
    BY <1>1, <1>2 DEF MayBegin, InStep
<1>10. mid' \in MidRecords /\ mid'.tasks = <<>> /\ Range(mid'.tasks) = {}
    <2>0. <<>> \in Seq(Nat)
        OBVIOUS
    <2>1. mid' \in MidRecords /\ mid'.tasks = <<>>
        BY <1>1, <1>2, <2>0 DEF WorldTyped, MidRecords
    <2> QED BY <2>1 DEF Range
<1>11. OnlyNewRun
    BY <1>2, <1>4 DEF OnlyNewRun
<1>12. TasksTyped
    BY <1>1, <1>2, <1>4, <1>10 DEF TasksTyped, WorldTyped
<1>13. TasksApart'
    <2>1. \A d \in Callers : call'[d].task = call[d].task
        BY <1>5, <1>8, <1>9
    <2> QED BY <1>1, <1>2, <1>10, <2>1 DEF TasksApart, StartedInOnePlace
<1>14. OnlyKnownOrphans'
    <2> SUFFICES ASSUME NEW t \in running', t \notin abandoned' PROVE t \in Owned'
        BY DEF OnlyKnownOrphans
    <2>1. t \in running /\ t \notin abandoned /\ t \notin Range(mid.tasks)
        BY <1>2
    <2>2. t \in Owned
        BY <1>1, <2>1 DEF OnlyKnownOrphans
    <2>3. CASE \E i \in Range(kids) : t = child[i].task
        BY <1>2, <2>3 DEF Owned
    <2>4. CASE \E d \in Callers : t = call[d].task
        BY <1>5, <1>8, <1>9, <2>4 DEF Owned
    <2> QED BY <1>9, <2>1, <2>2, <2>3, <2>4 DEF Owned
<1>15. ChildrenKeepTasks
    BY <1>2 DEF ChildrenKeepTasks
<1> QED BY <1>3, <1>5, <1>7, <1>11, <1>12, <1>13, <1>14, <1>15, StepKeeps

(***************************************************************************)
(* The steps of a call that runs alone: what runs on is a child's, the     *)
(* child supervisor's, or still to be stopped by that call.                *)
(***************************************************************************)
LEMMA AloneStep ==
    ASSUME SupervisorInv, NEW c \in Callers, NEW r \in CallRecords, InStep(r),
           r.pc \in Exclusive, call' = [call EXCEPT ![c] = r],
           \A d \in Callers \ {c} : call[d].pc = "idle",
           call[c].pc # "insert",
           last' = last, running' \subseteq running, abandoned \subseteq abandoned',
           TasksTyped, CountersTyped,
           \A i, j \in Range(kids') : i # j /\ child'[i].task # 0 => child'[i].task # child'[j].task,
           \A i \in Range(kids') : child'[i].task \notin Range(mid'.tasks),
           \A i \in Ids \ Range(kids') : child'[i].task = 0,
           ~mid'.in => mid'.tasks = <<>>,
           \A t \in running' \ abandoned' :
             \/ t \in Range(r.todo)
             \/ t \in Range(mid'.tasks)
             \/ \E i \in Range(kids') : t = child'[i].task
    PROVE  SupervisorInv'
<1>1. /\ WorldTyped /\ \A d \in Callers : InStep(call[d])
    BY KnownBefore
<1>2. last \in Nat
    BY <1>1 DEF WorldTyped
<1>3. r.pc \notin {"insert", "ok", "restart", "restarted"}
    BY DEF Exclusive
<1>4. Moves(c, r)
    <2>1. r.locks = {}
        BY DEF InStep, LocksAt, Exclusive
    <2>2. r \in CallRecords'
        BY DEF CallRecords
    <2> QED BY <2>1, <2>2 DEF Moves, Exclusive
<1>5. call'[c] = r /\ \A d \in Callers \ {c} : call'[d] = call[d]
    BY <1>2, <1>4, CallMoves
<1>6. \A d \in Callers : call'[d].task = 0
    BY <1>1, <1>3, <1>5 DEF InStep
<1>7. OnlyNewRun
    BY <1>2 DEF OnlyNewRun
<1>8. TasksApart'
    <2>1. 0 \notin Range(mid'.tasks)
        BY <1>2 DEF TasksTyped
    <2>2. StartedInOnePlace'
        BY <1>6, <2>1 DEF StartedInOnePlace
    <2> QED BY <1>6, <2>2 DEF TasksApart
<1>9. OnlyKnownOrphans'
    <2> SUFFICES ASSUME NEW t \in running' \ abandoned' PROVE t \in Owned'
        BY DEF OnlyKnownOrphans
    <2>1. CASE t \in Range(r.todo)
        BY <1>5, <2>1 DEF Owned
    <2>2. CASE t \in Range(mid'.tasks)
        BY <2>2 DEF Owned
    <2>3. CASE \E i \in Range(kids') : t = child'[i].task
        BY <2>3 DEF Owned
    <2> QED BY <2>1, <2>2, <2>3
<1> QED BY <1>3, <1>4, <1>7, <1>8, <1>9, StepKeeps

(***************************************************************************)
(* shutdown() begins: the tasks of the child supervisor are to be stopped. *)
(***************************************************************************)
LEMMA ShutdownStep ==
    ASSUME SupervisorInv, NEW c \in Callers, Shutdown(c) PROVE SupervisorInv'
<1> DEFINE todo == Reverse(mid.tasks)
           r == [Idle EXCEPT !.pc = IF mid.in THEN "midStop" ELSE "collectOwn", !.todo = todo]
<1>1. /\ WorldTyped /\ TasksApart /\ OnlyKnownOrphans
      /\ \A d \in Callers : InStep(call[d])
    BY KnownBefore
<1>2. /\ MayBegin(c) /\ mid' = [mid EXCEPT !.in = FALSE, !.tasks = <<>>]
      /\ \A d \in Callers : call[d].pc = "idle"
      /\ call' = [call EXCEPT ![c] = r]
      /\ UNCHANGED <<kids, child, running, last, abandoned>>
    BY DEF Shutdown, AloneBegins, tasks
<1>3. CountersTyped
    <2>1. begun + 1 \in 0..MaxCalls
        BY <1>1, <1>2, SupervisorAssumption DEF MayBegin, WorldTyped
    <2> QED BY <1>1, <2>1 DEF Shutdown, WorldTyped, CountersTyped, stats
<1>4. last \in Nat /\ mid \in MidRecords
    BY <1>1 DEF WorldTyped
<1>5. /\ todo \in Seq(Nat) /\ Range(todo) = Range(mid.tasks)
      /\ ~mid.in => todo = <<>>
    <2>1. mid.tasks \in Seq(Nat)
        BY <1>4 DEF MidRecords
    <2>2. todo \in Seq(Nat) /\ Range(todo) = Range(mid.tasks)
        BY <2>1, ReversedHolds
    <2>3. ASSUME ~mid.in PROVE todo = <<>>
        <3>1. mid.tasks = <<>>
            BY <1>1, <2>3 DEF TasksApart, StartedInOnePlace
        <3>2. DOMAIN todo = 1..0
            BY <3>1 DEF Reverse
        <3>3. Len(todo) = 0
            BY <2>2, <3>2, LenProperties
        <3> QED BY <2>2, <3>3, EmptySeq
    <2> QED BY <2>2, <2>3
<1> HIDE DEF todo
<1>6. r \in CallRecords /\ r.pc \in Exclusive /\ r.todo = todo
    <2>1. Idle \in CallRecords
        BY <1>4, IdleTyped
    <2>2. todo \in Seq(Ids \cup Nat)
        BY <1>5, SeqMonotonic
    <2> QED BY <2>1, <2>2 DEF CallRecords, Steps, Exclusive
<1>7. InStep(r)
    BY <1>5 DEF InStep, LocksAt, Idle
<1> HIDE DEF r
<1>8. mid' \in MidRecords /\ mid'.tasks = <<>> /\ Range(mid'.tasks) = {}
    <2>1. <<>> \in Seq(Nat)
        OBVIOUS
    <2>2. mid' \in MidRecords /\ mid'.tasks = <<>>
        BY <1>2, <1>4, <2>1 DEF MidRecords
    <2> QED BY <2>2 DEF Range
<1>9. TasksTyped
    BY <1>1, <1>2, <1>8 DEF TasksTyped, WorldTyped, ChildRecords
<1>10. /\ \A i, j \in Range(kids') : i # j /\ child'[i].task # 0 => child'[i].task # child'[j].task
       /\ \A i \in Range(kids') : child'[i].task \notin Range(mid'.tasks)
       /\ \A i \in Ids \ Range(kids') : child'[i].task = 0
    BY <1>1, <1>2, <1>8 DEF TasksApart, StartedInOnePlace
<1>11. ASSUME NEW t \in running' \ abandoned'
       PROVE  \/ t \in Range(r.todo)
              \/ t \in Range(mid'.tasks)
              \/ \E i \in Range(kids') : t = child'[i].task
    <2>1. t \in Owned /\ t # 0
        BY <1>1, <1>2, <1>11 DEF OnlyKnownOrphans, WorldTyped
    <2>2. \A d \in Callers : call[d].task = 0 /\ call[d].pc \notin Exclusive
        BY <1>1, <1>2 DEF InStep, Exclusive
    <2> QED BY <1>2, <1>5, <1>6, <2>1, <2>2 DEF Owned
<1> QED BY <1>2, <1>3, <1>6, <1>7, <1>8, <1>9, <1>10, <1>11, AloneStep

(***************************************************************************)
(* shutdown() stops the tasks it has collected one by one, or drops them   *)
(* all with a child supervisor that did not end in time.                   *)
(***************************************************************************)
LEMMA StopSteps ==
    ASSUME SupervisorInv, NEW c \in Callers,
           StopMidActor(c) \/ StopOwnActor(c) \/ MidShutdownEnds(c)
    PROVE  SupervisorInv'
<1>1. /\ WorldTyped /\ TasksApart /\ OnlyKnownOrphans
      /\ \A d \in Callers : InStep(call[d])
    BY KnownBefore
<1>2. UNCHANGED <<kids, child, last, mid, stats, events, rx, begun>>
      /\ call[c].pc \in {"midStop", "stopOwn"}
    BY DEF StopMidActor, StopOwnActor, MidShutdownEnds, tasks
<1>3. call[c].pc \in Exclusive /\ call[c].pc # "insert"
    BY <1>2 DEF Exclusive
<1>4. \A d \in Callers \ {c} : call[d].pc = "idle"
    BY <1>3 DEF SupervisorInv, CallsInStep
<1>5. CountersTyped
    BY <1>1, <1>2 DEF WorldTyped, CountersTyped, stats
<1>6. call[c] \in CallRecords /\ call[c].todo \in Seq(Ids \cup Nat) /\ call \in [Callers -> CallRecords]
    BY <1>1 DEF WorldTyped, CallRecords
<1>7. PICK r \in CallRecords :
         /\ call' = [call EXCEPT ![c] = r] /\ InStep(r) /\ r.pc \in Exclusive
         /\ running' \subseteq running /\ abandoned \subseteq abandoned'
         /\ abandoned' \subseteq abandoned \cup running
         /\ Range(call[c].todo) \cap (running' \ abandoned') \subseteq Range(r.todo)
    <2>1. CASE StopMidActor(c) \/ StopOwnActor(c)
        <3> DEFINE p == IF call[c].pc = "midStop" THEN "midStop" ELSE "ownStopped"
                   rest == Tail(call[c].todo)
                   r == [call[c] EXCEPT !.pc = p, !.todo = rest]
        <3>1. /\ call[c].todo # <<>> /\ running' = running \ {Head(call[c].todo)}
              /\ abandoned' = abandoned
            BY <2>1 DEF StopMidActor, StopOwnActor
        <3>2. call' = [call EXCEPT ![c] = r]
            <4>1. CASE StopMidActor(c)
                <5>1. r = [call[c] EXCEPT !.todo = rest]
                    BY <1>6, <4>1 DEF StopMidActor, CallRecords
                <5> QED BY <1>6, <4>1, <5>1 DEF StopMidActor
            <4>2. CASE StopOwnActor(c)
                BY <1>6, <4>2 DEF StopOwnActor
            <4> QED BY <2>1, <4>1, <4>2
        <3>3. rest \in Seq(Ids \cup Nat) /\ Range(call[c].todo) = {Head(call[c].todo)} \cup Range(rest)
            BY <1>6, <3>1, RestOf
        <3>4. p \in Steps /\ p \in Exclusive /\ p \in {"midStop", "ownStopped"}
            BY DEF Steps, Exclusive
        <3> HIDE DEF rest, p
        <3>5. r \in CallRecords /\ r.pc = p /\ r.todo = rest
            BY <1>6, <3>3, <3>4 DEF CallRecords
        <3>6. InStep(r)
            BY <1>1, <1>2, <1>6, <3>4 DEF InStep, LocksAt, CallRecords
        <3> HIDE DEF r
        <3>7. Range(call[c].todo) \cap (running' \ abandoned') \subseteq Range(r.todo)
            BY <3>1, <3>3, <3>5
        <3> QED BY <3>1, <3>2, <3>4, <3>5, <3>6, <3>7
    <2>2. CASE MidShutdownEnds(c)
        <3> DEFINE r == [call[c] EXCEPT !.pc = "midStopped", !.todo = <<>>]
        <3>1. /\ running' = running /\ call[c].pc = "midStop"
              /\ abandoned' = abandoned \cup (running \cap Range(call[c].todo))
              /\ call' = [call EXCEPT ![c] = r]
            BY <1>6, <2>2 DEF MidShutdownEnds, tasks
        <3>2. <<>> \in Seq(Ids \cup Nat)
            OBVIOUS
        <3>3. r \in CallRecords /\ r.pc \in Exclusive
            BY <1>6, <3>2 DEF CallRecords, Steps, Exclusive
        <3>4. InStep(r)
            BY <1>1, <1>6, <3>1 DEF InStep, LocksAt, CallRecords
        <3> HIDE DEF r
        <3> QED BY <3>1, <3>3, <3>4
    <2> QED BY <2>1, <2>2
<1>8. TasksTyped
    BY <1>1, <1>2, <1>7 DEF TasksTyped, WorldTyped, ChildRecords
<1>9. /\ \A i, j \in Range(kids') : i # j /\ child'[i].task # 0 => child'[i].task # child'[j].task
      /\ \A i \in Range(kids') : child'[i].task \notin Range(mid'.tasks)
      /\ \A i \in Ids \ Range(kids') : child'[i].task = 0
      /\ ~mid'.in => mid'.tasks = <<>>
    BY <1>1, <1>2 DEF TasksApart, StartedInOnePlace
<1>10. ASSUME NEW t \in running' \ abandoned'
       PROVE  \/ t \in Range(r.todo)
              \/ t \in Range(mid'.tasks)
              \/ \E i \in Range(kids') : t = child'[i].task
    <2>1. t \in Owned /\ t # 0
        BY <1>1, <1>7, <1>10 DEF OnlyKnownOrphans, WorldTyped
    <2>2. \A d \in Callers : call[d].task = 0
        BY <1>1, <1>2, <1>4 DEF InStep
    <2>3. \A d \in Callers \ {c} : call[d].pc \notin Exclusive
        BY <1>4 DEF Exclusive
    <2> QED BY <1>2, <1>7, <2>1, <2>2, <2>3 DEF Owned
<1> QED BY <1>2, <1>3, <1>4, <1>5, <1>7, <1>8, <1>9, <1>10, AloneStep

(***************************************************************************)
(* shutdown() takes every child out of the map, to stop them in turn.      *)
(***************************************************************************)
LEMMA CollectOwnStep ==
    ASSUME SupervisorInv, NEW c \in Callers, CollectOwn(c) PROVE SupervisorInv'
<1> DEFINE own == [i \in DOMAIN kids |-> child[kids[i]].task]
           todo == Reverse(own)
           r == [call[c] EXCEPT !.pc = "stopOwn", !.todo = todo]
<1>1. /\ WorldTyped /\ TasksApart /\ OnlyKnownOrphans
      /\ \A d \in Callers : InStep(call[d])
    BY KnownBefore
<1>2. /\ call[c].pc = "collectOwn" /\ kids' = <<>>
      /\ child' = [id \in Ids |-> [task |-> 0, stamps |-> 0]]
      /\ UNCHANGED <<running, last, mid, abandoned>>
    BY DEF CollectOwn
<1>3. call[c].pc \in Exclusive /\ call[c].pc # "insert" /\ call[c].todo = <<>>
    BY <1>1, <1>2 DEF Exclusive, InStep
<1>4. \A d \in Callers \ {c} : call[d].pc = "idle"
    BY <1>3 DEF SupervisorInv, CallsInStep
<1>5. CountersTyped
    BY <1>1 DEF CollectOwn, WorldTyped, CountersTyped, stats
<1>6. call[c] \in CallRecords /\ call \in [Callers -> CallRecords] /\ last \in Nat
    BY <1>1 DEF WorldTyped
<1>7. call' = [call EXCEPT ![c] = r]
    BY <1>6 DEF CollectOwn
<1>8. todo \in Seq(Nat) /\ Range(todo) = {child[id].task : id \in Range(kids)}
    <2>1. /\ kids \in Seq(Ids) /\ Len(kids) \in Nat /\ DOMAIN kids = 1..Len(kids)
          /\ \A i \in 1..Len(kids) : kids[i] \in Ids
        BY <1>1, LenProperties, ElementOfSeq DEF WorldTyped
    <2>2. \A i \in 1..Len(kids) : child[kids[i]].task \in Nat
        BY <1>1, <2>1 DEF WorldTyped, ChildRecords
    <2>3. own \in [1..Len(kids) -> Nat]
        BY <2>1, <2>2
    <2>4. own \in Seq(Nat)
        BY <2>1, <2>3, SeqDef
    <2>5. Range(own) = {child[id].task : id \in Range(kids)}
        BY DEF Range
    <2> HIDE DEF own
    <2> QED BY <2>4, <2>5, ReversedHolds
<1> HIDE DEF todo
<1>9. r \in CallRecords /\ r.pc = "stopOwn" /\ r.todo = todo
    <2>1. todo \in Seq(Ids \cup Nat)
        BY <1>8, SeqMonotonic
    <2> QED BY <1>6, <2>1 DEF CallRecords, Steps, Exclusive
<1>10. InStep(r) /\ r.pc \in Exclusive
    BY <1>1, <1>2, <1>6 DEF InStep, LocksAt, CallRecords, Exclusive
<1> HIDE DEF r
<1>11. /\ kids' \in Seq(Ids) /\ IsInjective(kids') /\ Range(kids') = {}
       /\ child' \in [Ids -> ChildRecords'] /\ \A i \in Ids : child'[i].task = 0
    <2>1. [task |-> 0, stamps |-> 0] \in ChildRecords'
        BY <1>2, <1>6, SupervisorAssumption DEF ChildRecords
    <2>2. kids' \in Seq(Ids) /\ DOMAIN kids' = {}
        BY <1>2
    <2> QED BY <1>2, <2>1, <2>2 DEF IsInjective, Range
<1>12. TasksTyped
    BY <1>1, <1>2, <1>11 DEF TasksTyped, WorldTyped
<1>13. /\ \A i, j \in Range(kids') : i # j /\ child'[i].task # 0 => child'[i].task # child'[j].task
       /\ \A i \in Range(kids') : child'[i].task \notin Range(mid'.tasks)
       /\ \A i \in Ids \ Range(kids') : child'[i].task = 0
       /\ ~mid'.in => mid'.tasks = <<>>
    BY <1>1, <1>2, <1>11 DEF TasksApart, StartedInOnePlace
<1>14. ASSUME NEW t \in running' \ abandoned'
       PROVE  \/ t \in Range(r.todo)
              \/ t \in Range(mid'.tasks)
              \/ \E i \in Range(kids') : t = child'[i].task
    <2>1. t \in Owned /\ t # 0
        BY <1>1, <1>2, <1>14 DEF OnlyKnownOrphans, WorldTyped
    <2>2. \A d \in Callers : call[d].task = 0
        BY <1>1, <1>2, <1>4 DEF InStep
    <2>3. \A d \in Callers \ {c} : call[d].pc \notin Exclusive
        BY <1>4 DEF Exclusive
    <2>4. Range(call[c].todo) = {}
        BY <1>3 DEF Range
    <2> QED BY <1>2, <1>8, <1>9, <2>1, <2>2, <2>3, <2>4 DEF Owned
<1> QED BY <1>2, <1>3, <1>4, <1>5, <1>7, <1>9, <1>10, <1>12, <1>13, <1>14, AloneStep

(***************************************************************************)
(* The receiver of the events drains or drops the channel.                 *)
(***************************************************************************)
LEMMA ReceiverSteps ==
    ASSUME SupervisorInv, Receiver \/ Drain \/ UNCHANGED vars PROVE SupervisorInv'
<1>1. UNCHANGED <<kids, child, running, last, strategy, good, bad, mid, call, begun, abandoned>>
    BY DEF Receiver, Drain, vars, tasks, stats
<1>2. events' \in 0..EventCap /\ rx' \in {"kept", "drained", "dropped"}
    BY SupervisorAssumption DEF SupervisorInv, TypeOK, Receiver, Drain, vars
<1>3. TypeOK'
    BY <1>1, <1>2 DEF SupervisorInv, TypeOK, CallRecords
<1> QED BY <1>1, <1>3 DEF SupervisorInv, OneHolder, NoOldGeneration, OnlyKnownOrphans, Owned,
           CallsInStep, StartedInOnePlace, OldStillToCome, Left

(***************************************************************************)
(* build() and start(): every child has a task of its own, below those of  *)
(* the child supervisor.                                                   *)
(***************************************************************************)
LEMMA SupervisorStarts == Init => SupervisorInv
<1> SUFFICES ASSUME Init PROVE SupervisorInv
    OBVIOUS
<1> DEFINE n == Len(Kids)
<1>1. /\ Kids \in Seq(Ids) /\ n \in Nat /\ DOMAIN Kids = 1..n /\ \A i \in 1..n : Kids[i] \in Ids
      /\ MidSize \in Nat /\ MaxRestarts \in Nat /\ MaxCalls \in Nat /\ EventCap \in Nat
      /\ EventCap >= n /\ IsInjective(Kids)
    BY SupervisorAssumption, LenProperties, ElementOfSeq
<1>2. /\ kids = Kids /\ last = n + MidSize /\ running = 1..last /\ abandoned = {}
      /\ mid = [in |-> TRUE, tasks |-> [i \in 1..MidSize |-> n + i], stamps |-> 0]
      /\ call = [c \in Callers |-> Idle] /\ events = n /\ rx = "kept" /\ begun = 0
      /\ good = 0 /\ bad = 0 /\ strategy \in Strategies
      /\ child = [id \in Ids |-> [task |-> CHOOSE i \in 1..n : Kids[i] = id, stamps |-> 0]]
    BY DEF Init
<1> HIDE DEF n
<1>3. ASSUME NEW id \in Ids
      PROVE  child[id].task \in 1..n /\ Kids[child[id].task] = id /\ child[id].stamps = 0
    <2>1. \E i \in 1..n : Kids[i] = id
        BY <1>1 DEF Ids, Range
    <2>2. child[id].task = CHOOSE i \in 1..n : Kids[i] = id
        BY <1>2
    <2> QED BY <1>2, <2>1, <2>2
<1>4. last \in Nat /\ n <= last
    BY <1>1, <1>2
<1>5. child \in [Ids -> ChildRecords]
    <2>1. child \in [Ids -> [task : 0..last, stamps : {0}]]
        <3>1. \A id \in Ids : (CHOOSE i \in 1..n : Kids[i] = id) \in 0..last
            BY <1>1, <1>2, <1>3, <1>4
        <3> QED BY <1>2, <3>1
    <2> QED BY <1>1, <2>1 DEF ChildRecords
<1>6. mid.tasks \in Seq(Nat) /\ mid \in MidRecords
      /\ Range(mid.tasks) = (n + 1)..last
    <2> DEFINE t == [i \in 1..MidSize |-> n + i]
    <2>1. t \in [1..MidSize -> Nat] /\ mid.tasks = t
        BY <1>1, <1>2
    <2>2. t \in Seq(Nat)
        BY <1>1, <2>1, SeqDef
    <2>3. ASSUME NEW x \in (n + 1)..last PROVE x \in Range(t)
        <3>1. x - n \in 1..MidSize /\ t[x - n] = x
            BY <1>1, <1>2, <2>3
        <3> QED BY <3>1 DEF Range
    <2>4. ASSUME NEW x \in Range(t) PROVE x \in (n + 1)..last
        <3>1. PICK i \in 1..MidSize : x = n + i
            BY <2>4 DEF Range
        <3> QED BY <1>1, <1>2, <3>1
    <2> HIDE DEF t
    <2>5. Range(t) = (n + 1)..last
        BY <2>3, <2>4
    <2>6. mid = [in |-> TRUE, tasks |-> t, stamps |-> 0]
        BY <1>2 DEF t
    <2> QED BY <1>1, <2>1, <2>2, <2>5, <2>6 DEF MidRecords
<1>7. Idle \in CallRecords /\ InStep(Idle) /\ Idle.task = 0 /\ Idle.locks = {} /\ Idle.pc = "idle"
    BY <1>4, IdleTyped DEF Idle
<1>8. \A c \in Callers : call[c] = Idle
    BY <1>2
<1>9. Range(kids) = Ids
    BY <1>2 DEF Ids
<1>10. TypeOK
    <2>1. Range(mid.tasks) \subseteq 1..last
        BY <1>1, <1>4, <1>6
    <2>2. call \in [Callers -> CallRecords]
        BY <1>2, <1>7
    <2>3. kids \in Seq(Ids) /\ IsInjective(kids) /\ strategy \in Plans
          /\ running \subseteq 1..last /\ abandoned \subseteq 1..last
        BY <1>1, <1>2, SupervisorAssumption
    <2>4. events \in 0..EventCap /\ begun \in 0..MaxCalls /\ good \in Nat /\ bad \in Nat
          /\ rx \in {"kept", "drained", "dropped"}
        BY <1>1, <1>2
    <2> QED BY <1>4, <1>5, <1>6, <2>1, <2>2, <2>3, <2>4 DEF TypeOK, ChildRecords, MidRecords
<1>11. OneHolder /\ StartedInOnePlace
    <2>1. \A i, j \in Ids : child[i].task = child[j].task => i = j
        BY <1>3
    <2>2. \A i \in Ids : child[i].task \notin Range(mid.tasks)
        BY <1>1, <1>3, <1>6
    <2>3. 0 \notin Range(mid.tasks)
        BY <1>1, <1>6
    <2>4. mid.in
        BY <1>2
    <2>5. {child[i].task : i \in Range(kids)} \cap Range(mid.tasks) = {}
        BY <1>9, <2>2
    <2>6. StartedInOnePlace
        BY <1>7, <1>8, <1>9, <2>3, <2>4 DEF StartedInOnePlace
    <2> QED BY <1>7, <1>8, <1>9, <2>1, <2>5, <2>6 DEF OneHolder
<1>12. OnlyKnownOrphans
    <2> SUFFICES ASSUME NEW t \in 1..last PROVE t \in Owned
        BY <1>2 DEF OnlyKnownOrphans
    <2>1. CASE t \in 1..n
        <3>1. Kids[t] \in Ids /\ child[Kids[t]].task \in 1..n /\ Kids[child[Kids[t]].task] = Kids[t]
            BY <1>1, <1>3, <2>1
        <3>2. child[Kids[t]].task = t
            BY <1>1, <2>1, <3>1 DEF IsInjective
        <3> QED BY <1>9, <3>1, <3>2 DEF Owned
    <2>2. CASE t \in (n + 1)..last
        BY <1>6, <2>2 DEF Owned
    <2> QED BY <1>1, <1>4, <2>1, <2>2
<1>13. CallsInStep
    BY <1>7, <1>8 DEF CallsInStep, InStep, Exclusive
<1>14. NoOldGeneration /\ OldStillToCome
    BY <1>7, <1>8 DEF NoOldGeneration, OldStillToCome
<1> QED BY <1>10, <1>11, <1>12, <1>13, <1>14 DEF SupervisorInv

(***************************************************************************)
(* Every step keeps the invariant: one case for every action.              *)
(***************************************************************************)
LEMMA SupervisorSteps == SupervisorInv /\ [Next]_vars => SupervisorInv'
<1> SUFFICES ASSUME SupervisorInv, [Next]_vars PROVE SupervisorInv'
    OBVIOUS
<1>1. ASSUME NEW c \in Callers, Begin(c) PROVE SupervisorInv'
    BY <1>1, HandleFailureStep, AddChildStep, RemoveChildStep, RestartChildStep,
       RestartSupervisorStep, RemoveSupervisorChildStep, ShutdownStep DEF Begin
<1>2. ASSUME NEW c \in Callers, Continue(c) PROVE SupervisorInv'
    <2>1. CASE ChooseStrategy(c) \/ ApplyAdaptiveStrategy(c) \/ CollectIds(c)
        BY <2>1, ChooseStrategyStep, ApplyAdaptiveStrategyStep, CollectIdsStep
    <2>2. CASE RestartMissing(c) \/ RestartSkipped(c) \/ ChildRestarted(c) \/ RestartExceeded(c)
        BY <2>2, PassedOver, RestartExceededStep
    <2>3. CASE PerformRestart(c) \/ PerformRestartFails(c)
        BY <2>3, PerformRestartStep, PerformRestartFailsStep
    <2>4. CASE InsertChild(c) \/ CollectOwn(c)
        BY <2>4, InsertChildStep, CollectOwnStep
    <2>5. CASE StopMidActor(c) \/ StopOwnActor(c) \/ MidShutdownEnds(c)
        BY <2>5, StopSteps
    <2>6. CASE \/ StrategyAdapted(c) \/ GetSupervisor(c) \/ StartSupervisor(c)
               \/ SupervisorStarted(c) \/ MidStopped(c) \/ OwnStopped(c) \/ FailureHandled(c)
        BY <2>6, PlainSteps
    <2>7. CASE \/ CollectFails(c) \/ MaxRestartsExceeded(c) \/ ReturnOk(c) \/ ChildStarted(c)
               \/ ChildStopped(c) \/ ShutdownReturns(c)
        BY <2>7, ReturnSteps
    <2> QED BY <1>2, <2>1, <2>2, <2>3, <2>4, <2>5, <2>6, <2>7 DEF Continue
<1> QED BY <1>1, <1>2, ReceiverSteps DEF Next

(***************************************************************************)
(* Whatever calls overlap on a supervisor: no task has two places, every   *)
(* running actor can be reached but those that three known races lose, no  *)
(* lock has two holders, and handle_failure returns Ok only when none of   *)
(* the tasks its strategy names still runs.                                *)
(***************************************************************************)
THEOREM SupervisorHolds == Spec => []SupervisorInv
    BY SupervisorStarts, SupervisorSteps, PTL DEF Spec

(***************************************************************************)
(* The same under the fairness that the run of the supervisor assumes.     *)
(***************************************************************************)
THEOREM FairSupervisorHolds == FairSpec => []SupervisorInv
    BY SupervisorHolds DEF FairSpec
=============================================================================
