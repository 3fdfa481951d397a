-------------------------- MODULE ActorSystemProofs --------------------------
(***************************************************************************)
(* Proofs about the services around an actor, for any number of calls,     *)
(* actors and bounds.                                                      *)
(***************************************************************************)
EXTENDS ActorSystem, FiniteSetTheorems, SequenceTheorems, TLAPS

-----------------------------------------------------------------------------
(* Asks: the table of pending requests.                                    *)

(***************************************************************************)
(* The steps of the caller's task (ask()) keep the table and the channels  *)
(* in step.                                                                *)
(***************************************************************************)
LEMMA AskCallerStep ==
    ASSUME AsksInv, NEW k \in Requests,
           RegisterAsk(k) \/ Reaches(k) \/ DispatchFails(k) \/ AskStep(k) \/ Abandon(k)
    PROVE  AsksInv'
<1> USE DEF AsksInv, AsksTypeOK, NoStrayEntry, EntryGuardsChannel, ReplyAnswersRequest,
            ClaimIsInChannel, ClaimIsReturned, AskIs, Outcomes
<1>1. CASE RegisterAsk(k)
    BY <1>1 DEF RegisterAsk
<1>2. CASE Reaches(k)
    BY <1>2 DEF Reaches
<1>3. CASE DispatchFails(k)
    BY <1>3 DEF DispatchFails
<1>4. CASE DispatchOk(k)
    BY <1>4 DEF DispatchOk
<1>5. CASE PollChannel(k)
    BY <1>5 DEF PollChannel
<1>6. CASE PollTimer(k)
    BY <1>6 DEF PollTimer
<1>7. CASE AskTimesOut(k)
    BY <1>7 DEF AskTimesOut
<1>8. CASE Abandon(k)
    BY <1>8 DEF Abandon
<1> QED BY <1>1, <1>2, <1>3, <1>4, <1>5, <1>6, <1>7, <1>8 DEF AskStep

(***************************************************************************)
(* So do the replies, the deadlines and the sweep, which come whenever     *)
(* they come.                                                              *)
(***************************************************************************)
LEMMA AskReplyStep ==
    ASSUME AsksInv, NEW k \in Requests,
           Resolve(k) \/ ResolveSend(k) \/ DeadlinePasses(k) \/ TimeoutPasses(k) \/ SweepExpired
    PROVE  AsksInv'
<1> USE DEF AsksInv, AsksTypeOK, NoStrayEntry, EntryGuardsChannel, ReplyAnswersRequest,
            ClaimIsInChannel, ClaimIsReturned
<1>1. CASE Resolve(k)
    <2>1. replies' \in [Requests -> 0..MaxReplies]
        BY <1>1, AskAssumption DEF Resolve
    <2> QED BY <1>1, <2>1 DEF Resolve
<1>2. CASE ResolveSend(k)
    BY <1>2 DEF ResolveSend
<1>3. CASE DeadlinePasses(k)
    BY <1>3 DEF DeadlinePasses
<1>4. CASE TimeoutPasses(k)
    BY <1>4 DEF TimeoutPasses
<1>5. CASE SweepExpired
    BY <1>5 DEF SweepExpired, Closed
<1> QED BY <1>1, <1>2, <1>3, <1>4, <1>5

LEMMA AsksStart == AsksInit => AsksInv
BY AskAssumption DEF AsksInit, AsksInv, AsksTypeOK, NoStrayEntry, EntryGuardsChannel,
   ReplyAnswersRequest, ClaimIsInChannel, ClaimIsReturned

LEMMA AsksStep == AsksInv /\ [AsksNext]_askVars => AsksInv'
<1> SUFFICES ASSUME AsksInv, [AsksNext]_askVars PROVE AsksInv'
    OBVIOUS
<1>1. CASE UNCHANGED askVars
    BY <1>1 DEF askVars, AsksInv, AsksTypeOK, NoStrayEntry, EntryGuardsChannel,
       ReplyAnswersRequest, ClaimIsInChannel, ClaimIsReturned
<1>2. CASE SweepExpired
    <2>1. PICK k \in Requests : k \in entries
        BY <1>2 DEF SweepExpired, AsksInv, AsksTypeOK
    <2> QED BY <1>2, <2>1, AskReplyStep
<1> QED BY <1>1, <1>2, AskCallerStep, AskReplyStep DEF AsksNext

(***************************************************************************)
(* Whatever the order of reply, timeout, sweep and cancellation: no entry  *)
(* is left behind by a call that returned, a reply that a caller returns   *)
(* was claimed by resolve(), and a claimed reply goes unread only when the *)
(* timer, the owner or a failing dispatch ended the call (PendingAsks).    *)
(***************************************************************************)
THEOREM AsksHold == AsksSpec => []AsksInv
BY AsksStart, AsksStep, PTL DEF AsksSpec

-----------------------------------------------------------------------------
(* Process groups: reads and writes of a store without a transaction.      *)

(***************************************************************************)
(* A list of members is finite and no longer than the list of all.         *)
(***************************************************************************)
LEMMA MemberCount ==
    ASSUME NEW S \in SUBSET Joiners
    PROVE  Cardinality(S) \in 0..Cardinality(Joiners) /\ Cardinality(S) \in Nat
           /\ Cardinality(S) # NoGroup
<1>1. IsFiniteSet(Joiners)
    BY GroupAssumption
<1>2. Cardinality(S) <= Cardinality(Joiners) /\ IsFiniteSet(S)
    BY <1>1, FS_Subset
<1>3. Cardinality(S) \in Nat /\ Cardinality(Joiners) \in Nat
    BY <1>1, <1>2, FS_CardinalityType
<1> QED BY <1>2, <1>3, GroupAssumption

(***************************************************************************)
(* A new call makes its actor contended when it overlaps another.          *)
(***************************************************************************)
LEMMA GroupCallStep ==
    ASSUME GroupInv, NEW p \in GroupClients, GroupCalls(p)
    PROVE  GroupInv'
<1>1. PICK at0 \in {"create", "delete", "publish", "join", "leave"}, m \in Joiners \union {NoJoiner} :
        /\ GroupCall(p, at0, m)
        /\ at0 \in {"join", "leave"} => m \in Joiners
        /\ at0 \notin {"join", "leave"} => m = NoJoiner
    BY DEF GroupCalls
<1> USE DEF GroupInv
<1>2. GroupTypeOK'
    <2>1. groupOps' \in 0..MaxGroupOps
        BY <1>1, GroupAssumption DEF GroupTypeOK, GroupCall
    <2>2. overlapped' \in BOOLEAN
        BY <1>1 DEF GroupCall
    <2>3. contended' \subseteq Joiners
        BY <1>1 DEF GroupTypeOK, GroupCall
    <2> QED BY <1>1, <2>1, <2>2, <2>3 DEF GroupTypeOK, GroupCall
<1>3. contended \subseteq contended' /\ Busy' = Busy \union {p} /\ p \notin Busy
    BY <1>1 DEF GroupTypeOK, GroupCall, Busy
<1>0. ASSUME NEW n \in Joiners, NEW o \in Busy, at0 = "delete" \/ gAt[o] \in Deleting \/ (m = n /\ gOn[o] = n)
      PROVE  n \in contended'
    BY <1>0, <1>1 DEF GroupCall
<1>4. JoinCountExact'
    BY <1>1, <1>3 DEF GroupTypeOK, JoinCountExact, GroupCall
<1>5. ReadIsFresh'
    <2>1. ASSUME NEW q \in GroupClients
          PROVE  /\ gAt'[q] \in {"join", "joinRead", "joinPut", "leave", "leavePut", "countGet", "countList"}
                        => gOn'[q] \in Joiners
                 /\ gAt'[q] = "create" => gOn'[q] = NoJoiner
                 /\ gAt'[q] = "leavePut" => gRead'[q] > 0
        BY <1>1 DEF GroupTypeOK, ReadIsFresh, GroupCall
    <2>2. ASSUME NEW n \in Joiners \ contended', NEW q \in Busy'
          PROVE  gAt'[q] \in {"joinPut", "leavePut"} /\ gOn'[q] = n => gRead'[q] = joined'[n]
        BY <1>1, <1>3, <2>2 DEF GroupTypeOK, ReadIsFresh, GroupCall
    <2>3. ASSUME NEW n \in Joiners \ contended', NEW q \in Busy', NEW o \in Busy' \ {q}
          PROVE  (gOn'[q] = n => gOn'[o] # n) /\ gAt'[o] \notin Deleting
        <3>1. CASE q = p
            <4>1. gOn'[q] = m /\ o \in Busy /\ o \in GroupClients
                BY <1>1, <1>3, <2>3, <3>1 DEF GroupTypeOK, GroupCall, Busy
            <4>2. gAt'[o] = gAt[o] /\ gOn'[o] = gOn[o]
                BY <1>1, <2>3, <3>1, <4>1 DEF GroupTypeOK, GroupCall
            <4> QED BY <1>0, <2>3, <4>1, <4>2
        <3>2. CASE o = p
            BY <1>1, <1>3, <2>3, <3>2, GroupAssumption DEF GroupTypeOK, ReadIsFresh, GroupCall, Deleting
        <3>3. CASE q # p /\ o # p
            BY <1>1, <1>3, <2>3, <3>3 DEF GroupTypeOK, ReadIsFresh, GroupCall, Deleting, Busy
        <3> QED BY <3>1, <3>2, <3>3
    <2> QED BY <2>1, <2>2, <2>3 DEF ReadIsFresh
<1>6. CountExactInSequence'
    BY <1>3 DEF CountExactInSequence
<1>7. CountInOperation'
    <2> SUFFICES ASSUME ~overlapped' PROVE CountInOperation'
        BY DEF CountInOperation
    <2>1. Busy = {} /\ ~overlapped
        BY <1>1 DEF GroupCall, GroupTypeOK
    <2>2. CountExact' \/ stale'
        BY <1>1, <2>1 DEF CountExactInSequence, CountExact, GroupCall, Table
    <2>3. contended' = {}
        BY <1>1, <2>1 DEF GroupCall, CountInOperation
    <2>4. gAt'[p] = at0
        BY <1>1 DEF GroupCall, GroupTypeOK
    <2> QED BY <1>3, <2>1, <2>2, <2>3, <2>4 DEF CountInOperation
<1> QED BY <1>2, <1>4, <1>5, <1>6, <1>7

(***************************************************************************)
(* Steps that leave the memberships alone.                                 *)
(***************************************************************************)
LEMMA GroupQuietStep ==
    ASSUME GroupInv, NEW p \in GroupClients, GroupStep(p),
           UNCHANGED <<joined, ledger, gOn, contended, overlapped>>,
           gAt[p] # "joinPut", gAt[p] # "leavePut"
    PROVE  GroupTypeOK' /\ JoinCountExact' /\ ReadIsFresh'
<1> USE DEF GroupStep, CreateGroup, DeleteGroup, DeleteList, DeleteMembership, DeletePosts,
            JoinVerify, JoinRead, JoinPut, LeaveRead, LeavePut, CountGet, CountList, GroupPut,
            PublishVerify, PublishList, PublishPut, GroupGoTo, GroupReturns
<1>1. Table \in SUBSET Joiners /\ gList[p] \in SUBSET Joiners
    BY DEF Table, GroupInv, GroupTypeOK
<1>0. Cardinality(gList[p]) \in 0..Cardinality(Joiners)
    BY <1>1, MemberCount
<1>2. /\ joined' \in [Joiners -> Nat] /\ ledger' \in [Joiners -> Nat]
      /\ gOn' \in [GroupClients -> Joiners \union {NoJoiner}]
      /\ contended' \subseteq Joiners /\ overlapped' \in BOOLEAN
    BY DEF GroupInv, GroupTypeOK
<1>3. gRead' \in [GroupClients -> Nat] /\ groupOps' \in 0..MaxGroupOps
    BY DEF GroupInv, GroupTypeOK, ReadIsFresh
<1>12. groupFaults' \in 0..MaxGroupFaults /\ stale' \in BOOLEAN
    BY DEF GroupInv, GroupTypeOK
<1>4. gAt' \in [GroupClients -> {"idle", "create", "delete", "deleteList", "deleteEach", "deletePosts",
                                 "join", "joinRead", "joinPut", "leave", "leavePut",
                                 "countGet", "countList", "countPut",
                                 "publish", "publishList", "publishPut"}]
    BY DEF GroupInv, GroupTypeOK
<1>5. group' \in 0..Cardinality(Joiners) \union {NoGroup} /\ posts' \subseteq GroupClients
    BY <1>1, <1>0 DEF GroupInv, GroupTypeOK
<1>6. gList' \in [GroupClients -> SUBSET Joiners]
    BY <1>1, <1>0 DEF GroupInv, GroupTypeOK
<1>7. GroupTypeOK'
    BY <1>5, <1>6, <1>2, <1>3, <1>4, <1>12 DEF GroupTypeOK
<1>8. JoinCountExact'
    BY DEF GroupInv, JoinCountExact
<1>9. /\ gAt'[p] \in {"join", "joinRead", "joinPut", "leave", "leavePut", "countGet", "countList"}
            => gOn[p] \in Joiners
      /\ gAt'[p] # "create"
      /\ gAt'[p] = "leavePut" => gRead'[p] > 0
      /\ gAt'[p] \in Deleting => gAt[p] \in Deleting
      /\ gAt'[p] \in {"joinPut", "leavePut"} => gRead'[p] = joined[gOn[p]]
      /\ gAt[p] # "idle"
    BY DEF GroupInv, GroupTypeOK, ReadIsFresh, Deleting
<1>10. \A q \in GroupClients \ {p} : gAt'[q] = gAt[q] /\ gRead'[q] = gRead[q]
    BY DEF GroupInv, GroupTypeOK
<1>11. ReadIsFresh'
    BY <1>9, <1>10 DEF GroupInv, ReadIsFresh, Busy
<1> QED BY <1>7, <1>8, <1>11

(***************************************************************************)
(* A write of one membership, of an actor that nobody else is at work on   *)
(* unless it is contended.                                                 *)
(***************************************************************************)
LEMMA GroupWriteStep ==
    ASSUME GroupInv, NEW p \in GroupClients,
           DeleteMembership(p) \/ JoinPut(p) \/ LeavePut(p)
    PROVE  GroupTypeOK' /\ JoinCountExact' /\ ReadIsFresh'
<1> USE DEF DeleteMembership, JoinPut, LeavePut, GroupGoTo, GroupReturns
<1>1. gAt[p] # "idle" /\ UNCHANGED <<group, posts, gOn, gRead, groupOps, contended, overlapped,
                                   groupFaults, stale>>
    OBVIOUS
<1>2. /\ gAt' \in [GroupClients -> {"idle", "create", "delete", "deleteList", "deleteEach",
                                    "deletePosts", "join", "joinRead", "joinPut", "leave",
                                    "leavePut", "countGet", "countList", "countPut",
                                    "publish", "publishList", "publishPut"}]
      /\ gAt'[p] \in {"deleteEach", "deletePosts", "countGet", "idle"}
      /\ gAt'[p] = "countGet" => gAt[p] \in {"joinPut", "leavePut"}
      /\ gAt'[p] \in Deleting => gAt[p] \in Deleting
      /\ \A q \in GroupClients \ {p} : gAt'[q] = gAt[q]
    BY DEF GroupInv, GroupTypeOK, Deleting
<1>3. gList' \in [GroupClients -> SUBSET Joiners]
    BY DEF GroupInv, GroupTypeOK
<1>4. \/ UNCHANGED <<joined, ledger>>
      \/ \E m \in Joiners, v, w \in Nat :
            /\ joined' = [joined EXCEPT ![m] = v] /\ ledger' = [ledger EXCEPT ![m] = w]
            /\ m \notin contended => v = w
            /\ gAt[p] \in Deleting \/ gOn[p] = m
    <2>1. CASE DeleteMembership(p) /\ gList[p] = {}
        BY <2>1
    <2>2. CASE DeleteMembership(p) /\ gList[p] # {}
        BY <2>2 DEF GroupInv, GroupTypeOK, Deleting
    <2>3. CASE JoinPut(p)
        <3>1. gOn[p] \in Joiners /\ gRead[p] \in Nat /\ ledger[gOn[p]] \in Nat
            BY <2>3 DEF GroupInv, GroupTypeOK, ReadIsFresh
        <3>2. gOn[p] \notin contended => gRead[p] = ledger[gOn[p]]
            BY <2>3, <3>1 DEF GroupInv, ReadIsFresh, JoinCountExact, Busy
        <3>3. gRead[p] + 1 \in Nat /\ ledger[gOn[p]] + 1 \in Nat
            BY <3>1
        <3>4. ledger' = [ledger EXCEPT ![gOn[p]] = ledger[gOn[p]] + 1]
            BY <2>3
        <3> QED BY <2>3, <3>1, <3>2, <3>3, <3>4
    <2>4. CASE LeavePut(p)
        <3>1. gOn[p] \in Joiners /\ gRead[p] \in Nat /\ ledger[gOn[p]] \in Nat /\ gRead[p] > 0
            BY <2>4 DEF GroupInv, GroupTypeOK, ReadIsFresh
        <3>2. gOn[p] \notin contended => gRead[p] = ledger[gOn[p]]
            BY <2>4, <3>1 DEF GroupInv, ReadIsFresh, JoinCountExact, Busy
        <3> DEFINE w == IF ledger[gOn[p]] = 0 THEN 0 ELSE ledger[gOn[p]] - 1
        <3>3. gRead[p] - 1 \in Nat /\ w \in Nat /\ (gOn[p] \notin contended => gRead[p] - 1 = w)
            BY <3>1, <3>2
        <3>4. ledger' = [ledger EXCEPT ![gOn[p]] = w]
            BY <2>4
        <3>5. joined' = [joined EXCEPT ![gOn[p]] = gRead[p] - 1]
            BY <2>4
        <3> HIDE DEF w
        <3> QED BY <3>1, <3>3, <3>4, <3>5
    <2> QED BY <2>1, <2>2, <2>3, <2>4
<1>5. GroupTypeOK'
    BY <1>1, <1>2, <1>3, <1>4 DEF GroupInv, GroupTypeOK
<1>6. JoinCountExact'
    BY <1>1, <1>4 DEF GroupInv, GroupTypeOK, JoinCountExact
<1>7. \A q \in Busy \ {p}, m \in Joiners \ contended :
         gAt[q] \in {"joinPut", "leavePut"} /\ gOn[q] = m => joined'[m] = joined[m]
    BY <1>1, <1>4 DEF GroupInv, GroupTypeOK, ReadIsFresh, Busy
<1>8. ReadIsFresh'
    BY <1>1, <1>2, <1>7 DEF GroupInv, ReadIsFresh, Busy
<1> QED BY <1>5, <1>6, <1>8

(***************************************************************************)
(* The store and the count of the group, as long as no operations overlap. *)
(***************************************************************************)
LEMMA GroupCountStep ==
    ASSUME GroupInv, NEW p \in GroupClients, GroupStep(p)
    PROVE  CountExactInSequence' /\ CountInOperation'
<1> SUFFICES ASSUME ~overlapped' PROVE CountExactInSequence' /\ CountInOperation'
    BY DEF CountExactInSequence, CountInOperation
<1>1. ~overlapped /\ contended = {} /\ gAt[p] # "idle" /\ contended' = {} /\ UNCHANGED <<gOn>>
    BY DEF GroupInv, CountInOperation, GroupStep, CreateGroup, DeleteGroup, DeleteList,
       DeleteMembership, DeletePosts, JoinVerify, JoinRead, JoinPut, LeaveRead, LeavePut,
       CountGet, CountList, GroupPut, PublishVerify, PublishList, PublishPut
<1>2. \A q \in Busy : q = p
    BY <1>1 DEF GroupInv, CountInOperation, Busy
<1>3. Busy' \subseteq {p} /\ (gAt'[p] = "idle" <=> Busy' = {})
    BY <1>1, <1>2 DEF GroupInv, GroupTypeOK, Busy, GroupStep, CreateGroup, DeleteGroup, DeleteList,
       DeleteMembership, DeletePosts, JoinVerify, JoinRead, JoinPut, LeaveRead, LeavePut,
       CountGet, CountList, GroupPut, PublishVerify, PublishList, PublishPut, GroupGoTo, GroupReturns
<1> DEFINE Phase ==
             /\ gAt[p] \in {"create", "delete", "join", "joinRead", "joinPut", "leave", "leavePut",
                            "publish", "publishList", "publishPut"} => CountExact \/ stale
             /\ gAt[p] \in {"joinRead", "joinPut", "countList", "publishList",
                            "publishPut"} => group # NoGroup
             /\ gAt[p] = "countGet" => group # NoGroup \/ stale
             /\ gAt[p] \in {"deleteList", "deleteEach", "deletePosts"} => group = NoGroup \/ stale
             /\ gAt[p] = "deleteEach" => gList[p] = Table \/ stale
             /\ gAt[p] = "countPut" => gList[p] = Table \/ (gOn[p] = NoJoiner /\ stale)
             /\ gAt[p] = "countPut" /\ gOn[p] = NoJoiner => CountExact \/ stale
             /\ gAt[p] = "deletePosts" => Table = {} \/ stale
<1>4. Phase
    BY <1>1 DEF GroupInv, CountInOperation, Busy
<1> SUFFICES Phase' /\ (gAt'[p] = "idle" => CountExact' \/ stale')
    <2> HIDE DEF Phase
    <2>1. ASSUME Phase', gAt'[p] = "idle" => CountExact' \/ stale' PROVE CountExactInSequence'
        BY <1>3, <2>1 DEF CountExactInSequence
    <2>2. ASSUME Phase' PROVE CountInOperation'
        BY <1>1, <1>3, <2>2 DEF CountInOperation, Phase
    <2> QED BY <2>1, <2>2
<1> USE DEF GroupGoTo, GroupReturns
<1>5. gAt \in [GroupClients -> {"idle", "create", "delete", "deleteList", "deleteEach", "deletePosts",
                                 "join", "joinRead", "joinPut", "leave", "leavePut",
                                 "countGet", "countList", "countPut",
                                 "publish", "publishList", "publishPut"}]
    BY DEF GroupInv, GroupTypeOK
<1>6. gList \in [GroupClients -> SUBSET Joiners] /\ joined \in [Joiners -> Nat] /\ Table \subseteq Joiners
    BY DEF GroupInv, GroupTypeOK, Table
<1>14. /\ gAt[p] = "create" => gOn[p] = NoJoiner
       /\ gAt[p] = "countList" => gOn[p] # NoJoiner
    BY GroupAssumption DEF GroupInv, ReadIsFresh
<1>15. CASE CreateGroup(p)
    BY <1>1, <1>4, <1>5, <1>6, <1>14, <1>15 DEF CreateGroup, CountExact, Table
<1>16. CASE CountList(p)
    BY <1>1, <1>4, <1>5, <1>6, <1>14, <1>16 DEF CountList, CountExact, Table
<1>7. CASE DeleteGroup(p) \/ DeleteList(p) \/ JoinVerify(p) \/ CountGet(p)
           \/ PublishVerify(p) \/ PublishList(p) \/ JoinRead(p)
    BY <1>4, <1>5, <1>6, <1>7 DEF DeleteGroup, DeleteList, JoinVerify, CountGet,
       PublishVerify, PublishList, JoinRead, CountExact, Table
<1>8. CASE DeletePosts(p) \/ PublishPut(p)
    BY <1>4, <1>5, <1>6, <1>8 DEF DeletePosts, PublishPut, CountExact, Table
<1>9. CASE GroupPut(p)
    BY <1>4, <1>5, <1>6, <1>9, MemberCount DEF GroupPut, CountExact, Table
<1>10. CASE DeleteMembership(p)
    BY <1>4, <1>5, <1>6, <1>10 DEF DeleteMembership, CountExact, Table
<1>11. CASE LeaveRead(p)
    BY <1>4, <1>5, <1>6, <1>11 DEF LeaveRead, CountExact, Table
<1>12. CASE JoinPut(p)
    <2>1. gOn[p] \in Joiners /\ gRead[p] = joined[gOn[p]] /\ gRead[p] \in Nat
        BY <1>1, <1>12, <1>6 DEF GroupInv, ReadIsFresh, JoinPut, Busy
    <2>2. gRead[p] # 0 => Table' = Table
        BY <1>6, <1>12, <2>1 DEF JoinPut, Table
    <2> QED BY <1>4, <1>5, <1>12, <2>2 DEF JoinPut, CountExact
<1>13. CASE LeavePut(p)
    <2>1. gOn[p] \in Joiners /\ gRead[p] = joined[gOn[p]] /\ gRead[p] \in Nat /\ gRead[p] > 0
        BY <1>1, <1>13, <1>6 DEF GroupInv, ReadIsFresh, LeavePut, Busy
    <2>2. gRead[p] # 1 => Table' = Table
        BY <1>6, <1>13, <2>1 DEF LeavePut, Table
    <2>3. group # NoGroup \/ stale
        BY <1>4, <1>13, <2>1 DEF LeavePut, CountExact, Table
    <2> QED BY <1>4, <1>5, <1>13, <2>2, <2>3 DEF LeavePut, CountExact
<1> QED BY <1>7, <1>8, <1>9, <1>10, <1>11, <1>12, <1>13, <1>15, <1>16 DEF GroupStep

(***************************************************************************)
(* A failing access changes no key; what it leaves undone is behind only   *)
(* when the call had written already.                                      *)
(***************************************************************************)
LEMMA GroupFaultStep ==
    ASSUME GroupInv, NEW p \in GroupClients, StoreFails(p) \/ DeleteFails(p)
    PROVE  GroupInv'
<1> USE DEF GroupInv, GroupGoTo, GroupReturns
<1>1. /\ UNCHANGED <<group, joined, gOn, gRead, groupOps, ledger, contended, overlapped>>
      /\ gAt[p] # "idle" /\ posts' \subseteq posts
      /\ stale => stale'
    BY DEF StoreFails, DeleteFails
<1>2. PICK to \in {"idle", "deleteList", "deleteEach"} :
        /\ gAt' = [gAt EXCEPT ![p] = to]
        /\ to \in Deleting => gAt[p] \in Deleting /\ stale'
    <2>1. CASE StoreFails(p)
        BY <2>1 DEF StoreFails, Deleting
    <2>2. CASE DeleteFails(p)
        BY <2>2 DEF DeleteFails, Deleting, GroupTypeOK
    <2> QED BY <2>1, <2>2
<1>3. /\ gAt'[p] = to /\ \A q \in GroupClients \ {p} : gAt'[q] = gAt[q]
      /\ Busy' \subseteq Busy /\ p \in Busy /\ Table' = Table
    BY <1>1, <1>2 DEF GroupTypeOK, Busy, Table
<1>4. GroupTypeOK'
    <2>1. groupFaults' \in 0..MaxGroupFaults
        BY GroupAssumption DEF StoreFails, DeleteFails, GroupTypeOK
    <2>2. stale' \in BOOLEAN
        <3>1. CASE StoreFails(p)
            BY <3>1 DEF StoreFails
        <3>2. CASE DeleteFails(p)
            BY <3>2 DEF DeleteFails
        <3> QED BY <3>1, <3>2
    <2>3. gList' \in [GroupClients -> SUBSET Joiners]
        BY DEF StoreFails, DeleteFails, GroupTypeOK
    <2> QED BY <1>1, <1>2, <2>1, <2>2, <2>3 DEF GroupTypeOK
<1>5. JoinCountExact'
    BY <1>1 DEF JoinCountExact
<1>6. ReadIsFresh'
    BY <1>1, <1>2, <1>3 DEF ReadIsFresh, Deleting
<1>7. CASE overlapped'
    BY <1>4, <1>5, <1>6, <1>7 DEF CountExactInSequence, CountInOperation
<1>8. CASE ~overlapped'
    <2>1. /\ contended' = {} /\ \A q \in Busy : q = p
        BY <1>1, <1>3, <1>8 DEF CountInOperation
    <2>2. ~stale' => CountExact /\ UNCHANGED posts
        <3>1. CASE StoreFails(p)
            <4>1. ~stale' => ~stale /\ ~HalfDone(p)
                BY <3>1 DEF StoreFails
            <4> QED BY <1>1, <1>3, <1>8, <2>1, <3>1, <4>1 DEF StoreFails, CountInOperation, HalfDone,
                    GroupTypeOK
        <3>2. CASE DeleteFails(p)
            BY <3>2 DEF DeleteFails
        <3> QED BY <3>1, <3>2
    <2>3. CountExactInSequence'
        BY <1>1, <1>3, <2>2 DEF CountExactInSequence, CountExact
    <2>4. CountInOperation'
        BY <1>2, <1>3, <2>1 DEF CountInOperation, Deleting
    <2> QED BY <1>4, <1>5, <1>6, <2>3, <2>4
<1> QED BY <1>7, <1>8

LEMMA GroupStart == GroupInit => GroupInv
<1> SUFFICES ASSUME GroupInit PROVE GroupInv
    OBVIOUS
<1>1. GroupTypeOK
    <2>1. 0 \in 0..MaxGroupOps
        BY GroupAssumption
    <2>3. overlapped \in BOOLEAN
        BY Zenon DEF GroupInit
    <2>2. gList \in [GroupClients -> SUBSET Joiners]
        BY DEF GroupInit
    <2>4. 0 \in 0..MaxGroupFaults
        BY GroupAssumption
    <2>5. stale \in BOOLEAN
        BY Zenon DEF GroupInit
    <2> QED BY <2>1, <2>2, <2>3, <2>4, <2>5 DEF GroupInit, GroupTypeOK
<1>2. Table = {} /\ Busy = {}
    BY DEF GroupInit, Table, Busy
<1> QED BY <1>1, <1>2 DEF GroupInit, GroupInv, JoinCountExact, ReadIsFresh, CountExactInSequence,
        CountInOperation, CountExact

LEMMA GroupNextStep == GroupInv /\ [GroupNext]_groupVars => GroupInv'
<1> SUFFICES ASSUME GroupInv, [GroupNext]_groupVars PROVE GroupInv'
    OBVIOUS
<1>1. CASE UNCHANGED groupVars
    <2>1. GroupTypeOK' /\ JoinCountExact' /\ ReadIsFresh'
        BY <1>1 DEF groupVars, GroupInv, GroupTypeOK, JoinCountExact, ReadIsFresh, Busy
    <2>2. CountExactInSequence' /\ CountInOperation'
        BY <1>1 DEF groupVars, GroupInv, CountExactInSequence, CountInOperation, CountExact, Busy, Table
    <2> QED BY <2>1, <2>2 DEF GroupInv
<1>2. ASSUME NEW p \in GroupClients, GroupStep(p) PROVE GroupInv'
    <2>1. CASE DeleteMembership(p) \/ JoinPut(p) \/ LeavePut(p)
        BY <1>2, <2>1, GroupWriteStep, GroupCountStep DEF GroupInv
    <2>2. CASE ~(DeleteMembership(p) \/ JoinPut(p) \/ LeavePut(p))
        <3>1. UNCHANGED <<joined, ledger, gOn, contended, overlapped>>
            BY <1>2, <2>2 DEF GroupStep, CreateGroup, DeleteGroup, DeleteList, DeletePosts,
               JoinVerify, JoinRead, LeaveRead, CountGet, CountList, GroupPut, PublishVerify,
               PublishList, PublishPut
        <3>2. gAt[p] # "joinPut" /\ gAt[p] # "leavePut"
            BY <1>2, <2>2 DEF GroupStep, CreateGroup, DeleteGroup, DeleteList, DeletePosts,
               JoinVerify, JoinRead, LeaveRead, CountGet, CountList, GroupPut, PublishVerify,
               PublishList, PublishPut
        <3> QED BY <1>2, <3>1, <3>2, GroupQuietStep, GroupCountStep DEF GroupInv
    <2> QED BY <2>1, <2>2
<1> QED BY <1>1, <1>2, GroupCallStep, GroupFaultStep DEF GroupNext

(***************************************************************************)
(* For any number of clients and actors: the join count of an actor is     *)
(* exact as long as its own operations do not overlap, whichever accesses  *)
(* of the store fail, and the count of the group as long as none overlap   *)
(* and none has failed half-way since the members were last counted        *)
(* (process_groups).                                                       *)
(***************************************************************************)
THEOREM GroupsHold == GroupSpec => []GroupInv
BY GroupStart, GroupNextStep, PTL DEF GroupSpec

-----------------------------------------------------------------------------
(* Links and monitors.                                                     *)

(***************************************************************************)
(* The call of stop_actor() is none of the watch tasks, and every cleaner  *)
(* works for an actor.                                                     *)
(***************************************************************************)
LEMMA CleanerFacts ==
    /\ TheStop \in Cleaners
    /\ \A a \in Members, i \in Lives : <<a, i>> \in Cleaners /\ <<a, i>> # TheStop
    /\ \A p \in Cleaners : p = TheStop \/ (p # TheStop /\ p[1] \in Members /\ p[2] \in Lives /\ p = <<p[1], p[2]>>)
    /\ \A a \in Members, i \in Nat : i < MaxLives[a] => i + 1 \in Lives
    /\ \A i \in Lives : i \in Nat /\ i # 0
    /\ \A a \in Members, i \in Lives : Of(<<a, i>>) = a
<1>1. TheStop \in Cleaners /\ "stop" \notin Members
    BY LinksAssumption DEF Cleaners, TheStop
<1>2. \A a \in Members, i \in Lives : <<a, i>> \in Cleaners /\ <<a, i>> # TheStop
    BY <1>1 DEF Cleaners, TheStop
<1>3. \A p \in Cleaners : p = TheStop \/ (p # TheStop /\ p[1] \in Members /\ p[2] \in Lives /\ p = <<p[1], p[2]>>)
    BY <1>1 DEF Cleaners, TheStop
<1>4. \A a \in Members, i \in Nat : i < MaxLives[a] => i + 1 \in Lives
    BY LinksAssumption DEF Lives
<1>5. \A i \in Lives : i \in Nat /\ i # 0
    BY LinksAssumption DEF Lives
<1>6. \A a \in Members, i \in Lives : Of(<<a, i>>) = a
    BY <1>2 DEF Of
<1> QED BY <1>1, <1>2, <1>3, <1>4, <1>5, <1>6

LEMMA OfMember ==
    ASSUME LinksTypeOK, NEW p \in Cleaners
    PROVE  Of(p) \in Members
BY CleanerFacts DEF Of, LinksTypeOK

LEMMA StoppedIs ==
    ASSUME LinksTypeOK, NEW a, NEW i
    PROVE  stopped = [a |-> a, i |-> i] <=> stopped.a = a /\ stopped.i = i
BY DEF LinksTypeOK

(***************************************************************************)
(* What was dealt with was told: the claim about DOWN follows from where   *)
(* the waiting monitors are.                                               *)
(***************************************************************************)
LEMMA DownFollows == LinksTypeOK /\ WaitingIsInTable => DownIsSent
<1> SUFFICES ASSUME LinksTypeOK, WaitingIsInTable,
                    NEW r \in Refs, NEW i \in Lives,
                    setOn[r] = i, r \notin asking, DealtWith(Watched[r], i),
                    \A j \in Lives : task[Watching[r]][j] \notin Reasons,
                    r \notin downs \union late
             PROVE  FALSE
    BY DEF DownIsSent
<1>1. setOn[r] # NoLife
    BY CleanerFacts, LinksAssumption
<1>2. /\ ~(stopped = [a |-> Watched[r], i |-> i] /\ stage[TheStop] = "done")
      /\ stage[<<Watched[r], i>>] = "done" /\ <<Watched[r], i>> \notin noted
            => stopped = [a |-> Watched[r], i |-> i]
    BY <1>1 DEF WaitingIsInTable, Waits, Unread
<1> QED BY <1>2 DEF DealtWith

LEMMA DownFollowsNext == LinksTypeOK' /\ WaitingIsInTable' => DownIsSent'
BY DownFollows, PTL

(***************************************************************************)
(* A new state of one incarnation.                                         *)
(***************************************************************************)
LEMMA TaskSet ==
    ASSUME LinksTypeOK, NEW a \in Members, NEW i \in Lives, NEW v \in {"none", "running"} \union Reasons,
           task' = [task EXCEPT ![a][i] = v]
    PROVE  /\ task' \in [Members -> [Lives -> {"none", "running"} \union Reasons]]
           /\ task'[a][i] = v
           /\ \A b \in Members, j \in Lives : <<b, j>> # <<a, i>> => task'[b][j] = task[b][j]
BY DEF LinksTypeOK

(***************************************************************************)
(* spawn: the new incarnation was not there before.                        *)
(***************************************************************************)
LEMMA SpawnStep ==
    ASSUME LinksInv, NEW a \in Members, Spawn(a)
    PROVE  LinksInv'
<1> DEFINE i == life[a] + 1
<1>1. i \in Lives /\ i \in Nat /\ i \in 1..MaxLives[a] /\ life[a] \in Nat
    BY CleanerFacts, LinksAssumption DEF LinksInv, LivesInOrder, Spawn
<1>2. /\ task' \in [Members -> [Lives -> {"none", "running"} \union Reasons]]
      /\ task'[a][i] = "running"
      /\ \A b \in Members, j \in Lives : <<b, j>> # <<a, i>> => task'[b][j] = task[b][j]
    BY <1>1, TaskSet, ZenonT(40) DEF LinksInv, Spawn
<1>3. /\ UNCHANGED <<stopped, stopping, monitors, asking, setOn, downs, pairs, exits, late, robbed, noted>>
      /\ life' = [life EXCEPT ![a] = i] /\ entry' = [entry EXCEPT ![a] = i]
      /\ stage' = [stage EXCEPT ![<<a, i>>] = "watch"]
    BY DEF Spawn
<1>4. task[a][i] = "none"
    BY <1>1 DEF LinksInv, LivesInOrder
<1> HIDE DEF i
<1>5. LinksTypeOK'
    BY <1>1, <1>2, <1>3 DEF LinksInv, LinksTypeOK, Stages
<1>6. RunningIsRegistered'
    <2> SUFFICES ASSUME NEW b \in Members, RunningLife(b)' PROVE entry'[b] = life'[b] \/ b \in robbed'
        BY DEF RunningIsRegistered
    <2>1. CASE b = a
        BY <1>3, <2>1 DEF LinksInv, LinksTypeOK
    <2>2. CASE b # a
        <3>1. life'[b] = life[b] /\ entry'[b] = entry[b] /\ life[b] # 0
            BY <1>3, <2>2 DEF LinksInv, LinksTypeOK, RunningLife
        <3>2. life[b] \in Lives
            BY <3>1, LinksAssumption DEF LinksInv, LinksTypeOK
        <3>3. RunningLife(b)
            BY <1>2, <2>2, <3>1, <3>2 DEF RunningLife
        <3> QED BY <1>3, <3>1, <3>3 DEF LinksInv, RunningIsRegistered
    <2> QED BY <2>1, <2>2
<1>7. LivesInOrder'
    <2> SUFFICES ASSUME NEW b \in Members
                 PROVE  /\ life'[b] \in 0..MaxLives[b] /\ entry'[b] \in 0..life'[b]
                        /\ \A j \in Lives : task'[b][j] = "none" <=> j > life'[b]
        BY DEF LivesInOrder
    <2>1. CASE b = a
        <3>1. life'[a] = i /\ entry'[a] = i
            BY <1>3 DEF LinksInv, LinksTypeOK
        <3>2. ASSUME NEW j \in Lives PROVE task'[a][j] = "none" <=> j > i
            <4>1. CASE j = i
                BY <1>1, <1>2, <4>1
            <4>2. CASE j # i
                BY <1>1, <1>2, <4>2, CleanerFacts DEF LinksInv, LivesInOrder, i
            <4> QED BY <4>1, <4>2
        <3> QED BY <1>1, <2>1, <3>1, <3>2
    <2>2. CASE b # a
        BY <1>2, <1>3, <2>2 DEF LinksInv, LinksTypeOK, LivesInOrder
    <2> QED BY <2>1, <2>2
<1>8. \A b \in Members, j \in Lives : task[b][j] \in Reasons => task'[b][j] \in Reasons
    BY <1>2, <1>4 DEF Reasons
<1>9. stage'[<<a, i>>] = "watch" /\ \A p \in Cleaners : p # <<a, i>> => stage'[p] = stage[p]
    BY <1>1, <1>3, CleanerFacts DEF LinksInv, LinksTypeOK
<1>10. CleanersComeAfterwards'
    <2>1. ASSUME NEW b \in Members, NEW j \in Lives, stage'[<<b, j>>] \notin {"idle", "watch"}
          PROVE  task'[b][j] \in Reasons
        BY <1>8, <1>9, <2>1, CleanerFacts DEF LinksInv, CleanersComeAfterwards
    <2>2. stage'[TheStop] = stage[TheStop] /\ stopped.a \in Members /\ life'[stopped.a] >= life[stopped.a]
          /\ life[stopped.a] \in Nat /\ life'[stopped.a] \in Nat
        BY <1>1, <1>3, <1>9, CleanerFacts DEF LinksInv, LinksTypeOK, LivesInOrder, i
    <2>3. stage[TheStop] # "idle" => stopped.i \in Lives
        BY LinksAssumption DEF LinksInv, LinksTypeOK, CleanersComeAfterwards
    <2> QED BY <1>3, <1>8, <2>1, <2>2, <2>3 DEF LinksInv, CleanersComeAfterwards
<1>11. WaitingIsInTable'
    <2> SUFFICES ASSUME NEW r \in Refs, Waits(r)'
                 PROVE  r \in monitors /\ Unread(Watched[r], setOn[r])'
        BY <1>3 DEF WaitingIsInTable
    <2>1. Waits(r) /\ Watched[r] \in Members /\ setOn[r] \in Lives
        BY <1>3, <1>8, LinksAssumption DEF Waits, LinksInv, LinksTypeOK
    <2>2. r \in monitors /\ Unread(Watched[r], setOn[r])
        BY <2>1 DEF LinksInv, WaitingIsInTable
    <2>3. stage'[TheStop] = stage[TheStop] /\ <<Watched[r], setOn[r]>> \in Cleaners
        BY <1>1, <1>9, <2>1, CleanerFacts
    <2>4. ASSUME NEW p \in Cleaners, Of(p)' = Watched[r] PROVE ~HasRead(p)'
        BY <1>3, <1>9, <2>2, <2>4 DEF Of, HasRead, Unread
    <2> QED BY <1>3, <1>9, <2>2, <2>3, <2>4 DEF Unread
<1> QED BY <1>5, <1>6, <1>7, <1>10, <1>11, DownFollowsNext DEF LinksInv

(***************************************************************************)
(* An incarnation that runs may end; nothing else happens to a task.       *)
(***************************************************************************)
TasksOnlyEnd ==
    \A b \in Members, j \in Lives :
        task'[b][j] = task[b][j] \/ (task[b][j] = "running" /\ task'[b][j] \in Reasons)

LEMMA TaskEnded ==
    ASSUME LinksTypeOK, NEW a \in Members, NEW i \in Lives, NEW why \in Reasons,
           task[a][i] = "running", task' = [task EXCEPT ![a][i] = why]
    PROVE  TasksOnlyEnd /\ task' \in [Members -> [Lives -> {"none", "running"} \union Reasons]]
<1>1. /\ task' \in [Members -> [Lives -> {"none", "running"} \union Reasons]]
      /\ task'[a][i] = why
      /\ \A b \in Members, j \in Lives : <<b, j>> # <<a, i>> => task'[b][j] = task[b][j]
    BY TaskSet
<1> QED BY <1>1 DEF TasksOnlyEnd

LEMMA EndsKeep ==
    ASSUME LinksInv, LinksTypeOK', TasksOnlyEnd, UNCHANGED <<life, entry, robbed>>
    PROVE  RunningIsRegistered' /\ LivesInOrder'
<1>1. LivesInOrder'
    BY DEF LinksInv, LivesInOrder, TasksOnlyEnd, Reasons
<1>2. ASSUME NEW a \in Members, RunningLife(a)' PROVE entry'[a] = life'[a] \/ a \in robbed'
    <2>1. life[a] \in Lives
        BY <1>2, LinksAssumption DEF LinksInv, LinksTypeOK, RunningLife
    <2>2. RunningLife(a)
        BY <1>2, <2>1 DEF RunningLife, TasksOnlyEnd, Reasons
    <2> QED BY <2>2 DEF LinksInv, RunningIsRegistered
<1> QED BY <1>1, <1>2 DEF RunningIsRegistered

(***************************************************************************)
(* A monitor that waits after a step of this kind has waited before it.    *)
(***************************************************************************)
LEMMA WaitedBefore ==
    ASSUME LinksInv, TasksOnlyEnd, UNCHANGED <<setOn, asking>>,
           downs \subseteq downs', late \subseteq late', NEW r \in Refs, Waits(r)'
    PROVE  /\ r \in monitors /\ Unread(Watched[r], setOn[r]) /\ setOn'[r] = setOn[r]
           /\ Watched[r] \in Members /\ setOn[r] \in Lives
           /\ Watching[r] \in Members /\ \A j \in Lives : task[Watching[r]][j] \notin Reasons
<1>1. Watching[r] \in Members /\ Watched[r] \in Members
    BY LinksAssumption
<1>2. Waits(r) /\ setOn[r] \in Lives
    BY <1>1 DEF Waits, TasksOnlyEnd, Reasons, LinksInv, LinksTypeOK
<1>3. r \in monitors /\ Unread(Watched[r], setOn[r])
    BY <1>2 DEF LinksInv, WaitingIsInTable
<1> QED BY <1>1, <1>2, <1>3 DEF Waits

(***************************************************************************)
(* The end of a task by itself or by an EXIT, and the tables of links.     *)
(***************************************************************************)
LEMMA TaskEndsStep ==
    ASSUME LinksInv, LinksTypeOK', TasksOnlyEnd,
           UNCHANGED <<life, entry, stage, stopped, monitors, asking, setOn, downs, late, robbed, noted>>
    PROVE  LinksInv'
<1>1. RunningIsRegistered' /\ LivesInOrder'
    BY EndsKeep
<1>2. CleanersComeAfterwards'
    <2>1. stage[TheStop] # "idle" => stopped.i \in Lives /\ stopped.a \in Members
        BY LinksAssumption DEF LinksInv, LinksTypeOK, CleanersComeAfterwards
    <2> QED BY <2>1 DEF LinksInv, CleanersComeAfterwards, TasksOnlyEnd
<1>3. WaitingIsInTable'
    <2> SUFFICES ASSUME NEW r \in Refs, Waits(r)' PROVE r \in monitors' /\ Unread(Watched[r], setOn[r])'
        BY DEF WaitingIsInTable
    <2> QED BY WaitedBefore DEF Unread, Of, HasRead
<1> QED BY <1>1, <1>2, <1>3, DownFollowsNext DEF LinksInv

LEMMA LinkTableStep ==
    ASSUME LinksInv, NEW a \in Members, NEW b \in Members,
           \/ \E why \in Endings : TaskEnds(a, why)
           \/ HandleExit(a, b) \/ Link(a, b) \/ Unlink(a, b)
    PROVE  LinksInv'
<1>1. RunningLife(a) => life[a] \in Lives /\ task[a][life[a]] = "running"
    BY LinksAssumption DEF RunningLife, LinksInv, LinksTypeOK
<1>2. CASE \E why \in Endings : TaskEnds(a, why)
    <2>1. PICK why \in Endings : TaskEnds(a, why)
        BY <1>2
    <2>2. why \in Reasons
        BY LinksAssumption DEF Reasons
    <2>3. life[a] \in Lives /\ task[a][life[a]] = "running" /\ task' = [task EXCEPT ![a][life[a]] = why]
        BY <1>1, <2>1 DEF TaskEnds
    <2>4. TasksOnlyEnd /\ task' \in [Members -> [Lives -> {"none", "running"} \union Reasons]]
        BY <2>2, <2>3, TaskEnded DEF LinksInv
    <2>5. LinksTypeOK'
        BY <2>1, <2>4 DEF TaskEnds, LinksInv, LinksTypeOK
    <2> QED BY <2>1, <2>4, <2>5, TaskEndsStep DEF TaskEnds
<1>3. CASE HandleExit(a, b)
    <2>1. life[a] \in Lives /\ task[a][life[a]] = "running"
        BY <1>1, <1>3 DEF HandleExit
    <2>2. TasksOnlyEnd /\ task' \in [Members -> [Lives -> {"none", "running"} \union Reasons]]
        <3>1. CASE UNCHANGED task
            BY <3>1 DEF TasksOnlyEnd, LinksInv, LinksTypeOK
        <3>2. CASE task' = [task EXCEPT ![a][life[a]] = "error"]
            <4>1. "error" \in Reasons
                BY DEF Reasons
            <4> QED BY <2>1, <3>2, <4>1, TaskEnded DEF LinksInv
        <3> QED BY <1>3, <3>1, <3>2 DEF HandleExit
    <2>3. LinksTypeOK'
        BY <1>3, <2>2 DEF HandleExit, LinksInv, LinksTypeOK
    <2> QED BY <1>3, <2>2, <2>3, TaskEndsStep DEF HandleExit
<1>4. CASE Link(a, b) \/ Unlink(a, b)
    <2>1. {a, b} \in SUBSET Members
        OBVIOUS
    <2>2. LinksTypeOK' /\ TasksOnlyEnd
        BY <1>4, <2>1 DEF Link, Unlink, LinksInv, LinksTypeOK, TasksOnlyEnd
    <2> QED BY <1>4, <2>2, TaskEndsStep DEF Link, Unlink
<1> QED BY <1>2, <1>3, <1>4

(***************************************************************************)
(* monitor(): a monitor that comes in time finds the table unread.         *)
(***************************************************************************)
LEMMA MonitorStep ==
    ASSUME LinksInv, NEW r \in Refs, MonitorCheck(r) \/ MonitorAdd(r)
    PROVE  LinksInv'
<1>1. UNCHANGED <<life, task, entry, stage, stopped, stopping, downs, pairs, exits, robbed, noted>>
    BY DEF MonitorCheck, MonitorAdd
<1>2. LinksTypeOK'
    BY LinksAssumption DEF MonitorCheck, MonitorAdd, LinksInv, LinksTypeOK
<1>3. RunningIsRegistered' /\ LivesInOrder'
    BY <1>1, <1>2, EndsKeep DEF TasksOnlyEnd
<1>4. CleanersComeAfterwards'
    BY <1>1 DEF LinksInv, CleanersComeAfterwards
<1>5. WaitingIsInTable'
    <2> SUFFICES ASSUME NEW s \in Refs, Waits(s)' PROVE s \in monitors' /\ Unread(Watched[s], setOn[s])'
        BY DEF WaitingIsInTable
    <2>1. CASE s # r \/ (MonitorAdd(r) /\ Waits(s))
        <3>1. Waits(s) /\ setOn'[s] = setOn[s] /\ monitors \subseteq monitors'
            BY <1>1, <2>1 DEF MonitorCheck, MonitorAdd, Waits, LinksInv, LinksTypeOK
        <3>2. s \in monitors' /\ Unread(Watched[s], setOn[s])
            BY <3>1 DEF LinksInv, WaitingIsInTable
        <3> QED BY <1>1, <3>1, <3>2 DEF Unread, Of, HasRead
    <2>2. CASE s = r /\ MonitorCheck(r)
        BY <2>2 DEF MonitorCheck, Waits
    <2>3. CASE s = r /\ MonitorAdd(r)
        <3>1. r \notin late' /\ r \in monitors' /\ setOn'[r] = setOn[r]
            BY <2>3 DEF MonitorAdd, Waits
        <3>2. Watched[r] \in Members /\ setOn[r] \in Lives
            BY <1>1, <2>3, LinksAssumption DEF MonitorAdd, Waits, LinksInv, LinksTypeOK
        <3>3. ~\E p \in Cleaners : \/ Of(p) = Watched[r] /\ HasRead(p)
                                   \/ p = <<Watched[r], setOn[r]>> /\ stage[p] = "done"
                                   \/ p = TheStop /\ stopped = [a |-> Watched[r], i |-> setOn[r]]
                                      /\ stage[p] = "done"
            BY <2>3, <3>1 DEF MonitorAdd
        <3>4. Unread(Watched[r], setOn[r])
            BY <3>2, <3>3, CleanerFacts DEF Unread
        <3> QED BY <1>1, <2>3, <3>1, <3>4 DEF Unread, Of, HasRead
    <2> QED BY <2>1, <2>2, <2>3
<1> QED BY <1>2, <1>3, <1>4, <1>5, DownFollowsNext DEF LinksInv

(***************************************************************************)
(* A step of one cleaner leaves the stages of the others alone.            *)
(***************************************************************************)
LEMMA StageSet ==
    ASSUME LinksTypeOK, NEW p \in Cleaners, NEW s \in Stages, stage' = [stage EXCEPT ![p] = s]
    PROVE  /\ stage' \in [Cleaners -> Stages] /\ stage'[p] = s
           /\ \A q \in Cleaners : q # p => stage'[q] = stage[q]
BY DEF LinksTypeOK

(***************************************************************************)
(* The watch task wakes up after the end of its actor and goes when it     *)
(* finds the note of stop_actor().                                         *)
(***************************************************************************)
LEMMA WatchStep ==
    ASSUME LinksInv, NEW a \in Members, NEW i \in Lives, WatchTakesNote(a, i)
    PROVE  LinksInv'
<1> DEFINE p == <<a, i>>
<1>1. /\ p \in Cleaners /\ p # TheStop /\ stage[p] = "watch" /\ task[a][i] \in Reasons
      /\ UNCHANGED <<life, task, entry, stopped, monitors, asking, setOn, downs, pairs, exits, late, robbed>>
    BY CleanerFacts DEF WatchTakesNote
<1>2. PICK s \in {"down", "done"} :
        /\ stage' = [stage EXCEPT ![p] = s]
        /\ s = "done" => p \in noted' \/ stopped = [a |-> a, i |-> i]
    BY DEF WatchTakesNote
<1>3. noted \subseteq noted' /\ noted' \subseteq noted \union {p} /\ stopping' \subseteq stopping
    BY DEF WatchTakesNote
<1>4. s \in Stages
    BY DEF Stages
<1> HIDE DEF p
<1>5. /\ stage' \in [Cleaners -> Stages] /\ stage'[p] = s
      /\ \A q \in Cleaners : q # p => stage'[q] = stage[q]
    BY <1>1, <1>2, <1>4, StageSet DEF LinksInv
<1>6. LinksTypeOK'
    BY <1>1, <1>3, <1>5 DEF LinksInv, LinksTypeOK, p
<1>7. RunningIsRegistered' /\ LivesInOrder'
    BY <1>1, <1>6, EndsKeep DEF TasksOnlyEnd
<1>8. CleanersComeAfterwards'
    <2>1. ASSUME NEW b \in Members, NEW j \in Lives, stage'[<<b, j>>] \notin {"idle", "watch"}
          PROVE  task'[b][j] \in Reasons
        BY <1>1, <1>5, <2>1, CleanerFacts DEF LinksInv, CleanersComeAfterwards, p
    <2> QED BY <1>1, <1>5, <2>1, CleanerFacts DEF LinksInv, CleanersComeAfterwards
<1>9. WaitingIsInTable'
    <2> SUFFICES ASSUME NEW r \in Refs, Waits(r)' PROVE r \in monitors' /\ Unread(Watched[r], setOn[r])'
        BY DEF WaitingIsInTable
    <2>1. /\ r \in monitors /\ Unread(Watched[r], setOn[r]) /\ Watched[r] \in Members /\ setOn[r] \in Lives
          /\ setOn'[r] = setOn[r]
        BY <1>1, WaitedBefore DEF TasksOnlyEnd
    <2>2. ASSUME NEW q \in Cleaners, Of(q)' = Watched[r] PROVE ~HasRead(q)'
        BY <1>1, <1>5, <2>1, <2>2 DEF Of, HasRead, Unread
    <2>3. stage'[TheStop] = stage[TheStop] /\ <<Watched[r], setOn[r]>> \in Cleaners
        BY <1>1, <1>5, <2>1, CleanerFacts
    <2>4. stage'[<<Watched[r], setOn[r]>>] = "done" /\ <<Watched[r], setOn[r]>> \notin noted'
              => stopped = [a |-> Watched[r], i |-> setOn[r]]
        BY <1>2, <1>3, <1>5, <2>1, <2>3 DEF Unread, p
    <2> QED BY <1>1, <2>1, <2>2, <2>3, <2>4 DEF Unread
<1> QED BY <1>6, <1>7, <1>8, <1>9, DownFollowsNext DEF LinksInv

(***************************************************************************)
(* stop_actor() notes the registered incarnation.                          *)
(***************************************************************************)
LEMMA StopNoteStep ==
    ASSUME LinksInv, StopNote
    PROVE  LinksInv'
<1>1. /\ TheStop \in Cleaners /\ stage[TheStop] = "idle" /\ stopped.a \in Members
      /\ entry[stopped.a] # NoLife /\ stopped.i = NoLife
      /\ stopping' = stopping \union {stopped.a}
      /\ stage' = [stage EXCEPT ![TheStop] = "taken"] /\ "taken" \in Stages
      /\ UNCHANGED <<life, task, entry, monitors, asking, setOn, downs, pairs, exits, late, robbed, noted>>
    BY CleanerFacts DEF StopNote, LinksInv, LinksTypeOK, CleanersComeAfterwards, Stages
<1>2. /\ stopped' \in [a: Members, i: Lives \union {NoLife}]
      /\ stopped'.a = stopped.a /\ stopped'.i = entry[stopped.a]
    BY <1>1 DEF StopNote, LinksInv, LinksTypeOK
<1>3. /\ stage' \in [Cleaners -> Stages] /\ stage'[TheStop] = "taken"
      /\ \A q \in Cleaners : q # TheStop => stage'[q] = stage[q]
    BY <1>1, StageSet DEF LinksInv
<1>4. LinksTypeOK'
    BY <1>1, <1>2, <1>3 DEF LinksInv, LinksTypeOK
<1>5. RunningIsRegistered' /\ LivesInOrder'
    BY <1>1, <1>4, EndsKeep DEF TasksOnlyEnd
<1>6. CleanersComeAfterwards'
    <2>1. stopped'.i \in 1..life[stopped.a]
        BY <1>1, <1>2, LinksAssumption DEF LinksInv, LivesInOrder
    <2> QED BY <1>1, <1>2, <1>3, <2>1, CleanerFacts DEF LinksInv, CleanersComeAfterwards
<1>7. WaitingIsInTable'
    <2> SUFFICES ASSUME NEW r \in Refs, Waits(r)' PROVE r \in monitors' /\ Unread(Watched[r], setOn[r])'
        BY DEF WaitingIsInTable
    <2>1. /\ r \in monitors /\ Unread(Watched[r], setOn[r]) /\ Watched[r] \in Members /\ setOn[r] \in Lives
          /\ setOn'[r] = setOn[r]
        BY <1>1, WaitedBefore DEF TasksOnlyEnd
    <2>2. ASSUME NEW q \in Cleaners, Of(q)' = Watched[r] PROVE ~HasRead(q)'
        BY <1>2, <1>3, <2>1, <2>2 DEF Of, HasRead, Unread
    <2>3. stage'[<<Watched[r], setOn[r]>>] = stage[<<Watched[r], setOn[r]>>]
        BY <1>3, <2>1, CleanerFacts
    <2>4. stopped # [a |-> Watched[r], i |-> setOn[r]]
        BY <1>1, <2>1, StoppedIs, CleanerFacts, LinksAssumption DEF LinksInv
    <2> QED BY <1>1, <1>3, <2>1, <2>2, <2>3, <2>4 DEF Unread
<1> QED BY <1>4, <1>5, <1>6, <1>7, DownFollowsNext DEF LinksInv

(***************************************************************************)
(* stop_actor() ends the incarnation it has noted.                         *)
(***************************************************************************)
LEMMA StopTaskStep ==
    ASSUME LinksInv, StopTask
    PROVE  LinksInv'
<1> DEFINE why == IF task[stopped.a][stopped.i] = "running" THEN "normal" ELSE task[stopped.a][stopped.i]
<1>1. /\ TheStop \in Cleaners /\ stage[TheStop] = "taken" /\ stopped.a \in Members
      /\ stopped.i \in Lives /\ stopped.i \in 1..life[stopped.a]
      /\ stage' = [stage EXCEPT ![TheStop] = "down"] /\ "down" \in Stages
      /\ task' = [task EXCEPT ![stopped.a][stopped.i] = why]
      /\ UNCHANGED <<life, entry, stopped, stopping, monitors, asking, setOn, downs, pairs, exits,
                     late, robbed, noted>>
    BY CleanerFacts, LinksAssumption DEF StopTask, LinksInv, LinksTypeOK, CleanersComeAfterwards, Stages
<1>2. life[stopped.a] \in Nat /\ ~(stopped.i > life[stopped.a])
    BY <1>1, LinksAssumption DEF LinksInv, LivesInOrder
<1>3. task[stopped.a][stopped.i] \in {"running"} \union Reasons
    BY <1>1, <1>2 DEF LinksInv, LinksTypeOK, LivesInOrder
<1>4. why \in Reasons
    BY <1>3 DEF Reasons
<1>5. /\ task' \in [Members -> [Lives -> {"none", "running"} \union Reasons]]
      /\ task'[stopped.a][stopped.i] = why
      /\ \A b \in Members, j \in Lives : <<b, j>> # <<stopped.a, stopped.i>> => task'[b][j] = task[b][j]
    <2> HIDE DEF why
    <2> QED BY <1>1, <1>4, TaskSet, ZenonT(40) DEF LinksInv
<1>6. TasksOnlyEnd
    BY <1>4, <1>5 DEF TasksOnlyEnd
<1> HIDE DEF why
<1>7. /\ stage' \in [Cleaners -> Stages] /\ stage'[TheStop] = "down"
      /\ \A q \in Cleaners : q # TheStop => stage'[q] = stage[q]
    BY <1>1, StageSet DEF LinksInv
<1>8. LinksTypeOK'
    BY <1>1, <1>5, <1>7 DEF LinksInv, LinksTypeOK
<1>9. RunningIsRegistered' /\ LivesInOrder'
    BY <1>1, <1>6, <1>8, EndsKeep
<1>10. CleanersComeAfterwards'
    <2>1. ASSUME NEW b \in Members, NEW j \in Lives, stage'[<<b, j>>] \notin {"idle", "watch"}
          PROVE  task'[b][j] \in Reasons
        BY <1>6, <1>7, <2>1, CleanerFacts DEF LinksInv, CleanersComeAfterwards, TasksOnlyEnd
    <2> QED BY <1>1, <1>4, <1>5, <1>7, <2>1 DEF CleanersComeAfterwards
<1>11. WaitingIsInTable'
    <2> SUFFICES ASSUME NEW r \in Refs, Waits(r)' PROVE r \in monitors' /\ Unread(Watched[r], setOn[r])'
        BY DEF WaitingIsInTable
    <2>1. /\ r \in monitors /\ Unread(Watched[r], setOn[r]) /\ Watched[r] \in Members /\ setOn[r] \in Lives
          /\ setOn'[r] = setOn[r]
        BY <1>1, <1>6, WaitedBefore
    <2>2. ASSUME NEW q \in Cleaners, Of(q)' = Watched[r] PROVE ~HasRead(q)'
        BY <1>1, <1>7, <2>1, <2>2 DEF Of, HasRead, Unread
    <2>3. stage'[<<Watched[r], setOn[r]>>] = stage[<<Watched[r], setOn[r]>>]
        BY <1>7, <2>1, CleanerFacts
    <2> QED BY <1>1, <1>7, <2>1, <2>2, <2>3 DEF Unread
<1> QED BY <1>8, <1>9, <1>10, <1>11, DownFollowsNext DEF LinksInv

(***************************************************************************)
(* A cleaner is at work after an end of its actor, and stays so.           *)
(***************************************************************************)
LEMMA CleanerAtWork ==
    ASSUME LinksInv, NEW p \in Cleaners, NEW s \in {"exit", "cleanup", "unregister", "done"},
           stage[p] \in {"down", "exit", "cleanup", "unregister"},
           stage' = [stage EXCEPT ![p] = s], UNCHANGED <<life, task, stopped>>
    PROVE  /\ stage' \in [Cleaners -> Stages] /\ stage'[p] = s
           /\ \A q \in Cleaners : q # p => stage'[q] = stage[q]
           /\ CleanersComeAfterwards'
           /\ Of(p) \in Members /\ \E j \in Lives : task[Of(p)][j] \in Reasons
<1>1. /\ stage' \in [Cleaners -> Stages] /\ stage'[p] = s
      /\ \A q \in Cleaners : q # p => stage'[q] = stage[q]
    BY StageSet DEF LinksInv, Stages
<1>2. ASSUME NEW b \in Members, NEW j \in Lives, stage'[<<b, j>>] \notin {"idle", "watch"}
      PROVE  task'[b][j] \in Reasons
    <2>1. stage[<<b, j>>] \notin {"idle", "watch"}
        BY <1>1, <1>2, CleanerFacts
    <2> QED BY <2>1 DEF LinksInv, CleanersComeAfterwards
<1>3. /\ stage[TheStop] = "idle" <=> stage'[TheStop] = "idle"
      /\ stage[TheStop] = "taken" <=> stage'[TheStop] = "taken"
    BY <1>1, CleanerFacts
<1>4. CleanersComeAfterwards'
    BY <1>2, <1>3 DEF LinksInv, CleanersComeAfterwards
<1>5. CASE p = TheStop
    <2>1. stopped.a \in Members /\ stopped.i \in Lives /\ task[stopped.a][stopped.i] \in Reasons
        BY <1>5, LinksAssumption DEF LinksInv, LinksTypeOK, CleanersComeAfterwards
    <2> QED BY <1>1, <1>4, <1>5, <2>1 DEF Of
<1>6. CASE p # TheStop
    <2>1. p[1] \in Members /\ p[2] \in Lives /\ p = <<p[1], p[2]>>
        BY <1>6, CleanerFacts
    <2>2. task[p[1]][p[2]] \in Reasons
        BY <2>1 DEF LinksInv, CleanersComeAfterwards
    <2> QED BY <1>1, <1>4, <1>6, <2>1, <2>2 DEF Of
<1> QED BY <1>5, <1>6

(***************************************************************************)
(* Reading the table sends DOWN to every monitor that waits in it.         *)
(***************************************************************************)
LEMMA SendStep ==
    ASSUME LinksInv, NEW p \in Cleaners, SendDown(p) \/ PropagateExit(p)
    PROVE  LinksInv'
<1>1. PICK s \in {"exit", "cleanup"} :
        /\ stage' = [stage EXCEPT ![p] = s] /\ stage[p] \in {"down", "exit"}
        /\ stage[p] = "down" => downs' = downs \union {r \in monitors : Watched[r] = Of(p)}
        /\ stage[p] = "exit" => downs' = downs
    BY DEF SendDown, PropagateExit
<1>2. UNCHANGED <<life, task, entry, stopped, stopping, monitors, asking, setOn, pairs, late, robbed, noted>>
    BY DEF SendDown, PropagateExit
<1>3. /\ stage' \in [Cleaners -> Stages] /\ stage'[p] = s
      /\ \A q \in Cleaners : q # p => stage'[q] = stage[q]
      /\ CleanersComeAfterwards' /\ Of(p) \in Members
    BY <1>1, <1>2, CleanerAtWork
<1>4. exits' \subseteq Members \X Members
    <2>1. exits \subseteq Members \X Members
        BY DEF LinksInv, LinksTypeOK
    <2>2. \A e \in exits' : e \in exits \/ \E b \in Members : e = <<Of(p), b>>
        <3>1. CASE SendDown(p)
            BY <3>1 DEF SendDown
        <3>2. CASE PropagateExit(p)
            BY <3>2, Zenon DEF PropagateExit
        <3> QED BY <3>1, <3>2
    <2> QED BY <1>3, <2>1, <2>2
<1>5. LinksTypeOK'
    BY <1>1, <1>2, <1>3, <1>4 DEF LinksInv, LinksTypeOK
<1>6. RunningIsRegistered' /\ LivesInOrder'
    BY <1>2, <1>5, EndsKeep DEF TasksOnlyEnd
<1>7. WaitingIsInTable'
    <2> SUFFICES ASSUME NEW r \in Refs, Waits(r)' PROVE r \in monitors' /\ Unread(Watched[r], setOn[r])'
        BY DEF WaitingIsInTable
    <2>1. /\ r \in monitors /\ Unread(Watched[r], setOn[r]) /\ Watched[r] \in Members /\ setOn[r] \in Lives
          /\ setOn'[r] = setOn[r]
        BY <1>1, <1>2, WaitedBefore DEF TasksOnlyEnd
    <2>2. Of(p) # Watched[r]
        BY <1>1, <2>1 DEF Waits, Unread, HasRead
    <2>3. ASSUME NEW q \in Cleaners, Of(q)' = Watched[r] PROVE ~HasRead(q)'
        BY <1>2, <1>3, <2>1, <2>2, <2>3 DEF Of, HasRead, Unread
    <2>4. /\ stage'[<<Watched[r], setOn[r]>>] = "done" => stage[<<Watched[r], setOn[r]>>] = "done"
          /\ stage'[TheStop] = "done" => stage[TheStop] = "done"
        BY <1>3, <2>1, CleanerFacts
    <2> QED BY <1>2, <2>1, <2>3, <2>4 DEF Unread
<1> QED BY <1>3, <1>5, <1>6, <1>7, DownFollowsNext DEF LinksInv

(***************************************************************************)
(* Only then the actor leaves the tables and the registry; an incarnation  *)
(* that runs and loses its entry so is known as robbed.                    *)
(***************************************************************************)
LEMMA CleanupStep ==
    ASSUME LinksInv, NEW p \in Cleaners, CleanupTables(p) \/ UnregisterActor(p)
    PROVE  LinksInv'
<1>1. PICK s \in {"unregister", "done"} :
        stage' = [stage EXCEPT ![p] = s] /\ stage[p] \in {"cleanup", "unregister"}
    BY DEF CleanupTables, UnregisterActor
<1>2. /\ UNCHANGED <<life, task, stopped, stopping, asking, setOn, downs, exits, late, noted>>
      /\ {r \in monitors : Watched[r] # Of(p) /\ Watching[r] # Of(p)} \subseteq monitors'
      /\ monitors' \subseteq monitors /\ pairs' \subseteq pairs
      /\ entry' = entry \/ entry' = [entry EXCEPT ![Of(p)] = NoLife]
      /\ robbed' = IF RunningLife(Of(p)) THEN robbed \union {Of(p)} ELSE robbed
    BY DEF CleanupTables, UnregisterActor
<1>3. /\ stage' \in [Cleaners -> Stages] /\ stage'[p] = s
      /\ \A q \in Cleaners : q # p => stage'[q] = stage[q]
      /\ CleanersComeAfterwards' /\ Of(p) \in Members
      /\ \E j \in Lives : task[Of(p)][j] \in Reasons
    BY <1>1, <1>2, CleanerAtWork
<1>4. LinksTypeOK'
    BY <1>2, <1>3 DEF LinksInv, LinksTypeOK
<1>5. RunningIsRegistered'
    <2> SUFFICES ASSUME NEW b \in Members, RunningLife(b)' PROVE entry'[b] = life'[b] \/ b \in robbed'
        BY DEF RunningIsRegistered
    <2>1. RunningLife(b)
        BY <1>2 DEF RunningLife
    <2>2. CASE b = Of(p)
        BY <1>2, <2>1, <2>2
    <2>3. CASE b # Of(p)
        BY <1>2, <2>1, <2>3 DEF LinksInv, LinksTypeOK, RunningIsRegistered
    <2> QED BY <2>2, <2>3
<1>6. LivesInOrder'
    BY <1>2, <1>3, LinksAssumption DEF LinksInv, LinksTypeOK, LivesInOrder
<1>7. WaitingIsInTable'
    <2> SUFFICES ASSUME NEW r \in Refs, Waits(r)' PROVE r \in monitors' /\ Unread(Watched[r], setOn[r])'
        BY DEF WaitingIsInTable
    <2>1. /\ r \in monitors /\ Unread(Watched[r], setOn[r]) /\ Watched[r] \in Members /\ setOn[r] \in Lives
          /\ setOn'[r] = setOn[r] /\ \A j \in Lives : task[Watching[r]][j] \notin Reasons
        BY <1>2, WaitedBefore DEF TasksOnlyEnd
    <2>2. Of(p) # Watched[r] /\ Of(p) # Watching[r]
        BY <1>1, <1>3, <2>1 DEF Unread, HasRead
    <2>3. ASSUME NEW q \in Cleaners, Of(q)' = Watched[r] PROVE ~HasRead(q)'
        BY <1>2, <1>3, <2>1, <2>2, <2>3 DEF Of, HasRead, Unread
    <2>4. p # <<Watched[r], setOn[r]>>
        BY <2>1, <2>2, CleanerFacts
    <2>5. stage'[<<Watched[r], setOn[r]>>] = stage[<<Watched[r], setOn[r]>>]
        BY <1>3, <2>1, <2>4, CleanerFacts
    <2>6. p = TheStop => stopped # [a |-> Watched[r], i |-> setOn[r]]
        BY <2>2, StoppedIs DEF Of, LinksInv
    <2>7. p # TheStop => stage'[TheStop] = stage[TheStop]
        BY <1>3, CleanerFacts
    <2> QED BY <1>2, <2>1, <2>2, <2>3, <2>5, <2>6, <2>7 DEF Unread
<1> QED BY <1>3, <1>4, <1>5, <1>6, <1>7, DownFollowsNext DEF LinksInv

LEMMA LinksStart == LinksInit => LinksInv
<1> SUFFICES ASSUME LinksInit PROVE LinksInv
    OBVIOUS
<1>1. LinksTypeOK
    BY LinksAssumption DEF LinksInit, LinksTypeOK, Stages
<1>2. LivesInOrder
    BY LinksAssumption, CleanerFacts DEF LinksInit, LivesInOrder
<1>3. RunningIsRegistered /\ CleanersComeAfterwards
    BY CleanerFacts DEF LinksInit, RunningIsRegistered, RunningLife, CleanersComeAfterwards
<1>4. WaitingIsInTable
    BY LinksAssumption DEF LinksInit, WaitingIsInTable, Waits
<1> QED BY <1>1, <1>2, <1>3, <1>4, DownFollows DEF LinksInv

LEMMA LinksNextStep == LinksInv /\ [LinksNext]_linkVars => LinksInv'
<1> SUFFICES ASSUME LinksInv, [LinksNext]_linkVars PROVE LinksInv'
    OBVIOUS
<1>1. CASE UNCHANGED linkVars
    <2>1. LinksTypeOK' /\ TasksOnlyEnd
        BY <1>1 DEF linkVars, LinksInv, LinksTypeOK, TasksOnlyEnd
    <2> QED BY <1>1, <2>1, TaskEndsStep DEF linkVars
<1> QED BY <1>1, SpawnStep, LinkTableStep, MonitorStep, WatchStep, StopNoteStep, StopTaskStep,
        SendStep, CleanupStep DEF LinksNext, CleanerStep

(***************************************************************************)
(* For any number of actors, incarnations and monitors: a monitor that was *)
(* set in time is told of the end of its target, whoever cleans up after   *)
(* it, and a running incarnation keeps its entry of the registry unless an *)
(* older one's cleaner takes it (handle_actor_termination, stop_actor).    *)
(***************************************************************************)
THEOREM LinksHold == LinksSpec => []LinksInv
BY LinksStart, LinksNextStep, PTL DEF LinksSpec

-----------------------------------------------------------------------------
(* Virtual actors.                                                         *)

(***************************************************************************)
(* What is filtered out of a list is of the list, in S, and not repeated   *)
(* when the list repeats nothing.                                          *)
(***************************************************************************)
LEMMA FilterFacts ==
    ASSUME NEW seq \in Seq(Actors), NEW S \in SUBSET Actors, NEW t \in Filtered(seq, S)
    PROVE  /\ t \in Seq(Actors)
           /\ \A k \in 1..Len(t) : t[k] \in S /\ \E i \in 1..Len(seq) : t[k] = seq[i]
           /\ Distinct(seq) => Distinct(t)
<1> DEFINE places == {i \in 1..Len(seq) : seq[i] \in S}
           n == Cardinality(places)
<1>1. n \in Nat
    <2>1. Len(seq) \in Nat /\ IsFiniteSet(1..Len(seq))
        BY LenProperties, FS_Interval
    <2>2. IsFiniteSet(places)
        BY <2>1, FS_Subset
    <2> QED BY <2>2, FS_CardinalityType
<1>2. PICK f \in [1..n -> places] :
        t = [k \in 1..n |-> seq[f[k]]] /\ \A j, k \in 1..n : j < k => f[j] < f[k]
    BY DEF Filtered
<1>3. \A k \in 1..n : f[k] \in 1..Len(seq) /\ seq[f[k]] \in S /\ f[k] \in Nat
    <2>1. Len(seq) \in Nat
        BY LenProperties
    <2> QED BY <1>2, <2>1
<1> HIDE DEF n, places
<1>4. t \in Seq(Actors) /\ Len(t) = n
    BY <1>1, <1>2, <1>3
<1>5. \A k \in 1..Len(t) : t[k] \in S /\ \E i \in 1..Len(seq) : t[k] = seq[i]
    BY <1>2, <1>3, <1>4
<1>6. ASSUME Distinct(seq) PROVE Distinct(t)
    <2> SUFFICES ASSUME NEW j \in 1..n, NEW k \in 1..n, t[j] = t[k] PROVE j = k
        BY <1>4 DEF Distinct
    <2>1. f[j] = f[k]
        BY <1>2, <1>3, <1>6 DEF Distinct
    <2>2. j \in Nat /\ k \in Nat
        BY <1>1
    <2>3. ~(j < k) /\ ~(k < j)
        BY <1>2, <1>3, <2>1
    <2> QED BY <2>2, <2>3
<1> QED BY <1>4, <1>5, <1>6

LEMMA RangeIs ==
    ASSUME NEW s \in Seq(Actors)
    PROVE  /\ \A a : a \in Range(s) <=> \E k \in 1..Len(s) : s[k] = a
           /\ Range(s) \subseteq Actors
           /\ s = <<>> => Range(s) = {}
<1>1. DOMAIN s = 1..Len(s) /\ Len(s) \in Nat
    BY LenProperties
<1>2. \A a : a \in Range(s) <=> \E k \in 1..Len(s) : s[k] = a
    BY <1>1 DEF Range
<1> QED BY <1>1, <1>2, ElementOfSeq

(***************************************************************************)
(* The tracking of an actor leaves no actor listed twice.                  *)
(***************************************************************************)
LEMMA TracksDistinct ==
    ASSUME NEW a \in Actors, tracked \in Seq(Actors), Distinct(tracked), Tracks(a)
    PROVE  tracked' \in Seq(Actors) /\ Distinct(tracked)'
<1>1. PICK t \in Filtered(tracked, Actors \ {a}) : tracked' = Append(t, a)
    BY DEF Tracks
<1>2. t \in Seq(Actors) /\ (\A k \in 1..Len(t) : t[k] # a) /\ Distinct(t)
    BY FilterFacts
<1>3. /\ tracked' \in Seq(Actors) /\ Len(tracked') = Len(t) + 1 /\ Len(t) \in Nat
      /\ \A k \in 1..Len(t) : tracked'[k] = t[k]
      /\ tracked'[Len(t) + 1] = a
    BY <1>1, <1>2, AppendProperties, LenProperties
<1>4. ASSUME NEW i \in 1..Len(tracked'), NEW j \in 1..Len(tracked'), tracked'[i] = tracked'[j]
      PROVE  i = j
    <2>1. i \in 1..Len(t) \/ i = Len(t) + 1
        BY <1>3
    <2>2. j \in 1..Len(t) \/ j = Len(t) + 1
        BY <1>3
    <2> QED BY <1>2, <1>3, <1>4, <2>1, <2>2 DEF Distinct
<1> QED BY <1>3, <1>4 DEF Distinct

(***************************************************************************)
(* A call moves on without touching an entry, an instance or the registry. *)
(***************************************************************************)
LEMMA MoveStep ==
    ASSUME VirtualInv, VirtualTypeOK', Distinct(tracked)', NEW c \in Callers, NEW to \in Places,
           at' = [at EXCEPT ![c] = to],
           \A d \in Callers \ {c} : mode'[d] = mode[d],
           UNCHANGED <<inst, reg, guard, victims, stopAt>>, stopAt[c] = "idle",
           bypassed \subseteq bypassed',
           mailed \subseteq mailed', lost \subseteq lost', refused \subseteq refused',
           \A a \in Actors : pending[a] \subseteq pending'[a],
           at'[c] = "won" \/ (mode'[c] = "guard" /\ at'[c] \in Activating)
               <=> at[c] = "won" \/ (mode[c] = "guard" /\ at[c] \in Activating),
           to \in {"lost", "waiting"} => guard[Target[c]] # NoOne,
           to = "ok" \/ (to \in Activating /\ mode'[c] # "sender")
               => c \in mailed' \union lost' \union refused' \union pending'[Target[c]],
           to \in Activating /\ mode'[c] # "guard" => Target[c] \in bypassed',
           to \in {"evict", "metadata", "spawn"} /\ Target[c] \notin bypassed'
               => Running(Target[c]) = {}
    PROVE  VirtualInv'
<1>1. /\ at'[c] = to /\ \A d \in Callers \ {c} : at'[d] = at[d]
      /\ \A d \in Callers : Target[d] \in Actors
    BY VirtualAssumption DEF VirtualInv, VirtualTypeOK
<1>2. EntryHasOneOwner'
    <2> SUFFICES ASSUME NEW a \in Actors, NEW d \in Callers PROVE (Guarded(d, a) <=> guard[a] = d)'
        BY DEF EntryHasOneOwner
    <2>1. Guarded(d, a)' <=> Guarded(d, a)
        <3>1. CASE d = c
            BY <3>1 DEF Guarded
        <3>2. CASE d # c
            BY <1>1, <3>2 DEF Guarded
        <3> QED BY <3>1, <3>2
    <2> QED BY <2>1 DEF VirtualInv, EntryHasOneOwner
<1>3. WaitersHaveAWinner'
    BY <1>1 DEF VirtualInv, WaitersHaveAWinner
<1>4. AcceptedIsSomewhere'
    <2> SUFFICES ASSUME NEW d \in Callers,
                        at'[d] = "ok" \/ (at'[d] \in Activating /\ mode'[d] # "sender")
                 PROVE  d \in mailed' \union lost' \union refused' \union pending'[Target[d]]
        BY DEF AcceptedIsSomewhere
    <2>1. CASE d = c
        BY <1>1, <2>1
    <2>2. CASE d # c
        BY <1>1, <2>2 DEF VirtualInv, AcceptedIsSomewhere
    <2> QED BY <2>1, <2>2
<1>5. RegisteredIsOurs'
    BY DEF VirtualInv, RegisteredIsOurs
<1>6. SingleBehindEntry'
    BY DEF VirtualInv, SingleBehindEntry, Running
<1>7. RunningIsFound'
    <2>1. \A a \in Actors : Running(a)' = Running(a)
        BY DEF Running
    <2>2. \A a \in Actors \ bypassed' : \A d \in Running(a)' : reg'[a] = d
        BY <2>1 DEF VirtualInv, RunningIsFound
    <2>3. ASSUME NEW d \in Callers
          PROVE  /\ at'[d] \in Activating /\ mode'[d] # "guard" => Target[d] \in bypassed'
                 /\ at'[d] \in {"evict", "metadata", "spawn"} /\ Target[d] \notin bypassed'
                       => Running(Target[d])' = {}
        <3>1. CASE d = c
            BY <1>1, <2>1, <3>1
        <3>2. CASE d # c
            BY <1>1, <2>1, <3>2 DEF VirtualInv, RunningIsFound
        <3> QED BY <3>1, <3>2
    <2> QED BY <2>2, <2>3 DEF RunningIsFound
<1>8. VictimsInTurn'
    <2>1. victims[c] = <<>> /\ Range(victims[c]) = {}
        BY RangeIs DEF VirtualInv, VirtualTypeOK, VictimsInTurn, Stoppers
    <2>2. ASSUME NEW d \in Callers
          PROVE  /\ Distinct(victims[d])
                 /\ stopAt[d] = "idle" => victims[d] = <<>>
                 /\ stopAt[d] # "idle" => at'[d] = "evict"
                 /\ at'[d] = "evict" /\ mode'[d] = "guard" => Target[d] \notin Range(victims[d])
        BY <1>1, <2>1 DEF VirtualInv, VictimsInTurn
    <2>3. \A p \in Stoppers : stopAt[p] # "idle" => victims[p] # <<>>
        BY DEF VirtualInv, VictimsInTurn
    <2>4. \A d \in Callers : Distinct(victims[d])'
        BY <2>2 DEF Distinct
    <2> QED BY <2>2, <2>3, <2>4 DEF VictimsInTurn
<1> QED BY <1>2, <1>3, <1>4, <1>5, <1>6, <1>7, <1>8 DEF VirtualInv

(***************************************************************************)
(* A caller is not evicting unless it says so.                             *)
(***************************************************************************)
LEMMA NotEvicting ==
    ASSUME VirtualInv, NEW c \in Callers, at[c] # "evict"
    PROVE  stopAt[c] = "idle" /\ victims[c] = <<>> /\ Range(victims[c]) = {}
<1>1. stopAt[c] = "idle" /\ victims[c] = <<>>
    BY DEF VirtualInv, VictimsInTurn
<1>2. victims[c] \in Seq(Actors)
    BY DEF VirtualInv, VirtualTypeOK, Stoppers
<1> QED BY <1>1, <1>2, RangeIs

(***************************************************************************)
(* The steps of dispatch_local_message() before an activation.             *)
(***************************************************************************)
LEMMA LookupSteps ==
    ASSUME VirtualInv, NEW c \in Callers,
           \/ Lookup(c) \/ CheckActive(c) \/ TellSeen(c) \/ StartActivation(c)
           \/ LoopLookup(c) \/ AwaitNotify(c) \/ RegisterFacet(c)
    PROVE  VirtualInv'
<1> USE DEF CallStep
<1>1. UNCHANGED <<mode, inst, reg, guard, pending, tracked, victims, stopAt, bypassed, spawnFaults>>
    BY DEF Lookup, CheckActive, TellSeen, StartActivation, LoopLookup, AwaitNotify, RegisterFacet
<1>2. Distinct(tracked)'
    BY <1>1 DEF VirtualInv, VictimsInTurn, Distinct
<1>3. Target[c] \in Actors
    BY VirtualAssumption
<1>4. CASE Lookup(c) \/ CheckActive(c) \/ StartActivation(c) \/ LoopLookup(c) \/ AwaitNotify(c)
    <2>1. PICK to \in {"tell", "active", "sender", "facet", "loop", "queue", "queueWon", "claim", "waiting", "hung"} :
            /\ at' = [at EXCEPT ![c] = to]
            /\ to = "waiting" => at[c] = "lost"
            /\ at[c] \in {"start", "active", "facet", "loop", "lost", "late"}
        BY <1>4 DEF Lookup, CheckActive, StartActivation, LoopLookup, AwaitNotify
    <2>2. to \in Places
        BY DEF Places
    <2>3. facet' \in [Actors -> {"none", "idle", "activating"}]
        BY <1>3, <1>4 DEF Lookup, CheckActive, StartActivation, LoopLookup, AwaitNotify, VirtualInv, VirtualTypeOK
    <2>4. seen' \in [Callers -> Callers \union {NoOne}] /\ UNCHANGED <<mailed, lost, refused>>
        BY <1>3, <1>4 DEF Lookup, CheckActive, StartActivation, LoopLookup, AwaitNotify, Found, VirtualInv, VirtualTypeOK
    <2>5. VirtualTypeOK'
        BY <1>1, <2>1, <2>2, <2>3, <2>4 DEF VirtualInv, VirtualTypeOK
    <2>6. stopAt[c] = "idle" /\ at'[c] = to
        BY <2>1, NotEvicting DEF VirtualInv, VirtualTypeOK
    <2>7. to = "waiting" => guard[Target[c]] # NoOne
        BY <2>1 DEF VirtualInv, WaitersHaveAWinner
    <2> QED BY <1>1, <1>2, <2>1, <2>2, <2>4, <2>5, <2>6, <2>7, MoveStep DEF Activating
<1>5. CASE TellSeen(c)
    <2>1. PICK to \in {"ok", "err"} :
            /\ at' = [at EXCEPT ![c] = to] /\ at[c] = "tell"
            /\ to = "ok" => c \in mailed' \union lost'
            /\ mailed \subseteq mailed' /\ lost \subseteq lost'
            /\ mailed' \subseteq mailed \union {c} /\ lost' \subseteq lost \union {c}
            /\ UNCHANGED <<seen, facet, refused>>
        BY <1>5 DEF TellSeen, Tell
    <2>2. to \in Places
        BY DEF Places, Answers
    <2>3. VirtualTypeOK'
        BY <1>1, <2>1, <2>2 DEF VirtualInv, VirtualTypeOK
    <2>4. stopAt[c] = "idle" /\ at'[c] = to
        BY <2>1, NotEvicting DEF VirtualInv, VirtualTypeOK
    <2> QED BY <1>1, <1>2, <2>1, <2>2, <2>3, <2>4, MoveStep DEF Activating
<1>6. CASE RegisterFacet(c)
    <2>1. /\ at' = [at EXCEPT ![c] = "spawn"] /\ at[c] = "metadata" /\ UNCHANGED <<mailed, lost, refused>>
          /\ facet' = [facet EXCEPT ![Target[c]] = "idle"] /\ UNCHANGED seen
        BY <1>6 DEF RegisterFacet
    <2>2. "spawn" \in Places
        BY DEF Places
    <2>3. VirtualTypeOK'
        BY <1>1, <2>1, <2>2 DEF VirtualInv, VirtualTypeOK
    <2>4. stopAt[c] = "idle" /\ at'[c] = "spawn"
        BY <2>1, NotEvicting DEF VirtualInv, VirtualTypeOK
    <2>5. /\ mode[c] # "sender" => c \in mailed \union lost \union refused \union pending[Target[c]]
          /\ mode[c] # "guard" => Target[c] \in bypassed
          /\ Target[c] \notin bypassed => Running(Target[c]) = {}
        BY <2>1 DEF VirtualInv, AcceptedIsSomewhere, RunningIsFound, Activating
    <2> QED BY <1>1, <1>2, <2>1, <2>2, <2>3, <2>4, <2>5, MoveStep DEF Activating
<1> QED BY <1>4, <1>5, <1>6

(***************************************************************************)
(* A call gets to activate_virtual_actor() with the entry, or past it.     *)
(***************************************************************************)
LEMMA ToActivation ==
    ASSUME VirtualInv, NEW c \in Callers, LocalSender(c) \/ QueueMessage(c)
    PROVE  VirtualInv'
<1> USE DEF CallStep
<1>1. UNCHANGED <<inst, reg, facet, guard, tracked, victims, stopAt, mailed, lost, refused, spawnFaults>>
    BY DEF LocalSender, QueueMessage
<1>2. Distinct(tracked)'
    BY <1>1 DEF VirtualInv, VictimsInTurn, Distinct
<1>3. Target[c] \in Actors
    BY VirtualAssumption
<1>4. CASE LocalSender(c)
    <2>1. PICK to \in {"tell", "activate", "err"} :
            /\ at' = [at EXCEPT ![c] = to] /\ at[c] = "sender" /\ UNCHANGED pending
            /\ to # "activate" => UNCHANGED <<mode, bypassed>>
            /\ to = "activate" => /\ mode' = [mode EXCEPT ![c] = "sender"]
                                  /\ bypassed' = bypassed \union {Target[c]}
        BY <1>4 DEF LocalSender
    <2>2. to \in Places
        BY DEF Places, Answers
    <2>3. seen' \in [Callers -> Callers \union {NoOne}]
        BY <1>3, <1>4 DEF LocalSender, Found, VirtualInv, VirtualTypeOK
    <2>4. VirtualTypeOK'
        BY <1>1, <1>3, <2>1, <2>2, <2>3 DEF VirtualInv, VirtualTypeOK
    <2>5. stopAt[c] = "idle" /\ at'[c] = to
        BY <2>1, NotEvicting DEF VirtualInv, VirtualTypeOK
    <2>6. /\ \A d \in Callers \ {c} : mode'[d] = mode[d]
          /\ to = "activate" => mode'[c] = "sender"
        BY <2>1 DEF VirtualInv, VirtualTypeOK
    <2> QED BY <1>1, <1>2, <2>1, <2>2, <2>4, <2>5, <2>6, MoveStep DEF Activating
<1>5. CASE QueueMessage(c)
    <2>1. PICK to \in {"ok", "activate"}, m \in {"guard", "facet"} :
            /\ at' = [at EXCEPT ![c] = to] /\ at[c] \in {"queue", "queueWon", "won"}
            /\ pending' = [pending EXCEPT ![Target[c]] = @ \union {c}] /\ UNCHANGED seen
            /\ to = "ok" => at[c] = "queue" /\ UNCHANGED <<mode, bypassed>>
            /\ to = "activate" => mode' = [mode EXCEPT ![c] = m]
            /\ to = "activate" /\ m = "facet" => at[c] = "queueWon" /\ bypassed' = bypassed \union {Target[c]}
            /\ to = "activate" /\ m = "guard" => at[c] = "won" /\ UNCHANGED bypassed
        BY <1>5 DEF QueueMessage
    <2>2. to \in Places
        BY DEF Places, Answers
    <2>3. VirtualTypeOK'
        BY <1>1, <1>3, <2>1, <2>2, ZenonT(40) DEF VirtualInv, VirtualTypeOK
    <2>4. stopAt[c] = "idle" /\ at'[c] = to
        BY <2>1, NotEvicting DEF VirtualInv, VirtualTypeOK
    <2>5. /\ \A d \in Callers \ {c} : mode'[d] = mode[d]
          /\ to = "activate" => mode'[c] = m
          /\ c \in pending'[Target[c]] /\ \A a \in Actors : pending[a] \subseteq pending'[a]
        BY <1>3, <2>1 DEF VirtualInv, VirtualTypeOK
    <2>6. bypassed \subseteq bypassed'
        BY <2>1
    <2> QED BY <1>1, <1>2, <2>1, <2>2, <2>3, <2>4, <2>5, <2>6, MoveStep DEF Activating
<1> QED BY <1>4, <1>5

(***************************************************************************)
(* activate_virtual_actor(): the call goes on when no instance runs.       *)
(***************************************************************************)
LEMMA ActivateSteps ==
    ASSUME VirtualInv, NEW c \in Callers, Activate(c) \/ MarkActivated(c)
    PROVE  VirtualInv'
<1> USE DEF CallStep
<1>1. /\ UNCHANGED <<mode, seen, inst, reg, facet, guard, pending, victims, stopAt, mailed, lost, refused,
                     bypassed, spawnFaults>>
      /\ Target[c] \in Actors
    BY VirtualAssumption DEF Activate, MarkActivated
<1>2. tracked' \in Seq(Actors) /\ Distinct(tracked)'
    <2>1. tracked \in Seq(Actors) /\ Distinct(tracked)
        BY DEF VirtualInv, VirtualTypeOK, VictimsInTurn
    <2>2. CASE UNCHANGED tracked
        BY <2>1, <2>2 DEF Distinct
    <2>3. CASE Tracks(Target[c])
        BY <1>1, <2>1, <2>3, TracksDistinct
    <2> QED BY <2>2, <2>3 DEF Activate, MarkActivated
<1>3. PICK to \in {"done", "evict", "take", "takeAgain"} :
        /\ at' = [at EXCEPT ![c] = to] /\ at[c] \in {"activate", "mark", "markAgain"}
        /\ to = "evict" => ~IsActive(Target[c])
    BY DEF Activate, MarkActivated
<1>4. to \in Places
    BY DEF Places
<1>5. VirtualTypeOK'
    BY <1>1, <1>2, <1>3, <1>4 DEF VirtualInv, VirtualTypeOK
<1>6. stopAt[c] = "idle" /\ at'[c] = to
    BY <1>3, NotEvicting DEF VirtualInv, VirtualTypeOK
<1>7. /\ mode[c] # "sender" => c \in mailed \union lost \union refused \union pending[Target[c]]
      /\ mode[c] # "guard" => Target[c] \in bypassed
    BY <1>3 DEF VirtualInv, AcceptedIsSomewhere, RunningIsFound, Activating
<1>8. to = "evict" /\ Target[c] \notin bypassed => Running(Target[c]) = {}
    <2> SUFFICES ASSUME to = "evict", Target[c] \notin bypassed, NEW d \in Running(Target[c]) PROVE FALSE
        OBVIOUS
    <2>1. reg[Target[c]] = d /\ d \in Callers /\ inst[d] = "running"
        BY <1>1 DEF VirtualInv, RunningIsFound, Running
    <2> QED BY <1>3, <2>1, VirtualAssumption DEF IsActive
<1> QED BY <1>1, <1>2, <1>3, <1>4, <1>5, <1>6, <1>7, <1>8, MoveStep DEF Activating

(***************************************************************************)
(* try_acquire_activation(): a free entry has no owner yet.                *)
(***************************************************************************)
LEMMA ClaimStep ==
    ASSUME VirtualInv, NEW c \in Callers, Claim(c)
    PROVE  VirtualInv'
<1> USE DEF CallStep
<1>1. /\ UNCHANGED <<mode, seen, inst, reg, facet, pending, tracked, victims, stopAt, mailed, lost, refused,
                     bypassed, spawnFaults>>
      /\ Target[c] \in Actors /\ at[c] = "claim" /\ "won" \in Places /\ "lost" \in Places
    BY VirtualAssumption DEF Claim, Places
<1>2. Distinct(tracked)'
    BY <1>1 DEF VirtualInv, VictimsInTurn, Distinct
<1>3. stopAt[c] = "idle" /\ Range(victims[c]) = {}
    BY <1>1, NotEvicting
<1>4. CASE guard[Target[c]] # NoOne
    <2>1. at' = [at EXCEPT ![c] = "lost"] /\ UNCHANGED guard
        BY <1>4 DEF Claim
    <2>2. VirtualTypeOK' /\ at'[c] = "lost"
        BY <1>1, <2>1 DEF VirtualInv, VirtualTypeOK
    <2> QED BY <1>1, <1>2, <1>3, <1>4, <2>1, <2>2, MoveStep DEF Activating
<1>5. CASE guard[Target[c]] = NoOne
    <2>1. at' = [at EXCEPT ![c] = "won"] /\ guard' = [guard EXCEPT ![Target[c]] = c]
        BY <1>5 DEF Claim
    <2>2. /\ VirtualTypeOK' /\ at'[c] = "won" /\ \A d \in Callers \ {c} : at'[d] = at[d]
          /\ guard'[Target[c]] = c /\ \A a \in Actors \ {Target[c]} : guard'[a] = guard[a]
        BY <1>1, <2>1 DEF VirtualInv, VirtualTypeOK
    <2>3. EntryHasOneOwner'
        <3> SUFFICES ASSUME NEW a \in Actors, NEW d \in Callers PROVE (Guarded(d, a) <=> guard[a] = d)'
            BY DEF EntryHasOneOwner
        <3>1. Guarded(d, a) <=> guard[a] = d
            BY DEF VirtualInv, EntryHasOneOwner
        <3>2. CASE d = c
            BY <1>1, <1>3, <1>5, <2>2, <3>1, <3>2 DEF Guarded, Activating
        <3>3. CASE d # c
            <4>1. Guarded(d, a)' <=> Guarded(d, a)
                BY <1>1, <2>2, <3>3 DEF Guarded
            <4> QED BY <1>5, <2>2, <3>1, <3>3, <4>1, VirtualAssumption
        <3> QED BY <3>2, <3>3
    <2>4. WaitersHaveAWinner'
        BY <1>1, <2>2, VirtualAssumption DEF VirtualInv, WaitersHaveAWinner
    <2>5. AcceptedIsSomewhere'
        BY <1>1, <2>2 DEF VirtualInv, AcceptedIsSomewhere, Activating
    <2>6. RegisteredIsOurs' /\ SingleBehindEntry'
        BY <1>1 DEF VirtualInv, RegisteredIsOurs, SingleBehindEntry, Running
    <2>7. RunningIsFound'
        BY <1>1, <2>2 DEF VirtualInv, RunningIsFound, Running, Activating
    <2>8. VictimsInTurn'
        BY <1>1, <1>2, <1>3, <2>2 DEF VirtualInv, VictimsInTurn, Distinct
    <2> QED BY <2>2, <2>3, <2>4, <2>5, <2>6, <2>7, <2>8 DEF VirtualInv
<1> QED BY <1>4, <1>5

(***************************************************************************)
(* notify_waiters() moves those that have the Notify of the entry.         *)
(***************************************************************************)
LEMMA WokenFacts ==
    ASSUME VirtualInv, NEW a \in Actors
    PROVE  /\ Woken(a) \in [Callers -> Places]
           /\ \A d \in Callers :
                /\ Woken(a)[d] \notin {"lost", "waiting", "loop", "late"} => at[d] = Woken(a)[d]
                /\ at[d] \notin {"lost", "waiting"} => Woken(a)[d] = at[d]
                /\ at[d] \in {"lost", "waiting"} => Woken(a)[d] \in {"lost", "waiting", "loop", "late"}
                /\ Woken(a)[d] \in {"lost", "waiting"} => Target[d] # a /\ at[d] = Woken(a)[d]
<1>1. at \in [Callers -> Places] /\ {"lost", "waiting", "loop", "late"} \subseteq Places
    BY DEF VirtualInv, VirtualTypeOK, Places
<1>2. \A d \in Callers : Woken(a)[d] = CASE Target[d] = a /\ at[d] = "waiting" -> "loop"
                                         [] Target[d] = a /\ at[d] = "lost"    -> "late"
                                         [] OTHER -> at[d]
    BY DEF Woken
<1>3. ASSUME NEW d \in Callers
      PROVE  \/ Target[d] = a /\ at[d] = "waiting" /\ Woken(a)[d] = "loop"
             \/ Target[d] = a /\ at[d] = "lost" /\ Woken(a)[d] = "late"
             \/ ~(Target[d] = a /\ at[d] \in {"waiting", "lost"}) /\ Woken(a)[d] = at[d]
    BY <1>2
<1>4. Woken(a) \in [Callers -> Places]
    BY <1>1, <1>3 DEF Woken
<1> QED BY <1>3, <1>4

(***************************************************************************)
(* The owner of an entry lets it go: what only the entry and the waiting   *)
(* calls are about stays as it was.                                        *)
(***************************************************************************)
LEMMA ReleaseStep ==
    ASSUME VirtualInv, VirtualTypeOK', NEW c \in Callers, NEW a \in Actors, NEW to \in Places,
           guard[a] = c, guard' = [guard EXCEPT ![a] = NoOne],
           at' = [Woken(a) EXCEPT ![c] = to],
           UNCHANGED <<mode, inst, reg, pending, tracked, mailed, lost, refused, bypassed>>,
           \A d \in Callers \ {c} : victims'[d] = victims[d] /\ stopAt'[d] = stopAt[d],
           \A b \in Actors : Guarded(c, b)' <=> b # a /\ Guarded(c, b),
           to \notin {"lost", "waiting"},
           to = "ok" \/ (to \in Activating /\ mode[c] # "sender")
               => c \in mailed \union lost \union refused \union pending[Target[c]],
           to \in Activating => at[c] \in Activating,
           to \in {"evict", "metadata", "spawn"} => at[c] = "evict",
           VictimsInTurn'
    PROVE  VirtualInv'
<1>1. /\ at'[c] = to
      /\ \A d \in Callers \ {c} : at'[d] = Woken(a)[d]
      /\ guard'[a] = NoOne /\ \A b \in Actors \ {a} : guard'[b] = guard[b]
      /\ \A d \in Callers : Target[d] \in Actors
    <2>1. at'[c] = to /\ \A d \in Callers \ {c} : at'[d] = Woken(a)[d]
        BY WokenFacts
    <2>2. guard'[a] = NoOne /\ \A b \in Actors \ {a} : guard'[b] = guard[b]
        BY DEF VirtualInv, VirtualTypeOK
    <2> QED BY <2>1, <2>2, VirtualAssumption
<1>2. EntryHasOneOwner'
    <2> SUFFICES ASSUME NEW b \in Actors, NEW d \in Callers PROVE (Guarded(d, b) <=> guard[b] = d)'
        BY DEF EntryHasOneOwner
    <2>1. (Guarded(d, b) <=> guard[b] = d) /\ d # NoOne
        BY VirtualAssumption DEF VirtualInv, EntryHasOneOwner
    <2>2. CASE d = c
        BY <1>1, <2>1, <2>2
    <2>3. CASE d # c
        <3>1. Guarded(d, b)' <=> Guarded(d, b)
            BY <1>1, <2>3, WokenFacts DEF Guarded, Activating
        <3> QED BY <1>1, <2>1, <2>3, <3>1
    <2> QED BY <2>2, <2>3
<1>3. WaitersHaveAWinner'
    BY <1>1, WokenFacts DEF VirtualInv, WaitersHaveAWinner
<1>4. AcceptedIsSomewhere'
    <2> SUFFICES ASSUME NEW d \in Callers,
                        at'[d] = "ok" \/ (at'[d] \in Activating /\ mode'[d] # "sender")
                 PROVE  d \in mailed \union lost \union refused \union pending[Target[d]]
        BY DEF AcceptedIsSomewhere
    <2>1. CASE d = c
        BY <1>1, <2>1
    <2>2. CASE d # c
        <3>1. at[d] = at'[d]
            BY <1>1, <2>2, WokenFacts DEF Activating
        <3> QED BY <3>1 DEF VirtualInv, AcceptedIsSomewhere
    <2> QED BY <2>1, <2>2
<1>5. RegisteredIsOurs' /\ SingleBehindEntry'
    BY DEF VirtualInv, RegisteredIsOurs, SingleBehindEntry, Running
<1>6. RunningIsFound'
    <2>1. \A b \in Actors : Running(b)' = Running(b)
        BY DEF Running
    <2>2. \A b \in Actors \ bypassed : \A d \in Running(b) : reg[b] = d
        BY DEF VirtualInv, RunningIsFound
    <2>3. ASSUME NEW d \in Callers
          PROVE  /\ at'[d] \in Activating /\ mode[d] # "guard" => Target[d] \in bypassed
                 /\ at'[d] \in {"evict", "metadata", "spawn"} /\ Target[d] \notin bypassed
                       => Running(Target[d]) = {}
        <3>1. CASE d = c
            BY <1>1, <3>1 DEF VirtualInv, RunningIsFound
        <3>2. CASE d # c
            <4>1. at'[d] \in Activating => at[d] = at'[d]
                BY <1>1, <3>2, WokenFacts DEF Activating
            <4> QED BY <4>1 DEF VirtualInv, RunningIsFound, Activating
        <3> QED BY <3>1, <3>2
    <2> QED BY <1>1, <2>1, <2>2, <2>3 DEF RunningIsFound
<1> QED BY <1>2, <1>3, <1>4, <1>5, <1>6 DEF VirtualInv

(***************************************************************************)
(* The end of an activation, with success or without.                      *)
(***************************************************************************)
LEMMA ReturnStep ==
    ASSUME VirtualInv, NEW c \in Callers, SpawnFails(c) \/ Dispatched(c)
    PROVE  VirtualInv'
<1>1. PICK r \in {"ok", "err", "sender"} :
        /\ CallReturns(c, r) /\ at[c] \in {"metadata", "spawn", "done"}
        /\ r = "ok" => mode[c] # "sender"
    BY DEF SpawnFails, Dispatched
<1>2. /\ UNCHANGED <<mode, seen, inst, reg, facet, pending, tracked, victims, stopAt, mailed, lost, refused, bypassed>>
      /\ Target[c] \in Actors /\ r \in Places
    BY VirtualAssumption DEF SpawnFails, Dispatched, Places, Answers
<1>3. spawnFaults' \in 0..MaxSpawnFaults
    BY VirtualAssumption DEF SpawnFails, Dispatched, VirtualInv, VirtualTypeOK
<1>4. stopAt[c] = "idle" /\ Range(victims[c]) = {}
    BY <1>1, NotEvicting
<1>5. r = "ok" => c \in mailed \union lost \union refused \union pending[Target[c]]
    BY <1>1 DEF VirtualInv, AcceptedIsSomewhere, Activating
<1>6. CASE mode[c] = "guard"
    <2>1. guard' = [guard EXCEPT ![Target[c]] = NoOne] /\ at' = [Woken(Target[c]) EXCEPT ![c] = r]
        BY <1>1, <1>6 DEF CallReturns, Release
    <2>2. VirtualTypeOK'
        BY <1>2, <1>3, <2>1, WokenFacts DEF VirtualInv, VirtualTypeOK
    <2>3. /\ guard[Target[c]] = c
          /\ \A b \in Actors : Guarded(c, b) <=> b = Target[c]
        BY <1>1, <1>2, <1>4, <1>6 DEF VirtualInv, EntryHasOneOwner, Guarded, Activating
    <2>4. at'[c] = r /\ \A d \in Callers \ {c} : at'[d] = Woken(Target[c])[d]
        BY <2>1, <1>2, WokenFacts
    <2>5. \A b \in Actors : ~Guarded(c, b)'
        BY <1>2, <1>4, <2>4 DEF Guarded, Activating
    <2>6. VictimsInTurn'
        <3>1. \A d \in Callers : /\ at'[d] = "evict" => at[d] = "evict"
                                 /\ at[d] = "evict" => at'[d] = "evict"
            BY <1>1, <1>2, <2>4, WokenFacts
        <3> QED BY <1>2, <3>1 DEF VirtualInv, VictimsInTurn, Distinct
    <2> QED BY <1>2, <1>5, <2>1, <2>2, <2>3, <2>5, <2>6, ReleaseStep DEF Activating
<1>7. CASE mode[c] # "guard"
    <2>1. at' = [at EXCEPT ![c] = r] /\ UNCHANGED guard
        BY <1>1, <1>7 DEF CallReturns
    <2>2. VirtualTypeOK' /\ at'[c] = r
        BY <1>2, <1>3, <2>1 DEF VirtualInv, VirtualTypeOK
    <2>3. Distinct(tracked)'
        BY <1>2 DEF VirtualInv, VictimsInTurn, Distinct
    <2> QED BY <1>1, <1>2, <1>4, <1>5, <1>7, <2>1, <2>2, <2>3, MoveStep DEF Activating
<1> QED BY <1>6, <1>7

(***************************************************************************)
(* The first of a list and the others.                                     *)
(***************************************************************************)
LEMMA FirstAndRest ==
    ASSUME NEW s \in Seq(Actors), s # <<>>
    PROVE  /\ Head(s) \in Actors /\ Tail(s) \in Seq(Actors) /\ Head(s) \in Range(s)
           /\ Range(s) = {Head(s)} \union Range(Tail(s))
           /\ Distinct(s) => Distinct(Tail(s)) /\ Head(s) \notin Range(Tail(s))
<1>1. /\ Len(s) \in Nat /\ Len(s) > 0 /\ Head(s) = s[1] /\ Tail(s) \in Seq(Actors)
      /\ Len(Tail(s)) = Len(s) - 1 /\ \A k \in 1..Len(Tail(s)) : Tail(s)[k] = s[k + 1]
    BY HeadTailProperties, LenProperties, EmptySeq
<1>0. /\ \A b : b \in Range(s) <=> \E k \in 1..Len(s) : s[k] = b
      /\ \A b : b \in Range(Tail(s)) <=> \E k \in 1..Len(Tail(s)) : Tail(s)[k] = b
    BY <1>1, RangeIs
<1>2. Range(s) = {Head(s)} \union Range(Tail(s))
    <2>1. ASSUME NEW k \in 1..Len(s) PROVE s[k] = s[1] \/ \E j \in 1..Len(Tail(s)) : Tail(s)[j] = s[k]
        <3>1. CASE k = 1
            BY <3>1
        <3>2. CASE k # 1
            <4>1. k - 1 \in 1..Len(Tail(s)) /\ (k - 1) + 1 = k
                BY <1>1, <3>2
            <4> QED BY <1>1, <4>1
        <3> QED BY <3>1, <3>2
    <2>2. ASSUME NEW k \in 1..Len(Tail(s)) PROVE \E j \in 1..Len(s) : s[j] = Tail(s)[k]
        <3>1. k + 1 \in 1..Len(s)
            BY <1>1
        <3> QED BY <1>1, <3>1
    <2>3. 1 \in 1..Len(s)
        BY <1>1
    <2>4. \A b : b \in Range(s) <=> b = Head(s) \/ b \in Range(Tail(s))
        BY <1>0, <1>1, <2>1, <2>2, <2>3
    <2> QED BY <2>4
<1>3. ASSUME Distinct(s) PROVE Distinct(Tail(s)) /\ Head(s) \notin Range(Tail(s))
    <2>1. \A k \in 1..Len(Tail(s)) : k + 1 \in 1..Len(s) /\ k + 1 # 1 /\ k \in Nat
        BY <1>1
    <2>2. 1 \in 1..Len(s)
        BY <1>1
    <2>3. Head(s) \notin Range(Tail(s))
        <3> SUFFICES ASSUME NEW k \in 1..Len(Tail(s)), Tail(s)[k] = s[1] PROVE FALSE
            BY <1>0, <1>1
        <3> QED BY <1>1, <1>3, <2>1, <2>2 DEF Distinct
    <2>4. ASSUME NEW i \in 1..Len(Tail(s)), NEW j \in 1..Len(Tail(s)), Tail(s)[i] = Tail(s)[j] PROVE i = j
        <3>1. i + 1 = j + 1
            BY <1>1, <1>3, <2>1, <2>4 DEF Distinct
        <3> QED BY <2>1, <3>1
    <2> QED BY <2>3, <2>4 DEF Distinct
<1> QED BY <1>1, <1>2, <1>3, HeadTailProperties

(***************************************************************************)
(* An eviction releases the entry of the victim that was stopped.          *)
(***************************************************************************)
LEMMA StopReturnsStep ==
    ASSUME VirtualInv, NEW c \in Callers, StopReturns(c)
    PROVE  VirtualInv'
<1> DEFINE a == Head(victims[c])
           rest == Tail(victims[c])
           to == IF rest = <<>> THEN "metadata" ELSE "evict"
<1>1. /\ stopAt[c] = "done" /\ at[c] = "evict" /\ victims[c] # <<>> /\ victims[c] \in Seq(Actors)
      /\ Distinct(victims[c])
      /\ mode[c] = "guard" => Target[c] \notin Range(victims[c])
    BY DEF StopReturns, VirtualInv, VirtualTypeOK, VictimsInTurn, Stoppers
<1>2. /\ a \in Actors /\ rest \in Seq(Actors) /\ a \in Range(victims[c])
      /\ Range(victims[c]) = {a} \union Range(rest) /\ Distinct(rest) /\ a \notin Range(rest)
    BY <1>1, FirstAndRest
<1>3. /\ guard' = [guard EXCEPT ![a] = NoOne]
      /\ victims' = [victims EXCEPT ![c] = rest]
      /\ stopAt' = [stopAt EXCEPT ![c] = IF rest = <<>> THEN "idle" ELSE "stop"]
      /\ at' = IF rest = <<>> THEN [Woken(a) EXCEPT ![c] = "metadata"] ELSE Woken(a)
      /\ UNCHANGED <<mode, seen, inst, reg, facet, pending, tracked, mailed, lost, refused, bypassed, spawnFaults>>
    BY DEF StopReturns, Release
<1>4. to \in Places /\ to \in Activating /\ to \in {"evict", "metadata"}
    BY DEF Places, Activating
<1>5. guard[a] = c
    BY <1>2 DEF VirtualInv, EntryHasOneOwner, Guarded
<1> HIDE DEF a, rest
<1>6. at' = [Woken(a) EXCEPT ![c] = to]
    <2>1. Woken(a)[c] = "evict" /\ Woken(a) \in [Callers -> Places]
        BY <1>1, <1>2, WokenFacts
    <2> QED BY <1>3, <2>1
<1> HIDE DEF to
<1>7. /\ victims'[c] = rest /\ stopAt'[c] = (IF rest = <<>> THEN "idle" ELSE "stop")
      /\ \A d \in Stoppers \ {c} : victims'[d] = victims[d] /\ stopAt'[d] = stopAt[d]
      /\ c \in Stoppers
    BY <1>3 DEF VirtualInv, VirtualTypeOK, Stoppers
<1>8. at'[c] = to /\ \A d \in Callers \ {c} : at'[d] = Woken(a)[d]
    BY <1>2, <1>4, <1>6, WokenFacts
<1>9. VirtualTypeOK'
    <2>1. at' \in [Callers -> Places]
        BY <1>2, <1>4, <1>6, WokenFacts
    <2>2. /\ guard' \in [Actors -> Callers \union {NoOne}]
          /\ victims' \in [Stoppers -> Seq(Actors)]
          /\ stopAt' \in [Stoppers -> {"idle", "stop", "unregister", "facet", "done"}]
        BY <1>2, <1>3 DEF VirtualInv, VirtualTypeOK
    <2> QED BY <1>3, <2>1, <2>2 DEF VirtualInv, VirtualTypeOK
<1>10. ASSUME NEW b \in Actors PROVE Guarded(c, b)' <=> b # a /\ Guarded(c, b)
    <2>1. mode[c] = "guard" => Target[c] # a
        BY <1>1, <1>2
    <2>2. at[c] \in Activating /\ at[c] # "won" /\ to # "won"
        BY <1>1, <1>4 DEF Activating
    <2> QED BY <1>2, <1>3, <1>4, <1>7, <1>8, <2>1, <2>2 DEF Guarded
<1>11. VictimsInTurn'
    <2>1. ASSUME NEW d \in Callers
          PROVE  /\ Distinct(victims'[d])
                 /\ stopAt'[d] = "idle" => victims'[d] = <<>>
                 /\ stopAt'[d] # "idle" => at'[d] = "evict"
                 /\ at'[d] = "evict" /\ mode'[d] = "guard" => Target[d] \notin Range(victims'[d])
        <3>1. CASE d = c
            BY <1>1, <1>2, <1>3, <1>7, <1>8, <3>1 DEF to
        <3>2. CASE d # c
            <4>1. victims'[d] = victims[d] /\ stopAt'[d] = stopAt[d] /\ (at'[d] = "evict" <=> at[d] = "evict")
                BY <1>2, <1>7, <1>8, <3>2, WokenFacts DEF Stoppers
            <4> QED BY <1>3, <4>1 DEF VirtualInv, VictimsInTurn
        <3> QED BY <3>1, <3>2
    <2>2. \A p \in Stoppers : stopAt'[p] # "idle" => victims'[p] # <<>>
        BY <1>7 DEF VirtualInv, VictimsInTurn
    <2>3. Distinct(tracked)' /\ \A d \in Callers : Distinct(victims[d])'
        BY <1>3, <2>1 DEF VirtualInv, VictimsInTurn, Distinct
    <2> QED BY <2>1, <2>2, <2>3 DEF VictimsInTurn
<1>12. mode[c] # "sender" => c \in mailed \union lost \union refused \union pending[Target[c]]
    BY <1>1 DEF VirtualInv, AcceptedIsSomewhere, Activating
<1>13. at[c] \in Activating
    BY <1>1 DEF Activating
<1>14. \A d \in Callers \ {c} : victims'[d] = victims[d] /\ stopAt'[d] = stopAt[d]
    BY <1>7 DEF Stoppers
<1> QED BY <1>1, <1>2, <1>3, <1>4, <1>5, <1>6, <1>9, <1>10, <1>11, <1>12, <1>13, <1>14, ReleaseStep

(***************************************************************************)
(* Two lists without common members, one after the other.                  *)
(***************************************************************************)
LEMMA ConcatDistinct ==
    ASSUME NEW s \in Seq(Actors), NEW t \in Seq(Actors), Distinct(s), Distinct(t),
           \A i \in 1..Len(s), j \in 1..Len(t) : s[i] # t[j]
    PROVE  s \o t \in Seq(Actors) /\ Distinct(s \o t)
<1>1. /\ s \o t \in Seq(Actors) /\ Len(s \o t) = Len(s) + Len(t) /\ Len(s) \in Nat /\ Len(t) \in Nat
      /\ \A i \in 1..Len(s) + Len(t) :
            (s \o t)[i] = IF i <= Len(s) THEN s[i] ELSE t[i - Len(s)]
    BY ConcatProperties, LenProperties
<1>2. ASSUME NEW i \in 1..Len(s) + Len(t), NEW j \in 1..Len(s) + Len(t), (s \o t)[i] = (s \o t)[j]
      PROVE  i = j
    <2>0. i \in Nat /\ j \in Nat
        BY <1>1
    <2>1. CASE i <= Len(s) /\ j <= Len(s)
        <3>1. i \in 1..Len(s) /\ j \in 1..Len(s) /\ s[i] = s[j]
            BY <1>1, <1>2, <2>0, <2>1
        <3> QED BY <3>1 DEF Distinct
    <2>2. CASE ~(i <= Len(s)) /\ ~(j <= Len(s))
        <3>1. i - Len(s) \in 1..Len(t) /\ j - Len(s) \in 1..Len(t) /\ t[i - Len(s)] = t[j - Len(s)]
            BY <1>1, <1>2, <2>0, <2>2
        <3>2. i - Len(s) = j - Len(s)
            BY <3>1 DEF Distinct
        <3> QED BY <1>1, <2>0, <3>2
    <2>3. CASE i <= Len(s) /\ ~(j <= Len(s))
        <3>1. i \in 1..Len(s) /\ j - Len(s) \in 1..Len(t) /\ s[i] = t[j - Len(s)]
            BY <1>1, <1>2, <2>0, <2>3
        <3> QED BY <3>1
    <2>4. CASE ~(i <= Len(s)) /\ j <= Len(s)
        <3>1. j \in 1..Len(s) /\ i - Len(s) \in 1..Len(t) /\ s[j] = t[i - Len(s)]
            BY <1>1, <1>2, <2>0, <2>4
        <3> QED BY <3>1
    <2> QED BY <2>1, <2>2, <2>3, <2>4
<1> QED BY <1>1, <1>2 DEF Distinct

(***************************************************************************)
(* evict_lru_if_needed() takes free entries only.                          *)
(***************************************************************************)
LEMMA EvictStep ==
    ASSUME VirtualInv, NEW c \in Callers, EvictLru(c)
    PROVE  VirtualInv'
<1>1. /\ stopAt[c] = "idle" /\ at[c] = "evict" /\ victims[c] = <<>>
      /\ Range(victims[c]) = {} /\ Target[c] \in Actors
      /\ tracked \in Seq(Actors) /\ Distinct(tracked)
      /\ UNCHANGED <<mode, seen, inst, reg, facet, pending, mailed, lost, refused, bypassed, spawnFaults>>
    BY RangeIs, VirtualAssumption DEF EvictLru, VirtualInv, VirtualTypeOK, VictimsInTurn, Stoppers
<1>2. /\ mode[c] # "sender" => c \in mailed \union lost \union refused \union pending[Target[c]]
      /\ mode[c] # "guard" => Target[c] \in bypassed
      /\ Target[c] \notin bypassed => Running(Target[c]) = {}
    BY <1>1 DEF VirtualInv, AcceptedIsSomewhere, RunningIsFound, Activating
<1>3. PICK live \in Filtered(tracked, {a \in Actors : IsActive(a)}) :
        IF Len(live) < MaxPool
         THEN /\ at' = [at EXCEPT ![c] = "metadata"] /\ tracked' = live
              /\ UNCHANGED <<victims, stopAt, guard>>
         ELSE \E free \in Filtered(SubSeq(live, 1, Len(live) - (MaxPool - 1)), {a \in Actors : guard[a] = NoOne}),
                 kept \in Filtered(SubSeq(live, 1, Len(live) - (MaxPool - 1)), {a \in Actors : guard[a] # NoOne}),
                 rest \in Filtered(tracked, Actors \ Range(SubSeq(live, 1, Len(live) - (MaxPool - 1)))) :
              /\ tracked' = rest \o kept
              /\ guard' = [a \in Actors |-> IF a \in Range(free) THEN c ELSE guard[a]]
              /\ victims' = [victims EXCEPT ![c] = free]
              /\ stopAt' = [stopAt EXCEPT ![c] = IF free = <<>> THEN @ ELSE "stop"]
              /\ at' = IF free = <<>> THEN [at EXCEPT ![c] = "metadata"] ELSE at
    BY DEF EvictLru
<1>4. live \in Seq(Actors) /\ Distinct(live)
    <2>1. {a \in Actors : IsActive(a)} \in SUBSET Actors
        OBVIOUS
    <2> QED BY <1>1, <2>1, FilterFacts
<1>5. "metadata" \in Places /\ "metadata" \in Activating
    BY DEF Places, Activating
<1>6. CASE Len(live) < MaxPool
    <2>1. /\ at' = [at EXCEPT ![c] = "metadata"] /\ tracked' = live
          /\ UNCHANGED <<victims, stopAt, guard>>
        BY <1>3, <1>6
    <2>2. VirtualTypeOK' /\ at'[c] = "metadata"
        BY <1>1, <1>4, <1>5, <2>1 DEF VirtualInv, VirtualTypeOK
    <2>3. Distinct(tracked)'
        BY <1>4, <2>1 DEF Distinct
    <2> QED BY <1>1, <1>2, <1>5, <2>1, <2>2, <2>3, MoveStep DEF Activating
<1>7. CASE ~(Len(live) < MaxPool)
    <2> DEFINE old == SubSeq(live, 1, Len(live) - (MaxPool - 1))
    <2>1. PICK free \in Filtered(old, {a \in Actors : guard[a] = NoOne}),
                 kept \in Filtered(old, {a \in Actors : guard[a] # NoOne}),
                 rest \in Filtered(tracked, Actors \ Range(old)) :
              /\ tracked' = rest \o kept
              /\ guard' = [a \in Actors |-> IF a \in Range(free) THEN c ELSE guard[a]]
              /\ victims' = [victims EXCEPT ![c] = free]
              /\ stopAt' = [stopAt EXCEPT ![c] = IF free = <<>> THEN @ ELSE "stop"]
              /\ at' = IF free = <<>> THEN [at EXCEPT ![c] = "metadata"] ELSE at
        BY <1>3, <1>7
    <2>2. old \in Seq(Actors) /\ Distinct(old)
        <3> DEFINE n == Len(live) - (MaxPool - 1)
        <3>1. Len(live) \in Nat /\ n \in Int /\ n <= Len(live) /\ n >= 1 /\ 1 \in Int
            BY <1>4, <1>7, LenProperties, VirtualAssumption
        <3>2. \A i \in 1..n : i \in 1..Len(live) /\ live[i] \in Actors
            BY <1>4, <3>1, ElementOfSeq
        <3> HIDE DEF n
        <3>3. /\ SubSeq(live, 1, n) \in Seq(Actors)
              /\ Len(SubSeq(live, 1, n)) = IF 1 <= n THEN n - 1 + 1 ELSE 0
              /\ \A i \in 1..n - 1 + 1 : SubSeq(live, 1, n)[i] = live[1 + i - 1]
            BY <3>1, <3>2, SubSeqProperties
        <3>4. Len(SubSeq(live, 1, n)) = n /\ \A i \in 1..n : SubSeq(live, 1, n)[i] = live[i]
            BY <3>1, <3>3
        <3>5. Distinct(SubSeq(live, 1, n))
            BY <1>4, <3>2, <3>4 DEF Distinct
        <3> QED BY <3>3, <3>5 DEF n
    <2> HIDE DEF old
    <2>3. /\ free \in Seq(Actors) /\ Distinct(free) /\ \A k \in 1..Len(free) : guard[free[k]] = NoOne
          /\ kept \in Seq(Actors) /\ Distinct(kept)
          /\ \A k \in 1..Len(kept) : \E i \in 1..Len(old) : kept[k] = old[i]
        <3>1. {a \in Actors : guard[a] = NoOne} \in SUBSET Actors /\ {a \in Actors : guard[a] # NoOne} \in SUBSET Actors
            OBVIOUS
        <3> QED BY <2>1, <2>2, <3>1, FilterFacts
    <2>4. rest \in Seq(Actors) /\ Distinct(rest) /\ \A k \in 1..Len(rest) : rest[k] \notin Range(old)
        <3> DEFINE other == Actors \ Range(old)
        <3>1. other \in SUBSET Actors /\ rest \in Filtered(tracked, other)
            BY <2>1
        <3>2. \A a \in other : a \notin Range(old)
            OBVIOUS
        <3> HIDE DEF other
        <3>3. /\ rest \in Seq(Actors) /\ Distinct(rest)
              /\ \A k \in 1..Len(rest) : rest[k] \in other
            BY <1>1, <3>1, FilterFacts
        <3> QED BY <3>2, <3>3
    <2>5. tracked' \in Seq(Actors) /\ Distinct(tracked)'
        <3>1. \A i \in 1..Len(rest), j \in 1..Len(kept) : rest[i] # kept[j]
            BY <2>2, <2>3, <2>4, RangeIs
        <3>2. rest \o kept \in Seq(Actors) /\ Distinct(rest \o kept)
            BY <2>3, <2>4, <3>1, ConcatDistinct
        <3> QED BY <2>1, <3>2 DEF Distinct
    <2>6. /\ \A a \in Range(free) : a \in Actors /\ guard[a] = NoOne
          /\ free = <<>> => Range(free) = {}
        BY <2>3, RangeIs
    <2>7. /\ victims'[c] = free /\ stopAt'[c] = (IF free = <<>> THEN "idle" ELSE "stop")
          /\ at'[c] = (IF free = <<>> THEN "metadata" ELSE "evict")
          /\ \A d \in Stoppers \ {c} : victims'[d] = victims[d] /\ stopAt'[d] = stopAt[d]
          /\ \A d \in Callers \ {c} : at'[d] = at[d] /\ d \in Stoppers /\ d # c
          /\ \A a \in Actors : guard'[a] = IF a \in Range(free) THEN c ELSE guard[a]
        BY <1>1, <2>1 DEF VirtualInv, VirtualTypeOK, Stoppers
    <2>8. VirtualTypeOK'
        <3>1. at' \in [Callers -> Places]
            BY <1>5, <2>1 DEF VirtualInv, VirtualTypeOK
        <3>2. /\ guard' \in [Actors -> Callers \union {NoOne}]
              /\ victims' \in [Stoppers -> Seq(Actors)]
              /\ stopAt' \in [Stoppers -> {"idle", "stop", "unregister", "facet", "done"}]
            BY <2>1, <2>3 DEF VirtualInv, VirtualTypeOK
        <3> QED BY <1>1, <2>5, <3>1, <3>2 DEF VirtualInv, VirtualTypeOK
    <2>9. EntryHasOneOwner'
        <3> SUFFICES ASSUME NEW a \in Actors, NEW d \in Callers PROVE (Guarded(d, a) <=> guard[a] = d)'
            BY DEF EntryHasOneOwner
        <3>1. (Guarded(d, a) <=> guard[a] = d) /\ d # NoOne
            BY VirtualAssumption DEF VirtualInv, EntryHasOneOwner
        <3>2. CASE d = c
            <4>1. Guarded(c, a)' <=> Guarded(c, a) \/ a \in Range(free)
                BY <1>1, <2>7 DEF Guarded, Activating
            <4> QED BY <2>7, <3>1, <3>2, <4>1
        <3>3. CASE d # c
            <4>1. Guarded(d, a)' <=> Guarded(d, a)
                BY <1>1, <2>7, <3>3 DEF Guarded
            <4> QED BY <2>6, <2>7, <3>1, <3>3, <4>1
        <3> QED BY <3>2, <3>3
    <2>10. WaitersHaveAWinner'
        <3>1. \A d \in Callers : Target[d] \in Actors /\ c # NoOne
            BY VirtualAssumption
        <3> QED BY <2>7, <3>1 DEF VirtualInv, WaitersHaveAWinner
    <2>11. AcceptedIsSomewhere'
        BY <1>1, <1>2, <2>7 DEF VirtualInv, AcceptedIsSomewhere
    <2>12. RegisteredIsOurs' /\ SingleBehindEntry'
        BY <1>1 DEF VirtualInv, RegisteredIsOurs, SingleBehindEntry, Running
    <2>13. RunningIsFound'
        BY <1>1, <1>2, <2>7 DEF VirtualInv, RunningIsFound, Running
    <2>14. VictimsInTurn'
        <3>1. ASSUME NEW d \in Callers
              PROVE  /\ Distinct(victims'[d])
                     /\ stopAt'[d] = "idle" => victims'[d] = <<>>
                     /\ stopAt'[d] # "idle" => at'[d] = "evict"
                     /\ at'[d] = "evict" /\ mode'[d] = "guard" => Target[d] \notin Range(victims'[d])
            <4>1. CASE d = c
                <5>1. mode[c] = "guard" => guard[Target[c]] = c /\ c # NoOne
                    BY <1>1, VirtualAssumption DEF VirtualInv, EntryHasOneOwner, Guarded, Activating
                <5> QED BY <1>1, <2>3, <2>6, <2>7, <4>1, <5>1
            <4>2. CASE d # c
                BY <1>1, <2>7, <4>2 DEF VirtualInv, VictimsInTurn
            <4> QED BY <4>1, <4>2
        <3>2. \A p \in Stoppers : stopAt'[p] # "idle" => victims'[p] # <<>>
            BY <2>7 DEF VirtualInv, VictimsInTurn
        <3>3. \A d \in Callers : Distinct(victims[d])'
            BY <3>1 DEF Distinct
        <3> QED BY <2>5, <3>1, <3>2, <3>3 DEF VictimsInTurn
    <2> QED BY <2>8, <2>9, <2>10, <2>11, <2>12, <2>13, <2>14 DEF VirtualInv
<1> QED BY <1>6, <1>7

(***************************************************************************)
(* start(): behind the entry nobody else starts an instance.               *)
(***************************************************************************)
LEMMA StartStep ==
    ASSUME VirtualInv, NEW c \in Callers, StartInstance(c)
    PROVE  VirtualInv'
<1>1. /\ at[c] = "spawn" /\ at' = [at EXCEPT ![c] = "mark"] /\ "mark" \in Places
      /\ inst' = [inst EXCEPT ![c] = "running"] /\ reg' = [reg EXCEPT ![Target[c]] = c]
      /\ UNCHANGED <<mode, seen, facet, guard, pending, tracked, victims, stopAt, mailed, lost, refused,
                     bypassed, spawnFaults>>
      /\ Target[c] \in Actors /\ \A d \in Callers : Target[d] \in Actors /\ d # NoOne
    BY VirtualAssumption DEF StartInstance, CallStep, Places
<1>2. /\ at'[c] = "mark" /\ \A d \in Callers \ {c} : at'[d] = at[d]
      /\ inst'[c] = "running" /\ \A d \in Callers \ {c} : inst'[d] = inst[d]
      /\ reg'[Target[c]] = c /\ \A a \in Actors \ {Target[c]} : reg'[a] = reg[a]
      /\ VirtualTypeOK'
    BY <1>1 DEF VirtualInv, VirtualTypeOK
<1>3. EntryHasOneOwner'
    <2> SUFFICES ASSUME NEW a \in Actors, NEW d \in Callers PROVE (Guarded(d, a) <=> guard[a] = d)'
        BY DEF EntryHasOneOwner
    <2>1. Guarded(d, a)' <=> Guarded(d, a)
        BY <1>1, <1>2 DEF Guarded, Activating
    <2> QED BY <1>1, <2>1 DEF VirtualInv, EntryHasOneOwner
<1>4. WaitersHaveAWinner' /\ AcceptedIsSomewhere'
    BY <1>1, <1>2 DEF VirtualInv, WaitersHaveAWinner, AcceptedIsSomewhere, Activating
<1>5. RegisteredIsOurs'
    BY <1>1, <1>2 DEF VirtualInv, RegisteredIsOurs, VirtualTypeOK
<1>6. \A a \in Actors : Running(a)' = IF a = Target[c] THEN Running(a) \union {c} ELSE Running(a)
    BY <1>1, <1>2 DEF Running
<1>7. Target[c] \notin bypassed => Running(Target[c]) = {}
    BY <1>1 DEF VirtualInv, RunningIsFound
<1>8. SingleBehindEntry'
    BY <1>1, <1>6, <1>7 DEF VirtualInv, SingleBehindEntry
<1>9. RunningIsFound'
    <2>1. ASSUME NEW a \in Actors \ bypassed, NEW d \in Running(a)' PROVE reg'[a] = d
        BY <1>2, <1>6, <1>7, <2>1 DEF VirtualInv, RunningIsFound
    <2>2. ASSUME NEW d \in Callers
          PROVE  /\ at'[d] \in Activating /\ mode[d] # "guard" => Target[d] \in bypassed
                 /\ at'[d] \in {"evict", "metadata", "spawn"} /\ Target[d] \notin bypassed
                       => Running(Target[d])' = {}
        <3>1. CASE d = c
            BY <1>1, <1>2, <3>1 DEF VirtualInv, RunningIsFound, Activating
        <3>2. CASE d # c
            <4>1. at'[d] = at[d]
                BY <1>2, <3>2
            <4>2. at[d] \in {"evict", "metadata", "spawn"} /\ Target[d] \notin bypassed => Target[d] # Target[c]
                <5> SUFFICES ASSUME at[d] \in {"evict", "metadata", "spawn"}, Target[d] \notin bypassed,
                                    Target[d] = Target[c]
                             PROVE  FALSE
                    OBVIOUS
                <5>1. mode[d] = "guard" /\ mode[c] = "guard"
                    BY <1>1 DEF VirtualInv, RunningIsFound, Activating
                <5>2. guard[Target[c]] = d /\ guard[Target[c]] = c
                    BY <1>1, <5>1 DEF VirtualInv, EntryHasOneOwner, Guarded, Activating
                <5> QED BY <3>2, <5>2
            <4> QED BY <1>1, <1>6, <4>1, <4>2 DEF VirtualInv, RunningIsFound
        <3> QED BY <3>1, <3>2
    <2> QED BY <1>1, <2>1, <2>2 DEF RunningIsFound
<1>10. VictimsInTurn'
    <2>1. stopAt[c] = "idle"
        BY <1>1, NotEvicting
    <2> QED BY <1>1, <1>2, <2>1 DEF VirtualInv, VictimsInTurn, Distinct
<1> QED BY <1>2, <1>3, <1>4, <1>5, <1>8, <1>9, <1>10 DEF VirtualInv

(***************************************************************************)
(* take_pending_messages(): what was queued is handed to the instance or   *)
(* refused by it.                                                          *)
(***************************************************************************)
LEMMA TakeStep ==
    ASSUME VirtualInv, NEW c \in Callers, TakePending(c)
    PROVE  VirtualInv'
<1>1. PICK to \in {"markAgain", "done"} : at[c] \in {"take", "takeAgain"} /\ at' = [at EXCEPT ![c] = to]
    BY DEF TakePending, CallStep
<1>2. /\ UNCHANGED <<mode, seen, inst, reg, facet, guard, tracked, victims, stopAt, bypassed, spawnFaults>>
      /\ pending' = [pending EXCEPT ![Target[c]] = {}]
      /\ Target[c] \in Actors /\ to \in Places
    BY VirtualAssumption DEF TakePending, Places
<1>0. PICK denied \in SUBSET (pending[Target[c]] \intersect Deniable) :
        /\ refused' = refused \union denied
        /\ \/ mailed' = mailed \union (pending[Target[c]] \ denied) /\ UNCHANGED lost
           \/ lost' = lost \union (pending[Target[c]] \ denied) /\ UNCHANGED mailed
    BY DEF TakePending
<1>3. /\ mailed' \union lost' \union refused' = mailed \union lost \union refused \union pending[Target[c]]
      /\ mailed' \subseteq Callers /\ lost' \subseteq Callers /\ refused' \subseteq Callers
    BY <1>0, <1>2 DEF VirtualInv, VirtualTypeOK
<1>4. /\ at'[c] = to /\ \A d \in Callers \ {c} : at'[d] = at[d]
      /\ pending'[Target[c]] = {} /\ \A a \in Actors \ {Target[c]} : pending'[a] = pending[a]
      /\ VirtualTypeOK'
    BY <1>1, <1>2, <1>3 DEF VirtualInv, VirtualTypeOK
<1>5. EntryHasOneOwner'
    <2> SUFFICES ASSUME NEW a \in Actors, NEW d \in Callers PROVE (Guarded(d, a) <=> guard[a] = d)'
        BY DEF EntryHasOneOwner
    <2>1. Guarded(d, a)' <=> Guarded(d, a)
        BY <1>1, <1>2, <1>4 DEF Guarded, Activating
    <2> QED BY <1>2, <2>1 DEF VirtualInv, EntryHasOneOwner
<1>6. WaitersHaveAWinner'
    BY <1>2, <1>4 DEF VirtualInv, WaitersHaveAWinner
<1>7. AcceptedIsSomewhere'
    <2> SUFFICES ASSUME NEW d \in Callers,
                        at'[d] = "ok" \/ (at'[d] \in Activating /\ mode'[d] # "sender")
                 PROVE  d \in mailed' \union lost' \union refused' \union pending'[Target[d]]
        BY DEF AcceptedIsSomewhere
    <2>1. at[d] = "ok" \/ (at[d] \in Activating /\ mode[d] # "sender")
        BY <1>1, <1>2, <1>4 DEF Activating
    <2>2. d \in mailed \union lost \union refused \union pending[Target[d]] /\ Target[d] \in Actors
        BY <2>1, VirtualAssumption DEF VirtualInv, AcceptedIsSomewhere
    <2> QED BY <1>3, <1>4, <2>2
<1>8. RegisteredIsOurs' /\ SingleBehindEntry'
    BY <1>2 DEF VirtualInv, RegisteredIsOurs, SingleBehindEntry, Running
<1>9. RunningIsFound'
    BY <1>1, <1>2, <1>4 DEF VirtualInv, RunningIsFound, Running, Activating
<1>10. VictimsInTurn'
    <2>1. stopAt[c] = "idle"
        BY <1>1, NotEvicting
    <2> QED BY <1>1, <1>2, <1>4, <2>1 DEF VirtualInv, VictimsInTurn, Distinct
<1> QED BY <1>4, <1>5, <1>6, <1>7, <1>8, <1>9, <1>10 DEF VirtualInv

(***************************************************************************)
(* stop_actor(), of an eviction or of an operator: instances only end, and *)
(* an entry of the registry that goes is that of no running instance,      *)
(* unless the actor counts as bypassed from then on.                       *)
(***************************************************************************)
LEMMA StopSteps ==
    ASSUME VirtualInv, NEW p \in Stoppers,
           StopInstance(p) \/ Unregister(p) \/ MarkDeactivated(p)
    PROVE  VirtualInv'
<1> DEFINE a == Head(victims[p])
<1>1. stopAt[p] # "idle" /\ victims[p] # <<>> /\ victims[p] \in Seq(Actors) /\ tracked \in Seq(Actors)
    BY DEF StopInstance, Unregister, MarkDeactivated, VirtualInv, VirtualTypeOK, VictimsInTurn
<1>2. a \in Actors
    BY <1>1, FirstAndRest
<1>3. UNCHANGED <<at, mode, seen, guard, pending, victims, mailed, lost, refused, spawnFaults>>
    BY DEF StopInstance, Unregister, MarkDeactivated
<1>4. PICK s \in {"done", "unregister", "facet"} : stopAt' = [stopAt EXCEPT ![p] = s]
    BY DEF StopInstance, Unregister, MarkDeactivated
<1>5. /\ tracked' \in Seq(Actors) /\ Distinct(tracked)'
    <2>1. Actors \ {a} \in SUBSET Actors /\ Distinct(tracked)
        BY DEF VirtualInv, VictimsInTurn
    <2>2. CASE UNCHANGED tracked
        BY <1>1, <2>1, <2>2 DEF Distinct
    <2>3. CASE tracked' \in Filtered(tracked, Actors \ {a})
        <3>1. tracked' \in Seq(Actors) /\ Distinct(tracked')
            BY <1>1, <2>1, <2>3, FilterFacts
        <3> QED BY <3>1 DEF Distinct
    <2> QED BY <2>2, <2>3 DEF StopInstance, Unregister, MarkDeactivated
<1>6. /\ inst' \in [Callers -> {"none", "running", "stopped"}]
      /\ \A d \in Callers : inst'[d] = inst[d] \/ (inst'[d] = "stopped" /\ inst[d] # "none")
    <2>1. CASE inst' = inst
        BY <2>1 DEF VirtualInv, VirtualTypeOK
    <2>2. CASE reg[a] # NoOne /\ inst' = [inst EXCEPT ![reg[a]] = "stopped"]
        <3>1. reg[a] \in Callers /\ inst[reg[a]] # "none"
            BY <1>2, <2>2 DEF VirtualInv, VirtualTypeOK, RegisteredIsOurs
        <3> QED BY <2>2, <3>1 DEF VirtualInv, VirtualTypeOK
    <2> QED BY <2>1, <2>2 DEF StopInstance, StopRegistered, Unregister, MarkDeactivated
<1>7. /\ reg' \in [Actors -> Callers \union {NoOne}]
      /\ \A b \in Actors : reg'[b] = reg[b] \/ reg'[b] = NoOne
      /\ \A b \in Actors \ bypassed' : reg'[b] = reg[b] \/ ~IsActive(b)
      /\ bypassed \subseteq bypassed' /\ bypassed' \subseteq Actors
    <2>1. CASE UNCHANGED <<reg, bypassed>>
        BY <2>1 DEF VirtualInv, VirtualTypeOK
    <2>2. CASE Unregister(p)
        BY <1>2, <2>2 DEF Unregister, VirtualInv, VirtualTypeOK
    <2> QED BY <2>1, <2>2 DEF StopInstance, MarkDeactivated
<1>8. facet' \in [Actors -> {"none", "idle", "activating"}]
    BY <1>2 DEF StopInstance, Unregister, MarkDeactivated, VirtualInv, VirtualTypeOK
<1>9. VirtualTypeOK'
    BY <1>3, <1>4, <1>5, <1>6, <1>7, <1>8 DEF VirtualInv, VirtualTypeOK
<1> HIDE DEF a
<1>10. EntryHasOneOwner' /\ WaitersHaveAWinner' /\ AcceptedIsSomewhere'
    BY <1>3 DEF VirtualInv, EntryHasOneOwner, Guarded, WaitersHaveAWinner, AcceptedIsSomewhere
<1>11. RegisteredIsOurs'
    BY <1>6, <1>7 DEF VirtualInv, VirtualTypeOK, RegisteredIsOurs
<1>12. \A b \in Actors : Running(b)' \subseteq Running(b)
    BY <1>6 DEF Running
<1>13. SingleBehindEntry'
    BY <1>7, <1>12 DEF VirtualInv, SingleBehindEntry
<1>14. RunningIsFound'
    <2>1. ASSUME NEW b \in Actors \ bypassed', NEW d \in Running(b)' PROVE reg'[b] = d
        <3>1. reg[b] = d /\ d \in Callers /\ inst[d] = "running"
            BY <1>7, <1>12, <2>1 DEF VirtualInv, RunningIsFound, Running
        <3>2. IsActive(b)
            BY <3>1, VirtualAssumption DEF IsActive
        <3> QED BY <1>7, <2>1, <3>1, <3>2
    <2>2. ASSUME NEW d \in Callers
          PROVE  /\ at'[d] \in Activating /\ mode'[d] # "guard" => Target[d] \in bypassed'
                 /\ at'[d] \in {"evict", "metadata", "spawn"} /\ Target[d] \notin bypassed'
                       => Running(Target[d])' = {}
        <3>1. Target[d] \in Actors
            BY VirtualAssumption
        <3> QED BY <1>3, <1>7, <1>12, <3>1 DEF VirtualInv, RunningIsFound
    <2> QED BY <2>1, <2>2 DEF RunningIsFound
<1>15. VictimsInTurn'
    <2>1. \A q \in Stoppers : stopAt'[q] = "idle" <=> stopAt[q] = "idle"
        BY <1>1, <1>4 DEF VirtualInv, VirtualTypeOK
    <2> QED BY <1>3, <1>5, <2>1 DEF VirtualInv, VictimsInTurn, Distinct, Stoppers
<1> QED BY <1>9, <1>10, <1>11, <1>13, <1>14, <1>15 DEF VirtualInv

(***************************************************************************)
(* An operator calls stop_actor().                                         *)
(***************************************************************************)
LEMMA BeginStopStep ==
    ASSUME VirtualInv, NEW a \in Actors, BeginStop(a)
    PROVE  VirtualInv'
<1>1. /\ stopAt' = [stopAt EXCEPT ![Operator] = "unregister"]
      /\ victims' = [victims EXCEPT ![Operator] = <<a>>]
      /\ UNCHANGED <<at, mode, seen, reg, facet, guard, pending, tracked, mailed, lost, refused,
                     bypassed, spawnFaults>>
      /\ Operator \in Stoppers /\ \A c \in Callers : c # Operator /\ c \in Stoppers
    BY VirtualAssumption DEF BeginStop, Stoppers
<1>2. /\ <<a>> \in Seq(Actors) /\ <<a>> # <<>>
    OBVIOUS
<1>0. /\ inst' \in [Callers -> {"none", "running", "stopped"}]
      /\ \A d \in Callers : inst'[d] = inst[d] \/ (inst'[d] = "stopped" /\ inst[d] # "none")
    <2>1. CASE inst' = inst
        BY <2>1 DEF VirtualInv, VirtualTypeOK
    <2>2. CASE reg[a] # NoOne /\ inst' = [inst EXCEPT ![reg[a]] = "stopped"]
        <3>1. reg[a] \in Callers /\ inst[reg[a]] # "none"
            BY <2>2 DEF VirtualInv, VirtualTypeOK, RegisteredIsOurs
        <3> QED BY <2>2, <3>1 DEF VirtualInv, VirtualTypeOK
    <2> QED BY <2>1, <2>2 DEF BeginStop, StopRegistered
<1>3. /\ VirtualTypeOK'
      /\ \A p \in Stoppers \ {Operator} : victims'[p] = victims[p] /\ stopAt'[p] = stopAt[p]
      /\ victims'[Operator] = <<a>>
    BY <1>0, <1>1, <1>2 DEF VirtualInv, VirtualTypeOK
<1>4. \A c \in Callers : victims'[c] = victims[c] /\ stopAt'[c] = stopAt[c]
    BY <1>1, <1>3
<1>5. EntryHasOneOwner' /\ WaitersHaveAWinner' /\ AcceptedIsSomewhere'
    BY <1>1, <1>4 DEF VirtualInv, EntryHasOneOwner, Guarded, WaitersHaveAWinner, AcceptedIsSomewhere
<1>6. RegisteredIsOurs'
    BY <1>0, <1>1 DEF VirtualInv, VirtualTypeOK, RegisteredIsOurs
<1>8. \A b \in Actors : Running(b)' \subseteq Running(b)
    BY <1>0 DEF Running
<1>9. SingleBehindEntry'
    BY <1>1, <1>8 DEF VirtualInv, SingleBehindEntry
<1>10. \A d \in Callers : Target[d] \in Actors
    BY VirtualAssumption
<1>11. RunningIsFound'
    BY <1>1, <1>8, <1>10 DEF VirtualInv, RunningIsFound
<1>7. VictimsInTurn'
    BY <1>1, <1>2, <1>3, <1>4 DEF VirtualInv, VictimsInTurn, Distinct
<1> QED BY <1>3, <1>5, <1>6, <1>7, <1>9, <1>11 DEF VirtualInv

LEMMA VirtualStart == VirtualInit => VirtualInv
<1> SUFFICES ASSUME VirtualInit PROVE VirtualInv
    OBVIOUS
<1>1. <<>> \in Seq(Actors) /\ Len(<<>>) = 0 /\ Distinct(<<>>) /\ Range(<<>>) = {}
    BY EmptySeq, RangeIs DEF Distinct
<1>2. "start" \in Places /\ 0 \in 0..MaxSpawnFaults
    BY VirtualAssumption DEF Places
<1>3. VirtualTypeOK
    BY <1>1, <1>2 DEF VirtualInit, VirtualTypeOK
<1>4. EntryHasOneOwner /\ WaitersHaveAWinner
    BY <1>1, VirtualAssumption DEF VirtualInit, EntryHasOneOwner, Guarded, Activating, WaitersHaveAWinner, Stoppers
<1>5. AcceptedIsSomewhere /\ RegisteredIsOurs /\ SingleBehindEntry /\ RunningIsFound
    BY DEF VirtualInit, AcceptedIsSomewhere, RegisteredIsOurs, SingleBehindEntry, RunningIsFound, Running, Activating
<1>6. VictimsInTurn
    BY <1>1 DEF VirtualInit, VictimsInTurn, Stoppers
<1> QED BY <1>3, <1>4, <1>5, <1>6 DEF VirtualInv

LEMMA VirtualNextStep == VirtualInv /\ [VirtualNext]_virtualVars => VirtualInv'
<1> SUFFICES ASSUME VirtualInv, [VirtualNext]_virtualVars PROVE VirtualInv'
    OBVIOUS
<1>1. CASE UNCHANGED virtualVars
    BY <1>1 DEF virtualVars, VirtualInv, VirtualTypeOK, EntryHasOneOwner, Guarded, WaitersHaveAWinner,
       AcceptedIsSomewhere, RegisteredIsOurs, SingleBehindEntry, RunningIsFound, Running, VictimsInTurn,
       Distinct
<1>2. ASSUME NEW c \in Callers, CallerStep(c) PROVE VirtualInv'
    BY <1>2, LookupSteps, ToActivation, ClaimStep, ActivateSteps, EvictStep, StartStep, TakeStep,
       ReturnStep DEF CallerStep
<1>3. ASSUME NEW p \in Stoppers, StopStep(p) PROVE VirtualInv'
    <2>1. CASE StopReturns(p)
        BY <2>1, StopReturnsStep DEF StopReturns, Stoppers
    <2> QED BY <1>3, <2>1, StopSteps DEF StopStep
<1> QED BY <1>1, <1>2, <1>3, ReturnStep, BeginStopStep DEF VirtualNext

(***************************************************************************)
(* For any number of calls, actors and any size of the pool: an entry of   *)
(* activation_in_flight has one owner, whoever waits has somebody who will *)
(* notify, an accepted message vanishes only when the activated instance   *)
(* refuses it, and behind the entry an actor runs once                     *)
(* (dispatch_local_message, evict_lru_if_needed, stop_actor).              *)
(***************************************************************************)
THEOREM VirtualHolds == VirtualSpec => []VirtualInv
BY VirtualStart, VirtualNextStep, PTL DEF VirtualSpec

-----------------------------------------------------------------------------
(***************************************************************************)
(* Whichever service is followed, the invariants of all four hold.         *)
(***************************************************************************)
THEOREM ActorSystemHolds ==
    ActorSpec => [](VirtualInv /\ AsksInv /\ LinksInv /\ GroupInv)
<1>1. ActorInit => VirtualInv /\ AsksInv /\ LinksInv /\ GroupInv
    BY VirtualStart, AsksStart, LinksStart, GroupStart DEF ActorInit
<1>2. [ActorNext]_actorVars => /\ [VirtualNext]_virtualVars /\ [AsksNext]_askVars
                               /\ [LinksNext]_linkVars /\ [GroupNext]_groupVars
    BY DEF ActorNext, actorVars
<1>3. VirtualInv /\ AsksInv /\ LinksInv /\ GroupInv /\ [ActorNext]_actorVars
        => VirtualInv' /\ AsksInv' /\ LinksInv' /\ GroupInv'
    BY <1>2, VirtualNextStep, AsksStep, LinksNextStep, GroupNextStep
<1> QED BY <1>1, <1>3, PTL DEF ActorSpec
=============================================================================
