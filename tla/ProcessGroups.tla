---------------------------- MODULE ProcessGroups ----------------------------
(***************************************************************************)
(* A process group (crates/actor/src/process_groups) kept in a key-value   *)
(* store: one key for the group with a count of its members, one key per   *)
(* member with its join count, one key per published message.  Every       *)
(* operation is a series of gets, puts and deletes without a transaction;  *)
(* a step is one access of the store (a list together with the gets of     *)
(* what it listed is one).                                                 *)
(***************************************************************************)
EXTENDS Naturals, FiniteSets

CONSTANTS
    GroupClients,  \* tasks that call the registry, on any node
    Joiners,       \* actors that join and leave
    MaxGroupOps,   \* bound on the operations started
    MaxGroupFaults, \* bound on accesses of the store that fail
    NoGroup, NoJoiner

ASSUME GroupAssumption ==
    /\ MaxGroupOps \in Nat /\ MaxGroupFaults \in Nat /\ IsFiniteSet(Joiners)
    /\ NoJoiner \notin Joiners /\ NoGroup \notin Nat

VARIABLES
    group,      \* the group's member_count, or NoGroup
    joined,     \* joined[m]: join_count of the membership; 0 is no membership
    posts,      \* clients whose published message is stored
    gAt,        \* gAt[p]: where the client is
    gOn,        \* gOn[p]: the actor its operation is about
    gRead,      \* gRead[p]: the count it has read
    gList,      \* gList[p]: the members it has listed
    groupOps,   \* operations started
    ledger,     \* ledger[m]: joins less leaves that were done
    contended,  \* actors with overlapping operations
    overlapped, \* two operations have overlapped
    groupFaults, \* accesses of the store that have failed
    stale       \* an operation failed half-way and the members were not counted since

groupVars == <<group, joined, posts, gAt, gOn, gRead, gList, groupOps, ledger, contended,
               overlapped, groupFaults, stale>>

GroupTypeOK ==
    /\ group \in 0..Cardinality(Joiners) \union {NoGroup}
    /\ joined \in [Joiners -> Nat] /\ ledger \in [Joiners -> Nat]
    /\ posts \subseteq GroupClients
    /\ gAt \in [GroupClients -> {"idle", "create", "delete", "deleteList", "deleteEach", "deletePosts",
                                 "join", "joinRead", "joinPut", "leave", "leavePut",
                                 "countGet", "countList", "countPut",
                                 "publish", "publishList", "publishPut"}]
    /\ gOn \in [GroupClients -> Joiners \union {NoJoiner}]
    /\ gRead \in [GroupClients -> Nat]
    /\ gList \in [GroupClients -> SUBSET Joiners]
    /\ groupOps \in 0..MaxGroupOps
    /\ contended \subseteq Joiners /\ overlapped \in BOOLEAN
    /\ groupFaults \in 0..MaxGroupFaults /\ stale \in BOOLEAN

GroupInit ==
    /\ group = NoGroup /\ joined = [m \in Joiners |-> 0] /\ posts = {}
    /\ gAt = [p \in GroupClients |-> "idle"]
    /\ gOn = [p \in GroupClients |-> NoJoiner]
    /\ gRead = [p \in GroupClients |-> 0]
    /\ gList = [p \in GroupClients |-> {}]
    /\ groupOps = 0 /\ ledger = [m \in Joiners |-> 0]
    /\ contended = {} /\ overlapped = FALSE /\ groupFaults = 0 /\ stale = FALSE

Table == {m \in Joiners : joined[m] > 0}
Deleting == {"delete", "deleteList", "deleteEach", "deletePosts"}
Busy  == {p \in GroupClients : gAt[p] # "idle"}
-----------------------------------------------------------------------------
\* A client calls an operation, on m or (NoJoiner) on the group.
GroupCall(p, at, m) ==
    /\ gAt[p] = "idle" /\ groupOps < MaxGroupOps
    /\ groupOps' = groupOps + 1
    /\ gAt' = [gAt EXCEPT ![p] = at]
    /\ gOn' = [gOn EXCEPT ![p] = m]
    /\ overlapped' = (overlapped \/ Busy # {})
    /\ contended' = contended \union
           {n \in Joiners : \E q \in Busy : at = "delete" \/ gAt[q] \in Deleting \/ (m = n /\ gOn[q] = n)}
    /\ UNCHANGED <<group, joined, posts, gRead, gList, ledger, groupFaults, stale>>

GroupCalls(p) ==
    \/ \E at \in {"create", "delete", "publish"} : GroupCall(p, at, NoJoiner)
    \/ \E at \in {"join", "leave"}, m \in Joiners : GroupCall(p, at, m)

GroupGoTo(p, to) == gAt' = [gAt EXCEPT ![p] = to]
GroupReturns(p) == gAt' = [gAt EXCEPT ![p] = "idle"]

\* create_group(): the group must not exist; it is put without members.
CreateGroup(p) ==
    /\ gAt[p] = "create"
    /\ IF group = NoGroup THEN GroupGoTo(p, "countPut") ELSE GroupReturns(p)
    /\ gList' = [gList EXCEPT ![p] = {}]
    /\ UNCHANGED <<group, joined, posts, gOn, gRead, groupOps, ledger, contended, overlapped,
                   groupFaults, stale>>

\* delete_group(): the group's key, then the listed memberships one by one, then
\* the messages.
DeleteGroup(p) ==
    /\ gAt[p] = "delete"
    /\ group' = NoGroup
    /\ GroupGoTo(p, "deleteList")
    /\ UNCHANGED <<joined, posts, gOn, gRead, gList, groupOps, ledger, contended, overlapped,
                   groupFaults, stale>>

DeleteList(p) ==
    /\ gAt[p] = "deleteList"
    /\ gList' = [gList EXCEPT ![p] = Table]
    /\ GroupGoTo(p, "deleteEach")
    /\ UNCHANGED <<group, joined, posts, gOn, gRead, groupOps, ledger, contended, overlapped,
                   groupFaults, stale>>

DeleteMembership(p) ==
    /\ gAt[p] = "deleteEach"
    /\ IF gList[p] = {}
       THEN GroupGoTo(p, "deletePosts") /\ UNCHANGED <<joined, ledger, gList>>
       ELSE /\ \E m \in gList[p] :
                 /\ joined' = [joined EXCEPT ![m] = 0]
                 /\ ledger' = [ledger EXCEPT ![m] = 0]
                 /\ gList' = [gList EXCEPT ![p] = @ \ {m}]
            /\ UNCHANGED gAt
    /\ UNCHANGED <<group, posts, gOn, gRead, groupOps, contended, overlapped,
                   groupFaults, stale>>

DeletePosts(p) ==
    /\ gAt[p] = "deletePosts"
    /\ posts' = {}
    /\ GroupReturns(p)
    /\ UNCHANGED <<group, joined, gOn, gRead, gList, groupOps, ledger, contended, overlapped,
                   groupFaults, stale>>

\* join_group(): the group must exist; get the membership, put it with one join
\* more, and count the members anew when it is the first join.
JoinVerify(p) ==
    /\ gAt[p] = "join"
    /\ IF group = NoGroup THEN GroupReturns(p) ELSE GroupGoTo(p, "joinRead")
    /\ UNCHANGED <<group, joined, posts, gOn, gRead, gList, groupOps, ledger, contended,
                   overlapped, groupFaults, stale>>

JoinRead(p) ==
    /\ gAt[p] = "joinRead"
    /\ gRead' = [gRead EXCEPT ![p] = joined[gOn[p]]]
    /\ GroupGoTo(p, "joinPut")
    /\ UNCHANGED <<group, joined, posts, gOn, gList, groupOps, ledger, contended, overlapped,
                   groupFaults, stale>>

\* Mutant: the members are counted anew only when the actor was a member.
JoinPutCountsLater(p) ==
    LET m == gOn[p] IN
    /\ gAt[p] = "joinPut"
    /\ joined' = [joined EXCEPT ![m] = gRead[p] + 1]
    /\ ledger' = [ledger EXCEPT ![m] = @ + 1]
    /\ IF gRead[p] = 1 THEN GroupGoTo(p, "countGet") ELSE GroupReturns(p)
    /\ UNCHANGED <<group, posts, gOn, gRead, gList, groupOps, contended, overlapped,
                   groupFaults, stale>>

JoinPut(p) ==
    LET m == gOn[p] IN
    /\ gAt[p] = "joinPut"
    /\ joined' = [joined EXCEPT ![m] = gRead[p] + 1]
    /\ ledger' = [ledger EXCEPT ![m] = @ + 1]
    /\ IF gRead[p] = 0 THEN GroupGoTo(p, "countGet") ELSE GroupReturns(p)
    /\ UNCHANGED <<group, posts, gOn, gRead, gList, groupOps, contended, overlapped,
                   groupFaults, stale>>

\* leave_group(): without a membership an error; one join less, or the end of
\* the membership, after which the members are counted anew.
LeaveRead(p) ==
    /\ gAt[p] = "leave"
    /\ gRead' = [gRead EXCEPT ![p] = joined[gOn[p]]]
    /\ IF joined[gOn[p]] = 0 THEN GroupReturns(p) ELSE GroupGoTo(p, "leavePut")
    /\ UNCHANGED <<group, joined, posts, gOn, gList, groupOps, ledger, contended, overlapped,
                   groupFaults, stale>>

\* Mutant: a leave ends the membership.
LeavePutAlways(p) ==
    LET m == gOn[p] IN
    /\ gAt[p] = "leavePut"
    /\ joined' = [joined EXCEPT ![m] = 0]
    /\ ledger' = [ledger EXCEPT ![m] = IF @ = 0 THEN 0 ELSE @ - 1]
    /\ GroupGoTo(p, "countGet")
    /\ UNCHANGED <<group, posts, gOn, gRead, gList, groupOps, contended, overlapped,
                   groupFaults, stale>>

LeavePut(p) ==
    LET m == gOn[p] IN
    /\ gAt[p] = "leavePut"
    /\ joined' = [joined EXCEPT ![m] = gRead[p] - 1]
    /\ ledger' = [ledger EXCEPT ![m] = IF @ = 0 THEN 0 ELSE @ - 1]
    /\ IF gRead[p] = 1 THEN GroupGoTo(p, "countGet") ELSE GroupReturns(p)
    /\ UNCHANGED <<group, posts, gOn, gRead, gList, groupOps, contended, overlapped,
                   groupFaults, stale>>

\* update_member_count_with_namespace(): get the group, list the members, put the group.
CountGet(p) ==
    /\ gAt[p] = "countGet"
    /\ IF group = NoGroup THEN GroupReturns(p) ELSE GroupGoTo(p, "countList")
    /\ UNCHANGED <<group, joined, posts, gOn, gRead, gList, groupOps, ledger, contended,
                   overlapped, groupFaults, stale>>

CountList(p) ==
    /\ gAt[p] = "countList"
    /\ gList' = [gList EXCEPT ![p] = Table]
    /\ GroupGoTo(p, "countPut")
    /\ UNCHANGED <<group, joined, posts, gOn, gRead, groupOps, ledger, contended, overlapped,
                   groupFaults, stale>>

GroupPut(p) ==
    /\ gAt[p] = "countPut"
    /\ group' = Cardinality(gList[p])
    /\ stale' = (stale /\ gOn[p] = NoJoiner)
    /\ GroupReturns(p)
    /\ UNCHANGED <<joined, posts, gOn, gRead, gList, groupOps, ledger, contended, overlapped,
                   groupFaults>>

\* publish_to_group(): the group must exist; the message is stored for the
\* members that were listed.
PublishVerify(p) ==
    /\ gAt[p] = "publish"
    /\ IF group = NoGroup THEN GroupReturns(p) ELSE GroupGoTo(p, "publishList")
    /\ UNCHANGED <<group, joined, posts, gOn, gRead, gList, groupOps, ledger, contended,
                   overlapped, groupFaults, stale>>

PublishList(p) ==
    /\ gAt[p] = "publishList"
    /\ gList' = [gList EXCEPT ![p] = Table]
    /\ GroupGoTo(p, "publishPut")
    /\ UNCHANGED <<group, joined, posts, gOn, gRead, groupOps, ledger, contended, overlapped,
                   groupFaults, stale>>

PublishPut(p) ==
    /\ gAt[p] = "publishPut"
    /\ posts' = posts \union {p}
    /\ GroupReturns(p)
    /\ UNCHANGED <<group, joined, gOn, gRead, gList, groupOps, ledger, contended, overlapped,
                   groupFaults, stale>>

\* The call has changed a key and has not yet brought the others up to date.
HalfDone(p) ==
    \/ gAt[p] \in {"countGet", "countList", "deleteList"}
    \/ gAt[p] = "countPut" /\ gOn[p] # NoJoiner

\* An access that fails ends the call with an error (`?`).  One that had its
\* effect and answers with an error is a success and a failure of the next.
StoreFails(p) ==
    /\ gAt[p] \notin {"idle", "delete", "deleteEach", "deletePosts"} /\ groupFaults < MaxGroupFaults
    /\ groupFaults' = groupFaults + 1
    /\ stale' = (stale \/ HalfDone(p))
    /\ GroupReturns(p)
    /\ UNCHANGED <<group, joined, posts, gOn, gRead, gList, groupOps, ledger, contended, overlapped>>

\* delete_group() does not look at the result of a delete: it goes on.
DeleteFails(p) ==
    /\ groupFaults < MaxGroupFaults
    /\ \/ gAt[p] = "delete" /\ GroupGoTo(p, "deleteList") /\ UNCHANGED <<gList, posts>>
       \/ /\ gAt[p] = "deleteEach"
          /\ \E m \in gList[p] : gList' = [gList EXCEPT ![p] = @ \ {m}]
          /\ UNCHANGED <<gAt, posts>>
       \/ /\ gAt[p] = "deletePosts"
          /\ posts' \in SUBSET posts
          /\ GroupReturns(p) /\ UNCHANGED gList
    /\ groupFaults' = groupFaults + 1
    /\ stale' = TRUE
    /\ UNCHANGED <<group, joined, gOn, gRead, groupOps, ledger, contended, overlapped>>

GroupStep(p) ==
    \/ CreateGroup(p) \/ DeleteGroup(p) \/ DeleteList(p) \/ DeleteMembership(p) \/ DeletePosts(p)
    \/ JoinVerify(p) \/ JoinRead(p) \/ JoinPut(p) \/ LeaveRead(p) \/ LeavePut(p)
    \/ CountGet(p) \/ CountList(p) \/ GroupPut(p)
    \/ PublishVerify(p) \/ PublishList(p) \/ PublishPut(p)

GroupNext == \E p \in GroupClients : GroupCalls(p) \/ GroupStep(p) \/ StoreFails(p) \/ DeleteFails(p)

GroupSpec == GroupInit /\ [][GroupNext]_groupVars
-----------------------------------------------------------------------------
\* The join count of an actor is exact whatever the others do at the same time
\* and whichever accesses fail: only operations on the same actor, and the
\* deletion of the group, disturb it when they overlap.
JoinCountExact ==
    \A m \in Joiners \ contended : joined[m] = ledger[m]

\* The operations on an actor that is not contended come one after the other,
\* and what a join or a leave has read is still so when it writes.
ReadIsFresh ==
    /\ \A p \in GroupClients :
         /\ gAt[p] \in {"join", "joinRead", "joinPut", "leave", "leavePut", "countGet", "countList"}
                => gOn[p] \in Joiners
         /\ gAt[p] = "create" => gOn[p] = NoJoiner
         /\ gAt[p] = "leavePut" => gRead[p] > 0
    /\ \A m \in Joiners \ contended, p \in Busy :
         /\ \A q \in Busy \ {p} : (gOn[p] = m => gOn[q] # m) /\ gAt[q] \notin Deleting
         /\ gAt[p] \in {"joinPut", "leavePut"} /\ gOn[p] = m => gRead[p] = joined[m]

\* What the key of the group says of the other keys.
CountExact ==
    IF group = NoGroup THEN Table = {} /\ posts = {} ELSE group = Cardinality(Table)

\* As long as no two operations overlap, the group's count is that of its
\* members, and a group that was deleted leaves neither members nor messages.
\* An access that fails before the first write of its call changes nothing; one
\* that fails later leaves the group's key behind until a first join or a last
\* leave counts the members again, and no longer.
CountExactInSequence ==
    ~overlapped /\ ~stale /\ Busy = {} => CountExact

\* What the one operation has done so far, as long as none overlap.
CountInOperation ==
    ~overlapped =>
        /\ contended = {}
        /\ \A p, q \in Busy : p = q
        /\ \A p \in Busy :
             /\ gAt[p] \in {"create", "delete", "join", "joinRead", "joinPut", "leave", "leavePut",
                            "publish", "publishList", "publishPut"} => CountExact \/ stale
             /\ gAt[p] \in {"joinRead", "joinPut", "countList", "publishList",
                            "publishPut"} => group # NoGroup
             /\ gAt[p] = "countGet" => group # NoGroup \/ stale
             /\ gAt[p] \in {"deleteList", "deleteEach", "deletePosts"} => group = NoGroup \/ stale
             /\ gAt[p] = "deleteEach" => gList[p] = Table \/ stale
             /\ gAt[p] = "countPut" => gList[p] = Table \/ (gOn[p] = NoJoiner /\ stale)
             /\ gAt[p] = "countPut" /\ gOn[p] = NoJoiner => CountExact \/ stale
             /\ gAt[p] = "deletePosts" => Table = {} \/ stale

\* What join_group(), leave_group(), delete_group() and publish_to_group() keep
\* although each is several reads and writes of the store.
GroupInv ==
    GroupTypeOK /\ JoinCountExact /\ ReadIsFresh /\ CountExactInSequence /\ CountInOperation
=============================================================================
