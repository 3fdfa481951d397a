----------------------------- MODULE Supervisor -----------------------------
(***************************************************************************)
(* A supervisor of crates/actor/src/supervisor: its child actors, one      *)
(* child supervisor with actors of its own, and the calls that work on     *)
(* them.  A supervisor is shared behind a RwLock: the calls that take      *)
(* &self (handle_failure, add_child, remove_child, restart_supervisor,     *)
(* remove_supervisor_child) run at the same time, those that take          *)
(* &mut self (restart_child, shutdown) run alone.                          *)
(*                                                                         *)
(* Every step of a call is what it does between two points at which it     *)
(* holds no lock, except that it waits for room in the event channel with  *)
(* the locks it holds at that point.  A task is a number; a child's task   *)
(* is 0 when its handle is None.  `running' holds the tasks that were not  *)
(* told to end: a task leaves it when its handle is aborted.  A task that  *)
(* ends by itself changes nothing the code reads before a caller reports   *)
(* it, and could only make `running' smaller: that step is left out.       *)
(***************************************************************************)
EXTENDS Naturals, Sequences, SequencesExt, Functions

CONSTANTS
    Callers,        \* tasks that call the supervisor
    Kids,           \* the ids of the children, in the order build() adds them
    Policy,         \* [id |-> "permanent", "transient" or "temporary"]
    Strategies,     \* the strategies the supervisor may be configured with
    MidSize,        \* the number of actors of the child supervisor
    MaxRestarts,    \* max_restarts
    EventCap,       \* capacity of the event channel
    MaxCalls        \* bound: the calls of a behaviour

Ids == Range(Kids)
Plans == {"one", "all", "rest", "adaptOne", "adaptAll", "adaptRest"}

ASSUME SupervisorAssumption ==
    /\ Kids \in Seq(Ids) /\ IsInjective(Kids)
    /\ Policy \in [Ids -> {"permanent", "transient", "temporary"}]
    /\ Strategies \subseteq Plans
    /\ MidSize \in Nat /\ MaxRestarts \in Nat /\ MaxCalls \in Nat
    /\ EventCap \in Nat /\ EventCap >= Len(Kids)    \* build() returned

VARIABLES
    kids,           \* keys of the children map, in order
    child,          \* [id |-> task of the handle, restart_timestamps in the window]
    running,        \* tasks started and not aborted
    last,           \* the last task started
    strategy, good, bad,    \* strategy, successful_restarts, failed_restarts
    mid,            \* [in: the child supervisor is in the map, tasks, stamps]
    call,           \* what every caller is doing
    events, rx,     \* events in the channel; the receiver is kept, drained or dropped
    begun,          \* calls begun
    abandoned       \* history: tasks whose handle was dropped without an abort

vars == <<kids, child, running, last, strategy, good, bad, mid, call,
          events, rx, begun, abandoned>>

(***************************************************************************)
(* A caller's record: where it is, the child or strategy it works for,     *)
(* the ids still to restart or the tasks still to stop, the locks it       *)
(* holds, the task it started and has not stored, and (history) the tasks  *)
(* a failure is to replace.                                                *)
(***************************************************************************)
Idle == [pc |-> "idle", id |-> 0, plan |-> "", normal |-> FALSE, todo |-> <<>>,
         locks |-> {}, task |-> 0, old |-> {}]

Init ==
    /\ kids = Kids
    /\ child = [id \in Ids |-> [task |-> CHOOSE i \in 1..Len(Kids) : Kids[i] = id,
                                stamps |-> 0]]
    /\ mid = [in |-> TRUE, tasks |-> [i \in 1..MidSize |-> Len(Kids) + i], stamps |-> 0]
    /\ last = Len(Kids) + MidSize
    /\ running = 1..last
    /\ strategy \in Strategies
    /\ good = 0 /\ bad = 0
    /\ call = [c \in Callers |-> Idle]
    /\ events = Len(Kids)
    /\ rx = "kept"
    /\ begun = 0
    /\ abandoned = {}

Free(l) == \A c \in Callers : l \notin call[c].locks
Exclusive == {"midStop", "midStopped", "collectOwn", "stopOwn", "ownStopped"}
MayBegin(c) == /\ call[c].pc = "idle" /\ begun < MaxCalls
               /\ \A d \in Callers : call[d].pc \notin Exclusive
AloneBegins(c) == MayBegin(c) /\ \A d \in Callers : call[d].pc = "idle"

Goto(c, pc) == call' = [call EXCEPT ![c].pc = pc]
Return(c) == call' = [call EXCEPT ![c] = Idle]

\* event_tx.send(..).await: it waits for room, and fails at once without a receiver.
Send == \/ rx = "dropped" /\ UNCHANGED events
        \/ rx # "dropped" /\ events < EventCap /\ events' = events + 1

stats == <<strategy, good, bad>>
tasks == <<child, running, last>>
---------------------------------------------------------------------------
(* handle_failure *)

\* A report about a child, of the task it has now or, late, of an earlier one.
\* The failure is counted, then the ChildFailed event is sent.
HandleFailure(c) ==
    /\ MayBegin(c) /\ Free("stats")
    /\ \E id \in Ids, normal \in BOOLEAN :
          call' = [call EXCEPT ![c] = [Idle EXCEPT !.pc = "failed", !.id = id,
                                                   !.normal = normal]]
    /\ begun' = begun + 1
    /\ UNCHANGED <<kids, tasks, stats, mid, events, rx, abandoned>>

\* The strategy is read once, the adaptive ones decide in a step of their own.
ChooseStrategy(c) ==
    /\ call[c].pc = "failed" /\ Send
    /\ call' = [call EXCEPT ![c].plan = strategy,
            ![c].pc = IF strategy \in {"one", "all", "rest"} THEN "collect" ELSE "adapt"]
    /\ UNCHANGED <<kids, tasks, stats, mid, rx, begun, abandoned>>

\* apply_adaptive_strategy: the exit reason is not passed on.
ApplyAdaptiveStrategy(c) ==
    /\ call[c].pc = "adapt" /\ Free("stats")
    /\ LET conservative == bad > 2 * good /\ call[c].plan = "adaptOne"
           plan == CASE call[c].plan = "adaptOne"  -> IF conservative THEN "all" ELSE "one"
                     [] call[c].plan = "adaptAll"  -> "all"
                     [] call[c].plan = "adaptRest" -> "rest"
       IN /\ strategy' = IF conservative THEN "adaptAll" ELSE strategy
          /\ call' = [call EXCEPT ![c].plan = plan, ![c].normal = FALSE,
                      ![c].pc = IF conservative THEN "adapted" ELSE "collect"]
    /\ UNCHANGED <<kids, tasks, good, bad, mid, events, rx, begun, abandoned>>

StrategyAdapted(c) ==
    /\ call[c].pc = "adapted" /\ Send /\ Goto(c, "collect")
    /\ UNCHANGED <<kids, tasks, stats, mid, rx, begun, abandoned>>

\* Whether restart_one replaces the child: its policy against the exit reason.
Restartable(id, normal) ==
    \/ Policy[id] = "permanent"
    \/ Policy[id] = "transient" /\ ~normal

\* Mutant: rest-for-one leaves the failed child out.
IdsAfterFailed(c) ==
    CASE call[c].plan = "one"  -> <<call[c].id>>
      [] call[c].plan = "all"  -> kids
      [] call[c].plan = "rest" ->
            LET at == CHOOSE i \in DOMAIN kids : kids[i] = call[c].id
            IN SubSeq(kids, at + 1, Len(kids))

\* The ids to restart: restart_all and restart_rest_for_one read the map once.
IdsToRestart(c) ==
    CASE call[c].plan = "one"  -> <<call[c].id>>
      [] call[c].plan = "all"  -> kids
      [] call[c].plan = "rest" ->
            LET at == CHOOSE i \in DOMAIN kids : kids[i] = call[c].id
            IN SubSeq(kids, at, Len(kids))

\* History: the tasks that this failure is to replace, by the strategy's meaning.
OldGeneration(c) ==
    LET Affected(i) == \/ kids[i] = call[c].id \/ call[c].plan = "all"
                       \/ /\ call[c].plan = "rest"
                          /\ \E j \in 1..i : kids[j] = call[c].id
    IN {child[kids[i]].task : i \in {i \in DOMAIN kids :
                                Affected(i) /\ Restartable(kids[i], call[c].normal)}}

\* Mutant: the guard of the children map is kept while the ids are restarted.
CollectIdsAndHold(c) ==
    /\ call[c].pc = "collect"
    /\ call[c].plan = "rest" => call[c].id \in Range(kids)
    /\ call[c].plan = "one" \/ Free("children")
    /\ call' = [call EXCEPT ![c] = [@ EXCEPT !.pc = "restart", !.id = 0, !.plan = "",
                               !.todo = IdsToRestart(c), !.old = OldGeneration(c),
                               !.locks = {"children"}]]
    /\ UNCHANGED <<kids, tasks, stats, mid, events, rx, begun, abandoned>>

CollectIds(c) ==
    /\ call[c].pc = "collect"
    /\ call[c].plan = "rest" => call[c].id \in Range(kids)
    /\ call[c].plan = "one" \/ Free("children")
    /\ call' = [call EXCEPT ![c] = [@ EXCEPT !.pc = "restart", !.id = 0, !.plan = "",
                               !.todo = IdsToRestart(c), !.old = OldGeneration(c)]]
    /\ UNCHANGED <<kids, tasks, stats, mid, events, rx, begun, abandoned>>

\* restart_rest_for_one of an id that is not there: ChildNotFound.
CollectFails(c) ==
    /\ call[c].pc = "collect" /\ call[c].plan = "rest" /\ Free("children")
    /\ call[c].id \notin Range(kids)
    /\ Return(c)
    /\ UNCHANGED <<kids, tasks, stats, mid, events, rx, begun, abandoned>>

\* restart_one holds the children and the stats lock to its end, the event included.
BothLocks == {"children", "stats"}
AtRestart(c) == /\ call[c].pc = "restart" /\ call[c].todo # <<>>
                /\ Free("children") /\ Free("stats")
Hold(c, pc) == call' = [call EXCEPT ![c].pc = pc, ![c].locks = BothLocks]
NextId(c) == call' = [call EXCEPT ![c].pc = "restart", ![c].todo = Tail(@), ![c].locks = {}]

\* The restart_timestamps that `retain' keeps: any number of the oldest may have
\* left the window by now.
Kept(n) == 0..n

\* Mutant: one restart too many passes.
BelowOrAtMax(n) == n <= MaxRestarts

BelowMax(n) == n < MaxRestarts

RestartMissing(c) ==
    /\ AtRestart(c) /\ Head(call[c].todo) \notin Range(kids)
    /\ NextId(c)
    /\ UNCHANGED <<kids, tasks, stats, mid, events, rx, begun, abandoned>>

RestartExceeded(c) ==
    LET id == Head(call[c].todo) IN
    /\ AtRestart(c) /\ id \in Range(kids)
    /\ \E n \in Kept(child[id].stamps) :
          /\ ~BelowMax(n)
          /\ child' = [child EXCEPT ![id].stamps = n]
    /\ Hold(c, "exceeded")
    /\ UNCHANGED <<kids, running, last, stats, mid, events, rx, begun, abandoned>>

\* The attempt is recorded although the policy then says not to restart.
RestartSkipped(c) ==
    LET id == Head(call[c].todo) IN
    /\ AtRestart(c) /\ id \in Range(kids) /\ ~Restartable(id, call[c].normal)
    /\ \E n \in Kept(child[id].stamps) :
          BelowMax(n) /\ child' = [child EXCEPT ![id].stamps = n + 1]
    /\ NextId(c)
    /\ UNCHANGED <<kids, running, last, stats, mid, events, rx, begun, abandoned>>

\* perform_restart: the old task is aborted before the new actor is made.
PerformRestart(c) ==
    LET id == Head(call[c].todo) IN
    /\ AtRestart(c) /\ id \in Range(kids) /\ Restartable(id, call[c].normal)
    /\ \E n \in Kept(child[id].stamps) :
          /\ BelowMax(n)
          /\ child' = [child EXCEPT ![id] = [task |-> last + 1, stamps |-> n + 1]]
    /\ running' = (running \ {child[id].task}) \cup {last + 1}
    /\ last' = last + 1 /\ good' = good + 1
    /\ Hold(c, "restarted")
    /\ UNCHANGED <<kids, strategy, bad, mid, events, rx, begun, abandoned>>

\* Mutant: the handle of the old task is dropped, not aborted.
PerformRestartDetaches(c) ==
    LET id == Head(call[c].todo) IN
    /\ AtRestart(c) /\ id \in Range(kids) /\ Restartable(id, call[c].normal)
    /\ \E n \in Kept(child[id].stamps) :
          /\ BelowMax(n)
          /\ child' = [child EXCEPT ![id] = [task |-> 0, stamps |-> n + 1]]
    /\ bad' = bad + 1
    /\ Return(c)
    /\ UNCHANGED <<kids, running, last, strategy, good, mid, events, rx, begun, abandoned>>

\* The factory or the start of the new actor fails: the child stays without a
\* task, and `?' ends the call with the ids that are left untouched.
PerformRestartFails(c) ==
    LET id == Head(call[c].todo) IN
    /\ AtRestart(c) /\ id \in Range(kids) /\ Restartable(id, call[c].normal)
    /\ \E n \in Kept(child[id].stamps) :
          /\ BelowMax(n)
          /\ child' = [child EXCEPT ![id] = [task |-> 0, stamps |-> n + 1]]
    /\ running' = running \ {child[id].task}
    /\ bad' = bad + 1
    /\ Return(c)
    /\ UNCHANGED <<kids, last, strategy, good, mid, events, rx, begun, abandoned>>

ChildRestarted(c) ==
    /\ call[c].pc = "restarted" /\ Send /\ NextId(c)
    /\ UNCHANGED <<kids, tasks, stats, mid, rx, begun, abandoned>>

MaxRestartsExceeded(c) ==
    /\ call[c].pc \in {"exceeded", "midExceeded"} /\ Send /\ Return(c)
    /\ UNCHANGED <<kids, tasks, stats, mid, rx, begun, abandoned>>

FailureHandled(c) ==
    /\ call[c].pc = "restart" /\ call[c].todo = <<>> /\ Goto(c, "ok")
    /\ UNCHANGED <<kids, tasks, stats, mid, events, rx, begun, abandoned>>

ReturnOk(c) ==
    /\ call[c].pc = "ok" /\ Return(c)
    /\ UNCHANGED <<kids, tasks, stats, mid, events, rx, begun, abandoned>>
---------------------------------------------------------------------------
(* add_child, remove_child, restart_child *)

\* The actor is started first and put into the map afterwards.
AddChild(c) ==
    /\ MayBegin(c)
    /\ last' = last + 1 /\ running' = running \cup {last + 1}
    /\ \E id \in Ids :
          call' = [call EXCEPT ![c] = [Idle EXCEPT !.pc = "insert", !.id = id,
                                                   !.task = last + 1]]
    /\ begun' = begun + 1
    /\ UNCHANGED <<kids, child, stats, mid, events, rx, abandoned>>

\* IndexMap::insert: an entry with the id is replaced and keeps its place.
InsertChild(c) ==
    LET id == call[c].id IN
    /\ call[c].pc = "insert" /\ Free("children")
    /\ kids' = IF id \in Range(kids) THEN kids ELSE Append(kids, id)
    /\ abandoned' = abandoned \cup (running \cap {child[id].task})
    /\ child' = [child EXCEPT ![id] = [task |-> call[c].task, stamps |-> 0]]
    /\ call' = [call EXCEPT ![c] = [Idle EXCEPT !.pc = "added"]]
    /\ UNCHANGED <<running, last, stats, mid, events, rx, begun>>

ChildStarted(c) ==
    /\ call[c].pc = "added" /\ Send /\ Return(c)
    /\ UNCHANGED <<kids, tasks, stats, mid, rx, begun, abandoned>>

RemoveChild(c) ==
    /\ MayBegin(c) /\ Free("children")
    /\ \E i \in DOMAIN kids :
          /\ kids' = RemoveAt(kids, i)
          /\ running' = running \ {child[kids[i]].task}
          /\ child' = [child EXCEPT ![kids[i]] = [task |-> 0, stamps |-> 0]]
    /\ call' = [call EXCEPT ![c] = [Idle EXCEPT !.pc = "stopped", !.locks = {"children"}]]
    /\ begun' = begun + 1
    /\ UNCHANGED <<last, stats, mid, events, rx, abandoned>>

\* The ChildStopped event of remove_child and of remove_supervisor_child.
ChildStopped(c) ==
    /\ call[c].pc \in {"stopped", "midRemoved"} /\ Send /\ Return(c)
    /\ UNCHANGED <<kids, tasks, stats, mid, rx, begun, abandoned>>

\* restart_child runs alone, so that its steps are one; it counts no restart.
RestartChild(c) ==
    /\ AloneBegins(c)
    /\ \E id \in Range(kids), ok \in BOOLEAN :
          /\ child' = [child EXCEPT ![id].task = IF ok THEN last + 1 ELSE 0]
          /\ running' = (running \ {child[id].task}) \cup (IF ok THEN {last + 1} ELSE {})
          /\ last' = IF ok THEN last + 1 ELSE last
    /\ begun' = begun + 1
    /\ UNCHANGED <<kids, stats, mid, call, events, rx, abandoned>>

---------------------------------------------------------------------------
(* restart_supervisor, remove_supervisor_child *)

\* The decision is taken under the lock of the map, which is dropped before the
\* delay; the child supervisor is looked up again after it.
RestartSupervisor(c) ==
    /\ MayBegin(c) /\ Free("supervisors") /\ mid.in
    /\ \E n \in Kept(mid.stamps) :
          \/ /\ ~BelowMax(n)
             /\ call' = [call EXCEPT ![c] = [Idle EXCEPT !.pc = "midExceeded"]]
             /\ mid' = [mid EXCEPT !.stamps = n]
          \/ /\ BelowMax(n)
             /\ call' = [call EXCEPT ![c] = [Idle EXCEPT !.pc = "midDelay"]]
             /\ mid' = [mid EXCEPT !.stamps = n + 1]
    /\ begun' = begun + 1
    /\ UNCHANGED <<kids, tasks, stats, events, rx, abandoned>>

GetSupervisor(c) ==
    /\ call[c].pc = "midDelay" /\ Free("supervisors")
    /\ IF mid.in THEN Goto(c, "midWrite") ELSE Return(c)
    /\ UNCHANGED <<kids, tasks, stats, mid, events, rx, begun, abandoned>>

\* start() finds the children started and only spawns a new lifetime task.
StartSupervisor(c) ==
    /\ call[c].pc = "midWrite"
    /\ \A d \in Callers : call[d].pc # "midStart"
    /\ Goto(c, "midStart")
    /\ UNCHANGED <<kids, tasks, stats, mid, events, rx, begun, abandoned>>

SupervisorStarted(c) ==
    /\ call[c].pc = "midStart" /\ Goto(c, "added")
    /\ UNCHANGED <<kids, tasks, stats, mid, events, rx, begun, abandoned>>

\* try_write: while a restart holds the child supervisor it is not shut down.
RemoveSupervisorChild(c) ==
    /\ MayBegin(c) /\ Free("supervisors") /\ mid.in
    /\ mid' = [mid EXCEPT !.in = FALSE, !.tasks = <<>>]
    /\ IF \E d \in Callers : call[d].pc = "midStart"
       THEN abandoned' = abandoned \cup (running \cap Range(mid.tasks)) /\ UNCHANGED running
       ELSE running' = running \ Range(mid.tasks) /\ UNCHANGED abandoned
    /\ call' = [call EXCEPT ![c] = [Idle EXCEPT !.pc = "midRemoved",
                                                !.locks = {"supervisors"}]]
    /\ begun' = begun + 1
    /\ UNCHANGED <<kids, child, last, stats, events, rx>>
---------------------------------------------------------------------------
(* shutdown: the child supervisor first, then the actors, in reverse order *)

Shutdown(c) ==
    /\ AloneBegins(c)
    /\ call' = [call EXCEPT ![c] = [Idle EXCEPT
                    !.pc = IF mid.in THEN "midStop" ELSE "collectOwn",
                    !.todo = Reverse(mid.tasks)]]
    /\ mid' = [mid EXCEPT !.in = FALSE, !.tasks = <<>>]
    /\ begun' = begun + 1
    /\ UNCHANGED <<kids, tasks, stats, events, rx, abandoned>>

StopMidActor(c) ==
    /\ call[c].pc = "midStop" /\ call[c].todo # <<>>
    /\ running' = running \ {Head(call[c].todo)}
    /\ call' = [call EXCEPT ![c].todo = Tail(@)]
    /\ UNCHANGED <<kids, child, last, stats, mid, events, rx, begun, abandoned>>

\* The shutdown of the child supervisor ends, or its timeout drops it and with it
\* the handles of the actors it has not stopped.
MidShutdownEnds(c) ==
    /\ call[c].pc = "midStop"
    /\ abandoned' = abandoned \cup (running \cap Range(call[c].todo))
    /\ call' = [call EXCEPT ![c].pc = "midStopped", ![c].todo = <<>>]
    /\ UNCHANGED <<kids, tasks, stats, mid, events, rx, begun>>

MidStopped(c) ==
    /\ call[c].pc = "midStopped" /\ Send /\ Goto(c, "collectOwn")
    /\ UNCHANGED <<kids, tasks, stats, mid, rx, begun, abandoned>>

CollectOwn(c) ==
    /\ call[c].pc = "collectOwn"
    /\ call' = [call EXCEPT ![c].pc = "stopOwn",
                 ![c].todo = Reverse([i \in DOMAIN kids |-> child[kids[i]].task])]
    /\ kids' = <<>>
    /\ child' = [id \in Ids |-> [task |-> 0, stamps |-> 0]]
    /\ UNCHANGED <<running, last, stats, mid, events, rx, begun, abandoned>>

\* BrutalKill, timeout or infinity: each ends in the abort of the handle.
StopOwnActor(c) ==
    /\ call[c].pc = "stopOwn" /\ call[c].todo # <<>>
    /\ running' = running \ {Head(call[c].todo)}
    /\ call' = [call EXCEPT ![c].pc = "ownStopped", ![c].todo = Tail(@)]
    /\ UNCHANGED <<kids, child, last, stats, mid, events, rx, begun, abandoned>>

OwnStopped(c) ==
    /\ call[c].pc = "ownStopped" /\ Send /\ Goto(c, "stopOwn")
    /\ UNCHANGED <<kids, tasks, stats, mid, rx, begun, abandoned>>

ShutdownReturns(c) ==
    /\ call[c].pc = "stopOwn" /\ call[c].todo = <<>> /\ Return(c)
    /\ UNCHANGED <<kids, tasks, stats, mid, events, rx, begun, abandoned>>
---------------------------------------------------------------------------
(* The surroundings *)

\* The owner of the receiver begins to drain it, or drops it.
Receiver ==
    /\ rx = "kept"
    /\ \/ rx' = "drained" /\ UNCHANGED events
       \/ rx' = "dropped" /\ events' = 0
    /\ UNCHANGED <<kids, tasks, stats, mid, call, begun, abandoned>>

Drain ==
    /\ rx = "drained" /\ events > 0 /\ events' = events - 1
    /\ UNCHANGED <<kids, tasks, stats, mid, call, rx, begun, abandoned>>

\* A step of a call that has begun.
Continue(c) ==
    \/ ChooseStrategy(c) \/ ApplyAdaptiveStrategy(c) \/ StrategyAdapted(c)
    \/ CollectIds(c) \/ CollectFails(c)
    \/ RestartMissing(c) \/ RestartExceeded(c) \/ RestartSkipped(c)
    \/ PerformRestart(c) \/ PerformRestartFails(c)
    \/ ChildRestarted(c) \/ MaxRestartsExceeded(c) \/ FailureHandled(c) \/ ReturnOk(c)
    \/ InsertChild(c) \/ ChildStarted(c) \/ ChildStopped(c)
    \/ GetSupervisor(c) \/ StartSupervisor(c) \/ SupervisorStarted(c)
    \/ StopMidActor(c) \/ MidShutdownEnds(c) \/ MidStopped(c)
    \/ CollectOwn(c) \/ StopOwnActor(c) \/ OwnStopped(c) \/ ShutdownReturns(c)

Begin(c) ==
    \/ HandleFailure(c) \/ AddChild(c) \/ RemoveChild(c) \/ RestartChild(c)
    \/ RestartSupervisor(c) \/ RemoveSupervisorChild(c) \/ Shutdown(c)

Next == \/ \E c \in Callers : Begin(c) \/ Continue(c)
        \/ Receiver \/ Drain

\* tokio polls a call that can go on, and so does the task that drains events.
Fairness == /\ \A c \in Callers : WF_vars(Continue(c))
            /\ WF_vars(Drain)

Spec == Init /\ [][Next]_vars
FairSpec == Spec /\ Fairness
---------------------------------------------------------------------------
(* Properties *)

Owned ==
    {child[id].task : id \in Range(kids)} \cup Range(mid.tasks)
    \cup {call[c].task : c \in Callers}
    \cup UNION {Range(call[c].todo) : c \in {d \in Callers : call[d].pc \in Exclusive}}

Steps == {"idle", "failed", "adapt", "adapted", "collect", "restart", "restarted",
          "exceeded", "ok", "insert", "added", "stopped", "midExceeded", "midDelay",
          "midWrite", "midStart", "midRemoved"} \cup Exclusive
CallRecords ==
    [pc : Steps, id : Ids \cup {0}, plan : Plans \cup {""}, normal : BOOLEAN,
     todo : Seq(Ids \cup Nat), locks : SUBSET {"children", "stats", "supervisors"},
     task : 0..last, old : SUBSET (0..last)]

\* The type of the state; no child has more restarts in the window than max_restarts.
TypeOK ==
    /\ kids \in Seq(Ids) /\ IsInjective(kids)
    /\ child \in [Ids -> [task : 0..last, stamps : 0..MaxRestarts]]
    /\ running \subseteq 1..last /\ abandoned \subseteq 1..last
    /\ last \in Nat
    /\ strategy \in Plans
    /\ good \in Nat /\ bad \in Nat
    /\ mid \in [in : BOOLEAN, tasks : Seq(Nat), stamps : 0..MaxRestarts]
    /\ Range(mid.tasks) \subseteq 1..last
    /\ call \in [Callers -> CallRecords]
    /\ events \in 0..EventCap /\ rx \in {"kept", "drained", "dropped"}
    /\ begun \in 0..MaxCalls

\* No lock of the supervisor has two holders, and no two handles are of one task:
\* whatever the calls that overlap, a child's task is in one place.
OneHolder ==
    /\ \A c, d \in Callers : c # d => call[c].locks \cap call[d].locks = {}
    /\ \A i, j \in Range(kids) : i # j /\ child[i].task # 0 => child[i].task # child[j].task
    /\ \A c \in Callers, i \in Range(kids) : call[c].task # 0 => call[c].task # child[i].task
    /\ {child[i].task : i \in Range(kids)} \cap Range(mid.tasks) = {}

\* Every running actor can be reached: from the map, from a call that is about to
\* store it or to stop it.  Only three things lose one: add_child of an id that is
\* there, the timeout of a child supervisor's shutdown, and remove_supervisor_child
\* while the child supervisor is being restarted.
OnlyKnownOrphans == running \subseteq Owned \cup abandoned

\* When handle_failure returns Ok, none of the tasks it was to replace still runs:
\* with one-for-all no sibling goes on in the old generation, whatever was added,
\* removed or restarted by others while it ran.
NoOldGeneration ==
    \A c \in Callers : call[c].pc = "ok" => call[c].old \cap running \subseteq abandoned

\* The locks a call holds where it waits for room in the event channel.
LocksAt(pc) ==
    CASE pc \in {"restarted", "exceeded"} -> BothLocks
      [] pc = "stopped" -> {"children"}
      [] pc = "midRemoved" -> {"supervisors"}
      [] OTHER -> {}

\* A call holds the locks of the point it waits at, a call with &mut self runs
\* alone, and what a call works for is known where it is used.
CallsInStep ==
    /\ \A c \in Callers : call[c].locks = LocksAt(call[c].pc)
    /\ \A c, d \in Callers : c # d /\ call[c].pc \in Exclusive => call[d].pc = "idle"
    /\ \A c \in Callers :
         /\ call[c].pc \in {"failed", "adapt", "adapted", "collect", "insert"} => call[c].id \in Ids
         /\ call[c].pc = "adapt" => call[c].plan \in {"adaptOne", "adaptAll", "adaptRest"}
         /\ call[c].pc \in {"adapted", "collect"} => call[c].plan \in {"one", "all", "rest"}
         /\ call[c].pc \in {"midStopped", "collectOwn"} => call[c].todo = <<>>
         /\ call[c].pc = "restarted" => call[c].todo # <<>>
         /\ call[c].task # 0 => call[c].pc = "insert"

\* A task that is started is in one call until it is stored, and nothing holds a
\* task for a child that is not in the map.
StartedInOnePlace ==
    /\ \A c, d \in Callers : c # d /\ call[c].task # 0 => call[c].task # call[d].task
    /\ \A c \in Callers : call[c].task \notin Range(mid.tasks)
    /\ \A id \in Ids \ Range(kids) : child[id].task = 0
    /\ ~mid.in => mid.tasks = <<>>

\* The ids handle_failure has still to turn to.
Left(c) == IF call[c].pc = "restarted" THEN Tail(call[c].todo) ELSE call[c].todo

\* Until then, a task it is to replace that still runs is the task of one of them.
OldStillToCome ==
    \A c \in Callers : call[c].pc \in {"restart", "restarted"} =>
      \A t \in (call[c].old \cap running) \ abandoned :
        \E id \in Range(Left(c)) \cap Range(kids) :
          child[id].task = t /\ Restartable(id, call[c].normal)

\* What the calls of a supervisor that overlap keep between them.
SupervisorInv ==
    /\ TypeOK /\ OneHolder /\ NoOldGeneration /\ OnlyKnownOrphans
    /\ CallsInStep /\ StartedInOnePlace /\ OldStillToCome

\* Every call returns once somebody drains the event channel or dropped its
\* receiver, although calls wait for room in it with the locks of the supervisor.
CallsReturn ==
    \A c \in Callers : []<>(call[c].pc = "idle" \/ rx = "kept")
=============================================================================
