------------------------ MODULE BackgroundScheduler ------------------------
(***************************************************************************)
(* The background scheduler of a node (crates/scheduler/src/background.rs):*)
(* start() claims the node in a process-wide set, takes a lease from the   *)
(* lock manager, spawns a worker and a heartbeat and waits for stop().     *)
(* All three wait on one tokio Notify.  The lock manager is seen through   *)
(* its trait: a version is only ever compared with the one in the row, so  *)
(* a scheduler's Lock is "current" or "stale"; a lease may run out at any  *)
(* time and any call may fail, with or without its effect.                 *)
(***************************************************************************)
EXTENDS Naturals, Sequences

CONSTANTS
    Schedulers,      \* BackgroundScheduler objects of one process
    NodeOf,          \* NodeOf[s]: the node_id of s
    LEASE_RETRY_MAX  \* attempts per lease operation of the heartbeat

ASSUME SchedulerAssumption ==
    /\ DOMAIN NodeOf = Schedulers
    /\ LEASE_RETRY_MAX \in Nat \ {0}

VARIABLES
    active,     \* active_scheduler_nodes()
    row,        \* row[n]: the lock scheduler:background:lease:n
    main,       \* main[s]: where start() is
    worker,     \* worker[s]: where run_worker_loop() is
    heartbeat,  \* heartbeat[s]: where the heartbeat task is
    tries,      \* tries[s]: attempts of the heartbeat's lease operation
    lease,      \* lease[s]: current_lease against the version in the row
    permit,     \* permit[s]: the Notify of s stores a permit
    waiters,    \* waiters[s]: the tasks waiting on the Notify, oldest first
    stopped,    \* stopped[s]: stop() has been called
    aborted,    \* aborted[s]: the tasks of s that start() has called abort() on
    late        \* nodes whose lock a heartbeat took after its start() released it

schedulerVars == <<active, row, main, worker, heartbeat, tries, lease, permit, waiters, stopped,
                   aborted, late>>
notify    == <<permit, waiters>>
aftermath == <<aborted, late>>

Nodes == {NodeOf[s] : s \in Schedulers}

Final == {"stopped", "failed", "refused"}

SchedulerTypeOK ==
    /\ active \subseteq Nodes
    /\ row \in [Nodes -> [locked: BOOLEAN, live: BOOLEAN]]
    /\ main \in [Schedulers -> {"new", "acquiring", "spawned", "waiting", "woken",
                                "releasing", "ok", "error"} \union Final]
    /\ worker \in [Schedulers -> {"none", "looping", "select", "processing", "ended"}]
    /\ heartbeat \in [Schedulers -> {"none", "looping", "select", "renew", "acquire",
                                     "store", "ended"}]
    /\ tries \in [Schedulers -> 1..LEASE_RETRY_MAX]
    /\ lease \in [Schedulers -> {"none", "current", "stale"}]
    /\ permit \in [Schedulers -> BOOLEAN]
    /\ waiters \in [Schedulers -> Seq({"main", "worker", "heartbeat"})]
    /\ stopped \in [Schedulers -> BOOLEAN]
    /\ aborted \in [Schedulers -> SUBSET {"worker", "heartbeat"}]
    /\ late \subseteq Nodes

SchedulerInit ==
    /\ active = {}
    /\ row = [n \in Nodes |-> [locked |-> FALSE, live |-> FALSE]]
    /\ main = [s \in Schedulers |-> "new"]
    /\ worker = [s \in Schedulers |-> "none"]
    /\ heartbeat = [s \in Schedulers |-> "none"]
    /\ tries = [s \in Schedulers |-> 1]
    /\ lease = [s \in Schedulers |-> "none"]
    /\ permit = [s \in Schedulers |-> FALSE]
    /\ waiters = [s \in Schedulers |-> <<>>]
    /\ stopped = [s \in Schedulers |-> FALSE]
    /\ aborted = [s \in Schedulers |-> {}]
    /\ late = {}

-----------------------------------------------------------------------------
\* The lock manager, for the key of a node: the holder is always the node.
Held(n) == row[n].locked /\ row[n].live

\* A grant or a renewal writes a new version.
NewVersion(n) ==
    /\ row' = [row EXCEPT ![n] = [locked |-> TRUE, live |-> TRUE]]
    /\ lease' = [s \in Schedulers |->
                    IF NodeOf[s] = n /\ lease[s] = "current" THEN "stale" ELSE lease[s]]

\* acquire_lock: a new version, or the existing lock of the same holder.
AcquireEffect(n) ==
    IF Held(n) THEN UNCHANGED <<row, lease>> ELSE NewVersion(n)

\* current_lease = Some(lock) with the version in the row.
StoreLease(s, l) == [l EXCEPT ![s] = "current"]

\* A Notified future that is dropped leaves the queue, if it is in it.
Without(seq, t) ==
    IF \E k \in 1..Len(seq) : seq[k] = t
    THEN LET k == CHOOSE i \in 1..Len(seq) : seq[i] = t
         IN  [i \in 1..(Len(seq) - 1) |-> IF i < k THEN seq[i] ELSE seq[i + 1]]
    ELSE seq

Leave(s, t) == waiters' = [waiters EXCEPT ![s] = Without(@, t)]

-----------------------------------------------------------------------------
\* start(): claim_node_start.
Start(s) ==
    /\ main[s] = "new"
    /\ IF NodeOf[s] \in active
       THEN main' = [main EXCEPT ![s] = "refused"] /\ UNCHANGED active
       ELSE /\ main' = [main EXCEPT ![s] = "acquiring"]
            /\ active' = active \union {NodeOf[s]}
    /\ UNCHANGED <<row, worker, heartbeat, tries, lease, notify, stopped, aftermath>>

\* acquire_lock succeeds: the lease is stored and both tasks are spawned.  The
\* first tick of the heartbeat's interval is immediate and skipped.
StartAcquired(s) ==
    /\ main[s] = "acquiring"
    /\ LET n == NodeOf[s] IN
        /\ row' = IF Held(n) THEN row
                  ELSE [row EXCEPT ![n] = [locked |-> TRUE, live |-> TRUE]]
        /\ lease' = [t \in Schedulers |->
                        IF t = s THEN "current"
                        ELSE IF NodeOf[t] = n /\ ~Held(n) /\ lease[t] = "current"
                             THEN "stale" ELSE lease[t]]
    /\ main' = [main EXCEPT ![s] = "spawned"]
    /\ worker' = [worker EXCEPT ![s] = "looping"]
    /\ heartbeat' = [heartbeat EXCEPT ![s] = "looping"]
    /\ UNCHANGED <<active, tries, notify, stopped, aftermath>>

\* acquire_lock fails: release_node_start and return.
StartFailed(s) ==
    /\ main[s] = "acquiring"
    /\ AcquireEffect(NodeOf[s]) \/ UNCHANGED <<row, lease>>
    /\ main' = [main EXCEPT ![s] = "failed"]
    /\ active' = active \ {NodeOf[s]}
    /\ UNCHANGED <<worker, heartbeat, tries, notify, stopped, aftermath>>

\* shutdown.notified().await: takes the stored permit or queues up.
AwaitStop(s) ==
    /\ main[s] = "spawned"
    /\ IF permit[s]
       THEN /\ main' = [main EXCEPT ![s] = "woken"]
            /\ permit' = [permit EXCEPT ![s] = FALSE]
            /\ UNCHANGED waiters
       ELSE /\ main' = [main EXCEPT ![s] = "waiting"]
            /\ waiters' = [waiters EXCEPT ![s] = Append(@, "main")]
            /\ UNCHANGED permit
    /\ UNCHANGED <<active, row, worker, heartbeat, tries, lease, stopped, aftermath>>

\* What abort() makes of a task that is there.
EndedWait(at) == IF at = "select" THEN "ended" ELSE at

\* Mutant: the heartbeat task is not aborted.
AbortWorkerOnly(s) ==
    /\ main[s] = "woken"
    /\ main' = [main EXCEPT ![s] = "releasing"]
    /\ aborted' = [aborted EXCEPT ![s] = {"worker"}]
    /\ worker' = [worker EXCEPT ![s] = EndedWait(@)]
    /\ Leave(s, "worker")
    /\ UNCHANGED <<active, row, heartbeat, tries, lease, permit, stopped, late>>

\* abort() of both tasks.  Their handles are not awaited: a task that waits in
\* its select! is not polled again, any other goes on to an await that makes it
\* wait.
AbortTasks(s) ==
    /\ main[s] = "woken"
    /\ main' = [main EXCEPT ![s] = "releasing"]
    /\ aborted' = [aborted EXCEPT ![s] = {"worker", "heartbeat"}]
    /\ worker' = [worker EXCEPT ![s] = EndedWait(@)]
    /\ heartbeat' = [heartbeat EXCEPT ![s] = EndedWait(@)]
    /\ waiters' = [waiters EXCEPT ![s] = <<>>]
    /\ UNCHANGED <<active, row, tries, lease, permit, stopped, late>>

\* release_lease: the version must be the one in the row.
ReleaseLease(s) ==
    /\ main[s] = "releasing"
    /\ lease[s] = "current"
    /\ row' = [row EXCEPT ![NodeOf[s]] = [locked |-> FALSE, live |-> FALSE]]
    /\ lease' = [lease EXCEPT ![s] = "none"]
    /\ main' = [main EXCEPT ![s] = "ok"]
    /\ late' = late \ {NodeOf[s]}
    /\ UNCHANGED <<active, worker, heartbeat, tries, notify, stopped, aborted>>

\* Mutant: the error of the release is dropped.
ReleaseErrorIgnored(s) ==
    /\ main[s] = "releasing"
    /\ main' = [main EXCEPT ![s] = "ok"]
    /\ UNCHANGED <<active, row, worker, heartbeat, tries, lease, notify, stopped, aftermath>>

\* VersionMismatch, or the call fails.
ReleaseFails(s) ==
    /\ main[s] = "releasing"
    /\ main' = [main EXCEPT ![s] = "error"]
    /\ UNCHANGED <<active, row, worker, heartbeat, tries, lease, notify, stopped, aftermath>>

\* Mutant: the error of the release is returned before release_node_start.
ReturnEarly(s) ==
    /\ main[s] \in {"ok", "error"}
    /\ active' = IF main[s] = "ok" THEN active \ {NodeOf[s]} ELSE active
    /\ main' = [main EXCEPT ![s] = IF @ = "ok" THEN "stopped" ELSE "failed"]
    /\ UNCHANGED <<row, worker, heartbeat, tries, lease, notify, stopped, aftermath>>

\* release_node_start, then the result of the release is returned.
Return(s) ==
    /\ main[s] \in {"ok", "error"}
    /\ active' = active \ {NodeOf[s]}
    /\ main' = [main EXCEPT ![s] = IF @ = "ok" THEN "stopped" ELSE "failed"]
    /\ UNCHANGED <<row, worker, heartbeat, tries, lease, notify, stopped, aftermath>>

\* Mutant: nothing is stored when nobody waits yet.
StopWithoutPermit(s) ==
    /\ ~stopped[s]
    /\ waiters[s] = <<>>
    /\ stopped' = [stopped EXCEPT ![s] = TRUE]
    /\ UNCHANGED <<active, row, main, worker, heartbeat, tries, lease, notify, aftermath>>

\* stop(): notify_one wakes the oldest waiter, or stores a permit.
Stop(s) ==
    /\ ~stopped[s]
    /\ stopped' = [stopped EXCEPT ![s] = TRUE]
    /\ IF waiters[s] = <<>>
       THEN permit' = [permit EXCEPT ![s] = TRUE] /\ UNCHANGED <<waiters, main, worker, heartbeat>>
       ELSE LET t == Head(waiters[s]) IN
            /\ waiters' = [waiters EXCEPT ![s] = Tail(@)]
            /\ main' = IF t = "main" THEN [main EXCEPT ![s] = "woken"] ELSE main
            /\ worker' = IF t = "worker" THEN [worker EXCEPT ![s] = "ended"] ELSE worker
            /\ heartbeat' = IF t = "heartbeat" THEN [heartbeat EXCEPT ![s] = "ended"]
                            ELSE heartbeat
            /\ UNCHANGED permit
    /\ UNCHANGED <<active, row, tries, lease, aftermath>>

-----------------------------------------------------------------------------
\* The runtime drops a worker that was aborted.
WorkerDropped(s) ==
    /\ "worker" \in aborted[s] /\ worker[s] \in {"looping", "processing"}
    /\ worker' = [worker EXCEPT ![s] = "ended"]
    /\ UNCHANGED <<active, row, main, heartbeat, tries, lease, notify, stopped, aftermath>>

\* The select! polls notified(): a permit ends the loop, else it queues up, and
\* with nothing else to do the task waits; an aborted one ends instead.
WorkerPoll(s) ==
    /\ worker[s] = "looping"
    /\ IF permit[s]
       THEN /\ worker' = [worker EXCEPT ![s] = "ended"]
            /\ permit' = [permit EXCEPT ![s] = FALSE]
            /\ UNCHANGED waiters
       ELSE /\ "worker" \notin aborted[s]
            /\ worker' = [worker EXCEPT ![s] = "select"]
            /\ waiters' = [waiters EXCEPT ![s] = Append(@, "worker")]
            /\ UNCHANGED permit
    /\ UNCHANGED <<active, row, main, heartbeat, tries, lease, stopped, aftermath>>

\* stream.next(): a message, or the end of the stream (as when subscribe()
\* fails).  The other branch of the select! is dropped and leaves the queue.
WorkerNext(s) ==
    /\ worker[s] \in {"looping", "select"}
    /\ \E p \in {"processing", "ended"} : worker' = [worker EXCEPT ![s] = p]
    /\ Leave(s, "worker")
    /\ UNCHANGED <<active, row, main, heartbeat, tries, lease, permit, stopped, aftermath>>

\* process_request returns; an error is logged and the request dropped.
WorkerDone(s) ==
    /\ worker[s] = "processing"
    /\ worker' = [worker EXCEPT ![s] = "looping"]
    /\ UNCHANGED <<active, row, main, heartbeat, tries, lease, notify, stopped, aftermath>>

-----------------------------------------------------------------------------
HeartbeatPoll(s) ==
    /\ heartbeat[s] = "looping"
    /\ IF permit[s]
       THEN /\ heartbeat' = [heartbeat EXCEPT ![s] = "ended"]
            /\ permit' = [permit EXCEPT ![s] = FALSE]
            /\ UNCHANGED waiters
       ELSE /\ "heartbeat" \notin aborted[s]
            /\ heartbeat' = [heartbeat EXCEPT ![s] = "select"]
            /\ waiters' = [waiters EXCEPT ![s] = Append(@, "heartbeat")]
            /\ UNCHANGED permit
    /\ UNCHANGED <<active, row, main, worker, tries, lease, stopped, aftermath>>

HeartbeatTick(s) ==
    /\ heartbeat[s] \in {"looping", "select"}
    /\ heartbeat' = [heartbeat EXCEPT ![s] = "renew"]
    /\ Leave(s, "heartbeat")
    /\ UNCHANGED <<active, row, main, worker, tries, lease, permit, stopped, aftermath>>

\* The heartbeat has written the lock, or not: late if start() gave it up before.
Written(s) ==
    late' = IF row' # row /\ main[s] \in {"ok", "stopped"} THEN late \union {NodeOf[s]}
            ELSE late

\* The next lease operation counts its attempts from one.
FirstTry(s) == tries' = [tries EXCEPT ![s] = 1]

\* renew_lock writes a new version; the Lock is stored by a later step.
RenewWritten(s) ==
    /\ heartbeat[s] = "renew"
    /\ Held(NodeOf[s])
    /\ NewVersion(NodeOf[s]) /\ Written(s)
    /\ heartbeat' = [heartbeat EXCEPT ![s] = "store"]
    /\ FirstTry(s)
    /\ UNCHANGED <<active, main, worker, notify, stopped, aborted>>

\* VersionMismatch: adopt_current_lease_if_same_holder.
RenewAdopts(s) ==
    /\ heartbeat[s] = "renew"
    /\ lease[s] = "stale" /\ Held(NodeOf[s])
    /\ lease' = StoreLease(s, lease)
    /\ heartbeat' = [heartbeat EXCEPT ![s] = "looping"]
    /\ FirstTry(s)
    /\ UNCHANGED <<active, row, main, worker, notify, stopped, aftermath>>

\* The last attempt to renew is followed by attempts to acquire, the last of
\* these by the end of the task.  Between two attempts it sleeps, which ends it
\* if it was aborted.
NextAttempt(s) ==
    IF tries[s] < LEASE_RETRY_MAX
    THEN IF "heartbeat" \in aborted[s]
         THEN heartbeat' = [heartbeat EXCEPT ![s] = "ended"] /\ FirstTry(s)
         ELSE tries' = [tries EXCEPT ![s] = @ + 1] /\ UNCHANGED heartbeat
    ELSE /\ FirstTry(s)
         /\ heartbeat' = [heartbeat EXCEPT ![s] =
                            IF @ = "renew" THEN "acquire" ELSE "ended"]

\* What a call that does not return Ok has done all the same.
RenewLost(s)   == UNCHANGED <<row, lease>> \/ (Held(NodeOf[s]) /\ NewVersion(NodeOf[s]))
AcquireLost(s) == UNCHANGED <<row, lease>> \/ AcquireEffect(NodeOf[s])

\* renew_lock fails; the write may have been committed all the same.
RenewFails(s) ==
    /\ heartbeat[s] = "renew"
    /\ RenewLost(s) /\ Written(s)
    /\ NextAttempt(s)
    /\ UNCHANGED <<active, main, worker, notify, stopped, aborted>>

AcquireWritten(s) ==
    /\ heartbeat[s] = "acquire"
    /\ AcquireEffect(NodeOf[s]) /\ Written(s)
    /\ heartbeat' = [heartbeat EXCEPT ![s] = "store"]
    /\ FirstTry(s)
    /\ UNCHANGED <<active, main, worker, notify, stopped, aborted>>

AcquireFails(s) ==
    /\ heartbeat[s] = "acquire"
    /\ AcquireLost(s) /\ Written(s)
    /\ NextAttempt(s)
    /\ UNCHANGED <<active, main, worker, notify, stopped, aborted>>

\* The runtime drops the aborted heartbeat; a call it waits for may have reached
\* the lock manager.
HeartbeatDropped(s) ==
    /\ "heartbeat" \in aborted[s] /\ heartbeat[s] \in {"looping", "renew", "acquire", "store"}
    /\ CASE heartbeat[s] = "renew"   -> RenewLost(s)
         [] heartbeat[s] = "acquire" -> AcquireLost(s)
         [] OTHER                    -> UNCHANGED <<row, lease>>
    /\ Written(s)
    /\ heartbeat' = [heartbeat EXCEPT ![s] = "ended"]
    /\ FirstTry(s)
    /\ UNCHANGED <<active, main, worker, notify, stopped, aborted>>

\* *current_lease.write().await = Some(lock).
HeartbeatStore(s) ==
    /\ heartbeat[s] = "store"
    /\ lease' = StoreLease(s, lease)
    /\ heartbeat' = [heartbeat EXCEPT ![s] = "looping"]
    /\ UNCHANGED <<active, row, main, worker, tries, notify, stopped, aftermath>>

-----------------------------------------------------------------------------
\* The lease runs out.
Expire(n) ==
    /\ row[n].live
    /\ row' = [row EXCEPT ![n].live = FALSE]
    /\ UNCHANGED <<active, main, worker, heartbeat, tries, lease, notify, stopped, aftermath>>

MainStep(s) ==
    \/ StartAcquired(s) \/ StartFailed(s)
    \/ AwaitStop(s) \/ AbortTasks(s) \/ ReleaseLease(s) \/ ReleaseFails(s) \/ Return(s)

HeartbeatStep(s) ==
    \/ HeartbeatPoll(s) \/ HeartbeatStore(s)
    \/ RenewWritten(s) \/ RenewAdopts(s) \/ RenewFails(s)
    \/ AcquireWritten(s) \/ AcquireFails(s) \/ HeartbeatDropped(s)

WorkerStep(s) == WorkerPoll(s) \/ WorkerDone(s) \/ WorkerDropped(s)

SchedulerNext ==
    \/ \E n \in Nodes : Expire(n)
    \/ \E s \in Schedulers :
        \/ Start(s) \/ Stop(s)
        \/ MainStep(s)
        \/ WorkerStep(s) \/ WorkerNext(s)
        \/ HeartbeatStep(s) \/ HeartbeatTick(s)

SchedulerSpec == SchedulerInit /\ [][SchedulerNext]_schedulerVars

-----------------------------------------------------------------------------
\* start() has claimed its node and not returned.
Claimed(s) == main[s] \notin {"new"} \union Final

(***************************************************************************)
(* Per node at most one start() is past its claim, and the process-wide    *)
(* set holds a node exactly as long as one is: no error path leaks the     *)
(* claim or gives up somebody else's (claim_node_start and                 *)
(* release_node_start).                                                    *)
(***************************************************************************)
ClaimAccounted ==
    /\ \A s, t \in Schedulers :
        Claimed(s) /\ Claimed(t) /\ NodeOf[s] = NodeOf[t] => s = t
    /\ active = {NodeOf[s] : s \in {t \in Schedulers : Claimed(t)}}

(***************************************************************************)
(* No worker and no heartbeat runs before start() has its lease, and one   *)
(* that still runs when start() goes on from its wait was aborted: it does *)
(* not outlive the first await that makes it wait.                         *)
(***************************************************************************)
NoOrphanTasks ==
    \A s \in Schedulers :
        /\ main[s] \notin {"spawned", "waiting", "woken"} =>
              /\ worker[s] \notin {"none", "ended"} => "worker" \in aborted[s]
              /\ heartbeat[s] \notin {"none", "ended"} => "heartbeat" \in aborted[s]
        /\ aborted[s] # {} => main[s] \in {"releasing", "ok", "error", "stopped", "failed"}

(***************************************************************************)
(* Whoever is in the queue of the Notify waits there, once: notify_one     *)
(* never wakes a start() that has gone on, nor one that has returned.      *)
(***************************************************************************)
WaitersWait ==
    \A s \in Schedulers :
        /\ \A i, j \in 1..Len(waiters[s]) : waiters[s][i] = waiters[s][j] => i = j
        /\ \A i \in 1..Len(waiters[s]) :
              /\ waiters[s][i] = "main" => main[s] = "waiting"
              /\ waiters[s][i] = "worker" => worker[s] = "select"
              /\ waiters[s][i] = "heartbeat" => heartbeat[s] = "select"

(***************************************************************************)
(* If every start() of a node that was past its claim has released its     *)
(* lease or returned Ok, the lock of the node is unlocked.  The exception  *)
(* is a heartbeat that was being polled when it was aborted, and took the  *)
(* lock again after the release: a renewal in flight when stop() came, or  *)
(* one that finished before the release, does not survive it.              *)
(***************************************************************************)
ReleasedWhenStopped ==
    \A n \in Nodes \ late :
        (\A s \in Schedulers : NodeOf[s] = n => main[s] \in {"new", "refused", "ok", "stopped"})
            => ~row[n].locked

\* start() and stop(), at every step: the claim, the tasks and the lock of a node
\* are given up together, but for what an aborted task does in its last poll.
SafetyInv ==
    /\ SchedulerTypeOK /\ ClaimAccounted /\ NoOrphanTasks /\ WaitersWait
    /\ ReleasedWhenStopped

(***************************************************************************)
(* A stop() is never lost altogether: once it is called on a started       *)
(* scheduler, start() wakes or one of its two tasks ends.                  *)
(***************************************************************************)
StopReachesSomeTask ==
    \A s \in Schedulers :
        stopped[s] /\ main[s] \in {"spawned", "waiting"} ~>
            main[s] \notin {"spawned", "waiting"}
            \/ worker[s] = "ended" \/ heartbeat[s] = "ended"

(***************************************************************************)
(* The lease is released on shutdown (background.rs: Releases lease on     *)
(* shutdown): after stop(), start() leaves its wait.  It fails: the one    *)
(* notification may go to the worker or to the heartbeat.                  *)
(***************************************************************************)
StopReturns ==
    \A s \in Schedulers :
        stopped[s] /\ main[s] = "waiting" ~> main[s] \in Final
=============================================================================
