---------------------------- MODULE Coordination ----------------------------
(***************************************************************************)
(* Coordination inside one process: the in-memory lock manager and the     *)
(* background scheduler, which is a client of a lock manager and sees it   *)
(* through its trait only.  Each is followed on its own.                   *)
(***************************************************************************)
EXTENDS MemoryLock, BackgroundScheduler

VARIABLE part   \* the one that is followed

coordinationVars == <<part, memoryVars, schedulerVars>>

CoordinationInit == part \in {"lock", "scheduler"} /\ MemoryInit /\ SchedulerInit

Locking(A)    == part = "lock" /\ A /\ UNCHANGED <<part, schedulerVars>>
Scheduling(A) == part = "scheduler" /\ A /\ UNCHANGED <<part, memoryVars>>

CoordinationNext == Locking(MemoryNext) \/ Scheduling(SchedulerNext)

\* The semaphore of an entry wakes its waiters in order, and its permit is
\* dropped when the write is done or the task aborted.  The runtime polls a
\* start() that can make progress; nothing makes anybody call start() or stop().
CoordinationFairness ==
    /\ \A t \in Tasks :
        /\ SF_coordinationVars(Locking(RenewPermit(t)))
        /\ WF_coordinationVars(Locking(RenewWrite(t)))
    /\ \A s \in Schedulers : WF_coordinationVars(Scheduling(MainStep(s)))

CoordinationSpec ==
    /\ CoordinationInit /\ [][CoordinationNext]_coordinationVars
    /\ CoordinationFairness

\* The runtime polls the two tasks of a scheduler as well; nothing makes a
\* request arrive or the interval tick.
AllPolledSpec ==
    /\ CoordinationSpec
    /\ \A s \in Schedulers :
        /\ WF_coordinationVars(Scheduling(WorkerStep(s)))
        /\ WF_coordinationVars(Scheduling(HeartbeatStep(s)))
=============================================================================
