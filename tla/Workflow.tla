------------------------------ MODULE Workflow ------------------------------
(***************************************************************************)
(* The workflow executor (crates/workflow/src/executor.rs) on the tables   *)
(* of storage/sql.rs: one execution, the executors that start and resume   *)
(* it, and the calls that cancel and signal it (workflow_actor.rs,         *)
(* service.rs).  Every storage call is a step and nothing but the tables   *)
(* is shared.  Inputs and outputs are left out: a task may succeed or fail *)
(* if its step says so, and a choice may take any of its targets.          *)
(***************************************************************************)
EXTENDS Naturals, Sequences, FiniteSets, SequencesExt

CONSTANTS
    Executors,        \* calls of start_execution and execute_from_state
    Starter,          \* the one that calls start_execution
    Definitions,      \* workflow definitions: sequences of steps
    MaxSignals,       \* bound on signals sent
    MaxMishaps        \* bound on storage calls that fail and executors that are
                      \* dropped or crash

\* next is 0 if the step has none, and may name a step that does not exist;
\* a target 0 is a choice without match and default; no_id is the first
\* branch of a parallel without an id, 0 if each has one.
StepType ==
    [type: {"task", "parallel", "map", "choice", "wait", "signal", "invalid"},
     next: Nat, max_attempts: Nat, fails: BOOLEAN, items: Nat,
     max_concurrency: Nat, no_id: Nat, targets: SUBSET Nat, timeout: BOOLEAN]

ASSUME WorkflowAssumption ==
    /\ Definitions \subseteq Seq(StepType)
    /\ Starter \in Executors /\ MaxSignals \in Nat /\ MaxMishaps \in Nat

VARIABLES
    steps,         \* the definition of this execution
    status,        \* of its row in workflow_executions, "none" before that
    output,        \* the executor that wrote output_json
    rows,          \* step_executions of the steps themselves, oldest first
    signals,       \* the stored signals, oldest first
    sent,          \* signals sent so far
    given,         \* given[s]: the executors that got signal s
    raced,         \* two executors were in check_signal at a time
    exec,          \* exec[e]: the call of executor e
    tasks,         \* the tasks spawned for branches and items, with their rows
    mishaps        \* storage calls that failed and executors dropped

workflowVars == <<steps, status, output, rows, signals, sent, given, raced, exec, tasks,
                  mishaps>>

Nobody == "nobody"
Signal == 1..MaxSignals
Ended  == {"completed", "failed", "errored", "dropped"}

Execs == [at: {"idle", "begin", "step", "work", "delete", "settle", "spawn", "join",
               "route", "fail", "output", "complete"} \cup Ended,
          cur: Nat, index: Nat, visited: SUBSET Nat, onChoice: BOOLEAN, attempt: Nat,
          row: Nat, ok: BOOLEAN, done: Nat, read: Nat]

Rows  == [step: Nat, by: Executors, attempt: Nat, choice: Nat,
          state: {"running", "completed", "failed"}]
Tasks == [by: Executors, step: Nat, kid: Nat,
          state: {"spawned", "running", "completed", "failed", "lost"}]

WorkflowTypeOK ==
    /\ steps \in Definitions
    /\ status \in {"none", "pending", "running", "completed", "failed", "cancelled"}
    /\ output \in Executors \cup {Nobody}
    /\ rows \in Seq(Rows) /\ signals \in Seq(Signal) /\ sent \in 0..MaxSignals
    /\ given \in [Signal -> SUBSET Executors] /\ exec \in [Executors -> Execs]
    /\ tasks \subseteq Tasks /\ raced \in BOOLEAN
    /\ mishaps \in 0..MaxMishaps

NewExec == [at |-> "idle", cur |-> 1, index |-> 1, visited |-> {}, onChoice |-> FALSE,
            attempt |-> 1, row |-> 0, ok |-> TRUE, done |-> 0, read |-> 0]

WorkflowInit ==
    /\ steps \in Definitions
    /\ status = "none" /\ output = Nobody /\ rows = <<>>
    /\ signals = <<>> /\ sent = 0 /\ given = [s \in Signal |-> {}] /\ raced = FALSE
    /\ exec = [e \in Executors |-> NewExec] /\ tasks = {}
    /\ mishaps = 0
-----------------------------------------------------------------------------
At(e, l)  == exec[e].at = l
Go(e, l)  == exec' = [exec EXCEPT ![e] = IF l \in Ended
                                          THEN [NewExec EXCEPT !.at = l, !.visited = exec[e].visited]
                                          ELSE [@ EXCEPT !.at = l]]
Now(e)    == steps[exec[e].cur]
Is(e, ts) == Now(e).type \in ts

\* complete_step_execution
Settled(k, ok) == [rows EXCEPT ![k].state = IF ok THEN "completed" ELSE "failed"]

NewRow(e) == Append(rows, [step |-> exec[e].cur, by |-> e, attempt |-> exec[e].attempt,
                           choice |-> 0, state |-> "running"])

ExecutionAlone == UNCHANGED <<steps, status, output>>
SignalsAlone   == UNCHANGED <<signals, sent, given, raced>>

\* start_execution: the row is created ...
StartExecution(e) ==
    /\ e = Starter /\ At(e, "idle") /\ status = "none"
    /\ status' = "pending" /\ Go(e, "begin")
    /\ SignalsAlone /\ UNCHANGED <<steps, output, rows, tasks, mishaps>>

\* ... and set to RUNNING, whatever it is by then; an empty definition is
\* complete at once.
BeginRunning(e) ==
    /\ At(e, "begin")
    /\ status' = "running"
    /\ Go(e, IF steps = <<>> THEN "complete" ELSE "step")
    /\ SignalsAlone /\ UNCHANGED <<steps, output, rows, tasks, mishaps>>

\* execute_from_state: from the first step again, and in any status.
ResumeExecution(e) ==
    /\ e # Starter /\ At(e, "idle") /\ status # "none"
    /\ Go(e, IF steps = <<>> THEN "complete" ELSE "step")
    /\ SignalsAlone /\ UNCHANGED <<steps, status, output, rows, tasks, mishaps>>
-----------------------------------------------------------------------------
(* execute_workflow_loop                                                   *)

\* A step that was visited ends the loop; otherwise its row is created.  A
\* task without any attempt fails without one.
EnterStep(e) ==
    /\ At(e, "step")
    /\ LET s == exec[e].cur IN
       IF s \in exec[e].visited /\ exec[e].attempt = 1
       THEN Go(e, "output") /\ UNCHANGED rows
       ELSE IF Is(e, {"task"}) /\ Now(e).max_attempts = 0
       THEN Go(e, "fail") /\ UNCHANGED rows
       ELSE /\ rows' = NewRow(e)
            /\ exec' = [exec EXCEPT ![e].at = IF Is(e, {"parallel", "map"}) THEN "spawn" ELSE "work",
                                    ![e].visited = @ \cup {s},
                                    ![e].row = Len(rows) + 1, ![e].ok = TRUE, ![e].done = 0]
    /\ ExecutionAlone /\ SignalsAlone /\ UNCHANGED <<tasks, mishaps>>

Exists(s) == s \in 1..Len(steps)

\* Where the loop goes after step s: by its next, or to the step after the
\* one the index stands at, which a next does not move.
Onward(x) ==
    LET n    == steps[x.cur].next
        y    == [x EXCEPT !.attempt = 1]
        jump == IF Exists(n) THEN [y EXCEPT !.at = "step", !.cur = n, !.onChoice = FALSE]
                ELSE [y EXCEPT !.at = "output"]
    IN  IF n # 0 THEN jump
        ELSE IF x.onChoice \/ ~Exists(x.index + 1) THEN [y EXCEPT !.at = "output"]
        ELSE [y EXCEPT !.at = "step", !.index = @ + 1, !.cur = x.index + 1]

Retry(e) == exec[e].attempt < Now(e).max_attempts

\* A task: it is tried again, in a new row, while it has attempts left.
TaskEnds(e, ok) ==
    /\ At(e, "work") /\ Is(e, {"task"}) /\ (ok \/ Now(e).fails)
    /\ rows' = Settled(exec[e].row, ok)
    /\ exec' = [exec EXCEPT ![e] =
                  IF ok THEN Onward(@)
                  ELSE IF Retry(e) THEN [@ EXCEPT !.at = "step", !.attempt = exec[e].attempt + 1]
                  ELSE [@ EXCEPT !.at = "fail"]]
    /\ ExecutionAlone /\ SignalsAlone /\ UNCHANGED <<tasks, mishaps>>

\* A wait is over, or fails when its config does not say how long.
WaitEnds(e) ==
    /\ At(e, "work") /\ Is(e, {"wait"})
    /\ rows' = Settled(exec[e].row, ~Now(e).fails)
    /\ exec' = [exec EXCEPT ![e] = IF Now(e).fails THEN [@ EXCEPT !.at = "fail"] ELSE Onward(@)]
    /\ ExecutionAlone /\ SignalsAlone /\ UNCHANGED <<tasks, mishaps>>

\* The config of a parallel, map, choice or signal step is of no use at all: the
\* step fails and its row is left running.
InvalidStep(e) ==
    /\ At(e, "work") /\ Is(e, {"invalid"})
    /\ Go(e, "fail")
    /\ ExecutionAlone /\ SignalsAlone /\ UNCHANGED <<rows, tasks, mishaps>>

\* A choice is recorded in the row ...
Decide(e, t) ==
    /\ At(e, "work") /\ Is(e, {"choice"}) /\ t \in Now(e).targets
    /\ rows' = [Settled(exec[e].row, TRUE) EXCEPT ![exec[e].row].choice = t]
    /\ Go(e, "route")
    /\ ExecutionAlone /\ SignalsAlone /\ UNCHANGED <<tasks, mishaps>>

RowsOfStep(s) == {k \in 1..Len(rows) : rows[k].step = s}

\* Mutant: the oldest row of the step is read.
DecisionFirst(e) == CHOOSE k \in RowsOfStep(exec[e].cur) : \A j \in RowsOfStep(exec[e].cur) : j >= k

\* ... and read from the newest row of the step, by started_at; rows of one
\* second are taken to come in the order of their insertion.
Decision(e) == CHOOSE k \in RowsOfStep(exec[e].cur) : \A j \in RowsOfStep(exec[e].cur) : j <= k

\* A row without a choice, or with one that is no step, ends the loop.
RouteChoice(e) ==
    /\ At(e, "route")
    /\ LET t == rows[Decision(e)].choice IN
       exec' = [exec EXCEPT ![e] =
                  IF Exists(t)
                  THEN [@ EXCEPT !.at = "step", !.cur = t, !.index = t, !.onChoice = TRUE]
                  ELSE [@ EXCEPT !.at = "output"]]
    /\ ExecutionAlone /\ SignalsAlone /\ UNCHANGED <<rows, tasks, mishaps>>
-----------------------------------------------------------------------------
(* Parallel and map steps: a task of its own for every branch or item.     *)

Batch(e) == IF Is(e, {"map"}) THEN Now(e).max_concurrency ELSE Now(e).items

Live == {t \in tasks : t.state \in {"spawned", "running"}}

Become(t, st) == tasks' = (tasks \ {t}) \cup {[t EXCEPT !.state = st]}

Spawned(e, K) ==
    tasks \cup {[by |-> e, step |-> exec[e].cur, kid |-> k, state |-> "spawned"] : k \in K}

BranchMissing(e) == Is(e, {"parallel"}) /\ Now(e).no_id \in 1..Now(e).items

\* A branch has no id: the step fails where the loop comes to it.  The row is
\* left running, and the branches spawned so far run on with nobody to join
\* them.
SpawnSome(e) ==
    /\ At(e, "spawn") /\ BranchMissing(e)
    /\ tasks' = Spawned(e, (exec[e].done + 1)..(Now(e).no_id - 1)) /\ Go(e, "fail")
    /\ ExecutionAlone /\ SignalsAlone /\ UNCHANGED <<rows, mishaps>>

\* The next batch; step_by(0) panics, which leaves everything as it is.
SpawnBatch(e) ==
    /\ At(e, "spawn") /\ exec[e].done < Now(e).items /\ ~BranchMissing(e)
    /\ LET upto == exec[e].done + Batch(e)
           last == IF upto < Now(e).items THEN upto ELSE Now(e).items
       IN  IF Batch(e) = 0
           THEN Go(e, "dropped") /\ UNCHANGED tasks
           ELSE /\ tasks' = Spawned(e, (exec[e].done + 1)..last)
                /\ exec' = [exec EXCEPT ![e].at = "join", ![e].done = last]
    /\ ExecutionAlone /\ SignalsAlone /\ UNCHANGED <<rows, mishaps>>

TaskRow(t) ==
    /\ t.state = "spawned" /\ Become(t, "running")
    /\ ExecutionAlone /\ SignalsAlone /\ UNCHANGED <<rows, exec, mishaps>>

\* A failure is noted by the executor that joins the task, if it is there.
Noted(t, ok) == IF exec[t.by].at \in Ended THEN exec ELSE [exec EXCEPT ![t.by].ok = @ /\ ok]

TaskDone(t, ok) ==
    /\ t.state = "running" /\ (ok \/ steps[t.step].fails)
    /\ Become(t, IF ok THEN "completed" ELSE "failed") /\ exec' = Noted(t, ok)
    /\ ExecutionAlone /\ SignalsAlone /\ UNCHANGED <<rows, mishaps>>

\* Mutant: the batch is not waited for.
JoinBatchEarly(e) ==
    /\ At(e, "join")
    /\ Go(e, IF exec[e].ok /\ exec[e].done < Now(e).items THEN "spawn" ELSE "settle")
    /\ ExecutionAlone /\ SignalsAlone /\ UNCHANGED <<rows, tasks, mishaps>>

\* Mutant: the tasks that failed are waited for.
JoinBatchCompleted(e) ==
    /\ At(e, "join") /\ \A t \in tasks : t.by = e => t.state = "completed"
    /\ Go(e, IF exec[e].ok /\ exec[e].done < Now(e).items THEN "spawn" ELSE "settle")
    /\ ExecutionAlone /\ SignalsAlone /\ UNCHANGED <<rows, tasks, mishaps>>

\* The batch is joined; a failure in it keeps the next from starting.
JoinBatch(e) ==
    /\ At(e, "join") /\ \A t \in Live : t.by # e
    /\ Go(e, IF exec[e].ok /\ exec[e].done < Now(e).items THEN "spawn" ELSE "settle")
    /\ ExecutionAlone /\ SignalsAlone /\ UNCHANGED <<rows, tasks, mishaps>>

\* The row of the step itself, at once when there are no branches or items.
SettleStep(e) ==
    /\ \/ At(e, "settle")
       \/ At(e, "spawn") /\ Now(e).items = 0
    /\ rows' = Settled(exec[e].row, exec[e].ok)
    /\ exec' = [exec EXCEPT ![e] = IF exec[e].ok THEN Onward(@) ELSE [@ EXCEPT !.at = "fail"]]
    /\ ExecutionAlone /\ SignalsAlone /\ UNCHANGED <<tasks, mishaps>>
-----------------------------------------------------------------------------
(* Signals.                                                                *)

\* A signal that no step waits for would only stay in the table.
SendSignal ==
    /\ status # "none" /\ sent < MaxSignals /\ \E s \in DOMAIN steps : steps[s].type = "signal"
    /\ sent' = sent + 1 /\ signals' = Append(signals, sent + 1)
    /\ ExecutionAlone /\ UNCHANGED <<rows, given, raced, exec, tasks, mishaps>>

\* check_signal reads the oldest ...
ReadSignal(e) ==
    /\ At(e, "work") /\ Is(e, {"signal"}) /\ signals # <<>>
    /\ exec' = [exec EXCEPT ![e].at = "delete", ![e].read = Head(signals)]
    /\ raced' = (raced \/ \E d \in Executors : At(d, "delete"))
    /\ ExecutionAlone /\ UNCHANGED <<rows, signals, sent, given, tasks, mishaps>>

\* Mutant: the newest is deleted.
DeleteSignalNewest(e) ==
    /\ At(e, "delete")
    /\ signals' = IF signals = <<>> THEN signals ELSE Front(signals)
    /\ given' = [given EXCEPT ![exec[e].read] = @ \cup {e}]
    /\ Go(e, "settle")
    /\ ExecutionAlone /\ UNCHANGED <<rows, sent, raced, tasks, mishaps>>

\* ... and then deletes the oldest, which may be another one by now.
DeleteSignal(e) ==
    /\ At(e, "delete")
    /\ signals' = IF signals = <<>> THEN signals ELSE Tail(signals)
    /\ given' = [given EXCEPT ![exec[e].read] = @ \cup {e}]
    /\ Go(e, "settle")
    /\ ExecutionAlone /\ UNCHANGED <<rows, sent, raced, tasks, mishaps>>

\* No signal, and the timeout has passed.
SignalTimeout(e) ==
    /\ At(e, "work") /\ Is(e, {"signal"}) /\ Now(e).timeout /\ signals = <<>>
    /\ exec' = [exec EXCEPT ![e].at = "settle", ![e].ok = FALSE]
    /\ ExecutionAlone /\ SignalsAlone /\ UNCHANGED <<rows, tasks, mishaps>>
-----------------------------------------------------------------------------
(* The end of an execution; nothing looks at the status it had.            *)

WriteOutput(e) ==
    /\ At(e, "output")
    /\ output' = e /\ Go(e, "complete")
    /\ SignalsAlone /\ UNCHANGED <<steps, status, rows, tasks, mishaps>>

\* Mutant: the status is left to the caller.
MarkCompletedNot(e) ==
    /\ At(e, "complete")
    /\ Go(e, "completed")
    /\ ExecutionAlone /\ SignalsAlone /\ UNCHANGED <<rows, tasks, mishaps>>

MarkCompleted(e) ==
    /\ At(e, "complete")
    /\ status' = "completed" /\ Go(e, "completed")
    /\ SignalsAlone /\ UNCHANGED <<steps, output, rows, tasks, mishaps>>

MarkFailed(e) ==
    /\ At(e, "fail")
    /\ status' = "failed" /\ Go(e, "failed")
    /\ SignalsAlone /\ UNCHANGED <<steps, output, rows, tasks, mishaps>>

\* cancel: the status alone; active_executions has no handle to abort.
CancelExecution ==
    /\ status \notin {"none", "cancelled"}
    /\ status' = "cancelled"
    /\ SignalsAlone /\ UNCHANGED <<steps, output, rows, exec, tasks, mishaps>>

CallsStorage(e) ==
    \/ exec[e].at \in {"begin", "route", "delete", "settle", "fail", "output", "complete"}
    \/ /\ At(e, "step") /\ (exec[e].cur \notin exec[e].visited \/ exec[e].attempt > 1)
       /\ ~(Is(e, {"task"}) /\ Now(e).max_attempts = 0)
    \/ At(e, "work") /\ ~Is(e, {"invalid"})
    \/ At(e, "spawn") /\ Now(e).items = 0

\* A storage call fails: inside a step the execution is marked failed,
\* elsewhere the call of the executor ends with the error.
StorageFails(e) ==
    /\ mishaps < MaxMishaps /\ CallsStorage(e)
    /\ mishaps' = mishaps + 1
    /\ Go(e, IF exec[e].at \in {"step", "work", "delete", "settle", "spawn"} THEN "fail"
             ELSE "errored")
    /\ ExecutionAlone /\ SignalsAlone /\ UNCHANGED <<rows, tasks>>

TaskStorageFails(t) ==
    /\ mishaps < MaxMishaps
    /\ mishaps' = mishaps + 1
    /\ Become(t, "lost") /\ exec' = Noted(t, FALSE)
    /\ ExecutionAlone /\ SignalsAlone /\ UNCHANGED rows

\* The executor's future is dropped (its caller went away), which leaves the
\* spawned tasks running, or its process crashes.
DropExecutor(e, crash) ==
    /\ exec[e].at \notin Ended \cup {"idle"} /\ mishaps < MaxMishaps
    /\ mishaps' = mishaps + 1 /\ Go(e, "dropped")
    /\ tasks' = IF crash THEN {IF t \in Live /\ t.by = e THEN [t EXCEPT !.state = "lost"] ELSE t :
                                t \in tasks}
                ELSE tasks
    /\ ExecutionAlone /\ SignalsAlone /\ UNCHANGED rows
-----------------------------------------------------------------------------
ExecutorStep(e) ==
    \/ BeginRunning(e) \/ EnterStep(e) \/ WaitEnds(e) \/ InvalidStep(e) \/ RouteChoice(e)
    \/ SpawnBatch(e) \/ SpawnSome(e) \/ JoinBatch(e) \/ SettleStep(e)
    \/ ReadSignal(e) \/ DeleteSignal(e) \/ SignalTimeout(e)
    \/ WriteOutput(e) \/ MarkCompleted(e) \/ MarkFailed(e)
    \/ \E ok \in BOOLEAN : TaskEnds(e, ok)
    \/ \E t \in 0..(Len(steps) + 1) : Decide(e, t)

WorkflowGoesOn ==
    \/ \E e \in Executors : ExecutorStep(e)
    \/ \E t \in Live : TaskRow(t) \/ \E ok \in BOOLEAN : TaskDone(t, ok)

WorkflowNext ==
    \/ WorkflowGoesOn
    \/ \E e \in Executors :
         StartExecution(e) \/ ResumeExecution(e) \/ StorageFails(e)
            \/ \E crash \in BOOLEAN : DropExecutor(e, crash)
    \/ \E t \in Live : TaskStorageFails(t)
    \/ SendSignal \/ CancelExecution

WorkflowSpec ==
    WorkflowInit /\ [][WorkflowNext]_workflowVars /\ WF_workflowVars(WorkflowGoesOn)
-----------------------------------------------------------------------------
(* Properties.                                                             *)

OwnRows(e, s) == {k \in RowsOfStep(s) : rows[k].by = e}
TasksOf(e, s) == {t \in tasks : t.by = e /\ t.step = s}

\* Each attempt follows the failure of the one before.
OneByOne(e, s) ==
    \A j, k \in OwnRows(e, s) :
      j < k => rows[j].state = "failed" /\ rows[j].attempt < rows[k].attempt

\* The attempts of a task follow each other: no more than the policy allows,
\* numbered in order, and each after the failure of the one before.
AttemptsInOrder ==
    \A e \in Executors : \A s \in DOMAIN steps :
      steps[s].type = "task" =>
        /\ Cardinality(OwnRows(e, s)) <= steps[s].max_attempts
        /\ OneByOne(e, s)

\* No batch of a map is larger than max_concurrency, and the row of a
\* parallel or map step is settled when its tasks are all over, completed
\* only if each of them completed.
KidsJoined ==
    \A e \in Executors : \A s \in DOMAIN steps :
      /\ steps[s].type = "map" =>
           Cardinality(TasksOf(e, s) \cap Live) <= steps[s].max_concurrency
      /\ steps[s].type \in {"parallel", "map"} =>
           \A k \in OwnRows(e, s) :
             /\ rows[k].state # "running" => TasksOf(e, s) \cap Live = {}
             /\ rows[k].state = "completed" =>
                  Cardinality({t \in TasksOf(e, s) : t.state = "completed"}) = steps[s].items

\* The last attempt of e at step s has completed.
LastCompleted(e, s) ==
    \E k \in OwnRows(e, s) : rows[k].state = "completed" /\ \A j \in OwnRows(e, s) : j <= k

\* An executor that calls the execution completed has completed every step
\* it came to, the last attempt of it.
CompletedHonestly ==
    \A e \in Executors : exec[e].at \in {"output", "complete", "completed"} =>
      \A s \in exec[e].visited : LastCompleted(e, s)

\* Each signal is stored until one executor gets it, and no other does, as
\* long as no two executors are in check_signal at a time.
SignalsOnce ==
    ~raced => \A s \in 1..sent :
      /\ \A d, e \in given[s] : d = e
      /\ (s \in ToSet(signals)) # (given[s] # {})

\* An execution is pending or running only while an executor has it, or after
\* one was dropped or could not write to the storage.
NobodyStranded ==
    status \in {"pending", "running"} =>
      \E e \in Executors : exec[e].at \notin {"idle", "completed", "failed"}

-----------------------------------------------------------------------------
(* What the executors keep for that, each on its own.                      *)

Working == {"work", "delete", "settle", "spawn", "join"}

\* The step that an executor is in has its newest row, which is settled when
\* the executor leaves the step.
InStep(e) ==
    LET x == exec[e] IN
    /\ x.at \in Working \cup {"step", "route"} => Exists(x.cur)
    /\ x.at \in Working \cup {"route"} =>
         /\ x.row \in OwnRows(e, x.cur) /\ \A k \in OwnRows(e, x.cur) : k <= x.row
         /\ x.at # "route" => rows[x.row].state = "running" /\ rows[x.row].attempt = x.attempt
    /\ x.at \in {"spawn", "join"} => Is(e, {"parallel", "map"}) /\ OwnRows(e, x.cur) = {x.row}
    /\ x.at = "delete" => Is(e, {"signal"}) /\ x.read \in Signal
    /\ x.at = "settle" => Is(e, {"parallel", "map", "signal"})
    /\ x.at = "begin" => e = Starter
    /\ x.at \in {"idle", "begin"} => x.cur = 1 /\ x.visited = {}

\* A step is tried again only after all its attempts have failed.
AttemptsNumbered(e) ==
    LET x == exec[e] IN
    /\ x.attempt >= 1
    /\ x.attempt > 1 /\ x.at \notin {"fail"} \cup Ended =>
         Exists(x.cur) /\ Is(e, {"task"}) /\ x.attempt <= Now(e).max_attempts /\ x.at \in {"step", "work"}
    /\ x.attempt > 1 /\ x.at = "step" =>
         \A k \in OwnRows(e, x.cur) : rows[k].state = "failed" /\ rows[k].attempt < x.attempt
    /\ \A s \in DOMAIN steps : steps[s].type = "task" =>
         OneByOne(e, s) /\ \A k \in OwnRows(e, s) : rows[k].attempt \in 1..steps[s].max_attempts

\* Only what was visited has rows and tasks, and what was visited and left is
\* completed, until the executor fails.
VisitedCompleted(e) ==
    LET x == exec[e] IN
    /\ \A k \in 1..Len(rows) : rows[k].by = e => rows[k].step \in x.visited
    /\ \A t \in tasks : t.by = e => t.step \in x.visited
    /\ x.at \notin {"fail", "failed", "errored", "dropped"} =>
         \A s \in x.visited :
           \/ LastCompleted(e, s)
           \/ s = x.cur /\ (x.at \in Working \/ (x.at = "step" /\ x.attempt > 1))

\* The tasks of a step are numbered from 1; none lives but those of the batch
\* that is being joined, or was spawned when the executor failed or was dropped.
KidsInTurn(e) ==
    LET x == exec[e] IN
    /\ \A t, u \in tasks : t.by = e /\ u.by = e /\ t.step = u.step /\ t.kid = u.kid => t = u
    /\ x.at \notin {"join", "fail"} \cup Ended => \A t \in Live : t.by # e
    /\ x.at \in {"spawn", "join"} =>
         /\ x.done <= Now(e).items /\ {t.kid : t \in TasksOf(e, x.cur)} = 1..x.done
         /\ x.ok => \A t \in TasksOf(e, x.cur) : t.state \notin {"failed", "lost"}
    /\ x.at = "spawn" => x.ok
    /\ x.at = "join" => \A t \in Live : t.by = e => t.step = x.cur
    /\ x.at = "settle" /\ x.ok /\ ~Is(e, {"signal"}) =>
         /\ {t.kid : t \in TasksOf(e, x.cur)} = 1..Now(e).items
         /\ \A t \in TasksOf(e, x.cur) : t.state = "completed"
    /\ \A s \in DOMAIN steps : steps[s].type = "map" =>
         \E n \in 0..steps[s].items : \A t \in TasksOf(e, s) \cap Live :
           t.kid \in (n + 1)..(n + steps[s].max_concurrency)
    /\ \A s \in DOMAIN steps : steps[s].type \in {"parallel", "map"} =>
         \A k \in OwnRows(e, s) :
           /\ rows[k].state # "running" => TasksOf(e, s) \cap Live = {}
           /\ rows[k].state = "completed" =>
                /\ {t.kid : t \in TasksOf(e, s)} = 1..steps[s].items
                /\ \A t \in TasksOf(e, s) : t.state = "completed"

ExecutorInv ==
    \A e \in Executors : InStep(e) /\ AttemptsNumbered(e) /\ VisitedCompleted(e) /\ KidsInTurn(e)

\* Signals are stored once each, and one that is being read is the oldest.
SignalsInOrder ==
    /\ \A i, j \in 1..Len(signals) : signals[i] = signals[j] => i = j
    /\ \A i \in 1..Len(signals) : signals[i] <= sent
    /\ \A s \in Signal : s > sent => given[s] = {}
    /\ \A e \in Executors : At(e, "delete") => exec[e].read <= sent
    /\ ~raced => \A e \in Executors : At(e, "delete") =>
         /\ \A d \in Executors : At(d, "delete") => d = e
         /\ signals # <<>> /\ exec[e].read = Head(signals)

\* The one that started the execution still has it.
StarterHasIt ==
    status \in {"pending", "running"} => exec[Starter].at \notin {"idle", "completed", "failed"}

\* What the executors of one execution keep between them, at every storage call.
WorkflowInv ==
    /\ WorkflowTypeOK /\ AttemptsInOrder /\ KidsJoined /\ CompletedHonestly
    /\ SignalsOnce /\ NobodyStranded
    /\ ExecutorInv /\ SignalsInOrder /\ StarterHasIt

\* An executor goes where its own choice says, unless another executor has
\* come to that step since.
ChoiceFollowed ==
    [][\A e \in Executors :
         At(e, "route") /\ exec'[e].at \in {"step", "output"} =>
           LET t == rows[exec[e].row].choice IN
           \/ \E k \in RowsOfStep(exec[e].cur) : k > exec[e].row
           \/ IF Exists(t) THEN exec'[e].at = "step" /\ exec'[e].cur = t
              ELSE exec'[e].at = "output"]_workflowVars

AtRest(e) ==
    \/ exec[e].at \in Ended \cup {"idle"}
    \/ At(e, "work") /\ Is(e, {"signal"}) /\ ~Now(e).timeout /\ signals = <<>>

\* Whatever the next fields say and whatever fails on the way, the executors
\* come to their ends, or wait for a signal that was not sent.
ExecutorsEnd == []<>(\A e \in Executors : AtRest(e))
=============================================================================
