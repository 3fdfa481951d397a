----------------------------- MODULE MCServices -----------------------------
(* Space: three clients, two of them in one process, and a watcher with    *)
(* room for one event.  Breaker: three requests, with each of the three    *)
(* strategies, and two configs with fields left out.  Workflow: every type *)
(* of step, one executor that starts and one that resumes.                 *)
EXTENDS Services, TLC

CONSTANTS u1, u2, u3, a1, a2, g1, g2, x1, x2

MCHomeOf == (u1 :> a1) @@ (u2 :> a2) @@ (u3 :> a1)

MCConfig(strategy, failure, success, half, size) ==
    [failure_strategy |-> strategy, failure_threshold |-> failure,
     success_threshold |-> success, max_half_open_requests |-> half,
     window_size |-> size, minimum_requests |-> 2]

MCConfigs ==
    {MCConfig("consecutive", 3, 2, 1, 0), MCConfig("consecutive", 2, 3, 2, 2),
     MCConfig("sliding_window", 2, 2, 1, 3), MCConfig("error_rate", 50, 2, 1, 3),
     MCConfig("consecutive", 0, 1, 0, 0), MCConfig("sliding_window", 0, 0, 1, 2)}

MCTask == [type |-> "task", next |-> 0, max_attempts |-> 1, fails |-> FALSE, items |-> 0,
           max_concurrency |-> 0, no_id |-> 0, targets |-> {}, timeout |-> FALSE]
MCStep(type) == [MCTask EXCEPT !.type = type]

\* A step that is retried; a signal with a timeout; a signal without, and a
\* cycle; a choice of an end, a step that names no step, a task without attempts
\* and a wait that does not say how long; branches that may fail, all there or
\* the second without an id; two batches and an invalid step; a map with
\* max_concurrency 0 after an empty one.
MCDefinitions ==
    {<<>>,
     <<[MCTask EXCEPT !.max_attempts = 2, !.fails = TRUE], MCStep("wait")>>,
     <<MCTask, [MCStep("signal") EXCEPT !.timeout = TRUE]>>,
     <<MCStep("signal"), [MCStep("wait") EXCEPT !.next = 1]>>,
     <<[MCStep("choice") EXCEPT !.targets = {0, 2, 3, 4}], [MCTask EXCEPT !.next = 9],
       [MCTask EXCEPT !.max_attempts = 0], [MCStep("wait") EXCEPT !.fails = TRUE]>>,
     <<[MCStep("parallel") EXCEPT !.items = 2, !.fails = TRUE]>>,
     <<[MCStep("parallel") EXCEPT !.items = 2, !.no_id = 2, !.fails = TRUE]>>,
     <<[MCStep("map") EXCEPT !.items = 2, !.max_concurrency = 1], MCStep("invalid")>>,
     <<MCStep("map"), [MCStep("map") EXCEPT !.items = 2]>>}
=============================================================================
