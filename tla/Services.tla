------------------------------ MODULE Services ------------------------------
(***************************************************************************)
(* Services that the tasks of a process share: the tuple space, the        *)
(* circuit breaker and the workflow executor.  Each is followed on its     *)
(* own.                                                                    *)
(***************************************************************************)
EXTENDS TupleSpace, CircuitBreaker, Workflow

VARIABLE shared   \* the one that is followed

servicesVars == <<shared, spaceVars, breakerVars, workflowVars>>

\* A service that is not followed stays as it is made, with a fixed backend,
\* config or definition.
ServicesInit ==
    /\ shared \in {"space", "breaker", "workflow"}
    /\ TupleSpaceInit /\ BreakerInit /\ WorkflowInit
    /\ shared # "space" => backend = "memory"
    /\ shared # "breaker" => config = CHOOSE k \in Configs : TRUE
    /\ shared # "workflow" => steps = CHOOSE d \in Definitions : TRUE

Sharing(A)  == shared = "space" /\ A /\ UNCHANGED <<shared, breakerVars, workflowVars>>
Breaking(A) == shared = "breaker" /\ A /\ UNCHANGED <<shared, spaceVars, workflowVars>>
Flowing(A)  == shared = "workflow" /\ A /\ UNCHANGED <<shared, spaceVars, breakerVars>>

ServicesNext == Sharing(TupleSpaceNext) \/ Breaking(BreakerNext) \/ Flowing(WorkflowNext)

\* The runtime polls every task that can make progress and a receiver that is
\* kept is read; nothing makes anybody call the space, or start, resume or
\* signal a workflow.  A breaker's time passes, its requests keep coming, and
\* one that is not dropped reports.
ServicesFairness ==
    /\ WF_servicesVars(Sharing(TupleSpaceGoesOn))
    /\ WF_servicesVars(Flowing(WorkflowGoesOn))
    /\ WF_servicesVars(Breaking(Elapse))
    /\ \A c \in Callers : /\ WF_servicesVars(Breaking(Request(c)))
                          /\ WF_servicesVars(Breaking(Succeed(c) \/ Fail(c)))

ServicesSpec == ServicesInit /\ [][ServicesNext]_servicesVars /\ ServicesFairness
=============================================================================
