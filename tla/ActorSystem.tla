----------------------------- MODULE ActorSystem -----------------------------
(***************************************************************************)
(* The services around an actor on one node: activation of virtual actors, *)
(* request and reply, links and monitors, process groups.  They share no   *)
(* state beyond the sender of an actor, so that each is followed on its    *)
(* own: a behaviour is one of one service.                                 *)
(***************************************************************************)
EXTENDS VirtualActors, Asks, Links, ProcessGroups

VARIABLE service   \* the service that is followed

actorVars == <<service, virtualVars, askVars, linkVars, groupVars>>

ActorInit ==
    /\ service \in {"virtual", "ask", "links", "groups"}
    /\ VirtualInit /\ AsksInit /\ LinksInit /\ GroupInit

ActorNext ==
    \/ /\ service = "virtual" /\ VirtualNext
       /\ UNCHANGED <<service, askVars, linkVars, groupVars>>
    \/ /\ service = "ask" /\ AsksNext
       /\ UNCHANGED <<service, virtualVars, linkVars, groupVars>>
    \/ /\ service = "links" /\ LinksNext
       /\ UNCHANGED <<service, virtualVars, askVars, groupVars>>
    \/ /\ service = "groups" /\ GroupNext
       /\ UNCHANGED <<service, virtualVars, askVars, linkVars>>

\* As long as a task can take a step, some task takes one.  No step is taken
\* twice in vain, so that this weak assumption on the runtime is enough.
GoesOn ==
    \/ /\ service = "virtual" /\ VirtualGoesOn
       /\ UNCHANGED <<service, askVars, linkVars, groupVars>>
    \/ /\ service = "ask" /\ AsksGoOn
       /\ UNCHANGED <<service, virtualVars, linkVars, groupVars>>
    \/ /\ service = "links" /\ LinksGoOn
       /\ UNCHANGED <<service, virtualVars, askVars, groupVars>>

ActorSpec == ActorInit /\ [][ActorNext]_actorVars /\ WF_actorVars(GoesOn)
=============================================================================
