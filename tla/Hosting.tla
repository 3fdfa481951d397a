------------------------------ MODULE Hosting ------------------------------
(***************************************************************************)
(* What a node hosts: its applications, its elastic pools of workers and   *)
(* the journal of a durable actor.  Each is followed on its own.           *)
(***************************************************************************)
EXTENDS ElasticPool, Durability, Applications

VARIABLE hosted   \* the one that is followed

hostingVars == <<hosted, poolVars, durabilityVars, applicationsVars>>

\* The others stay as they are made, with a fixed configuration and without
\* applications.
HostingInit ==
    /\ hosted \in {"pool", "journal", "applications"}
    /\ PoolInit /\ DurabilityInit /\ ApplicationsInit
    /\ hosted # "journal" => setup = CHOOSE u \in Setups : TRUE
    /\ hosted # "applications" => listed = {} /\ release = CHOOSE r \in Releases : TRUE

Pooling(A)    == hosted = "pool" /\ A /\ UNCHANGED <<hosted, durabilityVars, applicationsVars>>
Journaling(A) == hosted = "journal" /\ A /\ UNCHANGED <<hosted, poolVars, applicationsVars>>
Managing(A)   == hosted = "applications" /\ A /\ UNCHANGED <<hosted, poolVars, durabilityVars>>

HostingNext == Pooling(PoolNext) \/ Journaling(DurabilityNext) \/ Managing(ApplicationsNext)

HostingSpec == HostingInit /\ [][HostingNext]_hostingVars

\* A pool that nobody scales: clients give back what they use, calls end, and
\* a checkout that waits times out.
DrainingSpec ==
    /\ HostingInit /\ hosted = "pool"
    /\ [][Pooling((\E c \in Clients : ClientNext(c)) \/ DrainNext)]_hostingVars
    /\ \A c \in Clients : /\ WF_hostingVars(Pooling(CheckinMark(c)))
                          /\ WF_hostingVars(Pooling(Progress(c)))
                          /\ WF_hostingVars(Pooling(CheckoutTimeout(c)))
=============================================================================
