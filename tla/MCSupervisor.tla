---------------------------- MODULE MCSupervisor ----------------------------
\* Two children, one restarted always and one only after an abnormal exit; two callers.
\* adaptOne restarts one for one until it adapts.
EXTENDS Supervisor

CONSTANTS c1, c2, k1, k2

MCCallers == {c1, c2}
MCKids == <<k1, k2>>
MCPolicy == k1 :> "permanent" @@ k2 :> "transient"
MCStrategies == {"all", "rest", "adaptOne"}
=============================================================================
