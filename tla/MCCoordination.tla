--------------------------- MODULE MCCoordination ---------------------------
(* Lock: two tasks of one holder, which contend for the semaphore of the   *)
(* entry, and one task of another.  Scheduler: two scheduler objects of    *)
(* one node in one process (a node restarted in place).                    *)
EXTENDS Coordination, TLC

CONSTANTS t1, t2, t3, h1, h2, s1, s2, n1

MCHolderOf == (t1 :> h1) @@ (t2 :> h1) @@ (t3 :> h2)
MCNodeOf   == (s1 :> n1) @@ (s2 :> n1)
=============================================================================
