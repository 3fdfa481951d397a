------------------------------ MODULE MCLocks ------------------------------
(* Two clients with leases of different lengths; the clock passes both     *)
(* leases twice and every client can acquire, renew and lose answers.      *)
EXTENDS Locks, TLC

CONSTANTS h1, h2

MCHolders == {h1, h2}
MCLease   == (h1 :> 1) @@ (h2 :> 2)
=============================================================================
