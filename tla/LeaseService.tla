---------------------------- MODULE LeaseService ----------------------------
(***************************************************************************)
(* What a lock manager (trait LockManager, crates/locks/src/manager.rs)    *)
(* promises its clients for one key: the lease has at most one owner, it   *)
(* passes from one owner to another only through a moment at which nobody  *)
(* owns it, and a client believes it holds the lease only while it does.   *)
(***************************************************************************)
CONSTANTS
    Holders,  \* the holder_id of every client
    Nobody    \* the lease is free (not a holder)

VARIABLES
    owner,     \* the holder of the live lease, or Nobody
    believers  \* the holders with an unexpired Lock in hand

Init == owner = Nobody /\ believers = {}

\* A free lease is granted; the answer may be lost.
Grant(h) ==
    /\ owner = Nobody
    /\ owner' = h
    /\ believers' \in {{}, {h}}

\* The owner acquires again or renews.
Confirm(h) ==
    /\ owner = h
    /\ believers' = {h}
    /\ UNCHANGED owner

\* The owner forgets, or its own copy of the lease expires first.
Fade ==
    /\ believers' = {}
    /\ UNCHANGED owner

\* The lease is released or expires.
Vacate ==
    /\ owner' = Nobody
    /\ believers' = {}

Next ==
    \/ Fade
    \/ Vacate
    \/ \E h \in Holders : Grant(h) \/ Confirm(h)

Spec == Init /\ [][Next]_<<owner, believers>>
=============================================================================
