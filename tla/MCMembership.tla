---------------------------- MODULE MCMembership ----------------------------
(* Detection: an observer with a peer and a seed placeholder at the peer's *)
(* address.  Dissemination: two nodes that gossip about one of them.       *)
EXTENDS Membership

Answers == [i \in Ids |-> IF i \in Nodes THEN i ELSE CHOOSE n \in Nodes \ Observers : TRUE]
=============================================================================
