----------------------------- MODULE Membership -----------------------------
(***************************************************************************)
(* The two halves of SWIM in the node registry.  The pings of              *)
(* run_swim_loop carry no updates and apply none, so that detection        *)
(* (Swim) and dissemination (SwimGossip) never meet in one message: a      *)
(* behaviour is one of the one or of the other.                            *)
(***************************************************************************)
EXTENDS Swim, SwimGossip

VARIABLE half   \* the half of the protocol that is followed

membershipVars == <<half, vars, gossipVars>>

MembershipInit ==
    /\ half \in {"detection", "dissemination"}
    /\ Init
    /\ GossipInit
    /\ half = "dissemination" => foreign = {}

MembershipNext ==
    \/ /\ half = "detection"
       /\ Next
       /\ UNCHANGED <<half, gossipVars>>
    \/ /\ half = "dissemination"
       /\ GossipNext
       /\ UNCHANGED <<half, vars>>

\* The loop ticks; it probes its active members in turn and collects a suspect
\* whose timeout has elapsed.
Detecting(A) == half = "detection" /\ A

MembershipFairness(n) ==
    /\ WF_vars(Detecting(ProbeLoop(n)))
    /\ \A i \in Nodes \ Observers :
        /\ SF_vars(Detecting(SelectProbeTarget(n, i)))
        /\ SF_vars(Detecting(\E S \in SUBSET Ids : i \in S /\ CollectTimeouts(n, S)))

MembershipSpec ==
    /\ MembershipInit
    /\ [][MembershipNext]_membershipVars
    /\ \A n \in Observers : MembershipFairness(n)

\* Nobody is suspected without cause (check_suspect_timeouts and the probe loop),
\* and only a node mints its incarnations (apply_updates, refute).
MembershipInv == RegistryInv /\ GossipInv
=============================================================================
