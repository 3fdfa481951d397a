----------------------------- MODULE MCHosting -----------------------------
(* Three clients.  Pool: up to two workers.  Journal: two messages, of      *)
(* which one has a side effect and may be refused, one promise, and one    *)
(* restart, of seven kinds of actors.  Applications: two names, of which a *)
(* release lists one or none.                                              *)
EXTENDS Hosting, TLC

CONSTANTS c1, c2, c3, m1, m2, p1, b1, b2

MCReleases == {<<>>, <<b1>>}

\* A plain actor, one that refuses a message, one that captures nothing, one
\* without replay, a compressed one, a native component, and one whose codec
\* the build is without.
MCPlain == [captures |-> TRUE, restores |-> TRUE, replay |-> TRUE, compression |-> "none",
            poison |-> {}]
MCSetups ==
    {MCPlain, [MCPlain EXCEPT !.poison = {m2}], [MCPlain EXCEPT !.captures = FALSE],
     [MCPlain EXCEPT !.replay = FALSE], [MCPlain EXCEPT !.compression = "codec"],
     [MCPlain EXCEPT !.restores = FALSE], [MCPlain EXCEPT !.compression = "absent"]}

\* Nothing distinguishes the clients of the pool, nor, under the same names, those
\* of the promises and of the application service.
Symmetric == Permutations(Clients)
=============================================================================
