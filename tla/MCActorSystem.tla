---------------------------- MODULE MCActorSystem ----------------------------
(* Virtual actors: two calls for one actor, one for another, room for one. *)
(* Asks: two requests.  Links: an actor that may live twice and another    *)
(* that monitors it.  Groups: two clients, two joiners.                    *)
EXTENDS ActorSystem

CONSTANTS c1, c2, c3, a1, a2, x, y

MCTarget   == [c \in Callers |-> IF c = c3 THEN a2 ELSE a1]
MCWatched  == [r \in Refs |-> x]
MCWatching == [r \in Refs |-> y]
MCLives    == [m \in Members |-> IF m = x THEN 2 ELSE 1]
==============================================================================
