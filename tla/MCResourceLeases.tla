-------------------------- MODULE MCResourceLeases --------------------------
(* Small instances of ResourceLeases.                                      *)
EXTENDS ResourceLeases

CONSTANTS w1, w2, cto

(* One exclusive policy as the built-in defaults declare it, one that      *)
(* carries the capacity resources.json tolerates on it, and two semaphores. *)
MCPolicies == {[kind |-> "exclusive", capacity |-> 0],
               [kind |-> "exclusive", capacity |-> 2],
               [kind |-> "counted", capacity |-> 1],
               [kind |-> "counted", capacity |-> 2]}

MCPrincipals == {w1, w2, cto}
MCWorkers == {w1, w2}
MCRunOwner == [r \in Runs |-> w2]
=============================================================================
