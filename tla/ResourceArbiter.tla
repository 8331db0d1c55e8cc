-------------------------- MODULE ResourceArbiter --------------------------
(***************************************************************************)
(* What leases on shared resources promise, with no clock, no rows and no  *)
(* runs: a claim is admitted to a resource at most once, under terms every *)
(* present holder agrees with and while they leave room, and a claim that  *)
(* has left stays out.  ResourceLeases is shown to implement it.           *)
(***************************************************************************)
EXTENDS Naturals, FiniteSets

CONSTANTS
    Claims,
    Resources,
    Terms,     \* [kind, capacity]
    None       \* the terms of a claim never admitted

VARIABLES
    holders,   \* who is admitted to each resource now
    terms      \* the terms each claim was admitted under

vars == <<holders, terms>>

Room(t) == IF t.kind = "exclusive" THEN 1 ELSE t.capacity

Init ==
    /\ holders = [r \in Resources |-> {}]
    /\ terms = [c \in Claims |-> None]

Admit(c, r, t) ==
    /\ terms[c] = None
    /\ \A d \in holders[r] : terms[d] = t
    /\ Cardinality(holders[r]) < Room(t)
    /\ holders' = [holders EXCEPT ![r] = @ \cup {c}]
    /\ terms' = [terms EXCEPT ![c] = t]

(* Claims leave one at a time, with a run, or together when time passes. *)
Leave(S) ==
    /\ holders' = [r \in Resources |-> holders[r] \ S]
    /\ UNCHANGED terms

Next ==
    \/ \E c \in Claims, r \in Resources, t \in Terms : Admit(c, r, t)
    \/ \E S \in SUBSET Claims : Leave(S)

Spec == Init /\ [][Next]_vars
=============================================================================
