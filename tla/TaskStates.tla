----------------------------- MODULE TaskStates -----------------------------
(***************************************************************************)
(* The task state machine of supervisor/domain/task-states.js: which state *)
(* may follow which, and what a transition needs besides.                  *)
(***************************************************************************)
EXTENDS Naturals

STATES == {"created", "starting", "start-failed", "planning", "implementing", "blocked",
           "awaiting-review", "fixing", "approved", "merged", "failed", "cancelled"}
IN_FLIGHT == {"planning", "implementing", "awaiting-review", "fixing"}
TERMINAL == {"merged", "start-failed", "failed", "cancelled"}

Edges ==
    {<<"created", "starting">>, <<"starting", "planning">>, <<"starting", "start-failed">>,
     <<"planning", "implementing">>, <<"implementing", "awaiting-review">>,
     <<"implementing", "blocked">>, <<"blocked", "implementing">>,
     <<"awaiting-review", "fixing">>, <<"fixing", "awaiting-review">>,
     <<"awaiting-review", "approved">>, <<"approved", "merged">>}
    \cup ((IN_FLIGHT \cup {"blocked", "approved"}) \X {"failed", "cancelled"})
    \cup ({"start-failed", "failed", "cancelled"} \X {"created"})

(* What the guards need to know besides the two states: is a human behind  *)
(* it, is it an explicit retry, is an ask open, how many reviewers spoke.  *)
Context == [humanApproved : BOOLEAN, explicitRetry : BOOLEAN, askOpen : BOOLEAN,
            reviewerVerdicts : Nat, requiredVerdicts : Nat]

CanTransition(from, to, context) ==
    /\ <<from, to>> \in Edges
    /\ to = "merged" => context.humanApproved
    /\ to = "created" => context.explicitRetry
    /\ to = "approved" => context.reviewerVerdicts >= context.requiredVerdicts
    /\ to = "blocked" => context.askOpen
    /\ from = "blocked" /\ to = "implementing" => ~context.askOpen
=============================================================================
