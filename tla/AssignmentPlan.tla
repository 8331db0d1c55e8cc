--------------------------- MODULE AssignmentPlan ---------------------------
(***************************************************************************)
(* What assigning a task would start: domain/workflow-profiles.js, which    *)
(* roles a type of task needs, and planAssignment of domain/assignment.js, *)
(* which fills them with the task's workers and their configured harness.   *)
(* A config slot ("reviewer2") is the pair of its role and its rank in it.  *)
(***************************************************************************)
EXTENDS Naturals, FiniteSets, SequencesExt

\* profileFor, field by field; an unknown type is ordinary work
RolesFor(type) ==
    CASE type = "bug"              -> <<"coder", "reviewer">>
      [] type = "review"           -> <<"parentReviewer">>
      [] type \in {"adhoc", "chore"} -> <<"coder">>
      [] type = "git-push-task"    -> <<"git-push-runner">>
      [] type = "jira-task"        -> <<"jira-runner">>
      [] type = "awsquery-task"    -> <<"awsquery-runner">>
      [] type = "slack-task"       -> <<"slack-runner">>
      [] OTHER                     -> <<"coder", "reviewer", "reviewer">>
\* with only a reviewer there is nobody to do the work
WorkRolesFor(type) == ToSet(RolesFor(type)) \ {"reviewer"}

(* planAssignment.  `workers` are records of an id and a role, in the order *)
(* of their nicknames, `harness` maps the configured slots to a harness     *)
(* ("null": an entry that names none), `open` are workers with an open run. *)
WorkersOfRole(workers, role) == SelectSeq(workers, LAMBDA w : w.role = role)
ConfigSlot(roles, i) == <<roles[i], Cardinality({j \in 1..i : roles[j] = roles[i]})>>

PlanAssignment(type, workers, harness, open) ==
    LET roles == RolesFor(type)
        Fill(plan, i) ==
            LET config == ConfigSlot(roles, i)
                candidates == SelectSeq(WorkersOfRole(workers, roles[i]),
                                        LAMBDA w : w.id \notin plan.used)
                unfilled == [plan EXCEPT !.unfillable = Append(@, config)]
            IN IF candidates = <<>> \/ config \notin DOMAIN harness THEN unfilled
               ELSE LET id == candidates[1].id
                    IN IF harness[config] = "null" THEN [unfilled EXCEPT !.used = @ \cup {id}]
                       ELSE [plan EXCEPT !.used = @ \cup {id},
                                         !.slots = Append(@, [role |-> roles[i], worker |-> id,
                                                              alreadyRunning |-> id \in open])]
    IN FoldLeftDomain(Fill, [slots |-> <<>>, unfillable |-> <<>>, used |-> {}], roles)

Startable(plan) == SelectSeq(plan.slots, LAMBDA s : ~s.alreadyRunning)
IsActionable(type, plan) == \E s \in ToSet(plan.slots) : s.role \in WorkRolesFor(type)
=============================================================================
