----------------------------- MODULE Assignment -----------------------------
(***************************************************************************)
(* assignTask of runtime/supervisor.js: the idempotency claim, the plan,    *)
(* the starts, which it waits for one after the other, and what it makes of *)
(* those that failed.  A run is spawned in the worktree the call read first. *)
(***************************************************************************)
EXTENDS WorktreeSlot, AssignmentPlan

CONSTANTS
    Keys,       \* idempotency keys; "none": the caller gives none
    TaskType,
    Workers,    \* the task's workers, in the order of their nicknames
    Harness     \* harness-defaults.json: the configured slots and their harness

VARIABLES
    record,     \* the assignment record: key and status
    assign      \* calls of assignTask: the workers still to start, and whether any run is live

assignVars == <<record, assign>>

WorkerIds == {w.id : w \in ToSet(Workers)}
NotAssigning == [pc |-> "idle", cwd |-> "null", key |-> "none", todo |-> <<>>, live |-> FALSE]
NoRecord == [key |-> "none", status |-> "none"]
NoContext == [humanApproved |-> FALSE, explicitRetry |-> FALSE, askOpen |-> FALSE,
              reviewerVerdicts |-> 0, requiredVerdicts |-> 0]

AssignTypeOK ==
    /\ record \in [key : Keys \cup {"none"}, status : {"none", "in-progress", "done"}]
    /\ \A c \in Callers : /\ assign[c].pc \in {"idle", "starting"}
                          /\ assign[c].cwd \in {"null", "path", "pending"}
                          /\ assign[c].key \in Keys \cup {"none"}
                          /\ ToSet(assign[c].todo) \subseteq WorkerIds /\ assign[c].live \in BOOLEAN
    /\ runs \in [WorkerIds -> Nat]

\* New, or cancelled, with every run still open: cancelling stops none.
AssignInit ==
    /\ \/ task = "created" /\ runs = [w \in WorkerIds |-> 0]
       \/ task = "cancelled" /\ \E n \in {0, 1} : runs = [w \in WorkerIds |-> n]
    /\ record = NoRecord
    /\ assign = [c \in Callers |-> NotAssigning]

\* the answer to a repeated call is the record, not a second start
AlreadyClaimed(key) == key # "none" /\ record.key = key

\* the outcome of the starts, as the task's state
OnlyFailures(state, live) == IF state = "starting" /\ ~live THEN "start-failed" ELSE state
Compensated(state, live) ==
    IF state # "starting" THEN state ELSE IF live THEN "planning" ELSE "start-failed"

(* Up to the first start: refusals, the record, created -> starting.  When  *)
(* everybody runs already there is nothing to start and the call ends here. *)
BeginAssign(c, key) ==
    LET plan == PlanAssignment(TaskType, Workers, Harness, {w \in WorkerIds : runs[w] > 0})
        todo == [i \in DOMAIN Startable(plan) |-> Startable(plan)[i].worker]
        live == \E s \in ToSet(plan.slots) : s.alreadyRunning
        starting == IF CanTransition(task, "starting", NoContext) THEN "starting" ELSE task
    IN /\ assign[c] = NotAssigning /\ NewCall
       /\ task \notin TERMINAL
       /\ ~AlreadyClaimed(key)
       /\ IsActionable(TaskType, plan)
       /\ IF todo = <<>>
          THEN /\ record' = [key |-> key, status |-> "done"]
               /\ task' = Compensated(starting, live)
               /\ UNCHANGED assign
          ELSE /\ record' = [key |-> key, status |-> "in-progress"]
               /\ task' = starting
               /\ assign' = [assign EXCEPT ![c] = [pc |-> "starting", cwd |-> slot.val,
                                                   key |-> key, todo |-> todo, live |-> live]]
       /\ UNCHANGED <<runs, slotVars, dirty, crashes>>

(* start, of the next worker: a process in the worktree, or wherever the    *)
(* daemon runs if there was none; the marker of a claim is no directory.    *)
(* One that fails is noted, and the next one is tried.                     *)
StartRun(c) ==
    /\ assign[c].todo # <<>>
    /\ \/ /\ assign[c].cwd = "null" \/ (assign[c].cwd = "path" /\ dir)
          /\ runs' = [runs EXCEPT ![Head(assign[c].todo)] = @ + 1]
          /\ assign' = [assign EXCEPT ![c].todo = Tail(@), ![c].live = TRUE]
       \/ assign' = [assign EXCEPT ![c].todo = Tail(@)] /\ UNCHANGED runs
    /\ UNCHANGED <<record, task, slotVars, dirty, boundVars>>

FinishAssign(c) ==
    /\ assign[c].pc = "starting" /\ assign[c].todo = <<>>
    /\ task' = Compensated(task, assign[c].live)
    /\ record' = [key |-> assign[c].key, status |-> "done"]
    /\ assign' = [assign EXCEPT ![c] = NotAssigning]
    /\ UNCHANGED <<runs, slotVars, dirty, boundVars>>

AssignDies(c) == assign' = [assign EXCEPT ![c] = NotAssigning] /\ UNCHANGED record

RunEnds ==
    /\ \E w \in WorkerIds : runs[w] > 0 /\ runs' = [runs EXCEPT ![w] = @ - 1]
    /\ UNCHANGED <<task, slotVars, dirty, boundVars, assignVars>>

\* An operator cancels the task, or tries a failed one again.
Operator ==
    /\ \E to \in {"cancelled", "created"} :
          CanTransition(task, to, [NoContext EXCEPT !.explicitRetry = TRUE]) /\ task' = to
    /\ UNCHANGED <<runs, slotVars, dirty, boundVars, assignVars>>
-----------------------------------------------------------------------------
(* A task is in `starting` only while somebody is starting it: whatever     *)
(* calls overlap and however their starts end, one of them books the        *)
(* outcome (the compensation of assignTask).  A crash is another matter:    *)
(* nothing takes the task out of `starting` again.                         *)
NoStrandedStart == task = "starting" /\ crashes = 0 => \E c \in Callers : assign[c] # NotAssigning
=============================================================================
