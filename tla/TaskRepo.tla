------------------------------ MODULE TaskRepo ------------------------------
(***************************************************************************)
(* A task and its repository: worktree slot, assignment and pushes, which   *)
(* share the task's row, its runs and the worktree, and the approvals that  *)
(* pushes to protected branches need.  A caller has one call in progress.   *)
(***************************************************************************)
EXTENDS Assignment, GitPush

vars == <<task, dirty, runs, slotVars, boundVars, assignVars, authVars, pushVars>>

TypeOK == SlotTypeOK /\ AssignTypeOK /\ AuthTypeOK /\ PushTypeOK

Init == SlotInit /\ AssignInit /\ AuthInit /\ PushInit

Free3(c) == call[c] = Idle /\ assign[c] = NotAssigning /\ push[c] = NotPushing

\* A worktree that is created has the task's branch checked out.
CheckedOut == branch' = IF dir' /\ ~dir THEN TaskBranch ELSE branch
RestOfRepo == UNCHANGED <<local, remote, commits, identity, push, moved>>

Slot(c) ==
    /\ call[c] = Idle => Free3(c)
    /\ SlotStep(c) /\ CheckedOut /\ RestOfRepo
    /\ UNCHANGED <<task, runs, assignVars, authVars>>

Assign(c) ==
    /\ assign[c] = NotAssigning => Free3(c)
    /\ (\E key \in Keys \cup {"none"} : BeginAssign(c, key)) \/ StartRun(c) \/ FinishAssign(c)
    /\ UNCHANGED <<authVars, pushVars>>

Pushes(c) ==
    /\ push[c] = NotPushing => Free3(c)
    /\ \/ \E p \in Principals, target \in Targets : BeginPush(c, p, target)
       \/ \E p \in Principals, target \in Targets : BeginPushProtected(c, p, target)
       \/ ResolveDestination(c) \/ StartLoop(c)
       \/ (Stage(c) \/ Commit(c) \/ Compare(c) \/ Push(c)) /\ UNCHANGED <<authVars, boundVars>>
    /\ UNCHANGED <<task, runs, slotVars, assignVars>>

CallDies(c) ==
    /\ ~Free3(c) /\ crashes < MaxCrashes /\ crashes' = crashes + 1
    /\ \/ call[c] # Idle /\ SlotCallDies(c) /\ CheckedOut /\ RestOfRepo /\ UNCHANGED <<assignVars, runs>>
       \/ assign[c] # NotAssigning /\ AssignDies(c) /\ UNCHANGED <<slotVars, dirty, pushVars, runs>>
       \/ push[c] # NotPushing /\ PushDies(c) /\ UNCHANGED <<slotVars, dirty, assignVars, runs>>
    /\ UNCHANGED <<task, authVars, calls>>

\* Approvals of protected pushes are granted, expire; principals are revoked,
\* which the bound counts as a call.
Authority ==
    /\ AuthStep("git:push-protected")
    /\ IF revoked' = revoked THEN UNCHANGED calls ELSE NewCall
    /\ UNCHANGED <<task, dirty, runs, slotVars, crashes, assignVars, pushVars>>

\* Time passes: a claim is 60 seconds old, a lease outlives its time.
Time ==
    \/ Ages /\ UNCHANGED <<task, runs, assignVars, authVars, pushVars>>
    \/ IdentityLapses /\ UNCHANGED <<task, dirty, runs, slotVars, boundVars, assignVars, authVars>>

\* The task's runs and its people.
Others ==
    \/ (RunEnds \/ Operator) /\ UNCHANGED <<authVars, pushVars>>
    \/ Edit /\ UNCHANGED <<task, runs, slotVars, boundVars, assignVars, authVars>>
    \/ \E b \in Branches : Checkout(b) /\ UNCHANGED <<task, dirty, runs, slotVars, boundVars,
                                                      assignVars, authVars>>

Next ==
    \/ \E c \in Callers : Slot(c) \/ Assign(c) \/ Pushes(c) \/ CallDies(c)
    \/ Authority \/ Time \/ Others

Spec == Init /\ [][Next]_vars
=============================================================================
