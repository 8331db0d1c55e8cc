------------------------------- MODULE GitPush -------------------------------
(***************************************************************************)
(* Pushing a task's work: the gitPush and gitPushProtected commands of     *)
(* runtime/supervisor.js and the fight loop of agents/git-create-push.js.   *)
(*                                                                         *)
(* Every git command is waited for.  Meanwhile the worktree's users edit it *)
(* and check out another branch, the git:identity lease lapses, and other  *)
(* calls run.  A branch's history is the set of its commits.               *)
(***************************************************************************)
EXTENDS WorktreeSlot, Authorization

CONSTANTS
    Branches,     \* branches of the repository, each by its plain name
    Targets,      \* strings that callers pass as targetBranch; "none": null
    RefOf,        \* the branch git takes the destination of a refspec for (git's own)
    PROTECTED,    \* the names listed in protected-branches.json
    TaskBranch,   \* the branch the worktree was created on
    MaxCommits    \* bound: commits made

\* Destinations as the code handles them: strings.  A branch may have several.
Names == (Targets \ {"none"}) \cup Branches

ASSUME BranchAssumption ==
    /\ RefOf \in [Names -> Branches] /\ \A b \in Branches : RefOf[b] = b
    /\ "none" \notin Branches
    /\ TaskBranch \in Branches /\ MaxCommits \in Nat
\* approvals are asked for pushes to some of them
ASSUME ActsAssumption == Acts \subseteq Targets

VARIABLES
    branch,    \* what is checked out in the worktree
    local,     \* the repository's branches
    remote,    \* the remote's branches
    commits,   \* commits made
    identity,  \* the git:identity lease: its holder, and whether its time is up
    push,      \* calls of gitPush and gitPushProtected
    moved      \* how often a branch of the remote moved under a protected name (history)

pushVars == <<branch, local, remote, commits, identity, push, moved>>

MAX_COMMIT_ATTEMPTS == 3
NotPushing == [pc |-> "idle", target |-> "none", attempt |-> 0]
InLoop == {"staging", "committing", "comparing", "pushing"}
Histories == SUBSET (0..MaxCommits)
Unheld == [holder |-> "none", lapsed |-> FALSE]

PushTypeOK ==
    /\ branch \in Branches /\ local \in [Branches -> Histories] /\ remote \in [Branches -> Histories]
    /\ commits \in 0..MaxCommits
    /\ identity \in [holder : Callers \cup {"none"}, lapsed : BOOLEAN]
    /\ push \in [Callers -> [pc : {"idle", "resolving", "resolved"} \cup InLoop,
                             target : Names \cup {"none"},
                             attempt : 0..MAX_COMMIT_ATTEMPTS]]
    /\ moved \in Nat

\* A repository with one commit; the remote has every branch but the task's.
PushInit ==
    /\ branch = TaskBranch
    /\ local = [b \in Branches |-> {0}]
    /\ remote = [b \in Branches |-> IF b = TaskBranch THEN {} ELSE {0}]
    /\ commits = 0 /\ identity = Unheld
    /\ push = [c \in Callers |-> NotPushing]
    /\ moved = 0

PushGo(c, pc) == push' = [push EXCEPT ![c].pc = pc]
PushReturn(c) == push' = [push EXCEPT ![c] = NotPushing]
\* the fight loop ends, and the lease with it if it is still this call's
ReleaseIdentity(c) == identity' = IF identity.holder = c THEN Unheld ELSE identity
EndLoop(c) == PushReturn(c) /\ ReleaseIdentity(c)
-----------------------------------------------------------------------------
(* The two commands *)
\* resolvePushDestination: the caller's string as it stands, else what is checked out
Destination(target) == IF target # "none" THEN target ELSE branch
\* includes(): that string among those of the file, whatever branch git takes it for
IsProtected(name) == name \in PROTECTED

BeginPush(c, p, target) ==
    /\ push[c] = NotPushing /\ NewCall
    /\ MayCall(p, "gitPush")
    /\ slot.val = "path"
    /\ push' = [push EXCEPT ![c] = [NotPushing EXCEPT !.pc = "resolving", !.target = target]]
    /\ UNCHANGED <<dirty, branch, local, remote, commits, identity, moved, authVars, crashes>>

\* git rev-parse; the name that was classified is the one the push will be given
NotPinned(target) == target
Pinned(target) == Destination(target)
ResolveDestination(c) ==
    /\ push[c].pc = "resolving"
    /\ \/ dir /\ ~IsProtected(Destination(push[c].target))
              /\ push' = [push EXCEPT ![c].pc = "resolved", ![c].target = Pinned(@)]
       \/ (~dir \/ IsProtected(Destination(push[c].target))) /\ PushReturn(c)
    /\ UNCHANGED <<dirty, branch, local, remote, commits, identity, moved, authVars, boundVars>>

(* gitCreatePush up to its first wait: the slot is read again, and the      *)
(* lease taken unless somebody's is still good (a call whose slot turned    *)
(* out to be claimed fails at its first git command and returns it).       *)
EnterLoop(c, target) ==
    LET free == identity.holder = "none" \/ identity.lapsed
    IN IF slot.val = "path" /\ free
       THEN /\ identity' = [holder |-> c, lapsed |-> FALSE]
            /\ push' = [push EXCEPT ![c] = [pc |-> "staging", target |-> target, attempt |-> 1]]
       ELSE PushReturn(c) /\ UNCHANGED identity
StartLoop(c) ==
    /\ push[c].pc = "resolved" /\ EnterLoop(c, push[c].target)
    /\ UNCHANGED <<dirty, branch, local, remote, commits, moved, authVars, boundVars>>

\* gitPushProtected: the approval is spent whether or not the push comes to anything
BeginPushProtected(c, p, target) ==
    /\ push[c] = NotPushing /\ NewCall
    /\ AuthorizeSensitive(p, "gitPushProtected", target)
    /\ EnterLoop(c, target)
    /\ UNCHANGED <<dirty, branch, local, remote, commits, moved, crashes>>
-----------------------------------------------------------------------------
(* runFightLoop *)
\* git add and git status
Stage(c) ==
    /\ push[c].pc = "staging"
    /\ \/ dir /\ PushGo(c, IF dirty THEN "committing" ELSE "comparing") /\ UNCHANGED identity
       \/ ~dir /\ EndLoop(c)
    /\ UNCHANGED <<branch, local, remote, commits, dirty, moved>>

(* The classes of a failed commit, and those a fixer script may cure.        *)
FailureClasses == {"conflict", "protected-branch", "format", "lint-autofixable",
                   "lint-semantic", "typecheck", "test", "hook-other"}
AUTOFIXABLE_CLASSES == {"format", "lint-autofixable"}

Committed(c) ==
    /\ commits < MaxCommits /\ commits' = commits + 1
    /\ local' = [local EXCEPT ![branch] = @ \cup {commits'}]
    /\ dirty' = FALSE /\ PushGo(c, "pushing") /\ UNCHANGED identity
\* a hook refused it; the script ran, rewrote what it would, and the loop goes round
FixedAndRetried(c, class) ==
    /\ class \in AUTOFIXABLE_CLASSES /\ push[c].attempt < MAX_COMMIT_ATTEMPTS
    /\ push' = [push EXCEPT ![c].pc = "staging", ![c].attempt = @ + 1]
    /\ dirty' \in BOOLEAN
    /\ UNCHANGED <<commits, local, identity>>
\* a class no script cures, the last attempt, or a script that is missing or fails
GivesUp(c) == EndLoop(c) /\ UNCHANGED <<commits, local, dirty>>
Commit(c) ==
    /\ push[c].pc = "committing"
    /\ \/ dir /\ Committed(c)
       \/ dir /\ \E class \in FailureClasses : FixedAndRetried(c, class)
       \/ GivesUp(c)
    /\ UNCHANGED <<branch, remote, moved>>

(* Nothing to commit: a retry may still have a commit to push; ls-remote    *)
(* tells, or cannot, and finds a branch under its plain name only.         *)
UpToDate(dest) == dest \in Branches /\ remote[dest] = local[branch]
Compare(c) ==
    /\ push[c].pc = "comparing"
    /\ \/ dir /\ PushGo(c, "pushing") /\ UNCHANGED identity
       \/ (~dir \/ UpToDate(Destination(push[c].target))) /\ EndLoop(c)
    /\ UNCHANGED <<branch, local, remote, commits, dirty, moved>>

\* git push of what is checked out, to what git takes the name for; only a
\* fast-forward is accepted
RemoteTakes(dest) ==
    /\ remote[RefOf[dest]] \subseteq local[branch]
    /\ remote' = [remote EXCEPT ![RefOf[dest]] = local[branch]]
    /\ moved' = IF IsProtected(dest) /\ remote' # remote THEN moved + 1 ELSE moved
Push(c) ==
    /\ push[c].pc = "pushing"
    /\ \/ dir /\ RemoteTakes(Destination(push[c].target))
       \/ UNCHANGED <<remote, moved>>
    /\ EndLoop(c)
    /\ UNCHANGED <<branch, local, commits, dirty>>

IdentityLapses ==
    /\ identity.holder # "none" /\ ~identity.lapsed
    /\ identity' = [identity EXCEPT !.lapsed = TRUE]
    /\ UNCHANGED <<branch, local, remote, commits, push, moved>>

\* The daemon dies under the call: the lease stays until it lapses, git may finish.
PushDies(c) ==
    /\ PushReturn(c)
    /\ \/ UNCHANGED <<remote, moved>>
       \/ push[c].pc = "pushing" /\ dir /\ RemoteTakes(Destination(push[c].target))
    /\ UNCHANGED <<branch, local, commits, identity>>

\* The worktree's users: a worker with a shell.
Edit == dir /\ ~dirty /\ dirty' = TRUE /\ UNCHANGED pushVars
Checkout(b) ==
    /\ dir /\ b # branch /\ branch' = b
    /\ UNCHANGED <<local, remote, commits, identity, push, moved>>
-----------------------------------------------------------------------------
(* Under the names on the protected list, the remote's branches move once    *)
(* for every approval consumed, whichever of the two commands is called,    *)
(* whatever is checked out when each of their git commands runs, and       *)
(* whoever retries or dies (gitPush's pinned destination, the consumed     *)
(* approval).  It is about names, as the code is: a branch pushed to under  *)
(* another spelling of its name is pushed to as an unlisted one.            *)
ProtectedPushesSigned ==
    moved <= Cardinality(UNION {Consumed("git:push-protected", act) : act \in Acts})
=============================================================================
