---------------------------- MODULE WorktreeSlot ----------------------------
(***************************************************************************)
(* The worktree slot of one task: the columns worktree_id and              *)
(* worktree_claim_* of its tasks row, and runtime/worktree-service.js,      *)
(* which creates the task's worktree and discards it.                      *)
(*                                                                         *)
(* Several processes may call it at once, and each call waits for git      *)
(* between its transactions.  A claim holds the slot meanwhile; one that    *)
(* is 60 seconds old may be taken over, and a slow git can be that old.     *)
(* Every caller names the same repository and branch.                      *)
(***************************************************************************)
EXTENDS TaskStates, FiniteSets

CONSTANTS
    Callers,     \* calls that may be in progress at once
    MaxCalls,    \* bound: calls made, of any kind
    MaxClaims,   \* bound: claim tokens minted
    MaxCrashes   \* bound: calls that die with their process

ASSUME SlotBounds == MaxCalls \in Nat /\ MaxClaims \in Nat /\ MaxCrashes \in Nat

VARIABLES
    task,      \* tasks.state
    slot,      \* worktree_id: "null", "path" or a pending claim with its token,
               \* what it is for, and whether it is old enough to be taken over
    dir,       \* does the worktree exist on disk?
    dirty,     \* has it changes nobody committed?
    runs,      \* open runs of each of the task's workers
    call,      \* calls of createTaskWorktree and discardTaskWorktree
    minted,    \* claim tokens minted
    outlived,  \* was a claim ever taken over from a call that was still alive? (history)
    calls, crashes

slotVars == <<slot, dir, call, minted, outlived>>
boundVars == <<calls, crashes>>

Claims == 1..MaxClaims
Idle == [pc |-> "idle", prev |-> "null", token |-> 0]
InGit == {"adding", "checking", "removing", "recovering"}

SlotTypeOK ==
    /\ task \in STATES
    /\ slot \in [val : {"null", "path", "pending"}, token : Claims \cup {0},
                 op : {"none", "create", "discard"}, old : BOOLEAN]
    /\ slot.val = "pending" <=> slot.token # 0 /\ slot.op # "none"
    /\ dir \in BOOLEAN /\ dirty \in BOOLEAN
    /\ call \in [Callers -> [pc : {"idle", "claiming", "waiting", "added", "add-failed",
                                   "claiming-discard", "removed", "unremoved"} \cup InGit,
                             prev : {"null", "path"}, token : Claims \cup {0}]]
    /\ minted \in Claims \cup {0} /\ outlived \in BOOLEAN
    /\ calls \in 0..MaxCalls /\ crashes \in 0..MaxCrashes

OpenRuns == \E w \in DOMAIN runs : runs[w] > 0
Free(val) == [val |-> val, token |-> 0, op |-> "none", old |-> FALSE]
Pending(token, op) == [val |-> "pending", token |-> token, op |-> op, old |-> FALSE]

\* The task has no worktree yet, or one that was created before.
SlotInit ==
    /\ \E val \in {"null", "path"} : slot = Free(val) /\ dir = (val = "path")
    /\ dirty = FALSE
    /\ call = [c \in Callers |-> Idle]
    /\ minted = 0 /\ outlived = FALSE
    /\ calls = 0 /\ crashes = 0

NewCall == calls < MaxCalls /\ calls' = calls + 1
Return(c) == call' = [call EXCEPT ![c] = Idle]
Go(c, pc) == call' = [call EXCEPT ![c].pc = pc]
-----------------------------------------------------------------------------
(* The transactions of db/index.js *)
\* claimTaskWorktreeSlot: compare and swap
Unconditional(c) == TRUE
StillAs(c) == slot.val = call[c].prev
Claim(c, op, pc) ==
    /\ StillAs(c) /\ minted < MaxClaims
    /\ minted' = minted + 1
    /\ slot' = Pending(minted', op)
    /\ call' = [call EXCEPT ![c].pc = pc, ![c].token = minted']

\* finalizeTaskWorktreeSlot and releaseTaskWorktreeClaim, gated on the token
Holds(c) == slot.val = "pending" /\ slot.token = call[c].token
Resolve(c, val) == slot' = IF Holds(c) THEN Free(val) ELSE slot

\* reclaimStaleTaskWorktreeClaim, up to what the caller does with the claim
Reclaim ==
    /\ slot.val = "pending" /\ slot.old /\ minted < MaxClaims
    /\ minted' = minted + 1
    /\ outlived' = (outlived \/ \E d \in Callers : Holds(d))

Ages == /\ slot.val = "pending" /\ ~slot.old
        /\ slot' = [slot EXCEPT !.old = TRUE]
        /\ UNCHANGED <<dir, dirty, call, minted, outlived, boundVars>>
-----------------------------------------------------------------------------
(* createTaskWorktree *)
\* does anything at the task's path look like a worktree?
NeverLooks == FALSE
LooksLikeRealWorktree == dir

\* one turn of its loop: a result, somebody else's claim, or a slot to claim
Look(c) ==
    IF slot.val = "path" /\ LooksLikeRealWorktree THEN Return(c)
    ELSE IF slot.val = "pending" THEN call' = [call EXCEPT ![c] = [Idle EXCEPT !.pc = "waiting"]]
    ELSE call' = [call EXCEPT ![c] = [Idle EXCEPT !.pc = "claiming", !.prev = slot.val]]

BeginCreate(c) ==
    /\ call[c] = Idle /\ NewCall /\ Look(c)
    /\ UNCHANGED <<slot, dir, dirty, minted, outlived, crashes>>

ClaimCreate(c) ==
    /\ call[c].pc = "claiming"
    /\ \/ Claim(c, "create", "adding")
       \/ ~StillAs(c) /\ Look(c) /\ UNCHANGED <<slot, minted>>
    /\ UNCHANGED <<dir, dirty, outlived, boundVars>>

\* while the poll budget lasts
Poll(c) ==
    /\ call[c].pc = "waiting" /\ slot.val # "pending" /\ Look(c)
    /\ UNCHANGED <<slot, dir, dirty, minted, outlived, boundVars>>

(* The budget is spent: the claim is left alone, or it is old and taken     *)
(* over.  The dead claimant may have been discarding, or have finished.    *)
GiveUp(c) ==
    /\ call[c].pc = "waiting" /\ slot.val = "pending" /\ ~slot.old /\ Return(c)
    /\ UNCHANGED <<slot, dir, dirty, minted, outlived, boundVars>>
TakeOverToCreate(c) ==
    /\ call[c].pc = "waiting" /\ Reclaim
    /\ \/ /\ slot.op = "discard" /\ ~LooksLikeRealWorktree    \* deleted on purpose: not recreated
          /\ slot' = Free("null") /\ Return(c)
       \/ /\ LooksLikeRealWorktree                \* finished before it died: adopted
          /\ slot' = Free("path") /\ Return(c)
       \/ /\ slot.op # "discard" /\ ~LooksLikeRealWorktree
          /\ slot' = Pending(minted', slot.op)
          /\ call' = [call EXCEPT ![c] = [pc |-> "adding", prev |-> "null", token |-> minted']]
    /\ UNCHANGED <<dir, dirty, boundVars>>

\* runGitWorktreeAdd: refuses a path that exists, may fail anyway
GitAdd(c) ==
    /\ call[c].pc = "adding"
    /\ \/ ~dir /\ dir' = TRUE /\ Go(c, "added")
       \/ UNCHANGED dir /\ Go(c, "add-failed")
    /\ UNCHANGED <<slot, dirty, minted, outlived, boundVars>>

FinishCreate(c) ==
    /\ \/ call[c].pc = "added" /\ Resolve(c, "path")
       \/ call[c].pc = "add-failed" /\ Resolve(c, call[c].prev)
    /\ Return(c)
    /\ UNCHANGED <<dir, dirty, minted, outlived, boundVars>>
-----------------------------------------------------------------------------
(* discardTaskWorktree *)
BeginDiscard(c) ==
    /\ call[c] = Idle /\ NewCall
    /\ task \in TERMINAL
    /\ slot.val = "path"
    /\ call' = [call EXCEPT ![c] = [Idle EXCEPT !.pc = "claiming-discard", !.prev = "path"]]
    /\ UNCHANGED <<slot, dir, dirty, minted, outlived, crashes>>

(* An old claim is taken over: whatever it was for, the worktree goes,      *)
(* unless a run is open; then the claim stays pending under the new token. *)
TakeOverToDiscard(c) ==
    /\ call[c] = Idle /\ NewCall
    /\ task \in TERMINAL
    /\ Reclaim
    /\ \/ /\ LooksLikeRealWorktree /\ OpenRuns
          /\ slot' = Pending(minted', slot.op) /\ UNCHANGED call
       \/ /\ LooksLikeRealWorktree /\ ~OpenRuns
          /\ slot' = Pending(minted', slot.op)
          /\ call' = [call EXCEPT ![c] = [pc |-> "recovering", prev |-> "null", token |-> minted']]
       \/ ~LooksLikeRealWorktree /\ slot' = Free("null") /\ UNCHANGED call
    /\ UNCHANGED <<dir, dirty, crashes>>

\* The claim, and the check for open runs in the same turn; `force` skips git status.
ClaimDiscard(c) ==
    /\ call[c].pc = "claiming-discard"
    /\ \/ ~OpenRuns /\ \E pc \in {"checking", "removing"} : Claim(c, "discard", pc)
       \/ (~StillAs(c) \/ OpenRuns) /\ Return(c) /\ UNCHANGED <<slot, minted>>
    /\ UNCHANGED <<dir, dirty, outlived, boundVars>>

\* worktreeStatus: what git status says, or an error, which is never "clean"
worktreeStatus == {"error"} \cup IF ~dir THEN {} ELSE IF dirty THEN {"dirty"} ELSE {"clean"}
CheckTree(c) ==
    /\ call[c].pc = "checking"
    /\ \E status \in worktreeStatus : Go(c, IF status = "clean" THEN "removing" ELSE "unremoved")
    /\ UNCHANGED <<slot, dir, dirty, minted, outlived, boundVars>>

\* git worktree remove --force; a takeover whose removal fails keeps its claim
GitRemove(c) ==
    /\ \/ /\ call[c].pc \in {"removing", "recovering"} /\ dir
          /\ dir' = FALSE /\ dirty' = FALSE /\ Go(c, "removed")
       \/ call[c].pc = "removing" /\ Go(c, "unremoved") /\ UNCHANGED <<dir, dirty>>
       \/ call[c].pc = "recovering" /\ Return(c) /\ UNCHANGED <<dir, dirty>>
    /\ UNCHANGED <<slot, minted, outlived, boundVars>>

FinishDiscard(c) ==
    /\ \/ call[c].pc = "removed" /\ Resolve(c, "null")
       \/ call[c].pc = "unremoved" /\ Resolve(c, "path")
    /\ Return(c)
    /\ UNCHANGED <<dir, dirty, minted, outlived, boundVars>>
-----------------------------------------------------------------------------
(* A call dies with its process.  The git it started may still finish.     *)
SlotCallDies(c) ==
    /\ Return(c)
    /\ \/ UNCHANGED <<dir, dirty>>
       \/ call[c].pc = "adding" /\ dir' = TRUE /\ UNCHANGED dirty
       \/ call[c].pc \in {"removing", "recovering"} /\ dir' = FALSE /\ dirty' = FALSE
    /\ UNCHANGED <<slot, minted, outlived>>

SlotStep(c) ==
    \/ BeginCreate(c) \/ ClaimCreate(c) \/ Poll(c) \/ GiveUp(c) \/ TakeOverToCreate(c)
    \/ GitAdd(c) \/ FinishCreate(c)
    \/ BeginDiscard(c) \/ TakeOverToDiscard(c) \/ ClaimDiscard(c) \/ CheckTree(c)
    \/ GitRemove(c) \/ FinishDiscard(c)
-----------------------------------------------------------------------------
(* The row tells the truth about the disk whenever nobody claims the slot:  *)
(* a crashed creation or removal is finished or undone before the claim is  *)
(* resolved (the recovery of migrations 0014 and 0017).  It does not hold   *)
(* once a claim was taken over from a call that was only slow.             *)
RowMatchesDisk == ~outlived /\ slot.val # "pending" => (slot.val = "path" <=> dir)

(* One caller at a time runs git for the task, however calls and crashes    *)
(* interleave, except where a live call's claim was taken for dead (the     *)
(* race claimTaskWorktreeSlot is there for).                               *)
OneGitPerSlot == ~outlived => Cardinality({c \in Callers : call[c].pc \in InGit}) <= 1
=============================================================================
