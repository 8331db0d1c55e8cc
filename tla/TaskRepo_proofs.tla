-------------------------- MODULE TaskRepo_proofs --------------------------
(***************************************************************************)
(* Proofs about TaskRepo, for any callers, principals, branches, workers   *)
(* and any bounds.                                                         *)
(***************************************************************************)
EXTENDS TaskRepo, FiniteSetTheorems, TLAPS

-----------------------------------------------------------------------------
(* The slot *)

(* A call that took a claim and has not resolved it: it is in git, or back. *)
Claiming == InGit \cup {"added", "add-failed", "removed", "unremoved"}
Claimant(c) == call[c].pc \in Claiming

IsCall(r) == /\ DOMAIN r = {"pc", "prev", "token"} /\ r.prev \in {"null", "path"}
             /\ r.pc = "claiming-discard" => r.prev = "path"
SlotForm ==
    /\ slot.val \in {"null", "path", "pending"} /\ dir \in BOOLEAN /\ outlived \in BOOLEAN
    /\ DOMAIN call = Callers /\ \A c \in Callers : IsCall(call[c])

(* As long as no claim was taken over from a live call, a claimant is alone *)
(* and the pending claim is its own.                                       *)
SoleClaimant ==
    ~outlived => \A c \in Callers : Claimant(c) =>
                    Holds(c) /\ \A d \in Callers : Claimant(d) => d = c

(* What a claimant knows of the disk: nobody else touches it meanwhile.     *)
ClaimantKnows(c) ==
    /\ call[c].pc \in {"adding", "add-failed"} => (call[c].prev = "path" <=> dir)
    /\ call[c].pc \in {"checking", "removing", "recovering", "added", "unremoved"} => dir
    /\ call[c].pc = "removed" => ~dir

SlotInv ==
    /\ SlotForm
    /\ SoleClaimant
    /\ RowMatchesDisk
    /\ ~outlived => \A c \in Callers : ClaimantKnows(c)

(* c's call is r now, and nobody else's has changed.                        *)
Becomes(c, r) ==
    /\ IsCall(r) /\ call'[c] = r
    /\ DOMAIN call' = Callers /\ \A d \in Callers \ {c} : call'[d] = call[d]

LEMMA Returns ==
    ASSUME SlotForm, NEW c \in Callers, Return(c)
    PROVE  Becomes(c, Idle) /\ Idle.pc \notin Claiming
BY DEF SlotForm, Return, Becomes, IsCall, Idle, Claiming, InGit

LEMMA Advances ==
    ASSUME SlotForm, NEW c \in Callers, NEW pc, Go(c, pc), pc # "claiming-discard"
    PROVE  /\ Becomes(c, call'[c])
           /\ call'[c].pc = pc /\ call'[c].prev = call[c].prev /\ call'[c].token = call[c].token
BY DEF SlotForm, Go, Becomes, IsCall

(* A turn of createTaskWorktree's loop leaves its caller without a claim.   *)
LEMMA Looks ==
    ASSUME SlotForm, NEW c \in Callers, Look(c)
    PROVE  \E r : Becomes(c, r) /\ r.pc \notin Claiming
<1>1. CASE Return(c)
  BY <1>1, Returns
<1>2. CASE call' = [call EXCEPT ![c] = [Idle EXCEPT !.pc = "waiting"]]
  <2> DEFINE r == [Idle EXCEPT !.pc = "waiting"]
  <2>1. IsCall(r) /\ r.pc \notin Claiming
    BY DEF IsCall, Idle, Claiming, InGit
  <2> QED BY <1>2, <2>1 DEF SlotForm, Becomes
<1>3. CASE slot.val # "pending" /\ call' = [call EXCEPT ![c] = [Idle EXCEPT !.pc = "claiming", !.prev = slot.val]]
  <2> DEFINE r == [Idle EXCEPT !.pc = "claiming", !.prev = slot.val]
  <2>1. IsCall(r) /\ r.pc \notin Claiming
    BY <1>3 DEF IsCall, Idle, Claiming, InGit, SlotForm
  <2> QED BY <1>3, <2>1 DEF SlotForm, Becomes
<1> QED BY <1>1, <1>2, <1>3 DEF Look

(* A call without a claim changes nothing but itself; one that gives its    *)
(* claim up unresolved leaves it pending, whatever its git does.           *)
LEMMA Bystander ==
    ASSUME SlotInv, NEW c \in Callers, NEW r, Becomes(c, r), r.pc \notin Claiming,
           UNCHANGED <<slot, outlived>>, dir' \in BOOLEAN, dir' = dir \/ Claimant(c)
    PROVE  SlotInv'
<1> USE DEF SlotInv, SlotForm, SoleClaimant, Becomes
<1>1. \A d \in Callers : Claimant(d)' => d # c /\ call'[d] = call[d] /\ Claimant(d)
  BY DEF Claimant
<1>2. ~outlived /\ dir' # dir => slot.val = "pending" /\ \A d \in Callers : ~Claimant(d)'
  BY <1>1 DEF Holds
<1>3. SoleClaimant' /\ SlotForm'
  BY <1>1 DEF Holds
<1>4. RowMatchesDisk'
  BY <1>2 DEF RowMatchesDisk
<1>5. ~outlived => \A d \in Callers : ClaimantKnows(d)'
  BY <1>1, <1>2 DEF ClaimantKnows, Claimant, Claiming, InGit
<1> QED BY <1>3, <1>4, <1>5

(* A claimant goes on with git.                                            *)
LEMMA ClaimantGoesOn ==
    ASSUME SlotInv, NEW c \in Callers, Claimant(c), NEW pc \in Claiming, Go(c, pc),
           UNCHANGED <<slot, outlived>>, dir' \in BOOLEAN, ~outlived => ClaimantKnows(c)'
    PROVE  SlotInv'
<1> USE DEF SlotInv, SlotForm, SoleClaimant
<1>1. Becomes(c, call'[c]) /\ call'[c].pc = pc /\ call'[c].token = call[c].token
  BY Advances DEF Claiming, InGit
<1>2. \A d \in Callers : Claimant(d)' <=> Claimant(d)
  BY <1>1 DEF Becomes, Claimant
<1>3. SoleClaimant' /\ SlotForm'
  BY <1>1, <1>2 DEF Becomes, Holds
<1>4. RowMatchesDisk'
  BY DEF RowMatchesDisk, Holds
<1>5. ~outlived => \A d \in Callers : ClaimantKnows(d)'
  BY <1>2 DEF ClaimantKnows, Claimant, Claiming, InGit
<1> QED BY <1>3, <1>4, <1>5

(* The compare and swap: nobody else is claimant, and what the row said     *)
(* until now is what the claimant may rely on.                             *)
LEMMA Claimed ==
    ASSUME SlotInv, NEW c \in Callers, NEW op, NEW pc, Claim(c, op, pc),
           pc = "adding" \/ (pc \in {"checking", "removing"} /\ call[c].prev = "path"),
           UNCHANGED <<dir, outlived>>
    PROVE  SlotInv'
<1> USE DEF SlotInv, SlotForm, SoleClaimant
<1>1. slot.val = call[c].prev /\ call[c].prev # "pending"
  BY DEF Claim, StillAs, IsCall
<1>2. ~outlived => \A d \in Callers : ~Claimant(d)
  BY <1>1 DEF Holds
<1>3. slot'.val = "pending" /\ slot'.token = minted'
  BY DEF Claim, Pending
<1>4. /\ Becomes(c, call'[c])
      /\ call'[c].pc = pc /\ call'[c].prev = call[c].prev /\ call'[c].token = minted'
  BY DEF Claim, Becomes, IsCall
<1>5. ~outlived => \A d \in Callers : Claimant(d)' => d = c
  BY <1>2, <1>4 DEF Becomes, Claimant
<1>6. SoleClaimant' /\ SlotForm'
  BY <1>3, <1>4, <1>5 DEF Becomes, Holds
<1>7. RowMatchesDisk'
  BY <1>3 DEF RowMatchesDisk
<1>8. ~outlived => ClaimantKnows(c)'
  BY <1>1, <1>4 DEF ClaimantKnows, RowMatchesDisk
<1>9. ~outlived => \A d \in Callers : ClaimantKnows(d)'
  BY <1>5, <1>8 DEF ClaimantKnows, Claimant, Claiming, InGit
<1> QED BY <1>6, <1>7, <1>9

(* A claimant writes what it found into the row it still holds; once its    *)
(* claim was taken over, the row is not its business.                      *)
LEMMA Resolved ==
    ASSUME SlotInv, NEW c \in Callers, Claimant(c), NEW v \in {"null", "path"},
           ~outlived => (v = "path" <=> dir),
           Resolve(c, v), Return(c), UNCHANGED <<dir, outlived>>
    PROVE  SlotInv'
<1> USE DEF SlotInv, SlotForm, SoleClaimant
<1>1. Becomes(c, Idle) /\ Idle.pc \notin Claiming
  BY Returns
<1>2. ~outlived => slot' = Free(v) /\ \A d \in Callers : ~Claimant(d)'
  BY <1>1 DEF Resolve, Becomes, Claimant
<1>3. slot'.val \in {"null", "path", "pending"} /\ (slot' = Free(v) => slot'.val = v)
  BY DEF Resolve, Free
<1>4. RowMatchesDisk' /\ SoleClaimant' /\ SlotForm'
  BY <1>1, <1>2, <1>3 DEF RowMatchesDisk, Becomes
<1>5. ~outlived => \A d \in Callers : ClaimantKnows(d)'
  BY <1>2 DEF ClaimantKnows, Claimant, Claiming, InGit
<1> QED BY <1>4, <1>5

(* Taking an old claim over: the call that held it is dead, or `outlived`    *)
(* says it was not.  The new claimant has looked at the disk itself.       *)
LEMMA TakenOver ==
    ASSUME SlotInv, Reclaim, NEW c \in Callers, NEW r, Becomes(c, r), dir' = dir,
           \/ /\ r.pc \notin Claiming
              /\ \E v \in {"null", "path"} : slot' = Free(v) /\ (v = "path" <=> dir)
           \/ r.pc \notin Claiming /\ slot' = Pending(minted', slot.op)
           \/ /\ r.token = minted' /\ slot' = Pending(minted', slot.op)
              /\ \/ r.pc = "adding" /\ r.prev = "null" /\ ~dir
                 \/ r.pc = "recovering" /\ dir
    PROVE  SlotInv'
<1> USE DEF SlotInv, SlotForm
<1>1. outlived' = (outlived \/ \E d \in Callers : Holds(d))
  BY DEF Reclaim
<1>2. outlived' \in BOOLEAN /\ (~outlived' => ~outlived /\ \A d \in Callers : ~Claimant(d))
  BY <1>1 DEF SoleClaimant
<1>3. /\ \A v : Free(v).val = v
      /\ \A t, op : Pending(t, op).val = "pending" /\ Pending(t, op).token = t
  BY DEF Free, Pending
<1>4. \/ slot'.val \in {"null", "path"} /\ (slot'.val = "path" <=> dir) /\ r.pc \notin Claiming
      \/ slot'.val = "pending" /\ slot'.token = minted'
  BY <1>3
<1>5. ~outlived' => \A d \in Callers : Claimant(d)' => d = c /\ r.pc \in {"adding", "recovering"}
  BY <1>2 DEF Becomes, Claimant, Claiming, InGit
<1>6. SlotForm' /\ RowMatchesDisk'
  BY <1>2, <1>4 DEF Becomes, RowMatchesDisk
<1>7. SoleClaimant'
  BY <1>4, <1>5 DEF Becomes, SoleClaimant, Claimant, Claiming, Holds, InGit
<1>8. ~outlived' => \A d \in Callers : ClaimantKnows(d)'
  BY <1>5 DEF Becomes, ClaimantKnows, Claimant, Claiming, InGit
<1> QED BY <1>6, <1>7, <1>8

LEMMA SlotInitial == Init => SlotInv
<1> SUFFICES ASSUME Init PROVE SlotInv
  OBVIOUS
<1>1. PICK val \in {"null", "path"} : slot = Free(val) /\ dir = (val = "path")
  BY DEF Init, SlotInit
<1>2. slot.val = val /\ dir \in BOOLEAN /\ (dir <=> val = "path")
  BY <1>1 DEF Free
<1>3. outlived = FALSE /\ DOMAIN call = Callers /\ \A c \in Callers : call[c] = Idle
  BY DEF Init, SlotInit
<1>4. IsCall(Idle) /\ Idle.pc = "idle"
  BY DEF IsCall, Idle
<1>5. SlotForm /\ RowMatchesDisk
  BY <1>2, <1>3, <1>4 DEF SlotForm, RowMatchesDisk
<1>6. \A c \in Callers : ~Claimant(c) /\ ClaimantKnows(c)
  BY <1>3, <1>4 DEF Claimant, Claiming, InGit, ClaimantKnows
<1> QED BY <1>5, <1>6 DEF SlotInv, SoleClaimant

(* What a takeover makes of the claim, by what it sees on disk.              *)
LEMMA CreateTakesOver ==
    ASSUME NEW c \in Callers, TakeOverToCreate(c)
    PROVE  \/ Return(c) /\ ((slot' = Free("null") /\ ~dir) \/ (slot' = Free("path") /\ dir))
           \/ /\ call' = [call EXCEPT ![c] = [pc |-> "adding", prev |-> "null", token |-> minted']]
              /\ slot' = Pending(minted', slot.op) /\ ~dir
<1>1. ASSUME dir PROVE slot' = Free("path") /\ Return(c)
  BY <1>1 DEF TakeOverToCreate, LooksLikeRealWorktree
<1>2. ASSUME ~dir
      PROVE  \/ Return(c) /\ slot' = Free("null")
             \/ /\ call' = [call EXCEPT ![c] = [pc |-> "adding", prev |-> "null", token |-> minted']]
                /\ slot' = Pending(minted', slot.op)
  BY <1>2 DEF TakeOverToCreate, LooksLikeRealWorktree
<1> QED BY <1>1, <1>2

LEMMA DiscardTakesOver ==
    ASSUME NEW c \in Callers, TakeOverToDiscard(c)
    PROVE  \/ call' = call /\ (slot' = Pending(minted', slot.op) \/ (slot' = Free("null") /\ ~dir))
           \/ /\ call' = [call EXCEPT ![c] = [pc |-> "recovering", prev |-> "null", token |-> minted']]
              /\ slot' = Pending(minted', slot.op) /\ dir
<1>1. ASSUME dir
      PROVE  \/ call' = call /\ slot' = Pending(minted', slot.op)
             \/ /\ call' = [call EXCEPT ![c] = [pc |-> "recovering", prev |-> "null", token |-> minted']]
                /\ slot' = Pending(minted', slot.op)
  BY <1>1 DEF TakeOverToDiscard, LooksLikeRealWorktree
<1>2. ASSUME ~dir PROVE call' = call /\ slot' = Free("null")
  BY <1>2 DEF TakeOverToDiscard, LooksLikeRealWorktree
<1> QED BY <1>1, <1>2

LEMMA CreateKeepsSlot ==
    ASSUME SlotInv, NEW c \in Callers,
           \/ BeginCreate(c) \/ ClaimCreate(c) \/ Poll(c) \/ GiveUp(c) \/ TakeOverToCreate(c)
           \/ GitAdd(c) \/ FinishCreate(c)
    PROVE  SlotInv'
<1> SlotForm BY DEF SlotInv
<1>1. ASSUME Look(c) \/ Return(c), UNCHANGED <<slot, dir, outlived>> PROVE SlotInv'
  BY <1>1, Looks, Returns, Bystander DEF SlotForm
<1>2. CASE BeginCreate(c) \/ Poll(c) \/ GiveUp(c)
  BY <1>1, <1>2 DEF BeginCreate, Poll, GiveUp
<1>3. CASE ClaimCreate(c)
  BY <1>1, <1>3, Claimed DEF ClaimCreate
<1>4. CASE TakeOverToCreate(c)
  <2> DEFINE r == [pc |-> "adding", prev |-> "null", token |-> minted']
  <2>1. Reclaim /\ dir' = dir
    BY <1>4 DEF TakeOverToCreate
  <2>2. CASE Return(c) /\ ((slot' = Free("null") /\ ~dir) \/ (slot' = Free("path") /\ dir))
    BY <2>1, <2>2, Returns, TakenOver
  <2>3. CASE call' = [call EXCEPT ![c] = r] /\ slot' = Pending(minted', slot.op) /\ ~dir
    <3>1. Becomes(c, r) /\ r.pc = "adding" /\ r.prev = "null" /\ r.token = minted'
      BY <2>3 DEF Becomes, IsCall, SlotForm
    <3> QED BY <2>1, <2>3, <3>1, TakenOver
  <2>4. \/ Return(c) /\ ((slot' = Free("null") /\ ~dir) \/ (slot' = Free("path") /\ dir))
        \/ call' = [call EXCEPT ![c] = r] /\ slot' = Pending(minted', slot.op) /\ ~dir
    BY <1>4, CreateTakesOver
  <2> QED BY <2>2, <2>3, <2>4
<1>5. CASE GitAdd(c)
  <2>1. Claimant(c) /\ {"added", "add-failed"} \subseteq Claiming
    BY <1>5 DEF GitAdd, Claimant, Claiming, InGit
  <2>2. CASE dir' = TRUE /\ Go(c, "added")
    BY <1>5, <2>1, <2>2, Advances, ClaimantGoesOn DEF GitAdd, ClaimantKnows
  <2>3. CASE dir' = dir /\ Go(c, "add-failed")
    BY <1>5, <2>1, <2>3, Advances, ClaimantGoesOn DEF GitAdd, ClaimantKnows, SlotInv, SlotForm
  <2> QED BY <1>5, <2>2, <2>3 DEF GitAdd
<1>6. CASE FinishCreate(c)
  <2>1. Claimant(c) /\ IsCall(call[c])
    BY <1>6 DEF FinishCreate, Claimant, Claiming, SlotForm
  <2>2. ~outlived => ClaimantKnows(c)
    BY DEF SlotInv
  <2> QED BY <1>6, <2>1, <2>2, Resolved DEF FinishCreate, ClaimantKnows, IsCall
<1> QED BY <1>2, <1>3, <1>4, <1>5, <1>6

LEMMA DiscardKeepsSlot ==
    ASSUME SlotInv, NEW c \in Callers,
           \/ BeginDiscard(c) \/ TakeOverToDiscard(c) \/ ClaimDiscard(c) \/ CheckTree(c)
           \/ GitRemove(c) \/ FinishDiscard(c)
    PROVE  SlotInv'
<1> SlotForm BY DEF SlotInv
<1> IsCall(call[c]) BY DEF SlotForm
<1>1. ASSUME Return(c), UNCHANGED <<slot, dir, outlived>> PROVE SlotInv'
  BY <1>1, Returns, Bystander DEF SlotForm
<1>2. CASE BeginDiscard(c)
  <2> DEFINE r == [Idle EXCEPT !.pc = "claiming-discard", !.prev = "path"]
  <2>1. IsCall(r) /\ r.pc \notin Claiming
    BY DEF IsCall, Idle, Claiming, InGit
  <2>2. Becomes(c, r)
    BY <1>2, <2>1 DEF BeginDiscard, Becomes, SlotForm
  <2> QED BY <1>2, <2>1, <2>2, Bystander DEF BeginDiscard, SlotForm
<1>3. CASE TakeOverToDiscard(c)
  <2> DEFINE r == [pc |-> "recovering", prev |-> "null", token |-> minted']
  <2>1. Reclaim /\ dir' = dir /\ call[c].pc \notin Claiming
    BY <1>3 DEF TakeOverToDiscard, Idle, Claiming, InGit
  <2>2. CASE call' = call /\ (slot' = Pending(minted', slot.op) \/ (slot' = Free("null") /\ ~dir))
    <3>1. Becomes(c, call[c])
      BY <2>2 DEF Becomes, SlotForm
    <3> QED BY <2>1, <2>2, <3>1, TakenOver
  <2>3. CASE call' = [call EXCEPT ![c] = r] /\ slot' = Pending(minted', slot.op) /\ dir
    <3>1. Becomes(c, r) /\ r.pc = "recovering" /\ r.token = minted'
      BY <2>3 DEF Becomes, IsCall, SlotForm
    <3> QED BY <2>1, <2>3, <3>1, TakenOver
  <2>4. \/ call' = call /\ (slot' = Pending(minted', slot.op) \/ (slot' = Free("null") /\ ~dir))
        \/ call' = [call EXCEPT ![c] = r] /\ slot' = Pending(minted', slot.op) /\ dir
    BY <1>3, DiscardTakesOver
  <2> QED BY <2>2, <2>3, <2>4
<1>4. CASE ClaimDiscard(c)
  BY <1>1, <1>4, Claimed DEF ClaimDiscard, IsCall
<1>5. CASE CheckTree(c)
  <2>1. Claimant(c) /\ {"removing", "unremoved"} \subseteq Claiming
    BY <1>5 DEF CheckTree, Claimant, Claiming, InGit
  <2>2. PICK pc \in {"removing", "unremoved"} : Go(c, pc)
    BY <1>5 DEF CheckTree
  <2>3. ~outlived => dir
    BY <1>5 DEF CheckTree, SlotInv, ClaimantKnows
  <2>4. ~outlived => ClaimantKnows(c)'
    BY <1>5, <2>2, <2>3, Advances DEF CheckTree, ClaimantKnows
  <2> QED BY <1>5, <2>1, <2>2, <2>4, ClaimantGoesOn DEF CheckTree, SlotForm
<1>6. CASE GitRemove(c)
  <2>1. Claimant(c) /\ {"removed", "unremoved"} \subseteq Claiming
    BY <1>6 DEF GitRemove, Claimant, Claiming, InGit
  <2>2. CASE dir' = FALSE /\ Go(c, "removed")
    BY <1>6, <2>1, <2>2, Advances, ClaimantGoesOn DEF GitRemove, ClaimantKnows
  <2>3. CASE call[c].pc = "removing" /\ dir' = dir /\ Go(c, "unremoved")
    <3>1. ~outlived => ClaimantKnows(c)'
      BY <2>3, Advances DEF ClaimantKnows, SlotInv
    <3> QED BY <1>6, <2>1, <2>3, <3>1, ClaimantGoesOn DEF GitRemove, SlotForm
  <2>4. CASE dir' = dir /\ Return(c)
    BY <1>1, <1>6, <2>4 DEF GitRemove
  <2> QED BY <1>6, <2>2, <2>3, <2>4 DEF GitRemove
<1>7. CASE FinishDiscard(c)
  <2>1. Claimant(c)
    BY <1>7 DEF FinishDiscard, Claimant, Claiming
  <2>2. ~outlived => ClaimantKnows(c)
    BY DEF SlotInv
  <2> QED BY <1>7, <2>1, <2>2, Resolved DEF FinishDiscard, ClaimantKnows
<1> QED BY <1>2, <1>3, <1>4, <1>5, <1>6, <1>7

LEMMA SlotStepKeeps == SlotInv /\ [Next]_vars => SlotInv'
<1> SUFFICES ASSUME SlotInv, [Next]_vars PROVE SlotInv'
  OBVIOUS
<1> SlotForm BY DEF SlotInv
<1>1. ASSUME UNCHANGED slotVars PROVE SlotInv'
  BY <1>1 DEF slotVars, SlotInv, SlotForm, SoleClaimant, RowMatchesDisk, ClaimantKnows, Claimant, Holds
<1>2. ASSUME NEW c \in Callers, Slot(c) PROVE SlotInv'
  BY <1>2, CreateKeepsSlot, DiscardKeepsSlot DEF Slot, SlotStep
<1>3. ASSUME NEW c \in Callers, Assign(c) PROVE UNCHANGED slotVars
  BY <1>3 DEF Assign, BeginAssign, StartRun, FinishAssign
<1>4. ASSUME NEW c \in Callers, Pushes(c) PROVE UNCHANGED slotVars
  BY <1>4 DEF Pushes
<1>5. ASSUME NEW c \in Callers, CallDies(c) PROVE SlotInv'
  <2>1. CASE SlotCallDies(c)
    <3>1. /\ Return(c) /\ UNCHANGED <<slot, outlived>>
          /\ dir' \in BOOLEAN /\ (dir' = dir \/ Claimant(c))
      BY <2>1 DEF SlotCallDies, Claimant, Claiming, InGit, SlotForm
    <3>2. Becomes(c, Idle) /\ Idle.pc \notin Claiming
      BY <3>1, Returns
    <3> QED BY <3>1, <3>2, Bystander
  <2> QED BY <1>1, <1>5, <2>1 DEF CallDies
<1>6. ASSUME Ages PROVE SlotInv'
  BY <1>6 DEF Ages, SlotInv, SlotForm, SoleClaimant, RowMatchesDisk, ClaimantKnows, Claimant, Holds
<1>7. CASE Authority \/ Others \/ UNCHANGED vars
  BY <1>1, <1>7 DEF Authority, Others, RunEnds, Operator, vars
<1>8. CASE Time
  BY <1>1, <1>6, <1>8 DEF Time
<1> QED BY <1>1, <1>2, <1>3, <1>4, <1>5, <1>7, <1>8 DEF Next

LEMMA SlotAlways == Spec => []SlotInv
BY SlotInitial, SlotStepKeeps, PTL DEF Spec

(* The worktree_id column says what is on disk whenever no claim is          *)
(* pending, for any number of callers, crashes and retries.                *)
THEOREM RowIsTrue == Spec => []RowMatchesDisk
<1>1. SlotInv => RowMatchesDisk
  BY DEF SlotInv
<1> QED BY SlotAlways, <1>1, PTL

LEMMA AtMostOne ==
    ASSUME NEW G, \A c, d \in G : c = d
    PROVE  Cardinality(G) <= 1
<1>1. CASE G = {}
  BY <1>1, FS_EmptySet
<1>2. CASE G # {}
  <2>1. PICK c : G = {c}
    BY <1>2
  <2>2. Cardinality(G) = 1
    BY <2>1, FS_Singleton
  <2> QED BY <2>2
<1> QED BY <1>1, <1>2

(* One git at a time: the claim is a lock as long as no live call is taken   *)
(* for dead.                                                               *)
THEOREM OneGit == Spec => []OneGitPerSlot
<1>1. SlotInv => OneGitPerSlot
  <2> SUFFICES ASSUME SlotInv, ~outlived PROVE Cardinality({c \in Callers : call[c].pc \in InGit}) <= 1
    BY DEF OneGitPerSlot
  <2>1. \A c, d \in {c \in Callers : call[c].pc \in InGit} : c = d
    BY DEF SlotInv, SoleClaimant, Claimant, Claiming
  <2> QED BY <2>1, AtMostOne
<1> QED BY SlotAlways, <1>1, PTL
-----------------------------------------------------------------------------
(* Approvals *)

(* A finite set of numbers that is not empty has a greatest one: among the   *)
(* sets of what is not below some element, one is minimal.                 *)
LEMMA GreatestExists ==
    ASSUME NEW S \in SUBSET Int, IsFiniteSet(S), S # {}
    PROVE  \E m \in S : \A x \in S : x <= m
<1> DEFINE Above(m) == {x \in S : m <= x}
           Ups == {Above(m) : m \in S}
<1>1. IsWellFoundedOn(StrictSubsetOrdering(S), SUBSET S)
  BY FS_StrictSubsetOrderingWellFounded, FS_FiniteSubsetsOfFinite
<1>2. Ups \subseteq SUBSET S /\ Ups # {}
  OBVIOUS
<1>3. PICK U \in Ups : \A V \in Ups : <<V, U>> \notin StrictSubsetOrdering(S)
  <2> HIDE DEF Ups
  <2> QED BY <1>1, <1>2, WFMin, Zenon
<1>4. PICK m \in S : U = Above(m)
  BY <1>3
<1>5. ASSUME NEW x \in S, ~(x <= m) PROVE FALSE
  <2>1. x \in Int /\ m \in Int /\ m < x
    BY <1>5
  <2>2. ASSUME NEW y \in S, x <= y PROVE m <= y
    <3>1. y \in Int
      OBVIOUS
    <3> QED BY <2>1, <2>2, <3>1
  <2>3. Above(x) \subseteq Above(m)
    BY <2>2
  <2>4. m \in Above(m) /\ m \notin Above(x)
    BY <2>1
  <2>5. <<Above(x), Above(m)>> \in StrictSubsetOrdering(S)
    BY <2>3, <2>4 DEF StrictSubsetOrdering
  <2> QED BY <1>3, <1>4, <2>5
<1> QED BY <1>5

LEMMA OneMore ==
    ASSUME NEW S, IsFiniteSet(S), NEW x
    PROVE  /\ IsFiniteSet(S \cup {x}) /\ Cardinality(S) \in Nat
           /\ Cardinality(S \cup {x}) <= Cardinality(S) + 1
<1>1. Cardinality(S) \in Nat
  BY FS_CardinalityType
<1>2. /\ IsFiniteSet(S \cup {x})
      /\ Cardinality(S \cup {x}) = IF x \in S THEN Cardinality(S) ELSE Cardinality(S) + 1
  BY FS_AddElement
<1> QED BY <1>1, <1>2

(* The approvals of protected pushes that were consumed.                   *)
Used == {id \in 1..granted : approvals[id].action = "git:push-protected" /\ approvals[id].consumed}

(* findSensitiveApproval finds one whenever there is one.                   *)
LEMMA FindsValid ==
    ASSUME AuthTypeOK, NEW p, NEW action, NEW act, Valid(p, action, act) # {}
    PROVE  FindApproval(p, action, act) \in Valid(p, action, act)
<1> DEFINE V == Valid(p, action, act)
<1>1. granted \in Int /\ V \subseteq 1..granted
  BY DEF AuthTypeOK, Valid
<1> HIDE DEF V
<1>2. V \in SUBSET Int
  BY <1>1
<1>3. IsFiniteSet(1..granted)
  BY <1>1, FS_Interval
<1>4. IsFiniteSet(V)
  BY <1>1, <1>3, FS_Subset
<1>5. \E id \in V : \A other \in V : other <= id
  BY <1>2, <1>4, GreatestExists DEF V
<1> QED BY <1>5 DEF FindApproval, V

LEMMA UsedIsFinite == ASSUME AuthTypeOK PROVE IsFiniteSet(Used)
<1>1. granted \in Int /\ Used \subseteq 1..granted
  BY DEF AuthTypeOK, Used
<1>2. IsFiniteSet(1..granted)
  BY <1>1, FS_Interval
<1> QED BY <1>1, <1>2, FS_Subset

(* Authorising a protected push uses an approval that was not used before.   *)
LEMMA AuthorizationUses ==
    ASSUME AuthTypeOK, NEW p \in Principals, NEW target \in Targets,
           AuthorizeSensitive(p, "gitPushProtected", target)
    PROVE  AuthTypeOK' /\ \E id : id \notin Used /\ Used' = Used \cup {id}
<1> DEFINE action == "git:push-protected"
           id == FindApproval(p, action, target)
<1>1. CapabilityOf("gitPushProtected") = action
  BY DEF CapabilityOf
<1>2. /\ Valid(p, action, target) # {}
      /\ approvals' = [approvals EXCEPT ![id].consumed = TRUE]
      /\ UNCHANGED <<revoked, granted>>
  BY <1>1 DEF AuthorizeSensitive
<1>3. id \in 1..granted /\ approvals[id].action = action /\ ~approvals[id].consumed
  BY <1>2, FindsValid DEF Valid
<1> HIDE DEF id
<1>4. approvals \in [1..granted -> Approval] /\ granted \in Int
  BY DEF AuthTypeOK
<1>5. approvals' \in [1..granted' -> Approval]
  BY <1>2, <1>3, <1>4 DEF Approval
<1>6. \A i \in 1..granted : /\ approvals'[i].action = approvals[i].action
                            /\ i # id => approvals'[i] = approvals[i]
                            /\ i = id => approvals'[i].consumed
  BY <1>2, <1>4 DEF Approval
<1>7. id \notin Used /\ Used' = Used \cup {id}
  BY <1>2, <1>3, <1>6 DEF Used
<1> QED BY <1>2, <1>5, <1>7 DEF AuthTypeOK

(* Granting, expiring and revoking use none.                                *)
LEMMA AuthorityUsesNone ==
    ASSUME AuthTypeOK, AuthStep("git:push-protected")
    PROVE  AuthTypeOK' /\ Used' = Used
<1> approvals \in [1..granted -> Approval] /\ granted \in Nat
  BY AuthorityAssumption DEF AuthTypeOK, AuthorityAssumption
<1>1. ASSUME NEW granter \in Principals, NEW for \in Principals, NEW act \in Acts,
             Grant(granter, "git:push-protected", act, for)
      PROVE  AuthTypeOK' /\ Used' = Used
  <2> DEFINE new == [action |-> "git:push-protected", act |-> act, for |-> for, by |-> granter,
                     expired |-> FALSE, consumed |-> FALSE]
  <2>1. new \in Approval
    BY DEF Approval, SENSITIVE
  <2>2. granted' = granted + 1 /\ granted < MaxApprovals /\ revoked' = revoked
    BY <1>1 DEF Grant
  <2>3. approvals' = [id \in 1..granted' |-> IF id \in 1..granted THEN approvals[id] ELSE new]
    BY <1>1 DEF Grant
  <2> HIDE DEF new
  <2>4. approvals' \in [1..granted' -> Approval]
    BY <2>1, <2>3
  <2>5. ~approvals'[granted + 1].consumed /\ \A id \in 1..granted : approvals'[id] = approvals[id]
    BY <2>2, <2>3 DEF new
  <2>6. Used' = Used
    BY <2>2, <2>5 DEF Used
  <2> QED BY <2>2, <2>4, <2>6, AuthorityAssumption DEF AuthTypeOK, AuthorityAssumption
<1>2. ASSUME NEW id \in Ids, ApprovalExpires(id) PROVE AuthTypeOK' /\ Used' = Used
  <2>1. approvals' \in [1..granted -> Approval]
    BY <1>2 DEF ApprovalExpires, Approval
  <2>2. \A i \in 1..granted : /\ approvals'[i].action = approvals[i].action
                              /\ approvals'[i].consumed = approvals[i].consumed
    BY <1>2 DEF ApprovalExpires, Approval
  <2> QED BY <1>2, <2>1, <2>2 DEF ApprovalExpires, AuthTypeOK, Used
<1>3. ASSUME NEW by \in Principals, NEW p \in Principals, RevokePrincipal(by, p)
      PROVE  AuthTypeOK' /\ Used' = Used
  BY <1>3 DEF RevokePrincipal, AuthTypeOK, Used
<1> QED BY <1>1, <1>2, <1>3 DEF AuthStep
-----------------------------------------------------------------------------
(* Pushes *)

IsPush(r) == /\ DOMAIN r = {"pc", "target", "attempt"} /\ r.target \in Names \cup {"none"}
             /\ r.pc = "resolved" => r.target \in Names \ PROTECTED
PushForm ==
    /\ branch \in Branches /\ moved \in Nat
    /\ DOMAIN push = Callers /\ \A c \in Callers : IsPush(push[c])

(* Pushes that may still move a branch under a protected name: their         *)
(* destination is not a name that was found unlisted.                      *)
Unprotected(c) == push[c].target \in Names \ PROTECTED
Signed == {c \in Callers : push[c].pc \in InLoop /\ ~Unprotected(c)}

(* Every such push has its consumed approval, and so has every move.        *)
PushInv ==
    /\ AuthTypeOK /\ PushForm
    /\ IsFiniteSet(Signed)
    /\ moved + Cardinality(Signed) <= Cardinality(Used)

(* c's push is r now, and nobody else's has changed.                        *)
PushBecomes(c, r) ==
    /\ IsPush(r) /\ push'[c] = r
    /\ DOMAIN push' = Callers /\ \A d \in Callers \ {c} : push'[d] = push[d]

LEMMA PushReturns ==
    ASSUME PushForm, NEW c \in Callers, PushReturn(c)
    PROVE  PushBecomes(c, NotPushing) /\ NotPushing.pc \notin InLoop
BY DEF PushForm, PushReturn, PushBecomes, IsPush, NotPushing, InLoop

LEMMA PushAdvances ==
    ASSUME PushForm, NEW c \in Callers, NEW pc, PushGo(c, pc), pc # "resolved"
    PROVE  PushBecomes(c, push'[c]) /\ push'[c].pc = pc /\ push'[c].target = push[c].target
BY DEF PushForm, PushGo, PushBecomes, IsPush

(* Where a push goes is protected only if it is one of those that count.     *)
LEMMA ProtectedIsSigned ==
    ASSUME PushForm, NEW c \in Callers, IsProtected(Destination(push[c].target))
    PROVE  ~Unprotected(c)
BY BranchAssumption DEF BranchAssumption, IsProtected, Destination, Unprotected, Names

(* A step of a call that does not begin a protected push: it may move a      *)
(* branch under a protected name only as the last step of one that counts. *)
LEMMA PushStepKeeps ==
    ASSUME PushInv, NEW c \in Callers, NEW r, PushBecomes(c, r), UNCHANGED authVars, branch' \in Branches,
           r.pc \in InLoop => c \in Signed \/ r.target \in Names \ PROTECTED,
           moved' = moved \/ (moved' = moved + 1 /\ c \in Signed /\ r.pc \notin InLoop)
    PROVE  PushInv'
<1> DEFINE n == Cardinality(Signed)
           m == Cardinality(Signed')
           u == Cardinality(Used)
<1>1. AuthTypeOK' /\ Used' = Used
  BY DEF PushInv, AuthTypeOK, authVars, Used
<1>2. PushForm'
  BY DEF PushInv, PushForm, PushBecomes
<1>3. Signed' \subseteq Signed /\ (r.pc \notin InLoop => c \notin Signed')
  BY DEF Signed, Unprotected, PushBecomes
<1>4. IsFiniteSet(Signed') /\ m <= n /\ m \in Nat /\ n \in Nat
  BY <1>3, FS_Subset, FS_CardinalityType DEF PushInv
<1>5. c \in Signed /\ c \notin Signed' => m <= n - 1
  <2>1. Signed' \subseteq Signed \ {c} <=> c \notin Signed'
    BY <1>3
  <2>2. c \in Signed => IsFiniteSet(Signed \ {c}) /\ Cardinality(Signed \ {c}) = n - 1
    BY FS_RemoveElement DEF PushInv
  <2> QED BY <2>1, <2>2, FS_Subset
<1>6. u \in Nat
  BY UsedIsFinite, FS_CardinalityType DEF PushInv
<1>7. moved + n <= u /\ moved \in Nat
  BY DEF PushInv, PushForm
<1> HIDE DEF n, m, u
<1>8. moved' + m <= u
  BY <1>3, <1>4, <1>5, <1>6, <1>7
<1> QED BY <1>1, <1>2, <1>4, <1>8 DEF PushInv, m, u

(* The last step of a push, or its daemon dies and git may finish.          *)
LEMMA LastStepKeeps ==
    ASSUME PushInv, NEW c \in Callers, PushReturn(c), UNCHANGED <<authVars, branch>>,
           \/ push[c].pc = "pushing" /\ RemoteTakes(Destination(push[c].target))
           \/ moved' = moved
    PROVE  PushInv'
<1>1. PushBecomes(c, NotPushing) /\ NotPushing.pc \notin InLoop /\ branch' \in Branches
  BY PushReturns DEF PushInv, PushForm
<1>2. moved' = moved \/ (moved' = moved + 1 /\ c \in Signed)
  BY ProtectedIsSigned DEF PushInv, RemoteTakes, Signed, InLoop
<1> QED BY <1>1, <1>2, PushStepKeeps

(* A step within the fight loop.                                           *)
LEMMA LoopStepKeeps ==
    ASSUME PushInv, NEW c \in Callers, push[c].pc \in InLoop,
           UNCHANGED <<authVars, branch, moved>>,
           PushBecomes(c, push'[c]), push'[c].target = push[c].target
    PROVE  PushInv'
BY PushStepKeeps DEF PushInv, PushForm, Signed, Unprotected

(* Entering the loop, or not: either way the call is settled on its target.  *)
LEMMA LoopEntered ==
    ASSUME PushForm, NEW c \in Callers, NEW target \in Names \cup {"none"},
           EnterLoop(c, target)
    PROVE  \E r : PushBecomes(c, r) /\ (r.pc \in InLoop => r.target = target)
<1>1. CASE PushReturn(c)
  BY <1>1, PushReturns
<1>2. CASE push' = [push EXCEPT ![c] = [pc |-> "staging", target |-> target, attempt |-> 1]]
  <2> DEFINE r == [pc |-> "staging", target |-> target, attempt |-> 1]
  <2>1. IsPush(r) /\ r.target = target
    BY DEF IsPush
  <2> QED BY <1>2, <2>1 DEF PushForm, PushBecomes
<1> QED BY <1>1, <1>2 DEF EnterLoop

(* gitPushProtected: one approval more is used, and one push more counts.    *)
LEMMA ProtectedPushKeeps ==
    ASSUME PushInv, NEW c \in Callers, NEW p \in Principals, NEW target \in Targets,
           BeginPushProtected(c, p, target)
    PROVE  PushInv'
<1>1. UNCHANGED <<branch, moved>> /\ EnterLoop(c, target)
      /\ AuthorizeSensitive(p, "gitPushProtected", target)
  BY DEF BeginPushProtected
<1>2. PICK id : AuthTypeOK' /\ id \notin Used /\ Used' = Used \cup {id}
  BY <1>1, AuthorizationUses DEF PushInv
<1>3. PICK r : PushBecomes(c, r)
  BY <1>1, LoopEntered DEF PushInv, Names
<1>4. PushForm'
  BY <1>1, <1>3 DEF PushInv, PushForm, PushBecomes
<1>5. Signed' \subseteq Signed \cup {c}
  BY <1>3 DEF Signed, Unprotected, PushBecomes
<1>6. /\ IsFiniteSet(Signed')
      /\ Cardinality(Signed') \in Nat /\ Cardinality(Signed) \in Nat
      /\ Cardinality(Signed') <= Cardinality(Signed) + 1
  <2>1. IsFiniteSet(Signed)
    BY DEF PushInv
  <2>2. /\ IsFiniteSet(Signed \cup {c}) /\ Cardinality(Signed) \in Nat
        /\ Cardinality(Signed \cup {c}) <= Cardinality(Signed) + 1
    BY <2>1, OneMore
  <2>3. IsFiniteSet(Signed') /\ Cardinality(Signed') <= Cardinality(Signed \cup {c})
    BY <1>5, <2>2, FS_Subset
  <2>4. Cardinality(Signed \cup {c}) \in Nat /\ Cardinality(Signed') \in Nat
    BY <2>2, <2>3, FS_CardinalityType
  <2> QED BY <2>2, <2>3, <2>4
<1>7. Cardinality(Used) \in Nat /\ Cardinality(Used') = Cardinality(Used) + 1
  BY <1>2, UsedIsFinite, FS_AddElement, FS_CardinalityType DEF PushInv
<1> QED BY <1>1, <1>2, <1>4, <1>6, <1>7 DEF PushInv, PushForm

LEMMA PushInitial == Init => PushInv
<1> SUFFICES ASSUME Init PROVE PushInv
  OBVIOUS
<1>1. PushForm
  BY BranchAssumption DEF Init, PushInit, PushForm, IsPush, NotPushing, BranchAssumption
<1>2. AuthTypeOK /\ granted = 0
  BY AuthorityAssumption DEF Init, AuthInit, AuthTypeOK, AuthorityAssumption
<1>3. Signed = {} /\ Used = {} /\ moved = 0
  BY <1>2 DEF Init, PushInit, Signed, Used, NotPushing, InLoop
<1> QED BY <1>1, <1>2, <1>3, FS_EmptySet DEF PushInv

LEMMA PushesKeepSigned ==
    ASSUME PushInv, NEW c \in Callers, Pushes(c)
    PROVE  PushInv'
<1> PushForm BY DEF PushInv
<1> IsPush(push[c]) BY DEF PushForm
<1>1. ASSUME PushReturn(c), UNCHANGED <<authVars, branch, moved>> PROVE PushInv'
  BY <1>1, LastStepKeeps
<1>2. ASSUME NEW p \in Principals, NEW target \in Targets, BeginPush(c, p, target) PROVE PushInv'
  <2> DEFINE r == [NotPushing EXCEPT !.pc = "resolving", !.target = target]
  <2>1. IsPush(r) /\ r.pc \notin InLoop
    BY DEF IsPush, NotPushing, InLoop, Names
  <2>2. PushBecomes(c, r)
    BY <1>2, <2>1 DEF BeginPush, PushBecomes, PushForm
  <2> QED BY <1>2, <2>1, <2>2, PushStepKeeps DEF BeginPush, PushForm
<1>3. ASSUME NEW p \in Principals, NEW target \in Targets, BeginPushProtected(c, p, target)
      PROVE  PushInv'
  BY <1>3, ProtectedPushKeeps
<1>4. CASE ResolveDestination(c)
  <2>1. CASE ~IsProtected(Destination(push[c].target))
             /\ push' = [push EXCEPT ![c].pc = "resolved", ![c].target = Pinned(@)]
    <3>1. Pinned(push[c].target) \in Names \ PROTECTED
      BY <2>1, BranchAssumption DEF Pinned, Destination, IsProtected, IsPush, PushForm, BranchAssumption, Names
    <3>2. PushBecomes(c, push'[c]) /\ push'[c].pc = "resolved"
      BY <2>1, <3>1 DEF PushBecomes, PushForm, IsPush
    <3> QED BY <1>4, <3>2, PushStepKeeps DEF ResolveDestination, PushForm, InLoop
  <2> QED BY <1>1, <1>4, <2>1 DEF ResolveDestination
<1>5. CASE StartLoop(c)
  <2>1. push[c].target \in Names \ PROTECTED /\ EnterLoop(c, push[c].target)
    BY <1>5 DEF StartLoop, IsPush
  <2>2. PICK r : PushBecomes(c, r) /\ (r.pc \in InLoop => r.target = push[c].target)
    BY <2>1, LoopEntered
  <2> QED BY <1>5, <2>1, <2>2, PushStepKeeps DEF StartLoop, PushForm
<1>6. CASE Stage(c) /\ UNCHANGED authVars
  <2>1. push[c].pc \in InLoop /\ UNCHANGED <<branch, moved>>
    BY <1>6 DEF Stage, InLoop
  <2>2. PushReturn(c) \/ \E pc \in {"committing", "comparing"} : PushGo(c, pc)
    BY <1>6 DEF Stage, EndLoop
  <2> QED BY <1>1, <1>6, <2>1, <2>2, PushAdvances, LoopStepKeeps
<1>7. CASE Commit(c) /\ UNCHANGED authVars
  <2>1. push[c].pc \in InLoop /\ UNCHANGED <<branch, moved>>
    BY <1>7 DEF Commit, InLoop
  <2>2. CASE \E class \in FailureClasses : FixedAndRetried(c, class)
    <3>1. PushBecomes(c, push'[c]) /\ push'[c].target = push[c].target
      BY <2>2 DEF FixedAndRetried, PushBecomes, PushForm, IsPush
    <3> QED BY <1>7, <2>1, <3>1, LoopStepKeeps
  <2>3. CASE PushReturn(c) \/ PushGo(c, "pushing")
    BY <1>1, <1>7, <2>1, <2>3, PushAdvances, LoopStepKeeps
  <2> QED BY <1>7, <2>2, <2>3 DEF Commit, Committed, GivesUp, EndLoop
<1>8. CASE Compare(c) /\ UNCHANGED authVars
  <2>1. push[c].pc \in InLoop /\ UNCHANGED <<branch, moved>>
    BY <1>8 DEF Compare, InLoop
  <2>2. PushReturn(c) \/ PushGo(c, "pushing")
    BY <1>8 DEF Compare, EndLoop
  <2> QED BY <1>1, <1>8, <2>1, <2>2, PushAdvances, LoopStepKeeps
<1>9. CASE Push(c) /\ UNCHANGED authVars
  BY <1>9, LastStepKeeps DEF Push, EndLoop
<1> QED BY <1>2, <1>3, <1>4, <1>5, <1>6, <1>7, <1>8, <1>9 DEF Pushes

LEMMA PushInvStep == PushInv /\ [Next]_vars => PushInv'
<1> SUFFICES ASSUME PushInv, [Next]_vars PROVE PushInv'
  OBVIOUS
<1>1. ASSUME UNCHANGED authVars, UNCHANGED <<push, moved>>, branch' \in Branches PROVE PushInv'
  BY <1>1 DEF PushInv, PushForm, AuthTypeOK, authVars, Signed, Unprotected, Used
<1>2. branch \in Branches /\ (CheckedOut => branch' \in Branches)
  BY BranchAssumption DEF PushInv, PushForm, CheckedOut, BranchAssumption
<1>3. ASSUME NEW c \in Callers, Slot(c) PROVE PushInv'
  BY <1>1, <1>2, <1>3 DEF Slot, RestOfRepo
<1>4. ASSUME NEW c \in Callers, Assign(c) PROVE PushInv'
  BY <1>1, <1>2, <1>4 DEF Assign, pushVars
<1>5. ASSUME NEW c \in Callers, Pushes(c) PROVE PushInv'
  BY <1>5, PushesKeepSigned
<1>6. ASSUME NEW c \in Callers, CallDies(c) PROVE PushInv'
  <2>1. CASE PushDies(c)
    BY <1>6, <2>1, LastStepKeeps DEF CallDies, PushDies
  <2>2. CASE (CheckedOut /\ RestOfRepo) \/ UNCHANGED pushVars
    BY <1>1, <1>2, <1>6, <2>2 DEF CallDies, RestOfRepo, pushVars
  <2> QED BY <1>6, <2>1, <2>2 DEF CallDies
<1>7. CASE Authority
  <2>1. AuthTypeOK' /\ Used' = Used /\ UNCHANGED pushVars
    BY <1>7, AuthorityUsesNone DEF Authority, PushInv
  <2> QED BY <2>1 DEF PushInv, PushForm, pushVars, Signed, Unprotected
<1>8. CASE Time
  BY <1>1, <1>2, <1>8 DEF Time, IdentityLapses, pushVars
<1>9. CASE Others
  BY <1>1, <1>2, <1>9 DEF Others, Edit, Checkout, pushVars
<1>10. CASE UNCHANGED vars
  BY <1>1, <1>2, <1>10 DEF vars, pushVars
<1> QED BY <1>3, <1>4, <1>5, <1>6, <1>7, <1>8, <1>9, <1>10 DEF Next

(* Under protected names the remote's branches move no more often than       *)
(* approvals of just that push were consumed.                              *)
THEOREM PushesAreSigned == Spec => []ProtectedPushesSigned
<1>1. PushInv => ProtectedPushesSigned
  <2> SUFFICES ASSUME PushInv PROVE ProtectedPushesSigned
    OBVIOUS
  <2>1. \A id \in 1..granted : approvals[id].act \in Acts
    BY DEF PushInv, AuthTypeOK, Approval
  <2>2. UNION {Consumed("git:push-protected", act) : act \in Acts} = Used
    BY <2>1 DEF Consumed, Used
  <2>3. Cardinality(Signed) \in Nat /\ Cardinality(Used) \in Nat /\ moved \in Nat
    BY UsedIsFinite, FS_CardinalityType DEF PushInv, PushForm
  <2> QED BY <2>2, <2>3 DEF PushInv, ProtectedPushesSigned
<1> QED BY PushInitial, PushInvStep, <1>1, PTL DEF Spec

-----------------------------------------------------------------------------
(* Assignments *)

IsAssignment(r) == /\ DOMAIN r = {"pc", "cwd", "key", "todo", "live"}
                   /\ r.todo # <<>> => r.pc = "starting"

(* A call with a worker left to start is starting, and unless something died *)
(* one is while the task is.                                               *)
StartInv ==
    /\ crashes \in Nat
    /\ DOMAIN assign = Callers /\ \A c \in Callers : IsAssignment(assign[c])
    /\ task = "starting" /\ crashes = 0 => \E c \in Callers : assign[c].pc = "starting"

LEMMA StartInitial == Init => StartInv
BY DEF Init, SlotInit, AssignInit, StartInv, IsAssignment, NotAssigning

LEMMA OutcomeIsBooked == \A state, live : Compensated(state, live) # "starting"
BY DEF Compensated

(* c's assignment is r now, and nobody else's has changed.                  *)
AssignBecomes(c, r) ==
    /\ IsAssignment(r) /\ assign'[c] = r
    /\ DOMAIN assign' = Callers /\ \A d \in Callers \ {c} : assign'[d] = assign[d]

LEMMA AssignKeepsStarts ==
    ASSUME StartInv, NEW c \in Callers, Assign(c)
    PROVE  StartInv'
<1> IsAssignment(assign[c]) BY DEF StartInv
<1>1. ASSUME NEW key \in Keys \cup {"none"}, BeginAssign(c, key) PROVE StartInv'
  <2>1. crashes' = crashes
    BY <1>1 DEF BeginAssign
  <2>2. CASE task' # "starting" /\ assign' = assign
    BY <2>1, <2>2 DEF StartInv
  <2>3. ASSUME NEW cwd, NEW todo, NEW live,
               assign' = [assign EXCEPT ![c] = [pc |-> "starting", cwd |-> cwd, key |-> key,
                                                todo |-> todo, live |-> live]]
        PROVE  StartInv'
    <3> DEFINE r == [pc |-> "starting", cwd |-> cwd, key |-> key, todo |-> todo, live |-> live]
    <3>1. IsAssignment(r) /\ r.pc = "starting"
      BY DEF IsAssignment
    <3>2. assign' = [assign EXCEPT ![c] = r]
      BY <2>3
    <3> HIDE DEF r
    <3> QED BY <2>1, <3>1, <3>2 DEF StartInv
  <2> QED BY <1>1, <2>2, <2>3, OutcomeIsBooked DEF BeginAssign
<1>2. CASE StartRun(c)
  <2>1. UNCHANGED <<task, crashes>> /\ assign[c].pc = "starting"
    BY <1>2 DEF StartRun, IsAssignment, boundVars
  <2>2. DOMAIN assign' = Callers /\ assign'[c].pc = "starting" /\ DOMAIN assign'[c] = DOMAIN assign[c]
        /\ \A d \in Callers \ {c} : assign'[d] = assign[d]
    BY <1>2, <2>1 DEF StartRun, StartInv, IsAssignment
  <2> QED BY <2>1, <2>2 DEF StartInv, IsAssignment
<1>3. CASE FinishAssign(c)
  <2>1. task' # "starting" /\ crashes' = crashes /\ assign' = [assign EXCEPT ![c] = NotAssigning]
    BY <1>3, OutcomeIsBooked DEF FinishAssign, boundVars
  <2> QED BY <2>1 DEF StartInv, IsAssignment, NotAssigning
<1> QED BY <1>1, <1>2, <1>3 DEF Assign

LEMMA StartStep == StartInv /\ [Next]_vars => StartInv'
<1> SUFFICES ASSUME StartInv, [Next]_vars PROVE StartInv'
  OBVIOUS
<1>1. ASSUME UNCHANGED assignVars, crashes' = crashes, task' = task \/ task' # "starting" PROVE StartInv'
  BY <1>1 DEF StartInv, assignVars
<1>2. ASSUME NEW c \in Callers, Slot(c) PROVE StartInv'
  <2>1. crashes' = crashes
    BY <1>2 DEF Slot, SlotStep, BeginCreate, ClaimCreate, Poll, GiveUp, TakeOverToCreate, GitAdd,
                FinishCreate, BeginDiscard, TakeOverToDiscard, ClaimDiscard, CheckTree, GitRemove,
                FinishDiscard, boundVars
  <2> QED BY <1>1, <1>2, <2>1 DEF Slot
<1>3. ASSUME NEW c \in Callers, Assign(c) PROVE StartInv'
  BY <1>3, AssignKeepsStarts
<1>4. ASSUME NEW c \in Callers, Pushes(c) PROVE StartInv'
  BY <1>1, <1>4 DEF Pushes, BeginPush, BeginPushProtected, ResolveDestination, StartLoop, boundVars
<1>5. ASSUME NEW c \in Callers, CallDies(c) PROVE StartInv'
  <2>1. crashes' = crashes + 1 /\ task' = task
    BY <1>5 DEF CallDies
  <2>2. assign' = assign \/ assign' = [assign EXCEPT ![c] = NotAssigning]
    BY <1>5 DEF CallDies, AssignDies, assignVars
  <2>3. IsAssignment(NotAssigning)
    BY DEF IsAssignment, NotAssigning
  <2> QED BY <2>1, <2>2, <2>3 DEF StartInv
<1>6. CASE Authority
  BY <1>1, <1>6 DEF Authority
<1>7. CASE Time
  BY <1>1, <1>7 DEF Time, Ages, boundVars
<1>8. CASE Others
  BY <1>1, <1>8 DEF Others, RunEnds, Operator, boundVars
<1>9. CASE UNCHANGED vars
  BY <1>1, <1>9 DEF vars, boundVars
<1> QED BY <1>2, <1>3, <1>4, <1>5, <1>6, <1>7, <1>8, <1>9 DEF Next

(* However assignments overlap and whichever starts fail, a task is never     *)
(* left in `starting` with nobody starting it, unless a process died.      *)
THEOREM StartsAreBooked == Spec => []NoStrandedStart
<1>1. StartInv => NoStrandedStart
  BY DEF StartInv, NoStrandedStart, NotAssigning
<1> QED BY StartInitial, StartStep, <1>1, PTL DEF Spec
=============================================================================
