-------------------------- MODULE TaskReview_proofs --------------------------
(***************************************************************************)
(* Proofs about TaskReview, for any reviewers, profiles, commits and drains *)
(* and any bounds.                                                         *)
(***************************************************************************)
EXTENDS TaskReview, FiniteSetTheorems, TLAPS

-----------------------------------------------------------------------------
(* The outbox *)

Told(e) == e \in ledger

(* What the bridge knows: it has posted the events in its ledger, once, and *)
(* a drain that has its answer, or a row marked for it, is about such an    *)
(* event.  What a drain has read may be stale, and need not be known.      *)
LedgerIsTrue ==
    /\ attempt \in 1..MaxAttempts
    /\ DOMAIN outbox = {"row", "order"} /\ DOMAIN outbox.row = Events
    /\ DOMAIN posts = Events
    /\ DOMAIN drain = Drains /\ \A d \in Drains : DOMAIN drain[d] = {"pc", "todo"}
    /\ \A e \in Events : posts[e] = IF Told(e) THEN 1 ELSE 0
    /\ \A e \in Events : outbox.row[e] = "delivered" => Told(e)
    /\ \A d \in Drains : drain[d].pc = "answered" => Told(Head(drain[d].todo))

LEMMA LedgerInit == Init => LedgerIsTrue
BY BoundsAssumption DEF BoundsAssumption, Init, OutboxInit, LedgerIsTrue, Told, IdleDrain

(* Writing an event marks nothing delivered.                               *)
LEMMA WriteKeepsLedger ==
    ASSUME LedgerIsTrue, NEW e \in Events, WriteBestEffort(e),
           UNCHANGED <<attempt, drain, ledger, posts>>
    PROVE  LedgerIsTrue'
BY DEF LedgerIsTrue, Told, WriteBestEffort, Written

(* A call of the bridge posts unless the key, the event itself, is known.   *)
LEMMA PostKeepsLedger ==
    ASSUME LedgerIsTrue, NEW d \in Drains, Post(d), UNCHANGED attempt
    PROVE  LedgerIsTrue'
<1> DEFINE e == Head(drain[d].todo)
<1> USE DEF LedgerIsTrue, Told
<1>1. \/ ledger' = ledger /\ posts' = posts
      \/ ledger' = ledger \cup {e} /\ posts' = [posts EXCEPT ![e] = IF e \in ledger THEN @ ELSE @ + 1]
  BY DEF Post, BridgePosts, KeyOf
<1>2. \A x \in Events : posts'[x] = IF Told(x)' THEN 1 ELSE 0
  BY <1>1
<1>3. DOMAIN posts' = Events /\ ledger \subseteq ledger' /\ outbox' = outbox
  BY <1>1 DEF Post
<1>4. ASSUME NEW x \in Drains, drain'[x].pc = "answered"
      PROVE  Told(Head(drain[x].todo))' /\ drain'[x].todo = drain[x].todo
  <2>1. CASE x = d
    BY <2>1, <1>4 DEF Post, BridgePosts, KeyOf
  <2>2. CASE x # d
    BY <2>2, <1>3, <1>4 DEF Post
  <2> QED BY <2>1, <2>2
<1>5. DOMAIN drain' = Drains /\ \A x \in Drains : DOMAIN drain'[x] = {"pc", "todo"}
  BY DEF Post
<1> QED BY <1>2, <1>3, <1>4, <1>5

LEMMA LedgerStep == LedgerIsTrue /\ [Next]_vars => LedgerIsTrue'
<1> SUFFICES ASSUME LedgerIsTrue, [Next]_vars PROVE LedgerIsTrue'
  OBVIOUS
<1> USE DEF LedgerIsTrue, Told, outboxVars
<1>1. ASSUME NEW to \in STATES, Transition(to) PROVE LedgerIsTrue'
  BY <1>1, BoundsAssumption DEF Transition, BoundsAssumption
<1>2. ASSUME Begin \/ FinishVerdict PROVE LedgerIsTrue'
  BY <1>2 DEF Begin, BeginVerdict, FinishVerdict
<1>3. ASSUME NEW round, NEW commit, NEW head, NEW profile, Approve(round, commit, head, profile)
      PROVE  LedgerIsTrue'
  <2>1. <<"task-approved", attempt>> \in Events
    BY EventsAssumption DEF EventsAssumption
  <2> QED BY <1>3, <2>1, WriteKeepsLedger DEF Approve
<1>4. ASSUME Merge PROVE LedgerIsTrue'
  <2>1. <<"task-merged", attempt>> \in Events
    BY EventsAssumption DEF EventsAssumption
  <2> QED BY <1>4, <2>1, WriteKeepsLedger DEF Merge
<1>5. ASSUME NEW file \in Files, ImportReviewProfiles(file) PROVE LedgerIsTrue'
  BY <1>5 DEF ImportReviewProfiles
<1>6. ASSUME Restart PROVE LedgerIsTrue'
  BY <1>6 DEF Restart, DrainsRestart, Begun, IdleDrain
<1>7. ASSUME NEW d \in Drains, StartDrain(d), UNCHANGED taskVars PROVE LedgerIsTrue'
  BY <1>7 DEF StartDrain, Begun, IdleDrain, taskVars
<1>8. ASSUME NEW d \in Drains, Post(d), UNCHANGED taskVars PROVE LedgerIsTrue'
  BY <1>8, PostKeepsLedger DEF taskVars
<1>9. ASSUME NEW d \in Drains, Settle(d), UNCHANGED taskVars PROVE LedgerIsTrue'
  BY <1>9 DEF Settle, Marked, Begun, IdleDrain, taskVars
<1>10. CASE UNCHANGED vars
  BY <1>10 DEF vars, taskVars
<1> QED
  BY <1>1, <1>2, <1>3, <1>4, <1>5, <1>6, <1>7, <1>8, <1>9, <1>10 DEF Next, Drain, DrainStep

(* An announcement reaches the channel at most once, however many drains    *)
(* overlap, fail or die, and a row marked delivered was posted: the row's   *)
(* id as the bridge's idempotency key is enough.                           *)
THEOREM AnnouncedOnce == Spec => []PostedOnce
<1>1. LedgerIsTrue => PostedOnce
  BY DEF LedgerIsTrue, PostedOnce, Told
<1> QED BY LedgerInit, LedgerStep, <1>1, PTL DEF Spec
-----------------------------------------------------------------------------
(* The review *)

Decided == state \in {"approved", "merged"}

(* A decision is taken while no verdict is being recorded, on the verdicts *)
(* there are, and none is recorded after it.                               *)
DecisionIsOfRecord ==
    Decided => /\ verifying = Nobody
               /\ decided.round = LatestRound(verdicts)
               /\ \E p \in Profiles : ReviewStatus(verdicts, p, decided.round, decided.commit)

(* A verdict was recorded with its worker's own token, or with the owner's.  *)
OwnOrOwners(v) == v.by \in {v.worker, "owner"}
VerdictsAreOfTheirWorkers ==
    /\ IsFiniteSet(verdicts)
    /\ \A v \in verdicts : OwnOrOwners(v)
    /\ verifying # Nobody => OwnOrOwners(verifying)

ReviewInv == config \in Configs /\ DecisionIsOfRecord /\ VerdictsAreOfTheirWorkers

LEMMA ReviewInit == Init => ReviewInv
BY FS_EmptySet DEF Init, ReviewInv, DecisionIsOfRecord, Decided, VerdictsAreOfTheirWorkers

LEMMA ReviewStep == ReviewInv /\ [Next]_vars => ReviewInv'
<1> SUFFICES ASSUME ReviewInv, [Next]_vars PROVE ReviewInv'
  OBVIOUS
<1> USE DEF ReviewInv, DecisionIsOfRecord, Decided, VerdictsAreOfTheirWorkers
<1>1. ASSUME NEW to \in STATES, Transition(to) PROVE ReviewInv'
  <2>1. ~Decided'
    BY <1>1 DEF Transition, RecordTransition
  <2> QED BY <1>1, <2>1 DEF Transition
<1>2. ASSUME Begin PROVE ReviewInv'
  <2>1. ~Decided /\ UNCHANGED <<state, verdicts, config>>
    BY <1>2 DEF Begin, BeginVerdict
  <2>2. OwnOrOwners(verifying')
    BY <1>2 DEF Begin, BeginVerdict, MayRecordFor, OwnOrOwners
  <2> QED BY <2>1, <2>2
<1>3. ASSUME FinishVerdict PROVE ReviewInv'
  <2>1. ~Decided' /\ verifying' = Nobody /\ UNCHANGED config
    BY <1>3 DEF FinishVerdict
  <2>2. verdicts' \subseteq verdicts \cup {verifying}
    BY <1>3 DEF FinishVerdict, Upsert
  <2>3. IsFiniteSet(verdicts')
    BY <2>2, FS_AddElement, FS_Subset
  <2>4. \A v \in verdicts' : OwnOrOwners(v)
    BY <1>3, <2>2 DEF FinishVerdict
  <2> QED BY <2>1, <2>3, <2>4
<1>4. ASSUME NEW round, NEW commit, NEW head, NEW profile \in GoverningProfiles,
             Approve(round, commit, head, profile)
      PROVE  ReviewInv'
  <2>1. profile \in Profiles
    BY GovernedAssumption DEF GovernedAssumption, GoverningProfiles
  <2>2. UNCHANGED <<verdicts, verifying, config>> /\ verifying = Nobody
    BY <1>4 DEF Approve, LockFree
  <2>3. decided' = [round |-> LatestRound(verdicts), commit |-> JudgedCommit(commit, head)]
    BY <1>4 DEF Approve
  <2>4. ReviewStatus(verdicts, profile, LatestRound(verdicts), JudgedCommit(commit, head))
    BY <1>4 DEF Approve
  <2> QED BY <2>1, <2>2, <2>3, <2>4
<1>5. ASSUME Merge PROVE ReviewInv'
  <2>1. Decided
    BY <1>5 DEF Merge, RecordTransition, CanTransition, Edges, IN_FLIGHT
  <2> QED BY <1>5, <2>1 DEF Merge
<1>6. ASSUME NEW file \in Files, ImportReviewProfiles(file) PROVE ReviewInv'
  BY <1>6 DEF ImportReviewProfiles, Configs
<1>7. ASSUME Restart PROVE ReviewInv'
  BY <1>7 DEF Restart
<1>8. CASE Drain \/ UNCHANGED vars
  BY <1>8 DEF Drain, vars, taskVars
<1> QED BY <1>1, <1>2, <1>3, <1>4, <1>5, <1>6, <1>7, <1>8 DEF Next

(* The quorum an approval counted is one of different workers, each of whom *)
(* spoke with a token of its own or was spoken for by the owner, whatever   *)
(* the profile asks for: no worker's token makes up for another's           *)
(* (recordVerdict's identity boundary).  Of the owner's it says no such     *)
(* thing: the code lets the owner speak for any number of them.            *)
THEOREM NobodyCountsTwice == Spec => []QuorumIsOfPeople
<1>1. ReviewInv => QuorumIsOfPeople
  <2> SUFFICES ASSUME ReviewInv, Decided PROVE QuorumIsOfPeople
    BY DEF Decided, QuorumIsOfPeople
  <2>1. PICK p \in Profiles : ReviewStatus(verdicts, p, decided.round, decided.commit)
    BY DEF ReviewInv, DecisionIsOfRecord
  <2> DEFINE judge == JudgedUnder(verdicts, decided.round, p)
             current == CurrentVerdicts(verdicts, judge, decided.round, decided.commit)
             counted == Countable(current, judge)
  <2>2. Cardinality(DistinctReviewers(current, judge)) >= judge.required
    BY <2>1 DEF ReviewStatus, EvaluateReview
  <2>3. counted \subseteq verdicts
    BY DEF Countable, CurrentVerdicts, listReviewVerdicts
  <2> DEFINE own == {v.by : v \in counted} \ {"owner"}
             spokenFor == {v.worker : v \in {w \in counted : w.by = "owner"}}
  <2>4. own \cup spokenFor = DistinctReviewers(current, judge)
    <3>1. \A v \in counted : v.by = v.worker \/ v.by = "owner"
      BY <2>3 DEF ReviewInv, VerdictsAreOfTheirWorkers, OwnOrOwners
    <3>2. DistinctReviewers(current, judge) = {v.worker : v \in counted}
      BY DEF DistinctReviewers
    <3> HIDE DEF counted
    <3> QED BY <3>1, <3>2
  <2>5. Cardinality(own \cup spokenFor) >= judge.required
    BY <2>2, <2>4
  <2> QED BY <2>1, <2>5 DEF QuorumIsOfPeople
<1> QED BY ReviewInit, ReviewStep, <1>1, PTL DEF Spec

(* A round whose quorum is at least one reviewer holds a verdict, so it has *)
(* one profile, and whichever governs the task by now, that one judges it.  *)
LEMMA OneProfileJudges ==
    ASSUME NEW p \in Profiles, NEW q, p.required \in Nat \ {0}, NEW round, NEW commit,
           IsFiniteSet(verdicts), ReviewStatus(verdicts, p, round, commit)
    PROVE  ReviewStatus(verdicts, q, round, commit)
<1> DEFINE recorded == RoundProfiles(verdicts, round)
           judge == JudgedUnder(verdicts, round, p)
           current == CurrentVerdicts(verdicts, judge, round, commit)
           spoke == DistinctReviewers(current, judge)
<1>1. IsFiniteSet(recorded) /\ Cardinality(recorded) \in Nat
  <2>1. IsFiniteSet(listReviewVerdicts(verdicts, round))
    BY FS_Subset DEF listReviewVerdicts
  <2> DEFINE profileOf == [v \in listReviewVerdicts(verdicts, round) |-> v.profile]
  <2>2. profileOf \in Surjection(listReviewVerdicts(verdicts, round), recorded)
    BY DEF Surjection, RoundProfiles
  <2> QED BY <2>1, <2>2, FS_Surjection, FS_CardinalityType
<1>2. Cardinality(recorded) <= 1
  BY DEF ReviewStatus
<1>3. Cardinality(recorded) = 1
  <2> SUFFICES ASSUME Cardinality(recorded) # 1 PROVE FALSE
    OBVIOUS
  <2>1. judge = p
    BY DEF JudgedUnder
  <2>2. recorded = {}
    BY <1>1, <1>2, FS_EmptySet
  <2>3. spoke = {}
    BY <2>2 DEF DistinctReviewers, Countable, CurrentVerdicts, RoundProfiles
  <2>4. Cardinality(spoke) >= p.required
    BY <2>1 DEF ReviewStatus, EvaluateReview
  <2> QED BY <2>3, <2>4, FS_EmptySet
<1> QED BY <1>3 DEF ReviewStatus, JudgedUnder

(* A decision stands, under any edit of the profiles and any call that was  *)
(* under way when it was taken, wherever the profiles ask for a reviewer at *)
(* all: one that requires none and blocks on nothing approves a round with  *)
(* no verdicts, and such a decision falls with the profile.                *)
THEOREM DecisionsStand ==
    ASSUME \A p \in Profiles : p.required \in Nat \ {0}
    PROVE  Spec => []ApprovalStands
<1>1. ReviewInv => ApprovalStands
  BY OneProfileJudges DEF ReviewInv, DecisionIsOfRecord, Decided, VerdictsAreOfTheirWorkers,
                          ApprovalStands
<1> QED BY ReviewInit, ReviewStep, <1>1, PTL DEF Spec
=============================================================================
