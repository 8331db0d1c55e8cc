----------------------------- MODULE TaskReview -----------------------------
(***************************************************************************)
(* One task under review: the tasks and review_verdicts rows, the calls of *)
(* runtime/supervisor.js that record verdicts, approve and merge, the      *)
(* transitions its operators and workers make, and the notifications that   *)
(* an approval and a merge put in the outbox.                              *)
(*                                                                         *)
(* recordVerdict and approveTask take the task's lock; only recordVerdict   *)
(* waits while it holds it, for whoever verifies its findings.  mergeTask,  *)
(* transitions and imports of review-profiles.json go on meanwhile.        *)
(*                                                                         *)
(* What git says of the worktree (its HEAD, the files changed) is chosen   *)
(* anew at every call: the worker commits whenever it likes, and a git     *)
(* that cannot answer counts as no HEAD and no files.                      *)
(***************************************************************************)
EXTENDS TaskStates, ReviewRules, Outbox

CONSTANTS
    Commits,      \* commits of the task's branch: positive numbers
    MaxRound,     \* bound: review rounds
    MaxVerdicts,  \* bound: rows of review_verdicts
    MaxAttempts,  \* bound: times the task is created, or retried
    ReviewedIn,   \* bound: the states in which somebody sends a verdict
    Votes,        \* the verdicts reviewers send
    Tokens        \* bound: whose tokens come with each worker's verdicts, a worker's
                  \* own, another's, or the owner's, which is bound to no worker

ASSUME BoundsAssumption ==
    /\ Commits \subseteq Nat \ {0}
    /\ MaxRound \in Nat \ {0} /\ MaxVerdicts \in Nat /\ MaxAttempts \in Nat \ {0}
    /\ ReviewedIn \subseteq STATES /\ Votes \subseteq VERDICTS
    /\ Tokens \in [Workers -> SUBSET (Workers \cup {"owner"})]
ASSUME EventsAssumption == Events = {"task-approved", "task-merged"} \X (1..MaxAttempts)

VARIABLES
    state,      \* tasks.state
    attempt,    \* how often the task was created
    verdicts,   \* the review_verdicts rows
    newest,     \* the commit of the last verdict recorded in the latest round, or 0
    verifying,  \* the verdict whose recording holds the task's lock, if any
    config,     \* the review config read last
    decided     \* what the last approval was given for (history)

taskVars == <<state, attempt, verdicts, newest, verifying, config, decided>>
vars == <<taskVars, outboxVars>>

Rounds == 1..MaxRound
Verdict == [worker : Workers, by : Workers \cup {"owner"}, round : Rounds, commit : Commits,
            dimension : Dimensions, verdict : Votes, profile : Profiles]
Nobody == [verdict |-> "none"]
Undecided == [round |-> 0, commit |-> 0]

TypeOK ==
    /\ state \in STATES /\ attempt \in 1..MaxAttempts
    /\ verdicts \subseteq Verdict
    /\ newest \in Commits \cup {0}
    /\ verifying = Nobody \/ verifying \in Verdict
    /\ config \in Configs
    /\ decided = Undecided \/ decided \in [round : 0..MaxRound, commit : Commits \cup {0}]
    /\ OutboxTypeOK

Init ==
    /\ state = "created" /\ attempt = 1
    /\ verdicts = {} /\ newest = 0 /\ verifying = Nobody
    /\ config \in Configs
    /\ decided = Undecided
    /\ OutboxInit

\* currentHeadFor, changedPathsFor and reviewProfileForTask: what git answers now
Heads == Commits \cup {0}
GoverningProfiles == {ProfileFor(config, changed) : changed \in {{}, Paths}}
-----------------------------------------------------------------------------
(* recordTransition: legality and state change in one transaction *)
NoContext == [humanApproved |-> FALSE, explicitRetry |-> FALSE, askOpen |-> FALSE,
              reviewerVerdicts |-> 0, requiredVerdicts |-> 0]
RecordTransition(to, context) == CanTransition(state, to, context) /\ state' = to

(* Everybody else's transitions: a start, a worker's progress, a failure, a *)
(* cancellation, an explicit retry, and blocked as asks open and close.    *)
Transition(to) ==
    /\ to \notin {"approved", "merged"}
    /\ \E ask \in BOOLEAN : RecordTransition(to, [NoContext EXCEPT !.askOpen = ask,
                                                                   !.explicitRetry = TRUE])
    /\ attempt' = IF to = "created" THEN attempt + 1 ELSE attempt
    /\ attempt' <= MaxAttempts
    /\ UNCHANGED <<verdicts, newest, verifying, config, decided, outboxVars>>
-----------------------------------------------------------------------------
(* Verdicts *)
NoLock == TRUE
LockFree == verifying = Nobody

\* A token bound to a worker records only that worker's verdicts; the owner's, anybody's.
AnyReviewer(token, worker) == TRUE
MayRecordFor(token, worker) == token = "owner" \/ token = worker

(* recordVerdict up to the wait: identity, role, dimension and state are    *)
(* checked, and the profile in force is read, with the lock taken.         *)
BeginVerdict(token, worker, round, commit, dimension, verdict, profile) ==
    /\ LockFree
    /\ profile \in GoverningProfiles
    /\ MayRecordFor(token, worker)
    /\ dimension \in DOMAIN profile.dimensions
    /\ state \notin {"approved", "merged"}
    /\ verifying' = [worker |-> worker, by |-> token, round |-> round,
                     commit |-> commit, dimension |-> dimension, verdict |-> verdict,
                     profile |-> profile]
    /\ UNCHANGED <<state, attempt, verdicts, newest, config, decided, outboxVars>>

SameKey(v, w) == /\ v.worker = w.worker /\ v.round = w.round
                 /\ v.commit = w.commit /\ v.dimension = w.dimension
Upsert(v) == {w \in verdicts : ~SameKey(v, w)} \cup {v}

\* The verifier has answered, or failed: either way the verdict is stored.
FinishVerdict ==
    /\ verifying # Nobody
    /\ verdicts' = Upsert(verifying)
    /\ newest' = IF verifying.round >= LatestRound(verdicts) THEN verifying.commit ELSE newest
    /\ verifying' = Nobody
    /\ UNCHANGED <<state, attempt, config, decided, outboxVars>>
-----------------------------------------------------------------------------
(* approveTask.  The caller may name a round and a commit (0: does not); a  *)
(* refused call changes nothing.                                           *)
JudgedCommit(commit, head) == IF commit # 0 THEN commit ELSE IF head # 0 THEN head ELSE newest
Approve(round, commit, head, profile) ==
    LET current == LatestRound(verdicts)
        quorum == QuorumMet(verdicts, JudgedUnder(verdicts, current, profile), current,
                            JudgedCommit(commit, head))
    IN /\ LockFree
       /\ state = "awaiting-review"
       /\ profile \in GoverningProfiles
       /\ round \in {0, current}
       /\ head # 0 /\ commit # 0 => commit = head
       /\ ReviewStatus(verdicts, profile, current, JudgedCommit(commit, head))
       /\ RecordTransition("approved",
             [NoContext EXCEPT !.reviewerVerdicts = quorum.reviewerVerdicts,
                               !.requiredVerdicts = quorum.requiredVerdicts])
       /\ decided' = [round |-> current, commit |-> JudgedCommit(commit, head)]
       /\ WriteBestEffort(<<"task-approved", attempt>>)
       /\ UNCHANGED <<attempt, verdicts, newest, verifying, config, drain, ledger, posts>>

\* mergeTask, for a caller whose authorisation was checked and spent before
Merge ==
    /\ RecordTransition("merged", [NoContext EXCEPT !.humanApproved = TRUE])
    /\ WriteBestEffort(<<"task-merged", attempt>>)
    /\ UNCHANGED <<attempt, verdicts, newest, verifying, config, decided, drain, ledger, posts>>

\* importReviewProfiles, of the file as it is now
ImportReviewProfiles(file) ==
    /\ config' = Load(file) /\ config' # config
    /\ UNCHANGED <<state, attempt, verdicts, newest, verifying, decided, outboxVars>>

\* The daemon dies: locks and calls are gone.  Boot imports and drains.
Restart ==
    /\ verifying' = Nobody
    /\ config' \in Configs
    /\ DrainsRestart
    /\ UNCHANGED <<state, attempt, verdicts, newest, decided>>

Drain == DrainStep /\ UNCHANGED taskVars

Begin ==
    /\ LockFree /\ state \in ReviewedIn
    /\ \E worker \in Workers : \E token \in Tokens[worker], round \in Rounds, commit \in Commits,
          dimension \in Dimensions, verdict \in Votes, profile \in GoverningProfiles :
          /\ BeginVerdict(token, worker, round, commit, dimension, verdict, profile)
          /\ Cardinality(Upsert(verifying')) <= MaxVerdicts

Next ==
    \/ \E to \in STATES : Transition(to)
    \/ Begin \/ FinishVerdict
    \/ \E round \in 0..MaxRound, commit \in Heads, head \in Heads, profile \in GoverningProfiles :
          Approve(round, commit, head, profile)
    \/ Merge
    \/ \E file \in Files : ImportReviewProfiles(file)
    \/ Restart
    \/ Drain

\* The timer keeps starting drains, and a call of the bridge ends.
Fairness ==
    \A d \in Drains : WF_vars((StartDrain(d) \/ Post(d) \/ Settle(d)) /\ UNCHANGED taskVars)

Spec == Init /\ [][Next]_vars
LiveSpec == Spec /\ Fairness
-----------------------------------------------------------------------------
(* A decision stands: whichever profile governs the task by now, the rule   *)
(* still approves the round and the commit it was given for.  No verdict    *)
(* in flight at the approval lands afterwards, no edit of the profiles      *)
(* reinterprets it (recordVerdict, withTaskLock and reviewStatus).         *)
ApprovalStands ==
    state \in {"approved", "merged"} =>
        /\ decided.round = LatestRound(verdicts)
        /\ \A p \in Profiles : ReviewStatus(verdicts, p, decided.round, decided.commit)

(* No worker's token stands for two reviewers: a quorum that an approval    *)
(* counted is made of workers who spoke with their own tokens and of        *)
(* workers the owner spoke for, each once (recordVerdict's identity        *)
(* boundary).  The owner may speak for any number of them, so a quorum the  *)
(* owner recorded is one person's.                                         *)
QuorumIsOfPeople ==
    state \in {"approved", "merged"} =>
        \E p \in Profiles :
            /\ ReviewStatus(verdicts, p, decided.round, decided.commit)
            /\ LET judge == JudgedUnder(verdicts, decided.round, p)
                   counted == Countable(CurrentVerdicts(verdicts, judge, decided.round,
                                                        decided.commit), judge)
                   own == {v.by : v \in counted} \ {"owner"}
                   spokenFor == {v.worker : v \in {w \in counted : w.by = "owner"}}
               IN Cardinality(own \cup spokenFor) >= judge.required
=============================================================================
