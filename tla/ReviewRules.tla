---------------------------- MODULE ReviewRules ----------------------------
(***************************************************************************)
(* The pure rules a task is reviewed by: the profiles of                   *)
(* config/review-profiles.js and the evaluation of domain/review.js.       *)
(*                                                                         *)
(* A profile is addressed by the hash of its content, so a resolved        *)
(* profile stands for its own hash.  A glob is the set of paths it matches.*)
(***************************************************************************)
EXTENDS Naturals, Sequences, FiniteSets

CONSTANTS
    Workers,     \* the reviewers of the task
    SlotOf,      \* the review slot the assignment record gives each of them
    Dimensions,  \* what a profile may ask to be reviewed
    Team,        \* the task's team, "none" if it has none
    Paths,       \* paths of the worktree
    Files        \* the review-profiles.json files an operator may write

ASSUME SlotAssumption == SlotOf \in [Workers -> {"reviewer1", "reviewer2", "parent"}]

-----------------------------------------------------------------------------
(* Profiles *)
BuiltInDefault ==
    [dimensions |-> [d \in Dimensions |-> TRUE], revisionBound |-> TRUE, changeRequestBlocks |-> TRUE,
     required |-> 2, parentCounts |-> FALSE, parentRequired |-> FALSE]

(* What a file may write under one profile: the keys it gives override     *)
(* those of the profile it extends, the quorum field by field; "select"    *)
(* takes dimensions of that profile by name, "dimensions" declares them.   *)
Overlay(own, base) ==
    [k \in DOMAIN base |->
        IF k = "dimensions" /\ "select" \in DOMAIN own
        THEN [d \in own.select |-> base.dimensions[d]]
        ELSE IF k \in DOMAIN own THEN own[k] ELSE base[k]]

\* resolveProfile: every profile of a file, along what it extends
ResolveAll(raw) ==
    LET resolved[id \in DOMAIN raw] ==
            Overlay(raw[id], IF "extends" \in DOMAIN raw[id] THEN resolved[raw[id].extends]
                             ELSE BuiltInDefault)
    IN resolved

\* loadReviewProfiles, of a file it accepts: a default exists in any case
Load(file) ==
    LET resolved == ResolveAll(file.profiles)
    IN [profiles |-> [id \in DOMAIN resolved \cup {"default"} |->
                          IF id \in DOMAIN resolved THEN resolved[id] ELSE BuiltInDefault],
        perTeam |-> file.perTeam, perPath |-> file.perPath]

(* What the loader refuses: a profile that extends itself or selects a      *)
(* dimension its parent lacks, no dimensions, a rule for no profile.       *)
Extends(raw) == {e \in (DOMAIN raw) \X (DOMAIN raw) :
                    "extends" \in DOMAIN raw[e[1]] /\ raw[e[1]].extends = e[2]}
Acyclic(raw) ==
    ~\E loop \in (SUBSET DOMAIN raw) \ {{}} :
        \A id \in loop : \E next \in loop : <<id, next>> \in Extends(raw)
Loadable(file) ==
    /\ Acyclic(file.profiles)
    /\ \A id \in DOMAIN file.profiles :
          LET own == file.profiles[id]
              base == IF "extends" \in DOMAIN own THEN ResolveAll(file.profiles)[own.extends]
                      ELSE BuiltInDefault
          IN /\ DOMAIN own \subseteq DOMAIN BuiltInDefault \cup {"extends", "select"}
             /\ "select" \in DOMAIN own => own.select \subseteq DOMAIN base.dimensions
             /\ DOMAIN ResolveAll(file.profiles)[id].dimensions # {}
    /\ {file.perTeam[t] : t \in DOMAIN file.perTeam} \subseteq DOMAIN file.profiles \cup {"default"}
    /\ \A i \in DOMAIN file.perPath :
          file.perPath[i].profile \in DOMAIN file.profiles \cup {"default"}

ASSUME FilesAssumption == \A file \in Files : Loadable(file)

Configs == {Load(file) : file \in Files}
Profiles == UNION {{c.profiles[id] : id \in DOMAIN c.profiles} : c \in Configs}

\* profileFor: the first path rule that matches, then the team's, then the default
ProfileFor(config, paths) ==
    LET hits == {i \in DOMAIN config.perPath : config.perPath[i].glob \cap paths # {}}
    IN IF hits # {}
       THEN config.profiles[config.perPath[CHOOSE i \in hits : \A j \in hits : i <= j].profile]
       ELSE IF Team \in DOMAIN config.perTeam THEN config.profiles[config.perTeam[Team]]
       ELSE config.profiles["default"]

\* Every rule of an accepted file names one of its profiles, or the default.
ASSUME GovernedAssumption ==
    \A config \in Configs, changed \in {{}, Paths} : ProfileFor(config, changed) \in Profiles
-----------------------------------------------------------------------------
(* The review rule.  A verdict is a row [worker, by, round, commit,        *)
(* dimension, verdict, profile]; `by` is history: whose token recorded it,  *)
(* a worker's or the owner's.                                              *)
VERDICTS == {"approved", "changes-requested", "abstain"}

listReviewVerdicts(verdicts, round) == {v \in verdicts : v.round = round}

CurrentVerdicts(verdicts, profile, round, commit) ==
    {v \in listReviewVerdicts(verdicts, round) :
        \/ ~profile.revisionBound
        \/ v.commit = commit
        \/ v.verdict = "changes-requested"}

BlockingDimensions(profile) == {d \in DOMAIN profile.dimensions : profile.dimensions[d]}

Countable(current, profile) ==
    {v \in current : v.verdict # "abstain" /\ (profile.parentCounts \/ SlotOf[v.worker] # "parent")}
DistinctReviewers(current, profile) == {v.worker : v \in Countable(current, profile)}

EvaluateReview(verdicts, profile, round, commit) ==
    LET current == CurrentVerdicts(verdicts, profile, round, commit)
        approvals == {v \in current : v.verdict = "approved"}
        changes == {v \in current : v.verdict = "changes-requested"}
    IN /\ \A d \in BlockingDimensions(profile) :
             /\ \E v \in approvals : v.dimension = d
             /\ ~\E v \in changes : v.dimension = d
       /\ Cardinality(DistinctReviewers(current, profile)) >= profile.required
       /\ profile.parentRequired => \E v \in approvals : SlotOf[v.worker] = "parent"
       /\ profile.changeRequestBlocks => changes = {}

LatestRound(verdicts) ==
    IF verdicts = {} THEN 0
    ELSE CHOOSE r \in {v.round : v \in verdicts} : \A v \in verdicts : v.round <= r

(* reviewStatus: a round is judged under the profile its verdicts were     *)
(* recorded under; two of them in one round are refused.                   *)
RoundProfiles(verdicts, round) == {v.profile : v \in listReviewVerdicts(verdicts, round)}
JudgedUnder(verdicts, round, current) ==
    IF Cardinality(RoundProfiles(verdicts, round)) = 1
    THEN CHOOSE p \in RoundProfiles(verdicts, round) : TRUE
    ELSE current
QuorumMet(verdicts, judge, round, commit) ==
    [reviewerVerdicts |-> Cardinality(DistinctReviewers(
                              CurrentVerdicts(verdicts, judge, round, commit), judge)),
     requiredVerdicts |-> judge.required]
ReviewStatus(verdicts, current, round, commit) ==
    /\ Cardinality(RoundProfiles(verdicts, round)) <= 1
    /\ EvaluateReview(verdicts, JudgedUnder(verdicts, round, current), round, commit)
=============================================================================
