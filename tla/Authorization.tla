---------------------------- MODULE Authorization ----------------------------
(***************************************************************************)
(* Who may do what: domain/capabilities.js, the rows of principals and     *)
(* sensitive_approvals, and the wrapper every command of the socket passes *)
(* (authorizedCommandHandlers).                                            *)
(*                                                                         *)
(* A command and its arguments, which the code compares by their hash, are  *)
(* an act.  A capability of the sensitive class needs an approval of that   *)
(* very act by a second principal, and each approval serves once.          *)
(***************************************************************************)
EXTENDS Naturals, FiniteSets

CONSTANTS
    Principals,
    Role,           \* what each principal was minted as: a worker's role, or a preset
    Acts,           \* sensitive acts that may be asked for
    MaxApprovals    \* bound: approvals granted

CAPABILITIES == {"read:registry", "observe:run", "run:start", "run:input", "run:interrupt",
                 "run:stop", "run:clear", "run:resume", "run:reap", "ask:answer", "task:assign",
                 "task:transition", "review:record", "task:approve", "task:merge",
                 "task:worktree", "resource:lease", "harness:onboard", "harness:preflight",
                 "session:adopt", "git:push", "git:push-protected", "jira:create",
                 "slack:post-bot", "slack:post-as-user", "principal:mint", "principal:revoke",
                 "approve:sensitive"}
SENSITIVE == {"git:push-protected", "slack:post-as-user", "task:merge"}

(* COMMAND_CAPABILITIES; a command it does not name is refused.             *)
CapabilityOf(command) ==
    CASE command \in {"list", "status", "orphans", "asks", "tuiSnapshot", "adoptedSessions",
                      "modelHealth", "turnDigests", "taskHandoff", "reviewStatus",
                      "reviewFindings", "reviewProfiles", "assignmentPreview", "journal",
                      "principals"}                                  -> "read:registry"
      [] command = "observe"                                         -> "observe:run"
      [] command = "start"                                           -> "run:start"
      [] command \in {"sendInput", "tuiChat"}                        -> "run:input"
      [] command = "interrupt"                                       -> "run:interrupt"
      [] command = "stop"                                            -> "run:stop"
      [] command \in {"clearContext", "resetSession"}                -> "run:clear"
      [] command = "resume"                                          -> "run:resume"
      [] command \in {"reap", "reconcile"}                           -> "run:reap"
      [] command = "answerAsk"                                       -> "ask:answer"
      [] command \in {"assignTask", "createUtilityTask"}             -> "task:assign"
      [] command = "recordVerdict"                                   -> "review:record"
      [] command = "approveTask"                                     -> "task:approve"
      [] command = "preflight"                                       -> "harness:preflight"
      [] command = "onboardHarness"                                  -> "harness:onboard"
      [] command \in {"adoptSession", "releaseSession"}              -> "session:adopt"
      [] command = "mintPrincipal"                                   -> "principal:mint"
      [] command = "revokePrincipal"                                 -> "principal:revoke"
      [] command = "grantApproval"                                   -> "approve:sensitive"
      [] command = "mergeTask"                                       -> "task:merge"
      [] command \in {"createTaskWorktree", "discardTaskWorktree", "requestWorktree"}
                                                                     -> "task:worktree"
      [] command \in {"acquireLease", "releaseLease", "renewLease"}  -> "resource:lease"
      [] command = "gitPush"                                         -> "git:push"
      [] command = "gitPushProtected"                                -> "git:push-protected"
      [] OTHER                                                       -> "none"

Worker == {"read:registry", "ask:answer", "task:worktree", "resource:lease"}
PresetOf(name) ==
    CASE name = "owner"            -> CAPABILITIES
      [] name = "worker"           -> Worker
      [] name = "reviewer"         -> (Worker \ {"ask:answer"}) \cup {"observe:run", "review:record"}
      [] name = "cto"              -> CAPABILITIES \ {"review:record", "git:push", "git:push-protected",
                                         "jira:create", "slack:post-bot", "slack:post-as-user",
                                         "principal:mint", "principal:revoke"}
      [] name = "utility:git"      -> {"read:registry", "git:push", "git:push-protected",
                                      "resource:lease"}
      [] name = "utility:jira"     -> {"read:registry", "jira:create"}
      [] name = "utility:slack"    -> {"read:registry", "slack:post-bot"}
      [] name = "utility:awsquery" -> {"read:registry"}

(* A worker's preset follows from its role (ensureWorkerPrincipal); whoever  *)
(* is no worker was minted under a preset's name.                          *)
Named == {"owner", "cto", "utility:git", "utility:jira", "utility:slack", "utility:awsquery"}
PresetFor(role) ==
    CASE role \in Named            -> role
      [] role = "git-push-runner"  -> "utility:git"
      [] role = "jira-runner"      -> "utility:jira"
      [] role = "awsquery-runner"  -> "utility:awsquery"
      [] role = "slack-runner"     -> "utility:slack"
      [] role = "reviewer"         -> "reviewer"
      [] OTHER                     -> "worker"
Held(p) == PresetOf(PresetFor(Role[p]))

ASSUME AuthorityAssumption == Role \in [Principals -> STRING] /\ MaxApprovals \in Nat

VARIABLES
    revoked,     \* principals that were revoked
    approvals,   \* sensitive_approvals, by id
    granted      \* ids handed out

authVars == <<revoked, approvals, granted>>

Ids == 1..MaxApprovals
Approval == [action : SENSITIVE, act : Acts, for : Principals, by : Principals,
             expired : BOOLEAN, consumed : BOOLEAN]

AuthTypeOK ==
    /\ revoked \subseteq Principals
    /\ granted \in 0..MaxApprovals
    /\ approvals \in [1..granted -> Approval]

AuthInit == revoked = {} /\ granted = 0 /\ approvals = <<>>

\* principalByTokenHash: a token still names its principal once that is revoked.
Revoked(p) == p \in revoked

\* authorize, but for the approval
MayCall(p, command) == ~Revoked(p) /\ CapabilityOf(command) \in Held(p)

(* findSensitiveApproval: the newest approval of this act that is neither   *)
(* used nor expired; without one the request is refused.                   *)
Valid(p, action, act) ==
    {id \in 1..granted : LET a == approvals[id]
                         IN /\ a.action = action /\ a.act = act /\ a.for = p
                            /\ ~a.consumed /\ ~a.expired}
FindApproval(p, action, act) ==
    CHOOSE id \in Valid(p, action, act) : \A other \in Valid(p, action, act) : other <= id

(* A command whose capability is sensitive: authorised, and its approval    *)
(* consumed, before the handler's first wait.                              *)
AuthorizeSensitive(p, command, act) ==
    LET action == CapabilityOf(command)
    IN /\ MayCall(p, command) /\ action \in SENSITIVE
       /\ Valid(p, action, act) # {}
       /\ approvals' = [approvals EXCEPT ![FindApproval(p, action, act)].consumed = TRUE]
       /\ UNCHANGED <<revoked, granted>>
Consumed(action, act) ==
    {id \in 1..granted : /\ approvals[id].action = action /\ approvals[id].act = act
                         /\ approvals[id].consumed}
-----------------------------------------------------------------------------
\* grantApproval, under canGrantApproval
Grant(granter, action, act, for) ==
    /\ MayCall(granter, "grantApproval")
    /\ granter # for
    /\ granted < MaxApprovals
    /\ granted' = granted + 1
    /\ approvals' = [id \in 1..granted' |->
                        IF id \in 1..granted THEN approvals[id]
                        ELSE [action |-> action, act |-> act, for |-> for, by |-> granter,
                              expired |-> FALSE, consumed |-> FALSE]]
    /\ UNCHANGED revoked

ApprovalExpires(id) ==
    /\ id \in 1..granted /\ ~approvals[id].consumed
    /\ ~approvals[id].expired /\ approvals' = [approvals EXCEPT ![id].expired = TRUE]
    /\ UNCHANGED <<revoked, granted>>

RevokePrincipal(by, p) ==
    /\ MayCall(by, "revokePrincipal")
    /\ ~Revoked(p)
    /\ revoked' = revoked \cup {p}
    /\ UNCHANGED <<approvals, granted>>

AuthStep(action) ==
    \/ \E granter \in Principals, for \in Principals, act \in Acts :
          Grant(granter, action, act, for)
    \/ \E id \in Ids : ApprovalExpires(id)
    \/ \E by, p \in Principals : RevokePrincipal(by, p)
=============================================================================
