----------------------------- MODULE MCTaskRepo -----------------------------
(* An instance of TaskRepo for TLC: two callers, and the two workers of a *)
(* bug, either of which may fail to start; a git agent, who pushes,        *)
(* and the owner, who approves what it pushes to main.                     *)
EXTENDS TaskRepo, TLC

MCRole == [agent |-> "git-push-runner", owner |-> "owner"]
MCWorkers == <<[id |-> "ada", role |-> "coder"], [id |-> "rae", role |-> "reviewer"]>>
MCHarness == <<"coder", 1>> :> "claude-code" @@ <<"reviewer", 1>> :> "claude-code"
\* main goes by its plain name and by its full one, of which the list has the first
MCRefOf == "task" :> "task" @@ "main" :> "main" @@ "refs/heads/main" :> "main"
MCSymmetry == Permutations(Callers)
=============================================================================
