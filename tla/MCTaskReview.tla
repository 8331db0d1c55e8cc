---------------------------- MODULE MCTaskReview ----------------------------
(* An instance of TaskReview for TLC: two reviewers, one of them the parent *)
(* reviewer; a review-profiles.json whose default needs both, and an edited *)
(* one that lets one reviewer approve, except where a path rule is stricter.*)
EXTENDS TaskReview, TLC

MCSlotOf == [w \in Workers |-> IF w = "ada" THEN "reviewer1" ELSE "parent"]
\* ada speaks for herself and tries to speak for the lead; the owner does
MCTokens == [ada |-> {"ada"}, lead |-> {"ada", "owner"}]

Strict == [parentCounts |-> TRUE, dimensions |-> ("correctness" :> TRUE) @@ ("style" :> FALSE)]
Loose == [extends |-> "default", select |-> {"correctness"}, required |-> 1,
          revisionBound |-> FALSE]

AsWritten == [profiles |-> "default" :> Strict, perTeam |-> <<>>, perPath |-> <<>>]
Edited == [profiles |-> [default |-> Strict, hotfix |-> Loose],
           perTeam |-> [core |-> "hotfix"],
           perPath |-> <<[glob |-> {"payments"}, profile |-> "default"]>>]
MCFiles == {AsWritten, Edited}
MCEvents == {"task-approved", "task-merged"} \X (1..MaxAttempts)
=============================================================================
