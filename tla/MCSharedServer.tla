--------------------------- MODULE MCSharedServer ---------------------------
(* Two runs in one directory, one of which is resumed for a second turn; a *)
(* server before a restart and one after it.                               *)
EXTENDS SharedServer, TLC

CONSTANTS r1, r2
MCRuns == {r1, r2}
MCTurns == r1 :> 2 @@ r2 :> 1
=============================================================================
