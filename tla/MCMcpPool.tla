------------------------------ MODULE MCMcpPool ------------------------------
(* Small instances of McpPool.  Callers are interchangeable, and so are     *)
(* processes; the runs that check liveness do without the symmetry.        *)
EXTENDS McpPool, TLC

MCSymmetry == Permutations(Callers) \cup Permutations(Procs)
=============================================================================
