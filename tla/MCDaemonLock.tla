---------------------------- MODULE MCDaemonLock ----------------------------
(* Small instances of DaemonLock.                                          *)
EXTENDS DaemonLock, TLC

MCSymmetry == Permutations(Procs)
=============================================================================
