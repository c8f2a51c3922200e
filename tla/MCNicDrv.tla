------------------------------ MODULE MCNicDrv ------------------------------
(* Small instances of NicDrv for TLC.                                      *)
EXTENDS NicDrv, TLC

ThreadSymmetry == Permutations(Threads)
=============================================================================
