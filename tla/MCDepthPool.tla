---------------------------- MODULE MCDepthPool -----------------------------
(* DepthPool with a two-queue vector that a task of depth 2 or 3 doubles.   *)
EXTENDS DepthPool, TLC

TaskSymmetry == Permutations(Task)
=============================================================================
