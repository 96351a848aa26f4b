------------------------------ MODULE MCTasks -------------------------------
(* Small instances of Tasks for TLC.                                          *)
EXTENDS Tasks, TLC

TaskSymmetry == Permutations(Agents) \cup Permutations(Calls)
=============================================================================
