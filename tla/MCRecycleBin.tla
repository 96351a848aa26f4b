---------------------------- MODULE MCRecycleBin ----------------------------
(* Small instances of RecycleBin for TLC.                                     *)
EXTENDS RecycleBin, TLC

CallSymmetry == Permutations(Calls)

=============================================================================
