---------------------------- MODULE MCBuildLock ----------------------------
(* BuildLock for TLC: the processes of one machine are interchangeable. *)
EXTENDS BuildLock, TLC

ProcSymmetry == Permutations(Remote) \cup Permutations(Procs \ Remote)
=============================================================================
