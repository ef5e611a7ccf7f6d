---------------------------- MODULE OnuVerifyMC ----------------------------
(* Instances of OnuVerify for TLC. *)
EXTENDS OnuVerify, TLC

Symmetry == Permutations(UserTasks) \cup Permutations(PollTasks)
=============================================================================
