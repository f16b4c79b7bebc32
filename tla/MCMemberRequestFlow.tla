------------------------ MODULE MCMemberRequestFlow ------------------------
(* MemberRequestFlow for TLC.  Permuting the interchangeable requests is for *)
(* the runs without a liveness property.                                     *)
EXTENDS MemberRequestFlow, TLC

Symmetry == Permutations(RequestIds)
=============================================================================
