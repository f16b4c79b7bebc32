---------------------------- MODULE MCCrewIntake ----------------------------
(* CrewIntake for TLC: sessions, Members and texts are interchangeable.      *)
EXTENDS CrewIntake, TLC

Symmetry == Permutations(Procs) \cup Permutations(Members) \cup Permutations(Texts)

\* The properties claim nothing once a lock was deleted under its owner: such states are
\* checked and not followed.
LocksRespected == ~robbed

=============================================================================
