--------------------------- MODULE MCCrewSession ---------------------------
(* Small instances of CrewSession. *)
EXTENDS CrewSession, TLC
CONSTANTS s1, s2, s3

\* Two revisions: Kelly's role changes and Mary leaves the manifest.
TwoRevs == [r \in 1..2 |-> IF r = 1 THEN [m \in {"kelly", "mary"} |-> "dev"]
                           ELSE [m \in {"kelly"} |-> "lead"]]
TwoMembers == {"kelly", "mary"}

\* A capture, an add to the record of that capture, and a third operation of any other kind.
MixKinds  == [o \in {"c", "a", "b"} |->
                CASE o = "c" -> {"capture"} [] o = "a" -> {"add"}
                  [] OTHER -> {"add", "resolve", "resume", "show"}]
MixTarget == [o \in {"c", "a", "b"} |-> "kelly"]
MixRecord == [o \in {"c", "a", "b"} |-> "new"]
OneName   == [id \in {"new", "old"} |-> "release review"]
Sym       == Permutations({s1, s2})

NoneEarlier == [id \in {} |-> None]
=============================================================================
