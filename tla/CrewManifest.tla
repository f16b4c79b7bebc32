---------------------------- MODULE CrewManifest ----------------------------
(* What a manifest file (.pi/bebop/crew.json) says, and which files         *)
(* parseCrewManifest accepts (domain/crew-manifest.ts). A draft is what the *)
(* file holds; its text fields count only as sound or not, a path only as   *)
(* inside or outside the directory it must stay in. The parser stops at the *)
(* first thing it refuses and names it: its readers tell a refusal from a   *)
(* manifest, never one refusal from another, so only that is kept.          *)
EXTENDS Naturals, Sequences, FiniteSets, Functions

CONSTANTS Names,     \* Member names
          Sockets,   \* socket files directly under the Crew's sockets/ directory
          Ids,       \* Crew ids: any trimmed text
          None, Bad, \* no value; a value of the wrong shape
          Refused    \* what a reader has instead of a manifest

Entry == [name : Names, role : Names, socket : Sockets \cup {Bad}, sound : BOOLEAN]

Draft == [json : BOOLEAN, version : 0..3, common : {"none", "inside", "outside"},
          shape : BOOLEAN, members : Seq(Entry), crew : Ids \cup {None, Bad},
          approvers : Seq(Names) \cup {None}, contact : Names \cup {None, Bad}]

NamesOf(members) == {members[i].name : i \in DOMAIN members}

\* Version 1 files know no common instructions, which must stay under instructions/.
VersionIsSound(d) == d.version \in {1, 2} /\ (d.common # "none" => d.version = 2)
CommonIsSound(d)  == d.common # "outside"

\* Every Member's fields are sound, its socket stays under sockets/, and no two Members
\* share a name or a socket.
MemberIsSound(m)   == m.sound /\ m.socket # Bad
MembersAreSound(d) ==
  /\ d.members # <<>>
  /\ \A i \in DOMAIN d.members : MemberIsSound(d.members[i])
  /\ IsInjective([i \in DOMAIN d.members |-> d.members[i].name])
  /\ IsInjective([i \in DOMAIN d.members |-> d.members[i].socket])

CrewIsSound(d)    == d.crew # Bad
ApproversAreSound(d) ==
  \/ d.approvers = None
  \/ /\ d.crew # None
     /\ d.approvers # <<>> /\ IsInjective(d.approvers)
     /\ Range(d.approvers) \subseteq NamesOf(d.members)
ContactIsSound(d) == d.contact \in {None} \cup NamesOf(d.members)

Accepts(d) ==
  /\ d.json /\ d.shape
  /\ VersionIsSound(d) /\ CommonIsSound(d)
  /\ MembersAreSound(d)
  /\ CrewIsSound(d) /\ ApproversAreSound(d) /\ ContactIsSound(d)

Parse(d) == IF Accepts(d)
            THEN [members |-> d.members, crew |-> d.crew, contact |-> d.contact]
            ELSE Refused

\* Whose socket a path is: lookupCrewMemberBySocketPath.
BySocket(man, k) == {i \in DOMAIN man.members : man.members[i].socket = k}
=============================================================================
