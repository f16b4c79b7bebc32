---------------------------- MODULE GuestAdmission ----------------------------
(***************************************************************************)
(* Guests of a Crew.  A Guest session asks one live Member for admission;  *)
(* the Member's runtime keeps the request and its approver's decision in   *)
(* memory and persists decisions in the registry file that all the Crew's  *)
(* sessions share.                                                         *)
(*                                                                         *)
(* A Member's runtime is one JavaScript thread, so a decision and the      *)
(* write that follows it are not interleaved within it; between its own    *)
(* accesses to the file other Members' processes run.  A Guest's identity  *)
(* and callback endpoint are both its session's, hence one value.          *)
(***************************************************************************)
EXTENDS Naturals, FiniteSets

CONSTANTS Members,      \* Members' sessions; approvers come from them
          Guests,       \* Guest sessions
          Names,        \* display names that Guests ask for
          Old,          \* the name of a Guest admitted earlier
          Nobody,       \* nothing, nobody
          MaxWriteAttempts, \* MAX_WRITE_ATTEMPTS
          MaxCommands,  \* bound: commands of approvers and Guests
          MaxTrouble    \* bound: restarts, edits of the manifest, lost answers, file errors

ASSUME GuestAssumption ==
  /\ Nobody \notin Members \cup Guests \cup Names
  /\ Members \cap Guests = {} /\ IsFiniteSet(Guests) /\ Old \in Names
  /\ MaxWriteAttempts \in Nat \ {0}
  /\ MaxCommands \in Nat /\ MaxTrouble \in Nat

VARIABLES
  registry,   \* guest-registry.json: its revision, and its entry for each Guest
  approvers,  \* guestAdmission.approvers of the manifest
  adm,        \* each Member's admission runtime
  writer,     \* each Member's write of the registry
  answer,     \* the answer on its way to a Guest
  guest,      \* each Guest session's own membership
  decided,    \* history: decisions a Member made, <<guest, status, name, approver>>
  commands, trouble

guestCounters == <<commands, trouble>>
guestVars == <<registry, approvers, adm, writer, answer, guest, decided, guestCounters>>

NoDigest == <<Nobody, 0>>                 \* "0" x 64; a digest is named by its capability
Capabilities == Members \X Nat          \* `${memberName}:guest-capability-${n}`

NoState == [st |-> "absent", name |-> Nobody, cap |-> NoDigest, digest |-> NoDigest,
            by |-> Nobody, delivered |-> FALSE]
NoEntry == [st |-> "absent", name |-> Nobody, digest |-> NoDigest, by |-> Nobody, order |-> 0]
NoRuntime == [on |-> FALSE, auth |-> {}, made |-> 0, states |-> [g \in Guests |-> NoState]]
NoWrite == [at |-> "idle", base |-> 0, next |-> [g \in Guests |-> NoEntry], tries |-> 0,
            for |-> Nobody]
NoAnswer == [st |-> "none", name |-> Nobody, cap |-> NoDigest, via |-> Nobody]

\* Sessions that start with the file of earlier ones, in which one Guest is approved;
\* refreshAdmission has restored every Member's runtime from it.
Earlier(old, by) ==
  LET record == [NoState EXCEPT !.st = "approved", !.name = Old, !.digest = <<by, 1>>, !.by = by] IN
  /\ registry = [rev |-> 1, entries |-> [g \in Guests |->
       IF g = old THEN [st |-> "approved", name |-> Old, digest |-> <<by, 1>>, by |-> by, order |-> 1]
       ELSE NoEntry]]
  /\ adm = [m \in Members |-> [on |-> TRUE, auth |-> Members, made |-> 1,
       states |-> [g \in Guests |->
         IF g = old THEN [record EXCEPT !.cap = <<m, 1>>] ELSE NoState]]]
  /\ decided = {<<old, "approved", Old, by>>}

GuestInit ==
  /\ \E old \in Guests, by \in Members : Earlier(old, by)
  /\ approvers = Members
  /\ writer = [m \in Members |-> NoWrite]
  /\ answer = [g \in Guests |-> NoAnswer]
  /\ guest = [g \in Guests |-> NoAnswer]
  /\ commands = 0 /\ trouble = 0

Commanded == commands < MaxCommands /\ commands' = commands + 1 /\ UNCHANGED trouble
Troubled == trouble < MaxTrouble /\ trouble' = trouble + 1 /\ UNCHANGED commands

States(m) == adm[m].states

\* The Member's thread is not inside a write.
Ready(m) == adm[m].on /\ writer[m].at = "idle"

\* guestAdmissionPolicy: no approvers, no admission.
Enabled(m) == adm[m].auth # {}

SetState(m, g, state) == adm' = [adm EXCEPT ![m].states[g] = state]

-----------------------------------------------------------------------------
(* The registry file.                                                       *)

\* entryFromSnapshot: a denial whose approver is forgotten is "unknown" (Nobody), and only
\* an approval keeps its digest.
EntryFrom(state, order) ==
  [st |-> state.st, name |-> state.name, by |-> state.by, order |-> order,
   digest |-> IF state.st = "approved" THEN state.digest ELSE NoDigest]

\* Mutant of Snapshots: requests that wait for their approver are written as well.
SnapshotsAll(m) == {g \in Guests : States(m)[g].st # "absent"}

\* persist: what the runtime knows of, requests that are pending left out.
Snapshots(m) == {g \in Guests : States(m)[g].st \in {"approved", "denied", "revoked"}}

LastOrder(entries) == CHOOSE k \in {entries[g].order : g \in Guests} :
                        \A g \in Guests : entries[g].order <= k

\* publish: exactly the snapshots; a Guest the file knows keeps its place, the others
\* follow in the order the runtime learnt of them (here: in any order).
Publish(m, entries) ==
  LET new == {g \in Snapshots(m) : entries[g].order = 0}
      places == {f \in [new -> LastOrder(entries) + 1 .. LastOrder(entries) + Cardinality(new)] :
                   \A g, h \in new : f[g] = f[h] => g = h}
  IN {[g \in Guests |->
         IF g \notin Snapshots(m) THEN NoEntry
         ELSE EntryFrom(States(m)[g], IF g \in new THEN place[g] ELSE entries[g].order)] :
       place \in places}

\* replaceEntries: load the base.
Load(m) ==
  /\ writer[m].at = "load"
  /\ \E next \in Publish(m, registry.entries) :
       writer' = [writer EXCEPT ![m] = [@ EXCEPT !.at = "check", !.base = registry.rev, !.next = next]]
  /\ UNCHANGED <<registry, approvers, adm, answer, guest, decided, guestCounters>>

\* The write is over; a Guest that leaves hears how.
EndWrite(m, result) ==
  /\ writer' = [writer EXCEPT ![m] = NoWrite]
  /\ answer' = IF writer[m].for = Nobody THEN answer
               ELSE [answer EXCEPT ![writer[m].for] = result]

\* The revision is the base's, or another attempt, or the write stays contested.
CheckRevision(m) ==
  /\ writer[m].at = "check"
  /\ IF registry.rev # writer[m].base /\ writer[m].tries + 1 = MaxWriteAttempts
     THEN EndWrite(m, NoAnswer)
     ELSE /\ writer' = [writer EXCEPT ![m] =
               IF registry.rev = @.base THEN [@ EXCEPT !.at = "rename"]
               ELSE [@ EXCEPT !.at = "load", !.tries = writer[m].tries + 1]]
          /\ UNCHANGED answer
  /\ UNCHANGED <<registry, approvers, adm, guest, decided, guestCounters>>

Rename(m) ==
  /\ writer[m].at = "rename"
  /\ registry' = [rev |-> writer[m].base + 1, entries |-> writer[m].next]
  /\ EndWrite(m, [NoAnswer EXCEPT !.st = "left"])
  /\ UNCHANGED <<approvers, adm, guest, decided, guestCounters>>

\* The file cannot be read or written: approve answers "approval-failed", deny, remove and
\* leave raise; the runtime keeps the decision.
WriteError(m) ==
  /\ writer[m].at # "idle"
  /\ Troubled
  /\ EndWrite(m, NoAnswer)
  /\ UNCHANGED <<registry, approvers, adm, guest, decided>>

\* persist after a decision on g.
Persist(m, g, state, for) ==
  /\ SetState(m, g, state)
  /\ writer' = [writer EXCEPT ![m].at = "load", ![m].for = for]
  /\ decided' = decided \cup {<<g, state.st, state.name, state.by>>}

-----------------------------------------------------------------------------
(* A Member's admission runtime.                                            *)

\* receive, for a Guest the runtime does not know: the name of another approved Guest
\* is taken; one that is only asked for is not.
NameTaken(m, g, name) ==
  \E h \in Guests \ {g} : States(m)[h].st = "approved" /\ States(m)[h].name = name

\* receive: a new request, or the same one again.
Admits(m, g, name) ==
  /\ Enabled(m)
  /\ \/ States(m)[g].st = "absent" /\ ~NameTaken(m, g, name)
     \/ States(m)[g].st = "pending" /\ States(m)[g].name = name /\ ~NameTaken(m, g, name)
     \/ States(m)[g].st = "approved" /\ States(m)[g].name = name

\* Mutant of Answered: a request that waits for its approver is answered as approved.
AnsweredEarly(m, g, name) ==
  [st |-> "approved", name |-> name, cap |-> States(m)[g].cap, via |-> m]

\* consumeCapability: the answer carries the capability once per runtime.
Answered(m, g, name) ==
  IF States(m)[g].st = "approved"
  THEN [st |-> "approved", name |-> name,
        cap |-> IF States(m)[g].delivered THEN NoDigest ELSE States(m)[g].cap, via |-> m]
  ELSE [st |-> "pending", name |-> name, cap |-> NoDigest, via |-> m]

\* handleGuestJoin at a Member, for a Guest session's /guest join.
GuestJoin(g, m, name) ==
  /\ answer[g] = NoAnswer /\ Ready(m) /\ Admits(m, g, name)
  /\ Commanded
  /\ SetState(m, g, IF States(m)[g].st = "approved"
                    THEN [States(m)[g] EXCEPT !.delivered = TRUE]
                    ELSE [NoState EXCEPT !.st = "pending", !.name = name])
  /\ answer' = [answer EXCEPT ![g] = Answered(m, g, name)]
  /\ UNCHANGED <<registry, approvers, writer, guest, decided>>

\* bebop guest join is the same request, but shows no capability and keeps nothing.
CliJoin(g, m, name) ==
  /\ Ready(m) /\ Admits(m, g, name) /\ States(m)[g].st = "approved"
  /\ Commanded
  /\ SetState(m, g, [States(m)[g] EXCEPT !.delivered = TRUE])
  /\ UNCHANGED <<registry, approvers, writer, answer, guest, decided>>

\* The approver is the Member itself.
Authorized(m) == m \in adm[m].auth

Approvable(m, g) == Authorized(m) /\ States(m)[g].st = "pending"

\* approve: a fresh capability, numbered within the runtime, is bound to the record.
Approve(m, g) ==
  /\ Ready(m) /\ Approvable(m, g)
  /\ Commanded
  /\ LET cap == <<m, adm[m].made + 1>>
         state == [NoState EXCEPT !.st = "approved", !.name = States(m)[g].name,
                                  !.cap = cap, !.digest = cap, !.by = m]
     IN /\ adm' = [adm EXCEPT ![m].made = @ + 1, ![m].states[g] = state]
        /\ decided' = decided \cup {<<g, "approved", state.name, m>>}
  /\ writer' = [writer EXCEPT ![m].at = "load"]
  /\ UNCHANGED <<registry, approvers, answer, guest>>

\* approve of a request approved before, or of none: the default capability of the call
\* is made all the same.
ApproveAgain(m, g) ==
  /\ Ready(m) /\ States(m)[g].st # "pending"
  /\ Commanded
  /\ adm' = [adm EXCEPT ![m].made = @ + 1]
  /\ UNCHANGED <<registry, approvers, writer, answer, guest, decided>>

Deny(m, g) ==
  /\ Ready(m) /\ Approvable(m, g)
  /\ Commanded
  /\ Persist(m, g, [NoState EXCEPT !.st = "denied", !.name = States(m)[g].name, !.by = m], Nobody)
  /\ UNCHANGED <<registry, approvers, answer, guest>>

\* The record of a revoked Guest names its approver, and no capability.
Revoked(state) == [NoState EXCEPT !.st = "revoked", !.name = state.name, !.by = state.by]

\* remove, by name; of two approved Guests of one name, the first that was approved
\* (here: any).
Remove(m, g) ==
  /\ Ready(m) /\ Authorized(m) /\ States(m)[g].st = "approved"
  /\ Commanded
  /\ Persist(m, g, Revoked(States(m)[g]), Nobody)
  /\ UNCHANGED <<registry, approvers, answer, guest>>

\* /guest leave: revoke at the Member it joined by, which knows it as approved or
\* refuses; the Guest waits for the answer.
GuestLeave(g, m) ==
  /\ guest[g].via = m /\ answer[g] = NoAnswer
  /\ Ready(m) /\ States(m)[g].st = "approved"
  /\ Commanded
  /\ Persist(m, g, Revoked(States(m)[g]), g)
  /\ answer' = [answer EXCEPT ![g].st = "waiting"]
  /\ UNCHANGED <<registry, approvers, guest>>

\* isRestorableMembershipRecord, and the denials: a membership whose approver the manifest
\* no longer lists is rejected, a tombstone with it.
Restorable(m, auth, g) ==
  \/ registry.entries[g].st = "denied"
  \/ registry.entries[g].st \in {"approved", "revoked"} /\ registry.entries[g].by \in auth

\* restoreDeniedSnapshot forgets the approver; approvedRestoreState makes a new
\* capability and keeps the digest of the old one.
RestoredState(m, g, n) ==
  LET entry == registry.entries[g] IN
  [NoState EXCEPT !.st = entry.st, !.name = entry.name,
     !.cap = IF entry.st = "approved" THEN <<m, n>> ELSE NoDigest,
     !.digest = entry.digest,
     !.by = IF entry.st = "denied" THEN Nobody ELSE entry.by]

\* refreshAdmission, when a membership begins or a session starts: a new runtime,
\* restored from the registry in its order; what was pending is gone.
Refresh(m) ==
  LET back == {g \in Guests : Restorable(m, approvers, g)}
      alive == {g \in back : registry.entries[g].st = "approved"}
      number(g) == Cardinality({h \in alive : registry.entries[h].order <= registry.entries[g].order})
  IN
  /\ writer[m].at = "idle"
  /\ Troubled
  /\ adm' = [adm EXCEPT ![m] = [on |-> TRUE, auth |-> approvers, made |-> Cardinality(alive),
       states |-> [g \in Guests |-> IF g \in back THEN RestoredState(m, g, number(g)) ELSE NoState]]]
  /\ UNCHANGED <<registry, approvers, writer, answer, guest, decided>>

\* The Member's process ends, wherever its write is, or it leaves the Crew.
EndMembership(m) ==
  /\ adm[m].on
  /\ Troubled
  /\ adm' = [adm EXCEPT ![m] = NoRuntime]
  /\ EndWrite(m, NoAnswer)
  /\ UNCHANGED <<registry, approvers, guest, decided>>

EditManifest(set) ==
  /\ set # approvers
  /\ Troubled
  /\ approvers' = set
  /\ UNCHANGED <<registry, adm, writer, answer, guest, decided>>

-----------------------------------------------------------------------------
(* A Guest's session.                                                       *)

\* A capability the Guest's own runtime makes, when the answer carries none.
OwnCapability(g) == <<g, 0>>

\* track: an approved membership is not replaced by another answer.
Tracked(g) ==
  IF guest[g].st = "approved" THEN guest[g]
  ELSE IF answer[g].st = "approved" /\ answer[g].cap = NoDigest
       THEN [answer[g] EXCEPT !.cap = OwnCapability(g)]
  ELSE answer[g]

Track(g) ==
  /\ answer[g].st \in {"pending", "approved"}
  /\ guest' = [guest EXCEPT ![g] = Tracked(g)]
  /\ answer' = [answer EXCEPT ![g] = NoAnswer]
  /\ UNCHANGED <<registry, approvers, adm, writer, decided, guestCounters>>

\* leave: the crew's membership is deleted.
Forget(g) ==
  /\ answer[g].st = "left"
  /\ guest' = [guest EXCEPT ![g] = NoAnswer]
  /\ answer' = [answer EXCEPT ![g] = NoAnswer]
  /\ UNCHANGED <<registry, approvers, adm, writer, decided, guestCounters>>

\* The answer comes after the timeout of 5 s.
LoseAnswer(g) ==
  /\ answer[g].st \in {"pending", "approved", "left"}
  /\ Troubled
  /\ answer' = [answer EXCEPT ![g] = NoAnswer]
  /\ UNCHANGED <<registry, approvers, adm, writer, guest, decided>>

\* Nothing of a Guest's memberships outlives its process.
RestartGuest(g) ==
  /\ guest[g] # NoAnswer /\ answer[g] = NoAnswer
  /\ Troubled
  /\ guest' = [guest EXCEPT ![g] = NoAnswer]
  /\ UNCHANGED <<registry, approvers, adm, writer, answer, decided>>

-----------------------------------------------------------------------------
GuestNext ==
  \/ \E m \in Members : Load(m) \/ CheckRevision(m) \/ Rename(m) \/ WriteError(m)
  \/ \E m \in Members, g \in Guests :
       \/ \E name \in Names : GuestJoin(g, m, name) \/ CliJoin(g, m, name)
       \/ Approve(m, g) \/ ApproveAgain(m, g) \/ Deny(m, g) \/ Remove(m, g) \/ GuestLeave(g, m)
  \/ \E m \in Members : Refresh(m) \/ EndMembership(m)
  \/ \E set \in SUBSET Members : EditManifest(set)
  \/ \E g \in Guests : Track(g) \/ Forget(g) \/ LoseAnswer(g) \/ RestartGuest(g)

GuestSpec == GuestInit /\ [][GuestNext]_guestVars

-----------------------------------------------------------------------------
(* What must hold.                                                          *)

Digests == Capabilities \cup {NoDigest}

\* Every variable has its type.
GuestTypeOK ==
  /\ registry.rev \in Nat
  /\ registry.entries \in [Guests -> [st : {"absent", "approved", "denied", "revoked"},
       name : Names \cup {Nobody}, digest : Digests, by : Members \cup {Nobody}, order : Nat]]
  /\ approvers \subseteq Members
  /\ adm \in [Members -> [on : BOOLEAN, auth : SUBSET Members, made : Nat,
       states : [Guests -> [st : {"absent", "pending", "approved", "denied", "revoked"},
         name : Names \cup {Nobody}, cap : Digests, digest : Digests,
         by : Members \cup {Nobody}, delivered : BOOLEAN]]]]
  /\ \A m \in Members : /\ writer[m].at \in {"idle", "load", "check", "rename"}
                        /\ writer[m].tries < MaxWriteAttempts
                        /\ writer[m].at # "idle" => adm[m].on
  /\ \A g \in Guests : guest[g].st \in {"none", "pending", "approved"}
  /\ commands \in 0..MaxCommands /\ trouble \in 0..MaxTrouble

\* The registry's entries, through stale runtimes, restarts and contested writes, are
\* decisions that an approver made: nobody is approved but by a Member who was on the
\* manifest's list and saw the request (approve, publish, restore).
EntriesWereDecided ==
  \A g \in Guests : LET entry == registry.entries[g] IN
    entry.st # "absent" =>
      \E by \in Members : /\ <<g, entry.st, entry.name, by>> \in decided
                          /\ entry.st # "denied" => by = entry.by

\* A Guest session holds a membership only when some Member approved it under that name,
\* however answers are lost, repeated or overtaken (handleGuestJoin, track).
BelievesOnlyApproved ==
  \A g \in Guests : guest[g].st = "approved" =>
    \E by \in Members : <<g, "approved", guest[g].name, by>> \in decided

\* What the store's comment claims of its writes, and replaceEntries does not keep: a
\* refused or removed Guest stays one until it is admitted anew ("concurrent Members never
\* lose tombstones").
TombstonesKept ==
  [][\A g \in Guests :
       registry.entries[g].st \in {"denied", "revoked"} => registry'.entries[g].st # "absent"]_guestVars

=============================================================================
