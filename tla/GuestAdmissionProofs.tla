------------------------- MODULE GuestAdmissionProofs -------------------------
(***************************************************************************)
(* For any Members, Guests, names and numbers of attempts: what the        *)
(* registry says of a Guest, a Member decided, and a Guest session that    *)
(* believes itself approved was approved under its name.                   *)
(*                                                                         *)
(* A decision travels from the runtime that made it to a write in progress *)
(* to the file to another runtime that restores it, and from a runtime to  *)
(* an answer to a Guest's session; each may be stale by the time the next  *)
(* reads it.  The invariant holds of every place on that way               *)
(* (StatesDecided, WritesDecided, AnswersDecided).                         *)
(***************************************************************************)
EXTENDS GuestAdmission, Integers, FiniteSetTheorems, TLAPS

-----------------------------------------------------------------------------
(* Types.  The places in the registry are only known to be integers here:  *)
(* the last of them is a maximum.                                           *)

SomeName == Names \cup {Nobody}
SomeMember == Members \cup {Nobody}
Records ==
  [st : {"absent", "pending", "approved", "denied", "revoked"}, name : SomeName,
   cap : Digests, digest : Digests, by : SomeMember, delivered : BOOLEAN]
Runtimes == [on : BOOLEAN, auth : SUBSET Members, made : Nat, states : [Guests -> Records]]
Entries ==
  [st : {"absent", "approved", "denied", "revoked"}, name : SomeName, digest : Digests,
   by : SomeMember, order : Int]
Writes ==
  [at : {"idle", "load", "check", "rename"}, base : Nat, next : [Guests -> Entries], tries : Nat,
   for : Guests \cup {Nobody}]
Answers ==
  [st : {"none", "pending", "approved", "waiting", "left"}, name : SomeName,
   cap : Digests \cup (Guests \X {0}), via : SomeMember]

FileTypes == registry \in [rev : Nat, entries : [Guests -> Entries]] /\ approvers \subseteq Members
RuntimeTypes == adm \in [Members -> Runtimes]
WriteTypes == writer \in [Members -> Writes]
SessionTypes == answer \in [Guests -> Answers] /\ guest \in [Guests -> Answers]
GuestTypes == FileTypes /\ RuntimeTypes /\ WriteTypes /\ SessionTypes

LEMMA Nothing ==
  /\ NoDigest \in Digests /\ NoState \in Records /\ NoEntry \in Entries
  /\ NoRuntime \in Runtimes /\ NoWrite \in Writes /\ NoAnswer \in Answers
<1>1. NoDigest \in Digests
  BY DEF Digests
<1>2. NoState \in Records /\ NoEntry \in Entries
  BY <1>1 DEF Records, Entries, NoState, NoEntry, SomeName, SomeMember
<1>3. NoRuntime \in Runtimes /\ NoWrite \in Writes
  BY <1>2 DEF Runtimes, Writes, NoRuntime, NoWrite
<1>4. NoAnswer \in Answers
  BY <1>1 DEF Answers, NoAnswer, SomeName, SomeMember
<1>5. QED
  BY <1>2, <1>1, <1>3, <1>4

\* Numbers of Guests are numbers.
LEMMA GuestsCounted ==
  ASSUME NEW S \in SUBSET Guests
  PROVE  Cardinality(S) \in Nat
  BY GuestAssumption, FS_Subset, FS_CardinalityType

\* What publish writes is a registry again.
LEMMA PublishType ==
  ASSUME FileTypes, RuntimeTypes, NEW m \in Members, NEW next \in Publish(m, registry.entries)
  PROVE  next \in [Guests -> Entries]
<1>1. ASSUME NEW g \in Snapshots(m), NEW order \in Int
      PROVE  EntryFrom(States(m)[g], order) \in Entries
  <2>1. States(m)[g] \in Records /\ States(m)[g].st \in {"approved", "denied", "revoked"}
    BY DEF Snapshots, States, RuntimeTypes, Runtimes
  <2>2. QED
    BY <2>1, Nothing DEF EntryFrom, Entries, Records
<1> DEFINE new == {g \in Snapshots(m) : registry.entries[g].order = 0}
<1> DEFINE last == LastOrder(registry.entries)
<1> DEFINE places == {f \in [new -> last + 1 .. last + Cardinality(new)] :
                        \A g, h \in new : f[g] = f[h] => g = h}
<1>2. PICK place \in places :
        next = [g \in Guests |->
                 IF g \notin Snapshots(m) THEN NoEntry
                 ELSE EntryFrom(States(m)[g], IF g \in new THEN place[g]
                                              ELSE registry.entries[g].order)]
  BY Zenon DEF Publish
<1>3. \A g \in new : place[g] \in Int
  <2>1. place \in [new -> last + 1 .. last + Cardinality(new)]
    OBVIOUS
  <2> HIDE DEF new, last
  <2>2. QED
    BY <2>1, SMT
<1>4. \A g \in Guests : registry.entries[g].order \in Int
  BY DEF FileTypes, Entries
<1> HIDE DEF new, last, places
<1>5. \A g \in Guests : next[g] \in Entries
  BY <1>1, <1>2, <1>3, <1>4, Nothing
<1>6. QED
  BY <1>2, <1>5

\* A restored record is a record.
LEMMA RestoredType ==
  ASSUME FileTypes, NEW m \in Members, NEW g \in Guests, NEW n \in Nat
  PROVE  RestoredState(m, g, n) \in Records
<1>1. registry.entries[g] \in Entries /\ <<m, n>> \in Digests
  BY DEF FileTypes, Digests, Capabilities
<1>2. QED
  BY <1>1, Nothing DEF RestoredState, Entries, Records, NoState, SomeName, SomeMember

LEMMA GuestTypesInitially == GuestInit => GuestTypes
<1>1. SUFFICES ASSUME GuestInit PROVE GuestTypes
  OBVIOUS
<1>2. PICK old \in Guests, by \in Members : Earlier(old, by)
  BY <1>1 DEF GuestInit
<1>3. <<by, 1>> \in Digests /\ Old \in SomeName /\ by \in SomeMember
      /\ \A m \in Members : <<m, 1>> \in Digests
  BY GuestAssumption DEF Digests, Capabilities, SomeName, SomeMember
<1>4. FileTypes
  <2> DEFINE e == [st |-> "approved", name |-> Old, digest |-> <<by, 1>>, by |-> by, order |-> 1]
  <2>1. e \in Entries
    BY <1>3 DEF Entries
  <2>2. registry = [rev |-> 1, entries |-> [g \in Guests |-> IF g = old THEN e ELSE NoEntry]]
    BY <1>2 DEF Earlier
  <2> HIDE DEF e
  <2>3. registry \in [rev : Nat, entries : [Guests -> Entries]]
    BY <2>1, <2>2, Nothing
  <2>4. QED
    BY <1>1, <2>3 DEF FileTypes, GuestInit
<1>5. RuntimeTypes
  <2> DEFINE record(m) == [[NoState EXCEPT !.st = "approved", !.name = Old, !.digest = <<by, 1>>,
                                           !.by = by] EXCEPT !.cap = <<m, 1>>]
  <2>1. ASSUME NEW m \in Members PROVE record(m) \in Records
    BY <1>3, Nothing DEF Records, NoState
  <2>2. adm = [m \in Members |-> [on |-> TRUE, auth |-> Members, made |-> 1,
                 states |-> [g \in Guests |-> IF g = old THEN record(m) ELSE NoState]]]
    BY <1>2 DEF Earlier
  <2> HIDE DEF record
  <2>3. QED
    BY <2>1, <2>2, Nothing DEF RuntimeTypes, Runtimes
<1>6. WriteTypes /\ SessionTypes
  BY <1>1, Nothing DEF GuestInit, WriteTypes, SessionTypes
<1>7. QED
  BY <1>4, <1>5, <1>6 DEF GuestTypes

\* Which steps are about what.
Writing(m) == Load(m) \/ CheckRevision(m) \/ Rename(m) \/ WriteError(m)
Deciding(m, g) ==
  Approve(m, g) \/ ApproveAgain(m, g) \/ Deny(m, g) \/ Remove(m, g) \/ GuestLeave(g, m)
Asking(m, g) == \E name \in Names : GuestJoin(g, m, name) \/ CliJoin(g, m, name)
Tracking(g) == Track(g) \/ Forget(g) \/ LoseAnswer(g) \/ RestartGuest(g)
Managing == \E set \in SUBSET Members : EditManifest(set)

LEMMA StepKinds ==
  ASSUME [GuestNext]_guestVars
  PROVE  \/ \E m \in Members : Writing(m) \/ Refresh(m) \/ EndMembership(m)
         \/ \E m \in Members, g \in Guests : Deciding(m, g) \/ Asking(m, g)
         \/ \E g \in Guests : Tracking(g)
         \/ Managing
         \/ UNCHANGED guestVars
  BY Zenon DEF GuestNext, Writing, Deciding, Asking, Tracking, Managing

\* What the steps of a kind leave alone.
LEMMA Untouched ==
  /\ \A m \in Members : Writing(m) => UNCHANGED <<approvers, adm, guest, decided>>
  /\ \A m \in Members, g \in Guests :
       Deciding(m, g) => UNCHANGED <<registry, approvers, guest>>
  /\ \A m \in Members, g \in Guests :
       Asking(m, g) => UNCHANGED <<registry, approvers, writer, guest, decided>>
  /\ \A g \in Guests : Tracking(g) => UNCHANGED <<registry, approvers, adm, writer, decided>>
  /\ \A m \in Members : Refresh(m) =>
       UNCHANGED <<registry, approvers, writer, answer, guest, decided>>
  /\ \A m \in Members : EndMembership(m) => UNCHANGED <<registry, approvers, guest, decided>>
  /\ Managing => UNCHANGED <<registry, adm, writer, answer, guest, decided>>
<1>1. ASSUME NEW m \in Members, Writing(m) PROVE UNCHANGED <<approvers, adm, guest, decided>>
  BY <1>1 DEF Writing, Load, CheckRevision, Rename, WriteError
<1>2. ASSUME NEW m \in Members, NEW g \in Guests, Deciding(m, g)
      PROVE  UNCHANGED <<registry, approvers, guest>>
  BY <1>2 DEF Deciding, Approve, ApproveAgain, Deny, Remove, GuestLeave
<1>3. ASSUME NEW m \in Members, NEW g \in Guests, Asking(m, g)
      PROVE  UNCHANGED <<registry, approvers, writer, guest, decided>>
  BY <1>3 DEF Asking, GuestJoin, CliJoin
<1>4. ASSUME NEW g \in Guests, Tracking(g)
      PROVE UNCHANGED <<registry, approvers, adm, writer, decided>>
  BY <1>4 DEF Tracking, Track, Forget, LoseAnswer, RestartGuest
<1>5. ASSUME NEW m \in Members
      PROVE  /\ Refresh(m) => UNCHANGED <<registry, approvers, writer, answer, guest, decided>>
             /\ EndMembership(m) => UNCHANGED <<registry, approvers, guest, decided>>
  BY <1>5, Zenon DEF Refresh, EndMembership
<1>6. Managing => UNCHANGED <<registry, adm, writer, answer, guest, decided>>
  BY DEF Managing, EditManifest
<1>7. QED
  BY <1>1, <1>2, <1>3, <1>4, <1>5, <1>6, <1>7

LEMMA StateSet ==
  ASSUME NEW a \in [Members -> Runtimes], NEW m \in Members, NEW g \in Guests, NEW state \in Records
  PROVE  [a EXCEPT ![m].states[g] = state] \in [Members -> Runtimes]
<1> DEFINE r == [a[m] EXCEPT !.states = [@ EXCEPT ![g] = state]]
<1>1. r \in Runtimes
  BY DEF Runtimes
<1>2. [a EXCEPT ![m].states[g] = state] = [a EXCEPT ![m] = r]
  BY Zenon
<1> HIDE DEF r
<1>3. QED
  BY <1>1, <1>2

\* The runtimes: a state is set, a runtime is restored from the file or ends.
LEMMA RuntimeTypesKept ==
  ASSUME GuestTypes, [GuestNext]_guestVars
  PROVE  RuntimeTypes'
<1>1. adm \in [Members -> Runtimes]
  BY DEF GuestTypes, RuntimeTypes
<1>2. ASSUME NEW m \in Members, NEW g \in Guests
      PROVE  States(m)[g] \in Records /\ adm[m].made \in Nat
  BY <1>1 DEF States, Runtimes
<1>3. ASSUME NEW m \in Members, NEW g \in Guests, NEW state \in Records, SetState(m, g, state)
      PROVE  RuntimeTypes'
  BY <1>1, <1>3, StateSet DEF SetState, RuntimeTypes
<1>4. ASSUME NEW m \in Members, NEW g \in Guests, NEW name \in Names,
             GuestJoin(g, m, name) \/ CliJoin(g, m, name)
      PROVE  RuntimeTypes'
  <2>1. [States(m)[g] EXCEPT !.delivered = TRUE] \in Records
    BY <1>2 DEF Records
  <2>2. [NoState EXCEPT !.st = "pending", !.name = name] \in Records
    BY Nothing DEF Records, SomeName
  <2>3. \E state \in Records : SetState(m, g, state)
    <3>1. CASE CliJoin(g, m, name)
      BY <2>1, <3>1 DEF CliJoin
    <3>2. CASE GuestJoin(g, m, name)
      BY <2>1, <2>2, <3>2 DEF GuestJoin
    <3>3. QED
      BY <1>4, <3>1, <3>2
  <2>4. QED
    BY <1>3, <2>3
<1>5. ASSUME NEW m \in Members, NEW g \in Guests, Approve(m, g)
      PROVE  RuntimeTypes'
  <2> DEFINE cap == <<m, adm[m].made + 1>>
  <2> DEFINE state == [NoState EXCEPT !.st = "approved", !.name = States(m)[g].name,
                                      !.cap = cap, !.digest = cap, !.by = m]
  <2>1. cap \in Digests /\ m \in SomeMember /\ States(m)[g].name \in SomeName
        /\ adm[m].made + 1 \in Nat
    BY <1>2 DEF Digests, Capabilities, SomeMember, Records
  <2>2. state \in Records
    BY <2>1, Nothing DEF Records
  <2>3. adm' = [adm EXCEPT ![m].made = @ + 1, ![m].states[g] = state]
    BY <1>5 DEF Approve
  <2> HIDE DEF state
  <2> DEFINE a == [adm EXCEPT ![m].made = @ + 1]
  <2>4. a \in [Members -> Runtimes]
    BY <1>1, <2>1 DEF Runtimes
  <2>5. adm' = [a EXCEPT ![m].states[g] = state]
    BY <2>3, Zenon
  <2> HIDE DEF a
  <2>6. QED
    BY <2>2, <2>4, <2>5, StateSet DEF RuntimeTypes
<1>6. ASSUME NEW m \in Members, NEW g \in Guests, ApproveAgain(m, g)
      PROVE  RuntimeTypes'
  BY <1>1, <1>2, <1>6 DEF ApproveAgain, RuntimeTypes, Runtimes
<1>7. ASSUME NEW m \in Members, NEW g \in Guests, Deny(m, g) \/ Remove(m, g) \/ GuestLeave(g, m)
      PROVE  RuntimeTypes'
  <2>1. [NoState EXCEPT !.st = "denied", !.name = States(m)[g].name, !.by = m] \in Records
    BY <1>2, Nothing DEF Records, SomeMember
  <2>2. Revoked(States(m)[g]) \in Records
    BY <1>2, Nothing DEF Records, Revoked
  <2>3. \E state \in Records : SetState(m, g, state)
    BY <1>7, <2>1, <2>2 DEF Deny, Remove, GuestLeave, Persist
  <2>4. QED
    BY <1>3, <2>3
<1>8. ASSUME NEW m \in Members, Refresh(m) PROVE RuntimeTypes'
  <2> DEFINE back == {g \in Guests : Restorable(m, approvers, g)}
  <2> DEFINE up == {g \in back : registry.entries[g].st = "approved"}
  <2> DEFINE number(g) ==
        Cardinality({h \in up : registry.entries[h].order <= registry.entries[g].order})
  <2> DEFINE states == [g \in Guests |-> IF g \in back THEN RestoredState(m, g, number(g)) ELSE NoState]
  <2>1. adm' = [adm EXCEPT ![m] = [on |-> TRUE, auth |-> approvers, made |-> Cardinality(up),
                                   states |-> states]]
    BY <1>8, Zenon DEF Refresh
  <2>2. \A g \in Guests : number(g) \in Nat
    BY GuestsCounted
  <2>3. Cardinality(up) \in Nat
    BY GuestsCounted
  <2>4. states \in [Guests -> Records]
    <3> HIDE DEF number, back
    <3>1. QED
      BY <2>2, RestoredType, Nothing DEF GuestTypes
  <2>5. [on |-> TRUE, auth |-> approvers, made |-> Cardinality(up), states |-> states] \in Runtimes
    <3> HIDE DEF states, up
    <3>1. QED
      BY <2>3, <2>4 DEF Runtimes, GuestTypes, FileTypes
  <2> HIDE DEF states, up
  <2>6. QED
    BY <1>1, <2>1, <2>5 DEF RuntimeTypes
<1>9. ASSUME NEW m \in Members, EndMembership(m) PROVE RuntimeTypes'
  BY <1>1, <1>9, Nothing DEF EndMembership, RuntimeTypes
<1>10. UNCHANGED adm => RuntimeTypes'
  BY <1>1 DEF RuntimeTypes
<1>11. ASSUME NEW m \in Members, NEW g \in Guests, Deciding(m, g) \/ Asking(m, g)
       PROVE RuntimeTypes'
  BY <1>4, <1>5, <1>6, <1>7, <1>11 DEF Deciding, Asking
<1>12. QED
  BY <1>8, <1>9, <1>10, <1>11, StepKinds, Untouched DEF guestVars

\* The file is what a write renamed into place, the writes what they loaded.
LEMMA FileTypesKept ==
  ASSUME GuestTypes, [GuestNext]_guestVars
  PROVE  FileTypes'
<1>1. ASSUME NEW m \in Members, Rename(m) PROVE FileTypes'
  <2>1. writer[m] \in Writes
    BY DEF GuestTypes, WriteTypes
  <2>2. [rev |-> writer[m].base + 1, entries |-> writer[m].next]
          \in [rev : Nat, entries : [Guests -> Entries]]
    BY <2>1 DEF Writes
  <2>3. QED
    BY <1>1, <2>2 DEF Rename, GuestTypes, FileTypes
<1>2. UNCHANGED <<registry, approvers>> \/ (UNCHANGED registry /\ Managing) => FileTypes'
  BY DEF GuestTypes, FileTypes, Managing, EditManifest
<1>3. ASSUME NEW m \in Members, Writing(m) PROVE UNCHANGED registry \/ Rename(m)
  BY <1>3 DEF Writing, Load, CheckRevision, WriteError
<1>4. QED
  BY <1>1, <1>2, <1>3, StepKinds, Untouched DEF guestVars

LEMMA WriteTypesKept ==
  ASSUME GuestTypes, [GuestNext]_guestVars
  PROVE  WriteTypes'
<1>1. writer \in [Members -> Writes] /\ registry.rev \in Nat
  BY DEF GuestTypes, WriteTypes, FileTypes
<1>2. ASSUME NEW m \in Members, Load(m) PROVE WriteTypes'
  <2>1. PICK next \in Publish(m, registry.entries) :
          writer' = [writer EXCEPT ![m] = [@ EXCEPT !.at = "check", !.base = registry.rev, !.next = next]]
    BY <1>2 DEF Load
  <2>2. next \in [Guests -> Entries]
    BY PublishType DEF GuestTypes
  <2>3. [writer[m] EXCEPT !.at = "check", !.base = registry.rev, !.next = next] \in Writes
    BY <1>1, <2>2 DEF Writes
  <2>4. QED
    BY <1>1, <2>1, <2>3 DEF WriteTypes
<1>3. ASSUME NEW m \in Members, NEW result, EndWrite(m, result) PROVE WriteTypes'
  BY <1>1, <1>3, Nothing DEF EndWrite, WriteTypes
<1>4. ASSUME NEW m \in Members, CheckRevision(m) PROVE WriteTypes'
  <2>1. writer[m] \in Writes /\ writer[m].tries \in Nat
    BY <1>1 DEF Writes
  <2>2. [writer[m] EXCEPT !.at = "rename"] \in Writes
    BY <2>1 DEF Writes
  <2>3. [writer[m] EXCEPT !.at = "load", !.tries = writer[m].tries + 1] \in Writes
    <3>1. \A n \in Nat : [writer[m] EXCEPT !.at = "load", !.tries = n] \in Writes
      BY <2>1 DEF Writes
    <3>2. writer[m].tries + 1 \in Nat
      BY <2>1
    <3>3. QED
      BY <3>1, <3>2
  <2>4. CASE registry.rev = writer[m].base
    <3>1. writer' = [writer EXCEPT ![m] = [writer[m] EXCEPT !.at = "rename"]]
      BY <1>4, <2>4, Zenon DEF CheckRevision
    <3>2. QED
      BY <1>1, <2>2, <3>1 DEF WriteTypes
  <2>5. CASE registry.rev # writer[m].base /\ writer[m].tries + 1 = MaxWriteAttempts
    BY <1>3, <1>4, <2>5 DEF CheckRevision
  <2>6. CASE ~(registry.rev = writer[m].base) /\ ~(writer[m].tries + 1 = MaxWriteAttempts)
    <3>1. writer' = [writer EXCEPT ![m] = [writer[m] EXCEPT !.at = "load",
                                                            !.tries = writer[m].tries + 1]]
      BY <1>4, <2>6, Zenon DEF CheckRevision
    <3>2. QED
      BY <1>1, <2>3, <3>1 DEF WriteTypes
  <2>7. QED
    BY <2>4, <2>5, <2>6
<1>5. ASSUME NEW m \in Members, NEW g \in Guests, Approve(m, g) PROVE WriteTypes'
  <2>1. [writer[m] EXCEPT !.at = "load"] \in Writes
    BY <1>1 DEF Writes
  <2>2. writer' = [writer EXCEPT ![m] = [writer[m] EXCEPT !.at = "load"]]
    BY <1>5, Zenon DEF Approve
  <2>3. QED
    BY <1>1, <2>1, <2>2 DEF WriteTypes
<1>6. ASSUME NEW m \in Members, NEW g \in Guests, NEW state, NEW for \in Guests \cup {Nobody},
             Persist(m, g, state, for)
      PROVE  WriteTypes'
  BY <1>1, <1>6 DEF Persist, WriteTypes, Writes
<1>7. ASSUME NEW m \in Members, NEW g \in Guests, Deny(m, g) \/ Remove(m, g) \/ GuestLeave(g, m)
      PROVE  WriteTypes'
  BY <1>6, <1>7 DEF Deny, Remove, GuestLeave
<1>8. UNCHANGED writer => WriteTypes'
  BY <1>1 DEF WriteTypes
<1>9. ASSUME NEW m \in Members, Writing(m) \/ EndMembership(m) PROVE WriteTypes'
  BY <1>2, <1>3, <1>4, <1>9 DEF Writing, Rename, WriteError, EndMembership
<1>10. ASSUME NEW m \in Members, NEW g \in Guests, Deciding(m, g) PROVE WriteTypes'
  BY <1>5, <1>7, <1>8, <1>10 DEF Deciding, ApproveAgain
<1>11. QED
  BY <1>8, <1>9, <1>10, StepKinds, Untouched DEF guestVars

\* The Guests' sessions and the answers to them.
LEMMA SessionTypesKept ==
  ASSUME GuestTypes, [GuestNext]_guestVars
  PROVE  SessionTypes'
<1>1. /\ answer \in [Guests -> Answers] /\ guest \in [Guests -> Answers]
      /\ adm \in [Members -> Runtimes]
  BY DEF GuestTypes, SessionTypes, RuntimeTypes
<1>2. ASSUME NEW m \in Members, NEW result \in Answers, EndWrite(m, result)
      PROVE  answer' \in [Guests -> Answers]
  BY <1>1, <1>2 DEF EndWrite
<1>3. [NoAnswer EXCEPT !.st = "left"] \in Answers
  BY Nothing DEF Answers, NoAnswer
<1>4. ASSUME NEW m \in Members, CheckRevision(m) \/ Rename(m) \/ WriteError(m) \/ EndMembership(m)
      PROVE  SessionTypes'
  BY <1>1, <1>2, <1>3, <1>4, Nothing DEF CheckRevision, Rename, WriteError, EndMembership,
       SessionTypes
<1>5. ASSUME NEW m \in Members, NEW g \in Guests, NEW name \in Names, GuestJoin(g, m, name)
      PROVE  SessionTypes'
  <2>1. States(m)[g].cap \in Digests /\ name \in SomeName /\ m \in SomeMember
    BY <1>1 DEF States, Runtimes, Records, SomeName, SomeMember
  <2>2. Answered(m, g, name) \in Answers
    BY <2>1, Nothing DEF Answered, Answers
  <2>3. QED
    BY <1>1, <1>5, <2>2 DEF GuestJoin, SessionTypes
<1>6. ASSUME NEW m \in Members, NEW g \in Guests, GuestLeave(g, m) PROVE SessionTypes'
  <2>1. [answer[g] EXCEPT !.st = "waiting"] \in Answers
    BY <1>1 DEF Answers
  <2>2. answer' = [answer EXCEPT ![g] = [answer[g] EXCEPT !.st = "waiting"]]
    BY <1>6, Zenon DEF GuestLeave
  <2>3. QED
    BY <1>1, <1>6, <2>1, <2>2 DEF GuestLeave, SessionTypes
<1>7. ASSUME NEW g \in Guests, Track(g) PROVE SessionTypes'
  <2>1. Tracked(g) \in Answers
    BY <1>1 DEF Tracked, Answers, OwnCapability
  <2>2. QED
    BY <1>1, <1>7, <2>1, Nothing DEF Track, SessionTypes
<1>8. ASSUME NEW g \in Guests, Forget(g) \/ LoseAnswer(g) \/ RestartGuest(g) PROVE SessionTypes'
  BY <1>1, <1>8, Nothing DEF Forget, LoseAnswer, RestartGuest, SessionTypes
<1>9. UNCHANGED <<answer, guest>> => SessionTypes'
  BY <1>1 DEF SessionTypes
<1>10. ASSUME NEW m \in Members, Writing(m) PROVE SessionTypes'
  BY <1>4, <1>9, <1>10 DEF Writing, Load
<1>11. ASSUME NEW m \in Members, NEW g \in Guests, Deciding(m, g) \/ Asking(m, g)
       PROVE SessionTypes'
  BY <1>5, <1>6, <1>9, <1>11 DEF Deciding, Asking, Approve, ApproveAgain, Deny, Remove,
       CliJoin
<1>12. ASSUME NEW g \in Guests, Tracking(g) PROVE SessionTypes'
  BY <1>7, <1>8, <1>12 DEF Tracking
<1>13. QED
  BY <1>4, <1>9, <1>10, <1>11, <1>12, StepKinds, Untouched DEF guestVars

LEMMA GuestTypesHolds == GuestSpec => []GuestTypes
<1>1. GuestTypes /\ [GuestNext]_guestVars => GuestTypes'
  BY FileTypesKept, RuntimeTypesKept, WriteTypesKept, SessionTypesKept
     DEF GuestTypes
<1>2. QED
  BY GuestTypesInitially, <1>1, PTL DEF GuestSpec

-----------------------------------------------------------------------------
(* What is said of a Guest was decided, wherever it is said.                *)

\* A Member took the decision that the record or entry tells of; a denial's approver is
\* forgotten by a restart.
Made(decisions, g, r) ==
  \E by \in Members : /\ <<g, r.st, r.name, by>> \in decisions
                      /\ r.st # "denied" => by = r.by
Approval(decisions, g, name) == \E by \in Members : <<g, "approved", name, by>> \in decisions

\* The runtimes.
StatesDecided ==
  \A m \in Members, g \in Guests :
    States(m)[g].st \in {"approved", "denied", "revoked"} => Made(decided, g, States(m)[g])

\* The writes in progress.
WritesDecided ==
  \A m \in Members, g \in Guests :
    writer[m].next[g].st # "absent" => Made(decided, g, writer[m].next[g])

\* The answers on their way.
AnswersDecided ==
  \A g \in Guests : answer[g].st = "approved" => Approval(decided, g, answer[g].name)

\* The file.
FileDecided ==
  \A g \in Guests : registry.entries[g].st # "absent" => Made(decided, g, registry.entries[g])

DecisionInv ==
  StatesDecided /\ WritesDecided /\ AnswersDecided /\ FileDecided /\ BelievesOnlyApproved

LEMMA MadeStays ==
  ASSUME NEW before, NEW after, before \subseteq after, NEW g
  PROVE  /\ \A r : Made(before, g, r) => Made(after, g, r)
         /\ \A name : Approval(before, g, name) => Approval(after, g, name)
  BY DEF Made, Approval

\* Nothing that was decided is forgotten.
LEMMA DecisionsGrow ==
  ASSUME [GuestNext]_guestVars
  PROVE  decided \subseteq decided'
<1>1. ASSUME NEW m \in Members, NEW g \in Guests, Deciding(m, g) PROVE decided \subseteq decided'
  BY <1>1 DEF Deciding, Approve, ApproveAgain, Deny, Remove, GuestLeave, Persist
<1>2. QED
  BY <1>1, StepKinds, Untouched DEF guestVars

\* A record that is set is the only one that changes.
LEMMA StateSetIs ==
  ASSUME GuestTypes, NEW m \in Members, NEW g \in Guests, NEW state, SetState(m, g, state)
  PROVE  \A i \in Members, h \in Guests :
           States(i)'[h] = IF i = m /\ h = g THEN state ELSE States(i)[h]
<1>1. adm \in [Members -> Runtimes] /\ adm' = [adm EXCEPT ![m].states[g] = state]
  BY DEF GuestTypes, RuntimeTypes, SetState
<1>2. QED
  BY <1>1 DEF States, Runtimes

LEMMA StateSetDecided ==
  ASSUME StatesDecided, decided \subseteq decided',
         NEW m \in Members, NEW g \in Guests, NEW state,
         state.st \in {"approved", "denied", "revoked"} => Made(decided', g, state),
         \A i \in Members, h \in Guests :
           States(i)'[h] = IF i = m /\ h = g THEN state ELSE States(i)[h]
  PROVE  StatesDecided'
<1>1. ASSUME NEW i \in Members, NEW h \in Guests,
             States(i)'[h].st \in {"approved", "denied", "revoked"}
      PROVE  Made(decided', h, States(i)'[h])
  <2>1. CASE i = m /\ h = g
    BY <1>1, <2>1
  <2>2. CASE ~(i = m /\ h = g)
    <3>1. States(i)'[h] = States(i)[h]
      BY <2>2
    <3>2. Made(decided, h, States(i)[h])
      BY <1>1, <3>1 DEF StatesDecided
    <3>3. QED
      BY <3>1, <3>2, MadeStays
  <2>3. QED
    BY <2>1, <2>2
<1>2. QED
  BY <1>1 DEF StatesDecided

LEMMA ApprovalDecided ==
  ASSUME GuestTypes, StatesDecided, decided \subseteq decided',
         NEW m \in Members, NEW g \in Guests, Approve(m, g)
  PROVE  StatesDecided'
<1> DEFINE cap == <<m, adm[m].made + 1>>
<1> DEFINE state == [NoState EXCEPT !.st = "approved", !.name = States(m)[g].name,
                                    !.cap = cap, !.digest = cap, !.by = m]
<1>1. adm \in [Members -> Runtimes] /\ adm' = [adm EXCEPT ![m].made = @ + 1, ![m].states[g] = state]
  BY DEF GuestTypes, RuntimeTypes, Approve
<1>2. <<g, "approved", States(m)[g].name, m>> \in decided'
  BY DEF Approve, NoState
<1>3. state.st = "approved" /\ state.name = States(m)[g].name /\ state.by = m
  BY DEF NoState
<1> HIDE DEF state
<1>4. \A i \in Members, h \in Guests :
        States(i)'[h] = IF i = m /\ h = g THEN state ELSE States(i)[h]
  BY <1>1 DEF States, Runtimes
<1>5. Made(decided', g, state)
  BY <1>2, <1>3 DEF Made
<1>6. QED
  BY <1>4, <1>5, StateSetDecided

\* Revocations are of the approval's approver.
LEMMA PersistedDecided ==
  ASSUME GuestTypes, StatesDecided, decided \subseteq decided',
         NEW m \in Members, NEW g \in Guests, Deny(m, g) \/ Remove(m, g) \/ GuestLeave(g, m)
  PROVE  StatesDecided'
<1>1. ASSUME NEW state, NEW for, Persist(m, g, state, for),
             state.by \in Members
      PROVE  StatesDecided'
  <2>1. <<g, state.st, state.name, state.by>> \in decided' /\ SetState(m, g, state)
    BY <1>1 DEF Persist
  <2>2. Made(decided', g, state)
    BY <1>1, <2>1 DEF Made
  <2>3. QED
    BY <2>1, <2>2, StateSetIs, StateSetDecided
<1>2. CASE Deny(m, g)
  <2> DEFINE state == [NoState EXCEPT !.st = "denied", !.name = States(m)[g].name, !.by = m]
  <2>1. state.by = m
    BY DEF NoState
  <2>2. Persist(m, g, state, Nobody)
    BY <1>2 DEF Deny
  <2> HIDE DEF state
  <2>3. QED
    BY <1>1, <2>1, <2>2
<1>3. CASE Remove(m, g) \/ GuestLeave(g, m)
  <2>1. PICK for : States(m)[g].st = "approved" /\ Persist(m, g, Revoked(States(m)[g]), for)
    BY <1>3 DEF Remove, GuestLeave
  <2>2. Made(decided, g, States(m)[g])
    BY <2>1 DEF StatesDecided
  <2>3. Revoked(States(m)[g]).by = States(m)[g].by
    BY DEF Revoked, NoState
  <2>4. QED
    BY <1>1, <2>1, <2>2, <2>3 DEF Made
<1>4. QED
  BY <1>2, <1>3

\* A runtime is restored from the file, or forgotten.
LEMMA RestoredDecided ==
  ASSUME GuestTypes, StatesDecided, FileDecided,
         NEW m \in Members, Refresh(m) \/ EndMembership(m)
  PROVE  StatesDecided'
<1>1. \A h \in Guests : \A n :
        Restorable(m, approvers, h) =>
          /\ RestoredState(m, h, n).st = registry.entries[h].st
          /\ Made(decided, h, RestoredState(m, h, n))
  <2>1. ASSUME NEW h \in Guests, NEW n, Restorable(m, approvers, h)
        PROVE  /\ RestoredState(m, h, n).st = registry.entries[h].st
               /\ Made(decided, h, RestoredState(m, h, n))
    <3>1. Made(decided, h, registry.entries[h])
      BY <2>1 DEF Restorable, FileDecided
    <3>2. /\ RestoredState(m, h, n).st = registry.entries[h].st
          /\ RestoredState(m, h, n).name = registry.entries[h].name
          /\ registry.entries[h].st # "denied" => RestoredState(m, h, n).by = registry.entries[h].by
      BY DEF RestoredState, NoState
    <3>3. QED
      BY <3>1, <3>2 DEF Made
  <2>2. QED
    BY <2>1
<1>2. adm \in [Members -> Runtimes] /\ decided' = decided
  BY Untouched DEF GuestTypes, RuntimeTypes
<1>3. \A i \in Members \ {m} : States(i)' = States(i)
  BY <1>2 DEF States, Refresh, EndMembership
<1>4. \A h \in Guests : \/ States(m)'[h] = NoState
                        \/ \E n : /\ Restorable(m, approvers, h)
                                  /\ States(m)'[h] = RestoredState(m, h, n)
  <2>1. CASE Refresh(m)
    BY <1>2, <2>1 DEF States, Refresh
  <2>2. CASE EndMembership(m)
    BY <1>2, <2>2 DEF States, EndMembership, NoRuntime
  <2>3. QED
    BY <2>1, <2>2
<1>5. NoState.st = "absent"
  BY DEF NoState
<1>6. ASSUME NEW i \in Members, NEW h \in Guests,
             States(i)'[h].st \in {"approved", "denied", "revoked"}
      PROVE  Made(decided', h, States(i)'[h])
  BY <1>1, <1>2, <1>3, <1>4, <1>5, <1>6 DEF StatesDecided
<1>7. QED
  BY <1>6 DEF StatesDecided

LEMMA StatesDecidedKept ==
  ASSUME GuestTypes, DecisionInv, [GuestNext]_guestVars
  PROVE  StatesDecided'
<1>1. StatesDecided /\ FileDecided /\ decided \subseteq decided'
  BY DecisionsGrow DEF DecisionInv
<1>2. ASSUME UNCHANGED adm PROVE StatesDecided'
  BY <1>1, <1>2, MadeStays DEF StatesDecided, States
<1>3. ASSUME NEW m \in Members, NEW g \in Guests, Asking(m, g) PROVE StatesDecided'
  <2>1. PICK name \in Names : GuestJoin(g, m, name) \/ CliJoin(g, m, name)
    BY <1>3 DEF Asking
  <2>2. CASE States(m)[g].st = "approved"
    <3> DEFINE state == [States(m)[g] EXCEPT !.delivered = TRUE]
    <3>1. SetState(m, g, state)
      BY <2>1, <2>2 DEF GuestJoin, CliJoin
    <3>2. States(m)[g] \in Records
      BY DEF GuestTypes, RuntimeTypes, Runtimes, States
    <3>3. state.st = States(m)[g].st /\ state.name = States(m)[g].name /\ state.by = States(m)[g].by
      BY <3>2 DEF Records
    <3> HIDE DEF state
    <3>4. Made(decided', g, state)
      BY <1>1, <2>2, <3>3, MadeStays DEF StatesDecided, Made
    <3>5. \A i \in Members, h \in Guests :
            States(i)'[h] = IF i = m /\ h = g THEN state ELSE States(i)[h]
      BY <3>1, StateSetIs
    <3>6. QED
      BY <1>1, <3>4, <3>5, StateSetDecided
  <2>3. CASE States(m)[g].st # "approved"
    <3> DEFINE state == [NoState EXCEPT !.st = "pending", !.name = name]
    <3>1. SetState(m, g, state)
      BY <2>1, <2>3 DEF GuestJoin, CliJoin
    <3>2. state.st = "pending"
      BY DEF NoState
    <3> HIDE DEF state
    <3>3. QED
      BY <1>1, <3>1, <3>2, StateSetIs, StateSetDecided
  <2>4. QED
    BY <2>2, <2>3
<1>4. ASSUME NEW m \in Members, NEW g \in Guests, ApproveAgain(m, g) PROVE StatesDecided'
  <2>1. \A i \in Members : States(i)' = States(i)
    BY <1>4 DEF ApproveAgain, States, GuestTypes, RuntimeTypes, Runtimes
  <2>2. QED
    BY <1>1, <2>1, MadeStays DEF StatesDecided
<1>5. ASSUME NEW m \in Members, NEW g \in Guests, Deciding(m, g) PROVE StatesDecided'
  BY <1>1, <1>4, <1>5, ApprovalDecided, PersistedDecided DEF Deciding
<1>6. QED
  BY <1>1, <1>2, <1>3, <1>5, RestoredDecided, StepKinds, Untouched DEF guestVars

\* publish writes what the runtime knows.
LEMMA PublishedDecided ==
  ASSUME StatesDecided, NEW m \in Members, NEW next \in Publish(m, registry.entries),
         NEW g \in Guests, next[g].st # "absent"
  PROVE  Made(decided, g, next[g])
<1> DEFINE new == {h \in Snapshots(m) : registry.entries[h].order = 0}
<1> DEFINE last == LastOrder(registry.entries)
<1> DEFINE places == {f \in [new -> last + 1 .. last + Cardinality(new)] :
                        \A h, k \in new : f[h] = f[k] => h = k}
<1>1. PICK place \in places :
        next = [h \in Guests |->
                 IF h \notin Snapshots(m) THEN NoEntry
                 ELSE EntryFrom(States(m)[h], IF h \in new THEN place[h]
                                              ELSE registry.entries[h].order)]
  BY Zenon DEF Publish
<1> HIDE DEF new, last, places
<1>2. g \in Snapshots(m)
  BY <1>1 DEF NoEntry
<1>3. PICK order : next[g] = EntryFrom(States(m)[g], order)
  BY <1>1, <1>2
<1>4. next[g].st = States(m)[g].st /\ next[g].name = States(m)[g].name
      /\ next[g].by = States(m)[g].by
  BY <1>3 DEF EntryFrom
<1>5. Made(decided, g, States(m)[g])
  BY <1>2 DEF StatesDecided, Snapshots
<1>6. QED
  BY <1>4, <1>5 DEF Made

LEMMA WritesDecidedKept ==
  ASSUME GuestTypes, DecisionInv, [GuestNext]_guestVars
  PROVE  WritesDecided'
<1>1. /\ StatesDecided /\ WritesDecided /\ decided \subseteq decided'
      /\ writer \in [Members -> Writes]
  BY DecisionsGrow DEF DecisionInv, GuestTypes, WriteTypes
<1>2. ASSUME NEW m \in Members, NEW w, writer' = [writer EXCEPT ![m] = w],
             \A g \in Guests : w.next[g].st # "absent" => Made(decided', g, w.next[g])
      PROVE  WritesDecided'
  <2>1. ASSUME NEW i \in Members, NEW h \in Guests, writer'[i].next[h].st # "absent"
        PROVE  Made(decided', h, writer'[i].next[h])
    <3>1. CASE i = m
      BY <1>1, <1>2, <2>1, <3>1
    <3>2. CASE i # m
      BY <1>1, <1>2, <2>1, <3>2, MadeStays DEF WritesDecided
    <3>3. QED
      BY <3>1, <3>2
  <2>2. QED
    BY <2>1 DEF WritesDecided
<1>3. ASSUME NEW m \in Members, NEW w, writer' = [writer EXCEPT ![m] = w], w.next = writer[m].next
      PROVE  WritesDecided'
  BY <1>1, <1>2, <1>3, MadeStays DEF WritesDecided
<1>4. ASSUME NEW m \in Members, Load(m) PROVE WritesDecided'
  <2>1. PICK next \in Publish(m, registry.entries) :
          writer' = [writer EXCEPT ![m] = [@ EXCEPT !.at = "check", !.base = registry.rev, !.next = next]]
    BY <1>4 DEF Load
  <2> DEFINE w == [writer[m] EXCEPT !.at = "check", !.base = registry.rev, !.next = next]
  <2>2. w.next = next
    BY <1>1 DEF Writes
  <2>3. writer' = [writer EXCEPT ![m] = w]
    BY <2>1
  <2> HIDE DEF w
  <2>4. \A g \in Guests : w.next[g].st # "absent" => Made(decided', g, w.next[g])
    BY <1>1, <2>2, PublishedDecided, MadeStays
  <2>5. QED
    BY <1>2, <2>3, <2>4
<1>5. ASSUME NEW m \in Members, NEW result, EndWrite(m, result) PROVE WritesDecided'
  <2>1. \A g \in Guests : NoWrite.next[g].st = "absent"
    BY DEF NoWrite, NoEntry
  <2>2. QED
    BY <1>2, <1>5, <2>1 DEF EndWrite
<1>6. ASSUME NEW m \in Members, CheckRevision(m) PROVE WritesDecided'
  <2>1. /\ [writer[m] EXCEPT !.at = "rename"].next = writer[m].next
        /\ [writer[m] EXCEPT !.at = "load", !.tries = writer[m].tries + 1].next = writer[m].next
    BY <1>1 DEF Writes
  <2>2. CASE registry.rev = writer[m].base
    <3>1. writer' = [writer EXCEPT ![m] = [writer[m] EXCEPT !.at = "rename"]]
      BY <1>6, <2>2, Zenon DEF CheckRevision
    <3>2. QED
      BY <1>3, <2>1, <3>1
  <2>3. CASE registry.rev # writer[m].base /\ writer[m].tries + 1 = MaxWriteAttempts
    BY <1>5, <1>6, <2>3 DEF CheckRevision
  <2>4. CASE ~(registry.rev = writer[m].base) /\ ~(writer[m].tries + 1 = MaxWriteAttempts)
    <3>1. writer' = [writer EXCEPT ![m] = [writer[m] EXCEPT !.at = "load",
                                                            !.tries = writer[m].tries + 1]]
      BY <1>6, <2>4, Zenon DEF CheckRevision
    <3>2. QED
      BY <1>3, <2>1, <3>1
  <2>5. QED
    BY <2>2, <2>3, <2>4
<1>7. ASSUME NEW m \in Members, NEW for, writer' = [writer EXCEPT ![m].at = "load", ![m].for = for]
      PROVE  WritesDecided'
  <2> DEFINE w == [writer[m] EXCEPT !.at = "load", !.for = for]
  <2>1. writer' = [writer EXCEPT ![m] = w]
    BY <1>1, <1>7
  <2>2. w.next = writer[m].next
    BY <1>1 DEF Writes
  <2> HIDE DEF w
  <2>3. QED
    BY <1>3, <2>1, <2>2
<1>8. ASSUME NEW m \in Members, NEW g \in Guests, Approve(m, g) PROVE WritesDecided'
  <2>1. [writer[m] EXCEPT !.at = "load"].next = writer[m].next
    BY <1>1 DEF Writes
  <2>2. writer' = [writer EXCEPT ![m] = [writer[m] EXCEPT !.at = "load"]]
    BY <1>8, Zenon DEF Approve
  <2>3. QED
    BY <1>3, <2>1, <2>2
<1>9. ASSUME UNCHANGED writer PROVE WritesDecided'
  <2>1. ASSUME NEW m \in Members, NEW h \in Guests, writer'[m].next[h].st # "absent"
        PROVE  Made(decided', h, writer'[m].next[h])
    <3>1. Made(decided, h, writer'[m].next[h])
      BY <1>1, <1>9, <2>1 DEF WritesDecided
    <3>2. QED
      BY <1>1, <3>1, MadeStays
  <2>2. QED
    BY <2>1 DEF WritesDecided
<1>10. ASSUME NEW m \in Members, Writing(m) \/ EndMembership(m) PROVE WritesDecided'
  BY <1>4, <1>5, <1>6, <1>10 DEF Writing, Rename, WriteError, EndMembership
<1>11. ASSUME NEW m \in Members, NEW g \in Guests, Deciding(m, g) PROVE WritesDecided'
  BY <1>7, <1>8, <1>9, <1>11 DEF Deciding, ApproveAgain, Deny, Remove, GuestLeave, Persist
<1>12. QED
  BY <1>9, <1>10, <1>11, StepKinds, Untouched DEF guestVars

\* The file becomes what a write brought.
LEMMA FileDecidedKept ==
  ASSUME GuestTypes, DecisionInv, [GuestNext]_guestVars
  PROVE  FileDecided'
<1>1. FileDecided /\ WritesDecided /\ decided \subseteq decided'
  BY DecisionsGrow DEF DecisionInv
<1>2. ASSUME NEW m \in Members, Rename(m) PROVE FileDecided'
  <2>1. registry'.entries = writer[m].next
    BY <1>2 DEF Rename
  <2>2. QED
    BY <1>1, <2>1, MadeStays DEF FileDecided, WritesDecided
<1>3. UNCHANGED registry => FileDecided'
  BY <1>1, MadeStays DEF FileDecided
<1>4. ASSUME NEW m \in Members, Writing(m) PROVE UNCHANGED registry \/ Rename(m)
  BY <1>4 DEF Writing, Load, CheckRevision, WriteError
<1>5. QED
  BY <1>2, <1>3, <1>4, StepKinds, Untouched DEF guestVars

\* An answer repeats what the runtime knows.
LEMMA AnswersDecidedKept ==
  ASSUME GuestTypes, DecisionInv, [GuestNext]_guestVars
  PROVE  AnswersDecided'
<1>1. /\ StatesDecided /\ AnswersDecided /\ decided \subseteq decided'
      /\ answer \in [Guests -> Answers]
  BY DecisionsGrow DEF DecisionInv, GuestTypes, SessionTypes
<1>2. ASSUME NEW g \in Guests, NEW a, answer' = [answer EXCEPT ![g] = a],
             a.st = "approved" => Approval(decided', g, a.name)
      PROVE  AnswersDecided'
  <2>1. ASSUME NEW h \in Guests, answer'[h].st = "approved"
        PROVE  Approval(decided', h, answer'[h].name)
    <3>1. CASE h = g
      BY <1>1, <1>2, <2>1, <3>1
    <3>2. CASE h # g
      BY <1>1, <1>2, <2>1, <3>2, MadeStays DEF AnswersDecided
    <3>3. QED
      BY <3>1, <3>2
  <2>2. QED
    BY <2>1 DEF AnswersDecided
<1>3. UNCHANGED answer => AnswersDecided'
  BY <1>1, MadeStays DEF AnswersDecided
<1>4. ASSUME NEW m \in Members, NEW result, result.st # "approved", EndWrite(m, result)
      PROVE  AnswersDecided'
  <2>1. CASE writer[m].for = Nobody
    BY <1>3, <1>4, <2>1 DEF EndWrite
  <2>2. CASE writer[m].for # Nobody
    <3>1. writer[m].for \in Guests
      BY <2>2 DEF GuestTypes, WriteTypes, Writes
    <3>2. QED
      BY <1>2, <1>4, <2>2, <3>1 DEF EndWrite
  <2>3. QED
    BY <2>1, <2>2
<1>5. NoAnswer.st # "approved" /\ [NoAnswer EXCEPT !.st = "left"].st # "approved"
  BY DEF NoAnswer
<1>6. ASSUME NEW m \in Members, Writing(m) \/ EndMembership(m) PROVE AnswersDecided'
  BY <1>3, <1>4, <1>5, <1>6 DEF Writing, Load, CheckRevision, Rename, WriteError, EndMembership
<1>7. ASSUME NEW m \in Members, NEW g \in Guests, NEW name \in Names, GuestJoin(g, m, name)
      PROVE  AnswersDecided'
  <2>1. /\ answer' = [answer EXCEPT ![g] = Answered(m, g, name)]
        /\ States(m)[g].st = "approved" => States(m)[g].name = name
    BY <1>7 DEF GuestJoin, Admits
  <2>2. /\ Answered(m, g, name).name = name
        /\ Answered(m, g, name).st = "approved" => States(m)[g].st = "approved"
    BY DEF Answered
  <2>3. ASSUME States(m)[g].st = "approved" PROVE Approval(decided', g, name)
    BY <1>1, <2>1, <2>3 DEF StatesDecided, Made, Approval
  <2>4. QED
    BY <1>2, <2>1, <2>2, <2>3
<1>8. ASSUME NEW m \in Members, NEW g \in Guests, GuestLeave(g, m) PROVE AnswersDecided'
  <2>1. answer' = [answer EXCEPT ![g] = [answer[g] EXCEPT !.st = "waiting"]]
    BY <1>8, Zenon DEF GuestLeave
  <2>2. [answer[g] EXCEPT !.st = "waiting"].st = "waiting"
    BY <1>1 DEF Answers
  <2>3. QED
    BY <1>2, <2>1, <2>2
<1>9. ASSUME NEW m \in Members, NEW g \in Guests, Deciding(m, g) \/ Asking(m, g)
      PROVE  AnswersDecided'
  BY <1>3, <1>7, <1>8, <1>9
  DEF Deciding, Asking, Approve, ApproveAgain, Deny, Remove, CliJoin
<1>10. ASSUME NEW g \in Guests, Tracking(g) PROVE AnswersDecided'
  BY <1>2, <1>3, <1>5, <1>10 DEF Tracking, Track, Forget, LoseAnswer, RestartGuest
<1>11. QED
  BY <1>3, <1>6, <1>9, <1>10, StepKinds, Untouched DEF guestVars

\* A Guest's session takes an answer, or keeps what it has.
LEMMA BeliefKept ==
  ASSUME GuestTypes, DecisionInv, [GuestNext]_guestVars
  PROVE  BelievesOnlyApproved'
<1>1. /\ AnswersDecided /\ BelievesOnlyApproved /\ decided \subseteq decided'
      /\ guest \in [Guests -> Answers] /\ answer \in [Guests -> Answers]
  BY DecisionsGrow DEF DecisionInv, GuestTypes, SessionTypes
<1>2. UNCHANGED guest => BelievesOnlyApproved'
  BY <1>1 DEF BelievesOnlyApproved
<1>3. ASSUME NEW g \in Guests, NEW a, guest' = [guest EXCEPT ![g] = a],
             a.st = "approved" => Approval(decided', g, a.name)
      PROVE  BelievesOnlyApproved'
  BY <1>1, <1>3 DEF BelievesOnlyApproved, Approval
<1>4. ASSUME NEW g \in Guests, Track(g) PROVE BelievesOnlyApproved'
  <2>1. Tracked(g).st = "approved" => Approval(decided, g, Tracked(g).name)
    <3>1. CASE guest[g].st = "approved"
      BY <1>1, <3>1 DEF Tracked, BelievesOnlyApproved, Approval
    <3>2. CASE guest[g].st # "approved"
      <4>1. \/ Tracked(g) = answer[g]
            \/ Tracked(g) = [answer[g] EXCEPT !.cap = OwnCapability(g)]
        BY <3>2 DEF Tracked
      <4>2. Tracked(g).st = answer[g].st /\ Tracked(g).name = answer[g].name
        BY <1>1, <4>1 DEF Answers
      <4>3. QED
        BY <1>1, <4>2 DEF AnswersDecided
    <3>3. QED
      BY <3>1, <3>2
  <2>2. QED
    BY <1>1, <1>3, <1>4, <2>1, MadeStays DEF Track
<1>5. ASSUME NEW g \in Guests, Forget(g) \/ RestartGuest(g) PROVE BelievesOnlyApproved'
  <2>1. guest' = [guest EXCEPT ![g] = NoAnswer] /\ NoAnswer.st # "approved"
    BY <1>5 DEF Forget, RestartGuest, NoAnswer
  <2>2. QED
    BY <1>3, <2>1
<1>6. ASSUME NEW g \in Guests, Tracking(g) PROVE BelievesOnlyApproved'
  BY <1>2, <1>4, <1>5, <1>6 DEF Tracking, LoseAnswer
<1>7. QED
  BY <1>2, <1>6, StepKinds, Untouched DEF guestVars

LEMMA DecisionsInitially == GuestInit => DecisionInv
<1>1. SUFFICES ASSUME GuestInit PROVE DecisionInv
  OBVIOUS
<1>2. PICK old \in Guests, by \in Members : Earlier(old, by)
  BY <1>1 DEF GuestInit
<1>3. decided = {<<old, "approved", Old, by>>}
  BY <1>2 DEF Earlier
<1>4. FileDecided
  BY <1>2, <1>3 DEF Earlier, FileDecided, Made, NoEntry
<1>5. StatesDecided
  <2> DEFINE record(m) == [[NoState EXCEPT !.st = "approved", !.name = Old, !.digest = <<by, 1>>,
                                           !.by = by] EXCEPT !.cap = <<m, 1>>]
  <2>1. \A m : record(m).st = "approved" /\ record(m).name = Old /\ record(m).by = by
    BY DEF NoState
  <2>2. adm = [m \in Members |-> [on |-> TRUE, auth |-> Members, made |-> 1,
                 states |-> [g \in Guests |-> IF g = old THEN record(m) ELSE NoState]]]
    BY <1>2 DEF Earlier
  <2> HIDE DEF record
  <2>3. \A m \in Members, g \in Guests :
          States(m)[g] = IF g = old THEN record(m) ELSE NoState
    BY <2>2 DEF States
  <2>4. NoState.st = "absent"
    BY DEF NoState
  <2>5. QED
    BY <1>3, <2>1, <2>3, <2>4 DEF StatesDecided, Made
<1>6. WritesDecided
  <2>1. \A m \in Members, g \in Guests : writer[m].next[g] = NoEntry
    BY <1>1 DEF GuestInit, NoWrite
  <2>2. QED
    BY <2>1 DEF WritesDecided, NoEntry
<1>7. AnswersDecided /\ BelievesOnlyApproved
  BY <1>1 DEF GuestInit, AnswersDecided, BelievesOnlyApproved, NoAnswer
<1>8. QED
  BY <1>4, <1>5, <1>6, <1>7 DEF DecisionInv

LEMMA DecisionInvHolds == GuestSpec => []DecisionInv
<1>1. GuestTypes /\ DecisionInv /\ [GuestNext]_guestVars => DecisionInv'
  BY StatesDecidedKept, WritesDecidedKept, FileDecidedKept, AnswersDecidedKept, BeliefKept
  DEF DecisionInv
<1>2. QED
  BY DecisionsInitially, GuestTypesHolds, <1>1, PTL DEF GuestSpec

\* The registry's entries, through stale runtimes, restarts and contested writes, are
\* decisions that an approver made (approve, publish, replaceEntries, restore): no
\* approval or revocation is in the file but by the approver who decided it.
THEOREM EntriesWereDecidedHolds == GuestSpec => []EntriesWereDecided
<1>1. DecisionInv => EntriesWereDecided
  BY DEF DecisionInv, FileDecided, Made, EntriesWereDecided
<1>2. QED
  BY <1>1, DecisionInvHolds, PTL

\* A Guest session holds a membership only when some Member approved it under that name,
\* however answers are lost, repeated or overtaken (handleGuestJoin, track).
THEOREM BelievesOnlyApprovedHolds == GuestSpec => []BelievesOnlyApproved
<1>1. DecisionInv => BelievesOnlyApproved
  BY DEF DecisionInv
<1>2. QED
  BY <1>1, DecisionInvHolds, PTL
=============================================================================
