---------------------------- MODULE CrewSession ----------------------------
(* Crew Sessions and role resume: a record on disk binds every Member of a  *)
(* Crew to the Pi session it ran, or to the reason there is none.           *)
(*                                                                          *)
(* Every operation is a process of its own (a run of the bebop CLI) that    *)
(* reads the manifest, the records, the Members' endpoints and the session  *)
(* files one after the other, while Pi sessions join, leave, open and close *)
(* and the manifest is edited between any two of its steps:                 *)
(*   capture   application/crew-session-capture.ts, captureCrewSession      *)
(*   add       the same file, addCrewSessionMember                          *)
(*   resolve   application/crew-session-resolution.ts                       *)
(*   resume    application/role-session-resume.ts and the launch after it   *)
(*   show      application/crew-session-inspection.ts, of one record        *)
(* The store (infra/crew-session-store.ts) locks only its own write: what   *)
(* an operation read before stays its private copy until then.              *)
EXTENDS Naturals, FiniteSets

CONSTANTS Sessions,   \* Pi sessions, each with one file
          Members,    \* the names a manifest may configure
          Config,     \* Config[r]: the Members of revision r of the manifest, with their roles
          Ops,        \* the operations, each run once
          KindsOf,    \* the kinds an operation may be of: "capture", "add", "resolve", "resume", "show"
          TargetOf,   \* the Member an add, a resolve or a resume names
          Ids,        \* records: the captures themselves, and records from before
          RecordOf,   \* the record an operation writes or names
          NameOf,     \* the human name of a record
          Earlier,    \* records that exist at the start: a function from their ids
          MaxMoves,   \* bound on the steps of the surroundings
          None, Elsewhere, Free

ASSUME CrewSessionConstants ==
  /\ MaxMoves \in Nat
  /\ \A r \in DOMAIN Config : DOMAIN Config[r] \subseteq Members
  /\ KindsOf \in [Ops -> SUBSET {"capture", "add", "resolve", "resume", "show"}]
  /\ RecordOf \in [Ops -> Ids]
  /\ TargetOf \in [Ops -> Members]
  /\ DOMAIN Earlier \subseteq Ids
  /\ None \notin Sessions \cup Members /\ Elsewhere \notin Members /\ Free \notin Ops

\* A capture's record is new: createCrewSessionId draws its id at random.
ASSUME CapturesAreNew ==
  \A o \in Ops : "capture" \in KindsOf[o] =>
    /\ RecordOf[o] \notin DOMAIN Earlier
    /\ \A p \in Ops \ {o} : "capture" \in KindsOf[p] => RecordOf[p] # RecordOf[o]

Revs == DOMAIN Config
Gone == 0    \* the revision of a manifest that cannot be read
ASSUME RevsAreNotGone == Gone \notin Revs

VARIABLES
  manifest,   \* the revision on disk
  sess,       \* [Sessions -> ...]: the Pi process, its membership, its file
  store,      \* [Ids -> record or None]
  lock,       \* who holds .capture.lock
  op,         \* [Ops -> the operation's own variables]
  moves,      \* steps the surroundings have taken
  wasJoined   \* history: <<session, Member, role>> that was a live membership
vars == <<manifest, sess, store, lock, op, moves, wasJoined>>

-----------------------------------------------------------------------------
(* What the operations look at *)

\* The latest membership entry of a session file's branch; None: none, or inactive.
Entry(m, role, r) == [as |-> m, role |-> role, rev |-> r]

\* The session that serves a Member's endpoint.
Owners(m) == {s \in Sessions : sess[s].as = m}

\* A Member's line in a record: a link, or the class of its missing reason.
\* "storable" stands for the reasons CrewSessionMissingReasonSchema lists (offline,
\* unavailable, wrong-crew, wrong-member, capture-timeout, missing-session-file, ...);
\* "unstorable" for those captureMember can also return and the schema does not list:
\* not-joined, session-id-mismatch, session-cwd-mismatch.
Linked(s)   == [st |-> "linked", s |-> s]
Missing(c)  == [st |-> c, s |-> None]
Reasons     == {"storable", "unstorable"}
Final(line) == line.st \in {"linked"} \cup Reasons
Lines       == {Linked(s) : s \in Sessions} \cup {Missing(c) : c \in Reasons}

NoRecord == [rev |-> Gone, line |-> [m \in {} |-> None]]
Records  == {NoRecord} \cup
            UNION {[rev : {r}, line : [DOMAIN Config[r] -> Lines]] : r \in Revs}
ASSUME EarlierAreRecords == None \notin Records /\ \A id \in DOMAIN Earlier : Earlier[id] \in Records

\* What a record says of its Members: the session, the Member and its role then.
LinksOf(rec) == {<<rec.line[m].s, m, Config[rec.rev][m]>> :
                   m \in {n \in DOMAIN rec.line : rec.line[n].st = "linked"}}
Start(k) == [kind |-> k, pc |-> "start", rev |-> Gone, rec |-> NoRecord, ask |-> [m \in {} |-> None],
             got |-> None]
Kind(o)  == op[o].kind

Init ==
  /\ manifest \in Revs
  /\ sess \in [Sessions ->
       {[open |-> TRUE, as |-> m, role |-> Config[manifest][m],
         entry |-> Entry(m, Config[manifest][m], manifest), file |-> "here"]
           : m \in DOMAIN Config[manifest]}
       \cup {[open |-> FALSE, as |-> None, role |-> None, entry |-> None, file |-> "here"]}]
  /\ \A m \in Members : Cardinality(Owners(m)) <= 1
  /\ store = [id \in Ids |-> IF id \in DOMAIN Earlier THEN Earlier[id] ELSE None]
  /\ lock = Free
  /\ \E kind \in [Ops -> UNION {KindsOf[o] : o \in Ops}] :
       /\ \A o \in Ops : kind[o] \in KindsOf[o]
       /\ op = [o \in Ops |-> Start(kind[o])]
  /\ moves = 0
  /\ wasJoined = {<<s, sess[s].as, sess[s].role>> : s \in {t \in Sessions : sess[t].as # None}}
                 \cup UNION {LinksOf(Earlier[id]) : id \in DOMAIN Earlier}

-----------------------------------------------------------------------------
(* The surroundings: Pi sessions and the manifest's editor *)

Move == moves < MaxMoves /\ moves' = moves + 1

Become(s, new) == sess' = [sess EXCEPT ![s] = new]

Edit ==
  /\ Move
  /\ \E r \in (Revs \cup {Gone}) \ {manifest} : manifest' = r
  /\ UNCHANGED <<sess, store, lock, op, wasJoined>>

Open(s) ==
  /\ Move /\ ~sess[s].open /\ sess[s].file = "here"
  /\ Become(s, [sess[s] EXCEPT !.open = TRUE])
  /\ UNCHANGED <<manifest, store, lock, op, wasJoined>>

\* A join or a restore takes a Member's endpoint if no live session serves it, under the
\* manifest it reads now; a session may as well join a Member of another Crew.
Takes(s, m) ==
  /\ sess[s].open /\ sess[s].as = None
  /\ \/ m = Elsewhere
     \/ manifest # Gone /\ m \in DOMAIN Config[manifest] /\ Owners(m) = {}
  /\ wasJoined' = wasJoined \cup {<<s, m, IF m = Elsewhere THEN None ELSE Config[manifest][m]>>}

RoleOf(m) == IF m = Elsewhere THEN None ELSE Config[manifest][m]

Join(s, m) ==
  /\ Move /\ Takes(s, m)
  /\ Become(s, [sess[s] EXCEPT !.as = m, !.role = RoleOf(m),
                               !.entry = Entry(m, RoleOf(m), manifest)])
  /\ UNCHANGED <<manifest, store, lock, op>>

\* restorePersistedMembership at session_start: the entry is not written again, so it
\* keeps the role and the fingerprint of the join; when the claim fails the session stays
\* open and unjoined with its entry active.
Restore(s) ==
  /\ Move /\ sess[s].entry # None
  /\ Takes(s, sess[s].entry.as)
  /\ Become(s, [sess[s] EXCEPT !.as = sess[s].entry.as, !.role = RoleOf(sess[s].entry.as)])
  /\ UNCHANGED <<manifest, store, lock, op>>

Leave(s) ==
  /\ Move /\ sess[s].as # None
  /\ Become(s, [sess[s] EXCEPT !.as = None, !.role = None, !.entry = None])
  /\ UNCHANGED <<manifest, store, lock, op, wasJoined>>

\* session_shutdown releases the endpoint and leaves the entry active.
Close(s) ==
  /\ Move /\ sess[s].open
  /\ Become(s, [sess[s] EXCEPT !.open = FALSE, !.as = None, !.role = None])
  /\ UNCHANGED <<manifest, store, lock, op, wasJoined>>

LoseFile(s) ==
  /\ Move /\ ~sess[s].open /\ sess[s].file = "here"
  /\ \E f \in {"gone", "moved"} : Become(s, [sess[s] EXCEPT !.file = f])
  /\ UNCHANGED <<manifest, store, lock, op, wasJoined>>

-----------------------------------------------------------------------------
(* Steps of an operation *)

Set(o, new) == op' = [op EXCEPT ![o] = new]
Goto(o, pc) == Set(o, [op[o] EXCEPT !.pc = pc])
At(o, kinds, pc) == Kind(o) \in kinds /\ op[o].pc = pc
Fails(o, code) == Set(o, [Start(Kind(o)) EXCEPT !.pc = code])
Still == UNCHANGED <<manifest, sess, moves, wasJoined>>
Reads == Still /\ UNCHANGED <<store, lock>>

\* captureCrewSession: a record of that name, listed before anything is locked.
ListNames(o) ==
  /\ At(o, {"capture"}, "start")
  /\ IF \E id \in Ids : store[id] # None /\ NameOf[id] = NameOf[RecordOf[o]]
     THEN Fails(o, "name-collision")
     ELSE Goto(o, "manifest")
  /\ Reads

\* resolveRecord; the other records may be unreadable, this one is not.
ListRecord(o) ==
  /\ At(o, {"resolve", "show"}, "start")
  /\ IF store[RecordOf[o]] = None
     THEN Fails(o, "record-not-found")
     ELSE Set(o, [op[o] EXCEPT !.pc = "manifest", !.rec = store[RecordOf[o]]])
  /\ Reads

\* capture and add read the manifest first and work with that copy to the end.
ReadManifest(o) ==
  /\ \/ At(o, {"capture"}, "manifest")
     \/ At(o, {"add"}, "start")
  /\ \/ manifest = Gone /\ Fails(o, "unavailable")
     \/ /\ manifest # Gone
        /\ Set(o, [op[o] EXCEPT !.pc = IF Kind(o) = "add" THEN "record" ELSE "ask",
                                !.rev = manifest,
                                !.ask = IF Kind(o) = "add" THEN @
                                        ELSE [m \in DOMAIN Config[manifest] |->
                                                [st |-> "locate", s |-> None]]])
  /\ Reads

AddRebinds(o, rec) ==
  Set(o, [op[o] EXCEPT !.pc = "ask", !.rec = rec,
                       !.ask = [m \in {TargetOf[o]} |-> [st |-> "locate", s |-> None]]])

\* addCrewSessionMember up to captureMember: drift, membership and an existing binding.
AddTo(o, rec) ==
  IF rec.rev # op[o].rev THEN Fails(o, "manifest-drift")
  ELSE IF TargetOf[o] \notin DOMAIN Config[op[o].rev] THEN Fails(o, "member-not-configured")
  ELSE IF rec.line[TargetOf[o]].st = "linked" THEN Fails(o, "member-already-bound")
  ELSE Set(o, [op[o] EXCEPT !.pc = "ask", !.rec = rec,
                            !.ask = [m \in {TargetOf[o]} |-> [st |-> "locate", s |-> None]]])

ReadRecord(o) ==
  /\ At(o, {"add"}, "record")
  /\ IF store[RecordOf[o]] = None THEN Fails(o, "record-not-found")
     ELSE AddTo(o, store[RecordOf[o]])
  /\ Reads

-----------------------------------------------------------------------------
(* captureMember, for every Member at once *)

Asked(o, m, line) == Set(o, [op[o] EXCEPT !.ask[m] = line])
Asking(o, m, st) == op[o].pc = "ask" /\ m \in DOMAIN op[o].ask /\ op[o].ask[m].st = st

\* resolveMemberEndpoint: the session the endpoint points to; nobody there is offline.
Locate(o, m) ==
  /\ Asking(o, m, "locate")
  /\ \/ Owners(m) = {} /\ Asked(o, m, Missing("storable"))
     \/ \E s \in Owners(m) : Asked(o, m, [st |-> "at", s |-> s])
  /\ Reads

AttestsName(o, m, s) == sess[s].as = m

\* What the session that was located answers to session_capture, by its state at that
\* moment: it may have left, closed, or taken another endpoint since.
Attests(o, m, s) ==
  /\ sess[s].as = m
  /\ sess[s].role = Config[op[o].rev][m]

Evidence(o, m, s) ==
  IF ~sess[s].open THEN Missing("storable")              \* offline
  ELSE IF sess[s].as = None THEN Missing("unstorable")   \* not-joined
  ELSE IF ~Attests(o, m, s) THEN Missing("storable")     \* wrong-crew, wrong-member
  ELSE [st |-> "check", s |-> s]

Answer(o, m) ==
  /\ Asking(o, m, "at")
  /\ Asked(o, m, Evidence(o, m, op[o].ask[m].s))
  /\ Reads

\* validateSessionFileEvidence on the file the session named.
Check(o, m) ==
  /\ Asking(o, m, "check")
  /\ \/ /\ sess[op[o].ask[m].s].file = "here"
        /\ Asked(o, m, Linked(op[o].ask[m].s))
     \/ /\ sess[op[o].ask[m].s].file # "here"
        /\ Asked(o, m, Missing("storable"))
     \/ Asked(o, m, Missing("unstorable"))               \* the header differs
  /\ Reads

\* The Member's own 3 s, the end of the window of 10 s for all of them or the caller's
\* cancellation (createCaptureWindow: Members being validated still finish), a broken
\* connection, an untrusted project, a session that is not persisted.
AskFails(o, m) ==
  /\ Asking(o, m, "locate") \/ Asking(o, m, "at")
  /\ Asked(o, m, Missing("storable"))
  /\ Reads

AllAsked(o) == op[o].pc = "ask" /\ \A m \in DOMAIN op[o].ask : Final(op[o].ask[m])
NoneLinked(o) == \A m \in DOMAIN op[o].ask : op[o].ask[m].st # "linked"

\* The record as the operation will write it: a new one, or its copy with one line filled.
Record(o) ==
  IF Kind(o) = "capture" THEN [rev |-> op[o].rev, line |-> op[o].ask]
  ELSE [op[o].rec EXCEPT !.line[TargetOf[o]] = op[o].ask[TargetOf[o]]]

MayWrite(o) == ~NoneLinked(o)

Conclude(o) ==
  /\ AllAsked(o)
  /\ IF MayWrite(o) THEN Set(o, [op[o] EXCEPT !.pc = "store", !.rec = Record(o)])
     ELSE Fails(o, IF Kind(o) = "capture" THEN "capture-empty" ELSE "unavailable")
  /\ Reads

-----------------------------------------------------------------------------
(* store.write *)

\* isCrewSessionRecord refuses a line whose reason the schema does not list.
Storable(rec) == \A m \in DOMAIN rec.line : rec.line[m].st # "unstorable"

LockIsHeld == lock # Free    \* open with O_EXCL

Acquire(o) ==
  /\ op[o].pc = "store"
  /\ IF ~Storable(op[o].rec) THEN Fails(o, "invalid-record") /\ UNCHANGED lock
     ELSE IF LockIsHeld THEN Fails(o, "storage-busy") /\ UNCHANGED lock
     ELSE lock' = o /\ Goto(o, "write")
  /\ Still /\ UNCHANGED store

\* writeAtomic: staged beside the records and renamed over the old one.
Write(o) ==
  /\ op[o].pc = "write"
  /\ store' = [store EXCEPT ![RecordOf[o]] = op[o].rec]
  /\ Goto(o, "release")
  /\ Still /\ UNCHANGED lock

WriteFails(o) ==
  /\ op[o].pc = "write"
  /\ Goto(o, "release-failed")
  /\ Reads

Release(o) ==
  /\ op[o].pc \in {"release", "release-failed"}
  /\ lock' = Free
  /\ IF op[o].pc = "release"
     THEN Set(o, [Start(Kind(o)) EXCEPT !.pc = "done", !.ask = op[o].ask])
     ELSE Fails(o, "storage-failed")
  /\ Still /\ UNCHANGED store

\* The CLI is killed; nothing removes the lock file it holds.
Die(o) ==
  /\ op[o].pc \in {"ask", "store", "write", "release", "release-failed"}
  /\ Fails(o, "dead")
  /\ Reads

-----------------------------------------------------------------------------
(* resolve and resume *)

\* Mutant of Drifts: only a manifest that cannot be read.
DriftsUnread(o) == manifest = Gone
Drifts(o) == manifest # op[o].rec.rev    \* also when it cannot be read

\* resolveCrewSessionMember on its copy of the record and the manifest as it is now.
ResolveManifest(o) ==
  /\ At(o, {"resolve"}, "manifest")
  /\ LET rec == op[o].rec  m == TargetOf[o] IN
       IF manifest = Gone THEN Fails(o, "manifest-missing")
       ELSE IF Drifts(o) THEN Fails(o, "manifest-drift")
       ELSE IF m \notin DOMAIN rec.line THEN Fails(o, "member-not-configured")
       ELSE IF rec.line[m].st # "linked" THEN Fails(o, "member-not-captured")
       ELSE Set(o, [op[o] EXCEPT !.pc = "access", !.rev = manifest, !.got = rec.line[m].s])
  /\ Reads

\* recoverMovedSessionFile looks for the session's id in its root, and only reports it.
WhyAway(s) == IF sess[s].file = "moved" THEN "session-file-moved" ELSE "missing-session-file"

Access(o) ==
  /\ op[o].pc = "access"
  /\ IF sess[op[o].got].file = "here" THEN Goto(o, "inspect")
     ELSE Fails(o, WhyAway(op[o].got))
  /\ Reads

\* resolveExpected: the one manifest of the project and the Member of the role.
HasRole(o) == TargetOf[o] \in DOMAIN Config[manifest]

\* Once before the picker and again for the session it chose.
ResumeManifest(o) ==
  /\ At(o, {"resume"}, "start") \/ At(o, {"resume"}, "again")
  /\ IF manifest = Gone THEN Fails(o, "missing-manifest")
     ELSE IF ~HasRole(o) THEN Fails(o, "unknown-role")
     ELSE Set(o, [op[o] EXCEPT !.pc = IF @ = "start" THEN "pick" ELSE "inspect",
                               !.rev = manifest])
  /\ Reads

\* resolve compares the entry's manifest and socket; resume also the role and fingerprint.
Attributed(o, e) ==
  /\ e # None
  /\ e.as = TargetOf[o]
  /\ Kind(o) = "resume" => e.rev = op[o].rev /\ e.role = Config[op[o].rev][e.as]

\* inspectSession, for every session Pi knows.
Candidate(o, s) ==
  sess[s].file = "here" /\ Attributed(o, sess[s].entry) /\ Owners(TargetOf[o]) = {}

\* discoverRoleSessionCandidates and the user's choice; nothing to choose ends it.
Pick(o) ==
  /\ At(o, {"resume"}, "pick")
  /\ \/ \E s \in Sessions : /\ Candidate(o, s)
                            /\ Set(o, [op[o] EXCEPT !.pc = "again", !.got = s])
     \/ Fails(o, "empty")
  /\ Reads

Inspect(o) ==
  /\ op[o].pc = "inspect"
  /\ IF sess[op[o].got].file # "here" THEN Fails(o, "malformed-session")
     ELSE IF ~Attributed(o, sess[op[o].got].entry) THEN Fails(o, "membership-drift")
     ELSE Goto(o, "probe")
  /\ Reads

AlreadyOpen(o) == Owners(TargetOf[o]) # {}

Probe(o) ==
  /\ op[o].pc = "probe"
  /\ IF AlreadyOpen(o) THEN Fails(o, "already-open") ELSE Goto(o, "resolved")
  /\ Reads

\* resume starts Pi at once (createPiLauncher); after resolve the user may.
Launch(o) ==
  /\ op[o].pc = "resolved"
  /\ Become(op[o].got, [sess[op[o].got] EXCEPT !.open = TRUE])
  /\ Fails(o, "launched")
  /\ UNCHANGED <<manifest, store, lock, moves, wasJoined>>

-----------------------------------------------------------------------------
(* show, and the line of list for one record *)

\* manifestReason: the manifest is compared once, before the Members are looked at.
ShowManifest(o) ==
  /\ At(o, {"show"}, "manifest")
  /\ IF Drifts(o) THEN Fails(o, "stale")
     ELSE Set(o, [op[o] EXCEPT !.pc = "look", !.rev = manifest,
                               !.ask = [m \in DOMAIN op[o].rec.line |-> Missing("look")]])
  /\ Reads

\* inspectMember: a missing line carries its stored reason, a link that of its file.
Look(o, m) ==
  /\ op[o].pc = "look" /\ m \in DOMAIN op[o].ask /\ op[o].ask[m].st = "look"
  /\ LET line == op[o].rec.line[m] IN
       Asked(o, m, IF line.st # "linked" \/ sess[line.s].file # "here" THEN Missing("reason")
                   ELSE [st |-> "fine", s |-> line.s])
  /\ Reads

\* Any reason makes the record stale, so only one with every link in order is complete.
Shown(o) ==
  /\ op[o].pc = "look" /\ \A m \in DOMAIN op[o].ask : op[o].ask[m].st # "look"
  /\ IF \E m \in DOMAIN op[o].ask : op[o].ask[m].st = "reason" THEN Fails(o, "stale")
     ELSE Goto(o, "complete")
  /\ Reads

-----------------------------------------------------------------------------
Surroundings ==
  \/ Edit
  \/ \E s \in Sessions :
       \/ Open(s) \/ Restore(s) \/ Leave(s) \/ Close(s) \/ LoseFile(s)
       \/ \E m \in Members \cup {Elsewhere} : Join(s, m)

Step(o) ==
  \/ ListNames(o) \/ ListRecord(o) \/ ReadManifest(o) \/ ReadRecord(o)
  \/ \E m \in Members : Locate(o, m) \/ Answer(o, m) \/ Check(o, m) \/ AskFails(o, m)
  \/ Conclude(o)
  \/ Acquire(o) \/ Write(o) \/ WriteFails(o) \/ Release(o) \/ Die(o)
  \/ ResolveManifest(o) \/ Access(o) \/ ResumeManifest(o) \/ Pick(o)
  \/ Inspect(o) \/ Probe(o) \/ Launch(o)
  \/ ShowManifest(o) \/ Shown(o) \/ \E m \in Members : Look(o, m)

Next == Surroundings \/ \E o \in Ops : Step(o)
Spec == Init /\ [][Next]_vars

-----------------------------------------------------------------------------
(* Properties *)

\* Types; and only the operation at its write, or one that died there, holds the lock.
CrewSessionTypeOK ==
  /\ manifest \in Revs \cup {Gone}
  /\ \A s \in Sessions : /\ sess[s].as \in Members \cup {None, Elsewhere}
                         /\ sess[s].as # None => sess[s].open
                         /\ sess[s].file \in {"here", "gone", "moved"}
  /\ \A id \in Ids : store[id] # None => store[id] \in Records /\ Storable(store[id])
  /\ lock # Free => op[lock].pc \in {"write", "release", "release-failed", "dead"}
  /\ \A o \in Ops : op[o].pc \in {"write", "release", "release-failed"} => lock = o

\* A link of a record is a session that was joined as exactly that Member, in the role the
\* record's manifest gives it: an endpoint that changes hands between the moment it is
\* located and the moment it answers never gives a Member another one's session.
LinkWasJoined == \A id \in Ids : store[id] # None => LinksOf(store[id]) \subseteq wasJoined

\* What a capture said is what there is: after it reported its record, every link it
\* reported is still in it, whatever adds ran since and however they overlapped; a capture
\* that reported a failure left no record behind.
CaptureIsTruth ==
  \A o \in Ops : Kind(o) = "capture" =>
    /\ op[o].pc = "done" =>
         /\ store[RecordOf[o]] # None
         /\ ~NoneLinked(o)
         /\ \A m \in DOMAIN op[o].ask :
              op[o].ask[m].st = "linked" => store[RecordOf[o]].line[m] = op[o].ask[m]
    /\ op[o].pc \in {"name-collision", "capture-empty", "invalid-record", "storage-busy",
                     "storage-failed", "unavailable"}
         => store[RecordOf[o]] = None

\* A session is handed out for a Member only if it once served that very Member in the
\* role the manifest gives it now: not one that another Member ran, or that ran the Member
\* under a revision that gave it another role, however the manifest, the records and the
\* endpoints changed between the steps that read them.  It need not be closed: one that is
\* open and serves nobody, after a restore that failed, is handed out as well.
ResolvedIsTheMembers ==
  \A o \in Ops : op[o].pc = "resolved" =>
    <<op[o].got, TargetOf[o], Config[op[o].rev][TargetOf[o]]>> \in wasJoined

=============================================================================
