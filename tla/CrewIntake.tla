------------------------------ MODULE CrewIntake ------------------------------
(***************************************************************************)
(* The Crew's intake: text files that anyone drops into intake/new become  *)
(* Inbox items of the configured contact.  Every joined session scans the  *)
(* directory, under one lock file; a scan claims a file by renaming it,    *)
(* writes the commit intent that fixes the recipient, enqueues under the   *)
(* key of name and content, writes the receipt and moves the file.         *)
(*                                                                         *)
(* A look at a path and the rename or the write that relies on it are two  *)
(* awaits, hence two actions, and a rename replaces what is there.  Files  *)
(* arrive, the manifest's contact changes, a session's process ends, loses *)
(* its membership or meets a storage error between any two of them.        *)
(***************************************************************************)
EXTENDS Naturals, FiniteSets

CONSTANTS Procs,      \* sessions that joined the Crew
          Members,    \* Members of the manifest; each has an Inbox
          Names,      \* file names, numbers in the order the scan takes them
          Texts,      \* contents that make a valid payload
          Junk,       \* contents that do not: not UTF-8, empty, NUL, too long
          None,       \* no file, contact, intent, receipt, claim or lock
          Contact,    \* the process of a bebop contact
          Dead,       \* the lock file of a process that has ended
          MaxDrops,   \* bound: files that writers publish
          MaxPerScan, \* files that fit a scan's bytes (MAX_CREW_INTAKE_SCAN_BYTES)
          MaxTrouble  \* bound: crashes, edits of the manifest, storage errors and changes
                      \* of membership under a scan

ASSUME IntakeAssumption ==
  /\ Names \subseteq Nat /\ IsFiniteSet(Names)
  /\ Texts \cap Junk = {} /\ None \notin Texts \cup Junk \cup Members \cup Procs
  /\ Dead \notin Procs \cup {None} /\ Contact \notin Procs \cup {None, Dead}
  /\ MaxPerScan \in Nat \ {0}
  /\ MaxDrops \in Nat /\ MaxTrouble \in Nat

VARIABLES
  box,        \* new, claimed, processed, failed: the content under each name
  contact,    \* intake.contact of the manifest
  lockFile,   \* who wrote .scan.lock
  intent,     \* commits/<key>: the recipient
  receipts,   \* receipts/<key>: who wrote it
  scan,       \* the scan of each process
  caller,     \* bebop contact: where it is, and what it publishes
  sent,       \* history: keys published
  enqueued,   \* history: <<member, key>> ever enqueued
  robbed,     \* history: the lock of a living process has been deleted by another one
  raced,      \* history: keys published while a claim of the name was being put back
  drops, trouble

store == <<intent, receipts, enqueued>>
publications == <<sent, raced>>
counters == <<drops, trouble>>
intakeVars == <<box, contact, lockFile, store, scan, caller, publications, robbed, counters>>

Contents == Texts \cup Junk
Keys == Names \X Contents     \* createCrewIntakeIdempotencyKey: a hash of both
Dirs == {"new", "claimed", "processed", "failed"}

\* A scan between two files.
Between(step, seen, work, stale, taken) ==
  [at |-> step, seen |-> seen, work |-> work, name |-> None, text |-> None, to |-> None,
   had |-> None, stale |-> stale, again |-> FALSE, taken |-> taken]

NoScan == Between("idle", None, {}, FALSE, 0)
NoCall == [at |-> "idle", key |-> None]

IntakeInit ==
  /\ box = [d \in Dirs |-> [n \in Names |-> None]]
  /\ contact \in Members
  /\ lockFile = None
  /\ intent = [k \in Keys |-> None] /\ receipts = [k \in Keys |-> None] /\ enqueued = {}
  /\ scan = [p \in Procs |-> NoScan]
  /\ caller = NoCall
  /\ sent = {} /\ raced = {} /\ robbed = FALSE
  /\ drops = 0 /\ trouble = 0

Dropped == drops < MaxDrops /\ drops' = drops + 1 /\ UNCHANGED trouble
Troubled == trouble < MaxTrouble /\ trouble' = trouble + 1 /\ UNCHANGED drops

\* rename(2), which replaces a file at its destination.
MoveFile(n, from, to) == box' = [box EXCEPT ![to][n] = box[from][n], ![from][n] = None]

Key(p) == <<scan[p].name, scan[p].text>>
At(p, step) == scan[p].at = step
Goto(p, step) == scan' = [scan EXCEPT ![p].at = step]

\* On to the next file, or to the end of the scan.
Leave(p, step) ==
  scan' = [scan EXCEPT ![p] = Between(step, scan[p].seen, IF step = "unlock" THEN {} ELSE scan[p].work,
                                      scan[p].stale, scan[p].taken)]

\* A claim that cannot be finished now is put back; that ends the scan.
GiveUp(p) == Goto(p, "putback")

\* Only the scan's own record changes.
Looks == UNCHANGED <<box, contact, lockFile, store, caller, publications, robbed, counters>>

\* exists(destination), before the rename at the step that follows.
Exists(p, dir) == box[dir][scan[p].name] # None

\* The rename of moveNoReplace, claim and release: the claim may be gone.
Moved(p, from, to) == box[from][scan[p].name] # None /\ MoveFile(scan[p].name, from, to)
Gone(p, from) == box[from][scan[p].name] = None /\ UNCHANGED box
MoveOnly == UNCHANGED <<contact, lockFile, store, caller, publications, robbed, counters>>

-----------------------------------------------------------------------------
(* Writers and the manifest.                                                *)

PutBackOf(n) == \E p \in Procs : At(p, "restore") /\ scan[p].name = n

Arrive(n, c) ==
  /\ box["new"][n] = None
  /\ box' = [box EXCEPT !["new"][n] = c]
  /\ sent' = sent \cup {<<n, c>>}
  /\ raced' = IF PutBackOf(n) THEN raced \cup {<<n, c>>} ELSE raced \ {<<n, c>>}

\* A writer renames a finished file into new/.
Drop(n, c) ==
  /\ Dropped /\ Arrive(n, c)
  /\ UNCHANGED <<contact, lockFile, store, scan, caller, robbed>>

EditManifest(m) ==
  /\ m # contact
  /\ Troubled
  /\ contact' = m
  /\ UNCHANGED <<box, lockFile, store, scan, caller, publications, robbed>>

-----------------------------------------------------------------------------
(* The lock file.                                                           *)

\* unlink by name, whoever has written the file since it was looked at.
Unlink(by) ==
  /\ lockFile' = None
  /\ robbed' = (robbed \/ lockFile \notin {None, Dead, by})

LockStep == UNCHANGED <<box, contact, store, publications, counters>>

\* O_EXCL, or the owner's pid is gone, or another scan is active.
Lock(p) ==
  /\ At(p, "lock")
  /\ \/ lockFile = None /\ lockFile' = p /\ Goto(p, "list")
     \/ lockFile = Dead /\ UNCHANGED lockFile /\ Goto(p, "unlink")
     \/ lockFile \in Procs \cup {Contact} /\ UNCHANGED lockFile /\ scan' = [scan EXCEPT ![p] = NoScan]
  /\ LockStep /\ UNCHANGED <<caller, robbed>>

UnlinkStale(p) ==
  /\ At(p, "unlink")
  /\ Unlink(p)
  /\ IF lockFile = None THEN scan' = [scan EXCEPT ![p] = NoScan] ELSE Goto(p, "relock")
  /\ LockStep /\ UNCHANGED caller

Relock(p) ==
  /\ At(p, "relock")
  /\ \/ lockFile = None /\ lockFile' = p /\ Goto(p, "list")
     \/ lockFile # None /\ UNCHANGED lockFile /\ scan' = [scan EXCEPT ![p] = NoScan]
  /\ LockStep /\ UNCHANGED <<caller, robbed>>

ReleaseScan(p) ==
  /\ At(p, "unlock")
  /\ Unlink(p)
  /\ scan' = [scan EXCEPT ![p] = NoScan]
  /\ LockStep /\ UNCHANGED caller

-----------------------------------------------------------------------------
(* bebop contact: publish, under the same lock.                             *)

CallTo(step) == caller' = [caller EXCEPT !.at = step]

StartCall(n, c) ==
  /\ caller = NoCall
  /\ Dropped
  /\ caller' = [at |-> "lock", key |-> <<n, c>>]
  /\ UNCHANGED <<box, contact, lockFile, store, scan, publications, robbed>>

\* acquirePublicationLock: it waits for a living owner, and gives up in the end.
CallLock ==
  /\ caller.at = "lock"
  /\ \/ lockFile = None /\ lockFile' = Contact /\ CallTo("look")
     \/ lockFile = Dead /\ UNCHANGED lockFile /\ CallTo("unlink")
     \/ lockFile \in Procs /\ UNCHANGED lockFile /\ caller' = NoCall
  /\ LockStep /\ UNCHANGED <<scan, robbed>>

CallUnlink ==
  /\ caller.at = "unlink"
  /\ Unlink(Contact) /\ CallTo("lock")
  /\ LockStep /\ UNCHANGED scan

\* The same text under the same name counts as published already, another one is a
\* conflict.  Its looks at the paths are one: with the lock held only a writer's file can
\* appear between them, and then the link refuses.
CallLook ==
  /\ caller.at = "look"
  /\ LET n == caller.key[1]  c == caller.key[2] IN
     CallTo(IF /\ \A d \in Dirs \ {"failed"} : box[d][n] # c
               /\ box["new"][n] = None /\ box["claimed"][n] = None
            THEN "link" ELSE "unlock")
  /\ UNCHANGED <<box, contact, lockFile, store, scan, publications, robbed, counters>>

\* link(2) of the draft, which replaces nothing.
CallLink ==
  /\ caller.at = "link" /\ CallTo("unlock")
  /\ \/ Arrive(caller.key[1], caller.key[2])
     \/ box["new"][caller.key[1]] # None /\ UNCHANGED <<box, publications>>
  /\ UNCHANGED <<contact, lockFile, store, scan, robbed, counters>>

CallUnlock ==
  /\ caller.at = "unlock"
  /\ Unlink(Contact) /\ caller' = NoCall
  /\ LockStep /\ UNCHANGED scan

CallEnds ==
  /\ caller.at \notin {"idle"}
  /\ Troubled
  /\ caller' = NoCall
  /\ lockFile' = IF lockFile = Contact THEN Dead ELSE lockFile
  /\ UNCHANGED <<box, contact, store, scan, publications, robbed>>

-----------------------------------------------------------------------------
(* Sessions and their scans.                                                *)

\* The process ends; its lock file and its claim stay.
EndScanner(p) ==
  /\ scan[p].at \notin {"down", "idle"}
  /\ Troubled
  /\ scan' = [scan EXCEPT ![p] = Between("down", None, {}, FALSE, 0)]
  /\ lockFile' = IF lockFile = p THEN Dead ELSE lockFile
  /\ UNCHANGED <<box, contact, store, caller, publications, robbed>>

Restart(p) == At(p, "down") /\ Goto(p, "idle") /\ Looks

\* syncMembership, invalidate: the generation of a running scan is over.
Resync(p) ==
  /\ scan[p].at \notin {"down", "idle", "unlock"} /\ ~scan[p].stale
  /\ Troubled
  /\ scan' = [scan EXCEPT ![p].stale = TRUE]
  /\ UNCHANGED <<box, contact, lockFile, store, caller, publications, robbed>>

\* ensureActive, at an event of the watcher, a join, or the end of a turn: it loads the
\* manifest afresh.
StartScan(p) ==
  /\ At(p, "idle")
  /\ scan' = [scan EXCEPT ![p] = Between("lock", contact, {}, FALSE, 0)]
  /\ Looks

List(p) ==
  /\ At(p, "list")
  /\ scan' = [scan EXCEPT ![p].at = "next", ![p].work =
       {w \in Names \X {"new", "claimed"} : box[w[2]][w[1]] # None}]
  /\ Looks

\* claim of the first file left: a claim of an earlier scan is taken over; a file that is
\* gone, or has a claim of its name in its way (claim-conflict), is passed over.
Claim(p, w) ==
  /\ At(p, "next") /\ w \in scan[p].work
  /\ \A v \in scan[p].work : w[1] <= v[1]
  /\ ~scan[p].stale
  /\ LET skip == w[2] = "new" /\ (box["new"][w[1]] = None \/ box["claimed"][w[1]] # None) IN
     scan' = [scan EXCEPT ![p].work = @ \ {w}, ![p].name = IF skip THEN None ELSE w[1],
                ![p].at = IF skip THEN "next" ELSE IF w[2] = "new" THEN "claiming" ELSE "read"]
  /\ Looks

RenameClaim(p) ==
  /\ At(p, "claiming")
  /\ \/ Moved(p, "new", "claimed") /\ Goto(p, "read")
     \/ Gone(p, "new") /\ Leave(p, "next")
  /\ MoveOnly

\* Nothing left, or the generation has changed.
EndScan(p) ==
  /\ At(p, "next") /\ (scan[p].work = {} \/ scan[p].stale)
  /\ Leave(p, "unlock")
  /\ Looks

\* read: the claim is gone, its content is wrong, or the scan's bytes are used up; then a
\* failure to put it back is met by putting it back once more.
Read(p) ==
  /\ At(p, "read")
  /\ LET c == box["claimed"][scan[p].name] IN
     \/ c = None /\ GiveUp(p)
     \/ c \in Junk /\ scan' = [scan EXCEPT ![p].at = "reject", ![p].text = c]
     \/ /\ c \in Texts /\ scan[p].taken = MaxPerScan
        /\ scan' = [scan EXCEPT ![p].at = "putback", ![p].again = TRUE]
     \/ /\ c \in Texts /\ scan[p].taken < MaxPerScan
        /\ scan' = [scan EXCEPT ![p].at = "evidence", ![p].text = c, ![p].taken = @ + 1]
  /\ Looks

\* moveFailed; when it fails the claim stays.
Reject(p) ==
  /\ At(p, "reject")
  /\ IF Exists(p, "failed") THEN Leave(p, "unlock") ELSE Goto(p, "refuse")
  /\ Looks

RenameFailed(p) ==
  /\ At(p, "refuse")
  /\ \/ Moved(p, "claimed", "failed") /\ Leave(p, "next")
     \/ Gone(p, "claimed") /\ Leave(p, "unlock")
  /\ MoveOnly

ReadReceipt(p) ==
  /\ At(p, "evidence")
  /\ scan' = [scan EXCEPT ![p].had = receipts[Key(p)], ![p].at = "recall"]
  /\ Looks

\* Mutant of Recall: a retry forgets the recipient the intent fixed.
RecallAnew(p, to) ==
  scan' = [scan EXCEPT ![p].to = scan[p].seen,
             ![p].at = IF scan[p].had # None THEN "receipt" ELSE IF to # None THEN "check" ELSE "intent"]

\* Mutant of Recall: an intent counts as proof that the item was persisted.
RecallTrusting(p, to) ==
  scan' = [scan EXCEPT ![p].to = to, ![p].at = IF to # None THEN "receipt" ELSE "intent"]

\* With a receipt only the move is left; with an intent the recipient is fixed.
Recall(p, to) ==
  scan' = [scan EXCEPT ![p].to = to,
             ![p].at = IF scan[p].had # None THEN "receipt" ELSE IF to # None THEN "check" ELSE "intent"]

ReadIntent(p) == At(p, "recall") /\ Recall(p, intent[Key(p)]) /\ Looks

\* writeCommitIntent: one written meanwhile differs, at least in its time.
LookForIntent(p) ==
  /\ At(p, "intent")
  /\ IF intent[Key(p)] # None THEN GiveUp(p) ELSE Goto(p, "commit")
  /\ Looks

WriteIntent(p) ==
  /\ At(p, "commit")
  /\ intent' = [intent EXCEPT ![Key(p)] = scan[p].seen]
  /\ scan' = [scan EXCEPT ![p].at = "check", ![p].to = scan[p].seen]
  /\ UNCHANGED <<box, contact, lockFile, receipts, enqueued, caller, publications, robbed, counters>>

\* isGenerationCurrent: the membership and the manifest are those of the scan's start.
IsCurrent(p) == ~scan[p].stale /\ contact = scan[p].seen

\* Before submitExternalIntake and again as its beforeEnqueue, with the same end.
Check(p) ==
  /\ At(p, "check")
  /\ IF IsCurrent(p) THEN Goto(p, "enqueue") ELSE GiveUp(p)
  /\ Looks

\* submitExternalIntake, for the recipient of the intent; enqueueWithId adds nothing when
\* the id is pending.
Enqueue(p) ==
  /\ At(p, "enqueue")
  /\ enqueued' = enqueued \cup {<<scan[p].to, Key(p)>>}
  /\ Goto(p, "receipt")
  /\ UNCHANGED <<box, contact, lockFile, intent, receipts, caller, publications, robbed, counters>>

\* writeReceipt: the one read before is no conflict, another one differs in its time.
LookForReceipt(p) ==
  /\ At(p, "receipt")
  /\ IF receipts[Key(p)] = None THEN Goto(p, "record")
     ELSE IF receipts[Key(p)] = scan[p].had THEN Goto(p, "recheck") ELSE GiveUp(p)
  /\ Looks

WriteReceipt(p) ==
  /\ At(p, "record")
  /\ receipts' = [receipts EXCEPT ![Key(p)] = p]
  /\ Goto(p, "recheck")
  /\ UNCHANGED <<box, contact, lockFile, intent, enqueued, caller, publications, robbed, counters>>

Recheck(p) ==
  /\ At(p, "recheck")
  /\ IF IsCurrent(p) THEN Goto(p, "move") ELSE GiveUp(p)
  /\ Looks

\* moveProcessed.
MoveProcessed(p) ==
  /\ At(p, "move")
  /\ IF Exists(p, "processed") THEN GiveUp(p) ELSE Goto(p, "file")
  /\ Looks

RenameProcessed(p) ==
  /\ At(p, "file")
  /\ \/ Moved(p, "claimed", "processed") /\ Leave(p, "next")
     \/ Gone(p, "claimed") /\ GiveUp(p)
  /\ MoveOnly

\* release failed: once more after the scan's bytes were used up, else it is left.
NotPutBack(p) ==
  IF scan[p].again THEN scan' = [scan EXCEPT ![p].at = "putback", ![p].again = FALSE]
  ELSE Leave(p, "unlock")

\* Mutant of MayPutBack: nobody looks whether a file has arrived under the name.
MayPutBackBlindly(p) == TRUE

MayPutBack(p) == ~Exists(p, "new")

PutBack(p) ==
  /\ At(p, "putback")
  /\ IF MayPutBack(p) THEN Goto(p, "restore") ELSE NotPutBack(p)
  /\ Looks

\* The rename of release, over whatever has arrived since the look.
RenameBack(p) ==
  /\ At(p, "restore")
  /\ \/ Moved(p, "claimed", "new") /\ Leave(p, "unlock")
     \/ Gone(p, "claimed") /\ NotPutBack(p)
  /\ MoveOnly

\* A storage error, a full Inbox, or a directory that was replaced.
StorageError(p) ==
  /\ scan[p].at \in {"evidence", "recall", "intent", "commit", "check", "enqueue", "receipt",
                     "record", "move", "file"}
  /\ Troubled
  /\ GiveUp(p)
  /\ UNCHANGED <<box, contact, lockFile, store, caller, publications, robbed>>

-----------------------------------------------------------------------------
LockSteps(p) == Lock(p) \/ UnlinkStale(p) \/ Relock(p) \/ ReleaseScan(p)

ClaimSteps(p) ==
  \/ List(p) \/ EndScan(p) \/ Read(p) \/ RenameClaim(p)
  \/ \E w \in Names \X {"new", "claimed"} : Claim(p, w)

CommitSteps(p) ==
  \/ ReadReceipt(p) \/ ReadIntent(p) \/ LookForIntent(p) \/ WriteIntent(p)
  \/ Check(p) \/ Enqueue(p) \/ LookForReceipt(p) \/ WriteReceipt(p) \/ Recheck(p)

MoveSteps(p) ==
  \/ MoveProcessed(p) \/ RenameProcessed(p) \/ Reject(p) \/ RenameFailed(p)
  \/ PutBack(p) \/ RenameBack(p)

CallSteps ==
  \/ \E n \in Names, c \in Texts : StartCall(n, c)
  \/ CallLock \/ CallUnlink \/ CallLook \/ CallLink \/ CallUnlock \/ CallEnds

IntakeNext ==
  \/ \E n \in Names, c \in Contents : Drop(n, c)
  \/ CallSteps
  \/ \E m \in Members : EditManifest(m)
  \/ \E p \in Procs : EndScanner(p) \/ Restart(p) \/ Resync(p) \/ StorageError(p)
  \/ \E p \in Procs : StartScan(p) \/ LockSteps(p) \/ ClaimSteps(p) \/ CommitSteps(p) \/ MoveSteps(p)

IntakeSpec == IntakeInit /\ [][IntakeNext]_intakeVars

-----------------------------------------------------------------------------
(* What must hold.                                                          *)

\* The steps at which a scan, or a bebop contact, takes the lock for its own.
ScanWorks == {"list", "next", "claiming", "read", "reject", "refuse", "evidence", "recall",
              "intent", "commit", "check", "enqueue", "receipt", "record", "recheck", "move",
              "file", "putback", "restore", "unlock"}
CallWorks == {"look", "link", "unlock"}

\* Every variable has its type.
IntakeTypeOK ==
  /\ box \in [Dirs -> [Names -> Contents \cup {None}]]
  /\ contact \in Members /\ lockFile \in Procs \cup {None, Dead, Contact}
  /\ intent \in [Keys -> Members \cup {None}] /\ receipts \in [Keys -> Procs \cup {None}]
  /\ enqueued \subseteq Members \X Keys
  /\ scan \in [Procs -> [at : ScanWorks \cup {"idle", "down", "lock", "unlink", "relock"},
        seen : Members \cup {None}, work : SUBSET (Names \X {"new", "claimed"}),
        name : Names \cup {None}, text : Contents \cup {None}, to : Members \cup {None},
        had : Procs \cup {None}, stale : BOOLEAN, again : BOOLEAN, taken : 0..MaxPerScan]]
  /\ caller.at \in CallWorks \cup {"idle", "lock", "unlink"}
  /\ caller.at # "idle" => caller.key \in Keys
  /\ sent \subseteq Keys /\ raced \subseteq sent /\ robbed \in BOOLEAN
  /\ drops \in 0..MaxDrops /\ trouble \in 0..MaxTrouble

\* One file reaches one Member: across crashes, retries and changes of intake.contact, the
\* recipient of the first intent stays the recipient (validateCommitTarget,
\* writeCommitIntent) - as long as nobody's lock was deleted under a running scan.
OneRecipient ==
  ~robbed => \A x, y \in enqueued : x[2] = y[2] => x[1] = y[1]

\* "The source moves to processed/ only after persistence is proven": with the same proviso
\* what lies in processed, and every receipt, was enqueued for the recipient its intent names.
PersistedFirst ==
  ~robbed =>
    /\ \A k \in Keys : receipts[k] # None => <<intent[k], k>> \in enqueued
    /\ \A n \in Names : box["processed"][n] # None =>
                          receipts[<<n, box["processed"][n]>>] # None

\* With the same proviso, a file that was published is always in one of the directories,
\* whatever happens to the scans that move it - unless it was published between the look
\* and the rename with which a claim of its name was put back (release).
NoFileLost ==
  ~robbed => \A k \in sent \ raced : \E d \in Dirs : box[d][k[1]] = k[2]

=============================================================================
