------------------------- MODULE CrewSessionProofs -------------------------
(***************************************************************************)
(* For any sessions, Members, revisions of the manifest, operations and    *)
(* changes around them: the links of a record were memberships, a capture  *)
(* that reported its record can be taken at its word, and a session that   *)
(* is handed out for a Member has served that Member.                      *)
(*                                                                         *)
(* An operation works with copies: of the manifest, of a record, of what a *)
(* session answered or its file says.  Nothing keeps the original as it    *)
(* was.  Upright says what remains true of the copies of one operation,    *)
(* Faithful that no copy of a record has lost a link its capture reported. *)
(***************************************************************************)
EXTENDS CrewSession, TLAPS

-----------------------------------------------------------------------------
(* The shape of the state, and what a step of an operation sets.            *)

OpFields == {"kind", "pc", "rev", "rec", "ask", "got"}
SessFields == {"open", "as", "role", "entry", "file"}

Shapes ==
  /\ DOMAIN op = Ops /\ \A o \in Ops : DOMAIN op[o] = OpFields /\ Kind(o) \in KindsOf[o]
  /\ DOMAIN store = Ids
  /\ DOMAIN sess = Sessions
  /\ \A s \in Sessions : DOMAIN sess[s] = SessFields
  /\ manifest \in Revs \cup {Gone}

Fields(new, kind, pc, rev, rec, ask, got) ==
  /\ DOMAIN new = OpFields
  /\ new.kind = kind /\ new.pc = pc /\ new.rev = rev /\ new.rec = rec
  /\ new.ask = ask /\ new.got = got

Others(o) == DOMAIN op' = Ops /\ \A p \in Ops \ {o} : op'[p] = op[p]

LEMMA Setting ==
  ASSUME Shapes, NEW o \in Ops, NEW new, Set(o, new)
  PROVE  op'[o] = new /\ Others(o)
  BY DEF Shapes, Set, Others

LEMMA Going ==
  ASSUME Shapes, NEW o \in Ops, NEW pc, Goto(o, pc)
  PROVE  /\ Others(o)
         /\ Fields(op'[o], Kind(o), pc, op[o].rev, op[o].rec, op[o].ask, op[o].got)
<1>1. op'[o] = [op[o] EXCEPT !.pc = pc] /\ Others(o)
  BY Setting DEF Goto
<1>2. DOMAIN op[o] = OpFields
  BY DEF Shapes
<1>3. QED
  BY <1>1, <1>2 DEF Fields, OpFields, Kind

LEMMA Failing ==
  ASSUME Shapes, NEW o \in Ops, NEW code, Fails(o, code)
  PROVE  /\ Others(o)
         /\ Fields(op'[o], Kind(o), code, Gone, NoRecord, [m \in {} |-> None], None)
<1>1. op'[o] = [Start(Kind(o)) EXCEPT !.pc = code] /\ Others(o)
  BY Setting DEF Fails
<1>2. QED
  BY <1>1 DEF Fields, OpFields, Start

LEMMA AskedSets ==
  ASSUME Shapes, NEW o \in Ops, NEW m, NEW line, Asked(o, m, line)
  PROVE  /\ Others(o)
         /\ Fields(op'[o], Kind(o), op[o].pc, op[o].rev, op[o].rec,
                   [op[o].ask EXCEPT ![m] = line], op[o].got)
<1>1. op'[o] = [op[o] EXCEPT !.ask[m] = line] /\ Others(o)
  BY Setting DEF Asked
<1>2. DOMAIN op[o] = OpFields
  BY DEF Shapes
<1>3. QED
  BY <1>1, <1>2 DEF Fields, OpFields, Kind

-----------------------------------------------------------------------------
(* Records: what is written in one was joined.                              *)

Good(rec) == rec \in Records /\ LinksOf(rec) \subseteq wasJoined

LEMMA RecordTypes ==
  ASSUME NEW rec \in Records
  PROVE  /\ DOMAIN rec = {"rev", "line"}
         /\ rec.rev = Gone => DOMAIN rec.line = {}
         /\ rec.rev \in Revs => rec.line \in [DOMAIN Config[rec.rev] -> Lines]
         /\ \A m \in DOMAIN rec.line : rec.line[m] \in Lines
         /\ \A m \in DOMAIN rec.line : rec.line[m].st = "linked" => rec.line[m].s \in Sessions
         /\ rec # None
<1>1. \A line \in Lines : line.st = "linked" => line.s \in Sessions
  BY DEF Lines, Linked, Missing, Reasons
<1>2. rec # None
  BY EarlierAreRecords
<1>3. CASE rec = NoRecord
  BY <1>2, <1>3, RevsAreNotGone DEF NoRecord
<1>4. CASE rec # NoRecord
  <2>1. PICK r \in Revs : rec \in [rev : {r}, line : [DOMAIN Config[r] -> Lines]]
    BY <1>4 DEF Records
  <2>2. QED
    BY <1>1, <1>2, <2>1, RevsAreNotGone
<1>5. QED
  BY <1>3, <1>4

LEMMA NoRecordIsGood == Good(NoRecord)
  BY DEF Good, Records, LinksOf, NoRecord

-----------------------------------------------------------------------------
(* The invariant of one operation.                                          *)

\* Lines under way: a session that was located, or one that answered as that Member in
\* that role.
Underway == [st : {"locate", "at", "check", "linked"} \cup Reasons, s : Sessions \cup {None}]
Truthful(o, m, line) ==
  /\ line \in Underway
  /\ line.st \in {"at", "check", "linked"} => line.s \in Sessions
  /\ line.st \in Reasons => line.s = None
  /\ line.st \in {"check", "linked"} =>
       <<line.s, m, Config[op[o].rev][m]>> \in wasJoined

Asks(o) == op[o].pc = "ask" =>
  /\ Kind(o) \in {"capture", "add"} /\ op[o].rev \in Revs
  /\ Kind(o) = "capture" => DOMAIN op[o].ask = DOMAIN Config[op[o].rev]
  /\ Kind(o) = "add" =>
       /\ DOMAIN op[o].ask = {TargetOf[o]} /\ TargetOf[o] \in DOMAIN Config[op[o].rev]
       /\ op[o].rec.rev = op[o].rev /\ op[o].rec.line[TargetOf[o]].st # "linked"
  /\ op[o].ask \in [DOMAIN op[o].ask -> Underway]
  /\ \A m \in DOMAIN op[o].ask : Truthful(o, m, op[o].ask[m])

\* Who works on a record that is there, and who on one that is not there yet.
Works(o) ==
  /\ op[o].pc \in {"store", "write"} => Kind(o) \in {"capture", "add"} /\ op[o].rec # None
  /\ op[o].pc = "record" => Kind(o) = "add" /\ op[o].rev \in Revs
  /\ Kind(o) = "add" /\ op[o].pc \in {"ask", "store", "write"} => store[RecordOf[o]] # None
  /\ Kind(o) = "capture" =>
       /\ op[o].pc \notin {"release", "done", "dead"} => store[RecordOf[o]] = None
       /\ op[o].pc \in {"store", "write", "release", "done"} => ~NoneLinked(o)
       /\ op[o].pc \in {"store", "write"} => op[o].rec.line = op[o].ask

\* The session an operation has settled on: a link of the record says so, or the entry
\* of the session's file, once that has been read.
Served(o) == <<op[o].got, TargetOf[o], Config[op[o].rev][TargetOf[o]]>> \in wasJoined
Handed(o) ==
  /\ op[o].pc \in {"access", "again", "inspect", "probe", "resolved"} => op[o].got \in Sessions
  /\ op[o].pc = "access" => Kind(o) = "resolve"
  /\ op[o].pc = "inspect" => Kind(o) \in {"resolve", "resume"}
  /\ op[o].pc \in {"access", "inspect"} /\ Kind(o) = "resolve" => Served(o)
  /\ op[o].pc \in {"probe", "resolved"} => Served(o)

Upright(o) == Good(op[o].rec) /\ Asks(o) /\ Works(o) /\ Handed(o)

-----------------------------------------------------------------------------
(* The invariant of all.                                                    *)

\* Neither a live membership nor what a session's file keeps of one is made up.
JoinedNow ==
  \A s \in Sessions :
    /\ sess[s].as # None => <<s, sess[s].as, sess[s].role>> \in wasJoined
    /\ sess[s].entry # None => <<s, sess[s].entry.as, sess[s].entry.role>> \in wasJoined

StoreGood == \A id \in Ids : store[id] # None => Good(store[id])

\* No copy of a record that an add works on, and not the record itself, has lost or
\* changed a link that its capture reported.
Keeps(ask, rec) ==
  \A m \in DOMAIN ask : ask[m].st = "linked" => m \in DOMAIN rec.line /\ rec.line[m] = ask[m]
Carries(a, id) ==
  Kind(a) = "add" /\ RecordOf[a] = id /\ op[a].pc \in {"ask", "store", "write"}
Written(o) == Kind(o) = "capture" /\ op[o].pc \in {"release", "done"}
Faithful == \A o \in Ops : Written(o) =>
  /\ store[RecordOf[o]] # None
  /\ Keeps(op[o].ask, store[RecordOf[o]])
  /\ \A a \in Ops : Carries(a, RecordOf[o]) => Keeps(op[o].ask, op[a].rec)

IInv == /\ Shapes /\ JoinedNow /\ StoreGood /\ Faithful
        /\ \A o \in Ops : Upright(o)

-----------------------------------------------------------------------------
(* What every step keeps.                                                   *)

\* An operation that does not move, while others write and join.
LEMMA UprightKept ==
  ASSUME Shapes, NEW p \in Ops, Upright(p), op'[p] = op[p], wasJoined \subseteq wasJoined',
         RecordOf[p] \in Ids,
         store[RecordOf[p]] # None => store'[RecordOf[p]] # None,
         \/ store'[RecordOf[p]] = store[RecordOf[p]]
         \/ Kind(p) # "capture" \/ op[p].pc \in {"release", "done", "dead"}
  PROVE  Upright(p)'
<1>1. Good(op[p].rec)'
  BY DEF Upright, Good
<1>2. Asks(p)'
  BY DEF Upright, Asks, Truthful, Kind
<1>3. Works(p)'
  BY DEF Upright, Works, Kind, NoneLinked
<1>4. Handed(p)'
  BY DEF Upright, Handed, Served, Kind
<1>5. QED
  BY <1>1, <1>2, <1>3, <1>4 DEF Upright

\* What a step of an operation does to itself: unless it writes, it reports no record
\* that it did not report before, and takes up only copies that have every link.
Effect(o) ==
  /\ Others(o) /\ DOMAIN op'[o] = OpFields /\ op'[o].kind = Kind(o)
  /\ Upright(o)'
  /\ Written(o)' => Written(o) /\ op'[o].ask = op[o].ask
  /\ Carries(o, RecordOf[o])' =>
       \A c \in Ops : Written(c) /\ RecordOf[c] = RecordOf[o] => Keeps(op[c].ask, op'[o].rec)

Rejoined ==
  /\ DOMAIN sess' = Sessions /\ wasJoined \subseteq wasJoined'
  /\ \A s \in Sessions : DOMAIN sess'[s] = SessFields

LEMMA EffectKeeps ==
  ASSUME IInv, NEW o \in Ops, Effect(o), UNCHANGED <<manifest, store>>, Rejoined, JoinedNow'
  PROVE  IInv'
<1>1. Shapes'
  BY DEF IInv, Shapes, Effect, Others, Rejoined, Kind
<1>2. StoreGood'
  BY DEF IInv, StoreGood, Good, Rejoined
<1>3. ASSUME NEW p \in Ops PROVE Upright(p)'
  <2>1. CASE p = o
    BY <2>1 DEF Effect
  <2>2. CASE p # o
    <3>1. op'[p] = op[p] /\ Shapes /\ Upright(p) /\ RecordOf[p] \in Ids
      BY <2>2, CrewSessionConstants DEF IInv, Effect, Others
    <3>2. QED
      BY <3>1, UprightKept DEF Rejoined
  <2>3. QED
    BY <2>1, <2>2
<1>4. Faithful'
  <2>1. ASSUME NEW c \in Ops, Written(c)'
        PROVE  Written(c) /\ op'[c].ask = op[c].ask
    BY <2>1 DEF Effect, Others, Written, Kind
  <2>2. ASSUME NEW c \in Ops, Written(c), NEW a \in Ops, Carries(a, RecordOf[c])'
        PROVE  Keeps(op[c].ask, op'[a].rec)
    <3>1. CASE a = o
      BY <2>2, <3>1 DEF Effect, Carries
    <3>2. CASE a # o
      BY <2>2, <3>2 DEF IInv, Faithful, Effect, Others, Carries, Kind
    <3>3. QED
      BY <3>1, <3>2
  <2>3. QED
    BY <2>1, <2>2 DEF IInv, Faithful, Keeps
<1>5. QED
  BY <1>1, <1>2, <1>3, <1>4 DEF IInv

LEMMA StillEffectKeeps ==
  ASSUME IInv, NEW o \in Ops, Effect(o), Reads
  PROVE  IInv'
<1>1. JoinedNow' /\ Rejoined
  BY DEF IInv, Shapes, JoinedNow, Rejoined, Reads, Still
<1>2. QED
  BY <1>1, EffectKeeps DEF Reads, Still

-----------------------------------------------------------------------------
(* An operation that ends.                                                  *)

Live == {"ask", "store", "write", "release", "done", "record", "access", "again", "inspect",
         "probe", "resolved"}

Over(o) == \E code : /\ code \notin Live /\ Fails(o, code)
                     /\ op[o].pc \in {"release", "done", "dead"} => code = "dead"

LEMMA OverEffect ==
  ASSUME Shapes, NEW o \in Ops, Upright(o), Over(o), UNCHANGED store
  PROVE  Effect(o)
<1>1. PICK code : /\ code \notin Live /\ Fails(o, code)
                  /\ op[o].pc \in {"release", "done", "dead"} => code = "dead"
  BY DEF Over
<1>2. /\ Others(o)
      /\ Fields(op'[o], Kind(o), code, Gone, NoRecord, [m \in {} |-> None], None)
  BY <1>1, Failing
<1>3. op'[o].pc \notin Live /\ op'[o].rec = NoRecord
  BY <1>1, <1>2 DEF Fields
<1>4. Good(op[o].rec)'
  BY <1>3, NoRecordIsGood DEF Good, LinksOf, NoRecord
<1>5. Asks(o)' /\ Handed(o)'
  BY <1>3 DEF Asks, Handed, Live
<1>6. Works(o)'
  BY <1>1, <1>2, <1>3 DEF Works, Live, Upright, Fields, Kind
<1>7. QED
  BY <1>2, <1>3, <1>4, <1>5, <1>6 DEF Effect, Upright, Fields, Written, Carries, Live

-----------------------------------------------------------------------------
(* capture, add, resolve and show read what they need.                      *)

LEMMA ReadEffect ==
  ASSUME IInv, NEW o \in Ops,
         ListNames(o) \/ ListRecord(o) \/ ReadManifest(o) \/ ReadRecord(o)
  PROVE  Effect(o)
<1>1. /\ Shapes /\ Upright(o) /\ store' = store /\ wasJoined' = wasJoined /\ sess' = sess
      /\ RecordOf[o] \in Ids /\ DOMAIN op[o] = OpFields
  BY CrewSessionConstants
  DEF IInv, Shapes, ListNames, ListRecord, ReadManifest, ReadRecord, Reads, Still
<1>2. CASE Over(o)
  BY <1>1, <1>2, OverEffect
<1>3. CASE ListNames(o) /\ Goto(o, "manifest")
  <2>1. /\ Others(o)
        /\ Fields(op'[o], Kind(o), "manifest", op[o].rev, op[o].rec, op[o].ask, op[o].got)
    BY <1>1, <1>3, Going
  <2>2. Kind(o) = "capture" /\ op[o].pc = "start"
    BY <1>3 DEF ListNames, At
  <2>3. Upright(o)'
    BY <1>1, <2>1, <2>2 DEF Upright, Good, Asks, Works, Handed, Fields, Kind
  <2>4. QED
    BY <2>1, <2>2, <2>3 DEF Effect, Fields, Written, Carries
<1>4. CASE /\ ListRecord(o) /\ store[RecordOf[o]] # None
           /\ Set(o, [op[o] EXCEPT !.pc = "manifest", !.rec = store[RecordOf[o]]])
  <2>1. /\ Others(o)
        /\ Fields(op'[o], Kind(o), "manifest", op[o].rev, store[RecordOf[o]], op[o].ask,
                  op[o].got)
    <3>1. op'[o] = [op[o] EXCEPT !.pc = "manifest", !.rec = store[RecordOf[o]]] /\ Others(o)
      BY <1>1, <1>4, Setting
    <3>2. QED
      BY <1>1, <3>1 DEF Fields, OpFields, Kind
  <2>2. Kind(o) \in {"resolve", "show"} /\ op[o].pc = "start"
    BY <1>4 DEF ListRecord, At
  <2>3. Good(store[RecordOf[o]])
    BY <1>1, <1>4 DEF IInv, StoreGood
  <2>4. Upright(o)'
    BY <1>1, <2>1, <2>2, <2>3 DEF Upright, Good, Asks, Works, Handed, Fields, Kind
  <2>5. QED
    BY <2>1, <2>2, <2>4 DEF Effect, Fields, Written, Carries
<1>5. CASE ReadManifest(o) /\ ~Over(o)
  <2>1. manifest \in Revs
    BY <1>1, <1>5 DEF ReadManifest, Over, At, Live, Shapes
  <2> DEFINE ask == IF Kind(o) = "add" THEN op[o].ask
                    ELSE [m \in DOMAIN Config[manifest] |-> [st |-> "locate", s |-> None]]
             pc == IF Kind(o) = "add" THEN "record" ELSE "ask"
  <2>2. Set(o, [op[o] EXCEPT !.pc = pc, !.rev = manifest, !.ask = ask])
    BY <1>5, <2>1 DEF ReadManifest, Over, At, Live
  <2>3. /\ Others(o)
        /\ Fields(op'[o], Kind(o), pc, manifest, op[o].rec, ask, op[o].got)
    <3>1. op'[o] = [op[o] EXCEPT !.pc = pc, !.rev = manifest, !.ask = ask] /\ Others(o)
      BY <1>1, <2>2, Setting
    <3>2. QED
      BY <1>1, <3>1 DEF Fields, OpFields, Kind
  <2>4. \/ Kind(o) = "capture" /\ op[o].pc = "manifest"
        \/ Kind(o) = "add" /\ op[o].pc = "start"
    BY <1>5 DEF ReadManifest, At
  <2>5. Good(op[o].rec)' /\ Handed(o)'
    BY <1>1, <2>3, <2>4 DEF Upright, Good, Handed, Fields
  <2>6. Asks(o)'
    BY <2>1, <2>3, <2>4 DEF Asks, Truthful, Underway, Reasons, Fields, Kind
  <2>7. Works(o)'
    BY <1>1, <2>1, <2>3, <2>4 DEF Upright, Works, Fields, Kind
  <2>8. QED
    BY <2>3, <2>4, <2>5, <2>6, <2>7 DEF Effect, Upright, Fields, Written, Carries, Kind
<1>6. CASE ReadRecord(o) /\ ~Over(o)
  <2> DEFINE rec == store[RecordOf[o]]
             ask == [m \in {TargetOf[o]} |-> [st |-> "locate", s |-> None]]
  <2>1. /\ Kind(o) = "add" /\ op[o].pc = "record" /\ rec # None
        /\ rec.rev = op[o].rev /\ TargetOf[o] \in DOMAIN Config[op[o].rev]
        /\ rec.line[TargetOf[o]].st # "linked"
        /\ Set(o, [op[o] EXCEPT !.pc = "ask", !.rec = rec, !.ask = ask])
    BY <1>6 DEF ReadRecord, AddTo, Over, At, Live
  <2>2. /\ Others(o)
        /\ Fields(op'[o], Kind(o), "ask", op[o].rev, rec, ask, op[o].got)
    <3>1. op'[o] = [op[o] EXCEPT !.pc = "ask", !.rec = rec, !.ask = ask] /\ Others(o)
      BY <1>1, <2>1, Setting
    <3>2. QED
      BY <1>1, <3>1 DEF Fields, OpFields, Kind
  <2>3. op[o].rev \in Revs
    BY <1>1, <2>1 DEF Upright, Works
  <2>4. Good(op[o].rec)' /\ Handed(o)'
    BY <1>1, <2>1, <2>2 DEF IInv, StoreGood, Good, Handed, Fields
  <2>5. Asks(o)'
    BY <2>1, <2>2, <2>3 DEF Asks, Truthful, Underway, Reasons, Fields, Kind
  <2>6. Works(o)'
    BY <1>1, <2>1, <2>2 DEF Upright, Works, Fields, Kind
  <2>7. \A c \in Ops : Written(c) /\ RecordOf[c] = RecordOf[o] => Keeps(op[c].ask, rec)
    BY DEF IInv, Faithful
  <2>8. QED
    BY <2>1, <2>2, <2>4, <2>5, <2>6, <2>7 DEF Effect, Upright, Fields, Written
<1>7. QED
  BY <1>2, <1>3, <1>4, <1>5, <1>6 DEF ListNames, ListRecord, Over, At, Live

-----------------------------------------------------------------------------
(* captureMember                                                            *)

LEMMA AskEffect ==
  ASSUME IInv, NEW o \in Ops, NEW m, Locate(o, m) \/ Answer(o, m) \/ Check(o, m) \/ AskFails(o, m)
  PROVE  Effect(o)
<1>1. /\ Shapes /\ Upright(o) /\ JoinedNow
      /\ store' = store /\ wasJoined' = wasJoined /\ sess' = sess
  BY DEF IInv, Locate, Answer, Check, AskFails, Reads, Still
<1>2. op[o].pc = "ask" /\ m \in DOMAIN op[o].ask /\ Truthful(o, m, op[o].ask[m])
  BY <1>1 DEF Locate, Answer, Check, AskFails, Asking, Upright, Asks
<1>3. PICK line : Asked(o, m, line) /\ Truthful(o, m, line)
  <2>1. \A code \in Reasons : Truthful(o, m, Missing(code))
    BY DEF Truthful, Underway, Missing, Reasons
  <2>2. CASE Locate(o, m)
    <3>1. \A s \in Owners(m) : Truthful(o, m, [st |-> "at", s |-> s])
      BY DEF Owners, Truthful, Underway, Reasons
    <3>2. QED
      BY <2>1, <2>2, <3>1, Zenon DEF Locate, Reasons
  <2>3. CASE Answer(o, m)
    <3> DEFINE s == op[o].ask[m].s
    <3>1. Asked(o, m, Evidence(o, m, s)) /\ s \in Sessions
      BY <1>2, <2>3 DEF Answer, Asking, Truthful
    <3>2. Attests(o, m, s) /\ sess[s].as # None => Truthful(o, m, [st |-> "check", s |-> s])
      BY <1>1, <3>1 DEF Attests, JoinedNow, Truthful, Underway, Reasons
    <3>3. Truthful(o, m, Evidence(o, m, s))
      BY <2>1, <3>2 DEF Evidence, Reasons
    <3>4. QED
      BY <3>1, <3>3
  <2>4. CASE Check(o, m)
    <3>1. Truthful(o, m, Linked(op[o].ask[m].s))
      BY <1>2, <2>4 DEF Check, Asking, Truthful, Underway, Linked, Reasons
    <3>2. QED
      BY <2>1, <2>4, <3>1, Zenon DEF Check, Reasons
  <2>5. CASE AskFails(o, m)
    BY <2>1, <2>5, Zenon DEF AskFails, Reasons
  <2>6. QED
    BY <2>2, <2>3, <2>4, <2>5
<1>4. /\ Others(o)
      /\ Fields(op'[o], Kind(o), "ask", op[o].rev, op[o].rec,
                [op[o].ask EXCEPT ![m] = line], op[o].got)
  BY <1>1, <1>2, <1>3, AskedSets
<1>5. Good(op[o].rec)' /\ Handed(o)' /\ Works(o)'
  BY <1>1, <1>2, <1>4 DEF Upright, Good, Handed, Works, Fields, Kind
<1>6. Asks(o)'
  <2>1. /\ DOMAIN op'[o].ask = DOMAIN op[o].ask /\ op'[o].rev = op[o].rev
        /\ op'[o].ask[m] = line
        /\ \A n \in DOMAIN op[o].ask \ {m} : op'[o].ask[n] = op[o].ask[n]
    BY <1>2, <1>4 DEF Fields
  <2>2. ASSUME NEW n \in DOMAIN op[o].ask PROVE Truthful(o, n, op[o].ask[n])'
    BY <1>1, <1>2, <1>3, <2>1 DEF Truthful, Upright, Asks
  <2>3. op'[o].ask \in [DOMAIN op'[o].ask -> Underway]
    BY <1>1, <1>2, <1>3, <1>4 DEF Truthful, Upright, Asks, Fields
  <2>4. QED
    BY <1>1, <1>2, <1>4, <2>1, <2>2, <2>3 DEF Upright, Asks, Fields, Kind
<1>7. Carries(o, RecordOf[o])' => Carries(o, RecordOf[o]) /\ op'[o].rec = op[o].rec
  BY <1>2, <1>4 DEF Carries, Fields, Kind
<1>8. QED
  BY <1>4, <1>5, <1>6, <1>7 DEF Effect, Upright, Fields, Written, IInv, Faithful

\* The record an operation will write: the links in it were memberships, and a copy of
\* a record has lost none.
LEMMA ConcludeEffect ==
  ASSUME IInv, NEW o \in Ops, Conclude(o)
  PROVE  Effect(o)
<1>1. /\ Shapes /\ Upright(o) /\ store' = store /\ wasJoined' = wasJoined /\ sess' = sess
      /\ op[o].pc = "ask" /\ DOMAIN op[o] = OpFields
  BY DEF IInv, Shapes, Conclude, AllAsked, Reads, Still
<1>2. CASE Over(o)
  BY <1>1, <1>2, OverEffect
<1>3. CASE ~Over(o)
  <2>1. ~NoneLinked(o) /\ Set(o, [op[o] EXCEPT !.pc = "store", !.rec = Record(o)])
    BY <1>1, <1>3 DEF Conclude, MayWrite, Over, Live
  <2>2. /\ Others(o)
        /\ Fields(op'[o], Kind(o), "store", op[o].rev, Record(o), op[o].ask, op[o].got)
    <3>1. op'[o] = [op[o] EXCEPT !.pc = "store", !.rec = Record(o)] /\ Others(o)
      BY <1>1, <2>1, Setting
    <3>2. QED
      BY <1>1, <3>1 DEF Fields, OpFields, Kind
  <2>3. \A m \in DOMAIN op[o].ask :
          /\ op[o].ask[m] \in Lines
          /\ op[o].ask[m].st = "linked" =>
               <<op[o].ask[m].s, m, Config[op[o].rev][m]>> \in wasJoined
    <3>1. ASSUME NEW m \in DOMAIN op[o].ask PROVE op[o].ask[m] \in Lines
      <4>1. Truthful(o, m, op[o].ask[m]) /\ op[o].ask[m].st \in {"linked"} \cup Reasons
        BY <1>1 DEF Upright, Asks, Conclude, AllAsked, Final
      <4>2. op[o].ask[m] = [st |-> op[o].ask[m].st, s |-> op[o].ask[m].s]
        BY <4>1 DEF Truthful, Underway
      <4>3. QED
        BY <4>1, <4>2 DEF Truthful, Lines, Linked, Missing, Reasons
    <3>2. QED
      BY <1>1, <3>1 DEF Upright, Asks, Truthful
  <2>4. CASE Kind(o) = "capture"
    <3>1. Record(o) = [rev |-> op[o].rev, line |-> op[o].ask]
      BY <2>4 DEF Record
    <3>2. DOMAIN op[o].ask = DOMAIN Config[op[o].rev] /\ op[o].rev \in Revs
      BY <1>1, <2>4 DEF Upright, Asks
    <3>3. Good(Record(o))
      <4>1. op[o].ask \in [DOMAIN Config[op[o].rev] -> Lines]
        BY <1>1, <2>3, <3>2 DEF Upright, Asks
      <4>2. Record(o) \in Records
        BY <3>1, <3>2, <4>1 DEF Records
      <4>3. QED
        BY <2>3, <3>1, <3>2, <4>2 DEF Good, LinksOf
    <3>4. Upright(o)'
      BY <1>1, <2>1, <2>2, <2>4, <3>1, <3>3, RecordTypes
      DEF Upright, Good, Asks, Works, Handed, NoneLinked, Fields, Kind
    <3>5. QED
      BY <2>2, <2>4, <3>4 DEF Effect, Fields, Written, Carries, Kind
  <2>5. CASE Kind(o) = "add"
    <3> DEFINE m == TargetOf[o]
    <3>1. Record(o) = [op[o].rec EXCEPT !.line[m] = op[o].ask[m]]
      BY <2>5 DEF Record
    <3>2. /\ DOMAIN op[o].ask = {m} /\ m \in DOMAIN Config[op[o].rev] /\ op[o].rev \in Revs
          /\ op[o].rec.rev = op[o].rev /\ op[o].rec.line[m].st # "linked" /\ Good(op[o].rec)
          /\ store[RecordOf[o]] # None
      BY <1>1, <2>5 DEF Upright, Asks, Works
    <3>3. /\ DOMAIN op[o].rec = {"rev", "line"}
          /\ op[o].rec.line \in [DOMAIN Config[op[o].rev] -> Lines]
      BY <3>2, RecordTypes DEF Good
    <3>4. Record(o) = [rev |-> op[o].rev, line |-> [op[o].rec.line EXCEPT ![m] = op[o].ask[m]]]
      BY <3>1, <3>2, <3>3
    <3>5. Record(o) \in Records
      BY <2>3, <3>2, <3>3, <3>4 DEF Records
    <3>6. LinksOf(Record(o)) \subseteq wasJoined
      BY <2>3, <3>2, <3>3, <3>4 DEF LinksOf, Good
    <3>7. Upright(o)'
      BY <1>1, <2>1, <2>2, <2>5, <3>2, <3>5, <3>6, RecordTypes
      DEF Upright, Good, Asks, Works, Handed, Fields, Kind
    <3>8. ASSUME NEW c \in Ops, Written(c), RecordOf[c] = RecordOf[o]
          PROVE  Keeps(op[c].ask, Record(o))
      <4>1. Keeps(op[c].ask, op[o].rec)
        BY <1>1, <2>5, <3>8 DEF IInv, Faithful, Carries
      <4>2. QED
        BY <3>2, <3>3, <3>4, <4>1 DEF Keeps
    <3>9. QED
      BY <2>2, <2>5, <3>7, <3>8 DEF Effect, Fields, Written, Kind
  <2>6. QED
    BY <1>1, <2>4, <2>5 DEF Upright, Asks
<1>4. QED
  BY <1>2, <1>3

-----------------------------------------------------------------------------
(* store.write, up to the write itself and after it.                        *)

LEMMA StoreEffect ==
  ASSUME IInv, NEW o \in Ops, Acquire(o) \/ WriteFails(o) \/ Release(o) \/ Die(o)
  PROVE  Effect(o)
<1>1. /\ Shapes /\ Upright(o) /\ store' = store /\ wasJoined' = wasJoined /\ sess' = sess
      /\ op[o].pc \in {"ask", "store", "write", "release", "release-failed"}
  BY DEF IInv, Acquire, WriteFails, Release, Die, Reads, Still
<1>2. CASE Over(o)
  BY <1>1, <1>2, OverEffect
<1>3. ASSUME NEW pc \in {"write", "release-failed"}, Goto(o, pc),
             op[o].pc \in {"store", "write"}, pc = "write" => op[o].pc = "store"
      PROVE  Effect(o)
  <2>1. /\ Others(o)
        /\ Fields(op'[o], Kind(o), pc, op[o].rev, op[o].rec, op[o].ask, op[o].got)
    BY <1>1, <1>3, Going
  <2>2. Upright(o)'
    BY <1>1, <1>3, <2>1 DEF Upright, Good, Asks, Works, Handed, NoneLinked, Fields, Kind
  <2>3. Carries(o, RecordOf[o])' => Carries(o, RecordOf[o]) /\ op'[o].rec = op[o].rec
    BY <1>3, <2>1 DEF Carries, Fields, Kind
  <2>4. QED
    BY <1>3, <2>1, <2>2, <2>3 DEF Effect, Fields, Written, IInv, Faithful
<1>4. CASE /\ op[o].pc = "release"
           /\ Set(o, [Start(Kind(o)) EXCEPT !.pc = "done", !.ask = op[o].ask])
  <2>1. op'[o] = [Start(Kind(o)) EXCEPT !.pc = "done", !.ask = op[o].ask] /\ Others(o)
    BY <1>1, <1>4, Setting
  <2>2. Fields(op'[o], Kind(o), "done", Gone, NoRecord, op[o].ask, None)
    BY <2>1 DEF Fields, OpFields, Start
  <2>3. Good(op[o].rec)'
    BY <1>1, <2>2, NoRecordIsGood DEF Good, Fields
  <2>4. Upright(o)'
    BY <1>1, <1>4, <2>2, <2>3 DEF Upright, Asks, Works, Handed, NoneLinked, Fields, Kind
  <2>5. QED
    BY <1>4, <2>1, <2>2, <2>4 DEF Effect, Fields, Written, Carries, Kind
<1>5. CASE ~Over(o)
  <2>1. CASE Acquire(o)
    BY <1>3, <1>5, <2>1 DEF Acquire, Over, Live
  <2>2. CASE WriteFails(o)
    BY <1>3, <2>2 DEF WriteFails
  <2>3. CASE Release(o)
    BY <1>4, <1>5, <2>3 DEF Release, Over, Live
  <2>4. CASE Die(o)
    BY <1>5, <2>4 DEF Die, Over, Live
  <2>5. QED
    BY <2>1, <2>2, <2>3, <2>4
<1>6. QED
  BY <1>2, <1>5

\* The record appears with the links that its capture reports, or replaces one of which
\* it is a copy.
LEMMA WriteKeeps ==
  ASSUME IInv, NEW o \in Ops, Write(o)
  PROVE  IInv'
<1> DEFINE id == RecordOf[o]
<1>1. /\ Shapes /\ Upright(o) /\ UNCHANGED <<manifest, sess, wasJoined>>
      /\ op[o].pc = "write" /\ Goto(o, "release") /\ id \in Ids
      /\ DOMAIN store' = Ids /\ store'[id] = op[o].rec
      /\ \A i \in Ids \ {id} : store'[i] = store[i]
  BY CrewSessionConstants DEF IInv, Write, Still, Shapes
<1>2. /\ Others(o)
      /\ Fields(op'[o], Kind(o), "release", op[o].rev, op[o].rec, op[o].ask, op[o].got)
  BY <1>1, Going
<1>3. /\ op[o].rec # None /\ Kind(o) \in {"capture", "add"} /\ Good(op[o].rec)
      /\ Kind(o) = "add" => store[id] # None
      /\ Kind(o) = "capture" => store[id] = None /\ op[o].rec.line = op[o].ask
  BY <1>1 DEF Upright, Works
<1>4. Shapes'
  BY <1>1, <1>2 DEF Shapes, Others, Fields, Kind
<1>5. JoinedNow' /\ StoreGood'
  BY <1>1, <1>3 DEF IInv, JoinedNow, StoreGood, Good
<1>6. Upright(o)'
  BY <1>1, <1>2 DEF Upright, Good, Asks, Works, Handed, NoneLinked, Fields, Kind
<1>7. ASSUME NEW p \in Ops \ {o}
      PROVE  /\ op'[p] = op[p] /\ Kind(p)' = Kind(p) /\ RecordOf[p] \in Ids /\ Upright(p)
             /\ Kind(p) = "capture" /\ RecordOf[p] = id => Kind(o) = "add"
  <2>1. Kind(p) \in KindsOf[p] /\ Kind(o) \in KindsOf[o]
    BY <1>1 DEF Shapes
  <2>2. QED
    BY <1>2, <1>3, <2>1, CrewSessionConstants, CapturesAreNew DEF IInv, Others, Kind
<1>8. ASSUME NEW p \in Ops \ {o} PROVE Upright(p)'
  <2>1. store[RecordOf[p]] # None => store'[RecordOf[p]] # None
    BY <1>1, <1>3, <1>7
  <2>2. \/ store'[RecordOf[p]] = store[RecordOf[p]]
        \/ Kind(p) # "capture" \/ op[p].pc \in {"release", "done", "dead"}
    BY <1>1, <1>3, <1>7 DEF Upright, Works
  <2>3. QED
    BY <1>1, <1>7, <2>1, <2>2, UprightKept
<1>9. Faithful'
  <2>1. ~Carries(o, id)'
    BY <1>2 DEF Carries, Fields
  <2>2. ASSUME NEW a \in Ops, NEW c \in Ops, Carries(a, RecordOf[c])'
        PROVE  a # o /\ Carries(a, RecordOf[c]) /\ op'[a].rec = op[a].rec
    BY <1>7, <2>1, <2>2 DEF Carries, Kind
  <2>3. CASE Kind(o) = "capture"
    <3>1. ASSUME NEW a \in Ops PROVE ~Carries(a, id)
      BY <1>3, <2>3 DEF IInv, Upright, Works, Carries
    <3>2. Keeps(op'[o].ask, store'[id])
      BY <1>1, <1>2, <1>3, <2>3 DEF Keeps, Fields
    <3>3. ASSUME NEW c \in Ops \ {o}, Written(c)'
          PROVE  Written(c) /\ op'[c] = op[c] /\ RecordOf[c] # id /\ RecordOf[c] \in Ids
      BY <1>7, <2>3, <3>3 DEF Written, Kind
    <3>4. QED
      BY <1>1, <1>3, <2>2, <3>1, <3>2, <3>3 DEF IInv, Faithful
  <2>4. CASE Kind(o) = "add"
    <3>1. ASSUME NEW c \in Ops, Written(c)'
          PROVE  c # o /\ Written(c) /\ op'[c] = op[c] /\ RecordOf[c] \in Ids
      BY <1>2, <1>7, <2>4, <3>1 DEF Written, Fields, Kind
    <3>2. ASSUME NEW c \in Ops, Written(c), RecordOf[c] = id PROVE Keeps(op[c].ask, op[o].rec)
      BY <1>1, <2>4, <3>2 DEF IInv, Faithful, Carries
    <3>3. QED
      BY <1>1, <1>3, <2>2, <3>1, <3>2 DEF IInv, Faithful
  <2>5. QED
    BY <1>3, <2>3, <2>4
<1>10. QED
  BY <1>4, <1>5, <1>6, <1>8, <1>9 DEF IInv

-----------------------------------------------------------------------------
(* resolve, resume and show.                                                *)

\* These touch no record, and what they set of themselves is in pc, rev, ask and got.
LEMMA LookEffect ==
  ASSUME Shapes, NEW o \in Ops, Upright(o), UNCHANGED <<store, sess, wasJoined>>,
         op[o].pc \notin {"release", "done", "dead"},
         NEW pc, pc \notin {"ask", "store", "write", "release", "done", "dead", "record"},
         NEW rev, NEW ask, NEW got,
         Others(o), Fields(op'[o], Kind(o), pc, rev, op[o].rec, ask, got), Handed(o)'
  PROVE  Effect(o)
<1>1. Good(op[o].rec)' /\ Asks(o)' /\ Works(o)'
  BY DEF Upright, Good, Asks, Works, Fields, Kind
<1>2. QED
  BY <1>1 DEF Effect, Upright, Fields, Written, Carries

LEMMA ResolveEffect ==
  ASSUME IInv, NEW o \in Ops,
         \/ ResolveManifest(o) \/ Access(o) \/ ResumeManifest(o) \/ Pick(o) \/ Inspect(o)
         \/ Probe(o)
  PROVE  Effect(o)
<1>1. /\ Shapes /\ Upright(o) /\ store' = store /\ wasJoined' = wasJoined /\ sess' = sess
      /\ op[o].pc \notin {"release", "done", "dead"} /\ DOMAIN op[o] = OpFields
  BY DEF IInv, Shapes, ResolveManifest, Access, ResumeManifest, Pick, Inspect, Probe, Reads,
         Still, At
<1>2. CASE Over(o)
  BY <1>1, <1>2, OverEffect
<1>3. CASE ResolveManifest(o) /\ ~Over(o)
  <2> DEFINE got == op[o].rec.line[TargetOf[o]].s
  <2>1. /\ TargetOf[o] \in DOMAIN op[o].rec.line
        /\ op[o].rec.line[TargetOf[o]].st = "linked"
        /\ Set(o, [op[o] EXCEPT !.pc = "access", !.rev = manifest, !.got = got])
    BY <1>1, <1>3 DEF ResolveManifest, Over, Live
  <2>2. got \in Sessions /\ <<got, TargetOf[o], Config[op[o].rec.rev][TargetOf[o]]>> \in wasJoined
    BY <1>1, <2>1, RecordTypes DEF Upright, Good, LinksOf
  <2>3. op'[o] = [op[o] EXCEPT !.pc = "access", !.rev = manifest, !.got = got] /\ Others(o)
    BY <1>1, <2>1, Setting
  <2>4. Fields(op'[o], Kind(o), "access", manifest, op[o].rec, op[o].ask, got)
    BY <1>1, <2>3 DEF Fields, OpFields, Kind
  <2>5. manifest = op[o].rec.rev /\ Kind(o) = "resolve"
    BY <1>1, <1>3 DEF ResolveManifest, Drifts, At, Over, Live
  <2>6. Handed(o)'
    BY <1>1, <2>2, <2>4, <2>5 DEF Handed, Served, Fields, Kind
  <2>7. QED
    BY <1>1, <2>3, <2>4, <2>6, LookEffect
<1>4. CASE Access(o) /\ ~Over(o)
  <2>1. op[o].pc = "access" /\ Goto(o, "inspect")
    BY <1>1, <1>4 DEF Access, Over, Live, WhyAway
  <2>2. /\ Others(o)
        /\ Fields(op'[o], Kind(o), "inspect", op[o].rev, op[o].rec, op[o].ask, op[o].got)
    BY <1>1, <2>1, Going
  <2>3. Handed(o)'
    BY <1>1, <2>1, <2>2 DEF Upright, Handed, Served, Fields, Kind
  <2>4. QED
    BY <1>1, <2>2, <2>3, LookEffect
<1>5. CASE ResumeManifest(o) /\ ~Over(o)
  <2> DEFINE pc == IF op[o].pc = "start" THEN "pick" ELSE "inspect"
  <2>1. /\ Kind(o) = "resume" /\ op[o].pc \in {"start", "again"}
        /\ Set(o, [op[o] EXCEPT !.pc = pc, !.rev = manifest])
    BY <1>1, <1>5 DEF ResumeManifest, At, Over, Live, OpFields
  <2>2. op'[o] = [op[o] EXCEPT !.pc = pc, !.rev = manifest] /\ Others(o)
    BY <1>1, <2>1, Setting
  <2>3. Fields(op'[o], Kind(o), pc, manifest, op[o].rec, op[o].ask, op[o].got)
    BY <1>1, <2>2 DEF Fields, OpFields, Kind
  <2>4. Handed(o)'
    BY <1>1, <2>1, <2>3 DEF Upright, Handed, Fields, Kind
  <2>5. QED
    BY <1>1, <2>2, <2>3, <2>4, LookEffect
<1>6. CASE Pick(o) /\ ~Over(o)
  <2>1. PICK s \in Sessions : Set(o, [op[o] EXCEPT !.pc = "again", !.got = s])
    BY <1>1, <1>6 DEF Pick, Over, Live
  <2>2. op'[o] = [op[o] EXCEPT !.pc = "again", !.got = s] /\ Others(o)
    BY <1>1, <2>1, Setting
  <2>3. Fields(op'[o], Kind(o), "again", op[o].rev, op[o].rec, op[o].ask, s)
    BY <1>1, <2>2 DEF Fields, OpFields, Kind
  <2>4. Handed(o)'
    BY <2>3 DEF Handed, Fields
  <2>5. QED
    BY <1>1, <2>2, <2>3, <2>4, LookEffect
<1>7. CASE Inspect(o) /\ ~Over(o)
  <2>1. /\ op[o].pc = "inspect" /\ Attributed(o, sess[op[o].got].entry)
        /\ Goto(o, "probe")
    BY <1>1, <1>7 DEF Inspect, Over, Live
  <2>2. op[o].got \in Sessions /\ Served(o)
    <3>1. op[o].got \in Sessions /\ Kind(o) \in {"resolve", "resume"}
      BY <1>1, <2>1 DEF Upright, Handed
    <3>2. CASE Kind(o) = "resolve"
      BY <1>1, <2>1, <3>1, <3>2 DEF Upright, Handed
    <3>3. CASE Kind(o) = "resume"
      BY <2>1, <3>1, <3>3 DEF IInv, JoinedNow, Attributed, Served
    <3>4. QED
      BY <3>1, <3>2, <3>3
  <2>3. /\ Others(o)
        /\ Fields(op'[o], Kind(o), "probe", op[o].rev, op[o].rec, op[o].ask, op[o].got)
    BY <1>1, <2>1, Going
  <2>4. Handed(o)'
    BY <1>1, <2>2, <2>3 DEF Handed, Served, Fields, Kind
  <2>5. QED
    BY <1>1, <2>3, <2>4, LookEffect
<1>8. CASE Probe(o) /\ ~Over(o)
  <2>1. op[o].pc = "probe" /\ Goto(o, "resolved")
    BY <1>1, <1>8 DEF Probe, Over, Live
  <2>2. /\ Others(o)
        /\ Fields(op'[o], Kind(o), "resolved", op[o].rev, op[o].rec, op[o].ask, op[o].got)
    BY <1>1, <2>1, Going
  <2>3. Handed(o)'
    BY <1>1, <2>1, <2>2 DEF Upright, Handed, Served, Fields, Kind
  <2>4. QED
    BY <1>1, <2>2, <2>3, LookEffect
<1>9. QED
  BY <1>2, <1>3, <1>4, <1>5, <1>6, <1>7, <1>8

LEMMA ShowEffect ==
  ASSUME IInv, NEW o \in Ops, ShowManifest(o) \/ Shown(o) \/ \E m \in Members : Look(o, m)
  PROVE  Effect(o)
<1>1. /\ Shapes /\ Upright(o) /\ store' = store /\ wasJoined' = wasJoined /\ sess' = sess
      /\ op[o].pc \in {"manifest", "look"} /\ DOMAIN op[o] = OpFields
  BY DEF IInv, Shapes, ShowManifest, Look, Shown, Reads, Still, At
<1>2. CASE Over(o)
  BY <1>1, <1>2, OverEffect
<1>3. CASE ShowManifest(o) /\ ~Over(o)
  <2> DEFINE ask == [m \in DOMAIN op[o].rec.line |-> Missing("look")]
  <2>1. Set(o, [op[o] EXCEPT !.pc = "look", !.rev = manifest, !.ask = ask])
    BY <1>1, <1>3 DEF ShowManifest, Over, Live
  <2>2. op'[o] = [op[o] EXCEPT !.pc = "look", !.rev = manifest, !.ask = ask] /\ Others(o)
    BY <1>1, <2>1, Setting
  <2>3. Fields(op'[o], Kind(o), "look", manifest, op[o].rec, ask, op[o].got)
    BY <1>1, <2>2 DEF Fields, OpFields, Kind
  <2>4. Handed(o)'
    BY <2>3 DEF Handed, Fields
  <2>5. QED
    BY <1>1, <2>2, <2>3, <2>4, LookEffect
<1>4. ASSUME NEW m \in Members, Look(o, m) PROVE Effect(o)
  <2>1. PICK line : Asked(o, m, line)
    BY <1>4 DEF Look
  <2>2. op[o].pc = "look"
    BY <1>4 DEF Look
  <2>3. /\ Others(o)
        /\ Fields(op'[o], Kind(o), "look", op[o].rev, op[o].rec,
                  [op[o].ask EXCEPT ![m] = line], op[o].got)
    BY <1>1, <2>1, <2>2, AskedSets
  <2>4. Handed(o)'
    BY <2>3 DEF Handed, Fields
  <2>5. QED
    BY <1>1, <2>3, <2>4, LookEffect
<1>5. CASE Shown(o) /\ ~Over(o)
  <2>1. Goto(o, "complete")
    BY <1>1, <1>5 DEF Shown, Over, Live
  <2>2. /\ Others(o)
        /\ Fields(op'[o], Kind(o), "complete", op[o].rev, op[o].rec, op[o].ask, op[o].got)
    BY <1>1, <2>1, Going
  <2>3. Handed(o)'
    BY <2>2 DEF Handed, Fields
  <2>4. QED
    BY <1>1, <2>2, <2>3, LookEffect
<1>6. QED
  BY <1>2, <1>3, <1>4, <1>5

-----------------------------------------------------------------------------
(* The surroundings, and the launch of what was handed out.                 *)

LEMMA BecomeKeeps ==
  ASSUME IInv, NEW s \in Sessions, NEW new, Become(s, new), DOMAIN new = SessFields,
         wasJoined \subseteq wasJoined',
         new.as # None => <<s, new.as, new.role>> \in wasJoined',
         new.entry # None => <<s, new.entry.as, new.entry.role>> \in wasJoined'
  PROVE  Rejoined /\ JoinedNow'
<1>1. /\ DOMAIN sess' = Sessions /\ \A t \in Sessions \ {s} : sess'[t] = sess[t]
      /\ sess'[s] = new
  BY DEF IInv, Shapes, Become
<1>2. QED
  BY <1>1 DEF IInv, Shapes, Rejoined, JoinedNow

LEMMA SurroundingsRejoin ==
  ASSUME IInv, Surroundings
  PROVE  Rejoined /\ JoinedNow' /\ UNCHANGED <<store, op>> /\ manifest' \in Revs \cup {Gone}
<1>1. /\ Shapes /\ JoinedNow
  BY DEF IInv
<1>2. CASE Edit
  BY <1>1, <1>2 DEF Edit, Shapes, JoinedNow, Rejoined
<1>3. ASSUME NEW s \in Sessions, Open(s) \/ Leave(s) \/ Close(s) \/ LoseFile(s)
      PROVE  Rejoined /\ JoinedNow' /\ UNCHANGED <<store, op, manifest>>
  <2>1. UNCHANGED <<store, op, manifest, wasJoined>>
    BY <1>3 DEF Open, Leave, Close, LoseFile
  <2>2. DOMAIN sess[s] = SessFields
    BY <1>1 DEF Shapes
  <2>3. \E new : /\ Become(s, new) /\ DOMAIN new = SessFields
                 /\ new.as # None => new.as = sess[s].as /\ new.role = sess[s].role
                 /\ new.entry # None => new.entry = sess[s].entry
    <3>1. CASE Open(s)
      <4> DEFINE new == [sess[s] EXCEPT !.open = TRUE]
      <4>1. Become(s, new)
        BY <3>1 DEF Open
      <4>2. QED
        BY <2>2, <4>1 DEF SessFields
    <3>2. CASE Leave(s)
      <4> DEFINE new == [sess[s] EXCEPT !.as = None, !.role = None, !.entry = None]
      <4>1. Become(s, new)
        BY <3>2 DEF Leave
      <4>2. DOMAIN new = SessFields /\ new.as = None /\ new.entry = None
        BY <2>2 DEF SessFields
      <4> HIDE DEF new
      <4>3. QED
        BY <4>1, <4>2
    <3>3. CASE Close(s)
      <4> DEFINE new == [sess[s] EXCEPT !.open = FALSE, !.as = None, !.role = None]
      <4>1. Become(s, new)
        BY <3>3 DEF Close
      <4>2. /\ DOMAIN new = SessFields /\ new.as = None
            /\ new.entry = sess[s].entry
        BY <2>2 DEF SessFields
      <4> HIDE DEF new
      <4>3. QED
        BY <4>1, <4>2
    <3>4. CASE LoseFile(s)
      <4>1. PICK f : Become(s, [sess[s] EXCEPT !.file = f])
        BY <3>4 DEF LoseFile
      <4> DEFINE new == [sess[s] EXCEPT !.file = f]
      <4>2. QED
        BY <2>2, <4>1 DEF SessFields
    <3>5. QED
      BY <1>3, <3>1, <3>2, <3>3, <3>4
  <2>4. QED
    BY <1>1, <2>1, <2>3, BecomeKeeps DEF JoinedNow
<1>4. ASSUME NEW s \in Sessions, Restore(s) \/ \E m \in Members \cup {Elsewhere} : Join(s, m)
      PROVE  Rejoined /\ JoinedNow' /\ UNCHANGED <<store, op, manifest>>
  <2>1. UNCHANGED <<store, op, manifest>>
    BY <1>4 DEF Restore, Join
  <2>2. DOMAIN sess[s] = SessFields
    BY <1>1 DEF Shapes
  <2>3. PICK m : \/ /\ Takes(s, m)
                    /\ Become(s, [sess[s] EXCEPT !.as = m, !.role = RoleOf(m),
                                                 !.entry = Entry(m, RoleOf(m), manifest)])
                 \/ /\ Takes(s, m)
                    /\ Become(s, [sess[s] EXCEPT !.as = m, !.role = RoleOf(m)])
    BY <1>4 DEF Restore, Join
  <2>4. wasJoined' = wasJoined \cup {<<s, m, RoleOf(m)>>}
    BY <2>3 DEF Takes, RoleOf
  <2>5. \E new : /\ Become(s, new) /\ DOMAIN new = SessFields
                 /\ new.as = m /\ new.role = RoleOf(m)
                 /\ \/ new.entry = sess[s].entry
                    \/ new.entry = Entry(m, RoleOf(m), manifest)
    <3> DEFINE joined == [sess[s] EXCEPT !.as = m, !.role = RoleOf(m),
                                         !.entry = Entry(m, RoleOf(m), manifest)]
               restored == [sess[s] EXCEPT !.as = m, !.role = RoleOf(m)]
    <3>1. \A new \in {joined, restored} : /\ DOMAIN new = SessFields
                                         /\ new.as = m /\ new.role = RoleOf(m)
                                         /\ \/ new.entry = sess[s].entry
                                            \/ new.entry = Entry(m, RoleOf(m), manifest)
      BY <2>2 DEF SessFields
    <3>2. \E new \in {joined, restored} : Become(s, new)
      BY <2>3
    <3>3. QED
      BY <3>1, <3>2
  <2>6. Entry(m, RoleOf(m), manifest).as = m /\ Entry(m, RoleOf(m), manifest).role = RoleOf(m)
    BY DEF Entry
  <2>7. QED
    BY <1>1, <2>1, <2>4, <2>5, <2>6, BecomeKeeps DEF JoinedNow
<1>5. QED
  BY <1>1, <1>2, <1>3, <1>4 DEF Surroundings, Edit, Shapes

LEMMA SurroundingsKeep ==
  ASSUME IInv, Surroundings
  PROVE  IInv'
<1>1. /\ Rejoined /\ JoinedNow' /\ UNCHANGED <<store, op>> /\ manifest' \in Revs \cup {Gone}
  BY SurroundingsRejoin
<1>2. Shapes'
  BY <1>1 DEF IInv, Shapes, Rejoined, Kind
<1>3. StoreGood' /\ Faithful'
  BY <1>1 DEF IInv, StoreGood, Good, Rejoined, Faithful, Written, Carries, Keeps, Kind
<1>4. ASSUME NEW p \in Ops PROVE Upright(p)'
  <2>1. op'[p] = op[p] /\ Shapes /\ Upright(p) /\ RecordOf[p] \in Ids
    BY <1>1, CrewSessionConstants DEF IInv
  <2>2. QED
    BY <1>1, <2>1, UprightKept DEF Rejoined
<1>5. QED
  BY <1>1, <1>2, <1>3, <1>4 DEF IInv

LEMMA LaunchKeeps ==
  ASSUME IInv, NEW o \in Ops, Launch(o)
  PROVE  IInv'
<1> DEFINE s == op[o].got
<1>1. /\ Shapes /\ Upright(o) /\ op[o].pc = "resolved"
      /\ Become(s, [sess[s] EXCEPT !.open = TRUE]) /\ Fails(o, "launched")
      /\ UNCHANGED <<manifest, store, wasJoined>>
  BY DEF IInv, Launch
<1>2. s \in Sessions
  BY <1>1 DEF Upright, Handed
<1>3. Rejoined /\ JoinedNow'
  <2>1. DOMAIN sess[s] = SessFields
    BY <1>1, <1>2 DEF Shapes
  <2>2. \E new : /\ Become(s, new) /\ DOMAIN new = SessFields
                 /\ new.as = sess[s].as /\ new.role = sess[s].role
                 /\ new.entry = sess[s].entry
    BY <1>1, <2>1 DEF SessFields
  <2>3. QED
    BY <1>1, <1>2, <2>2, BecomeKeeps DEF IInv, JoinedNow
<1>4. Effect(o)
  BY <1>1, OverEffect DEF Over, Live
<1>5. QED
  BY <1>1, <1>3, <1>4, EffectKeeps

-----------------------------------------------------------------------------
(* The theorems.                                                            *)

LEMMA InitIInv == Init => IInv
<1> SUFFICES ASSUME Init PROVE IInv
  OBVIOUS
<1>1. PICK kind \in [Ops -> UNION {KindsOf[o] : o \in Ops}] :
        /\ \A o \in Ops : kind[o] \in KindsOf[o]
        /\ op = [o \in Ops |-> Start(kind[o])]
  BY Zenon DEF Init
<1>2. \A o \in Ops : /\ op[o] = Start(kind[o]) /\ kind[o] \in KindsOf[o]
                     /\ Kind(o) = kind[o] /\ op[o].pc = "start" /\ op[o].rec = NoRecord
                     /\ DOMAIN op[o] = OpFields /\ RecordOf[o] \in Ids
  BY <1>1, CrewSessionConstants DEF Start, Kind, OpFields
<1>3. \A s \in Sessions : DOMAIN sess[s] = SessFields
  BY DEF Init, SessFields
<1>4. Shapes
  BY <1>1, <1>2, <1>3 DEF Init, Shapes
<1>5. JoinedNow
  <2>1. ASSUME NEW s \in Sessions
        PROVE  /\ sess[s].as = None => sess[s].entry = None
               /\ sess[s].as # None => /\ sess[s].entry.as = sess[s].as
                                       /\ sess[s].entry.role = sess[s].role
    <3> DEFINE joined == {[open |-> TRUE, as |-> m, role |-> Config[manifest][m],
                           entry |-> Entry(m, Config[manifest][m], manifest), file |-> "here"]
                            : m \in DOMAIN Config[manifest]}
               closed == [open |-> FALSE, as |-> None, role |-> None, entry |-> None,
                          file |-> "here"]
    <3>1. sess \in [Sessions -> joined \cup {closed}]
      BY DEF Init
    <3>2. sess[s] \in joined \/ sess[s] = closed
      BY <2>1, <3>1
    <3>3. CASE sess[s] \in joined
      <4>1. PICK m \in DOMAIN Config[manifest] :
              /\ sess[s].as = m /\ sess[s].role = Config[manifest][m]
              /\ sess[s].entry = Entry(m, Config[manifest][m], manifest)
        BY <3>3
      <4>2. m # None
        BY CrewSessionConstants DEF Init, Revs
      <4>3. QED
        BY <4>1, <4>2 DEF Entry
    <3>4. CASE sess[s] = closed
      BY <3>4
    <3>5. QED
      BY <3>2, <3>3, <3>4
  <2>2. QED
    BY <2>1 DEF Init, JoinedNow
<1>6. StoreGood
  BY CrewSessionConstants, EarlierAreRecords DEF Init, StoreGood, Good
<1>7. Faithful
  BY <1>2 DEF Faithful, Written
<1>8. ASSUME NEW o \in Ops PROVE Upright(o)
  <2>1. Kind(o) = "capture" => store[RecordOf[o]] = None
    BY <1>2, CapturesAreNew DEF Init
  <2>2. QED
    BY <1>2, <2>1, NoRecordIsGood DEF Upright, Asks, Works, Handed
<1>9. QED
  BY <1>4, <1>5, <1>6, <1>7, <1>8 DEF IInv

LEMMA NextIInv == IInv /\ [Next]_vars => IInv'
<1> SUFFICES ASSUME IInv, [Next]_vars PROVE IInv'
  OBVIOUS
<1>1. CASE Surroundings
  BY <1>1, SurroundingsKeep
<1>2. ASSUME NEW o \in Ops, Step(o) PROVE IInv'
  <2>1. CASE ListNames(o) \/ ListRecord(o) \/ ReadManifest(o) \/ ReadRecord(o)
    BY <2>1, ReadEffect, StillEffectKeeps DEF ListNames, ListRecord, ReadManifest, ReadRecord
  <2>2. ASSUME NEW m \in Members, Locate(o, m) \/ Answer(o, m) \/ Check(o, m) \/ AskFails(o, m)
        PROVE  IInv'
    BY <2>2, AskEffect, StillEffectKeeps DEF Locate, Answer, Check, AskFails
  <2>3. CASE Conclude(o)
    BY <2>3, ConcludeEffect, StillEffectKeeps DEF Conclude
  <2>4. CASE Acquire(o) \/ WriteFails(o) \/ Release(o) \/ Die(o)
    <3>1. Effect(o) /\ JoinedNow' /\ Rejoined /\ UNCHANGED <<manifest, store>>
      BY <2>4, StoreEffect
      DEF IInv, Shapes, JoinedNow, Rejoined, Acquire, WriteFails, Release, Die, Reads, Still
    <3>2. QED
      BY <3>1, EffectKeeps
  <2>5. CASE Write(o)
    BY <2>5, WriteKeeps
  <2>6. CASE \/ ResolveManifest(o) \/ Access(o) \/ ResumeManifest(o) \/ Pick(o) \/ Inspect(o)
             \/ Probe(o)
    BY <2>6, ResolveEffect, StillEffectKeeps
    DEF ResolveManifest, Access, ResumeManifest, Pick, Inspect, Probe
  <2>7. CASE Launch(o)
    BY <2>7, LaunchKeeps
  <2>8. CASE ShowManifest(o) \/ Shown(o) \/ \E m \in Members : Look(o, m)
    BY <2>8, ShowEffect, StillEffectKeeps DEF ShowManifest, Shown, Look
  <2>9. QED
    BY <1>2, <2>1, <2>2, <2>3, <2>4, <2>5, <2>6, <2>7, <2>8 DEF Step
<1>3. CASE UNCHANGED vars
  BY <1>3 DEF vars, IInv, Shapes, JoinedNow, StoreGood, Good, Faithful, Written, Carries, Keeps,
              Upright, Asks, Truthful, Works, Handed, Served, NoneLinked, Kind
<1>4. QED
  BY <1>1, <1>2, <1>3 DEF Next

THEOREM IInvHolds == Spec => []IInv
  BY InitIInv, NextIInv, PTL DEF Spec

\* Every link of a stored record was a live membership in that role, although endpoints
\* change hands between the moment a session is located and the moment it answers
\* (captureMember), and adds work on copies of the record (addCrewSessionMember).
THEOREM LinkWasJoinedHolds == Spec => []LinkWasJoined
<1>1. IInv => LinkWasJoined
  BY DEF IInv, StoreGood, Good, LinkWasJoined
<1>2. QED
  BY <1>1, IInvHolds, PTL

\* A capture that reported its record can be taken at its word from then on, however adds
\* to it overlap, and one that reported a failure left no record (captureCrewSession,
\* store.write).
THEOREM CaptureIsTruthHolds == Spec => []CaptureIsTruth
<1>1. IInv => CaptureIsTruth
  BY DEF IInv, Faithful, Written, Keeps, Upright, Works, CaptureIsTruth
<1>2. QED
  BY <1>1, IInvHolds, PTL

\* Every session that is handed out for a Member once served that Member in the role the
\* manifest gives it: a resolve compares the manifest with its record's and the record's
\* links were memberships, a resume compares the role in the session's own file, and the
\* file keeps a role the session did serve in, although a restore does not write the entry
\* again (resolveCrewSessionMember, resumeRoleSession, restorePersistedMembership).
THEOREM ResolvedIsTheMembersHolds == Spec => []ResolvedIsTheMembers
<1>1. IInv => ResolvedIsTheMembers
  BY DEF IInv, Upright, Handed, Served, ResolvedIsTheMembers
<1>2. QED
  BY <1>1, IInvHolds, PTL
=============================================================================
