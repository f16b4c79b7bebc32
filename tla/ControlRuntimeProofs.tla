-------------------------- MODULE ControlRuntimeProofs --------------------------
(***************************************************************************)
(* Proofs about two services of a session's control runtime: interrupts,   *)
(* and idle waits with the Follow-ups deferred during a compaction.  The   *)
(* two models share no variable; each part has its own invariant.          *)
(*                                                                         *)
(* Interrupts, for any senders and interrupts: a sender has at most one    *)
(* interrupt with which the target is not done, what has handed-off        *)
(* evidence is never given to Pi again, what a caller is told about its    *)
(* interrupt is so, and of a sender's interrupts a restarted target        *)
(* recovers the latest.  The entry of a pending interrupt is the newest of *)
(* its sender (PendingIsNewest), so that the gate, which looks at the      *)
(* newest entry only, sees it; handed-off comes after pending (Ordered),   *)
(* so that the recovery, which looks at one entry too, is not mistaken;    *)
(* and the running task is about a pending interrupt (TaskPending).  The   *)
(* answers rest on what the steps of a task have done by then (AbortKnown, *)
(* Told), the last on what the recovery has passed over (LatestTaken).     *)
(*                                                                         *)
(* Idle waits, for any number of sessions, clients and waits, with stops   *)
(* and ends of sessions at any time: a slot is held only for a wait that   *)
(* can still be answered, and an idle answer was true during the wait.     *)
(* The first rests on Held, with which connection a slot goes, and on      *)
(* NotYet: a client's request is taken from its connection once, so its    *)
(* hop begins once.  The second follows an idle answer from where it is    *)
(* written: no idle frame is on its way to a wait that did not see its     *)
(* target idle (IdleFrames), and a client's wait has seen what its hop     *)
(* has seen (Together).  That settling is observed needs only, besides the *)
(* types, that a session whose server is not up holds nothing (Emptied).   *)
(***************************************************************************)
EXTENDS InterruptFlow, IdleWait, SequenceTheorems, TLAPS

(************************** Interrupts *************************************)
Entry == [phase : {"pending", "handed-off"}, id : Interrupts]

\* A request is written once; what has evidence was written and has been received.
Dispatched ==
  /\ \A id \in wire : call[id] # "unsent"
  /\ \A i \in DOMAIN entries : call[entries[i].id] # "unsent" /\ entries[i].id \notin wire

Ordered ==
  \A i, j \in DOMAIN entries :
    entries[i].id = entries[j].id /\ entries[i].phase = "pending"
      /\ entries[j].phase = "handed-off" => i < j

NewestOf(s, i) == i \in EntriesOf(s) /\ \A j \in EntriesOf(s) : j <= i

PendingIsNewest ==
  \A a \in Pending : \E i \in DOMAIN entries :
    entries[i] = Evidence("pending", a) /\ NewestOf(Sender(a), i)

TaskPending == task # NoTask => task.id \in Pending

InterruptInv == InterruptTypeOK /\ Dispatched /\ Ordered /\ PendingIsNewest /\ TaskPending

-----------------------------------------------------------------------------
(* Evidence is appended.                                                    *)

\* What persist does to the log: the old entries stay and one comes after them.
LEMMA Appended ==
  ASSUME InterruptTypeOK, NEW phase \in {"pending", "handed-off"}, NEW id \in Interrupts,
         Persist(phase, id)
  PROVE  /\ entries' \in Seq(Entry)
         /\ Len(entries) \in Nat /\ DOMAIN entries = 1 .. Len(entries)
         /\ DOMAIN entries' = 1 .. Len(entries) + 1 /\ Len(entries') = Len(entries) + 1
         /\ \A i \in DOMAIN entries : entries'[i] = entries[i] /\ entries[i] \in Entry
         /\ entries'[Len(entries) + 1] = Evidence(phase, id)
<1>1. entries \in Seq(Entry) /\ Evidence(phase, id) \in Entry
  BY DEF InterruptTypeOK, Entry, Evidence
<1>2. entries' = Append(entries, Evidence(phase, id))
  BY DEF Persist
<1>3. QED
  BY <1>1, <1>2

\* Evidence names an interrupt.
LEMMA EntryIds == InterruptTypeOK => \A i \in DOMAIN entries : entries[i].id \in Interrupts
<1>1. SUFFICES ASSUME InterruptTypeOK, NEW i \in DOMAIN entries
               PROVE  entries[i].id \in Interrupts
  OBVIOUS
<1>2. entries \in Seq(Entry)
  BY <1>1 DEF InterruptTypeOK, Entry
<1>3. entries[i] \in Entry
  BY <1>2
<1>4. QED
  BY <1>3 DEF Entry

\* The identifiers with evidence of each phase.
LEMMA PersistedGrows ==
  ASSUME InterruptTypeOK, NEW phase \in {"pending", "handed-off"}, NEW id \in Interrupts,
         Persist(phase, id)
  PROVE  /\ Persisted(phase)' = Persisted(phase) \cup {id}
         /\ \A other \in {"pending", "handed-off"} \ {phase} :
              Persisted(other)' = Persisted(other)
<1> DEFINE n == Len(entries)
<1>1. /\ n \in Nat /\ DOMAIN entries = 1 .. n /\ DOMAIN entries' = 1 .. n + 1
      /\ \A i \in 1 .. n : entries'[i] = entries[i]
      /\ entries'[n + 1] = Evidence(phase, id)
  BY Appended
<1>2. ASSUME NEW ph, NEW x
      PROVE  /\ x \in Persisted(ph) <=>
                  \E i \in 1 .. n : entries[i].phase = ph /\ entries[i].id = x
             /\ x \in Persisted(ph)' <=>
                  \E i \in 1 .. n + 1 : entries'[i].phase = ph /\ entries'[i].id = x
  BY <1>1 DEF Persisted
<1>3. ASSUME NEW ph, NEW x
      PROVE  x \in Persisted(ph)' <=> x \in Persisted(ph) \/ (ph = phase /\ x = id)
  BY <1>1, <1>2 DEF Evidence
<1>4. Persisted(phase)' = Persisted(phase) \cup {id}
  BY <1>3
<1>5. ASSUME NEW other \in {"pending", "handed-off"} \ {phase}
      PROVE  Persisted(other)' = Persisted(other)
  BY <1>3, <1>5
<1>6. QED
  BY <1>4, <1>5

\* While the log stays, so does what it says.
LEMMA LogUnchanged ==
  ASSUME UNCHANGED entries
  PROVE  /\ Pending' = Pending
         /\ Ordered => Ordered'
         /\ PendingIsNewest => PendingIsNewest'
<1>1. Pending' = Pending
  BY DEF Pending, HandedOff, Persisted
<1>2. Ordered => Ordered'
  BY DEF Ordered
<1>3. PendingIsNewest => PendingIsNewest'
  BY <1>1 DEF PendingIsNewest, NewestOf, EntriesOf
<1>4. QED
  BY <1>1, <1>2, <1>3

\* Two pending interrupts of one sender would have the same newest entry.
LEMMA OnePending == InterruptInv => OnePendingPerSender
<1>1. SUFFICES ASSUME InterruptInv, NEW a \in Pending, NEW b \in Pending, Sender(a) = Sender(b)
               PROVE  a = b
  BY DEF OnePendingPerSender
<1>2. PICK i \in DOMAIN entries :
        entries[i] = Evidence("pending", a) /\ NewestOf(Sender(a), i)
  BY <1>1 DEF InterruptInv, PendingIsNewest
<1>3. PICK j \in DOMAIN entries :
        entries[j] = Evidence("pending", b) /\ NewestOf(Sender(b), j)
  BY <1>1 DEF InterruptInv, PendingIsNewest
<1>4. i \in Nat /\ j \in Nat
  BY <1>1 DEF InterruptInv, InterruptTypeOK
<1>5. i = j
  BY <1>1, <1>2, <1>3, <1>4 DEF NewestOf
<1>6. QED
  BY <1>2, <1>3, <1>5 DEF Evidence

-----------------------------------------------------------------------------
(* The steps.                                                               *)

\* The initial log is empty.
LEMMA InitIInv == InterruptInit => InterruptInv
<1>1. SUFFICES ASSUME InterruptInit PROVE InterruptInv
  OBVIOUS
<1>2. InterruptTypeOK
  <2>1. alive \in BOOLEAN /\ reloading \in BOOLEAN /\ busy \in BOOLEAN /\ (task # NoTask => alive)
    BY <1>1, Zenon DEF InterruptInit
  <2>2. /\ call \in [Interrupts -> Answers \cup {"unsent", "dispatched", "unreached",
                                                "outcome-unknown"}]
        /\ wire \subseteq Interrupts /\ answers \in [Interrupts -> Answers \cup {"none"}]
        /\ entries \in Seq([phase : {"pending", "handed-off"}, id : Interrupts])
        /\ queued \subseteq Interrupts /\ aborted \subseteq Interrupts
        /\ failed \subseteq Interrupts /\ crashes \in Nat
    BY <1>1 DEF InterruptInit
  <2>3. task = NoTask
    BY <1>1 DEF InterruptInit
  <2>4. QED
    BY <2>1, <2>2, <2>3, Zenon DEF InterruptTypeOK
<1>3. Pending = {}
  BY <1>1 DEF InterruptInit, Pending, Persisted
<1>4. Dispatched /\ Ordered
  BY <1>1 DEF InterruptInit, Dispatched, Ordered
<1>5. PendingIsNewest /\ TaskPending
  BY <1>1, <1>3 DEF InterruptInit, PendingIsNewest, TaskPending
<1>6. QED
  BY <1>2, <1>4, <1>5 DEF InterruptInv

\* Types are preserved by every step.
LEMMA NextTypeOK == InterruptTypeOK /\ [InterruptNext]_interruptVars => InterruptTypeOK'
<1>1. SUFFICES ASSUME InterruptTypeOK, [InterruptNext]_interruptVars PROVE InterruptTypeOK'
  OBVIOUS
<1> USE DEF InterruptTypeOK, Answers, callers, piState, past
<1>2. ASSUME NEW id \in Interrupts, Dispatch(id) \/ FailBeforeDispatch(id)
      PROVE  InterruptTypeOK'
  BY <1>1, <1>2 DEF Dispatch, FailBeforeDispatch, Learn
<1>3. ASSUME NEW id \in Interrupts, ReadAnswer(id) \/ LoseAnswer(id)
      PROVE  InterruptTypeOK'
  BY <1>1, <1>3 DEF ReadAnswer, LoseAnswer, Learn
<1>4. ASSUME NEW id \in Interrupts, RefusePending(id) \/ FailPersist(id)
      PROVE  InterruptTypeOK'
  BY <1>1, <1>4 DEF RefusePending, FailPersist, TakeInterrupt, Answer
<1>5. ASSUME NEW id \in Interrupts, PersistPending(id) PROVE InterruptTypeOK'
  <2>1. entries' \in Seq(Entry)
    BY <1>1, <1>5, Appended DEF PersistPending
  <2>2. QED
    BY <1>1, <1>5, <2>1 DEF PersistPending, TakeInterrupt, Free, Handler, Entry
<1>6. CASE RequestAbort
  BY <1>1, <1>6 DEF RequestAbort, NoTask
<1>7. CASE HandOff
  BY <1>1, <1>7 DEF HandOff, HandToPi, NoTask
<1>8. CASE PersistHandedOff
  <2>1. task.id \in Interrupts
    BY <1>1, <1>8 DEF PersistHandedOff, NoTask
  <2>2. entries' \in Seq(Entry)
    BY <1>1, <1>8, <2>1, Appended DEF PersistHandedOff
  <2>3. QED
    BY <1>1, <1>8, <2>1, <2>2 DEF PersistHandedOff, Answer, Disposition, Entry
<1>9. CASE FailTask
  BY <1>1, <1>9 DEF FailTask, Answer
<1>10. CASE EndProcess
  <2>1. /\ alive' \in BOOLEAN /\ reloading' \in BOOLEAN /\ busy' \in BOOLEAN
        /\ task' = NoTask
        /\ wire' \subseteq Interrupts /\ queued' \subseteq Interrupts
        /\ failed' \subseteq Interrupts
        /\ UNCHANGED <<call, answers, entries, aborted>>
    BY <1>10, Zenon DEF EndProcess
  <2>2. crashes' \in Nat
    BY <1>1, <1>10 DEF EndProcess
  <2>3. QED
    BY <1>1, <2>1, <2>2, Zenon
<1>11. CASE RecoverPending
  <2>1. LatestPending => entries[Len(entries)].id \in Interrupts
    <3>1. LatestPending => Len(entries) \in DOMAIN entries
      BY <1>1 DEF LatestPending
    <3>2. QED
      BY <1>1, <3>1, EntryIds
  <2>2. CASE LatestPending
    BY <1>1, <1>11, <2>1, <2>2 DEF RecoverPending, Recovery, Free
  <2>3. CASE ~LatestPending
    BY <1>1, <1>11, <2>3 DEF RecoverPending, Free
  <2>4. QED
    BY <2>2, <2>3
<1>12. CASE BeginTurn \/ TakeGuidance \/ EndTurn
  BY <1>1, <1>12 DEF BeginTurn, TakeGuidance, EndTurn
<1>13. CASE UNCHANGED interruptVars
  BY <1>1, <1>13 DEF interruptVars
<1>14. CASE Restart
  BY <1>1, <1>14 DEF Restart
<1>15. QED
  BY <1>1, <1>2, <1>3, <1>4, <1>5, <1>6, <1>7, <1>8, <1>9, <1>10, <1>11, <1>12, <1>13,
     <1>14 DEF InterruptNext

\* A new pending interrupt: the gate was open, so nothing of its sender is pending.
LEMMA PersistPendingPreserves ==
  ASSUME InterruptInv, NEW id \in Interrupts, PersistPending(id)
  PROVE  Dispatched' /\ Ordered' /\ PendingIsNewest' /\ TaskPending'
<1> DEFINE n == Len(entries)
<1>1. /\ InterruptTypeOK /\ Persist("pending", id)
      /\ id \in wire /\ call[id] # "unsent"
      /\ \A i \in DOMAIN entries : entries[i].id # id
  BY DEF InterruptInv, PersistPending, TakeInterrupt, Dispatched
<1>2. /\ n \in Nat /\ DOMAIN entries = 1 .. n /\ DOMAIN entries' = 1 .. n + 1
      /\ \A i \in 1 .. n : entries'[i] = entries[i] /\ entries[i] \in Entry
      /\ entries'[n + 1] = Evidence("pending", id)
  BY <1>1, Appended
<1>3. Pending' = Pending \cup {id}
  <2>1. id \notin HandedOff
    BY <1>1 DEF HandedOff, Persisted
  <2>2. Persisted("pending")' = Persisted("pending") \cup {id} /\ HandedOff' = HandedOff
    BY <1>1, PersistedGrows DEF HandedOff
  <2>3. QED
    BY <2>1, <2>2 DEF Pending
<1>4. Dispatched'
  BY <1>1, <1>2 DEF InterruptInv, Dispatched, PersistPending, TakeInterrupt, Evidence
<1>5. Ordered'
  BY <1>1, <1>2 DEF InterruptInv, Ordered, Evidence
<1>6. PendingIsNewest'
  <2>1. SUFFICES ASSUME NEW a \in Pending \cup {id}
                 PROVE  \E i \in 1 .. n + 1 :
                          /\ entries'[i] = Evidence("pending", a)
                          /\ i \in EntriesOf(Sender(a))'
                          /\ \A j \in EntriesOf(Sender(a))' : j <= i
    BY <1>2, <1>3 DEF PendingIsNewest, NewestOf
  <2>2. CASE a = id
    <3>1. /\ entries'[n + 1] = Evidence("pending", a)
          /\ n + 1 \in EntriesOf(Sender(a))'
          /\ \A j \in EntriesOf(Sender(a))' : j <= n + 1
      BY <1>2, <2>2 DEF EntriesOf, Evidence
    <3>2. QED
      BY <1>2, <3>1
  <2>3. CASE a # id
    <3>1. PICK i \in 1 .. n : entries[i] = Evidence("pending", a) /\ NewestOf(Sender(a), i)
      BY <1>2, <2>1, <2>3 DEF InterruptInv, PendingIsNewest
    <3>2. Sender(a) # Sender(id)
      <4>1. SUFFICES ASSUME Sender(a) = Sender(id) PROVE HasPending(Sender(id))
        BY DEF PersistPending
      <4>2. i \in EntriesOf(Sender(id)) /\ \A j \in EntriesOf(Sender(id)) : j <= i
        BY <3>1, <4>1 DEF NewestOf
      <4>3. entries[i].phase = "pending"
        BY <3>1 DEF Evidence
      <4>4. QED
        BY <4>2, <4>3 DEF HasPending
    <3>3. EntriesOf(Sender(a))' = EntriesOf(Sender(a))
      BY <1>2, <3>2 DEF EntriesOf, Evidence
    <3>4. i \in EntriesOf(Sender(a))' /\ \A j \in EntriesOf(Sender(a))' : j <= i
      BY <3>1, <3>3, Zenon DEF NewestOf
    <3>5. i \in 1 .. n + 1 /\ entries'[i] = Evidence("pending", a)
      BY <1>2, <3>1
    <3>6. QED
      BY <3>4, <3>5, Zenon
  <2>4. QED
    BY <2>2, <2>3
<1>7. TaskPending'
  BY <1>3 DEF PersistPending, Handler, TaskPending
<1>8. QED
  BY <1>4, <1>5, <1>6, <1>7

\* Handed-off evidence: its interrupt was the only pending one of its sender.
LEMMA PersistHandedOffPreserves ==
  ASSUME InterruptInv, PersistHandedOff
  PROVE  Dispatched' /\ Ordered' /\ PendingIsNewest' /\ TaskPending'
<1> DEFINE n == Len(entries)
           id == task.id
<1>1. /\ InterruptTypeOK /\ Persist("handed-off", id)
      /\ id \in Interrupts /\ id \in Pending
  BY DEF InterruptInv, InterruptTypeOK, PersistHandedOff, TaskPending, NoTask
<1>2. /\ n \in Nat /\ DOMAIN entries = 1 .. n /\ DOMAIN entries' = 1 .. n + 1
      /\ \A i \in 1 .. n : entries'[i] = entries[i] /\ entries[i] \in Entry
      /\ entries'[n + 1] = Evidence("handed-off", id)
  BY <1>1, Appended
<1>3. Pending' = Pending \ {id}
  <2>1. HandedOff' = HandedOff \cup {id} /\ Persisted("pending")' = Persisted("pending")
    BY <1>1, PersistedGrows DEF HandedOff
  <2>2. QED
    BY <2>1 DEF Pending
<1>4. \E i \in 1 .. n : entries[i].id = id
  BY <1>1, <1>2 DEF Pending, Persisted
<1>5. Dispatched'
  BY <1>2, <1>4 DEF InterruptInv, Dispatched, PersistHandedOff, Evidence
<1>6. Ordered'
  BY <1>2 DEF InterruptInv, Ordered, Evidence
<1>7. PendingIsNewest'
  <2>1. SUFFICES ASSUME NEW a \in Pending, a # id
                 PROVE  \E i \in 1 .. n + 1 :
                          /\ entries'[i] = Evidence("pending", a)
                          /\ i \in EntriesOf(Sender(a))'
                          /\ \A j \in EntriesOf(Sender(a))' : j <= i
    BY <1>2, <1>3 DEF PendingIsNewest, NewestOf
  <2>2. Sender(a) # Sender(id)
    BY <1>1, <2>1, OnePending DEF OnePendingPerSender
  <2>3. EntriesOf(Sender(a))' = EntriesOf(Sender(a))
    BY <1>2, <2>2 DEF EntriesOf, Evidence
  <2>4. PICK i \in 1 .. n : entries[i] = Evidence("pending", a) /\ NewestOf(Sender(a), i)
    BY <1>2, <2>1 DEF InterruptInv, PendingIsNewest
  <2>5. i \in EntriesOf(Sender(a))' /\ \A j \in EntriesOf(Sender(a))' : j <= i
    BY <2>3, <2>4, Zenon DEF NewestOf
  <2>6. i \in 1 .. n + 1 /\ entries'[i] = Evidence("pending", a)
    BY <1>2, <2>4
  <2>7. QED
    BY <2>5, <2>6, Zenon
<1>8. TaskPending'
  BY DEF PersistHandedOff, TaskPending
<1>9. QED
  BY <1>5, <1>6, <1>7, <1>8

\* The recovery takes up an interrupt whose newest entry, and so every one, is pending.
LEMMA RecoverPreserves == ASSUME InterruptInv, RecoverPending PROVE TaskPending'
<1>1. Pending' = Pending
  BY LogUnchanged DEF RecoverPending
<1>2. CASE LatestPending
  <2> DEFINE n == Len(entries)
  <2>1. n \in Nat /\ n \in DOMAIN entries /\ DOMAIN entries = 1 .. n
    BY <1>2 DEF InterruptInv, InterruptTypeOK, LatestPending
  <2>2. entries[n].phase = "pending"
    BY <1>2 DEF LatestPending
  <2>3. entries[n].id \notin HandedOff
    BY <2>1, <2>2 DEF InterruptInv, Ordered, HandedOff, Persisted
  <2>4. entries[n].id \in Pending
    BY <2>1, <2>2, <2>3 DEF Pending, Persisted
  <2>5. QED
    BY <1>1, <1>2, <2>4 DEF RecoverPending, Recovery, TaskPending
<1>3. CASE ~LatestPending
  BY <1>3 DEF RecoverPending, TaskPending
<1>4. QED
  BY <1>2, <1>3

\* Every step preserves the invariant; most leave the log alone.
LEMMA NextIInv == InterruptInv /\ [InterruptNext]_interruptVars => InterruptInv'
<1>1. SUFFICES ASSUME InterruptInv, [InterruptNext]_interruptVars PROVE InterruptInv'
  OBVIOUS
<1>2. InterruptTypeOK'
  BY <1>1, NextTypeOK DEF InterruptInv
<1>3. ASSUME UNCHANGED entries, Dispatched', TaskPending' PROVE InterruptInv'
  BY <1>1, <1>2, <1>3, LogUnchanged DEF InterruptInv
<1>4. ASSUME UNCHANGED <<entries, task>> PROVE TaskPending'
  BY <1>1, <1>4, LogUnchanged DEF InterruptInv, TaskPending
<1>5. ASSUME UNCHANGED <<entries, call>>, wire' \subseteq wire PROVE Dispatched'
  BY <1>1, <1>5 DEF InterruptInv, Dispatched
<1>6. ASSUME NEW id \in Interrupts,
             Dispatch(id) \/ FailBeforeDispatch(id) \/ ReadAnswer(id) \/ LoseAnswer(id)
      PROVE  InterruptInv'
  <2>1. UNCHANGED <<entries, task>> /\ wire' \subseteq wire \cup {id}
    BY <1>6 DEF Dispatch, FailBeforeDispatch, ReadAnswer, LoseAnswer
  <2>2. /\ \A other \in Interrupts : call[other] # "unsent" => call'[other] # "unsent"
        /\ id \in wire' => call'[id] # "unsent"
        /\ call[id] # "unsent" => wire' = wire
    BY <1>1, <1>6 DEF Dispatch, FailBeforeDispatch, ReadAnswer, LoseAnswer, Learn, InterruptInv,
       InterruptTypeOK, Answers, Dispatched
  <2>3. wire \subseteq Interrupts /\ \A i \in DOMAIN entries : entries[i].id \in Interrupts
    BY <1>1, EntryIds DEF InterruptInv, InterruptTypeOK
  <2>4. ASSUME NEW other \in wire' PROVE call'[other] # "unsent"
    BY <1>1, <2>1, <2>2, <2>3, <2>4 DEF InterruptInv, Dispatched
  <2>5. ASSUME NEW i \in DOMAIN entries
        PROVE  call'[entries[i].id] # "unsent" /\ entries[i].id \notin wire'
    BY <1>1, <2>1, <2>2, <2>3, <2>5 DEF InterruptInv, Dispatched
  <2>6. Dispatched'
    BY <2>1, <2>4, <2>5 DEF Dispatched
  <2>7. QED
    BY <1>3, <1>4, <2>1, <2>6
<1>7. ASSUME NEW id \in Interrupts, RefusePending(id) \/ FailPersist(id)
      PROVE  InterruptInv'
  BY <1>3, <1>4, <1>5, <1>7 DEF RefusePending, FailPersist, TakeInterrupt
<1>8. ASSUME NEW id \in Interrupts, PersistPending(id) PROVE InterruptInv'
  BY <1>1, <1>2, <1>8, PersistPendingPreserves DEF InterruptInv
<1>9. CASE RequestAbort \/ HandOff \/ FailTask
  <2>1. UNCHANGED <<entries, call, wire>> /\ (task' = NoTask \/ (task # NoTask /\ task'.id = task.id))
    BY <1>1, <1>9 DEF RequestAbort, HandOff, FailTask, callers, NoTask, InterruptInv,
         InterruptTypeOK
  <2>2. TaskPending'
    BY <1>1, <2>1, LogUnchanged DEF InterruptInv, TaskPending
  <2>3. QED
    BY <1>3, <1>5, <2>1, <2>2
<1>10. CASE PersistHandedOff
  BY <1>1, <1>2, <1>10, PersistHandedOffPreserves DEF InterruptInv
<1>11. CASE EndProcess
  BY <1>3, <1>5, <1>11 DEF EndProcess, TaskPending
<1>12. CASE RecoverPending
  BY <1>1, <1>3, <1>5, <1>12, RecoverPreserves DEF RecoverPending, callers
<1>13. CASE Restart \/ BeginTurn \/ TakeGuidance \/ EndTurn \/ UNCHANGED interruptVars
  <2>1. UNCHANGED <<entries, task, call, wire>>
    BY <1>13 DEF Restart, BeginTurn, TakeGuidance, EndTurn, interruptVars, callers
  <2>2. QED
    BY <1>3, <1>4, <1>5, <2>1
<1>14. QED
  BY <1>1, <1>6, <1>7, <1>8, <1>9, <1>10, <1>11, <1>12, <1>13 DEF InterruptNext

\* The invariant holds of every behaviour of a target and its senders.
THEOREM InterruptIInv == InterruptSpec => []InterruptInv
<1>1. QED
  BY InitIInv, NextIInv, PTL DEF InterruptSpec

\* Every behaviour is well typed.
THEOREM InterruptTypeCorrect == InterruptSpec => []InterruptTypeOK
<1>1. InterruptInv => InterruptTypeOK
  BY DEF InterruptInv
<1>2. QED
  BY <1>1, InterruptIInv, PTL

\* The gate of interrupt (hasPendingInterrupt) admits at most one interrupt of a sender,
\* however handlers fail, the process ends and recoveries run.
THEOREM OnePendingHolds == InterruptSpec => []OnePendingPerSender
<1>1. QED
  BY OnePending, InterruptIInv, PTL

\* No handler and no recoverPending gives guidance to Pi that has handed-off evidence.
THEOREM HandedOffHolds == InterruptSpec => []HandedOffIsFinal
<1>1. InterruptInv => HandedOffIsFinal
  BY DEF InterruptInv, TaskPending, HandedOffIsFinal, NoTask, Pending
<1>2. QED
  BY <1>1, InterruptIInv, PTL

-----------------------------------------------------------------------------
(* What callers are told.                                                   *)

\* What each outcome claims of its interrupt.
Claim(id, outcome) ==
  /\ outcome = "interrupt-requested" => id \in HandedOff \cap aborted
  /\ outcome = "direct" => id \in HandedOff \ aborted
  /\ outcome = "failed" => id \in Persisted("pending")
  /\ outcome \in {"already-pending", "internal-error", "unreached"} =>
       id \notin Persisted("pending")

\* An answer, on its way or read, is true; its request has been received, and an
\* unreached one was never written.
Told(id) ==
  /\ answers[id] # "none" => call[id] = "dispatched" /\ id \notin wire
  /\ call[id] \in Answers \cup {"unreached"} => id \notin wire
  /\ Claim(id, call[id]) /\ Claim(id, answers[id])

\* Whether the target was busy, read once, is whether an abort has been requested.
AbortKnown ==
  /\ aborted \subseteq Persisted("pending")
  /\ task.step = "abort" => task.aborting /\ ~task.recovery
  /\ task # NoTask /\ ~task.recovery /\ task.step # "abort" =>
       (task.aborting <=> task.id \in aborted)
  /\ task # NoTask /\ ~task.recovery /\ ~task.aborting => task.id \notin aborted

ToldInv == AbortKnown /\ \A id \in Interrupts : Told(id)

\* The callers' own steps.
LEMMA CallersKeepTold ==
  ASSUME InterruptInv, ToldInv, NEW id \in Interrupts,
         Dispatch(id) \/ FailBeforeDispatch(id) \/ ReadAnswer(id) \/ LoseAnswer(id)
  PROVE  ToldInv'
<1>1. UNCHANGED <<entries, task, aborted>> /\ wire' \subseteq wire \cup {id}
  BY DEF Dispatch, FailBeforeDispatch, ReadAnswer, LoseAnswer, past
<1>2. /\ \A phase : Persisted(phase)' = Persisted(phase)
      /\ \A x, o : Claim(x, o)' <=> Claim(x, o)
  BY <1>1 DEF Persisted, Claim, HandedOff
<1>3. AbortKnown'
  BY <1>1, <1>2 DEF ToldInv, AbortKnown
<1>4. ASSUME NEW x \in Interrupts, x # id PROVE Told(x)'
  <2>1. call'[x] = call[x] /\ answers'[x] = answers[x] /\ (x \in wire' => x \in wire)
    BY <1>4 DEF Dispatch, FailBeforeDispatch, ReadAnswer, LoseAnswer, Learn, InterruptInv,
         InterruptTypeOK
  <2>2. QED
    BY <1>1, <1>2, <2>1 DEF ToldInv, Told, Claim
<1>5. Told(id)'
  <2>1. /\ call \in [Interrupts -> Answers \cup {"unsent", "dispatched", "unreached",
                                                "outcome-unknown"}]
        /\ answers \in [Interrupts -> Answers \cup {"none"}] /\ wire \subseteq Interrupts
        /\ Told(id) /\ (call[id] = "unsent" => id \notin wire)
    BY DEF InterruptInv, InterruptTypeOK, ToldInv, Dispatched
  <2>2. call[id] = "unsent" => id \notin Persisted("pending")
    BY DEF InterruptInv, Dispatched, Persisted
  <2>3. CASE Dispatch(id) \/ FailBeforeDispatch(id)
    BY <2>1, <2>2, <2>3, <1>2 DEF Dispatch, FailBeforeDispatch, Learn, Told, Claim,
         Answers
  <2>4. CASE ReadAnswer(id)
    BY <2>1, <2>4, <1>2 DEF ReadAnswer, Learn, Told, Claim, Answers
  <2>5. CASE LoseAnswer(id)
    BY <2>1, <2>5, <1>2 DEF LoseAnswer, Learn, Told, Claim, Answers
  <2>6. QED
    BY <2>3, <2>4, <2>5
<1>6. QED
  BY <1>3, <1>4, <1>5 DEF ToldInv

\* Told of one interrupt, after a step of the target that may answer it.
LEMMA AnswerKeepsTold ==
  ASSUME InterruptInv, ToldInv, NEW id \in Interrupts, NEW kind \in Answers, Answer(id, kind),
         UNCHANGED call, wire' \subseteq wire, id \notin wire', Claim(id, kind)',
         \A x \in Interrupts : \A o : Claim(x, o) => Claim(x, o)'
  PROVE  \A x \in Interrupts : Told(x)'
  BY DEF InterruptInv, InterruptTypeOK, ToldInv, Told, Answer, Answers

\* Steps of the target that answer nobody.
LEMMA SilenceKeepsTold ==
  ASSUME ToldInv, UNCHANGED <<call, answers>>, wire' \subseteq wire,
         \A x \in Interrupts : Claim(x, call[x]) => Claim(x, call[x])',
         \A x \in Interrupts : Claim(x, answers[x]) => Claim(x, answers[x])'
  PROVE  \A x \in Interrupts : Told(x)'
  BY DEF ToldInv, Told, Claim

\* The first evidence of an interrupt: it was on its way, so nobody was told of it.
LEMMA PersistPendingKeepsTold ==
  ASSUME InterruptInv, ToldInv, NEW id \in Interrupts, PersistPending(id)
  PROVE  ToldInv'
<1>1. /\ UNCHANGED <<call, answers, aborted>> /\ id \in wire /\ wire' = wire \ {id}
      /\ task' = Handler(id, IF busy THEN "abort" ELSE "hand") /\ busy \in BOOLEAN
  BY DEF PersistPending, TakeInterrupt, past, InterruptInv, InterruptTypeOK
<1>2. Persisted("pending")' = Persisted("pending") \cup {id} /\ HandedOff' = HandedOff
  BY PersistedGrows DEF InterruptInv, PersistPending, HandedOff
<1>3. id \notin Persisted("pending")
  BY <1>1 DEF InterruptInv, Dispatched, Persisted
<1>4. AbortKnown'
  BY <1>1, <1>2, <1>3 DEF ToldInv, AbortKnown, Handler
<1>5. ASSUME NEW x \in Interrupts
      PROVE  /\ Claim(x, call[x]) => Claim(x, call[x])'
             /\ Claim(x, answers[x]) => Claim(x, answers[x])'
  <2>1. x = id => answers[x] = "none" /\ call[x] \notin Answers \cup {"unreached"}
    BY <1>1 DEF ToldInv, Told
  <2>2. QED
    BY <1>1, <1>2, <2>1 DEF Claim, Answers
<1>6. \A x \in Interrupts : Told(x)'
  BY <1>1, <1>5, SilenceKeepsTold
<1>7. QED
  BY <1>4, <1>6 DEF ToldInv

\* An answer of success: the evidence is written, and whether there was an abort is
\* what the handler read when it began.
LEMMA PersistHandedOffKeepsTold ==
  ASSUME InterruptInv, ToldInv, PersistHandedOff
  PROVE  ToldInv'
<1>0. task.id \in Interrupts
  BY DEF InterruptInv, InterruptTypeOK, PersistHandedOff, NoTask
<1> PICK id \in Interrupts : id = task.id
  BY <1>0
<1>1. /\ id \in Pending /\ task # NoTask /\ task.step = "evidence"
      /\ UNCHANGED <<call, wire, aborted>> /\ task' = NoTask
      /\ task.aborting \in BOOLEAN /\ task.recovery \in BOOLEAN
  BY DEF InterruptInv, InterruptTypeOK, PersistHandedOff, TaskPending, NoTask, past
<1>2. HandedOff' = HandedOff \cup {id} /\ Persisted("pending")' = Persisted("pending")
  BY <1>1, PersistedGrows DEF InterruptInv, PersistHandedOff, HandedOff
<1>3. AbortKnown'
  BY <1>1, <1>2 DEF ToldInv, AbortKnown, NoTask
<1>4. \A x, o : Claim(x, o) => Claim(x, o)'
  BY <1>1, <1>2 DEF Claim
<1>5. id \notin wire'
  BY <1>1 DEF InterruptInv, Dispatched, Pending, Persisted
<1>6. CASE task.recovery
  <2>1. UNCHANGED answers
    BY <1>6 DEF PersistHandedOff
  <2>2. QED
    BY <1>1, <1>3, <1>4, <2>1, SilenceKeepsTold DEF ToldInv
<1>7. CASE ~task.recovery
  <2>1. PICK kind \in Answers : kind = Disposition(task) /\ Answer(id, kind)
    BY <1>7 DEF PersistHandedOff, Disposition, Answers
  <2>2. Claim(id, kind)'
    BY <1>1, <1>2, <1>7, <2>1 DEF ToldInv, AbortKnown, Disposition, Claim
  <2>3. QED
    BY <1>1, <1>3, <1>4, <1>5, <2>1, <2>2, AnswerKeepsTold DEF ToldInv
<1>8. QED
  BY <1>1, <1>6, <1>7

\* A failure is answered with pending evidence in the log, a refusal without.
LEMMA RefusalsKeepTold ==
  ASSUME InterruptInv, ToldInv,
         FailTask \/ \E id \in Interrupts : RefusePending(id) \/ FailPersist(id)
  PROVE  ToldInv'
<1>1. UNCHANGED <<entries, call, aborted>> /\ wire' \subseteq wire
  BY DEF FailTask, RefusePending, FailPersist, TakeInterrupt, past
<1>2. \A x, o : Claim(x, o)' <=> Claim(x, o)
  BY <1>1 DEF Claim, HandedOff, Persisted
<1>3. AbortKnown'
  <2>1. task' = task \/ task' = NoTask
    BY DEF FailTask, RefusePending, FailPersist
  <2>2. QED
    BY <1>1, <2>1 DEF ToldInv, AbortKnown, NoTask, Persisted
<1>4. ASSUME NEW id \in Interrupts, RefusePending(id) \/ FailPersist(id)
      PROVE  \A x \in Interrupts : Told(x)'
  <2>1. PICK kind \in {"already-pending", "internal-error"} :
          id \in wire /\ id \notin wire' /\ Answer(id, kind)
    BY <1>4 DEF RefusePending, FailPersist, TakeInterrupt
  <2>2. Claim(id, kind)'
    BY <1>2, <2>1 DEF InterruptInv, Dispatched, Persisted, Claim
  <2>3. QED
    BY <1>1, <1>2, <2>1, <2>2, AnswerKeepsTold DEF Answers
<1>5. CASE FailTask
  <2>1. PICK id \in Interrupts : id = task.id /\ id \in Pending
    BY <1>5 DEF FailTask, InterruptInv, InterruptTypeOK, TaskPending, NoTask
  <2>2. id \notin wire' /\ Claim(id, "failed")'
    BY <1>1, <1>2, <2>1 DEF InterruptInv, Dispatched, Pending, Persisted, Claim
  <2>3. CASE task.recovery
    <3>1. UNCHANGED answers
      BY <1>5, <2>3 DEF FailTask
    <3>2. QED
      BY <1>1, <1>2, <1>3, <3>1, SilenceKeepsTold DEF ToldInv
  <2>4. CASE ~task.recovery
    <3>1. Answer(id, "failed")
      BY <1>5, <2>1, <2>4 DEF FailTask
    <3>2. QED
      BY <1>1, <1>2, <1>3, <2>1, <2>2, <3>1, AnswerKeepsTold
         DEF Answers, ToldInv
  <2>5. QED
    BY <2>3, <2>4
<1>6. QED
  BY <1>3, <1>4, <1>5 DEF ToldInv

\* The abort is requested before there is handed-off evidence.
LEMMA AbortKeepsTold ==
  ASSUME InterruptInv, ToldInv, RequestAbort
  PROVE  ToldInv'
<1>1. /\ task # NoTask /\ task.id \in Pending /\ task \in [id : Interrupts,
           step : {"abort", "hand", "evidence"}, aborting : BOOLEAN, recovery : BOOLEAN]
      /\ UNCHANGED <<entries, call, answers, wire>>
      /\ aborted' = aborted \cup {task.id} /\ task' = [task EXCEPT !.step = "hand"]
  BY DEF RequestAbort, InterruptInv, InterruptTypeOK, TaskPending, NoTask, callers
<1>2. \A phase : Persisted(phase)' = Persisted(phase)
  BY <1>1 DEF Persisted
<1>3. AbortKnown'
  BY <1>1, <1>2 DEF ToldInv, AbortKnown, Pending, RequestAbort
<1>4. \A x, o : Claim(x, o) => Claim(x, o)'
  BY <1>1, <1>2 DEF Claim, Pending, HandedOff
<1>5. QED
  BY <1>1, <1>3, <1>4, SilenceKeepsTold DEF ToldInv

\* The other steps tell nobody anything.
LEMMA OthersKeepTold ==
  ASSUME InterruptInv, ToldInv,
         \/ HandOff \/ EndProcess \/ Restart \/ RecoverPending
         \/ BeginTurn \/ TakeGuidance \/ EndTurn \/ UNCHANGED interruptVars
  PROVE  ToldInv'
<1>1. UNCHANGED <<entries, call, answers, aborted>> /\ wire' \subseteq wire
  BY DEF HandOff, EndProcess, Restart, RecoverPending, BeginTurn, TakeGuidance, EndTurn,
     interruptVars, callers, past
<1>2. \A x, o : Claim(x, o)' <=> Claim(x, o)
  BY <1>1 DEF Claim, HandedOff, Persisted
<1>3. AbortKnown'
  <2>1. \/ task' = task \/ task' = NoTask
        \/ task' = [task EXCEPT !.step = "evidence"] /\ task.step = "hand"
        \/ \E id : task' = Recovery(id)
    BY DEF HandOff, EndProcess, Restart, RecoverPending, BeginTurn, TakeGuidance, EndTurn,
       interruptVars
  <2>2. task' = [task EXCEPT !.step = "evidence"] /\ task.step = "hand" => AbortKnown'
    BY <1>1 DEF InterruptInv, InterruptTypeOK, ToldInv, AbortKnown, NoTask, Persisted
  <2>3. QED
    BY <1>1, <2>1, <2>2 DEF ToldInv, AbortKnown, NoTask, Recovery, Persisted
<1>4. QED
  BY <1>1, <1>2, <1>3, SilenceKeepsTold DEF ToldInv

\* What a caller concludes of its interrupt is true (interruptMember and classifyLostAck),
\* whatever becomes of the target after it has answered.
THEOREM AnswerTruthfulHolds == InterruptSpec => []AnswerTruthful
<1>1. InterruptInit => ToldInv
  BY DEF InterruptInit, ToldInv, AbortKnown, Told, Claim, Answers, Persisted, NoTask
<1>2. InterruptInv /\ ToldInv /\ [InterruptNext]_interruptVars => ToldInv'
  BY CallersKeepTold, PersistPendingKeepsTold, PersistHandedOffKeepsTold,
       RefusalsKeepTold,
     AbortKeepsTold, OthersKeepTold DEF InterruptNext
<1>3. ToldInv => AnswerTruthful
  BY DEF ToldInv, Told, Claim, AnswerTruthful
<1>4. QED
  BY <1>1, <1>2, <1>3, InterruptIInv, PTL DEF InterruptSpec

-----------------------------------------------------------------------------
(* What a reload leaves behind.                                             *)

\* Pending evidence that is the newest is being worked on, or has failed here.
LatestTaken ==
  alive /\ ~reloading /\ LatestPending =>
    \/ entries[Len(entries)].id \in failed
    \/ task # NoTask /\ task.id = entries[Len(entries)].id

\* After its recovery a target rests on pending evidence only if writing it, or handing
\* it over, failed in this very process (recoverPending).
THEOREM LatestRecoveredHolds == InterruptSpec => []LatestRecovered
<1>1. InterruptInit => LatestTaken
  BY DEF InterruptInit, LatestTaken, LatestPending
<1>2. InterruptInv /\ LatestTaken /\ [InterruptNext]_interruptVars => LatestTaken'
  <2>1. SUFFICES ASSUME InterruptInv, LatestTaken, [InterruptNext]_interruptVars PROVE LatestTaken'
    OBVIOUS
  <2>2. ASSUME NEW id \in Interrupts, PersistPending(id) PROVE LatestTaken'
    <3>1. Len(entries') = Len(entries) + 1 /\ entries'[Len(entries) + 1].id = id
      <4>1. InterruptTypeOK /\ Persist("pending", id)
        BY <2>1, <2>2 DEF InterruptInv, PersistPending
      <4>2. Len(entries') = Len(entries) + 1 /\ entries'[Len(entries) + 1] = Evidence("pending", id)
        BY <4>1, Appended
      <4>3. QED
        BY <4>2 DEF Evidence
    <3>2. task' # NoTask /\ task'.id = id
      BY <2>2 DEF PersistPending, Handler, NoTask
    <3>3. QED
      BY <3>1, <3>2 DEF LatestTaken
  <2>3. CASE PersistHandedOff
    <3>1. task.id \in Interrupts
      BY <2>1, <2>3 DEF PersistHandedOff, InterruptInv, InterruptTypeOK, NoTask
    <3>2. Len(entries') = Len(entries) + 1 /\ entries'[Len(entries) + 1].phase = "handed-off"
      <4>1. InterruptTypeOK /\ Persist("handed-off", task.id)
        BY <2>1, <2>3 DEF InterruptInv, PersistHandedOff
      <4>2. /\ Len(entries') = Len(entries) + 1
            /\ entries'[Len(entries) + 1] = Evidence("handed-off", task.id)
        BY <3>1, <4>1, Appended
      <4>3. QED
        BY <4>2 DEF Evidence
    <3>3. QED
      BY <3>2 DEF LatestTaken, LatestPending
  <2>4. ASSUME UNCHANGED <<alive, reloading, entries, failed>>,
               task' = task \/ (task # NoTask /\ task' # NoTask /\ task'.id = task.id)
        PROVE  LatestTaken'
    BY <2>1, <2>4, Zenon DEF LatestTaken, LatestPending
  <2>5. CASE RequestAbort \/ HandOff
    <3>1. task # NoTask /\ task' # NoTask /\ task'.id = task.id
      BY <2>1, <2>5 DEF RequestAbort, HandOff, NoTask, InterruptInv, InterruptTypeOK
    <3>2. UNCHANGED <<alive, reloading, entries, failed>>
      BY <2>5 DEF RequestAbort, HandOff, past
    <3>3. QED
      BY <2>4, <3>1, <3>2
  <2>6. CASE FailTask
    BY <2>1, <2>6 DEF LatestTaken, LatestPending, FailTask
  <2>7. CASE EndProcess \/ Restart
    BY <2>7 DEF LatestTaken, EndProcess, Restart
  <2>8. CASE RecoverPending
    BY <2>8 DEF LatestTaken, LatestPending, RecoverPending, Recovery, NoTask
  <2>9. ASSUME \/ BeginTurn \/ TakeGuidance \/ EndTurn \/ UNCHANGED interruptVars
               \/ \E id \in Interrupts :
                    \/ Dispatch(id) \/ FailBeforeDispatch(id) \/ ReadAnswer(id) \/ LoseAnswer(id)
                    \/ RefusePending(id) \/ FailPersist(id)
        PROVE  LatestTaken'
    <3>1. UNCHANGED <<alive, reloading, entries, failed, task>>
      BY <2>9 DEF BeginTurn, TakeGuidance, EndTurn, Dispatch, FailBeforeDispatch,
           ReadAnswer,
         LoseAnswer, RefusePending, FailPersist, past, interruptVars
    <3>2. QED
      BY <2>4, <3>1
  <2>10. QED
    BY <2>1, <2>2, <2>3, <2>5, <2>6, <2>7, <2>8, <2>9 DEF InterruptNext
<1>3. LatestTaken => LatestRecovered
  BY DEF LatestTaken, LatestRecovered, Recovered, Free
<1>4. QED
  BY <1>1, <1>2, <1>3, InterruptIInv, PTL DEF InterruptSpec

(************************** Idle waits *************************************)
Phases == {"off", "probing", "probed", "sent", "acked", "done"}
Labels == {"name", "role"}

WaitRecord == [phase : Phases, target : Sessions \cup {None}, label : Labels,
               result : Results \cup {None}, saw : BOOLEAN]
LinkRecord == [state : {"none", "open", "half", "ended"}, at : Sessions \cup {None},
               out : Seq(Frames), asked : {None} \cup (Sessions \X Labels)]
Subscription == [req : Reqs, target : Sessions, delegated : BOOLEAN]

Types ==
  /\ wait \in [Reqs -> WaitRecord]
  /\ link \in [Reqs -> LinkRecord]
  /\ subs \in [Sessions -> SUBSET Subscription]

\* A connection belongs to a wait that asked on it.
Connections ==
  \A r \in Reqs :
    /\ wait[r].phase \in {"off", "probing", "probed"} => link[r].state = "none"
    /\ link[r].state = "none" => link[r] = NoLink
    /\ link[r].state # "none" => link[r].at \in Sessions
    /\ link[r].asked # None => link[r].state \in {"open", "half"}

\* What a connection asks: a session itself, or what the client's wait is for.
Questions ==
  \A r \in Reqs :
    /\ InProgress(r) => wait[r].result = None /\ wait[r].target \in Sessions
    /\ r[1] = "call" => wait[r].phase \notin {"probing", "probed"}
    /\ link[r].asked # None /\ r[1] # "call" => link[r].asked[1] = link[r].at
    /\ link[r].asked # None /\ r[1] = "call" /\ InProgress(r) => link[r].asked[1] = wait[r].target
    /\ InProgress(r) /\ r[1] # "call" /\ link[r].state = "open" => wait[r].target = link[r].at

\* A hop begins when its client's request is taken from the connection.
NotYet ==
  \A c \in Clients :
    wait[Call(c)].phase = "off" \/ link[Call(c)].asked # None => wait[Hop(c)].phase = "off"

Held ==
  \A s \in Sessions : \A sub \in subs[s] :
    /\ link[sub.req].at = s /\ link[sub.req].state \in {"open", "half"}
    /\ link[sub.req].asked = None
    /\ sub.delegated <=> sub.req[1] = "call"
    /\ sub.delegated => InProgress(Hop(sub.req[2]))

Together ==
  \A c \in Clients : InProgress(Hop(c)) /\ InProgress(Call(c)) =>
    /\ wait[Hop(c)].target = wait[Call(c)].target
    /\ wait[Hop(c)].saw => wait[Call(c)].saw

Quietly == Seq(Frames \ {"idle"})

IdleFrames == \A r \in Reqs : InProgress(r) /\ ~wait[r].saw => link[r].out \in Quietly

IInv == Types /\ Connections /\ Questions /\ NotYet /\ Held /\ Together /\ IdleFrames

-----------------------------------------------------------------------------
(* The parts of an action: names of requests, frames, connections.         *)

LEMMA Names ==
  /\ \A s \in Sessions, k \in Sockets : Tool(s, k) \in Reqs /\ Tool(s, k)[1] = "tool"
  /\ \A c \in Clients : /\ Call(c) \in Reqs /\ Call(c)[1] = "call" /\ Call(c)[2] = c
                        /\ Hop(c) \in Reqs /\ Hop(c)[1] = "hop" /\ Hop(c)[2] = c
  /\ \A r \in Reqs : /\ r[1] = "call" => r[2] \in Clients /\ r = Call(r[2])
                     /\ r[1] = "hop" => r[2] \in Clients /\ r = Hop(r[2])
  /\ \A c, d \in Clients : Call(c) # Hop(d) /\ (Hop(c) = Hop(d) => c = d)
BY DEF Tool, Call, Hop, Reqs

LEMMA Quiet1 ==
  /\ <<>> \in Quietly /\ <<"ack">> \in Quietly /\ <<"refused">> \in Quietly
  /\ \A e \in Frames : <<e>> \in Seq(Frames) /\ (e # "idle" => <<e>> \in Quietly)
  /\ <<"ack", "idle">> \in Seq(Frames)
  /\ \A e \in Frames : <<"ack", e>> \in Seq(Frames) /\ (e # "idle" => <<"ack", e>> \in Quietly)
BY DEF Quietly, Frames, Events

LEMMA Concats ==
  /\ \A p, q \in Quietly : p \o q \in Quietly
  /\ \A p, q \in Seq(Frames) : p \o q \in Seq(Frames)
  /\ \A q \in Seq(Frames) : q # <<>> => Head(q) \in Frames /\ Tail(q) \in Seq(Frames)
  /\ \A q \in Quietly : q # <<>> => Head(q) \in Frames \ {"idle"} /\ Tail(q) \in Quietly
<1>1. \A p, q \in Quietly : p \o q \in Quietly
  BY ConcatProperties DEF Quietly
<1>2. \A p, q \in Seq(Frames) : p \o q \in Seq(Frames)
  BY ConcatProperties
<1>3. \A q \in Seq(Frames) : q # <<>> => Head(q) \in Frames /\ Tail(q) \in Seq(Frames)
  BY HeadTailProperties
<1>4. \A q \in Quietly : q # <<>> => Head(q) \in Frames \ {"idle"} /\ Tail(q) \in Quietly
  BY HeadTailProperties DEF Quietly
<1>5. QED
  BY <1>1, <1>2, <1>3, <1>4

LEMMA QuietIsSeq == Quietly \subseteq Seq(Frames)
BY SeqMonotonic DEF Quietly

Links == [Reqs -> LinkRecord]

\* What saying frames does to one connection.
LEMMA SayIs ==
  ASSUME NEW l \in Links, NEW r \in Reqs, NEW frames \in Seq(Frames)
  PROVE  /\ Say(l, r, frames) \in Links
         /\ \A q \in Reqs : q # r => Say(l, r, frames)[q] = l[q]
         /\ Say(l, r, frames)[r].state = l[r].state
         /\ Say(l, r, frames)[r].at = l[r].at
         /\ Say(l, r, frames)[r].asked = l[r].asked
         /\ l[r].state # "open" => Say(l, r, frames)[r] = l[r]
         /\ l[r].out \in Quietly /\ frames \in Quietly => Say(l, r, frames)[r].out \in Quietly
<1>1. l[r].out \o frames \in Seq(Frames)
  BY Concats DEF Links, LinkRecord
<1>2. l[r].out \in Quietly /\ frames \in Quietly => l[r].out \o frames \in Quietly
  BY Concats
<1>3. QED
  BY <1>1, <1>2 DEF Say, Links, LinkRecord

LEMMA NoLinkIs == NoLink \in LinkRecord /\ NoLink.out \in Quietly
BY Quiet1, QuietIsSeq DEF NoLink, LinkRecord

\* What the asker's end does to its connection.
LEMMA HangUpIs ==
  ASSUME NEW l \in Links, NEW r \in Reqs
  PROVE  /\ HangUp(l, r) \in Links
         /\ \A q \in Reqs : q # r => HangUp(l, r)[q] = l[q]
         /\ l[r].state \in {"open", "half"} =>
              /\ HangUp(l, r)[r].state = "half" /\ HangUp(l, r)[r].at = l[r].at
              /\ HangUp(l, r)[r].asked = l[r].asked
         /\ l[r].state \notin {"open", "half"} => HangUp(l, r)[r] = NoLink
         /\ HangUp(l, r)[r].out \in Quietly
BY NoLinkIs, Quiet1, QuietIsSeq DEF HangUp, Links, LinkRecord

LEMMA EndedIs ==
  ASSUME NEW w \in [Reqs -> WaitRecord], NEW r \in Reqs, NEW result \in Results
  PROVE  /\ Ended(w, r, result) \in [Reqs -> WaitRecord]
         /\ \A q \in Reqs : q # r => Ended(w, r, result)[q] = w[q]
         /\ Ended(w, r, result)[r].phase = "done"
         /\ Ended(w, r, result)[r].result = result
         /\ Ended(w, r, result)[r].saw = FALSE
BY DEF Ended, NoWait, WaitRecord, Phases, Labels

-----------------------------------------------------------------------------
(* The outcome of a wait.                                                   *)

\* The connection of a request keeps its ends and what is asked on it.
SameEnds(q) ==
  /\ link'[q].state = link[q].state
  /\ link'[q].at = link[q].at
  /\ link'[q].asked = link[q].asked
  /\ link[q] = NoLink => link'[q] = NoLink

LEMMA HopFramesAre ==
  ASSUME NEW c \in Clients, NEW result \in Results,
         wait[Hop(c)].phase = "probing" => result \in Events
  PROVE  /\ HopFrames(c, result) \in Seq(Frames)
         /\ result # "idle" => HopFrames(c, result) \in Quietly
<1>1. Events \subseteq Frames /\ "refused" \in Frames
  BY DEF Frames
<1>2. QED
  BY <1>1, Quiet1, QuietIsSeq DEF HopFrames

\* What an outcome does to the connections: the asker's own ends, the caller of a hop
\* gets frames, none of them idle unless the hop's target was seen idle.
LEMMA FinishLinks ==
  ASSUME IInv, NEW r \in Reqs, InProgress(r), NEW result \in Results,
         result = "idle" => wait[r].saw,
         r[1] = "hop" /\ wait[r].phase = "probing" => result \in Events,
         Finish(r, result)
  PROVE  /\ link' \in Links
         /\ \A q \in Reqs : q # r => SameEnds(q)
         /\ link[r].state \in {"open", "half"} =>
              link'[r].state = "half" /\ link'[r].at = link[r].at /\ link'[r].asked = link[r].asked
         /\ link[r].state \notin {"open", "half"} => link'[r] = NoLink
         /\ \A q \in Reqs : q # r /\ InProgress(q) /\ ~wait[q].saw => link'[q].out \in Quietly
         /\ \A s \in Sessions : subs'[s] \subseteq subs[s]
         /\ r[1] = "hop" => \A s \in Sessions : \A sub \in subs'[s] : sub.req # Call(r[2])
         /\ subs' \in [Sessions -> SUBSET Subscription]
<1>1. link \in Links /\ wait \in [Reqs -> WaitRecord] /\ subs \in [Sessions -> SUBSET Subscription]
  BY DEF IInv, Types, Links
<1>2. CASE r[1] # "hop"
  <2>1. link' = HangUp(link, r) /\ subs' = subs
    BY <1>2 DEF Finish
  <2>2. QED
    BY <1>1, <1>2, <2>1, HangUpIs DEF SameEnds, IInv, IdleFrames
<1>3. CASE r[1] = "hop"
  <2> DEFINE c == r[2]
             f == HopFrames(c, result)
             said == Say(link, Call(c), f)
  <2>1. c \in Clients /\ r = Hop(c) /\ Call(c) \in Reqs /\ Call(c) # r
    BY <1>3, Names
  <2>2. link' = HangUp(said, r) /\ subs' = Unsubscribed(Call(c))
    BY <1>3, <2>1 DEF Finish, HopAnswer
  <2>3. f \in Seq(Frames) /\ (result # "idle" => f \in Quietly)
    BY <1>3, <2>1, HopFramesAre
  <2> HIDE DEF f
  <2>4. /\ said \in Links
        /\ \A q \in Reqs : q # Call(c) => said[q] = link[q]
        /\ said[Call(c)].state = link[Call(c)].state
        /\ said[Call(c)].at = link[Call(c)].at
        /\ said[Call(c)].asked = link[Call(c)].asked
        /\ link[Call(c)].state # "open" => said[Call(c)] = link[Call(c)]
        /\ link[Call(c)].out \in Quietly /\ f \in Quietly => said[Call(c)].out \in Quietly
    BY <1>1, <2>1, <2>3, SayIs
  <2> HIDE DEF said
  <2>5. /\ link' \in Links
        /\ \A q \in Reqs : q # r => link'[q] = said[q]
        /\ said[r].state \in {"open", "half"} =>
             link'[r].state = "half" /\ link'[r].at = said[r].at /\ link'[r].asked = said[r].asked
        /\ said[r].state \notin {"open", "half"} => link'[r] = NoLink
    BY <2>2, <2>4, HangUpIs
  <2>6. said[r] = link[r]
    BY <2>1, <2>4
  <2>7. \A q \in Reqs : q # r => SameEnds(q)
    BY <2>4, <2>5 DEF SameEnds, NoLink
  <2>8. ASSUME NEW q \in Reqs, q # r, InProgress(q), ~wait[q].saw
        PROVE  link'[q].out \in Quietly
    <3>1. link[q].out \in Quietly
      BY <2>8 DEF IInv, IdleFrames
    <3>2. CASE q # Call(c)
      BY <2>4, <2>5, <2>8, <3>1, <3>2
    <3>3. CASE q = Call(c)
      <4>1. ~wait[r].saw
        BY <2>1, <2>8, <3>3 DEF IInv, Together
      <4>2. f \in Quietly
        BY <4>1, <2>3
      <4>3. QED
        BY <2>4, <2>5, <2>8, <3>1, <3>3, <4>2
    <3>4. QED
      BY <3>2, <3>3
  <2>9. /\ \A s \in Sessions : subs'[s] \subseteq subs[s]
        /\ \A s \in Sessions : \A sub \in subs'[s] : sub.req # Call(c)
        /\ subs' \in [Sessions -> SUBSET Subscription]
    BY <1>1, <2>2 DEF Unsubscribed
  <2>10. QED
    BY <2>5, <2>6, <2>7, <2>8, <2>9
<1>4. QED
  BY <1>2, <1>3

LEMMA FinishKeeps ==
  ASSUME IInv, NEW r \in Reqs, InProgress(r), NEW result \in Results,
         result = "idle" => wait[r].saw,
         r[1] = "hop" /\ wait[r].phase = "probing" => result \in Events,
         Finish(r, result)
  PROVE  IInv'
<1>1. wait' = Ended(wait, r, result)
  BY DEF Finish
<1>2. /\ wait' \in [Reqs -> WaitRecord]
      /\ \A q \in Reqs : q # r => wait'[q] = wait[q]
      /\ wait'[r].phase = "done"
  <2>1. wait \in [Reqs -> WaitRecord]
    BY DEF IInv, Types
  <2>2. /\ Ended(wait, r, result) \in [Reqs -> WaitRecord]
        /\ \A q \in Reqs : q # r => Ended(wait, r, result)[q] = wait[q]
        /\ Ended(wait, r, result)[r].phase = "done"
    BY <2>1, EndedIs
  <2>3. QED
    BY <1>1, <2>2
<1>3. /\ link' \in Links
      /\ \A q \in Reqs : q # r => SameEnds(q)
      /\ link[r].state \in {"open", "half"} =>
           link'[r].state = "half" /\ link'[r].at = link[r].at /\ link'[r].asked = link[r].asked
      /\ link[r].state \notin {"open", "half"} => link'[r] = NoLink
      /\ \A q \in Reqs : q # r /\ InProgress(q) /\ ~wait[q].saw => link'[q].out \in Quietly
      /\ \A s \in Sessions : subs'[s] \subseteq subs[s]
      /\ r[1] = "hop" => \A s \in Sessions : \A sub \in subs'[s] : sub.req # Call(r[2])
      /\ subs' \in [Sessions -> SUBSET Subscription]
  BY FinishLinks
<1>4. Types'
  BY <1>2, <1>3 DEF Types, Links
<1>5. NoLink.state = "none" /\ NoLink.asked = None
  BY DEF NoLink
<1>6. Connections'
  BY <1>2, <1>3, <1>5 DEF IInv, Connections, SameEnds
<1>7. Questions'
  BY <1>2, <1>3, <1>5 DEF IInv, Questions, SameEnds, InProgress
<1>8. NotYet'
  <2> SUFFICES ASSUME NEW c \in Clients,
                      wait'[Call(c)].phase = "off" \/ link'[Call(c)].asked # None
               PROVE  wait'[Hop(c)].phase = "off"
    BY DEF NotYet
  <2>1. wait[Call(c)].phase = "off" \/ link[Call(c)].asked # None
    BY <1>2, <1>3, <1>5, Names DEF SameEnds
  <2>2. wait[Hop(c)].phase = "off" /\ Hop(c) # r
    BY <2>1 DEF IInv, NotYet, InProgress
  <2>3. QED
    BY <1>2, <2>2, Names
<1>9. Held'
  <2> SUFFICES ASSUME NEW s \in Sessions, NEW sub \in subs'[s]
               PROVE  /\ link'[sub.req].at = s /\ link'[sub.req].state \in {"open", "half"}
                      /\ link'[sub.req].asked = None
                      /\ sub.delegated <=> sub.req[1] = "call"
                      /\ sub.delegated => InProgress(Hop(sub.req[2]))'
    BY DEF Held
  <2>1. sub \in subs[s] /\ sub \in Subscription /\ sub.req \in Reqs
    BY <1>3 DEF IInv, Types, Subscription
  <2>2. /\ link[sub.req].at = s /\ link[sub.req].state \in {"open", "half"}
        /\ link[sub.req].asked = None
        /\ sub.delegated <=> sub.req[1] = "call"
        /\ sub.delegated => InProgress(Hop(sub.req[2]))
    BY <2>1 DEF IInv, Held
  <2>3. /\ link'[sub.req].at = s /\ link'[sub.req].state \in {"open", "half"}
        /\ link'[sub.req].asked = None
    BY <1>3, <2>1, <2>2 DEF SameEnds
  <2>4. ASSUME sub.delegated PROVE InProgress(Hop(sub.req[2]))'
    <3>1. sub.req[2] \in Clients /\ sub.req = Call(sub.req[2])
      BY <2>1, <2>2, <2>4, Names
    <3>2. Hop(sub.req[2]) # r
      BY <1>3, <3>1, Names
    <3>3. QED
      BY <1>2, <2>2, <2>4, <3>1, <3>2, Names DEF InProgress
  <2>5. QED
    BY <2>2, <2>3, <2>4
<1>10. Together'
  BY <1>2, Names DEF IInv, Together, InProgress
<1>11. IdleFrames'
  BY <1>2, <1>3 DEF IdleFrames, InProgress
<1>12. QED
  BY <1>4, <1>6, <1>7, <1>8, <1>9, <1>10, <1>11 DEF IInv

-----------------------------------------------------------------------------
(* The steps of the asker.                                                  *)

LEMMA InitKeeps == IdleWaitInit => IInv
<1> SUFFICES ASSUME IdleWaitInit PROVE IInv
  OBVIOUS
<1>1. /\ wait = [r \in Reqs |-> NoWait] /\ link = [r \in Reqs |-> NoLink]
      /\ subs = [s \in Sessions |-> {}]
  BY DEF IdleWaitInit
<1>2. NoWait \in WaitRecord /\ NoWait.phase = "off"
  BY DEF NoWait, WaitRecord, Phases, Labels
<1>3. NoLink.state = "none" /\ NoLink.asked = None
  BY DEF NoLink
<1>4. Types
  BY <1>1, <1>2, NoLinkIs DEF Types
<1>5. \A r \in Reqs : ~InProgress(r) /\ link[r].asked = None
  BY <1>1, <1>2, <1>3 DEF InProgress
<1>6. Connections /\ Questions
  BY <1>1, <1>2, <1>3, <1>5 DEF Connections, Questions
<1>7. NotYet /\ Together
  BY <1>1, <1>2, <1>5, Names DEF NotYet, Together
<1>8. Held /\ IdleFrames
  BY <1>1, <1>5 DEF Held, IdleFrames
<1>9. QED
  BY <1>4, <1>6, <1>7, <1>8 DEF IInv

LEMMA OpenedIs ==
  ASSUME NEW l \in Links, NEW r \in Reqs, NEW s \in Sessions, NEW t \in Sessions,
         NEW label \in Labels
  PROVE  /\ Opened(l, r, s, t, label) \in Links
         /\ \A q \in Reqs : q # r => Opened(l, r, s, t, label)[q] = l[q]
         /\ Opened(l, r, s, t, label)[r].state = "open"
         /\ Opened(l, r, s, t, label)[r].at = s
         /\ Opened(l, r, s, t, label)[r].out \in Quietly
         /\ Opened(l, r, s, t, label)[r].asked = <<t, label>>
BY Quiet1, QuietIsSeq DEF Opened, Links, LinkRecord

LEMMA CallToolKeeps ==
  ASSUME IInv, NEW s \in Sessions, NEW t \in Sessions, NEW label \in Labels, CallTool(s, t, label)
  PROVE  IInv'
<1> DEFINE k == NewSocket(s)
           r == Tool(s, k)
<1>0. k \in Sockets /\ link[Tool(s, k)].state = "none"
  BY DEF CallTool, NewSocket
<1>1. /\ r \in Reqs /\ r[1] = "tool" /\ ~InProgress(r) /\ link[r].state = "none"
      /\ wait' = Began(wait, r, "probing", t, label) /\ link' = link /\ subs' = subs
  BY <1>0, Names DEF CallTool, Unblocked
<1>2. \A c \in Clients : Call(c) # r /\ Hop(c) # r
  BY <1>1, Names
<1> HIDE DEF r
<1>3. wait \in [Reqs -> WaitRecord] /\ "probing" \in Phases
  BY DEF IInv, Types, Phases
<1>4. /\ Began(wait, r, "probing", t, label) \in [Reqs -> WaitRecord]
      /\ \A q \in Reqs : q # r => Began(wait, r, "probing", t, label)[q] = wait[q]
      /\ Began(wait, r, "probing", t, label)[r].phase = "probing"
      /\ Began(wait, r, "probing", t, label)[r].target = t
      /\ Began(wait, r, "probing", t, label)[r].result = None
  BY <1>1, <1>3 DEF Began, WaitRecord
<1>5. /\ wait' \in [Reqs -> WaitRecord] /\ \A q \in Reqs : q # r => wait'[q] = wait[q]
      /\ wait'[r].phase = "probing" /\ wait'[r].target = t /\ wait'[r].result = None
  BY <1>1, <1>4
<1>6. link[r] = NoLink /\ link[r].asked = None
  BY <1>1 DEF IInv, Connections, NoLink
<1>7. Types'
  BY <1>1, <1>5 DEF IInv, Types
<1>8. Connections'
  BY <1>1, <1>5 DEF IInv, Connections
<1>9. Questions'
  BY <1>1, <1>5, <1>6 DEF IInv, Questions, InProgress
<1>10. NotYet' /\ Together'
  BY <1>1, <1>2, <1>5, Names DEF IInv, NotYet, Together, InProgress
<1>11. Held'
  BY <1>1, <1>2, <1>5, Names DEF IInv, Held, InProgress, Types, Subscription
<1>12. IdleFrames'
  BY <1>1, <1>5, <1>6, NoLinkIs DEF IInv, IdleFrames, InProgress
<1>13. QED
  BY <1>7, <1>8, <1>9, <1>10, <1>11, <1>12 DEF IInv

LEMMA CallClientKeeps ==
  ASSUME IInv, NEW c \in Clients, NEW s \in Sessions, NEW t \in Sessions, CallClient(c, s, t)
  PROVE  IInv'
<1> DEFINE r == Call(c)
<1>1. /\ r \in Reqs /\ r[1] = "call" /\ wait[r].phase = "off"
      /\ wait' = Began(wait, r, "sent", t, "name") /\ link' = Opened(link, r, s, t, "name")
      /\ subs' = subs /\ wait[Hop(c)].phase = "off"
  BY Names DEF CallClient, IInv, NotYet
<1>2. \A d \in Clients : Hop(d) # r /\ (Call(d) = r => d = c)
  BY <1>1, Names
<1> HIDE DEF r
<1>3. wait \in [Reqs -> WaitRecord] /\ link \in Links /\ "sent" \in Phases /\ "name" \in Labels
  BY DEF IInv, Types, Phases, Labels, Links
<1>4. /\ Began(wait, r, "sent", t, "name") \in [Reqs -> WaitRecord]
      /\ \A q \in Reqs : q # r => Began(wait, r, "sent", t, "name")[q] = wait[q]
      /\ Began(wait, r, "sent", t, "name")[r].phase = "sent"
      /\ Began(wait, r, "sent", t, "name")[r].target = t
      /\ Began(wait, r, "sent", t, "name")[r].result = None
  BY <1>1, <1>3 DEF Began, WaitRecord
<1>5. /\ Opened(link, r, s, t, "name") \in Links
      /\ \A q \in Reqs : q # r => Opened(link, r, s, t, "name")[q] = link[q]
      /\ Opened(link, r, s, t, "name")[r].state = "open"
      /\ Opened(link, r, s, t, "name")[r].at = s
      /\ Opened(link, r, s, t, "name")[r].out \in Quietly
      /\ Opened(link, r, s, t, "name")[r].asked = <<t, "name">>
  BY <1>1, <1>3, OpenedIs
<1>6. /\ wait' \in [Reqs -> WaitRecord] /\ \A q \in Reqs : q # r => wait'[q] = wait[q]
      /\ wait'[r].phase = "sent" /\ wait'[r].target = t /\ wait'[r].result = None
      /\ link' \in Links /\ \A q \in Reqs : q # r => link'[q] = link[q]
      /\ link'[r].state = "open" /\ link'[r].at = s /\ link'[r].out \in Quietly
      /\ link'[r].asked = <<t, "name">>
  BY <1>1, <1>4, <1>5
<1>7. link[r].state = "none"
  BY <1>1 DEF IInv, Connections
<1>8. Types'
  BY <1>1, <1>6 DEF IInv, Types, Links
<1>9. Connections'
  BY <1>6 DEF IInv, Connections
<1>10. Questions'
  BY <1>1, <1>6 DEF IInv, Questions, InProgress
<1>11. NotYet' /\ Together'
  BY <1>1, <1>2, <1>6, Names DEF IInv, NotYet, Together, InProgress
<1>12. Held'
  BY <1>1, <1>2, <1>6, <1>7, Names DEF IInv, Held, InProgress, Types, Subscription
<1>13. IdleFrames'
  BY <1>6 DEF IInv, IdleFrames, InProgress
<1>14. QED
  BY <1>8, <1>9, <1>10, <1>11, <1>12, <1>13 DEF IInv

\* A wait goes on: its phase changes, nothing else of it does.
Advances(r, phase) ==
  /\ wait' = [wait EXCEPT ![r].phase = phase]
  /\ subs' = subs

LEMMA AdvancesIs ==
  ASSUME IInv, NEW r \in Reqs, NEW phase \in Phases, Advances(r, phase)
  PROVE  /\ wait' \in [Reqs -> WaitRecord]
         /\ \A q \in Reqs : q # r => wait'[q] = wait[q]
         /\ wait'[r].phase = phase
         /\ wait'[r].target = wait[r].target
         /\ wait'[r].label = wait[r].label
         /\ wait'[r].result = wait[r].result
         /\ wait'[r].saw = wait[r].saw
BY DEF Advances, IInv, Types, WaitRecord

\* The probe and the acknowledgement leave what the invariant says of waits as it is.
LEMMA AdvancingKeeps ==
  ASSUME IInv, NEW r \in Reqs, NEW phase \in {"probed", "sent", "acked"}, Advances(r, phase),
         InProgress(r),
         link' \in Links,
         \A q \in Reqs : SameEnds(q),
         \A q \in Reqs : InProgress(q) /\ ~wait[q].saw => link'[q].out \in Quietly,
         phase = "probed" => link[r].state = "none" /\ r[1] # "call"
  PROVE  IInv'
<1>1. /\ wait' \in [Reqs -> WaitRecord]
      /\ \A q \in Reqs : q # r => wait'[q] = wait[q]
      /\ wait'[r].phase = phase
      /\ wait'[r].target = wait[r].target
      /\ wait'[r].result = wait[r].result
      /\ wait'[r].saw = wait[r].saw
  BY AdvancesIs DEF Phases
<1>2. subs' = subs
  BY DEF Advances
<1>3. \A q \in Reqs : /\ wait'[q].target = wait[q].target
                      /\ wait'[q].result = wait[q].result
                      /\ wait'[q].saw = wait[q].saw
                      /\ InProgress(q)' <=> InProgress(q)
                      /\ wait'[q].phase = "off" <=> wait[q].phase = "off"
  BY <1>1 DEF InProgress
<1>4. Types'
  BY <1>1, <1>2 DEF IInv, Types, Links
<1>5. Connections'
  BY <1>1 DEF IInv, Connections, SameEnds
<1>6. Questions'
  <2>1. \A q \in Reqs : q[1] = "call" => wait'[q].phase \notin {"probing", "probed"}
    BY <1>1 DEF IInv, Questions
  <2>2. QED
    BY <1>3, <2>1 DEF IInv, Questions, SameEnds
<1>7. NotYet' /\ Together'
  BY <1>3, Names DEF IInv, NotYet, Together, SameEnds
<1>8. Held'
  <2> SUFFICES ASSUME NEW s \in Sessions, NEW sub \in subs[s]
               PROVE  /\ link'[sub.req].at = s /\ link'[sub.req].state \in {"open", "half"}
                      /\ link'[sub.req].asked = None
                      /\ sub.delegated <=> sub.req[1] = "call"
                      /\ sub.delegated => InProgress(Hop(sub.req[2]))'
    BY <1>2 DEF Held
  <2>1. sub.req \in Reqs
    BY DEF IInv, Types, Subscription
  <2>2. QED
    BY <1>3, <2>1, Names DEF IInv, Held, SameEnds
<1>9. IdleFrames'
  BY <1>3 DEF IdleFrames
<1>10. QED
  BY <1>4, <1>5, <1>6, <1>7, <1>8, <1>9 DEF IInv

LEMMA ProbeKeeps ==
  ASSUME IInv, NEW r \in Reqs, Probe(r) PROVE IInv'
<1>1. InProgress(r) /\ wait[r].phase = "probing"
  BY DEF Probe, InProgress
<1>2. CASE server[wait[r].target] = "up"
  <2>1. Advances(r, "probed") /\ link' = link
    BY <1>2 DEF Probe, Advances
  <2>2. link \in Links /\ link[r].state = "none" /\ r[1] # "call"
    BY <1>1 DEF IInv, Types, Links, Connections, Questions
  <2>3. \A q \in Reqs : SameEnds(q)
    BY <2>1 DEF SameEnds
  <2>4. \A q \in Reqs : InProgress(q) /\ ~wait[q].saw => link'[q].out \in Quietly
    BY <2>1 DEF IInv, IdleFrames
  <2>5. QED
    BY <1>1, <2>1, <2>2, <2>3, <2>4, AdvancingKeeps
<1>3. CASE server[wait[r].target] # "up"
  <2>1. Finish(r, "offline") /\ "offline" \in Events /\ "offline" \in Results
    BY <1>3 DEF Probe, Events, Results
  <2>2. QED
    BY <1>1, <2>1, FinishKeeps
<1>4. QED
  BY <1>2, <1>3

LEMMA ConnectKeeps ==
  ASSUME IInv, NEW r \in Reqs, Connect(r) PROVE IInv'
<1> DEFINE t == wait[r].target
<1>1. InProgress(r) /\ wait[r].phase = "probed"
  BY DEF Connect, InProgress
<1>2. t \in Sessions /\ r[1] # "call" /\ link[r].state = "none"
  BY <1>1 DEF IInv, Questions, Connections
<1>3. CASE server[t] = "up"
  <2>1. Advances(r, "sent") /\ link' = Opened(link, r, t, t, wait[r].label)
    BY <1>3 DEF Connect, Advances
  <2>2. link \in Links /\ wait[r].label \in Labels
    BY DEF IInv, Types, Links, WaitRecord
  <2>3. /\ link' \in Links
        /\ \A q \in Reqs : q # r => link'[q] = link[q]
        /\ link'[r].state = "open" /\ link'[r].at = t
        /\ link'[r].out \in Quietly
        /\ link'[r].asked = <<t, wait[r].label>>
    BY <1>2, <2>1, <2>2, OpenedIs
  <2>4. /\ wait' \in [Reqs -> WaitRecord]
        /\ \A q \in Reqs : q # r => wait'[q] = wait[q]
        /\ wait'[r].phase = "sent"
        /\ wait'[r].target = t
        /\ wait'[r].result = wait[r].result
        /\ wait'[r].saw = wait[r].saw
    BY <2>1, AdvancesIs DEF Phases
  <2>5. Types' /\ subs' = subs
    BY <2>1, <2>3, <2>4 DEF IInv, Types, Links, Advances
  <2>6. Connections'
    BY <1>2, <2>3, <2>4 DEF IInv, Connections
  <2>7. Questions'
    BY <1>1, <1>2, <2>3, <2>4 DEF IInv, Questions, InProgress
  <2>8. \A c \in Clients : Call(c) # r
    BY <1>2, Names
  <2>9. NotYet' /\ Together'
    BY <1>1, <2>3, <2>4, <2>8, Names DEF IInv, NotYet, Together, InProgress
  <2>10. Held'
    BY <1>1, <1>2, <2>3, <2>4, <2>5, Names DEF IInv, Held, InProgress, Types, Subscription
  <2>11. IdleFrames'
    BY <1>1, <2>3, <2>4 DEF IInv, IdleFrames, InProgress
  <2>12. QED
    BY <2>5, <2>6, <2>7, <2>9, <2>10, <2>11 DEF IInv
<1>4. CASE server[t] # "up"
  <2>1. Finish(r, "failed") /\ "failed" \in Results
    BY <1>4 DEF Connect, Results
  <2>2. QED
    BY <1>1, <2>1, FinishKeeps
<1>5. QED
  BY <1>3, <1>4

LEMMA ReceiveAckKeeps ==
  ASSUME IInv, NEW r \in Reqs, Receive(r), Head(link[r].out) = "ack" PROVE IInv'
<1> DEFINE rest == [link EXCEPT ![r].out = Tail(@)]
<1>1. /\ InProgress(r) /\ link[r].out # <<>> /\ Advances(r, "acked")
      /\ link' = IF r[1] = "hop" THEN Say(rest, Call(r[2]), <<"ack">>) ELSE rest
  BY DEF Receive, InProgress, Advances
<1>2. /\ link \in Links /\ link[r].out \in Seq(Frames) /\ link[r].state # "none"
      /\ Tail(link[r].out) \in Seq(Frames)
      /\ link[r].out \in Quietly => Tail(link[r].out) \in Quietly
  <2>1. link \in Links /\ link[r].out \in Seq(Frames)
    BY DEF IInv, Types, Links, LinkRecord
  <2>2. link[r].state # "none"
    BY <1>1 DEF IInv, Connections, NoLink
  <2>3. QED
    BY <1>1, <2>1, <2>2, Concats
<1>3. /\ rest \in Links
      /\ \A q \in Reqs : q # r => rest[q] = link[q]
      /\ rest[r].state = link[r].state /\ rest[r].at = link[r].at
      /\ rest[r].asked = link[r].asked
      /\ link[r].out \in Quietly => rest[r].out \in Quietly
  BY <1>2 DEF Links, LinkRecord
<1> HIDE DEF rest
<1>4. NoLink.state = "none"
  BY DEF NoLink
<1>5. \A q \in Reqs : InProgress(q) /\ ~wait[q].saw => rest[q].out \in Quietly
  BY <1>3 DEF IInv, IdleFrames
<1>6. /\ link' \in Links
      /\ \A q \in Reqs : SameEnds(q)
      /\ \A q \in Reqs : InProgress(q) /\ ~wait[q].saw => link'[q].out \in Quietly
  <2>1. CASE r[1] # "hop"
    BY <1>1, <1>2, <1>3, <1>4, <1>5, <2>1 DEF SameEnds
  <2>2. CASE r[1] = "hop"
    <3> DEFINE k == Call(r[2])
    <3>1. k \in Reqs /\ link' = Say(rest, k, <<"ack">>)
      BY <1>1, <2>2, Names
    <3>2. <<"ack">> \in Seq(Frames) /\ <<"ack">> \in Quietly
      BY Quiet1, QuietIsSeq
    <3> HIDE DEF k
    <3>3. /\ link' \in Links
          /\ \A q \in Reqs : q # k => link'[q] = rest[q]
          /\ link'[k].state = rest[k].state
          /\ link'[k].at = rest[k].at
          /\ link'[k].asked = rest[k].asked
          /\ rest[k].state # "open" => link'[k] = rest[k]
          /\ rest[k].out \in Quietly => link'[k].out \in Quietly
      BY <1>3, <3>1, <3>2, SayIs
    <3>4. \A q \in Reqs : SameEnds(q)
      BY <1>2, <1>3, <1>4, <3>1, <3>3 DEF SameEnds
    <3>5. QED
      BY <1>5, <3>1, <3>3, <3>4
  <2>3. QED
    BY <2>1, <2>2
<1>7. QED
  BY <1>1, <1>6, AdvancingKeeps

\* The answer that a wait takes from its connection.
LEMMA AnswerIs ==
  ASSUME IInv, NEW r \in Reqs, Receive(r), Head(link[r].out) # "ack"
  PROVE  \E result \in Results :
           /\ Finish(r, result) /\ InProgress(r) /\ wait[r].phase # "probing"
           /\ result = "idle" => wait[r].saw
<1> DEFINE frame == Head(link[r].out)
           result == IF frame \in Events /\ wait[r].phase = "acked" THEN frame ELSE "failed"
<1>1. /\ InProgress(r) /\ wait[r].phase # "probing" /\ link[r].out # <<>> /\ Finish(r, result)
  BY DEF Receive, InProgress
<1>2. result \in Results
  BY DEF Events, Results
<1>3. ASSUME ~wait[r].saw PROVE frame # "idle"
  <2>1. link[r].out \in Quietly
    BY <1>1, <1>3 DEF IInv, IdleFrames
  <2>2. QED
    BY <1>1, <2>1, Concats
<1>4. result = "idle" => wait[r].saw
  BY <1>3
<1>5. QED
  BY <1>1, <1>2, <1>4

LEMMA ReceiveKeeps ==
  ASSUME IInv, NEW r \in Reqs, Receive(r) PROVE IInv'
<1>1. CASE Head(link[r].out) = "ack"
  BY <1>1, ReceiveAckKeeps
<1>2. CASE Head(link[r].out) # "ack"
  <2>1. PICK result \in Results :
           /\ Finish(r, result) /\ InProgress(r) /\ wait[r].phase # "probing"
           /\ result = "idle" => wait[r].saw
    BY <1>2, AnswerIs
  <2>2. QED
    BY <2>1, FinishKeeps
<1>3. QED
  BY <1>1, <1>2

\* The other ends of a wait: the connection ended, the deadline, an abort, a message.
Gives(r, result) ==
  /\ InProgress(r) /\ Finish(r, result)
  /\ result \in {"offline", "timeout", "failed"}
  /\ r[1] = "hop" /\ wait[r].phase = "probing" => result \in Events

LEMMA GivesUp ==
  ASSUME NEW r \in Reqs, SeeEnd(r) \/ Expire(r) \/ Abort(r), IInv
  PROVE  \E result \in {"offline", "timeout", "failed"} : Gives(r, result)
<1>1. CASE SeeEnd(r)
  BY <1>1 DEF SeeEnd, Gives, Events
<1>2. CASE Expire(r)
  BY <1>2 DEF Expire, Gives, Events
<1>3. CASE Abort(r)
  BY <1>3 DEF Abort, Gives, Events
<1>4. QED
  BY <1>1, <1>2, <1>3

LEMMA GivesKeeps ==
  ASSUME IInv, NEW r \in Reqs, NEW result, Gives(r, result) PROVE IInv'
<1>1. result \in Results /\ result # "idle"
  BY DEF Gives, Results
<1>2. QED
  BY <1>1, FinishKeeps DEF Gives

-----------------------------------------------------------------------------
(* The steps of the session that is asked.                                  *)

\* A request is taken from its connection, which keeps its ends.
Taken(r) ==
  /\ link' \in Links
  /\ \A q \in Reqs : q # r => link'[q] = link[q]
  /\ link'[r].state = link[r].state
  /\ link'[r].at = link[r].at
  /\ link'[r].asked = None

LEMMA AnsweredIs ==
  ASSUME IInv, NEW r \in Reqs, link[r].asked # None, NEW frames \in Seq(Frames),
         link' = Say([link EXCEPT ![r].asked = None], r, frames)
  PROVE  /\ Taken(r)
         /\ link[r].out \in Quietly /\ (frames \in Quietly \/ link[r].state # "open") =>
              link'[r].out \in Quietly
<1> DEFINE answered == [link EXCEPT ![r].asked = None]
<1>1. /\ answered \in Links
      /\ \A q \in Reqs : q # r => answered[q] = link[q]
      /\ answered[r].state = link[r].state /\ answered[r].at = link[r].at
      /\ answered[r].asked = None /\ answered[r].out = link[r].out
  BY DEF IInv, Types, Links, LinkRecord
<1>2. link' = Say(answered, r, frames)
  OBVIOUS
<1> HIDE DEF answered
<1> DEFINE said == Say(answered, r, frames)
<1>3. /\ said \in Links
      /\ \A q \in Reqs : q # r => said[q] = answered[q]
      /\ said[r].state = answered[r].state
      /\ said[r].at = answered[r].at
      /\ said[r].asked = answered[r].asked
      /\ answered[r].state # "open" => said[r] = answered[r]
      /\ answered[r].out \in Quietly /\ frames \in Quietly => said[r].out \in Quietly
  BY <1>1, SayIs
<1> HIDE DEF said
<1>4. link' = said
  BY <1>2 DEF said
<1>5. QED
  BY <1>1, <1>3, <1>4 DEF Taken

\* What taking a request leaves true, whatever the answer.
LEMMA TakenKeeps ==
  ASSUME IInv, NEW r \in Reqs, link[r].asked # None, Taken(r)
  PROVE  /\ \A q \in Reqs : /\ link'[q].state = link[q].state /\ link'[q].at = link[q].at
                            /\ link'[q].asked # None => link'[q].asked = link[q].asked
                            /\ link[q].state = "none" => link'[q] = link[q]
         /\ link[r].state \in {"open", "half"} /\ link[r].at \in Sessions
         /\ \A s \in Sessions : \A sub \in subs[s] : sub.req # r /\ sub.req \in Reqs
         /\ \A s \in Sessions : \A sub \in subs[s] : link'[sub.req] = link[sub.req]
<1>1. link[r].state \in {"open", "half"} /\ link[r].at \in Sessions
  BY DEF IInv, Connections
<1>2. \A s \in Sessions : \A sub \in subs[s] : sub.req # r /\ sub.req \in Reqs
  BY DEF IInv, Held, Types, Subscription
<1>3. QED
  BY <1>1, <1>2 DEF Taken

LEMMA SawIdleIs ==
  ASSUME IInv, NEW s
  PROVE  /\ SawIdle(s) \in [Reqs -> WaitRecord]
         /\ \A q \in Reqs :
              /\ SawIdle(s)[q].phase = wait[q].phase
              /\ SawIdle(s)[q].target = wait[q].target
              /\ SawIdle(s)[q].label = wait[q].label
              /\ SawIdle(s)[q].result = wait[q].result
              /\ SawIdle(s)[q].saw <=> wait[q].saw \/ (InProgress(q) /\ wait[q].target = s)
<1>1. wait \in [Reqs -> WaitRecord]
  BY DEF IInv, Types
<1>2. ASSUME NEW q \in Reqs
      PROVE  /\ SawIdle(s)[q] \in WaitRecord
             /\ SawIdle(s)[q].phase = wait[q].phase
             /\ SawIdle(s)[q].target = wait[q].target
             /\ SawIdle(s)[q].label = wait[q].label
             /\ SawIdle(s)[q].result = wait[q].result
             /\ SawIdle(s)[q].saw <=> wait[q].saw \/ (InProgress(q) /\ wait[q].target = s)
  BY <1>1 DEF SawIdle, WaitRecord
<1>3. QED
  BY <1>2 DEF SawIdle

LEMMA ServeRefuseKeeps ==
  ASSUME IInv, NEW r \in Reqs, link[r].asked # None,
         Taken(r), link[r].out \in Quietly => link'[r].out \in Quietly,
         UNCHANGED <<subs, wait>>
  PROVE  IInv'
<1>1. /\ \A q \in Reqs : /\ link'[q].state = link[q].state /\ link'[q].at = link[q].at
                         /\ link'[q].asked # None => link'[q].asked = link[q].asked
                         /\ link[q].state = "none" => link'[q] = link[q]
      /\ \A s \in Sessions : \A sub \in subs[s] : link'[sub.req] = link[sub.req]
  BY TakenKeeps
<1>2. Types' /\ subs' = subs /\ wait' = wait
  BY DEF IInv, Types, Taken, Links
<1>3. Connections' /\ Questions'
  BY <1>1, <1>2 DEF IInv, Connections, Questions, InProgress
<1>4. NotYet' /\ Together'
  BY <1>1, <1>2, Names DEF IInv, NotYet, Together, InProgress
<1>5. Held'
  BY <1>1, <1>2 DEF IInv, Held, InProgress
<1>6. IdleFrames'
  BY <1>2 DEF IInv, IdleFrames, InProgress, Taken
<1>7. QED
  BY <1>2, <1>3, <1>4, <1>5, <1>6 DEF IInv

LEMMA ServeSubscribeKeeps ==
  ASSUME IInv, NEW r \in Reqs, link[r].asked # None, r[1] # "call",
         Taken(r), link[r].out \in Quietly => link'[r].out \in Quietly,
         subs' = [subs EXCEPT ![link[r].at] =
                    @ \cup {[req |-> r, target |-> link[r].asked[1], delegated |-> FALSE]}],
         link[r].asked[1] \in Sessions,
         UNCHANGED wait
  PROVE  IInv'
<1>1. /\ \A q \in Reqs : /\ link'[q].state = link[q].state /\ link'[q].at = link[q].at
                         /\ link'[q].asked # None => link'[q].asked = link[q].asked
                         /\ link[q].state = "none" => link'[q] = link[q]
      /\ link[r].state \in {"open", "half"} /\ link[r].at \in Sessions
      /\ \A s \in Sessions : \A sub \in subs[s] : link'[sub.req] = link[sub.req]
  BY TakenKeeps
<1> DEFINE new == [req |-> r, target |-> link[r].asked[1], delegated |-> FALSE]
<1>2. new \in Subscription /\ new.req = r /\ new.delegated = FALSE
  BY DEF Subscription
<1>3. \A s \in Sessions : \A sub \in subs'[s] : sub \in subs[s] \/ (s = link[r].at /\ sub = new)
  BY <1>1 DEF IInv, Types
<1>4. subs' \in [Sessions -> SUBSET Subscription]
  BY <1>1, <1>2 DEF IInv, Types
<1> HIDE DEF new
<1>5. Types' /\ wait' = wait
  BY <1>4 DEF IInv, Types, Taken, Links
<1>6. Connections' /\ Questions'
  BY <1>1, <1>5 DEF IInv, Connections, Questions, InProgress
<1>7. NotYet' /\ Together'
  BY <1>1, <1>5, Names DEF IInv, NotYet, Together, InProgress
<1>8. Held'
  BY <1>1, <1>2, <1>3, <1>5 DEF IInv, Held, InProgress, Taken
<1>9. IdleFrames'
  BY <1>5 DEF IInv, IdleFrames, InProgress, Taken
<1>10. QED
  BY <1>5, <1>6, <1>7, <1>8, <1>9 DEF IInv

LEMMA ServeIdleKeeps ==
  ASSUME IInv, NEW r \in Reqs, link[r].asked # None, r[1] # "call",
         Taken(r), link[r].out \in Quietly /\ link[r].state # "open" => link'[r].out \in Quietly,
         wait' = SawIdle(link[r].at), UNCHANGED subs
  PROVE  IInv'
<1> DEFINE s == link[r].at
<1>1. /\ \A q \in Reqs : /\ link'[q].state = link[q].state /\ link'[q].at = link[q].at
                         /\ link'[q].asked # None => link'[q].asked = link[q].asked
                         /\ link[q].state = "none" => link'[q] = link[q]
      /\ \A x \in Sessions : \A sub \in subs[x] : link'[sub.req] = link[sub.req] /\ sub.req \in Reqs
  BY TakenKeeps
<1>2. /\ wait' \in [Reqs -> WaitRecord]
      /\ \A q \in Reqs :
           /\ wait'[q].phase = wait[q].phase /\ wait'[q].target = wait[q].target
           /\ wait'[q].result = wait[q].result
           /\ wait'[q].saw <=> wait[q].saw \/ (InProgress(q) /\ wait[q].target = s)
           /\ InProgress(q)' <=> InProgress(q)
  BY SawIdleIs DEF InProgress
<1>3. Types' /\ subs' = subs
  BY <1>2 DEF IInv, Types, Taken, Links
<1>4. Connections' /\ Questions'
  BY <1>1, <1>2 DEF IInv, Connections, Questions
<1>5. NotYet' /\ Together'
  BY <1>1, <1>2, Names DEF IInv, NotYet, Together
<1>6. Held'
  BY <1>1, <1>2, <1>3, Names DEF IInv, Held
<1>7. ASSUME InProgress(r), ~wait'[r].saw PROVE link'[r].out \in Quietly
  <2>1. link[r].state # "open" /\ link[r].out \in Quietly
    BY <1>2, <1>7 DEF IInv, Questions, IdleFrames
  <2>2. QED
    BY <2>1
<1>8. IdleFrames'
  BY <1>2, <1>7 DEF IInv, IdleFrames, Taken
<1>9. QED
  BY <1>3, <1>4, <1>5, <1>6, <1>8 DEF IInv

\* The hop of a client's request begins.
LEMMA ServeDelegateKeeps ==
  ASSUME IInv, NEW c \in Clients, NEW t \in Sessions, link[Call(c)].asked # None,
         Taken(Call(c)), link[Call(c)].out \in Quietly => link'[Call(c)].out \in Quietly,
         t = link[Call(c)].asked[1],
         subs' = [subs EXCEPT ![link[Call(c)].at] =
                    @ \cup {[req |-> Call(c), target |-> t, delegated |-> TRUE]}],
         wait' = Began(wait, Hop(c), "probing", t, "name")
  PROVE  IInv'
<1> DEFINE r == Call(c)
           h == Hop(c)
           new == [req |-> r, target |-> t, delegated |-> TRUE]
<1>1. /\ r \in Reqs /\ h \in Reqs /\ r # h /\ r[1] = "call" /\ r[2] = c /\ h[1] = "hop"
      /\ \A d \in Clients : Call(d) # h /\ Hop(d) # r /\ (Hop(d) = h => d = c)
  BY Names
<1>2. wait[h].phase = "off" /\ link[h].state = "none" /\ link[h] = NoLink
  BY <1>1 DEF IInv, NotYet, Connections
<1>3. /\ \A q \in Reqs : /\ link'[q].state = link[q].state /\ link'[q].at = link[q].at
                         /\ link'[q].asked # None => link'[q].asked = link[q].asked
                         /\ link[q].state = "none" => link'[q] = link[q]
      /\ link[r].state \in {"open", "half"} /\ link[r].at \in Sessions
      /\ \A s \in Sessions : \A sub \in subs[s] : sub.req # r /\ sub.req \in Reqs
      /\ \A s \in Sessions : \A sub \in subs[s] : link'[sub.req] = link[sub.req]
  BY <1>1, TakenKeeps
<1>4. new \in Subscription /\ new.req = r /\ new.delegated = TRUE
  BY <1>1 DEF Subscription
<1>5. \A s \in Sessions : \A sub \in subs'[s] : sub \in subs[s] \/ (s = link[r].at /\ sub = new)
  BY <1>3 DEF IInv, Types
<1>6. subs' \in [Sessions -> SUBSET Subscription]
  BY <1>3, <1>4 DEF IInv, Types
<1>7. wait \in [Reqs -> WaitRecord] /\ "probing" \in Phases /\ "name" \in Labels
  BY DEF IInv, Types, Phases, Labels
<1>8. /\ wait' \in [Reqs -> WaitRecord]
      /\ \A q \in Reqs : q # h => wait'[q] = wait[q]
      /\ wait'[h].phase = "probing" /\ wait'[h].target = t
      /\ wait'[h].result = None /\ wait'[h].saw = FALSE
  BY <1>1, <1>7 DEF Began, WaitRecord
<1>9. NoLink.asked = None /\ link'[h] = NoLink /\ NoLink.state = "none"
  BY <1>1, <1>2, <1>3 DEF NoLink
<1> HIDE DEF new, h, r
<1>10. Types'
  BY <1>6, <1>8 DEF Types, Taken, Links
<1>11. Connections'
  BY <1>2, <1>3, <1>8 DEF IInv, Connections
<1>12. Questions'
  BY <1>1, <1>3, <1>8, <1>9 DEF IInv, Questions, InProgress
<1>13. NotYet'
  <2> SUFFICES ASSUME NEW d \in Clients,
                      wait'[Call(d)].phase = "off" \/ link'[Call(d)].asked # None
               PROVE  wait'[Hop(d)].phase = "off"
    BY DEF NotYet
  <2>1. wait[Call(d)].phase = "off" \/ link[Call(d)].asked # None
    BY <1>1, <1>3, <1>8, Names
  <2>2. Hop(d) # h
    <3>1. SUFFICES ASSUME Hop(d) = h PROVE FALSE
      OBVIOUS
    <3>2. Call(d) = r
      BY <1>1, <3>1 DEF r
    <3>3. link'[r].asked = None
      BY DEF Taken, r
    <3>4. wait[r].phase # "off"
      BY <1>1, <1>3 DEF IInv, Connections
    <3>5. QED
      BY <1>1, <1>8, <3>2, <3>3, <3>4
  <2>3. QED
    BY <1>8, <2>1, <2>2, Names DEF IInv, NotYet
<1>14. Together'
  <2> SUFFICES ASSUME NEW d \in Clients, InProgress(Hop(d))', InProgress(Call(d))'
               PROVE  /\ wait'[Hop(d)].target = wait'[Call(d)].target
                      /\ wait'[Hop(d)].saw => wait'[Call(d)].saw
    BY DEF Together
  <2>1. InProgress(Call(d)) /\ wait'[Call(d)] = wait[Call(d)]
    BY <1>1, <1>8, Names DEF InProgress
  <2>2. CASE Hop(d) = h
    <3>1. Call(d) = r
      BY <1>1, <2>2 DEF r
    <3>2. wait[r].target = t
      BY <1>1, <2>1, <3>1 DEF IInv, Questions, r
    <3>3. QED
      BY <1>8, <2>1, <2>2, <3>1, <3>2
  <2>3. CASE Hop(d) # h
    BY <1>8, <2>1, <2>3, Names DEF IInv, Together, InProgress
  <2>4. QED
    BY <2>2, <2>3
<1>15. Held'
  <2> SUFFICES ASSUME NEW s \in Sessions, NEW sub \in subs'[s]
               PROVE  /\ link'[sub.req].at = s /\ link'[sub.req].state \in {"open", "half"}
                      /\ link'[sub.req].asked = None
                      /\ sub.delegated <=> sub.req[1] = "call"
                      /\ sub.delegated => InProgress(Hop(sub.req[2]))'
    BY DEF Held
  <2>1. CASE sub = new /\ s = link[r].at
    <3>1. link'[r].asked = None
      BY DEF Taken, r
    <3>2. Hop(r[2]) = h
      BY <1>1 DEF h
    <3>3. QED
      BY <1>1, <1>3, <1>4, <1>8, <2>1, <3>1, <3>2 DEF InProgress
  <2>2. CASE sub \in subs[s]
    <3>1. /\ link[sub.req].at = s /\ link[sub.req].state \in {"open", "half"}
          /\ link[sub.req].asked = None
          /\ sub.delegated <=> sub.req[1] = "call"
          /\ sub.delegated => InProgress(Hop(sub.req[2]))
      BY <2>2 DEF IInv, Held
    <3>2. sub.req \in Reqs /\ link'[sub.req] = link[sub.req]
      BY <1>3, <2>2
    <3>3. sub.delegated => Hop(sub.req[2]) # h
      BY <1>2, <3>1 DEF InProgress
    <3>4. QED
      BY <1>8, <3>1, <3>2, <3>3, Names DEF InProgress
  <2>3. QED
    BY <1>5, <2>1, <2>2
<1>16. IdleFrames'
  BY <1>1, <1>8, <1>9, NoLinkIs DEF IInv, IdleFrames, InProgress, Taken, r
<1>17. QED
  BY <1>10, <1>11, <1>12, <1>13, <1>14, <1>15, <1>16 DEF IInv

LEMMA ServeKeeps ==
  ASSUME IInv, NEW r \in Reqs, Serve(r) PROVE IInv'
<1> DEFINE s == link[r].at
           t == link[r].asked[1]
           mine == r[1] # "call" /\ link[r].asked[2] = "name"
           answered == [link EXCEPT ![r].asked = None]
<1>1. link[r].asked # None
  BY DEF Serve
<1>2. t \in Sessions /\ s \in Sessions
  BY <1>1 DEF IInv, Types, LinkRecord, Connections
<1>3. r[1] # "call" => t = s
  BY <1>1 DEF IInv, Questions
<1>4. CASE ~joined[s] \/ (~mine /\ t = s) \/ ~Acquires(s, t)
  <2>1. link' = Say(answered, r, <<"refused">>) /\ UNCHANGED <<subs, wait>>
    BY <1>4 DEF Serve
  <2>2. Taken(r) /\ (link[r].out \in Quietly => link'[r].out \in Quietly)
    BY <1>1, <2>1, AnsweredIs, Quiet1, QuietIsSeq
  <2>3. QED
    BY <1>1, <2>1, <2>2, ServeRefuseKeeps
<1>5. CASE ~(~joined[s] \/ (~mine /\ t = s) \/ ~Acquires(s, t)) /\ ~mine
  <2>1. /\ subs' = [subs EXCEPT ![s] = @ \cup {[req |-> r, target |-> t, delegated |-> TRUE]}]
        /\ wait' = Began(wait, Hop(r[2]), "probing", t, "name")
        /\ link' = answered
    BY <1>5 DEF Serve
  <2>2. r[1] = "call" /\ r[2] \in Clients /\ r = Call(r[2])
    BY <1>3, <1>5, Names
  <2>3. Taken(r) /\ (link[r].out \in Quietly => link'[r].out \in Quietly)
    BY <2>1 DEF IInv, Types, Links, LinkRecord, Taken
  <2>4. PICK c \in Clients : r = Call(c) /\ r[2] = c
    BY <2>2
  <2>5. QED
    BY <1>1, <1>2, <2>1, <2>3, <2>4, ServeDelegateKeeps
<1>6. CASE ~(~joined[s] \/ (~mine /\ t = s) \/ ~Acquires(s, t)) /\ mine /\ Settled(s)
  <2>1. link' = Say(answered, r, <<"ack", "idle">>) /\ wait' = SawIdle(s) /\ UNCHANGED subs
    BY <1>6 DEF Serve
  <2>2. Taken(r) /\ (link[r].out \in Quietly /\ link[r].state # "open" => link'[r].out \in Quietly)
    BY <1>1, <2>1, AnsweredIs, Quiet1
  <2>3. QED
    BY <1>1, <1>6, <2>1, <2>2, ServeIdleKeeps
<1>7. CASE ~(~joined[s] \/ (~mine /\ t = s) \/ ~Acquires(s, t)) /\ mine /\ ~Settled(s)
  <2>1. /\ subs' = [subs EXCEPT ![s] = @ \cup {[req |-> r, target |-> t, delegated |-> FALSE]}]
        /\ link' = Say(answered, r, <<"ack">>)
        /\ UNCHANGED wait
    BY <1>7 DEF Serve
  <2>2. Taken(r) /\ (link[r].out \in Quietly => link'[r].out \in Quietly)
    BY <1>1, <2>1, AnsweredIs, Quiet1, QuietIsSeq
  <2>3. QED
    BY <1>1, <1>2, <1>7, <2>1, <2>2, ServeSubscribeKeeps
<1>8. QED
  BY <1>4, <1>5, <1>6, <1>7

\* The server sees that a connection is gone: the slot is free, and a hop with it ends.
LEMMA NoticeCloseKeeps ==
  ASSUME IInv, NEW r \in Reqs, NoticeClose(r) PROVE IInv'
<1> DEFINE gone == [link EXCEPT ![r] = NoLink]
           h == Hop(r[2])
           both == r[1] = "call" /\ InProgress(h)
<1>1. link[r].state = "half" /\ link[r].asked = None /\ subs' = Unsubscribed(r)
  BY DEF NoticeClose
<1>2. /\ gone \in Links /\ gone[r] = NoLink
      /\ \A q \in Reqs : q # r => gone[q] = link[q]
  BY NoLinkIs DEF IInv, Types, Links
<1>3. /\ subs' \in [Sessions -> SUBSET Subscription]
      /\ \A s \in Sessions : \A sub \in subs'[s] : sub \in subs[s] /\ sub.req # r
  BY <1>1 DEF IInv, Types, Unsubscribed
<1>4. NoLink.state = "none" /\ NoLink.asked = None /\ NoLink.out \in Quietly
  BY NoLinkIs DEF NoLink
<1>5. /\ both => wait' = Ended(wait, h, "failed") /\ link' = HangUp(gone, h)
      /\ ~both => wait' = wait /\ link' = gone
  BY DEF NoticeClose
<1> HIDE DEF gone
<1>6. both => h \in Reqs /\ h # r /\ h[1] = "hop" /\ h[2] = r[2]
  BY Names
<1>7. /\ wait' \in [Reqs -> WaitRecord]
      /\ \A q \in Reqs : ~(both /\ q = h) => wait'[q] = wait[q]
      /\ both => wait'[h].phase = "done"
  <2>1. wait \in [Reqs -> WaitRecord] /\ "failed" \in Results
    BY DEF IInv, Types, Results
  <2>2. CASE both
    <3> DEFINE ended == Ended(wait, h, "failed")
    <3>1. /\ ended \in [Reqs -> WaitRecord]
          /\ \A q \in Reqs : q # h => ended[q] = wait[q]
          /\ ended[h].phase = "done"
      <4>1. h \in Reqs
        BY <1>6, <2>2
      <4> HIDE DEF h, both
      <4>2. QED
        BY <2>1, <4>1 DEF Ended, NoWait, WaitRecord, Phases, Labels
    <3>2. wait' = ended
      BY <1>5, <2>2
    <3> HIDE DEF ended
    <3>3. QED
      BY <2>2, <3>1, <3>2
  <2>3. CASE ~both
    BY <1>5, <2>1, <2>3
  <2>4. QED
    BY <2>2, <2>3
<1>8. /\ link' \in Links /\ link'[r] = NoLink
      /\ \A q \in Reqs : q # r /\ ~(both /\ q = h) => link'[q] = link[q]
      /\ both => \/ link'[h] = NoLink /\ link[h].state \notin {"open", "half"}
                 \/ /\ link[h].state \in {"open", "half"}
                    /\ link'[h].state = "half" /\ link'[h].at = link[h].at
                    /\ link'[h].asked = link[h].asked
  <2>1. CASE both
    <3> DEFINE hung == HangUp(gone, h)
    <3>1. /\ hung \in Links
          /\ \A q \in Reqs : q # h => hung[q] = gone[q]
          /\ gone[h].state \in {"open", "half"} =>
               /\ hung[h].state = "half" /\ hung[h].at = gone[h].at
               /\ hung[h].asked = gone[h].asked
          /\ gone[h].state \notin {"open", "half"} => hung[h] = NoLink
      BY <1>2, <1>6, <2>1, HangUpIs
    <3>2. link' = hung
      BY <1>5, <2>1
    <3> HIDE DEF hung
    <3>3. QED
      BY <1>2, <1>6, <2>1, <3>1, <3>2
  <2>2. CASE ~both
    BY <1>2, <1>5, <2>2
  <2>3. QED
    BY <2>1, <2>2
<1> HIDE DEF both, h
<1>9. Types'
  BY <1>3, <1>7, <1>8 DEF Types, Links
<1>10. Connections'
  BY <1>4, <1>6, <1>7, <1>8 DEF IInv, Connections
<1>11. Questions'
  BY <1>4, <1>6, <1>7, <1>8 DEF IInv, Questions, InProgress
<1>12. both => InProgress(h)
  BY DEF both
<1>13. NotYet'
  <2> SUFFICES ASSUME NEW c \in Clients,
                      wait'[Call(c)].phase = "off" \/ link'[Call(c)].asked # None
               PROVE  wait'[Hop(c)].phase = "off"
    BY DEF NotYet
  <2>1. both => Call(c) # h
    BY <1>6, Names
  <2>2. wait[Call(c)].phase = "off" \/ link[Call(c)].asked # None
    BY <1>4, <1>7, <1>8, <2>1, Names
  <2>3. wait[Hop(c)].phase = "off"
    BY <2>2 DEF IInv, NotYet
  <2>4. QED
    BY <1>7, <1>12, <2>3, Names DEF InProgress
<1>14. Together'
  BY <1>6, <1>7, Names DEF IInv, Together, InProgress
<1>15. Held'
  <2> SUFFICES ASSUME NEW s \in Sessions, NEW sub \in subs'[s]
               PROVE  /\ link'[sub.req].at = s /\ link'[sub.req].state \in {"open", "half"}
                      /\ link'[sub.req].asked = None
                      /\ sub.delegated <=> sub.req[1] = "call"
                      /\ sub.delegated => InProgress(Hop(sub.req[2]))'
    BY DEF Held
  <2>1. sub \in subs[s] /\ sub.req # r /\ sub.req \in Reqs
    BY <1>3 DEF IInv, Types, Subscription
  <2>2. /\ link[sub.req].at = s /\ link[sub.req].state \in {"open", "half"}
        /\ link[sub.req].asked = None
        /\ sub.delegated <=> sub.req[1] = "call"
        /\ sub.delegated => InProgress(Hop(sub.req[2]))
    BY <2>1 DEF IInv, Held
  <2>3. /\ link'[sub.req].at = s /\ link'[sub.req].state \in {"open", "half"}
        /\ link'[sub.req].asked = None
    BY <1>6, <1>8, <2>1, <2>2
  <2>4. ASSUME sub.delegated PROVE InProgress(Hop(sub.req[2]))'
    <3>1. sub.req[2] \in Clients /\ sub.req = Call(sub.req[2])
      BY <2>1, <2>2, <2>4, Names
    <3>2. both => Hop(sub.req[2]) # h
      <4>1. SUFFICES ASSUME both, Hop(sub.req[2]) = h PROVE FALSE
        OBVIOUS
      <4>2. r = Call(r[2]) /\ r[2] \in Clients
        BY <4>1, Names DEF both
      <4>3. sub.req[2] = r[2]
        BY <1>6, <3>1, <4>1, <4>2, Names DEF h
      <4>4. QED
        BY <2>1, <3>1, <4>2, <4>3
    <3>3. QED
      BY <1>7, <2>2, <2>4, <3>1, <3>2, Names DEF InProgress
  <2>5. QED
    BY <2>2, <2>3, <2>4
<1>16. IdleFrames'
  BY <1>4, <1>6, <1>7, <1>8 DEF IInv, IdleFrames, InProgress
<1>17. QED
  BY <1>9, <1>10, <1>11, <1>13, <1>14, <1>15, <1>16 DEF IInv

LEMMA WakeKeeps ==
  ASSUME IInv, NEW s \in Sessions, Wake(s) PROVE IInv'
<1>1. \A k \in Sockets : Tool(s, k) \in Reqs /\ Tool(s, k)[1] = "tool" /\ "failed" \in Results
  BY Names DEF Results
<1>2. CASE ~Unblocked(s)
  <2>1. PICK k \in Sockets : InProgress(Tool(s, k)) /\ Finish(Tool(s, k), "failed")
    BY <1>2 DEF Wake
  <2>2. QED
    BY <1>1, <2>1, FinishKeeps
<1>3. CASE Unblocked(s)
  BY <1>3 DEF Wake, IInv, Types, Connections, Questions, NotYet, Held, Together,
       IdleFrames,
              InProgress
<1>4. QED
  BY <1>2, <1>3

-----------------------------------------------------------------------------
(* Settling, and the end of a session.                                      *)

LEMMA UnchangedKeeps == IInv /\ UNCHANGED <<wait, link, subs>> => IInv'
BY DEF IInv, Types, Connections, Questions, NotYet, Held, Together, IdleFrames, InProgress

\* Subscriptions that go take nothing else with them.
LEMMA FewerSubs ==
  ASSUME IInv, wait' = wait, link' = link,
         subs' \in [Sessions -> SUBSET Subscription],
         \A s \in Sessions : subs'[s] \subseteq subs[s]
  PROVE  IInv'
<1>1. Types' /\ Connections' /\ Questions' /\ NotYet' /\ Together' /\ IdleFrames'
  BY DEF IInv, Types, Connections, Questions, NotYet, Together, IdleFrames, InProgress
<1>2. Held'
  BY DEF IInv, Held, InProgress
<1>3. QED
  BY <1>1, <1>2 DEF IInv

\* Who is told that a session has settled waits for that session, and has seen it.
LEMMA EmitIdleSettledKeeps ==
  ASSUME IInv, NEW s \in Sessions, NEW a, EmitIdleSettled(s, a) PROVE IInv'
<1> DEFINE told == {sub.req : sub \in Local(s)}
<1>1. CASE ~MaySettle(s, a)
  BY <1>1, UnchangedKeeps DEF EmitIdleSettled
<1>2. CASE MaySettle(s, a)
  <2>1. /\ wait' = SawIdle(s)
        /\ \/ subs' = [subs EXCEPT ![s] = {}] /\ link' = link
           \/ /\ subs' = [subs EXCEPT ![s] = @ \ Local(s)]
              /\ link' = [r \in Reqs |-> IF r \in told /\ link[r].state = "open"
                             THEN [link[r] EXCEPT !.out = Append(@, "idle")]
                             ELSE link[r]]
    BY <1>2 DEF EmitIdleSettled, MaySettle
  <2>2. \A q \in told : q \in Reqs /\ q[1] # "call" /\ link[q].at = s
    BY DEF IInv, Types, Held, Subscription, Local
  <2>3. \A q \in Reqs : Append(link[q].out, "idle") \in Seq(Frames) /\ link[q] \in LinkRecord
    <3>1. "idle" \in Frames /\ \A q \in Reqs : link[q] \in LinkRecord
      BY DEF Frames, Events, IInv, Types
    <3>2. QED
      BY <3>1, AppendProperties DEF LinkRecord
  <2>4. /\ subs' \in [Sessions -> SUBSET Subscription]
        /\ \A x \in Sessions : subs'[x] \subseteq subs[x]
    BY <2>1 DEF IInv, Types
  <2> HIDE DEF told
  <2>5. ASSUME NEW q \in Reqs
        PROVE  /\ link'[q] \in LinkRecord
               /\ link'[q].state = link[q].state /\ link'[q].at = link[q].at
               /\ link'[q].asked = link[q].asked
               /\ link[q].state = "none" => link'[q] = link[q]
               /\ ~(q \in told /\ link[q].state = "open") => link'[q] = link[q]
    <3> DEFINE heard == Append(link[q].out, "idle")
    <3>1. heard \in Seq(Frames) /\ link[q] \in LinkRecord
      BY <2>3
    <3>2. \/ link'[q] = link[q]
          \/ /\ q \in told /\ link[q].state = "open"
             /\ link'[q] = [link[q] EXCEPT !.out = heard]
      BY <2>1
    <3> HIDE DEF heard
    <3>3. CASE link'[q] = link[q]
      BY <3>1, <3>3
    <3>4. CASE /\ q \in told /\ link[q].state = "open"
               /\ link'[q] = [link[q] EXCEPT !.out = heard]
      BY <3>1, <3>4 DEF LinkRecord
    <3>5. QED
      BY <3>2, <3>3, <3>4
  <2>6. link' \in Links
    BY <2>1, <2>5 DEF IInv, Types, Links
  <2>7. /\ wait' \in [Reqs -> WaitRecord]
        /\ \A q \in Reqs :
             /\ wait'[q].phase = wait[q].phase /\ wait'[q].target = wait[q].target
             /\ wait'[q].result = wait[q].result
             /\ wait'[q].saw <=> wait[q].saw \/ (InProgress(q) /\ wait[q].target = s)
             /\ InProgress(q)' <=> InProgress(q)
    BY <2>1, SawIdleIs DEF InProgress
  <2>8. Types'
    BY <2>4, <2>6, <2>7 DEF Types, Links
  <2>9. Connections' /\ Questions'
    BY <2>5, <2>7 DEF IInv, Connections, Questions
  <2>10. NotYet' /\ Together'
    BY <2>5, <2>7, Names DEF IInv, NotYet, Together
  <2>11. \A x \in Sessions : \A sub \in subs'[x] : sub \in subs[x] /\ sub.req \in Reqs
    BY <2>4 DEF Subscription
  <2>12. Held'
    BY <2>5, <2>7, <2>11, Names DEF IInv, Held
  <2>13. ASSUME NEW q \in Reqs, InProgress(q)', ~wait'[q].saw PROVE link'[q].out \in Quietly
    <3>1. InProgress(q) /\ ~wait[q].saw /\ wait[q].target # s
      BY <2>7, <2>13
    <3>2. ~(q \in told /\ link[q].state = "open")
      BY <2>2, <3>1 DEF IInv, Questions
    <3>3. QED
      BY <2>5, <3>1, <3>2 DEF IInv, IdleFrames
  <2>14. QED
    BY <2>8, <2>9, <2>10, <2>12, <2>13 DEF IInv, IdleFrames
<1>3. QED
  BY <1>1, <1>2

\* What the end of a process does to each request: what it asked ends, what it was asked
\* is cut, the rest stays.
LEMMA ExitIs ==
  ASSUME IInv, NEW s \in Sessions, Exit(s), NEW q \in Reqs
  PROVE  /\ \/ wait'[q] = wait[q] /\ (Asks(s, q) => ~InProgress(q))
            \/ /\ wait'[q].phase = "done" /\ wait'[q].result = "failed"
               /\ wait'[q] \in WaitRecord /\ Asks(s, q) /\ InProgress(q)
         /\ \/ link'[q] = link[q]
            \/ link'[q] = NoLink /\ link[q].state = "half" /\ link[q].at = s
            \/ link'[q] = NoLink /\ Asks(s, q) /\ link[q].state \notin {"open", "half"}
            \/ /\ Asks(s, q) /\ link[q].state \in {"open", "half"} /\ link'[q] \in LinkRecord
               /\ link'[q].state = "half" /\ link'[q].at = link[q].at
               /\ link'[q].asked = link[q].asked /\ link'[q].out \in Quietly
            \/ /\ link[q].state = "open" /\ link[q].at = s /\ link'[q] \in LinkRecord
               /\ link'[q].state = "ended" /\ link'[q].at = s /\ link'[q].asked = None
               /\ link'[q].out = link[q].out
<1>1. wait \in [Reqs -> WaitRecord] /\ link \in Links /\ "failed" \in Results
  BY DEF IInv, Types, Links, Results
<1>2. /\ wait'[q] = IF Asks(s, q) /\ InProgress(q) THEN Ended(wait, q, "failed")[q] ELSE wait[q]
      /\ link'[q] = IF Asks(s, q) THEN HangUp(link, q)[q]
                    ELSE IF q \in Connected(s)
                    THEN IF link[q].state = "half" THEN NoLink
                         ELSE [link[q] EXCEPT !.state = "ended", !.asked = None]
                    ELSE link[q]
  BY DEF Exit
<1>3. /\ Ended(wait, q, "failed")[q].phase = "done"
      /\ Ended(wait, q, "failed")[q].result = "failed"
      /\ Ended(wait, q, "failed")[q] \in WaitRecord
  BY <1>1 DEF Ended, NoWait, WaitRecord, Phases, Labels
<1>4. /\ HangUp(link, q) \in Links
      /\ link[q].state \in {"open", "half"} =>
           /\ HangUp(link, q)[q].state = "half" /\ HangUp(link, q)[q].at = link[q].at
           /\ HangUp(link, q)[q].asked = link[q].asked
      /\ link[q].state \notin {"open", "half"} => HangUp(link, q)[q] = NoLink
      /\ HangUp(link, q)[q].out \in Quietly
  BY <1>1, HangUpIs
<1>5. q \in Connected(s) => link[q].at = s /\ link[q].state \in {"open", "half"}
  BY DEF Connected
<1>6. link[q] \in LinkRecord
  BY <1>1 DEF Links
<1>7. CASE Asks(s, q)
  BY <1>2, <1>3, <1>4, <1>7 DEF Links
<1>8. CASE ~Asks(s, q)
  <2>1. wait'[q] = wait[q]
    BY <1>2, <1>8
  <2>2. CASE q \notin Connected(s)
    BY <1>2, <1>8, <2>1, <2>2
  <2>3. CASE q \in Connected(s) /\ link[q].state = "half"
    BY <1>2, <1>5, <1>8, <2>1, <2>3
  <2>4. CASE q \in Connected(s) /\ link[q].state = "open"
    BY <1>2, <1>5, <1>6, <1>8, <2>1, <2>4 DEF LinkRecord
  <2>5. QED
    BY <1>5, <2>2, <2>3, <2>4
<1>9. QED
  BY <1>7, <1>8

LEMMA ExitKeeps ==
  ASSUME IInv, NEW s \in Sessions, Exit(s) PROVE IInv'
<1>1. \A q \in Reqs :
         /\ \/ wait'[q] = wait[q] /\ (Asks(s, q) => ~InProgress(q))
            \/ /\ wait'[q].phase = "done" /\ wait'[q].result = "failed"
               /\ wait'[q] \in WaitRecord /\ Asks(s, q) /\ InProgress(q)
         /\ \/ link'[q] = link[q]
            \/ link'[q] = NoLink /\ link[q].state = "half" /\ link[q].at = s
            \/ link'[q] = NoLink /\ Asks(s, q) /\ link[q].state \notin {"open", "half"}
            \/ /\ Asks(s, q) /\ link[q].state \in {"open", "half"} /\ link'[q] \in LinkRecord
               /\ link'[q].state = "half" /\ link'[q].at = link[q].at
               /\ link'[q].asked = link[q].asked /\ link'[q].out \in Quietly
            \/ /\ link[q].state = "open" /\ link[q].at = s /\ link'[q] \in LinkRecord
               /\ link'[q].state = "ended" /\ link'[q].at = s /\ link'[q].asked = None
               /\ link'[q].out = link[q].out
  BY ExitIs
<1>2. NoLink.state = "none" /\ NoLink.asked = None /\ NoLink.out \in Quietly /\ NoLink \in LinkRecord
  BY NoLinkIs DEF NoLink
<1>3. /\ \A q \in Reqs : InProgress(q)' => wait'[q] = wait[q] /\ InProgress(q) /\ ~Asks(s, q)
      /\ \A q \in Reqs : wait[q].phase = "off" <=> wait'[q].phase = "off"
  BY <1>1 DEF InProgress
<1>4. /\ subs' \in [Sessions -> SUBSET Subscription]
      /\ \A x \in Sessions : \A sub \in subs'[x] : x # s /\ sub \in subs[x]
  BY DEF Exit, IInv, Types
<1>5. wait' \in [Reqs -> WaitRecord] /\ link' \in [Reqs -> LinkRecord]
  <2>1. \A q \in Reqs : wait'[q] \in WaitRecord /\ link'[q] \in LinkRecord
    BY <1>1, <1>2 DEF IInv, Types
  <2>2. wait' = [q \in Reqs |-> wait'[q]] /\ link' = [q \in Reqs |-> link'[q]]
    BY DEF Exit
  <2>3. QED
    BY <2>1, <2>2
<1>6. Types'
  BY <1>4, <1>5 DEF Types
<1>7. Connections'
  BY <1>1, <1>2 DEF IInv, Connections
<1>8. Questions'
  <2> SUFFICES ASSUME NEW q \in Reqs
               PROVE  /\ InProgress(q)' => wait'[q].result = None /\ wait'[q].target \in Sessions
                      /\ q[1] = "call" => wait'[q].phase \notin {"probing", "probed"}
                      /\ link'[q].asked # None /\ q[1] # "call" => link'[q].asked[1] = link'[q].at
                      /\ link'[q].asked # None /\ q[1] = "call" /\ InProgress(q)' =>
                           link'[q].asked[1] = wait'[q].target
                      /\ InProgress(q)' /\ q[1] # "call" /\ link'[q].state = "open" =>
                           wait'[q].target = link'[q].at
    BY DEF Questions
  <2>1. q[1] = "call" => wait'[q].phase \notin {"probing", "probed"}
    BY <1>1 DEF IInv, Questions
  <2>2. link'[q].asked # None => link'[q].asked = link[q].asked /\ link'[q].at = link[q].at
    BY <1>1, <1>2
  <2>3. link'[q].state = "open" => link'[q] = link[q]
    BY <1>1, <1>2
  <2>4. QED
    BY <1>3, <2>1, <2>2, <2>3 DEF IInv, Questions
<1>9. NotYet'
  BY <1>1, <1>2, <1>3, Names DEF IInv, NotYet
<1>10. Together'
  BY <1>3, Names DEF IInv, Together
<1>11. Held'
  <2> SUFFICES ASSUME NEW x \in Sessions, NEW sub \in subs'[x]
               PROVE  /\ link'[sub.req].at = x /\ link'[sub.req].state \in {"open", "half"}
                      /\ link'[sub.req].asked = None
                      /\ sub.delegated <=> sub.req[1] = "call"
                      /\ sub.delegated => InProgress(Hop(sub.req[2]))'
    BY DEF Held
  <2>1. x # s /\ sub \in subs[x] /\ sub.req \in Reqs
    BY <1>4 DEF Subscription
  <2>2. /\ link[sub.req].at = x /\ link[sub.req].state \in {"open", "half"}
        /\ link[sub.req].asked = None
        /\ sub.delegated <=> sub.req[1] = "call"
        /\ sub.delegated => InProgress(Hop(sub.req[2]))
    BY <2>1 DEF IInv, Held
  <2>3. /\ link'[sub.req].at = x /\ link'[sub.req].state \in {"open", "half"}
        /\ link'[sub.req].asked = None
    BY <1>1, <2>1, <2>2
  <2>4. ASSUME sub.delegated PROVE InProgress(Hop(sub.req[2]))'
    <3> DEFINE h == Hop(sub.req[2])
    <3>1. sub.req[2] \in Clients /\ sub.req = Call(sub.req[2])
      BY <2>1, <2>2, <2>4, Names
    <3>2. h \in Reqs /\ h[1] = "hop" /\ Call(h[2]) = sub.req
      BY <3>1, Names
    <3>3. ~Asks(s, h)
      BY <2>1, <2>2, <3>2 DEF Asks
    <3> HIDE DEF h
    <3>4. wait'[h] = wait[h]
      BY <1>1, <3>2, <3>3
    <3>5. QED
      BY <2>2, <2>4, <3>4 DEF InProgress, h
  <2>5. QED
    BY <2>2, <2>3, <2>4
<1>12. IdleFrames'
  BY <1>1, <1>2, <1>3 DEF IInv, IdleFrames
<1>13. QED
  BY <1>6, <1>7, <1>8, <1>9, <1>10, <1>11, <1>12 DEF IInv

-----------------------------------------------------------------------------
LEMMA SessionStepKeeps ==
  ASSUME IInv, NEW s \in Sessions, SessionStep(s) PROVE IInv'
<1>1. ASSUME NEW t \in Sessions, NEW label \in Labels, CallTool(s, t, label) PROVE IInv'
  BY <1>1, CallToolKeeps
<1>2. CASE DeliverFollowUp(s) \/ DeliverRedirect(s)
  BY <1>2, WakeKeeps DEF DeliverFollowUp, DeliverRedirect
<1>3. CASE \/ Prompt(s) \/ TakeNext(s) \/ CompactionStart(s) \/ Leave(s) \/ Rejoin(s)
           \/ Closed(s) \/ Start(s)
  BY <1>3, UnchangedKeeps
     DEF Prompt, TakeNext, CompactionStart, Leave, Rejoin, Closed, Start
<1>4. CASE AgentSettled(s)
  BY <1>4, EmitIdleSettledKeeps DEF AgentSettled
<1>5. CASE CompactionEnd(s)
  BY <1>5, EmitIdleSettledKeeps DEF CompactionEnd, CompactionEnded
<1>6. CASE Stop(s)
  <2>1. /\ subs' \in [Sessions -> SUBSET Subscription]
        /\ \A x \in Sessions : subs'[x] \subseteq subs[x]
        /\ wait' = wait /\ link' = link
    BY <1>6 DEF Stop, IInv, Types
  <2>2. QED
    BY <2>1, FewerSubs
<1>7. CASE Exit(s)
  BY <1>7, ExitKeeps
<1>8. QED
  BY <1>1, <1>2, <1>3, <1>4, <1>5, <1>6, <1>7 DEF SessionStep, Labels

LEMMA RequestStepKeeps ==
  ASSUME IInv, NEW r \in Reqs, RequestStep(r) \/ Abort(r) PROVE IInv'
<1>1. CASE SeeEnd(r) \/ Expire(r) \/ Abort(r)
  <2>1. PICK result \in {"offline", "timeout", "failed"} : Gives(r, result)
    BY <1>1, GivesUp
  <2>2. QED
    BY <2>1, GivesKeeps
<1>2. CASE Probe(r) \/ Connect(r) \/ Receive(r) \/ Serve(r) \/ NoticeClose(r)
  BY <1>2, ProbeKeeps, ConnectKeeps, ReceiveKeeps, ServeKeeps, NoticeCloseKeeps
<1>3. QED
  BY <1>1, <1>2 DEF RequestStep

LEMMA IInvStep == IInv /\ [IdleWaitNext]_idleVars => IInv'
<1> SUFFICES ASSUME IInv, [IdleWaitNext]_idleVars PROVE IInv'
  OBVIOUS
<1>1. ASSUME NEW s \in Sessions, SessionStep(s) PROVE IInv'
  BY <1>1, SessionStepKeeps
<1>2. ASSUME NEW c \in Clients, NEW s \in Sessions, NEW t \in Sessions, CallClient(c, s, t)
      PROVE  IInv'
  BY <1>2, CallClientKeeps
<1>3. ASSUME NEW r \in Reqs, RequestStep(r) \/ Abort(r) PROVE IInv'
  BY <1>3, RequestStepKeeps
<1>4. CASE UNCHANGED idleVars
  BY <1>4, UnchangedKeeps DEF idleVars
<1>5. QED
  BY <1>1, <1>2, <1>3, <1>4 DEF IdleWaitNext

LEMMA IInvHolds == IdleWaitSpec => []IInv
<1>1. IdleWaitInit => IInv
  BY InitKeeps
<1>2. QED
  BY <1>1, IInvStep, PTL DEF IdleWaitSpec

\* A slot of a session is held only by a wait that can still be answered: its connection
\* is there, and a delegated one's hop is still open.
THEOREM SlotsHeldHolds == IdleWaitSpec => []SlotsHeld
<1>1. IInv => SlotsHeld
  BY DEF IInv, Held, SlotsHeld
<1>2. QED
  BY <1>1, IInvHolds, PTL

-----------------------------------------------------------------------------
(* What an idle answer says.                                                *)

\* A wait that is on, and ends in this step with "idle", has seen its target idle.
IdleTrue ==
  \A r \in Reqs : InProgress(r) /\ wait'[r].result = "idle" => wait[r].saw

\* A step that gives no wait a new result.
Silent == \A r \in Reqs : InProgress(r) => wait'[r].result \in {wait[r].result, None, "failed"}

LEMMA SilentIsTrue ==
  ASSUME IInv, Silent PROVE IdleTrue
<1>1. None # "idle"
  BY IdleWaitAssumption
<1>2. QED
  BY <1>1 DEF IInv, Questions, Silent, IdleTrue

LEMMA FinishIsTrue ==
  ASSUME IInv, NEW r \in Reqs, NEW result \in Results, result = "idle" => wait[r].saw,
         Finish(r, result)
  PROVE  IdleTrue
<1> DEFINE ended == Ended(wait, r, result)
<1>1. wait \in [Reqs -> WaitRecord]
  BY DEF IInv, Types
<1>2. /\ \A q \in Reqs : q # r => ended[q] = wait[q]
      /\ ended[r].result = result
  BY <1>1, EndedIs
<1>3. wait' = ended
  BY DEF Finish
<1> HIDE DEF ended
<1>4. None # "idle"
  BY IdleWaitAssumption
<1>5. QED
  BY <1>2, <1>3, <1>4 DEF IInv, Questions, IdleTrue

LEMMA BeganIsSilent ==
  ASSUME IInv, NEW r \in Reqs, NEW phase, NEW t, NEW label, wait' = Began(wait, r, phase, t, label)
  PROVE  Silent
BY DEF Began, IInv, Types, Silent

LEMMA SameIsSilent ==
  ASSUME wait' = wait PROVE Silent
BY DEF Silent

LEMMA SawIdleIsSilent ==
  ASSUME IInv, NEW s, wait' = SawIdle(s) PROVE Silent
BY SawIdleIs DEF Silent

LEMMA AdvancesIsSilent ==
  ASSUME IInv, NEW r \in Reqs, NEW phase \in Phases, Advances(r, phase) PROVE Silent
BY AdvancesIs DEF Silent

LEMMA RequestStepIsTrue ==
  ASSUME IInv, NEW r \in Reqs, RequestStep(r) \/ Abort(r) PROVE IdleTrue
<1>1. CASE SeeEnd(r) \/ Expire(r) \/ Abort(r)
  <2>1. PICK result \in {"offline", "timeout", "failed"} : Gives(r, result)
    BY <1>1, GivesUp
  <2>2. result \in Results /\ result # "idle" /\ Finish(r, result)
    BY <2>1 DEF Results, Gives
  <2>3. QED
    BY <2>2, FinishIsTrue
<1>2. CASE Probe(r) \/ Connect(r)
  <2>1. \/ Advances(r, "probed") \/ Advances(r, "sent")
        \/ Finish(r, "offline") \/ Finish(r, "failed")
    BY <1>2 DEF Probe, Connect, Advances
  <2>2. "probed" \in Phases /\ "sent" \in Phases /\ "offline" \in Results /\ "failed" \in Results
    BY DEF Phases, Results
  <2>3. QED
    BY <2>1, <2>2, AdvancesIsSilent, SilentIsTrue, FinishIsTrue
<1>3. CASE Receive(r) /\ Head(link[r].out) = "ack"
  <2>1. Advances(r, "acked") /\ "acked" \in Phases
    BY <1>3 DEF Receive, Advances, Phases
  <2>2. QED
    BY <2>1, AdvancesIsSilent, SilentIsTrue
<1>4. CASE Receive(r) /\ Head(link[r].out) # "ack"
  <2>1. PICK result \in Results :
           /\ Finish(r, result) /\ InProgress(r) /\ wait[r].phase # "probing"
           /\ result = "idle" => wait[r].saw
    BY <1>4, AnswerIs
  <2>2. QED
    BY <2>1, FinishIsTrue
<1>5. CASE Serve(r)
  <2> DEFINE s == link[r].at
             t == link[r].asked[1]
  <2>1. \/ wait' = wait \/ wait' = SawIdle(s)
        \/ r[1] = "call" /\ wait' = Began(wait, Hop(r[2]), "probing", t, "name")
    <3>1. link[r].asked # None /\ (r[1] # "call" => t = s)
      BY <1>5 DEF Serve, IInv, Questions
    <3>2. QED
      BY <1>5, <3>1 DEF Serve
  <2>2. r[1] = "call" => Hop(r[2]) \in Reqs
    BY Names
  <2>3. Silent
    BY <2>1, <2>2, SameIsSilent, SawIdleIsSilent, BeganIsSilent
  <2>4. QED
    BY <2>3, SilentIsTrue
<1>6. CASE NoticeClose(r)
  <2>1. \/ wait' = wait
        \/ r[1] = "call" /\ wait' = Ended(wait, Hop(r[2]), "failed")
    BY <1>6 DEF NoticeClose
  <2>2. r[1] = "call" => Hop(r[2]) \in Reqs
    BY Names
  <2>3. Silent
    BY <2>1, <2>2 DEF Ended, NoWait, IInv, Types, Silent
  <2>4. QED
    BY <2>3, SilentIsTrue
<1>7. QED
  BY <1>1, <1>2, <1>3, <1>4, <1>5, <1>6 DEF RequestStep

LEMMA SessionStepIsTrue ==
  ASSUME IInv, NEW s \in Sessions, SessionStep(s) PROVE IdleTrue
<1>1. ASSUME NEW t \in Sessions, NEW label \in Labels, CallTool(s, t, label) PROVE IdleTrue
  <2>1. NewSocket(s) \in Sockets
    BY <1>1 DEF CallTool, NewSocket
  <2>2. /\ Tool(s, NewSocket(s)) \in Reqs
        /\ wait' = Began(wait, Tool(s, NewSocket(s)), "probing", t, label)
    BY <1>1, <2>1, Names DEF CallTool
  <2>3. QED
    BY <2>2, BeganIsSilent, SilentIsTrue
<1>2. CASE DeliverFollowUp(s) \/ DeliverRedirect(s)
  <2>1. \A k \in Sockets : Tool(s, k) \in Reqs /\ "failed" \in Results
    BY Names DEF Results
  <2>2. wait' = wait \/ \E k \in Sockets : Finish(Tool(s, k), "failed")
    BY <1>2 DEF DeliverFollowUp, DeliverRedirect, Wake
  <2>3. QED
    BY <2>1, <2>2, FinishIsTrue, SameIsSilent, SilentIsTrue
<1>3. CASE \/ Prompt(s) \/ TakeNext(s) \/ CompactionStart(s) \/ Leave(s) \/ Rejoin(s) \/ Stop(s)
           \/ Closed(s) \/ Start(s)
  <2>1. wait' = wait
    BY <1>3 DEF Prompt, TakeNext, CompactionStart, Leave, Rejoin, Stop, Closed, Start
  <2>2. QED
    BY <2>1, SameIsSilent, SilentIsTrue
<1>4. CASE AgentSettled(s) \/ CompactionEnd(s)
  <2>1. wait' = wait \/ wait' = SawIdle(s)
    BY <1>4 DEF AgentSettled, CompactionEnd, CompactionEnded, EmitIdleSettled
  <2>2. QED
    BY <2>1, SameIsSilent, SawIdleIsSilent, SilentIsTrue
<1>5. CASE Exit(s)
  <2>1. Silent
    BY <1>5, ExitIs DEF Silent
  <2>2. QED
    BY <2>1, SilentIsTrue
<1>6. QED
  BY <1>1, <1>2, <1>3, <1>4, <1>5 DEF SessionStep, Labels

\* An idle answer, through however many sessions, was true at some time during the wait.
THEOREM IdleWasTrueHolds == IdleWaitSpec => IdleWasTrue
<1>1. IInv /\ [IdleWaitNext]_idleVars =>
        [\A r \in Reqs : InProgress(r) /\ wait'[r].result = "idle" => wait[r].saw]_idleVars
  <2> SUFFICES ASSUME IInv, IdleWaitNext PROVE IdleTrue
    BY DEF IdleTrue
  <2>1. ASSUME NEW s \in Sessions, SessionStep(s) PROVE IdleTrue
    BY <2>1, SessionStepIsTrue
  <2>2. ASSUME NEW c \in Clients, NEW s \in Sessions, NEW t \in Sessions, CallClient(c, s, t)
        PROVE  IdleTrue
    <3>1. Call(c) \in Reqs /\ wait' = Began(wait, Call(c), "sent", t, "name")
      BY <2>2, Names DEF CallClient
    <3>2. QED
      BY <3>1, BeganIsSilent, SilentIsTrue
  <2>3. ASSUME NEW r \in Reqs, RequestStep(r) \/ Abort(r) PROVE IdleTrue
    BY <2>3, RequestStepIsTrue
  <2>4. QED
    BY <2>1, <2>2, <2>3 DEF IdleWaitNext
<1>2. QED
  BY <1>1, IInvHolds, PTL DEF IdleWaitSpec, IdleWasTrue

-----------------------------------------------------------------------------
(* Settling is observed.                                                    *)

AgentRecord == [busy : BOOLEAN, compacting : BOOLEAN, queue : Seq(Nat)]

PiTypes ==
  /\ agent \in [Sessions -> AgentRecord]
  /\ deferred \in [Sessions -> Seq(Nat)]
  /\ subs \in [Sessions -> SUBSET Subscription]
  /\ server \in [Sessions -> {"up", "closing", "down"}] /\ joined \in [Sessions -> BOOLEAN]
  /\ accepted \in Nat

\* A session whose control server is not up holds nothing that waits for it.
Emptied ==
  \A s \in Sessions : server[s] # "up" => deferred[s] = <<>> /\ subs[s] = {} /\ ~joined[s]

SInv == PiTypes /\ Emptied /\ SettledIsObserved

\* What a step does to the sessions that it leaves as calm as they were.
Calm(s) ==
  /\ subs'[s] \subseteq subs[s] /\ deferred'[s] = deferred[s]
  /\ server'[s] = server[s] /\ (server[s] # "up" => ~joined'[s])
  /\ Settled(s)' => Settled(s)

\* What the step itself has to see to for a session that it does not leave calm.
Seen(s) ==
  /\ server'[s] # "up" => deferred'[s] = <<>> /\ subs'[s] = {} /\ ~joined'[s]
  /\ server'[s] = "up" /\ Settled(s)' =>
       deferred'[s] = <<>> /\ \A sub \in subs'[s] : sub.delegated

LEMMA SInvIsEnough ==
  ASSUME SInv, PiTypes', \A s \in Sessions : Calm(s) \/ Seen(s)
  PROVE  SInv'
<1>1. Emptied'
  BY DEF SInv, Emptied, Calm, Seen
<1>2. ASSUME NEW s \in Sessions, server'[s] = "up", Settled(s)'
      PROVE  deferred'[s] = <<>> /\ Local(s)' = {}
  <2>1. CASE Seen(s)
    BY <1>2, <2>1 DEF Seen, Local
  <2>2. CASE Calm(s)
    BY <1>2, <2>2 DEF Calm, SInv, SettledIsObserved, Local
  <2>3. QED
    BY <2>1, <2>2
<1>3. SettledIsObserved'
  BY <1>2 DEF SettledIsObserved
<1>4. QED
  BY <1>1, <1>3 DEF SInv

LEMMA Queues ==
  /\ \A p, q \in Seq(Nat) : p \o q \in Seq(Nat)
  /\ \A q \in Seq(Nat) : q # <<>> => Tail(q) \in Seq(Nat)
  /\ \A q \in Seq(Nat), m \in Nat : Append(q, m) \in Seq(Nat) /\ <<m>> \in Seq(Nat)
  /\ <<>> \in Seq(Nat)
<1>1. \A p, q \in Seq(Nat) : p \o q \in Seq(Nat)
  BY ConcatProperties
<1>2. \A q \in Seq(Nat) : q # <<>> => Tail(q) \in Seq(Nat)
  BY HeadTailProperties
<1>3. \A q \in Seq(Nat), m \in Nat : Append(q, m) \in Seq(Nat) /\ <<m>> \in Seq(Nat)
  BY AppendProperties
<1>4. QED
  BY <1>1, <1>2, <1>3

\* What Pi is sent makes it busy, unless there was nothing.
LEMMA SentIs ==
  ASSUME NEW a \in AgentRecord, NEW ms \in Seq(Nat)
  PROVE  /\ Sent(a, ms) \in AgentRecord
         /\ ms # <<>> => Sent(a, ms).busy \/ Sent(a, ms).compacting
         /\ Sent(a, ms).busy \/ ~a.busy
         /\ Sent(a, ms).compacting = a.compacting
<1>1. a.queue \o ms \in Seq(Nat) /\ (ms # <<>> => a.queue \o Tail(ms) \in Seq(Nat))
  BY Queues DEF AgentRecord
<1>2. CASE ms = <<>> \/ a.busy \/ a.compacting
  <2>1. Sent(a, ms) = [a EXCEPT !.queue = a.queue \o ms]
    BY <1>2 DEF Sent
  <2>2. QED
    BY <1>1, <1>2, <2>1 DEF AgentRecord
<1>3. CASE ~(ms = <<>> \/ a.busy \/ a.compacting)
  <2>1. Sent(a, ms) = [a EXCEPT !.busy = TRUE, !.queue = a.queue \o Tail(ms)]
    BY <1>3 DEF Sent
  <2>2. QED
    BY <1>1, <1>3, <2>1 DEF AgentRecord
<1>4. QED
  BY <1>2, <1>3

\* Ends of waits only take subscriptions away.
LEMMA FinishShrinks ==
  ASSUME SInv, NEW r, NEW result, Finish(r, result) \/ subs' = subs \/ subs' = Unsubscribed(r)
  PROVE  \A s \in Sessions : subs'[s] \subseteq subs[s]
BY DEF SInv, PiTypes, Finish, HopAnswer, Unsubscribed

LEMMA ShrinkingKeeps ==
  ASSUME SInv, IInv', UNCHANGED <<server, joined, agent, deferred, accepted>>,
         \A s \in Sessions : subs'[s] \subseteq subs[s]
  PROVE  SInv'
<1>1. PiTypes'
  BY DEF SInv, PiTypes, IInv, Types
<1>2. \A s \in Sessions : Calm(s)
  BY DEF Calm, Settled, SInv, Emptied
<1>3. QED
  BY <1>1, <1>2, SInvIsEnough

LEMMA ServeSettles ==
  ASSUME SInv, IInv, IInv', NEW r \in Reqs, Serve(r) PROVE SInv'
<1>1. PICK s \in Sessions : s = link[r].at
  BY DEF Serve, IInv, Connections
<1> DEFINE new(delegated) == [req |-> r, target |-> link[r].asked[1], delegated |-> delegated]
           With(delegated) == [subs EXCEPT ![s] = @ \cup {new(delegated)}]
<1>2. UNCHANGED <<server, joined, agent, deferred, accepted>>
  BY DEF Serve, sessionVars, piVars
<1>3. PiTypes'
  BY <1>2 DEF SInv, PiTypes, IInv, Types
<1>4. \/ subs' = subs
      \/ joined[s] /\ subs' = With(TRUE)
      \/ joined[s] /\ subs' = With(FALSE) /\ ~Settled(s)
  BY <1>1 DEF Serve
<1>5. CASE subs' = subs
  BY <1>2, <1>5, ShrinkingKeeps
<1>6. ASSUME joined[s], NEW d \in BOOLEAN, subs' = With(d), d \/ ~Settled(s)
      PROVE  SInv'
  <2>1. new(d).delegated = d
    OBVIOUS
  <2>2. /\ \A x \in Sessions : x # s => subs'[x] = subs[x]
        /\ subs'[s] = subs[s] \cup {new(d)}
    <3>1. subs \in [Sessions -> SUBSET Subscription]
      BY DEF SInv, PiTypes
    <3>2. subs' = [subs EXCEPT ![s] = subs[s] \cup {new(d)}]
      BY <1>6
    <3> HIDE DEF new, With
    <3>3. QED
      BY <3>1, <3>2
  <2> HIDE DEF new, With
  <2>3. \A x \in Sessions : x # s => Calm(x)
    BY <1>2, <2>2 DEF Calm, Settled, SInv, Emptied
  <2>4. server'[s] = "up"
    BY <1>2, <1>6 DEF SInv, Emptied
  <2>5. Settled(s)' <=> Settled(s)
    BY <1>2 DEF Settled
  <2>6. Settled(s) => deferred[s] = <<>> /\ Local(s) = {}
    BY <1>2, <1>6, <2>4 DEF SInv, SettledIsObserved
  <2>7. Seen(s)
    BY <1>2, <1>6, <2>1, <2>2, <2>4, <2>5, <2>6 DEF Seen, Local
  <2>8. QED
    BY <1>3, <2>3, <2>7, SInvIsEnough
<1>7. QED
  BY <1>4, <1>5, <1>6

LEMMA RequestStepSettles ==
  ASSUME SInv, IInv, IInv', NEW r \in Reqs, RequestStep(r) \/ Abort(r) PROVE SInv'
<1>1. CASE Serve(r)
  BY <1>1, ServeSettles
<1>2. CASE Probe(r) \/ Connect(r) \/ Receive(r) \/ SeeEnd(r) \/ Expire(r) \/ Abort(r)
  <2>1. UNCHANGED <<server, joined, agent, deferred, accepted>>
    BY <1>2 DEF Probe, Connect, Receive, SeeEnd, Expire, Abort, sessionVars, piVars
  <2>2. subs' = subs \/ \E result : Finish(r, result)
    BY <1>2 DEF Probe, Connect, Receive, SeeEnd, Expire, Abort
  <2>3. QED
    BY <2>1, <2>2, FinishShrinks, ShrinkingKeeps
<1>3. CASE NoticeClose(r)
  <2>1. UNCHANGED <<server, joined, agent, deferred, accepted>> /\ subs' = Unsubscribed(r)
    BY <1>3 DEF NoticeClose, sessionVars, piVars
  <2>2. QED
    BY <2>1, FinishShrinks, ShrinkingKeeps
<1>4. QED
  BY <1>1, <1>2, <1>3 DEF RequestStep

\* A step of one session, seen from the others.
Elsewhere(s) ==
  \A x \in Sessions : x # s =>
    /\ agent'[x] = agent[x] /\ deferred'[x] = deferred[x]
    /\ server'[x] = server[x] /\ joined'[x] = joined[x]
    /\ subs'[x] \subseteq subs[x]

PiTypesKept ==
  /\ agent' \in [Sessions -> AgentRecord]
  /\ deferred' \in [Sessions -> Seq(Nat)]
  /\ server' \in [Sessions -> {"up", "closing", "down"}] /\ joined' \in [Sessions -> BOOLEAN]
  /\ accepted' \in Nat

LEMMA OneSession ==
  ASSUME SInv, IInv', NEW s \in Sessions, PiTypesKept, Elsewhere(s), Calm(s) \/ Seen(s)
  PROVE  SInv'
<1>1. PiTypes'
  BY DEF PiTypes, PiTypesKept, IInv, Types
<1>2. \A x \in Sessions : x # s => Calm(x)
  BY DEF Calm, Settled, Elsewhere, SInv, Emptied
<1>3. QED
  BY <1>1, <1>2, SInvIsEnough

\* A step of Pi alone that leaves the agent working, or works on.
LEMMA AgentStep ==
  ASSUME SInv, IInv', NEW s \in Sessions, NEW a \in AgentRecord,
         agent' = [agent EXCEPT ![s] = a],
         a.busy \/ a.compacting,
         UNCHANGED <<server, joined, deferred>>, accepted' \in Nat,
         \A x \in Sessions : subs'[x] \subseteq subs[x]
  PROVE  SInv'
<1>1. PiTypesKept /\ Elsewhere(s) /\ agent'[s] = a
  BY DEF SInv, PiTypes, PiTypesKept, Elsewhere
<1>2. ~Settled(s)'
  BY <1>1 DEF Settled
<1>3. Calm(s) \/ Seen(s)
  BY <1>1, <1>2 DEF Calm, SInv, PiTypes, Emptied
<1>4. QED
  BY <1>1, <1>3, OneSession

\* emitIdleSettled: whoever is settled afterwards has told its own and holds nothing back.
LEMMA EmitIdleSettledSettles ==
  ASSUME SInv, IInv', NEW s \in Sessions, NEW a \in AgentRecord, EmitIdleSettled(s, a),
         UNCHANGED <<server, joined, accepted>>,
         agent[s].busy \/ agent[s].compacting
  PROVE  SInv'
<1>1. server[s] # "up" => deferred[s] = <<>> /\ subs[s] = {} /\ ~joined[s]
  BY DEF SInv, Emptied
<1>2. CASE ~MaySettle(s, a)
  <2>1. (a.busy \/ a.compacting) /\ agent' = [agent EXCEPT ![s] = a]
        /\ UNCHANGED <<deferred, subs>>
    BY <1>2 DEF MaySettle, EmitIdleSettled, AgentRecord
  <2>2. accepted' \in Nat
    BY DEF SInv, PiTypes
  <2>3. QED
    BY <2>1, <2>2, AgentStep
<1>3. CASE MaySettle(s, a)
  <2> DEFINE b == Sent(a, deferred[s])
  <2>1. /\ agent' = [agent EXCEPT ![s] = b] /\ deferred' = [deferred EXCEPT ![s] = <<>>]
        /\ \/ ~joined[s] /\ subs' = [subs EXCEPT ![s] = {}]
           \/ joined[s] /\ subs' = [subs EXCEPT ![s] = @ \ Local(s)]
    BY <1>3 DEF EmitIdleSettled
  <2>2. b \in AgentRecord
    BY SentIs DEF SInv, PiTypes
  <2> HIDE DEF b
  <2>3. subs \in [Sessions -> SUBSET Subscription]
    BY DEF SInv, PiTypes
  <2>4. /\ \A x \in Sessions : subs'[x] \subseteq subs[x]
        /\ \A sub \in subs'[s] : sub.delegated
    BY <2>1, <2>3 DEF Local
  <2>5. PiTypesKept /\ Elsewhere(s) /\ deferred'[s] = <<>>
    BY <2>1, <2>2, <2>4, Queues DEF SInv, PiTypes, PiTypesKept, Elsewhere
  <2>6. Seen(s)
    BY <1>1, <2>4, <2>5 DEF Seen
  <2>7. QED
    BY <2>5, <2>6, OneSession
<1>4. QED
  BY <1>2, <1>3

LEMMA DeliveriesSettle ==
  ASSUME SInv, IInv', NEW s \in Sessions, DeliverFollowUp(s) \/ DeliverRedirect(s)
  PROVE  SInv'
<1>1. \A x \in Sessions : subs'[x] \subseteq subs[x]
  <2>1. subs' = subs \/ \E k \in Sockets : Finish(Tool(s, k), "failed")
    BY DEF DeliverFollowUp, DeliverRedirect, Wake
  <2>2. QED
    BY <2>1, FinishShrinks
<1>2. /\ agent \in [Sessions -> AgentRecord] /\ deferred \in [Sessions -> Seq(Nat)]
      /\ accepted \in Nat /\ agent[s] \in AgentRecord
  BY DEF SInv, PiTypes
<1>3. CASE DeliverFollowUp(s) /\ agent[s].compacting
  <2>1. /\ deferred' = [deferred EXCEPT ![s] = Append(deferred[s], accepted + 1)]
        /\ UNCHANGED <<agent, server, joined>> /\ accepted' = accepted + 1 /\ server[s] = "up"
    BY <1>3 DEF DeliverFollowUp, sessionVars
  <2>2. Append(deferred[s], accepted + 1) \in Seq(Nat) /\ accepted + 1 \in Nat
    BY <1>2, Queues
  <2>3. PiTypesKept /\ Elsewhere(s)
    BY <1>1, <1>2, <2>1, <2>2 DEF SInv, PiTypes, PiTypesKept, Elsewhere
  <2>4. Seen(s)
    BY <1>3, <2>1 DEF Seen, Settled
  <2>5. QED
    BY <2>3, <2>4, OneSession
<1>4. CASE DeliverFollowUp(s) /\ ~agent[s].compacting
  <2> DEFINE b == Sent(agent[s], <<accepted + 1>>)
  <2>1. /\ agent' = [agent EXCEPT ![s] = b]
        /\ UNCHANGED <<deferred, server, joined>> /\ accepted' = accepted + 1
    BY <1>4 DEF DeliverFollowUp, sessionVars
  <2>2. accepted + 1 \in Nat /\ <<accepted + 1>> \in Seq(Nat) /\ <<accepted + 1>> # <<>>
    BY <1>2, Queues
  <2>3. b \in AgentRecord /\ (b.busy \/ b.compacting)
    BY <1>2, <2>2, SentIs
  <2> HIDE DEF b
  <2>4. QED
    BY <1>1, <2>1, <2>2, <2>3, AgentStep
<1>5. CASE DeliverRedirect(s)
  <2> DEFINE b == [agent[s] EXCEPT !.busy = agent[s].busy \/ ~agent[s].compacting]
  <2>1. agent' = [agent EXCEPT ![s] = b]
    <3>1. agent' = [agent EXCEPT ![s].busy = @ \/ ~agent[s].compacting]
      BY <1>5 DEF DeliverRedirect
    <3>2. QED
      BY <3>1
  <2>2. UNCHANGED <<deferred, accepted, server, joined>>
    BY <1>5 DEF DeliverRedirect, sessionVars
  <2>3. b \in AgentRecord /\ (b.busy \/ b.compacting)
    BY <1>2 DEF AgentRecord
  <2> HIDE DEF b
  <2>4. QED
    BY <1>1, <1>2, <2>1, <2>2, <2>3, AgentStep
<1>6. QED
  BY <1>3, <1>4, <1>5

LEMMA PiStepSettles ==
  ASSUME SInv, IInv', NEW s \in Sessions, Prompt(s) \/ TakeNext(s) \/ CompactionStart(s)
  PROVE  SInv'
<1>1. /\ agent \in [Sessions -> AgentRecord] /\ accepted \in Nat /\ agent[s] \in AgentRecord
      /\ agent[s].queue # <<>> => Tail(agent[s].queue) \in Seq(Nat)
  BY Queues DEF SInv, PiTypes, AgentRecord
<1>2. PICK a \in AgentRecord : agent' = [agent EXCEPT ![s] = a] /\ (a.busy \/ a.compacting)
  <2>1. CASE Prompt(s)
    <3>1. [agent[s] EXCEPT !.busy = TRUE] \in AgentRecord
      BY <1>1 DEF AgentRecord
    <3>2. QED
      BY <1>1, <2>1, <3>1 DEF Prompt, AgentRecord
  <2>2. CASE TakeNext(s)
    <3> DEFINE rest == Tail(agent[s].queue)
    <3>1. rest \in Seq(Nat) /\ agent[s].busy /\ agent' = [agent EXCEPT ![s].queue = rest]
      BY <1>1, <2>2 DEF TakeNext
    <3> HIDE DEF rest
    <3>2. [agent[s] EXCEPT !.queue = rest] \in AgentRecord
      BY <1>1, <3>1 DEF AgentRecord
    <3>3. QED
      BY <1>1, <3>1, <3>2 DEF AgentRecord
  <2>3. CASE CompactionStart(s)
    <3>1. [agent[s] EXCEPT !.compacting = TRUE] \in AgentRecord
      BY <1>1 DEF AgentRecord
    <3>2. QED
      BY <1>1, <2>3, <3>1 DEF CompactionStart, AgentRecord
  <2>4. QED
    BY <2>1, <2>2, <2>3
<1>3. UNCHANGED <<server, joined, deferred, accepted, subs>>
  BY DEF Prompt, TakeNext, CompactionStart, sessionVars
<1>4. QED
  BY <1>1, <1>2, <1>3, AgentStep

\* A session leaves, stops, dies or starts again.
LEMMA LifeSettles ==
  ASSUME SInv, IInv', NEW s \in Sessions,
         Leave(s) \/ Rejoin(s) \/ Stop(s) \/ Closed(s) \/ Exit(s) \/ Start(s)
  PROVE  SInv'
<1>1. /\ agent \in [Sessions -> AgentRecord] /\ deferred \in [Sessions -> Seq(Nat)]
      /\ subs \in [Sessions -> SUBSET Subscription] /\ accepted \in Nat
      /\ server \in [Sessions -> {"up", "closing", "down"}] /\ joined \in [Sessions -> BOOLEAN]
      /\ server[s] # "up" => deferred[s] = <<>> /\ subs[s] = {} /\ ~joined[s]
  BY DEF SInv, PiTypes, Emptied
<1>2. Quiet \in AgentRecord /\ <<>> \in Seq(Nat)
  BY Queues DEF Quiet, AgentRecord
<1>3. CASE Leave(s) \/ Rejoin(s)
  <2>1. /\ server[s] = "up" /\ UNCHANGED <<server, agent, deferred, accepted, subs>>
        /\ \E b \in BOOLEAN : joined' = [joined EXCEPT ![s] = b]
    BY <1>3 DEF Leave, Rejoin, piVars
  <2>2. PiTypesKept /\ Elsewhere(s) /\ Calm(s)
    BY <1>1, <2>1 DEF PiTypesKept, Elsewhere, Calm, Settled
  <2>3. QED
    BY <2>2, OneSession
<1>4. CASE Stop(s) \/ Exit(s)
  <2>1. /\ joined' = [joined EXCEPT ![s] = FALSE] /\ subs' = [subs EXCEPT ![s] = {}]
        /\ server' = [server EXCEPT ![s] = "closing"] \/ server' = [server EXCEPT ![s] = "down"]
        /\ deferred' = [deferred EXCEPT ![s] = <<>>] /\ agent' = [agent EXCEPT ![s] = Quiet]
        /\ accepted' = accepted
    BY <1>4 DEF Stop, Exit
  <2>2. PiTypesKept /\ Elsewhere(s)
    BY <1>1, <1>2, <2>1 DEF PiTypesKept, Elsewhere
  <2>3. Seen(s)
    BY <1>1, <2>1 DEF Seen
  <2>4. QED
    BY <2>2, <2>3, OneSession
<1>5. CASE Closed(s)
  <2>1. /\ server' = [server EXCEPT ![s] = "down"] /\ server[s] = "closing"
        /\ UNCHANGED <<joined, agent, deferred, accepted, subs>>
    BY <1>5 DEF Closed, piVars
  <2>2. PiTypesKept /\ Elsewhere(s) /\ Seen(s)
    BY <1>1, <2>1 DEF PiTypesKept, Elsewhere, Seen
  <2>3. QED
    BY <2>2, OneSession
<1>6. CASE Start(s)
  <2>1. /\ server' = [server EXCEPT ![s] = "up"] /\ server[s] = "down"
        /\ joined' = [joined EXCEPT ![s] = TRUE]
        /\ UNCHANGED <<agent, deferred, accepted, subs>>
    BY <1>6 DEF Start, piVars
  <2>2. PiTypesKept /\ Elsewhere(s) /\ Seen(s)
    BY <1>1, <2>1 DEF PiTypesKept, Elsewhere, Seen
  <2>3. QED
    BY <2>2, OneSession
<1>7. QED
  BY <1>3, <1>4, <1>5, <1>6

LEMMA SessionStepSettles ==
  ASSUME SInv, IInv', NEW s \in Sessions, SessionStep(s) PROVE SInv'
<1>1. ASSUME NEW t \in Sessions, NEW label \in Labels, CallTool(s, t, label) PROVE SInv'
  BY <1>1, ShrinkingKeeps DEF CallTool, sessionVars, piVars
<1>2. agent[s] \in AgentRecord
  BY DEF SInv, PiTypes
<1>3. CASE AgentSettled(s)
  <2>1. [agent[s] EXCEPT !.busy = FALSE] \in AgentRecord
    BY <1>2 DEF AgentRecord
  <2>2. QED
    BY <1>3, <2>1, EmitIdleSettledSettles DEF AgentSettled, sessionVars
<1>4. CASE CompactionEnd(s)
  <2>1. [agent[s] EXCEPT !.compacting = FALSE] \in AgentRecord
    BY <1>2 DEF AgentRecord
  <2>2. QED
    BY <1>4, <2>1, EmitIdleSettledSettles DEF CompactionEnd, CompactionEnded, sessionVars
<1>5. QED
  BY <1>1, <1>3, <1>4, DeliveriesSettle, PiStepSettles, LifeSettles DEF SessionStep,
       Labels

LEMMA SInvStep == SInv /\ IInv /\ IInv' /\ [IdleWaitNext]_idleVars => SInv'
<1> SUFFICES ASSUME SInv, IInv, IInv', [IdleWaitNext]_idleVars PROVE SInv'
  OBVIOUS
<1>1. ASSUME NEW s \in Sessions, SessionStep(s) PROVE SInv'
  BY <1>1, SessionStepSettles
<1>2. ASSUME NEW c \in Clients, NEW s \in Sessions, NEW t \in Sessions, CallClient(c, s, t)
      PROVE  SInv'
  BY <1>2, ShrinkingKeeps DEF CallClient, sessionVars, piVars
<1>3. ASSUME NEW r \in Reqs, RequestStep(r) \/ Abort(r) PROVE SInv'
  BY <1>3, RequestStepSettles
<1>4. CASE UNCHANGED idleVars
  BY <1>4, ShrinkingKeeps DEF idleVars, sessionVars, piVars
<1>5. QED
  BY <1>1, <1>2, <1>3, <1>4 DEF IdleWaitNext

LEMMA SInvInit == IdleWaitInit => SInv
<1> SUFFICES ASSUME IdleWaitInit PROVE SInv
  OBVIOUS
<1>1. Quiet \in AgentRecord /\ <<>> \in Seq(Nat)
  BY Queues DEF Quiet, AgentRecord
<1>2. PiTypes
  BY <1>1 DEF IdleWaitInit, PiTypes
<1>3. Emptied /\ SettledIsObserved
  BY DEF IdleWaitInit, Emptied, SettledIsObserved, Local
<1>4. QED
  BY <1>2, <1>3 DEF SInv

\* While a session is settled nobody is left waiting for it to settle, and it holds no
\* Follow-up back: the snapshot and the subscription are one step, and every way to
\* settle is listened to.
THEOREM SettledIsObservedHolds == IdleWaitSpec => []SettledIsObserved
<1>1. IdleWaitInit => SInv
  BY SInvInit
<1>2. SInv => SettledIsObserved
  BY DEF SInv
<1>3. QED
  BY <1>1, <1>2, SInvStep, IInvHolds, PTL DEF IdleWaitSpec
=============================================================================
