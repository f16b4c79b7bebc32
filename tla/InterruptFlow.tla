---------------------------- MODULE InterruptFlow ----------------------------
(***************************************************************************)
(* Member Interrupts of one target: what the target's handler persists,    *)
(* asks of Pi and answers; what a reload recovers; and what the sender may *)
(* conclude.  Pi's abort and sendMessage return at once, so a handler or a *)
(* recovery is one task of the target's event loop: no other task runs     *)
(* between its steps, but the process may end there.                       *)
(*                                                                         *)
(* An interrupt is <<sender, number>>; the guidance it carries is not      *)
(* modelled.  Pi is external: what it was handed waits in a volatile queue *)
(* until a turn takes it.                                                  *)
(***************************************************************************)
EXTENDS Naturals, Sequences

CONSTANTS Senders,    \* the Members that interrupt the target
          Interrupts, \* their calls
          MaxCrashes  \* bound: ends of the target's process

ASSUME InterruptAssumption == Interrupts \subseteq Senders \X Nat /\ MaxCrashes \in Nat

Sender(id) == id[1]

VARIABLES
  call,      \* what each interrupt's caller knows
  wire,      \* requests written to the target and not handled
  answers,   \* what the target answered
  alive,     \* whether the target's process runs
  reloading, \* whether its recovery has yet to run
  busy,      \* not isIdle: a turn runs
  task,      \* the handler or recovery that runs: [id, step, aborting, recovery]
  entries,   \* interrupt evidence in the session log: [phase, id]
  queued,    \* interrupts whose guidance Pi has and no turn has taken
  aborted,   \* history: interrupts that requested an abort
  failed,    \* history: interrupts whose handler failed in this process
  crashes    \* how often the process ended

callers == <<call, wire, answers>>
piState == <<busy, queued>>
past == <<aborted, failed>>
interruptVars == <<callers, alive, reloading, task, entries, piState, past, crashes>>

NoTask == [id |-> <<>>, step |-> "none", aborting |-> FALSE, recovery |-> FALSE]
Free == alive /\ task = NoTask

Evidence(phase, id) == [phase |-> phase, id |-> id]
Persist(phase, id) == entries' = Append(entries, Evidence(phase, id))

\* latestInterruptEvidence looks at the newest entry whoever sent it.
LatestPending == entries # <<>> /\ entries[Len(entries)].phase = "pending"

\* hasPendingInterrupt looks at the newest entry of this sender.
EntriesOf(s) == {i \in DOMAIN entries : Sender(entries[i].id) = s}
HasPending(s) ==
  \E i \in EntriesOf(s) :
    entries[i].phase = "pending" /\ \A j \in EntriesOf(s) : j <= i

InterruptInit ==
  /\ call = [id \in Interrupts |-> "unsent"]
  /\ wire = {} /\ answers = [id \in Interrupts |-> "none"]
  /\ alive = TRUE /\ reloading = FALSE /\ task = NoTask
  /\ entries = <<>>
  /\ busy \in BOOLEAN /\ queued = {}
  /\ aborted = {} /\ failed = {}
  /\ crashes = 0

-----------------------------------------------------------------------------
(* The caller: sendRpcCommand with classifyLostAck.                         *)

Learn(id, from, outcome) == call[id] = from /\ call' = [call EXCEPT ![id] = outcome]

\* The target is resolved, its socket connects, and the request is written.
Dispatch(id) ==
  /\ alive
  /\ Learn(id, "unsent", "dispatched")
  /\ wire' = wire \cup {id}
  /\ UNCHANGED <<answers, alive, reloading, task, entries, piState, past, crashes>>

\* Resolution or connection fails, or the caller's time is up before the write.
FailBeforeDispatch(id) ==
  /\ Learn(id, "unsent", "unreached")
  /\ UNCHANGED <<wire, answers, alive, reloading, task, entries, piState, past, crashes>>

ReadAnswer(id) ==
  /\ answers[id] # "none"
  /\ Learn(id, "dispatched", answers[id])
  /\ answers' = [answers EXCEPT ![id] = "none"]
  /\ UNCHANGED <<wire, alive, reloading, task, entries, piState, past, crashes>>

\* Mutant of LoseAnswer: the lost acknowledgement is a failure like any other.
LoseAnswerUnclassified(id) ==
  /\ Learn(id, "dispatched", "unreached")
  /\ answers' = [answers EXCEPT ![id] = "none"]
  /\ UNCHANGED <<wire, alive, reloading, task, entries, piState, past, crashes>>

\* Timeout, cancellation or the end of the socket after the write.
LoseAnswer(id) ==
  /\ Learn(id, "dispatched", "outcome-unknown")
  /\ answers' = [answers EXCEPT ![id] = "none"]
  /\ UNCHANGED <<wire, alive, reloading, task, entries, piState, past, crashes>>

-----------------------------------------------------------------------------
(* The target's handler.                                                    *)

\* An answer to a socket the caller destroyed is lost.
Answer(id, kind) ==
  answers' = IF call[id] = "dispatched" THEN [answers EXCEPT ![id] = kind] ELSE answers
TakeInterrupt(id) == Free /\ id \in wire /\ wire' = wire \ {id}

RefusePending(id) ==
  /\ TakeInterrupt(id)
  /\ HasPending(Sender(id))
  /\ Answer(id, "already-pending")
  /\ UNCHANGED <<call, alive, reloading, task, entries, piState, past, crashes>>

Handler(id, step) == [id |-> id, step |-> step, aborting |-> busy, recovery |-> FALSE]

\* The first entry throws, outside the handler's try: the server answers for it.
FailPersist(id) ==
  /\ TakeInterrupt(id)
  /\ ~HasPending(Sender(id))
  /\ Answer(id, "internal-error")
  /\ UNCHANGED <<call, alive, reloading, task, entries, piState, past, crashes>>

\* Whether the target is busy is read once; the evidence precedes the abort.
PersistPending(id) ==
  /\ TakeInterrupt(id)
  /\ ~HasPending(Sender(id))
  /\ Persist("pending", id)
  /\ task' = Handler(id, IF busy THEN "abort" ELSE "hand")
  /\ UNCHANGED <<call, answers, alive, reloading, piState, past, crashes>>

\* The run unwinds later; Pi then takes what was steered before anything older.
RequestAbort ==
  /\ task.step = "abort"
  /\ aborted' = aborted \cup {task.id}
  /\ task' = [task EXCEPT !.step = "hand"]
  /\ UNCHANGED <<callers, alive, reloading, entries, piState, failed, crashes>>

\* sendMessage: steered into the running turn, or a turn of its own.
HandToPi ==
  /\ queued' = queued \cup {task.id}
  /\ busy' = TRUE

Disposition(t) == IF t.aborting THEN "interrupt-requested" ELSE "direct"

HandOff ==
  /\ task.step = "hand"
  /\ HandToPi
  /\ task' = [task EXCEPT !.step = "evidence"]
  /\ UNCHANGED <<callers, alive, reloading, entries, past, crashes>>

\* Mutant of PersistHandedOff: a recovery leaves no evidence of its own.
PersistHandedOffOnce ==
  /\ task.step = "evidence"
  /\ task' = NoTask
  /\ IF task.recovery
       THEN UNCHANGED <<answers, entries>>
       ELSE Persist("handed-off", task.id) /\ Answer(task.id, Disposition(task))
  /\ UNCHANGED <<call, wire, alive, reloading, piState, past, crashes>>

PersistHandedOff ==
  /\ task.step = "evidence"
  /\ Persist("handed-off", task.id)
  /\ task' = NoTask
  /\ IF task.recovery THEN UNCHANGED answers ELSE Answer(task.id, Disposition(task))
  /\ UNCHANGED <<call, wire, alive, reloading, piState, past, crashes>>

\* The abort, the message or the entry throws: pending evidence remains.
FailTask ==
  /\ task # NoTask
  /\ task' = NoTask
  /\ failed' = failed \cup {task.id}
  /\ IF task.recovery THEN UNCHANGED answers ELSE Answer(task.id, "failed")
  /\ UNCHANGED <<call, wire, alive, reloading, entries, piState, aborted, crashes>>

-----------------------------------------------------------------------------
(* The target's process and its recovery.                                   *)

EndProcess ==
  /\ alive
  /\ crashes < MaxCrashes
  /\ crashes' = crashes + 1
  /\ alive' = FALSE /\ reloading' = FALSE /\ task' = NoTask
  /\ wire' = {} /\ busy' = FALSE /\ queued' = {}
  /\ failed' = {}
  /\ UNCHANGED <<call, answers, entries, aborted>>

\* session_start: the server and the endpoint are up before the recovery runs.
Restart ==
  /\ ~alive
  /\ alive' = TRUE /\ reloading' = TRUE
  /\ UNCHANGED <<callers, task, entries, piState, past, crashes>>

Recovery(id) == [id |-> id, step |-> "hand", aborting |-> FALSE, recovery |-> TRUE]

\* Mutant of RecoverPending: the phase of the newest evidence is not looked at.
RecoverLatest ==
  /\ Free /\ reloading
  /\ reloading' = FALSE
  /\ task' = IF entries # <<>> THEN Recovery(entries[Len(entries)].id) ELSE NoTask
  /\ UNCHANGED <<callers, alive, entries, piState, past, crashes>>

RecoverPending ==
  /\ Free /\ reloading
  /\ reloading' = FALSE
  /\ task' = IF LatestPending THEN Recovery(entries[Len(entries)].id) ELSE NoTask
  /\ UNCHANGED <<callers, alive, entries, piState, past, crashes>>

-----------------------------------------------------------------------------
(* Pi.                                                                      *)

BeginTurn ==
  /\ Free /\ ~busy
  /\ busy' = TRUE
  /\ UNCHANGED <<callers, alive, reloading, task, entries, queued, past, crashes>>

TakeGuidance ==
  /\ Free /\ busy
  /\ \E id \in queued : queued' = queued \ {id}
  /\ UNCHANGED <<callers, alive, reloading, task, entries, busy, past, crashes>>

\* A turn, aborted or not, ends when nothing is queued.
EndTurn ==
  /\ Free /\ busy /\ queued = {}
  /\ busy' = FALSE
  /\ UNCHANGED <<callers, alive, reloading, task, entries, queued, past, crashes>>

-----------------------------------------------------------------------------
InterruptNext ==
  \/ \E id \in Interrupts :
       \/ Dispatch(id) \/ FailBeforeDispatch(id) \/ ReadAnswer(id) \/ LoseAnswer(id)
       \/ RefusePending(id) \/ FailPersist(id) \/ PersistPending(id)
  \/ RequestAbort \/ HandOff \/ PersistHandedOff \/ FailTask
  \/ EndProcess \/ Restart \/ RecoverPending
  \/ BeginTurn \/ TakeGuidance \/ EndTurn

InterruptSpec == InterruptInit /\ [][InterruptNext]_interruptVars

-----------------------------------------------------------------------------
Answers == {"already-pending", "internal-error", "interrupt-requested", "direct", "failed"}

\* Types of all variables.
InterruptTypeOK ==
  /\ call \in [Interrupts -> Answers \cup {"unsent", "dispatched", "unreached",
                                           "outcome-unknown"}]
  /\ wire \subseteq Interrupts
  /\ answers \in [Interrupts -> Answers \cup {"none"}]
  /\ alive \in BOOLEAN /\ reloading \in BOOLEAN /\ busy \in BOOLEAN
  /\ task \in {NoTask} \cup [id : Interrupts, step : {"abort", "hand", "evidence"},
                             aborting : BOOLEAN, recovery : BOOLEAN]
  /\ task # NoTask => alive
  /\ entries \in Seq([phase : {"pending", "handed-off"}, id : Interrupts])
  /\ queued \subseteq Interrupts
  /\ aborted \subseteq Interrupts /\ failed \subseteq Interrupts
  /\ crashes \in Nat

Persisted(phase) == {entries[i].id : i \in {j \in DOMAIN entries : entries[j].phase = phase}}
HandedOff == Persisted("handed-off")
Pending == Persisted("pending") \ HandedOff

\* The gate: however handlers fail, the process ends and recoveries run, a sender has
\* at most one interrupt with which the target is not done.
OnePendingPerSender ==
  \A a, b \in Pending : Sender(a) = Sender(b) => a = b

\* The exactly-once handoff recoverPending claims, up to a lost entry: once the
\* evidence is written, no handler and no recovery gives the guidance to Pi again.
HandedOffIsFinal == task.step \in {"abort", "hand"} => task.id \notin HandedOff

\* What a caller concludes is true whatever happened to the target in between: a
\* success has durable evidence and names the abort that took place; after a failure
\* the guidance may still come; a refused or unreached one never does.
AnswerTruthful ==
  \A id \in Interrupts :
    /\ call[id] = "interrupt-requested" => id \in HandedOff \cap aborted
    /\ call[id] = "direct" => id \in HandedOff \ aborted
    /\ call[id] = "failed" => id \in Persisted("pending")
    /\ call[id] \in {"already-pending", "internal-error", "unreached"} =>
         id \notin Persisted("pending")

\* After its recovery a target rests on pending evidence only if that was written, or
\* its recovery failed, in this process: here for the newest evidence.
Recovered == Free /\ ~reloading
LatestRecovered ==
  Recovered /\ LatestPending => entries[Len(entries)].id \in failed

=============================================================================
