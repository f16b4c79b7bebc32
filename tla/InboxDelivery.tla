---------------------------- MODULE InboxDelivery ----------------------------
(***************************************************************************)
(* The durable inbox of one Member: the directory of items, the senders    *)
(* that add to it under its lock file, and the recipient's process whose   *)
(* bridge offers the oldest item to Pi as a Follow-up and removes items    *)
(* that the session log shows to be delivered.                             *)
(*                                                                         *)
(* The recipient is an event loop: a task runs up to its next await, which *)
(* is one action here.  Directory operations of a sender and the recipient *)
(* interleave; listing the directory is one step.  Pi is external: it      *)
(* takes Follow-ups in order and logs each when its turn begins.           *)
(***************************************************************************)
EXTENDS Naturals, Sequences, FiniteSets

CONSTANTS Messages,      \* the enqueue calls
          Twins,         \* those whose target and payload are the same
          Sessions,      \* the Pi sessions the Member may run in
          MaxItems,      \* MAX_INBOX_ITEMS, 64 in the code
          MaxListed,     \* DEFAULT_INBOX_LIST_LIMIT, 32 in the code
          MaxOps,        \* bound: queued bridge operations
          MaxCrashes,    \* bound: ends of a process, the recipient's or a sender's
          MaxCommands    \* bound: the user's turns and crew commands

ASSUME InboxAssumption ==
  /\ Twins \subseteq Messages
  /\ MaxItems \in Nat /\ MaxListed \in Nat /\ MaxOps \in Nat
  /\ MaxCrashes \in Nat /\ MaxCommands \in Nat

VARIABLES
  sender,       \* where each enqueue call is
  chosen,       \* the sequence number it computed from its listing
  lock,         \* enqueue calls that hold the .lock file
  dir,          \* stored items: [sequence, message]
  alive,        \* whether the recipient's process runs
  session,      \* its session
  owned,        \* whether the bridge has an ownership
  paused,       \* sessions whose latest offering entry says paused
  ops,          \* the bridge's serialized operations: "offer" or an item to cancel
  step,         \* where the running operation is
  current,      \* isCurrent: no establish or invalidate since it began
  seen,         \* the evidence it read
  listed,       \* the items it listed
  outstanding,  \* the id of the item offered and not yet reconciled
  followUps,    \* items Pi has queued
  log,          \* items in each session's log, in order
  turn,         \* whether Pi's turn for a Follow-up is running
  crashes,      \* how often a process ended
  arrivals,     \* history: persisted messages in order
  cancelled,    \* history: what /crew inbox cancel removed: <<message, session>>
  commands,     \* how often the recipient's user acted
  leaves,       \* history: how often each session left the crew
  missed        \* history: since the last attempt, a trigger was lost

senders == <<sender, chosen, lock>>
attempt == <<ops, step, current, seen, listed>>
bridge == <<owned, attempt, outstanding>>
process == <<alive, session, crashes>>
queue == <<followUps, log, turn>>
user == <<paused, commands>>
pi == <<process, queue, user>>
history == <<arrivals, cancelled, leaves>>
inboxVars == <<senders, dir, bridge, pi, history, missed>>

-----------------------------------------------------------------------------
(* Items and their identifiers.                                             *)

Payload(m) == IF m \in Twins THEN "twin" ELSE m

\* Two items of one inbox with the same sequence and payload share their id.
Id(item) == <<item.sequence, Payload(item.message)>>
NoId == <<>>

Evidence(s) == {Id(log[s][i]) : i \in DOMAIN log[s]}
Ids(items) == {Id(i) : i \in items}

\* readItems sorts by sequence; list keeps the first MaxListed.
Before(items, i) == {j \in items : j.sequence < i.sequence}
Listing(items) == {i \in items : Cardinality(Before(items, i)) < MaxListed}
OldestItem(items) == {i \in items : Before(items, i) = {}}

\* Mutant of NextSequence: the items are counted.
NextSequenceCounted(items) == {Cardinality(items)}

\* nextInboxSequence: one more than every stored sequence, 0 when none is stored.
NextSequence(items) ==
  {n \in {0} \cup {i.sequence + 1 : i \in items} : \A i \in items : i.sequence < n}

InboxInit ==
  /\ sender = [m \in Messages |-> "unsent"]
  /\ chosen = [m \in Messages |-> 0]
  /\ lock = {} /\ dir = {}
  /\ alive = FALSE /\ session \in Sessions /\ owned = FALSE /\ paused = {}
  /\ ops = <<>> /\ step = "idle" /\ current = FALSE /\ seen = {} /\ listed = {}
  /\ outstanding = NoId
  /\ followUps = <<>> /\ log = [s \in Sessions |-> <<>>] /\ turn = FALSE
  /\ crashes = 0 /\ commands = 0 /\ arrivals = <<>> /\ cancelled = {}
  /\ leaves = [s \in Sessions |-> 0] /\ missed = FALSE

-----------------------------------------------------------------------------
(* The senders: enqueue under the inbox lock, then one best-effort hint.    *)

Move(m, from, to) == sender[m] = from /\ sender' = [sender EXCEPT ![m] = to]

\* The lock is taken, the items are read, and there is room for one more.
LockInbox(m) ==
  /\ Move(m, "unsent", "locked")
  /\ lock = {}
  /\ Cardinality(dir) < MaxItems
  /\ lock' = {m}
  /\ \E n \in NextSequence(dir) : chosen' = [chosen EXCEPT ![m] = n]
  /\ UNCHANGED <<dir, bridge, pi, history, missed>>

\* The lock stays taken for two seconds, or the inbox is full.
RefuseEnqueue(m) ==
  /\ Move(m, "unsent", "refused")
  /\ lock # {} \/ Cardinality(dir) >= MaxItems
  /\ UNCHANGED <<chosen, lock, dir, bridge, pi, history, missed>>

\* The temporary file is renamed into place.
PersistItem(m) ==
  /\ Move(m, "locked", "persisted")
  /\ dir' = dir \cup {[sequence |-> chosen[m], message |-> m]}
  /\ arrivals' = Append(arrivals, m)
  /\ UNCHANGED <<chosen, lock, bridge, pi, cancelled, leaves, missed>>

Unlock(m) ==
  /\ Move(m, "persisted", "stored")
  /\ lock' = lock \ {m}
  /\ UNCHANGED <<chosen, dir, bridge, pi, history, missed>>

Queue(op) == Len(ops) < MaxOps /\ ops' = Append(ops, op)

\* Mutant of SendHint: a hint that arrives during an operation is dropped.
SendHintCoalesced(m) ==
  /\ Move(m, "stored", "done")
  /\ alive
  /\ IF ops = <<>> THEN Queue("offer") ELSE UNCHANGED ops
  /\ UNCHANGED <<chosen, lock, dir, owned, step, current, seen, listed,
                 outstanding, pi, history, missed>>

\* The hint reaches the recipient, which queues an attempt.
SendHint(m) ==
  /\ Move(m, "stored", "done")
  /\ alive /\ Queue("offer")
  /\ UNCHANGED <<chosen, lock, dir, owned, step, current, seen, listed,
                 outstanding, pi, history, missed>>

\* No process listens, or the hint is lost or late.
SkipHint(m) ==
  /\ Move(m, "stored", "done")
  /\ missed' = (missed \/ alive)
  /\ UNCHANGED <<chosen, lock, dir, bridge, pi, history>>

\* One more process ends.
Crash == crashes < MaxCrashes /\ crashes' = crashes + 1

\* The sender's process dies; nobody removes its lock file.
SenderCrash(m) ==
  /\ sender[m] \in {"locked", "persisted", "stored"}
  /\ Crash
  /\ sender' = [sender EXCEPT ![m] = "dead"]
  /\ missed' = (missed \/ sender[m] # "locked")
  /\ UNCHANGED <<chosen, lock, dir, bridge, alive, session, queue, user, history>>

-----------------------------------------------------------------------------
(* The recipient's process, its session and its membership.                 *)

\* session_start: a process resumes one of the sessions, not yet joined.
StartSession(s) ==
  /\ ~alive
  /\ alive' = TRUE
  /\ session' = s
  /\ UNCHANGED <<senders, dir, bridge, crashes, queue, user, history, missed>>

\* One more act of the recipient's user.
Command == alive /\ commands < MaxCommands /\ commands' = commands + 1

\* /crew join, or the restore at session start.  establish begins a new generation;
\* the outstanding item survives only if the owner was the same.  An attempt follows.
JoinCrew ==
  /\ alive
  /\ IF owned THEN Command ELSE UNCHANGED commands
  /\ owned' = TRUE
  /\ current' = FALSE
  /\ outstanding' = IF owned THEN outstanding ELSE NoId
  /\ Queue("offer")
  /\ UNCHANGED <<senders, dir, step, seen, listed, process, queue, paused, history, missed>>

Invalidate ==
  /\ owned' = FALSE
  /\ current' = FALSE
  /\ outstanding' = NoId

LeaveCrew ==
  /\ Command
  /\ owned
  /\ leaves' = [leaves EXCEPT ![session] = @ + 1]
  /\ Invalidate
  /\ UNCHANGED <<senders, dir, ops, step, seen, listed, process, queue, paused,
                 arrivals, cancelled, missed>>

\* The process ends, by a crash or session_shutdown: only the session log stays.
EndProcess ==
  /\ alive
  /\ Crash
  /\ alive' = FALSE
  /\ Invalidate
  /\ ops' = <<>> /\ step' = "idle" /\ seen' = {} /\ listed' = {}
  /\ followUps' = <<>> /\ turn' = FALSE
  /\ UNCHANGED <<senders, dir, session, log, user, history, missed>>

PauseInbox ==
  /\ Command
  /\ paused' = paused \cup {session}
  /\ UNCHANGED <<senders, dir, bridge, process, queue, history, missed>>

\* Resuming offers nothing by itself.
ResumeInbox ==
  /\ Command
  /\ paused' = paused \ {session}
  /\ missed' = (missed \/ session \in paused)
  /\ UNCHANGED <<senders, dir, bridge, process, queue, history>>

\* Pi begins the turn of its next Follow-up and logs it.
DeliverFollowUp ==
  /\ alive /\ ~turn /\ followUps # <<>>
  /\ turn' = TRUE
  /\ followUps' = Tail(followUps)
  /\ log' = [log EXCEPT ![session] = Append(@, Head(followUps))]
  /\ UNCHANGED <<senders, dir, bridge, process, user, history, missed>>

\* turn_end, of a Follow-up's turn or of one the user began, queues an attempt.
EndTurn ==
  /\ alive
  /\ IF turn THEN UNCHANGED commands ELSE Command
  /\ turn' = FALSE
  /\ Queue("offer")
  /\ UNCHANGED <<senders, dir, owned, step, current, seen, listed, outstanding,
                 process, followUps, log, paused, history, missed>>

\* /crew inbox cancel names an item the inbox status lists.
RequestCancel(item) ==
  /\ Command /\ item \in Listing(dir)
  /\ Queue(Id(item))
  /\ UNCHANGED <<senders, dir, owned, step, current, seen, listed, outstanding,
                 process, queue, paused, history, missed>>

-----------------------------------------------------------------------------
(* attemptOffer, one action per await.  After each await the attempt gives  *)
(* up if isCurrent no longer holds.                                         *)

Finish ==
  /\ ops' = Tail(ops) /\ step' = "idle"
  /\ current' = FALSE /\ seen' = {} /\ listed' = {}

\* The attempt begins: it captures the ownership and opens the store.
BeginOffer ==
  /\ ops # <<>> /\ Head(ops) = "offer" /\ step = "idle"
  /\ missed' = FALSE
  /\ \/ owned /\ step' = "open" /\ current' = TRUE /\ UNCHANGED <<ops, seen, listed>>
     \/ ~owned /\ Finish
  /\ UNCHANGED <<senders, dir, owned, outstanding, pi, history>>

\* The attempt ends without an offer: it is stale, or the store failed.
AbandonOffer ==
  /\ step \in {"open", "list", "remove", "peek"}
  /\ Finish
  /\ missed' = (missed \/ current)
  /\ UNCHANGED <<senders, dir, owned, outstanding, pi, history>>

ReadEvidence ==
  /\ step = "open" /\ current
  /\ step' = "list"
  /\ seen' = Evidence(session)
  /\ UNCHANGED <<senders, dir, owned, ops, current, listed, outstanding, pi,
                 history, missed>>

ListItems ==
  /\ step = "list" /\ current
  /\ step' = "remove"
  /\ listed' = Listing(dir)
  /\ UNCHANGED <<senders, dir, owned, ops, current, seen, outstanding, pi, history,
                 missed>>

RemoveListed(items) ==
  /\ step = "remove"
  /\ \E i \in OldestItem(items) :
       /\ dir' = {j \in dir : Id(j) # Id(i)}
       /\ IF current THEN listed' = listed \ {i} /\ UNCHANGED <<ops, step, current, seen>>
                     ELSE Finish
  /\ UNCHANGED <<senders, owned, outstanding, pi, history, missed>>

\* Mutant of RemoveDelivered: what was offered is removed without waiting for evidence.
RemoveOffered == RemoveListed({j \in listed : Id(j) \in seen \cup {outstanding}})

\* The oldest listed item with evidence is removed: its file name is its id.
RemoveDelivered == RemoveListed({j \in listed : Id(j) \in seen})

\* Mutant of Reconcile: the outstanding item is forgotten before it has evidence.
ReconcileForgetful ==
  /\ step = "remove" /\ current
  /\ \A i \in listed : Id(i) \notin seen
  /\ outstanding' = NoId
  /\ IF session \in paused
       THEN Finish
       ELSE step' = "peek" /\ seen' = {} /\ listed' = {} /\ UNCHANGED <<ops, current>>
  /\ UNCHANGED <<senders, dir, owned, pi, history, missed>>

\* All of them are gone: the outstanding item is reconciled, and the attempt goes
\* on unless offering is paused or an item is still outstanding.
Reconcile ==
  /\ step = "remove" /\ current
  /\ \A i \in listed : Id(i) \notin seen
  /\ outstanding' = IF outstanding \in Ids(listed) THEN outstanding ELSE NoId
  /\ IF session \in paused \/ outstanding' # NoId
       THEN Finish
       ELSE step' = "peek" /\ seen' = {} /\ listed' = {} /\ UNCHANGED <<ops, current>>
  /\ UNCHANGED <<senders, dir, owned, pi, history, missed>>

\* The oldest stored item becomes a Follow-up.
OfferOldest ==
  /\ step = "peek" /\ current
  /\ \/ \E i \in OldestItem(dir) :
          followUps' = Append(followUps, i) /\ outstanding' = Id(i)
     \/ dir = {} /\ UNCHANGED <<followUps, outstanding>>
  /\ Finish
  /\ UNCHANGED <<senders, dir, owned, process, log, turn, user, history, missed>>

-----------------------------------------------------------------------------
(* The cancel operation: two tasks, serialized with the attempts.           *)

\* Mutant of Cancellable: only the session log is consulted.
CancellableQueued(id) == owned /\ id \notin Evidence(session)

Cancellable(id) == owned /\ outstanding # id /\ id \notin Evidence(session)

BeginCancel ==
  /\ ops # <<>> /\ Head(ops) # "offer" /\ step = "idle"
  /\ IF Cancellable(Head(ops))
       THEN step' = "cancel" /\ UNCHANGED <<ops, current, seen, listed>>
       ELSE Finish
  /\ UNCHANGED <<senders, dir, owned, outstanding, pi, history, missed>>

CancelItem ==
  /\ step = "cancel"
  /\ dir' = {i \in dir : Id(i) # Head(ops)}
  /\ cancelled' = cancelled \cup {<<i.message, session>> : i \in dir \ dir'}
  /\ Finish
  /\ UNCHANGED <<senders, owned, outstanding, pi, arrivals, leaves, missed>>

-----------------------------------------------------------------------------
SenderStep(m) ==
  \/ LockInbox(m) \/ RefuseEnqueue(m) \/ PersistItem(m) \/ Unlock(m)
  \/ SendHint(m) \/ SkipHint(m) \/ SenderCrash(m)

RecipientStep ==
  \/ \E s \in Sessions : StartSession(s)
  \/ JoinCrew \/ LeaveCrew \/ EndProcess
  \/ PauseInbox \/ ResumeInbox
  \/ DeliverFollowUp \/ EndTurn
  \/ \E i \in dir : RequestCancel(i)

BridgeStep ==
  \/ BeginOffer \/ AbandonOffer \/ ReadEvidence \/ ListItems
  \/ RemoveDelivered \/ Reconcile \/ OfferOldest
  \/ BeginCancel \/ CancelItem

InboxNext == (\E m \in Messages : SenderStep(m)) \/ RecipientStep \/ BridgeStep

InboxSpec == InboxInit /\ [][InboxNext]_inboxVars

-----------------------------------------------------------------------------
Items == [sequence : Nat, message : Messages]
ItemIds == {Id(i) : i \in [sequence : 0 .. Cardinality(Messages), message : Messages]}
SenderStates == {"unsent", "locked", "persisted", "stored", "done", "refused", "dead"}
Steps == {"idle", "open", "list", "remove", "peek", "cancel"}

\* Types of all variables.
InboxTypeOK ==
  /\ sender \in [Messages -> SenderStates]
  /\ chosen \in [Messages -> Nat]
  /\ lock \subseteq Messages
  /\ dir \subseteq Items
  /\ alive \in BOOLEAN /\ session \in Sessions /\ owned \in BOOLEAN
  /\ paused \subseteq Sessions
  /\ Len(ops) <= MaxOps /\ \A i \in DOMAIN ops : ops[i] = "offer" \/ ops[i] \in ItemIds
  /\ step \in Steps /\ (step # "idle" => ops # <<>>)
  /\ current \in BOOLEAN
  /\ seen \subseteq ItemIds /\ listed \subseteq Items
  /\ outstanding \in ItemIds \cup {NoId}
  /\ followUps \in Seq(Items)
  /\ log \in [Sessions -> Seq(Items)]
  /\ turn \in BOOLEAN /\ crashes \in Nat /\ commands \in Nat
  /\ arrivals \in Seq(Messages)
  /\ cancelled \subseteq Messages \X Sessions
  /\ leaves \in [Sessions -> Nat] /\ missed \in BOOLEAN

Arrived == {arrivals[i] : i \in DOMAIN arrivals}
Logged(s) == {log[s][i].message : i \in DOMAIN log[s]}
Delivered == UNION {Logged(s) : s \in Sessions}
Cancelled == {c[1] : c \in cancelled}

\* Concurrent senders never give two stored items the same place in the queue, nor
\* fill the inbox beyond its capacity, also when one of them dies with the lock.
StoreConsistent ==
  /\ \A i, j \in dir : i.sequence = j.sequence => i = j
  /\ Cardinality(dir) <= MaxItems

\* A persisted message is stored until a session of the recipient has it in its log
\* or its user cancelled it, through every crash, restart and change of session.
\* This is what createInboxItemId and evidence-gated removal are for.
NoMessageLost ==
  \A m \in Arrived : m \in Delivered \cup Cancelled \/ \E i \in dir : i.message = m

\* A session is given a message once for each time it joined: triggers that overlap,
\* repeat or outlive their ownership never queue an item twice.
Copies(m, s) ==
  Cardinality({i \in DOMAIN log[s] : log[s][i].message = m})
  + IF s = session THEN Cardinality({i \in DOMAIN followUps : followUps[i].message = m})
                   ELSE 0
CopiesBounded ==
  \A m \in Messages, s \in Sessions : Copies(m, s) <= 1 + leaves[s]

\* Cancelling succeeds only for an item not handed to the session: a session that
\* never left the crew does not meet the message afterwards.
CancelIsFinal ==
  \A c \in cancelled : leaves[c[2]] = 0 => Copies(c[1], c[2]) = 0

\* No wake-up is lost between the triggers and the serialized attempts: when a joined
\* recipient has come to rest, every item is delivered whose hint was not lost.
AtRest ==
  /\ alive /\ owned /\ session \notin paused
  /\ ops = <<>> /\ followUps = <<>> /\ ~turn
NoLostWakeup ==
  AtRest /\ ~missed => \A i \in dir : sender[i.message] \in {"persisted", "stored"}

\* The inbox implements Mailbox: nothing accepted overtakes what was accepted before.
MailboxOf == INSTANCE Mailbox WITH delivered <- Delivered, cancelled <- Cancelled
MailboxKept == MailboxOf!Spec
=============================================================================
