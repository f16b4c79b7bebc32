# A TLA+ verification development for Pi Bebop

Pi Bebop lets a *crew* of independent Pi (LLM agent) sessions on one machine
talk to each other. Each session is a process of its own, with an RPC server on
a unix socket; there is no broker. Whatever the crew promises - a request that
always ends, a message that is never lost, one session per role - has to come
out of event loops, sockets, timers, small files and symbolic links in several
processes. This directory models those parts in TLA+, checks small instances
with TLC, and proves the central invariants for every instance with TLAPS.

All definitions are written from the TypeScript under `src/src/`; `PROJECT.json`
maps each definition to the lines it stands for. Pi itself (its Follow-up
queue, its session log, its `abort`) is not part of the repository; what the
code relies on is modelled and marked external.

## 1. The system

### 1.1 Parts, their state, and what makes each correct

| Part | State | Operations | What is hard about it |
|---|---|---|---|
| Request outcome registry (`domain/member-request.ts`) | open requests, buffered outcomes, tombstones, parked callers (all in memory) | register, accept, arm idle, resolve (response, offline, timeout, pending), wait for one, wait for any, cancel a wait | bounded buffer and tombstones against outcomes that must not be dropped; callers against outcomes |
| Member request flow (`application/member-request-flow.ts`, `infra/rpc-client.ts`, `pi/control-runtime/member-request-handlers.ts`) | one socket, two timers and one call per request; the responder's inbound table | send, acknowledge, respond, go idle, time out, exit | socket events against awaits; several lines in one chunk; lost acknowledgement; the other process exits |
| Member inbox (`infra/member-inbox-store.ts`, `domain/member-inbox.ts`) | a directory of items, one lock file | enqueue, list, peek, remove, cancel | several senders at once; a crash at any step; identifiers |
| Inbox bridge (`application/inbox-bridge.ts`, `pi/inbox-bridge-runtime.ts`) | the ownership, one outstanding item, a queue of operations, evidence in the session log | attempt, pause, resume, cancel, establish, invalidate | ownership changes across each await; triggers overlap; restarts |
| Interrupt flow (`application/interrupt-flow.ts`, `domain/member-interrupt.ts`) | pending and handed-off evidence in the target's session log | interrupt, recover | evidence before abort before handoff; reload in between; lost acknowledgement |
| Membership and endpoints (`infra/membership-runtime.ts`, `infra/member-endpoint.ts`) | a symbolic link per role, a `.claim` lock, the session's live membership | join, switch role, leave, probe, reclaim | two processes claim one role; a busy owner is taken for dead; a crash holds the claim |
| Presence (`application/presence-*.ts`, `domain/presence.ts`) | the last snapshot, an observation generation | observe, announce | an old observation answers late |
| Crew intake (`application/filesystem-crew-intake.ts`, `infra/crew-intake-dropbox.ts`) | files in four directories, a scan lock, intents, receipts, the inbox | publish, lock, claim, read, enqueue, write the receipt, move, put back | every session scans; a crash between any two writes must not lose or double a message |
| Guests (`infra/guest-*.ts`, `domain/guest-*.ts`) | a shared registry file with a revision, each Member's memory of requests and decisions, each Guest's membership | join, approve, deny, remove, leave, restore | several Members write one file; lost and late answers; restarts on both sides |
| Idle wait and deferred delivery (`application/member-idle-wait-flow.ts`, `domain/member-idle-wait.ts`, `pi/control-runtime.ts`) | subscriptions, open connections, the compaction flag, deferred Follow-ups | wait, delegate, subscribe, settle, defer, flush, stop | settling between the snapshot and the subscription; three processes in one wait; stop |
| Client calls (`application/member-message.ts`, `application/crew-broadcast.ts`, `sdk/*-operation.ts`, `cli/commands/*.ts`) | one line of sends per endpoint; the budget and signal of each call | follow up, redirect, inbox, broadcast, ask | two hops that can each lose their answer; cancel and deadline at any moment; what the caller is told |
| Crew sessions (`application/crew-session-*.ts`, `infra/crew-session-store.ts`, `application/role-session-resume.ts`) | records on disk, a store lock | capture, add, resolve, resume, show | sessions and manifest change between any two reads |
| Manifest, init, directory, routes (`domain/crew-manifest.ts`, `application/crew-init-flow.ts`, `crew-directory.ts`, `crew-target-resolution.ts`, `cli/commands/ask.ts`, `sdk/source-discovery.ts`) | two manifest places of a project, sockets, one alias | init, list, resolve, ask, select | files read one after the other while they change; ambiguity; concurrent initializers |
| Protocol (`domain/protocol/*.ts`, `domain/message-payload.ts`) | none | a command to params and back | what the way drops or refuses |
| Session names, status, last message, doctor, rendering | small or none | see `PROJECT.json` | mostly conversion and layout |

### 1.2 How they interact

A tool, the CLI or the SDK resolves a *target* to an endpoint (a symbolic link
to a socket), and sends one JSON line to the target's RPC server. The target's
handler registers what it must remember, gives text to Pi as a *Follow-up* (or
steers the running turn), and acknowledges. Later lines on the same socket
carry outcomes of a request. The inbox and the intake need no live target: a
sender writes a file, and the target's bridge offers it to Pi once the target
has joined the crew. Each process is one event loop: a task runs from an event
to its next `await`, and what another process or another task does can only
come in between. That is the grain of the models: **one action is one task up
to its next await** (or one file operation visible to other processes), never
half a task and never two.

### 1.3 Hazards

`PROJECT.json` lists the hazards with their lines. The ones that shaped the
models: outcomes meeting a full buffer; outcome lines that arrive before the
continuation of the awaited acknowledgement; timers against socket lines;
senders sharing a directory; a lock file deleted by name; crashes between a
write and the step that depends on it; ownership that changes across an await;
a wake-up that arrives while an attempt is past its listing; an answer lost
after the request was written; a retry that publishes what it read before; a
verdict put together from files read at different times.

## 2. Plan

The order is that of importance to the users: first what must not be lost
(requests, inbox, intake), then who is who (endpoints, guests), then what
callers are told, then what is read from disk and acted on.

1. **Requests** - done: `RequestPromise` (abstract), `RequestOutcomeRegistry`,
   `MemberRequestFlow`, and proofs for both.
2. **Inbox** - done: `Mailbox` (abstract), `InboxDelivery`, and proofs of the
   store, of delivery and of the refinement.
3. **Interrupt**, 4. **Endpoint** - done, with proofs.
5. **Intake** - done: `CrewIntake`, with proofs of all three properties.
6. **Guests** - done: `GuestAdmission`, with proofs of both properties.
7. **Idle wait and deferred deliveries** - done: `IdleWait`, with proofs of all
   three properties.
8. **Client calls** - done: `SendPromise` (abstract), `CommandForm`, `ClientCall`,
   with proofs of the safety properties and of the refinement.
9. **Crew sessions** - done: `CrewSession`, with proofs of all three properties.
10. **Manifest, init, directory, routes** - done: `CrewManifest`,
    `CommandRegistry`, `CrewProject`, with proofs of all three properties.

Left: the endpoint composed with the bridges of two sessions (who may offer
items while a role changes hands); `PresenceObservation`.

## 3. The modules

### 3.1 RequestPromise, RequestOutcomeRegistry

`RequestPromise` says what bookkeeping promises a caller: an open request is
withdrawn without an outcome or resolved once, its outcome never changes and is
handed to at most one caller.

`RequestOutcomeRegistry` is the class of the same name in
`domain/member-request.ts`, one action per method. A request is its identifier;
the boolean fields of its record are sets of identifiers (`accepted`,
`idleArmed`, `pendingPublished`). `Publish` has the code's three alternatives:
a caller parked on exactly this request, a caller parked on any, or the buffer.
The branch of the code that silently drops an outcome when the buffer is full
is in the model; that it is never taken is a property (`RoomForEveryOutcome`),
not an assumption. `issued`, `resolution` and `collected` are history.

### 3.2 MemberRequestFlow

The registry with everything around it: `sendMemberRequest` of the requester,
the socket it opens per request, the two timers, the parked callers, and the
responder's handlers. `chunk` holds the lines of one socket read that are still
to be handled: `AcceptLine` makes the awaited `open` resolve, but its
continuation (`ContinueSend`) runs only when the event loop is free, after the
other lines of the chunk. `lines` is what the responder wrote and the requester
has not read. `ResponderExit` ends the responder's process at any point.
`WaitOnListed` says whether a caller may wait for a request it only saw in
`member_request_list`. `heard` is history: a Response met its request while that
was live (`Hear`), either alone or in the very task that handled the
acknowledgement.

### 3.3 Mailbox, InboxDelivery

`Mailbox` is the promise: an accepted message is there until delivered or
cancelled, and first deliveries happen in the order of acceptance.

`InboxDelivery` has the directory, the senders with their lock file, the
recipient's process and its bridge. A sender's `enqueue` is `LockInbox`
(lock, listing, choice of a sequence number), `PersistItem` (rename), `Unlock`
and then a hint or none. The bridge's `attemptOffer` is one action per await:
`BeginOffer`, `ReadEvidence`, `ListItems`, `RemoveDelivered` for each item,
`Reconcile`, `OfferOldest`; `current` is the code's `isCurrent()` after each of
them. A turn of Pi logs the item, which is the evidence. `Twins` are messages
whose target and payload agree, so that their items can get one identifier.
`missed` records that a trigger was lost since the last attempt (a lost hint, a
resume, an abandoned attempt), which is when the code does not promise an offer.

### 3.4 InterruptFlow

One target and the Members that interrupt it. The handler `interrupt` and the
recovery `recoverPending` are each one task of the target's event loop, since
Pi's `abort` and `sendMessage` return at once; their steps (`PersistPending`,
`RequestAbort`, `HandOff`, `PersistHandedOff`) are separate actions because the
process may end, or a call throw, between any two (`EndProcess`, `FailTask`;
`FailPersist` is the first entry, which the handler writes outside its `try`, so
that the server answers with an internal error).
`entries` is the evidence in the session log, in order; `HasPending` scans it
per sender as `hasPendingInterrupt` does, `LatestPending` looks at the newest
entry alone as `latestInterruptEvidence` does. The caller's side is
`sendRpcCommand` with `classifyLostAck`: what it concludes from an answer, a
lost answer, or a failure before the write. `queued` is what Pi was handed and
no turn has taken; it goes with the process, as the code's own evidence does
not.

### 3.5 MembershipEndpoint

`link` and `lock` are the two files of each endpoint, `membership` what each
process believes. `claimMemberEndpoint` and `releaseMemberEndpoint` are one
action per file operation, `at` is the next one, and `stage` says whether it
runs for a join, for a leave or the second half of a switch (`release`), or to
undo a switch (`rollback`); `Succeed` and `Fail` are the code after each in
`createMembershipRuntime`. `UnlockBeforeSymlink` is the release of the lock that
`return createEndpoint(...)` without `await` permits. `Probe` finds an owner
dead that is alive only through a timer that fires before the answer
(`MaxMissed` bounds it): the kernel accepts connections of a busy process, so
it is the prober's own lateness that matters. `usurped` remembers whom a probe
missed, `strays` the links a crash or a failed rollback left. Commands of one
process are taken to run one at a time.

### 3.6 CrewIntake

`box` holds the files of `new/`, `claimed/`, `processed/` and `failed/` by name;
`intent`, `receipts` and `enqueued` are what a commit leaves, `scan[p].at` is
where each session's scan stands. In the code a look at a path and the rename or
write that relies on it are two awaits, so they are two actions: `Claim` and
`RenameClaim`; `Reject` and `RenameFailed`; `ReadReceipt` and `ReadIntent`, with
what is made of them (`Recall`); `LookForIntent` and `WriteIntent`; `Check` and
`Enqueue`; `LookForReceipt` and `WriteReceipt`; `Recheck`; `MoveProcessed` and
`RenameProcessed`; `PutBack` and `RenameBack`. A rename replaces what is at its
destination. `GiveUp` sends a scan to the put-back, `StorageError` does so at any
step of a commit, and `Resync` and `EditManifest` change under a scan what
`Check` and `Recheck` compare.

The lock file is deleted by name (`UnlinkStale`, `CallUnlink`, `ReleaseScan`),
whoever has written it since it was looked at; `robbed` remembers that a living
owner lost its lock so. A process may end at each step (`EndScanner`), which
leaves its lock file and its claim. `Drop` is a writer that renames a file in,
without any lock. `bebop contact` (`caller`) publishes under the scan's lock:
`StartCall`, `CallLock`, `CallLook`, `CallLink`, `CallUnlock`. Its looks at the
directories are one action, because with the lock held only a writer's file can
appear between them, and then the `link(2)` of the draft refuses. `raced` holds
the files that arrived while a claim of their name was being put back.

### 3.7 GuestAdmission

`registry` is the shared file with its revision, `adm` each Member's runtime
(requests and decisions in memory), `writer` a Member's write under way - read,
check of the revision, rename - `guest` what a Guest's session believes, and
`answer` the admission answer on its way to it. `Approve`, `Deny`, `Remove` and
`GuestLeave` decide in memory and start a write; `Load`, `CheckRevision`, `Rename`
and `WriteError` are its accesses to the file, a failed check loads again up to
`MaxWriteAttempts` times. `Refresh` and `EndMembership` are a Member's join and
end, `EditManifest` changes the list of approvers. A Guest asks on the tool's
path (`GuestJoin`) or on the CLI's (`CliJoin`). `decided` is history. What an
approved Guest then sends is not modelled (section 6).

### 3.8 IdleWait

A wait is a connection with one answer. `Reqs` are the tool of a session, a
client's call to its source, and the hop that source makes for it; `wait` is the
asker's side, `link` the connection with the lines in flight, `subs` the
target's subscriptions. `Serve` is the target's handler, which answers at once
or subscribes; a source serves a client's call by starting the hop.
`AgentSettled`, `CompactionStart` and `CompactionEnd` are Pi's events with all
that the extension does on them: settle the waits, flush the deferred
Follow-ups. `Leave`, `Stop` and `Exit` end a server in the code's three ways,
`Rejoin` joins again while the server stays up, and `NoticeClose` is each end
seeing that the other is gone. A session's tool calls come one after the other,
but a new one may begin on a socket of its own (`Sockets`, `NewSocket`) before
the target has noticed that the previous one was closed. `saw` is history:
the target was idle while the wait was on.

### 3.9 SendPromise, CommandForm, ClientCall

`SendPromise` says what a sender may believe: a message is taken at most once,
"accepted" is said only of what was taken, what was "denied" is never taken, and
only "unknown" leaves it open.

`ClientCall` is a caller, its source session and the recipients: `client`,
`asked` and `answer` are the first hop, `job` and `queue` the source's work and
its line per endpoint (`MemberMessageCoordinator`), `wire` and `reply` the
second hop or, for the inbox, `StoreOpened`, `Persist` and `Hinted`. `GiveUp`
and `LocalGiveUp` are the abort and the deadline at either end, `HopLost` what
`sendRpcCommand` concludes from each kind of loss with and without
`classifyLostAck`. `told` is what the caller is told of each recipient, by the
mapping of its surface (SDK, CLI, in process). `CommandForm` holds the checks of
a message's form on the way: which the caller makes, what is sent of the list of
instructions, and which check refuses it.

### 3.10 CrewSession

The records of the store, its lock, the sessions with their files and the
persisted membership entry in them, and one `op` per run of the CLI. Capture
and add locate an endpoint (`Locate`), get an answer from whoever listens there
by then (`Answer`), and check it (`Check`, `Attests`); `Acquire`, `Write`,
`Release` are the store's own critical section, `Die` an operation that ends
inside it. Resolve and resume read manifest, record, file and entry one after
the other, probe, and hand out a session (`resolved`, `Launch`).

### 3.11 CrewManifest, CommandRegistry, CrewProject

`CrewManifest` is the conjunction a manifest must satisfy, each conjunct a named
operator. `CommandRegistry` is the protocol's registry with a command as the set
of its field names: `toParams`, the schemas and `fromParams`, so that a dropped
or refused field is visible to the operation that sends it. `CrewProject` is one
project directory with its two manifest places, endpoints, sessions and an
alias, and five commands over them, each a process whose every read is an
action: `init` (classification, a private staging directory, one rename), `list`,
`resolve`, `ask` and `select`. `Surroundings` are the users and sessions that
change what is there.

## 4. The runs

| Run | Checks | Bounds, and why they are enough |
|---|---|---|
| `flow_safety` | calls and the registry agree; outcomes are kept until collected, notices never stale; a Response that meets a live request outside the task of its acknowledgement wins; the flow implements `RequestPromise` | three requests on a table of two, two buffered, one tombstone, one inbound slot: every limit is reached and an identifier outlives its tombstone; two lines per chunk, callers that wait for any listed request, one exit of the responder |
| `flow_progress` | accepted requests settle; callers are served; inbound slots are freed | two requests, two lines per chunk, callers that wait only for accepted requests, because of finding 3 |
| `inbox_safety` | no message lost, cancel is final, no lost wake-up, no repeated offer, refines `Mailbox` | three messages in two places, a listing limit of one, two sessions, two queued operations, one crash anywhere, one command of the user; equal messages are finding 4 |
| `intake_safety` | one recipient, filed only when persisted, no file lost, each as long as no living owner's lock was deleted | two scanners beside `bebop contact`, two publications under two names with equal or different texts, one unreadable content, a scan that fits one file, three troubles (crash, edit of the contact, storage error, resync). States after a lock was deleted under its owner are checked but not followed (`LocksRespected`), since the properties claim nothing there |
| `control_runtime` | interrupts: no handoff after evidence, truthful callers, the newest pending evidence is recovered; waits: no settling is missed, idle answers were true, slots are held for live waits | two services of one control server, which share no state: TLC explores the one or the other (`part`). Two senders, one of them with two calls, two ends of the target, failures at every step. Two sessions, a client that delegates, two waits on a capacity of one, one Follow-up, one stop, leave or exit and the restarts after it; the stored result of a wait, which nothing reads, is left out of the state (`VIEW`) |
| `membership` | endpoints: Members are published, failed switches leave nothing; guests: the file holds decisions only, Guests believe approvals only | again two parts that share no state. Three sessions on two endpoints, so that a claim, a reclaim and a release meet; one crash, one missed probe. Two approvers, two Guests, two names, five commands, one trouble, two write attempts: enough for a contested write between a decision and its publication |
| `client_safety` | `SendPromise`, lines in order, nothing written after a cancel, equal form checks, every call ends | two calls that share the source and both recipients, one end of a process, messages at the size limit |
| `session_safety` | links were joined, captures stay true, a session handed out has served that Member in that role | a capture, an add to its record and a third operation of any other kind, two sessions, two revisions of the manifest, three changes around them |
| `project_safety` | verdicts are true, list and resolve agree, init overwrites nothing | every kind of manifest in every place for resolve beside list, init beside init or list, and resolve, list, ask and select against up to two changes (`MaxMoves`) while they run |
| `client_ask` (violation) | `AskIsHeard` | finding 1 |
| `flow_response` (violation) | `ResponseAlwaysWins` | finding 2 |
| `guest_tombstones` (violation) | `TombstonesKept` | finding 5 |

**Bounds by name.** `MaxChunk` lines read at once, `MaxExits` exits of the
responder, `MaxOps` queued bridge operations, `MaxCrashes` ends of a process,
`MaxCommands` acts of users, `MaxMissed` probes that miss a live owner,
`MaxDrops` files published (the intake), `MaxTrouble` faults (each module says which),
`MaxAsks` waits begun, `MaxMessages` Follow-ups, `MaxMoves` steps of the
surroundings; `Interrupts`, `Calls` and `Ops` are the finite sets of what is
called, and `Sockets` bounds the connections of one session's tool. `MaxOutbound`, `MaxBuffered`, `MaxTombstones`, `MaxInbound`, `MaxItems`,
`MaxListed`, `MaxPerScan`, `MaxWriteAttempts`, `Capacity`, `Limit` are constants
of the code, made small so that they are reached. Symmetry is used for
identifiers, sessions and messages, only in runs without liveness. Deadlock is
not checked: all these systems may come to rest (every request closed, every
message delivered, every command ended).

Each module has a type invariant. No run checks it on its own: the proofs start
from it.

**Fairness.** Only `flow_progress` and `client_safety` assume any. It is weak
fairness of event loops and timers: a readable socket is read, the continuation
of a resolved promise runs, a deadline fires, an end of a connection is noticed.
A runtime that does not run ready tasks runs no program. Nobody is obliged to
send, answer, wait, go idle or exit; `CallsEnd` holds although a target may
never read its socket, because the hop's own deadline ends it.

### Findings

1. `client_ask`: the wire schemas want at least one instruction or no list at
   all. `bebop ask` and `member-request send` without `--instruction` send an
   empty list, which every check takes but the last, at the source: the question
   is refused as malformed. The SDK's Ask and Inbox and the in-process Broadcast
   keep an empty list too; Follow-up, Redirect and the CLI's Inbox drop it.
2. `flow_response`: the Response of a request can come in the same chunk as its
   acknowledgement. It is then handled before the continuation of
   `await transport.open` accepts the request
   (`application/member-request-flow.ts:274`), is rejected, and the caller gets a
   timeout, although `docs/MEMBER-REQUEST-WORKFLOW.md:136` has the flow deliver a
   Response that arrives within the grace. `ResponseWins` of `flow_safety` says
   what does hold, for chunks of any size: only the Response that is handled in
   the very task of the acknowledgement can be lost so.
3. Set `WaitOnListed = TRUE` in `FlowProgress.cfg` and `ParkedCallerServed` fails:
   `failBeforeAcceptance` (`domain/member-request.ts:286`) removes a request
   without waking a caller that already waits for it.
4. Set `Twins = {m1, m2}` in `InboxSafety.cfg` and `NoMessageLost` fails: an
   item's identifier has no time in it and the sequence starts again at 0 when
   the inbox is empty (`domain/member-inbox.ts:77`, `:119`), so a message sent
   again with the same text meets the evidence of the first and is removed
   unread.

5. `guest_tombstones`: `replaceEntries` writes what the writing Member's runtime
   knows over the newest file; of the entries there it keeps only those it knows
   (`infra/guest-registry-store.ts:175`). Whoever another Member has denied or
   removed, and this Member never heard of, is gone from the file, although the
   comment at `infra/guest-registry-store.ts:22` says that concurrent Members
   never lose tombstones.

Seen while modelling, and visible in the models' actions:

- `recoverPending` (`application/interrupt-flow.ts:252`) looks at the newest
  evidence of all senders: one sender's pending interrupt is hidden by a later
  one of another sender, is never recovered, and its sender is answered
  `already-pending` from then on. A recovered interrupt has lost its guidance.
- A session that crashed as one Member comes back on the same socket path, so
  that its stale link is live again, and joins another role without releasing
  the first (`infra/membership-runtime.ts:127`).
- The registry drops fields: `member_request.toParams` leaves `guestAuth` out
  and `member_request_start.toParams` leaves `crew` out
  (`domain/protocol/command-registry.ts:182`, `:197`), so that a Guest's Member
  Request is refused, although `docs/CREW-INTERACTION.md:11` describes it.
- An SDK Member Request maps a lost acknowledgement to a refusal: its codes lack
  `outcome-unknown` (`sdk/member-request-operation.ts:342`), and the CLI's Ask
  does not ask for the classification. That is why `client_safety` leaves Ask to
  `client_ask`.
- `bebop ask` by alias follows the alias again after the capture
  (`cli/commands/ask.ts:157`), so the question can leave by another session than
  the one captured, which may be of another Member or Crew, although `UL.md:93` and
  `docs/CREW-INTERACTION.md:11` speak of one request over an authorized joined
  route for the exact Crew; and it takes the session's root for the project's. A property that an
  ask leaves by its source would be false, so none is stated.
- `resolve` probes the endpoint of the Member only
  (`application/crew-session-resolution.ts:306`): a session that is open and
  joined nowhere, after a failed restore for one, is handed out as closed.
- Two adds to one Crew Session read the record outside the lock
  (`application/crew-session-capture.ts:309`): the second write takes the first
  one's link back. A capture that meets a reason the record's schema does not
  know fails as `invalid-record`. One invalid record breaks the store's list.
- A crash that holds `.capture.lock`, an inbox `.lock` or an endpoint's `.claim`
  leaves it for ever.
- `release` of the intake looks whether a file has arrived under the name it puts
  back, and renames two awaits later (`infra/crew-intake-dropbox.ts:766`): a file
  that a writer drops in between is replaced, twelve steps into the model and with
  every lock respected, although
  `plans/done/0216-add-filesystem-crew-intake-dropbox.md:88` excludes overwriting.
  `NoFileLost` leaves out such a file (`raced`) and no other.
- A stale scan lock is deleted by name, whoever owns it by then
  (`infra/crew-intake-dropbox.ts:820`). Two scans then run at once, after 13 steps
  (the same plan, line 90, says that two runtimes cannot claim one file), and an
  edit of the contact between their looks for an intent gives one file two
  recipients, after 34 (`docs/LOCAL-INTAKE.md:9` says that the intent keeps the
  original). The three properties of the intake are therefore stated for runs in
  which no living owner's lock was deleted (`robbed`).
- `onAbort` of `sendMemberRequest` has a branch for accepted requests
  (`infra/rpc-client.ts:418`) that nothing reaches: the only signal is the start's
  own budget, which is cleaned up as soon as the acceptance resolves, before
  another task can abort it. The model has no such step.
- A name that already lies in `processed/` stops the intake: the file is put
  back, and the next scan meets it first again.
- Removed Guests are forgotten when their approver leaves the manifest
  (`infra/guest-registry-store.ts:105`), a name may be approved twice, a pending
  Guest cannot leave, and the CLI's `guest join` uses up the capability that is
  given once.
- Stopping the control server drops waits without an answer
  (`pi/control-runtime.ts:69`), which `plans/done/0050` excludes. A delegated wait
  that times out before its acknowledgement is reported as a malformed response,
  and a wait for a Member by its unique role is taken for a wait for oneself.
- `.pi/bebop` that is a file makes `init` fail with the system's own error, and
  an initializer that is killed leaves its staging directory.

## 5. Proofs

`MemberRequestFlowProofs` begins with the registry alone: for every value of the
constants, type correctness, its four safety invariants (`RoomForEveryOutcome` and
`NoCallerParkedPastOutcome` besides the two of the run), and the refinement of
`RequestPromise`. The inductive invariant `IInv` adds to the properties what
they need: that requests are finite and issued, that a sequence number below
`sequence` is given once, and the *claimed* identifiers - open or buffered -
whose number never exceeds `MaxBuffered`. The last is the heart of the
argument: an open request with a buffered notice claims one place, not two, so
the admission test `|buffered| + |outbound| < MaxBuffered` at registration pays
for every outcome published later.

By construction each step of the flow is a registry step or leaves the registry
alone (lemma `StepRespectsRegistry`), so the registry's theorems carry over to
the composed system, `FlowKeepsPromise` among them. By an inductive invariant of
its own (`FlowIInv`, which adds which sockets are held) the timers match the
requests, calls agree with the registry and sockets are released.

`ResponseWinsHolds` says that a Response which meets a live request, other than in
the task of its acknowledgement, decides the outcome, for chunks of any size. The
only way to lose one is to read it before the request is accepted. `ReadInv` says
that this cannot happen while the request is being opened, since the first line
that is read of it is its verdict (`VerdictFirst`): it is left for the task of the
acknowledgement, which the property excludes and the run `flow_response` shows.
`HeardInv` says that a Response heard at any other time finds its request
accepted, so that the registry records it once and for all.

`MembershipEndpointProofs` proves, for any number of sessions and endpoints,
that no claim or release acts on a link that changed since it was read
(`CheckedLinkUnchanged`), and that a Member no probe missed is published at its
endpoint (`MemberPublished`). `MemberPublished` is not inductive: a session is
as good as a Member once its claim has written the link, and during a switch it
holds two endpoints. `Holds` names those states, `Owned` says that a holder is
published or was missed, and `Doomed` that nobody whose link is about to be
moved holds the endpoint, which rests on the lock (`Locked`): a session that
would become a holder needs the lock the reclaimer has. The assumption about
dead sessions is no assumption: a process that ends forgets its membership. Every
link to a live session that is not its Member's is one a command still works on,
or is listed in `strays` (`Accounted`, `Released`), which is `NoStrayEndpoint`
once the session is idle.

`ControlRuntimeProofs` proves two services of a session's control runtime, which
share no state. The first part proves, for any senders and interrupts, that a sender has
at most one pending interrupt (`OnePendingPerSender`) and that nothing with
handed-off evidence is handed over again (`HandedOffIsFinal`). Both depend on
code that looks at one entry of the log; the invariant says why that entry is
the right one: the entry of a pending interrupt is the newest of its sender, and
handed-off never precedes pending. What a caller was told stays true
(`AnswerTruthful`) because each answer is given after the entry it speaks of, and
the log only grows (`Told`, `AbortKnown`); and while the newest evidence of a
running target is pending, its interrupt is the task at work or failed in this
process (`LatestTaken`), which is `LatestRecovered` when the target is free.

The first part of `InboxProofs` is about `InboxDelivery`. It proves that stored
items have places of their own and fit the inbox (`StoreConsistent`): at most one sender is between its listing and its
rename, so the number and the room it found are still there (`Exclusive`,
`Chosen`); every other step only removes items. It also proves `NoMessageLost`,
under the explicit hypothesis that `Twins` is empty - finding 4 shows that it is
needed: evidence an attempt has read is in some session's log for ever
(`SeenLogged`), and without twins an id names one message. Under the same
hypothesis it proves that the inbox implements `Mailbox` (`MailboxKept`): a call
persists its message once (`Once`), stored items keep the order of arrival
(`InOrder`), so that whatever came before the oldest stored item is delivered or
cancelled when that item is offered (`OldestReady`), and stays so until Pi begins
its turn (`Ready`). Each step of the inbox is then one of `Mailbox` or leaves it
alone (`InboxStepsMap`): a cancel takes one message at most.

No wake-up is lost (`NoLostWakeup`, with or without twins): an item whose sender
has hinted and that nobody has listed yet has an operation queued for it, an
attempt that will list again, or a turn whose end will (`Pending`, `Rerun`,
`Unseen`). `CopiesBounded` and `CancelIsFinal` count copies. An attempt works with
evidence it read some awaits ago, so what is needed is a spare copy at the moment
Pi is called: whoever is about to be offered has one to spare (`Spare`), because
the evidence and the outstanding item were consulted in this ownership
(`Guarded`, `SeenGuards`) and nothing between the listing and the offer removes
that guard (`PeekSpare`, `CancelSpare`). Both take `Twins = {}` for the reason
above, and `MaxListed > 0`, which the code's constant 32 satisfies.

The second part of `InboxProofs` proves the three properties of `CrewIntake` for
any number of sessions, Members, files and crashes, as long as no living owner's
lock was deleted (`robbed`). Each look of a scan is an await away from the rename
or the write it is for, so what a scan has seen must stay so until it acts. The
lock is the reason: whoever is past `Lock` holds it (`Alone`), hence what one scan
or `bebop contact` has seen of `claimed/`, `processed/`, `failed/`, of intents and
of receipts nobody else changes (`Knows`). Only `new/` is open to everybody, and
only a put-back renames into it: that is what `raced` sets apart in `NoFileLost`.
`Kept` follows: an enqueued key went where its intent says (`Recipients`), what is
filed has a receipt and a receipt was enqueued (`Persisted`), and no rename
replaces a file (`Present`).

The second part of `ControlRuntimeProofs` proves the three properties of the idle
wait for any number of sessions, clients and waits. `SlotsHeld` rests on what goes with a slot (`Held`:
the connection at that very session, its question already taken from it) and on
`NotYet`: a client's question is taken once, so its hop begins once and never
under a slot of an earlier one. `IdleWasTrue` follows an idle answer from where it
is written: no idle frame is on its way to a wait that did not see its target idle
(`IdleFrames`), and a client has seen what its hop has seen, because both wait for
the same Member (`Together`). `SettledIsObserved` needs only that a session whose
server is not up holds nothing (`Emptied`); each step then either leaves a session
as calm as it was (`Calm`) or sees to it itself (`Seen`).

`GuestAdmissionProofs` proves the two properties of the guests for any Members,
Guests, names, attempts and troubles. A decision travels from the Member that made
it to a write in progress, to the file, to another Member that restores it, and
to an answer on its way to the Guest. Each of these may be stale, so `DecisionInv`
claims of all of them at once that they are decisions (`StatesDecided`,
`WritesDecided`, `AnswersDecided`, `FileDecided`): a stale copy is still a copy of
a decision.

`ClientCallProofs` proves the safety properties of client calls for any callers,
Members, rosters and kinds of calls. `BasicInv` is what each step keeps of a call
of its own: an unstarted call left no trace (`Fresh`), a running one has
recipients (`Listed`), a waiting one stands in its line (`Entered`), a signal
that fired belongs to a job that will write nothing more (`Signals`). Hence
`NothingSentAfterCancel`. `OneAtATime` needs the lines as sequences without
repetition, and that a call leaves a line only from its head or before its turn
(`Stays`, `Joins`, `Leaves`). `OnlyEmptyListsRefused` needs that the caller's own
check bounds a message whatever its origin adds to it (`RoomForOrigin`).
`PromiseKept` is the refinement of `SendPromise`. `TruthInv` follows what is known
of a message along the way back: nothing was taken before a request was written
(`Untouched`, `Unsent`), nor twice (`OnceTaken`); the target's reply, the hop's
report, the source's answer and the caller's words are each true of what was
taken and can no longer become false (`Replied`, `Reported`, `Answered`, `Told`).
Its hypothesis `NoAsk` says that no call is an Ask: an Ask's request for help
reports a lost acknowledgement as a refusal (the SDK's codes lack
`outcome-unknown`, see section 4), so that its caller may be told "denied" of a
question that was taken. The run makes the same restriction.

`CrewSessionProofs` proves the three properties of the crew sessions for any
sessions, Members, manifest revisions, commands and troubles. Commands work with
copies (of a manifest, of a record, of what a session answered or its file says)
while the originals change, so each property is about what stays true of a copy.
`LinkWasJoined`: what a session answered, once checked, is a membership it had
(`Truthful`), and every record, stored or in a command's hands, holds such links
only (`Good`). `CaptureIsTruth` fails of the record alone: an add writes back what
it read before it asked, so the invariant is that no add's copy has lost a link
its capture reported (`Faithful`). It holds because an add asks for a Member
without a link and changes that line only, and because a capture's record is there
before any add can have read it. `ResolvedIsTheMembers` says that the session handed out has served the
Member in the role that the manifest in hand gives it. The session comes from a
record's link or from the entry in a session's file, and neither is made up
(`StoreGood`, `JoinedNow`); the command's checks tie it to the Member and the role
(`Served`). The session need not be closed when it is handed out, see section 4.
A capture's record must be new (`CapturesAreNew`): the
code draws its id at random (`createCrewSessionId`), and overwriting one is not
modelled. Records that were there before the run begins count as memberships their
sessions had then.

`CrewProjectProofs` proves the three properties of the project for any commands,
sessions, kinds of project and changes around them. A command looks at one file
after the other, so all that can be said of its verdict is what holds while
nothing has changed since it began. Changes are counted, so that a command that
was overtaken by one stays so (`HoldsStale`), and the invariant is about the
others: what such a command has noted of the places it looked at is what is
there now (`Collected`, `Searching`). When it has looked at all of them, the Crews
it found one by one are all there are (`AllFound`): one of them (`FoundOnce`), or
more (`FoundMany`). Hence its verdict is the one the project deserves, already
before the last probe of the endpoint (`Deserved`, `ProbeIsRight`), which is
`VerdictIsTrue`. `Listing` is the same for the rows of a list; `ListAgrees` follows
since each of the two is right about the same project.
`NothingOverwritten` is a property of steps: nothing is inside a directory that
is not there (`Rooted`), and what an initializer renames into place was not there
in the same step. `ScenesAreSound` says that the projects to begin with are of that kind, and `NoneIsNone` that the
mark of an absent value is none of the values.

The assumptions are the named `ASSUME`s of the modules: the limits are natural
numbers, and the markers (`none`, `None`, `Dead`) are not members of the sets
they are joined to. The Guests are finitely many and the places of the registry's
entries integers (a new entry takes the place after the last); the roster of a
Broadcast is not empty (the code refuses an empty one before it sends) and
names no Member twice.

Writing a definition so that it could be reasoned about showed three that meant
less than they said: cases of `Flaw`, `LocalSays` and `Cancel` whose guards
overlap, where TLA+ leaves the choice open and TLC takes the first. They are
written with IF now, in the order of the code.

Only model-checked: everything temporal under fairness (the prover has no
ENABLED), that is `AcceptedSettles`, `ParkedCallerServed`, `InboundSlotFreed` and
`CallsEnd`. `AskIsHeard`, `ResponseAlwaysWins` and `TombstonesKept` are false
(findings 1, 2 and 5).

## 6. Not modelled

Within requests: `cancelRequest` (nothing calls it), the requester's own exit
(its memory goes with it), the socket between a waiting CLI caller and its
session, texts, ages and deadlines as numbers. Within the inbox: quarantine of
malformed files, the filesystem's own failures except as "the attempt is
abandoned". Within interrupts: the guidance, and the sender's own end. Within
endpoints: manifests, and failures of the file system other than a file that is
or is not there. Within guests: request ids, what a Guest asks of Members, and
the messages of approved Guests (`application/guest-message.ts`), where each
receiver and each sender checks the admission in the very task that acts on it.
Within idle waits: the wake gate's own messages, and a switch of role while the
server stays up. Within the intake: the listing's own limits, and a publication's
looks one by one. Within client calls: an interrupt sent
by a client (its target's side is `InterruptFlow`), a failed release of the
inbox's lock after a persisted item, the wait of a Member Request. Within crew
sessions: overwriting a capture, deleting records. Within the project: more than
two manifest places and the sessions' discovery by directory listing beyond the
one alias.

Presence and session names are left for later; status, last message, the doctor
and rendering read or format and change nothing.
