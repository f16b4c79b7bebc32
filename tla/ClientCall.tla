------------------------------ MODULE ClientCall ------------------------------
(***************************************************************************)
(* A caller asks one session, the source, to send a message to Members of  *)
(* its crew: a Follow-up, a Redirect, an Inbox message, a Broadcast or the *)
(* Member Request that an Ask starts.  The caller is another process that  *)
(* writes to the source's socket (the SDK client or the CLI) or code in    *)
(* the source itself ("local").  The source then writes to the target's    *)
(* socket or to its Inbox directory.  Either hop can lose its answer, the  *)
(* caller can give up at any moment, and every process can end.            *)
(*   infra/rpc-client.ts, application/member-message.ts,                   *)
(*   application/member-inbox-message.ts, application/crew-broadcast.ts,   *)
(*   pi/control-runtime/member-handlers.ts, sdk/*-operation.ts,            *)
(*   sdk/index.ts, cli/commands/{member-message,durable-message,ask}.ts    *)
(***************************************************************************)
EXTENDS CommandForm, Sequences, SequencesExt

CONSTANTS Calls,          \* calls that may be made
          Roster,         \* the other Members, in manifest order: a sequence
          Kinds,          \* per call, the <<operation, surface>> pairs it may be
          Messages,       \* per call, the messages it may be about, as written
          MaxTrouble      \* bound on process ends

Members == Range(Roster)
Operations == {"follow-up", "redirect", "inbox", "broadcast", "ask"}
Surfaces == {"sdk", "cli", "local"}

ASSUME CallAssumption == /\ Roster \in Seq(Members) \ {<<>>} /\ IsInjective(Roster)
                         /\ Kinds \in [Calls -> SUBSET (Operations \X Surfaces)]
                         /\ Messages \in [Calls -> SUBSET Written]
                         /\ MaxTrouble \in Nat

VARIABLES kind,           \* the operation and surface of each call
          flaw,           \* what is wrong with its message as it was sent
          client,         \* the caller: idle, dialing, waiting, done or gone
          alias,          \* calls that dial the alias of the source now
          told,           \* what the caller was told of each recipient
          asked,          \* requests written to the source, not read yet
          answer,         \* the source's answer on its way to the caller
          cut,            \* calls whose connection the source's end closed
          job,            \* what the source is doing for a call
          left,           \* the recipients it has still to serve
          signal,         \* its abort signal: live, aborted or expired
          report,         \* what it knows of each recipient
          queue,          \* per endpoint, the jobs in line for it
          wire,           \* <<call, member>> written to a target, not read
          reply,          \* the target's answer on its way to the source
          sourceUp, targetUp, trouble,
          taken           \* how often a target took the message of a call

callerVars == <<kind, flaw, client, alias, told>>
firstHop == <<asked, answer, cut>>
jobVars == <<job, left, signal, report, queue>>
secondHop == <<wire, reply>>
processes == <<sourceUp, targetUp, trouble>>
callVars == <<callerVars, firstHop, jobVars, secondHop, processes, taken>>

Op(c) == kind[c][1]
Via(c) == kind[c][2]
Remote(c) == Via(c) # "local"
Nothing == [m \in Members |-> "nothing"]
Queued(c) == Op(c) \in {"follow-up", "broadcast"}

\* An Ask's handler at the source watches no disconnect; the others do, and
\* a local caller's budget reaches every operation.
HasSignal(c) == ~Remote(c) \/ Op(c) # "ask"

CallInit ==
  /\ kind = [c \in Calls |-> <<"none", "none">>]
  /\ flaw = [c \in Calls |-> "none"]
  /\ client = [c \in Calls |-> "idle"]
  /\ alias = {}
  /\ told = [c \in Calls |-> Nothing]
  /\ asked = {} /\ cut = {}
  /\ answer = [c \in Calls |-> Nothing]
  /\ job = [c \in Calls |-> "none"]
  /\ left = [c \in Calls |-> <<>>]
  /\ signal = [c \in Calls |-> "live"]
  /\ report = [c \in Calls |-> Nothing]
  /\ queue = [m \in Members |-> <<>>]
  /\ wire = {}
  /\ reply = [c \in Calls |-> "none"]
  /\ sourceUp = TRUE
  /\ targetUp = [m \in Members |-> TRUE]
  /\ trouble = 0
  /\ taken = [c \in Calls |-> [m \in Members |-> 0]]

(***************************************************************************)
(* The words of the layers.  A hop ends with "accepted", "outcome-unknown",*)
(* "aborted", "timeout", "offline" or "remote-error" (the target refused). *)
(***************************************************************************)
\* memberMessageErrorCode: what the source's handler answers for a hop's end.
MemberMessageErrorCode(end) == IF end = "remote-error" THEN "transport-error" ELSE end

\* failureCode: what a Broadcast notes for one recipient.
FailureCode(end) == IF end = "remote-error" THEN "transport-error" ELSE end

\* mapRemoteFollowUpError and mapRemoteCode.
FollowUpSays(code) == CASE code \in {"accepted", "aborted", "outcome-unknown"} -> code
                        [] code = "offline" -> "offline-member"
                        [] code = "not-joined" -> code
                        [] OTHER -> "remote-rejected"
RedirectSays(code) == FollowUpSays(code)

\* mapInboxErrorCode.
InboxSays(code) == IF code \in {"accepted", "aborted", "storage-failed", "not-joined", "invalid-payload",
                                "outcome-unknown"}
                     THEN code ELSE "remote-rejected"

\* fromWireResult keeps each disposition; mapRemoteError maps a whole failure.
BroadcastSays(code) == IF code \in {"invalid-params", "invalid-payload"} THEN "remote-rejected" ELSE code

\* mapRequestCode: outcome-unknown is not among the codes it knows.
RequestSays(code) == IF code \in {"accepted", "not-joined", "invalid-payload"} THEN code ELSE "remote-rejected"

\* What a caller in another process says for a code of the source.
Says(c, code) == CASE Op(c) = "follow-up" -> FollowUpSays(code)
                   [] Op(c) = "redirect" -> RedirectSays(code)
                   [] Op(c) = "inbox" -> InboxSays(code)
                   [] Op(c) = "broadcast" -> BroadcastSays(code)
                   [] Op(c) = "ask" -> RequestSays(code)

\* What a caller in the source says when its operation ends.
LocalSays(c, code) ==
  IF Op(c) = "broadcast" THEN IF code = "invalid-payload" THEN "transport-error" ELSE code
  ELSE IF code \in {"accepted", "outcome-unknown", "invalid-payload"} THEN code
  ELSE IF signal[c] = "expired" THEN "timeout"
  ELSE IF Op(c) = "ask" /\ code \notin {"aborted", "not-joined"} THEN "remote-rejected"
  ELSE code

\* An Ask calls a delivery that ran out of time unknown.
AskSays(c, word) == IF Op(c) = "ask" /\ word = "timeout" THEN "outcome-unknown" ELSE word

\* What the caller is told when the answer to its written request is lost.  The
\* CLI's Ask does not ask for the conservative classification.
Lost(c, why) == IF kind[c] = <<"ask", "cli">>
                  THEN CASE why = "abort" -> "aborted"
                         [] why = "timeout" -> "timeout"
                         [] why = "end" -> "remote-rejected"
                  ELSE "outcome-unknown"

\* As a bug would have it: a hop that runs out of time was not taken.
HopLostTimesOut(c, why) == IF why = "timeout" THEN "timeout" ELSE "outcome-unknown"

\* How the source's hop ends when the answer to its written request is lost.
\* The channel of a Member Request classifies only a lost connection.
HopLost(c, why) == IF Op(c) = "ask" /\ why \in {"aborted", "timeout"} THEN why ELSE "outcome-unknown"

\* The sender's three answers, for SendPromise.
Meaning(word) == CASE word \in {"nothing", "accepted"} -> word
                   [] word = "outcome-unknown" -> "unknown"
                   [] OTHER -> "denied"

\* What a whole-call word says of each recipient of c.
ToAll(c, word) == [m \in Members |-> IF report[c][m] = "nothing" THEN "nothing" ELSE word]

-----------------------------------------------------------------------------
(***************************************************************************)
(* The caller.                                                             *)
(***************************************************************************)
Tells(c, words) ==
  /\ client' = [client EXCEPT ![c] = "done"]
  /\ told' = [told EXCEPT ![c] = [m \in Members |-> AskSays(c, words[m])]]

\* A local caller hears of an operation when it ends, unless it has heard.
TellsLocal(c, codes) ==
  IF ~Remote(c) /\ client[c] = "waiting"
    THEN Tells(c, [m \in Members |-> LocalSays(c, codes[m])])
    ELSE UNCHANGED <<client, told>>

\* One target, or the whole roster for a Broadcast.
To(k) == IF k[1] = "broadcast" THEN {Roster} ELSE {<<m>> : m \in Members}

\* The caller's own checks refuse the message: nothing is dialed.
Refuse(c) ==
  /\ client[c] = "idle"
  /\ \E k \in Kinds[c] : \E w \in Messages[c] : \E to \in To(k) :
       /\ k[2] = "local" => sourceUp
       /\ ~CallerTakes(k[1], k[2], w)
       /\ kind' = [kind EXCEPT ![c] = k]
       /\ client' = [client EXCEPT ![c] = "done"]
       /\ told' = [told EXCEPT ![c] = [m \in Members |-> IF m \in Range(to) THEN "invalid-input" ELSE "nothing"]]
  /\ UNCHANGED <<flaw, alias, firstHop, jobVars, secondHop, processes, taken>>

Start(c) ==
  /\ client[c] = "idle"
  /\ \E k \in Kinds[c] : \E w \in Messages[c] : \E to \in To(k), origin \in Origins :
       /\ k[2] = "local" => sourceUp
       /\ CallerTakes(k[1], k[2], w)
       /\ kind' = [kind EXCEPT ![c] = k]
       /\ flaw' = [flaw EXCEPT ![c] = Flaw(Sent(k[1], k[2], w), origin)]
       /\ client' = [client EXCEPT ![c] = IF k[2] = "local" THEN "waiting" ELSE "dialing"]
       /\ job' = [job EXCEPT ![c] = IF k[2] = "local" THEN "begun" ELSE "none"]
       /\ left' = [left EXCEPT ![c] = to]
       /\ report' = [report EXCEPT ![c] = [m \in Members |-> IF m \in Range(to) THEN "pending" ELSE "nothing"]]
  /\ UNCHANGED <<alias, told, firstHop, signal, queue, secondHop, processes, taken>>

\* sendRpcCommand connects and writes.
Dial(c) ==
  /\ client[c] = "dialing" /\ sourceUp
  /\ client' = [client EXCEPT ![c] = "waiting"]
  /\ asked' = asked \cup {c}
  /\ UNCHANGED <<kind, flaw, alias, told, answer, cut, jobVars, secondHop, processes, taken>>

\* The CLI tries the session's alias once, and only when nothing was written.
TriesAlias(c) == Via(c) = "cli" /\ c \notin alias

\* Nobody listens.
DialFails(c) ==
  /\ client[c] = "dialing" /\ ~sourceUp
  /\ \/ /\ TriesAlias(c)
        /\ alias' = alias \cup {c}
        /\ UNCHANGED <<client, told>>
     \/ /\ \E word \in {"unknown-session", "offline-session"} : Tells(c, ToAll(c, word))
        /\ UNCHANGED alias
  /\ UNCHANGED <<kind, flaw, firstHop, jobVars, secondHop, processes, taken>>

\* The caller aborts, or its budget runs out: the socket is destroyed.
GiveUp(c, why) ==
  /\ Remote(c)
  /\ \/ /\ client[c] = "dialing"
        /\ Tells(c, ToAll(c, IF why = "abort" THEN "aborted" ELSE "timeout"))
     \/ /\ client[c] = "waiting"
        /\ Tells(c, ToAll(c, Lost(c, why)))
  /\ UNCHANGED <<kind, flaw, alias, firstHop, jobVars, secondHop, processes, taken>>

\* The connection ended before an answer came.
SeeEnd(c) ==
  /\ client[c] = "waiting" /\ c \in cut
  /\ Tells(c, ToAll(c, Lost(c, "end")))
  /\ UNCHANGED <<kind, flaw, alias, firstHop, jobVars, secondHop, processes, taken>>

Receive(c) ==
  /\ client[c] = "waiting" /\ Remote(c) /\ answer[c] # Nothing
  /\ Tells(c, [m \in Members |-> Says(c, answer[c][m])])
  /\ UNCHANGED <<kind, flaw, alias, firstHop, jobVars, secondHop, processes, taken>>

-----------------------------------------------------------------------------
(***************************************************************************)
(* The source.                                                             *)
(***************************************************************************)
\* As a bug would have it: the tail of a line is never released.
ShiftNever(q, m) == q

Shift(q, m) == [q EXCEPT ![m] = IF q[m] = <<>> THEN <<>> ELSE Tail(q[m])]

\* The job is over: a remote caller's answer is written, a local one returns.
Ends(c, codes) ==
  /\ job' = [job EXCEPT ![c] = "over"]
  /\ left' = [left EXCEPT ![c] = <<>>]
  /\ report' = [report EXCEPT ![c] = codes]
  /\ answer' = IF Remote(c) THEN [answer EXCEPT ![c] = codes] ELSE answer
  /\ TellsLocal(c, codes)

\* One recipient is served.  A queued job leaves its line however it ended, and a
\* Broadcast goes on with the next recipient whatever became of this one.
Served(c, code) ==
  LET m == Head(left[c])
      codes == [report[c] EXCEPT ![m] = code]
  IN  /\ queue' = IF Queued(c) THEN Shift(queue, m) ELSE queue
      /\ IF Len(left[c]) = 1
           THEN Ends(c, codes)
           ELSE /\ job' = [job EXCEPT ![c] = "resolving"]
                /\ left' = [left EXCEPT ![c] = Tail(left[c])]
                /\ report' = [report EXCEPT ![c] = codes]
                /\ UNCHANGED <<answer, client, told>>

SourceCode(c, end) == IF Op(c) = "broadcast" THEN FailureCode(end) ELSE MemberMessageErrorCode(end)

HopEnds(c, end) == /\ Served(c, SourceCode(c, end))
                   /\ reply' = [reply EXCEPT ![c] = "none"]

\* The source reads the request of another process; fromParams checks its params.
ReadRequest(c) ==
  /\ sourceUp /\ c \in asked
  /\ asked' = asked \ {c}
  /\ IF flaw[c] = "empty-list"
       THEN Ends(c, ToAll(c, "invalid-params"))
       ELSE /\ job' = [job EXCEPT ![c] = "begun"]
            /\ UNCHANGED <<client, told, answer, left, report>>
  /\ UNCHANGED <<kind, flaw, alias, cut, signal, queue, secondHop, processes, taken>>

\* Membership, trust, the target's name and the payload are checked; a Broadcast's
\* recipients are fixed here.
Begin(c) ==
  /\ job[c] = "begun"
  /\ \/ /\ Ends(c, ToAll(c, "not-joined"))
        /\ UNCHANGED <<signal, queue>>
     \/ /\ flaw[c] # "none"
        /\ Ends(c, ToAll(c, "invalid-payload"))
        /\ UNCHANGED <<signal, queue>>
     \/ /\ flaw[c] = "none"
        /\ job' = [job EXCEPT ![c] = IF Op(c) = "inbox" THEN "opening" ELSE "resolving"]
        /\ UNCHANGED <<client, told, answer, left, signal, report, queue>>
  /\ UNCHANGED <<kind, flaw, alias, asked, cut, secondHop, processes, taken>>

\* As a bug would have it: only an open connection listens to the signal.
HopStartsAnyway(c) ==
  /\ job' = [job EXCEPT ![c] = "dialing"]
  /\ UNCHANGED <<client, told, answer, left, report, queue, reply>>

\* sendRpcCommand: nothing is dialed for a signal that is aborted already.
HopStarts(c) ==
  IF signal[c] = "live" \/ ~HasSignal(c)
    THEN /\ job' = [job EXCEPT ![c] = "dialing"]
         /\ UNCHANGED <<client, told, answer, left, report, queue, reply>>
    ELSE HopEnds(c, "aborted")

\* The target's endpoint is resolved: a Follow-up takes its place in the line.
Resolved(c) ==
  /\ job[c] = "resolving"
  /\ IF Queued(c)
       THEN /\ job' = [job EXCEPT ![c] = "queued"]
            /\ queue' = [queue EXCEPT ![Head(left[c])] = Append(@, c)]
            /\ UNCHANGED <<client, told, answer, left, report, reply>>
       ELSE HopStarts(c)
  /\ UNCHANGED <<kind, flaw, alias, asked, cut, signal, wire, processes, taken>>

\* As a bug would have it: a message does not wait for the one before it.
RunQueuedAtOnce(c) ==
  /\ job[c] = "queued"
  /\ HopStarts(c)
  /\ UNCHANGED <<kind, flaw, alias, asked, cut, signal, wire, processes, taken>>

\* The line in front has ended.
RunQueued(c) ==
  /\ job[c] = "queued" /\ Head(queue[Head(left[c])]) = c
  /\ HopStarts(c)
  /\ UNCHANGED <<kind, flaw, alias, asked, cut, signal, wire, processes, taken>>

HopDials(c) ==
  LET m == Head(left[c])
  IN  /\ job[c] = "dialing"
      /\ IF targetUp[m]
           THEN /\ job' = [job EXCEPT ![c] = "sent"]
                /\ wire' = wire \cup {<<c, m>>}
                /\ UNCHANGED <<client, told, answer, left, report, queue, reply>>
           ELSE /\ HopEnds(c, "offline")
                /\ UNCHANGED wire
      /\ UNCHANGED <<kind, flaw, alias, asked, cut, signal, processes, taken>>

\* The hop's five seconds are over.
HopTimeout(c) ==
  /\ job[c] \in {"dialing", "sent"}
  /\ HopEnds(c, IF job[c] = "sent" THEN HopLost(c, "timeout") ELSE "timeout")
  /\ UNCHANGED <<kind, flaw, alias, asked, cut, signal, wire, processes, taken>>

HopAnswered(c) ==
  /\ job[c] = "sent" /\ reply[c] # "none"
  /\ HopEnds(c, CASE reply[c] = "taken" -> "accepted"
                   [] reply[c] = "refused" -> "remote-error"
                   [] reply[c] = "ended" -> HopLost(c, "end"))
  /\ UNCHANGED <<kind, flaw, alias, asked, cut, signal, wire, processes, taken>>

\* The signal of a job fires; a hop under way ends at once, and so does the wait
\* of a local caller for its Inbox message, which nothing can stop any more.
Cancel(c, why) ==
  /\ signal[c] = "live"
  /\ signal' = [signal EXCEPT ![c] = why]
  /\ CASE job[c] \in {"dialing", "sent"} ->
            HopEnds(c, IF job[c] = "sent" THEN HopLost(c, "aborted") ELSE "aborted")
       [] Op(c) = "inbox" /\ ~Remote(c) /\ job[c] \in {"opening", "writing", "hinting"} ->
            /\ Tells(c, ToAll(c, IF job[c] # "opening" THEN "outcome-unknown"
                                 ELSE IF why = "expired" THEN "timeout"
                                 ELSE "aborted"))
            /\ UNCHANGED <<answer, job, left, report, queue, reply>>
       [] OTHER -> UNCHANGED <<client, told, answer, job, left, report, queue, reply>>
  /\ UNCHANGED <<kind, flaw, alias, asked, cut, wire, processes, taken>>

Active(c) == job[c] \notin {"none", "over"}

\* The source sees that the caller's connection closed.
NoticeClose(c) ==
  /\ Remote(c) /\ client[c] = "done" /\ Active(c) /\ job[c] # "begun" /\ HasSignal(c)
  /\ Cancel(c, "aborted")

\* A local caller aborts, or its budget runs out.
LocalGiveUp(c, why) ==
  /\ ~Remote(c) /\ client[c] = "waiting" /\ Active(c)
  /\ Cancel(c, why)

-----------------------------------------------------------------------------
(***************************************************************************)
(* An Inbox message.                                                       *)
(***************************************************************************)
StoreOpened(c) ==
  /\ job[c] = "opening"
  /\ \/ /\ signal[c] = "live"
        /\ job' = [job EXCEPT ![c] = "writing"]
        /\ UNCHANGED <<client, told, answer, left, report>>
     \/ /\ signal[c] # "live"
        /\ Ends(c, ToAll(c, "aborted"))
     \/ Ends(c, ToAll(c, "storage-failed"))
  /\ UNCHANGED <<kind, flaw, alias, asked, cut, signal, queue, secondHop, processes, taken>>

\* The record is renamed into place, or the store refuses: full, locked, failed.
Persist(c) ==
  LET m == Head(left[c])
  IN  /\ job[c] = "writing"
      /\ \/ /\ taken' = [taken EXCEPT ![c][m] = @ + 1]
            /\ job' = [job EXCEPT ![c] = "hinting"]
            /\ UNCHANGED <<client, told, answer, left, report>>
         \/ /\ Ends(c, ToAll(c, "storage-failed"))
            /\ UNCHANGED taken
      /\ UNCHANGED <<kind, flaw, alias, asked, cut, signal, queue, secondHop, processes>>

\* Hinted or not, the message is persisted.
Hinted(c) ==
  /\ job[c] = "hinting"
  /\ Ends(c, ToAll(c, "accepted"))
  /\ UNCHANGED <<kind, flaw, alias, asked, cut, signal, queue, secondHop, processes, taken>>

-----------------------------------------------------------------------------
(***************************************************************************)
(* The targets and the ends of processes.                                  *)
(***************************************************************************)
Listening(c, m) == job[c] = "sent" /\ Head(left[c]) = m

\* The target reads a request and takes it or refuses it.
TargetReads(c, m) ==
  /\ <<c, m>> \in wire /\ targetUp[m]
  /\ wire' = wire \ {<<c, m>>}
  /\ \E takes \in BOOLEAN :
       /\ taken' = IF takes THEN [taken EXCEPT ![c][m] = @ + 1] ELSE taken
       /\ reply' = IF Listening(c, m) THEN [reply EXCEPT ![c] = IF takes THEN "taken" ELSE "refused"] ELSE reply
  /\ UNCHANGED <<callerVars, firstHop, jobVars, processes>>

TargetExit(m) ==
  /\ targetUp[m] /\ trouble < MaxTrouble
  /\ trouble' = trouble + 1
  /\ targetUp' = [targetUp EXCEPT ![m] = FALSE]
  /\ wire' = {w \in wire : w[2] # m}
  /\ reply' = [c \in Calls |-> IF Listening(c, m) /\ reply[c] = "none" THEN "ended" ELSE reply[c]]
  /\ UNCHANGED <<callerVars, firstHop, jobVars, sourceUp, taken>>

TargetStart(m) ==
  /\ ~targetUp[m]
  /\ targetUp' = [targetUp EXCEPT ![m] = TRUE]
  /\ UNCHANGED <<callerVars, firstHop, jobVars, secondHop, sourceUp, trouble, taken>>

\* What the source has written stays with the targets; its own work is lost.
SourceExit ==
  /\ sourceUp /\ trouble < MaxTrouble
  /\ trouble' = trouble + 1
  /\ sourceUp' = FALSE
  /\ client' = [c \in Calls |-> IF client[c] = "waiting" /\ ~Remote(c) THEN "gone" ELSE client[c]]
  /\ cut' = {c \in Calls : client[c] = "waiting" /\ Remote(c) /\ answer[c] = Nothing} \cup cut
  /\ asked' = {}
  /\ job' = [c \in Calls |-> IF Active(c) THEN "over" ELSE job[c]]
  /\ left' = [c \in Calls |-> IF Active(c) THEN <<>> ELSE left[c]]
  /\ queue' = [m \in Members |-> <<>>]
  /\ reply' = [c \in Calls |-> "none"]
  /\ UNCHANGED <<kind, flaw, alias, told, answer, signal, report, wire, targetUp, taken>>

SourceStart ==
  /\ ~sourceUp
  /\ sourceUp' = TRUE
  /\ UNCHANGED <<callerVars, firstHop, jobVars, secondHop, targetUp, trouble, taken>>

-----------------------------------------------------------------------------
CallStep(c) == \/ Dial(c) \/ DialFails(c) \/ SeeEnd(c) \/ Receive(c)
               \/ ReadRequest(c) \/ Begin(c) \/ Resolved(c) \/ RunQueued(c)
               \/ HopDials(c) \/ HopTimeout(c) \/ HopAnswered(c)
               \/ NoticeClose(c) \/ StoreOpened(c) \/ Persist(c) \/ Hinted(c)

Next == \/ \E c \in Calls : \/ Start(c) \/ Refuse(c)
                            \/ CallStep(c)
                            \/ \E why \in {"abort", "timeout"} : GiveUp(c, why)
                            \/ \E why \in {"aborted", "expired"} : LocalGiveUp(c, why)
                            \/ \E m \in Members : TargetReads(c, m)
        \/ \E m \in Members : TargetExit(m) \/ TargetStart(m)
        \/ SourceExit \/ SourceStart

\* Node runs what is ready, timers fire, and an Inbox lock or write returns; no
\* target has to read, and nobody has to give up.
CallFairness == \A c \in Calls : WF_callVars(CallStep(c))
CallSpec == CallInit /\ [][Next]_callVars /\ CallFairness

-----------------------------------------------------------------------------
Codes == {"pending", "nothing", "accepted", "outcome-unknown", "aborted", "timeout", "offline",
          "transport-error", "not-joined", "storage-failed", "invalid-params", "invalid-payload"}
Words == (Codes \ {"pending"})
         \cup {"offline-member", "remote-rejected", "unknown-session", "offline-session", "invalid-input"}
Stages == {"none", "begun", "resolving", "queued", "dialing", "sent", "opening", "writing", "hinting", "over"}

\* Types, and: the line of an endpoint holds exactly the jobs that are queued or
\* hopping there, each once.
ClientTypeOK ==
  /\ \A c \in Calls : kind[c] \in Kinds[c] \cup {<<"none", "none">>}
  /\ flaw \in [Calls -> {"none", "empty-list", "too-large"}]
  /\ client \in [Calls -> {"idle", "dialing", "waiting", "done", "gone"}]
  /\ alias \subseteq Calls /\ asked \subseteq Calls /\ cut \subseteq Calls
  /\ told \in [Calls -> [Members -> Words]]
  /\ answer \in [Calls -> [Members -> Codes]]
  /\ job \in [Calls -> Stages]
  /\ left \in [Calls -> UNION {[1..n -> Members] : n \in 0..Len(Roster)}]
  /\ signal \in [Calls -> {"live", "aborted", "expired"}]
  /\ report \in [Calls -> [Members -> Codes]]
  /\ \A m \in Members :
       /\ IsInjective(queue[m])
       /\ Range(queue[m]) = {c \in Calls : /\ Queued(c) /\ job[c] \in {"queued", "dialing", "sent"}
                                            /\ Head(left[c]) = m}
  /\ wire \subseteq Calls \X Members
  /\ reply \in [Calls -> {"none", "taken", "refused", "ended"}]
  /\ sourceUp \in BOOLEAN /\ targetUp \in [Members -> BOOLEAN]
  /\ trouble \in 0..MaxTrouble
  /\ taken \in [Calls -> [Members -> 0..1]]

\* Follow-ups and Broadcasts of one source reach a target one at a time, in line.
OneAtATime == \A m \in Members : \A c \in Calls :
  Queued(c) /\ job[c] \in {"dialing", "sent"} /\ Head(left[c]) = m => Head(queue[m]) = c

\* Once the signal of a job has fired, nothing more is written for it: neither a
\* request on a target's socket nor an item in its Inbox that had not begun.
NothingSentAfterCancel ==
  [][\A c \in Calls : signal[c] # "live" =>
       /\ \A m \in Members : <<c, m>> \in wire' => <<c, m>> \in wire
       /\ job'[c] = "writing" => job[c] = "writing"]_callVars

\* The sender's beliefs are those of SendPromise, for every message and recipient.
Promise == INSTANCE SendPromise
             WITH Sends <- Calls \X Members,
                  taken <- {s \in Calls \X Members : taken[s[1]][s[2]] > 0},
                  told <- [s \in Calls \X Members |-> Meaning(told[s[1]][s[2]])]
PromiseKept == Promise!Spec

\* Every call ends: a target that never answers, a line of earlier messages and a
\* cancelled job in it hold nobody for ever.
CallsEnd == \A c \in Calls : client[c] \in {"dialing", "waiting"} ~> client[c] \in {"done", "gone"}

\* A message that its caller's checks took is refused for its form on the way only
\* when its list of instructions is empty: whatever its origin, it is not too large.
OnlyEmptyListsRefused == \A c \in Calls, m \in Members :
  report[c][m] \in {"invalid-params", "invalid-payload"} => flaw[c] = "empty-list"

\* A question that the caller's checks took is heard: the source does not refuse it
\* for its form.
AskIsHeard == \A c \in Calls, m \in Members :
  Op(c) = "ask" => report[c][m] # "invalid-params"
=============================================================================
