------------------------------ MODULE IdleWait ------------------------------
(***************************************************************************)
(* Waiting for another Member to become idle, and the Follow-ups a session *)
(* holds back while it compacts.                                           *)
(*                                                                         *)
(* A wait is a request on a socket that stays open until one answer.  The  *)
(* tool of a joined session asks the target's session itself ("tool"); a   *)
(* client outside the Crew asks its source session ("call"), which asks    *)
(* the target on the client's behalf ("hop").  Ends of a connection notice *)
(* the other's end later, in a step of their own.  Pi (the agent, its      *)
(* queue, compaction) is external: its events are actions here, with what  *)
(* the extension's handlers do as part of them.                            *)
(***************************************************************************)
EXTENDS Naturals, Sequences, FiniteSets

CONSTANTS Sessions,      \* one per Member of the manifest
          Clients,       \* SDK or CLI callers of member_idle_wait
          Sockets,       \* connections of one session's tool: an old one may linger
          None,
          Capacity,      \* MAX_MEMBER_IDLE_WAIT_SUBSCRIPTIONS
          MaxAsks,       \* bound: waits begun by tools and clients
          MaxMessages,   \* bound: Follow-ups accepted
          MaxTrouble     \* bound: leaves, stops and exits of a session

ASSUME IdleWaitAssumption ==
  /\ None \notin Sessions /\ None # "idle" /\ IsFiniteSet(Sessions) /\ IsFiniteSet(Clients)
  /\ Capacity \in Nat \ {0}
  /\ MaxAsks \in Nat /\ MaxMessages \in Nat /\ MaxTrouble \in Nat

VARIABLES
  server,     \* the control server of each session: up, closing, down
  joined,     \* the session's membership
  agent,      \* Pi: busy, compacting, the Follow-ups queued in it
  deferred,   \* state.deferredModelDeliveries
  subs,       \* state.idleWaitSubscriptions
  wait,       \* the asking side of every request
  link,       \* its connection, with the frames on their way to the asker
  accepted,   \* history: Follow-ups accepted
  asks, trouble

sessionVars == <<server, joined>>
piVars == <<agent, deferred, accepted>>
counters == <<asks, trouble>>
idleVars == <<sessionVars, piVars, subs, wait, link, counters>>

Tool(s, k) == <<"tool", s, k>>
Call(c) == <<"call", c>>
Hop(c) == <<"hop", c>>
Reqs == {Tool(s, k) : s \in Sessions, k \in Sockets} \cup {Call(c) : c \in Clients} \cup {Hop(c) : c \in Clients}

\* failed: refused, malformed, no connection, aborted, or released by a message.
Results == {"idle", "offline", "timeout", "failed"}
Events == {"idle", "offline", "timeout"}     \* terminal notifications
Frames == Events \cup {"ack", "refused"}

NoWait == [phase |-> "off", target |-> None, label |-> "name", result |-> None, saw |-> FALSE]
NoLink == [state |-> "none", at |-> None, out |-> <<>>, asked |-> None]
Quiet == [busy |-> FALSE, compacting |-> FALSE, queue |-> <<>>]

IdleWaitInit ==
  /\ server = [s \in Sessions |-> "up"] /\ joined = [s \in Sessions |-> TRUE]
  /\ agent = [s \in Sessions |-> Quiet]
  /\ deferred = [s \in Sessions |-> <<>>]
  /\ subs = [s \in Sessions |-> {}]
  /\ wait = [r \in Reqs |-> NoWait] /\ link = [r \in Reqs |-> NoLink]
  /\ accepted = 0
  /\ asks = 0 /\ trouble = 0

InProgress(r) == wait[r].phase \in {"probing", "probed", "sent", "acked"}
Unblocked(s) == \A k \in Sockets : ~InProgress(Tool(s, k))     \* the wake gate is free
Settled(s) == ~agent[s].busy /\ ~agent[s].compacting
Local(s) == {sub \in subs[s] : ~sub.delegated}

Asked == asks < MaxAsks /\ asks' = asks + 1 /\ UNCHANGED trouble
Troubled == trouble < MaxTrouble /\ trouble' = trouble + 1 /\ UNCHANGED asks

\* A write on a socket whose other end has closed is lost.
Say(l, r, frames) ==
  IF l[r].state = "open" THEN [l EXCEPT ![r].out = @ \o frames] ELSE l

\* The asker destroys its socket; the server notices later, if it still runs.
HangUp(l, r) ==
  IF l[r].state \in {"open", "half"} THEN [l EXCEPT ![r].state = "half", ![r].out = <<>>]
  ELSE [l EXCEPT ![r] = NoLink]

Began(w, r, phase, target, label) ==
  [w EXCEPT ![r] = [phase |-> phase, target |-> target, label |-> label, result |-> None, saw |-> FALSE]]
Ended(w, r, result) == [w EXCEPT ![r] = [NoWait EXCEPT !.phase = "done", !.result = result]]
Opened(l, r, s, t, label) ==
  [l EXCEPT ![r] = [state |-> "open", at |-> s, out |-> <<>>, asked |-> <<t, label>>]]
SawIdle(s) ==
  [r \in Reqs |-> IF InProgress(r) /\ wait[r].target = s THEN [wait[r] EXCEPT !.saw = TRUE]
                  ELSE wait[r]]
Unsubscribed(r) == [s \in Sessions |-> {sub \in subs[s] : sub.req # r}]

HopFrames(c, result) ==
  IF wait[Hop(c)].phase = "probing" THEN <<"ack", result>>     \* no endpoint: both at once
  ELSE IF result \in Events THEN <<result>> ELSE <<"refused">>

\* Mutant of HopAnswer: the delegated wait keeps its slot.
HopAnswerKeeping(c, result) ==
  /\ link' = HangUp(Say(link, Call(c), HopFrames(c, result)), Hop(c))
  /\ UNCHANGED subs

\* runRemoteWait and its finally: the answer goes on to the caller, the slot is free.
HopAnswer(c, result) ==
  /\ link' = HangUp(Say(link, Call(c), HopFrames(c, result)), Hop(c))
  /\ subs' = Unsubscribed(Call(c))

\* finish: the first terminal outcome wins, the socket is destroyed.
Finish(r, result) ==
  /\ wait' = Ended(wait, r, result)
  /\ IF r[1] = "hop" THEN HopAnswer(r[2], result)
     ELSE link' = HangUp(link, r) /\ UNCHANGED subs

-----------------------------------------------------------------------------
(* Asking.                                                                  *)

\* Sockets differ in nothing: whichever is not in use.
NewSocket(s) == CHOOSE k \in Sockets : link[Tool(s, k)].state = "none"

\* The tool, inside a run of s: the target is resolved and the wake gate armed before
\* any traffic.  While the tool waits the run does not go on.  The server may not have
\* noticed yet that the connection of the session's previous wait is gone.
CallTool(s, t, label) ==
  /\ joined[s] /\ t # s
  /\ agent[s].busy /\ ~agent[s].compacting
  /\ Unblocked(s)
  /\ Asked
  /\ \E k \in Sockets : link[Tool(s, k)].state = "none"
  /\ wait' = Began(wait, Tool(s, NewSocket(s)), "probing", t, label)
  /\ UNCHANGED <<sessionVars, piVars, subs, link>>

\* waitForMemberIdle of a client: a request to the source session.
CallClient(c, s, t) ==
  /\ wait[Call(c)].phase = "off" /\ server[s] = "up" /\ Asked
  /\ wait' = Began(wait, Call(c), "sent", t, "name") /\ link' = Opened(link, Call(c), s, t, "name")
  /\ UNCHANGED <<sessionVars, piVars, subs>>

\* probeMemberEndpoint: no listener is a normal outcome.
Probe(r) ==
  /\ wait[r].phase = "probing"
  /\ IF server[wait[r].target] = "up"
     THEN wait' = [wait EXCEPT ![r].phase = "probed"] /\ UNCHANGED <<link, subs>>
     ELSE Finish(r, "offline")
  /\ UNCHANGED <<sessionVars, piVars, counters>>

Connect(r) ==
  /\ wait[r].phase = "probed"
  /\ IF server[wait[r].target] = "up"
     THEN /\ wait' = [wait EXCEPT ![r].phase = "sent"]
          /\ link' = Opened(link, r, wait[r].target, wait[r].target, wait[r].label)
          /\ UNCHANGED subs
     ELSE Finish(r, "failed")
  /\ UNCHANGED <<sessionVars, piVars, counters>>

\* Frames in order: the subscription's acknowledgement, then one answer; an answer that
\* comes before the acknowledgement is malformed.
Receive(r) ==
  /\ wait[r].phase \in {"sent", "acked"} /\ link[r].out # <<>>
  /\ LET frame == Head(link[r].out) IN
     IF frame = "ack"
     THEN /\ wait' = [wait EXCEPT ![r].phase = "acked"]
          /\ LET rest == [link EXCEPT ![r].out = Tail(@)] IN
             link' = IF r[1] = "hop" THEN Say(rest, Call(r[2]), <<"ack">>) ELSE rest
          /\ UNCHANGED subs
     ELSE Finish(r, IF frame \in Events /\ wait[r].phase = "acked" THEN frame ELSE "failed")
  /\ UNCHANGED <<sessionVars, piVars, counters>>

\* The connection ended before an answer.
SeeEnd(r) ==
  /\ InProgress(r) /\ link[r].state = "ended" /\ link[r].out = <<>>
  /\ Finish(r, "offline")
  /\ UNCHANGED <<sessionVars, piVars, counters>>

\* The deadline of the wait: armed for every request on a socket, and for a tool's probe.
Expire(r) ==
  /\ InProgress(r) /\ (r[1] = "hop" => wait[r].phase \in {"sent", "acked"})
  /\ Finish(r, "timeout")
  /\ UNCHANGED <<sessionVars, piVars, counters>>

\* The run or the client gives up.
Abort(r) ==
  /\ InProgress(r) /\ r[1] # "hop"
  /\ Finish(r, "failed")
  /\ UNCHANGED <<sessionVars, piVars, counters>>

-----------------------------------------------------------------------------
(* The session that is asked.                                               *)

\* tryAcquireIdleWaitSubscription: one wait per target, and a bound on all.
Acquires(s, t) ==
  /\ ~\E sub \in subs[s] : sub.target = t
  /\ Cardinality(subs[s]) < Capacity

\* A forwarded request is for this session when it names this Member; by its role it is
\* resolved like a request from here, and a Member does not wait for itself.
Serve(r) ==
  /\ link[r].asked # None
  /\ LET s == link[r].at
         t == link[r].asked[1]
         mine == r[1] # "call" /\ link[r].asked[2] = "name"
         answered == [link EXCEPT ![r].asked = None] IN
     IF ~joined[s] \/ (~mine /\ t = s) \/ ~Acquires(s, t)
     THEN link' = Say(answered, r, <<"refused">>) /\ UNCHANGED <<subs, wait>>
     ELSE IF ~mine
     THEN /\ subs' = [subs EXCEPT ![s] = @ \cup {[req |-> r, target |-> t, delegated |-> TRUE]}]
          /\ wait' = Began(wait, Hop(r[2]), "probing", t, "name")
          /\ link' = answered
     ELSE IF Settled(s)
     THEN link' = Say(answered, r, <<"ack", "idle">>) /\ wait' = SawIdle(s) /\ UNCHANGED subs
     ELSE /\ subs' = [subs EXCEPT ![s] = @ \cup {[req |-> r, target |-> t, delegated |-> FALSE]}]
          /\ link' = Say(answered, r, <<"ack">>)
          /\ UNCHANGED wait
  /\ UNCHANGED <<sessionVars, piVars, counters>>

\* The socket's close event: the slot is free, and a delegated wait is aborted.
NoticeClose(r) ==
  /\ link[r].state = "half" /\ link[r].asked = None
  /\ subs' = Unsubscribed(r)
  /\ IF r[1] = "call" /\ InProgress(Hop(r[2]))
     THEN /\ wait' = Ended(wait, Hop(r[2]), "failed")
          /\ link' = HangUp([link EXCEPT ![r] = NoLink], Hop(r[2]))
     ELSE link' = [link EXCEPT ![r] = NoLink] /\ UNCHANGED wait
  /\ UNCHANGED <<sessionVars, piVars, counters>>

\* Pi's sendMessage with triggerTurn: a settled agent starts on the message, another one
\* queues it.
Sent(a, ms) ==
  IF ms = <<>> \/ a.busy \/ a.compacting THEN [a EXCEPT !.queue = @ \o ms]
  ELSE [a EXCEPT !.busy = TRUE, !.queue = @ \o Tail(ms)]

\* notifyAcceptedMessage: the accepted message ends the local wait.
Wake(s) ==
  IF Unblocked(s) THEN UNCHANGED <<wait, link, subs>>
  ELSE \E k \in Sockets : InProgress(Tool(s, k)) /\ Finish(Tool(s, k), "failed")

\* handleSend: a Follow-up accepted during a compaction waits for its end.
DeliverFollowUp(s) ==
  LET m == accepted + 1 IN
  /\ server[s] = "up" /\ m <= MaxMessages
  /\ accepted' = m
  /\ Wake(s)
  /\ IF agent[s].compacting
     THEN deferred' = [deferred EXCEPT ![s] = Append(@, m)] /\ UNCHANGED agent
     ELSE agent' = [agent EXCEPT ![s] = Sent(@, <<m>>)] /\ UNCHANGED deferred
  /\ UNCHANGED <<sessionVars, counters>>

\* A Redirect is never held back; during a compaction Pi keeps it.
DeliverRedirect(s) ==
  /\ server[s] = "up"
  /\ Wake(s)
  /\ agent' = [agent EXCEPT ![s].busy = @ \/ ~agent[s].compacting]
  /\ UNCHANGED <<sessionVars, deferred, accepted, counters>>

-----------------------------------------------------------------------------
(* Pi's events and what the session does with them.                         *)

\* Mutant of MaySettle: the end of a turn is enough.
MaySettleAnyTime(s, a) == TRUE

\* emitIdleSettled does nothing while the agent works or compacts.
MaySettle(s, a) == ~a.busy /\ ~a.compacting

\* agent_settled and the end of a compaction: what was held back goes to Pi, and who waits
\* for this Member is told, both now.  Delegated waits stay; without a membership every
\* subscription is dropped, nobody is told.
EmitIdleSettled(s, a) ==
  LET told == {sub.req : sub \in Local(s)} IN
  IF ~MaySettle(s, a)
  THEN agent' = [agent EXCEPT ![s] = a] /\ UNCHANGED <<deferred, subs, wait, link>>
  ELSE /\ agent' = [agent EXCEPT ![s] = Sent(a, deferred[s])]
       /\ deferred' = [deferred EXCEPT ![s] = <<>>]
       /\ wait' = IF ~a.busy /\ ~a.compacting THEN SawIdle(s) ELSE wait
       /\ IF ~joined[s] THEN subs' = [subs EXCEPT ![s] = {}] /\ UNCHANGED link
          ELSE /\ subs' = [subs EXCEPT ![s] = @ \ Local(s)]
               /\ link' = [r \in Reqs |-> IF r \in told /\ link[r].state = "open"
                              THEN [link[r] EXCEPT !.out = Append(@, "idle")]
                              ELSE link[r]]

Prompt(s) ==
  /\ server[s] = "up" /\ Settled(s)
  /\ agent' = [agent EXCEPT ![s].busy = TRUE]
  /\ UNCHANGED <<sessionVars, deferred, accepted, subs, wait, link, counters>>

\* The run takes the next queued Follow-up, once its tools are done.
TakeNext(s) ==
  /\ agent[s].busy /\ ~agent[s].compacting /\ agent[s].queue # <<>> /\ Unblocked(s)
  /\ agent' = [agent EXCEPT ![s].queue = Tail(@)]
  /\ UNCHANGED <<sessionVars, deferred, accepted, subs, wait, link, counters>>

\* agent_settled: no turn, retry or queued message is left.
AgentSettled(s) ==
  /\ agent[s].busy /\ ~agent[s].compacting /\ agent[s].queue = <<>> /\ Unblocked(s)
  /\ EmitIdleSettled(s, [agent[s] EXCEPT !.busy = FALSE])
  /\ UNCHANGED <<sessionVars, accepted, counters>>

CompactionStart(s) ==
  /\ server[s] = "up" /\ ~agent[s].compacting /\ Unblocked(s)
  /\ agent' = [agent EXCEPT ![s].compacting = TRUE]
  /\ UNCHANGED <<sessionVars, deferred, accepted, subs, wait, link, counters>>

\* Mutant of CompactionEnded: nobody listens to the end of a compaction.
CompactionEndedUnheard(s) ==
  /\ agent' = [agent EXCEPT ![s].compacting = FALSE]
  /\ UNCHANGED <<deferred, subs, wait, link>>

CompactionEnded(s) == EmitIdleSettled(s, [agent[s] EXCEPT !.compacting = FALSE])

CompactionEnd(s) ==
  /\ agent[s].compacting
  /\ CompactionEnded(s)
  /\ UNCHANGED <<sessionVars, accepted, counters>>

-----------------------------------------------------------------------------
(* The session leaves, stops, dies and starts again.                        *)

Leave(s) ==
  /\ joined[s] /\ server[s] = "up" /\ Troubled
  /\ joined' = [joined EXCEPT ![s] = FALSE]
  /\ UNCHANGED <<server, piVars, subs, wait, link>>

\* The Member joins again while its control server runs on.
Rejoin(s) ==
  /\ ~joined[s] /\ server[s] = "up"
  /\ joined' = [joined EXCEPT ![s] = TRUE]
  /\ UNCHANGED <<server, piVars, subs, wait, link, counters>>

\* session_shutdown releases the membership; stopControlServer forgets subscriptions and held-back messages, then waits for
\* server.close: no new connection, and every open one must end by itself.
Stop(s) ==
  /\ server[s] = "up" /\ Unblocked(s) /\ Troubled
  /\ joined' = [joined EXCEPT ![s] = FALSE]
  /\ server' = [server EXCEPT ![s] = "closing"]
  /\ subs' = [subs EXCEPT ![s] = {}]
  /\ deferred' = [deferred EXCEPT ![s] = <<>>] /\ agent' = [agent EXCEPT ![s] = Quiet]
  /\ UNCHANGED <<accepted, wait, link>>

Connected(s) == {r \in Reqs : link[r].at = s /\ link[r].state \in {"open", "half"}}

Closed(s) ==
  /\ server[s] = "closing" /\ Connected(s) = {}
  /\ server' = [server EXCEPT ![s] = "down"]
  /\ UNCHANGED <<joined, piVars, subs, wait, link, counters>>

Asks(s, r) == IF r[1] = "hop" THEN link[Call(r[2])].at = s ELSE r[1] = "tool" /\ r[2] = s

\* The process ends: its sockets end at the other side, what it asked is gone with it.
Exit(s) ==
  /\ server[s] # "down" /\ Troubled
  /\ server' = [server EXCEPT ![s] = "down"] /\ joined' = [joined EXCEPT ![s] = FALSE]
  /\ agent' = [agent EXCEPT ![s] = Quiet]
  /\ deferred' = [deferred EXCEPT ![s] = <<>>] /\ subs' = [subs EXCEPT ![s] = {}]
  /\ wait' = [r \in Reqs |-> IF Asks(s, r) /\ InProgress(r)
                              THEN Ended(wait, r, "failed")[r] ELSE wait[r]]
  /\ link' = [r \in Reqs |-> IF Asks(s, r) THEN HangUp(link, r)[r]
                              ELSE IF r \in Connected(s)
                              THEN IF link[r].state = "half" THEN NoLink
                                   ELSE [link[r] EXCEPT !.state = "ended", !.asked = None]
                              ELSE link[r]]
  /\ UNCHANGED <<accepted>>

Start(s) ==
  /\ server[s] = "down"
  /\ server' = [server EXCEPT ![s] = "up"] /\ joined' = [joined EXCEPT ![s] = TRUE]
  /\ UNCHANGED <<piVars, subs, wait, link, counters>>

-----------------------------------------------------------------------------
SessionStep(s) ==
  \/ \E t \in Sessions, label \in {"name", "role"} : CallTool(s, t, label)
  \/ DeliverFollowUp(s) \/ DeliverRedirect(s)
  \/ Prompt(s) \/ TakeNext(s) \/ AgentSettled(s)
  \/ CompactionStart(s) \/ CompactionEnd(s)
  \/ Leave(s) \/ Rejoin(s) \/ Stop(s) \/ Closed(s) \/ Exit(s) \/ Start(s)

\* What the event loops and the timers of the asker and the asked do by themselves.
RequestStep(r) ==
  \/ Probe(r) \/ Connect(r) \/ Receive(r) \/ SeeEnd(r) \/ Expire(r) \/ Serve(r) \/ NoticeClose(r)

IdleWaitNext ==
  \/ \E s \in Sessions : SessionStep(s)
  \/ \E c \in Clients, s, t \in Sessions : CallClient(c, s, t)
  \/ \E r \in Reqs : RequestStep(r) \/ Abort(r)

IdleWaitSpec == IdleWaitInit /\ [][IdleWaitNext]_idleVars

-----------------------------------------------------------------------------
IdleWaitTypeOK ==
  /\ server \in [Sessions -> {"up", "closing", "down"}] /\ joined \in [Sessions -> BOOLEAN]
  /\ agent \in [Sessions -> [busy : BOOLEAN, compacting : BOOLEAN, queue : Seq(1..MaxMessages)]]
  /\ deferred \in [Sessions -> Seq(1..MaxMessages)]
  /\ subs \in [Sessions -> SUBSET [req : Reqs, target : Sessions, delegated : BOOLEAN]]
  /\ \A s \in Sessions : Cardinality(subs[s]) <= Capacity
  /\ wait \in [Reqs -> [phase : {"off", "probing", "probed", "sent", "acked", "done"},
                        target : Sessions \cup {None},
                        label : {"name", "role"}, result : Results \cup {None}, saw : BOOLEAN]]
  /\ link \in [Reqs -> [state : {"none", "open", "half", "ended"},
                        at : Sessions \cup {None}, out : Seq(Frames),
                        asked : {None} \cup Sessions \X {"name", "role"}]]
  /\ accepted \in 0..MaxMessages
  /\ asks \in 0..MaxAsks /\ trouble \in 0..MaxTrouble

\* The snapshot and the subscription are one step, and every way to settle is listened to:
\* while a session is settled nobody is left waiting for it to settle, and it holds no
\* Follow-up back.
SettledIsObserved ==
  \A s \in Sessions : server[s] = "up" /\ Settled(s) =>
    deferred[s] = <<>> /\ Local(s) = {}

\* An idle answer, through however many sessions, was true at some time during the wait.
IdleWasTrue ==
  [][\A r \in Reqs : InProgress(r) /\ wait'[r].result = "idle" => wait[r].saw]_idleVars

\* A slot is held only for a wait that somebody can still be told about: its connection is
\* there, and a delegated one's own question is still open.
SlotsHeld ==
  \A s \in Sessions : \A sub \in subs[s] :
    /\ link[sub.req].at = s /\ link[sub.req].state \in {"open", "half"}
    /\ sub.delegated => InProgress(Hop(sub.req[2]))

=============================================================================
