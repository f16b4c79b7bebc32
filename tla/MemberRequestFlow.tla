-------------------------- MODULE MemberRequestFlow --------------------------
(***************************************************************************)
(* Member Requests end to end: MemberRequestFlow with its registry in the  *)
(* requester's process, the client socket of sendMemberRequest, and the    *)
(* handlers of the one Member that all these requests go to.               *)
(*                                                                         *)
(* Both processes are event loops.  A requester task (a socket event, a    *)
(* timer, a call) runs to its end, and then the continuation of            *)
(* `await transport.open` runs before the next task: LoopFree.  The lines  *)
(* of one socket chunk belong to one task, so they are all handled before  *)
(* that continuation.  How many lines a chunk may carry is MaxChunk.       *)
(*                                                                         *)
(* The variables of RequestOutcomeRegistry are the requester's registry,   *)
(* and its actions the calls the flow makes.                               *)
(***************************************************************************)
EXTENDS RequestOutcomeRegistry

CONSTANTS MaxInbound,    \* MAX_MEMBER_REQUEST_INBOUND, 8 in the code
          MaxChunk,      \* bound: complete lines one socket chunk carries
          MaxExits,      \* bound: times the responder's process ends
          WaitOnListed   \* whether callers wait for requests not yet accepted

ASSUME FlowAssumption == /\ MaxInbound \in Nat /\ MaxChunk \in Nat /\ MaxExits \in Nat
                         /\ WaitOnListed \in BOOLEAN

VARIABLES
  call,          \* the sendMemberRequest call of each request
  link,          \* the requester's socket
  closes,        \* requests whose close function the flow holds
  completed,     \* requests that got a terminal update
  hardTimer,     \* requests with a running max-wait timer
  graceTimer,    \* requests with a running post-idle timer
  chunk,         \* the chunk being handled: its request and its lines
  requestLines,  \* requests written and not yet read by the responder
  lines,         \* what the responder wrote and the requester has not read
  hungUp,        \* requests whose socket the responder's process left
  inbound,       \* the responder's accepted and unanswered requests
  idleNotified,  \* inbound requests whose idle notification went out
  exits,         \* how often the responder's process ended
  answered,      \* history: requests the responder answered
  heard          \* history: how the Response of each live request reached the
                 \* requester: in the task of its acknowledgement, or in a later one

requester == <<call, link, closes, completed, hardTimer, graceTimer, chunk>>
responder == <<hungUp, inbound, idleNotified, exits, answered>>
flowVars == <<vars, requester, requestLines, lines, responder, heard>>

NoChunk == [id |-> "none", lines |-> <<>>]
LoopFree == chunk = NoChunk /\ \A id \in RequestIds : call[id] # "opened"

FlowInit ==
  /\ Init
  /\ call = [id \in RequestIds |-> "unsent"]
  /\ link = [id \in RequestIds |-> "none"]
  /\ closes = {} /\ completed = {} /\ hardTimer = {} /\ graceTimer = {}
  /\ chunk = NoChunk
  /\ requestLines = {} /\ lines = [id \in RequestIds |-> <<>>]
  /\ hungUp = {} /\ inbound = {} /\ idleNotified = {} /\ exits = 0
  /\ answered = {} /\ heard = [id \in RequestIds |-> "never"]

-----------------------------------------------------------------------------
(* The requester: opening a request.                                        *)

SendMemberRequest(id) ==
  /\ LoopFree
  /\ RegisterOutbound(id)
  /\ call' = [call EXCEPT ![id] = "opening"]
  /\ link' = [link EXCEPT ![id] = "dialing"]
  /\ UNCHANGED <<closes, completed, hardTimer, graceTimer, chunk, requestLines, lines,
                 responder, heard>>

\* The socket connects and the request is written.
Dispatch(id) ==
  /\ LoopFree
  /\ link[id] = "dialing"
  /\ link' = [link EXCEPT ![id] = "up"]
  /\ requestLines' = requestLines \cup {id}
  /\ UNCHANGED <<vars, call, closes, completed, hardTimer, graceTimer, chunk, lines,
                 responder, heard>>

\* The socket is destroyed; what was on its way to it is lost.
Shut(id) ==
  /\ link' = [link EXCEPT ![id] = "closed"]
  /\ lines' = [lines EXCEPT ![id] = <<>>]

\* finishBeforeAccept rejects, and the catch block withdraws the request.
Throw(id) ==
  /\ call[id] = "opening"
  /\ call' = [call EXCEPT ![id] = "threw"]
  /\ Shut(id)
  /\ graceTimer' = graceTimer \ {id}
  /\ UNCHANGED <<closes, completed, hardTimer, requestLines, responder, heard>>

\* onAbort's branch for an accepted request is not here: the one signal callers
\* pass, startMemberRequest's budget, is let go before any task after acceptance.
\* No connection, an abort, or five seconds without an acknowledgement.
RejectOpen(id) ==
  /\ LoopFree
  /\ Throw(id)
  /\ FailBeforeAcceptance(id)
  /\ UNCHANGED chunk

\* The responder's process left a dispatched request without acknowledging it.
LostAcknowledgement(id) ==
  /\ LoopFree
  /\ id \in hungUp
  /\ lines[id] = <<>>
  /\ Throw(id)
  /\ CloseOutcomeUnknown(id)
  /\ UNCHANGED chunk

\* Mutant of FinishRequest: the socket is left open.
FinishRequestOpen(id) ==
  /\ hardTimer' = hardTimer \ {id}
  /\ graceTimer' = graceTimer \ {id}
  /\ closes' = closes \ {id}
  /\ UNCHANGED <<link, lines>>

FinishRequest(id) ==
  /\ hardTimer' = hardTimer \ {id}
  /\ graceTimer' = graceTimer \ {id}
  /\ closes' = closes \ {id}
  /\ IF id \in closes THEN Shut(id) ELSE UNCHANGED <<link, lines>>

\* Mutant of ContinueSend: the hard timer is not armed.
ContinueSendUnbounded(id) ==
  /\ chunk = NoChunk
  /\ call[id] = "opened"
  /\ call' = [call EXCEPT ![id] = "returned"]
  /\ closes' = closes \cup {id}
  /\ AcceptOutbound(id)
  /\ UNCHANGED <<hardTimer, completed, link, lines, graceTimer, chunk, requestLines,
                 responder, heard>>

\* The code after `await transport.open`.  A terminal update that came first
\* closes the socket at once; the request is then accepted all the same.
ContinueSend(id) ==
  /\ chunk = NoChunk
  /\ call[id] = "opened"
  /\ call' = [call EXCEPT ![id] = "returned"]
  /\ completed' = completed \ {id}
  /\ IF id \in completed
       THEN Shut(id) /\ graceTimer' = graceTimer \ {id} /\ UNCHANGED closes
       ELSE closes' = closes \cup {id} /\ UNCHANGED <<link, lines, graceTimer>>
  /\ AcceptOutbound(id)
  /\ hardTimer' = hardTimer \cup {id}
  /\ UNCHANGED <<chunk, requestLines, responder, heard>>

-----------------------------------------------------------------------------
(* The requester: what the socket brings.                                   *)

\* The next one to MaxChunk lines arrive together.
ReadChunk(id) ==
  /\ LoopFree
  /\ link[id] = "up"
  /\ \E n \in 1 .. Len(lines[id]) :
       /\ n <= MaxChunk
       /\ chunk' = [id |-> id, lines |-> SubSeq(lines[id], 1, n)]
       /\ lines' = [lines EXCEPT ![id] = SubSeq(@, n + 1, Len(@))]
  /\ UNCHANGED <<vars, call, link, closes, completed, hardTimer, graceTimer,
                 requestLines, responder, heard>>

NextLine(id, line) == chunk.id = id /\ chunk.lines # <<>> /\ Head(chunk.lines) = line
LineDone ==
  chunk' = IF Len(chunk.lines) = 1 THEN NoChunk ELSE [chunk EXCEPT !.lines = Tail(@)]

AcceptLine(id) ==
  /\ NextLine(id, "accept")
  /\ call[id] = "opening"
  /\ call' = [call EXCEPT ![id] = "opened"]
  /\ LineDone
  /\ UNCHANGED <<vars, link, closes, completed, hardTimer, graceTimer, requestLines,
                 lines, responder, heard>>

\* Mutant of RefuseLine: the refused request is not withdrawn.
RefuseLineLive(id) ==
  /\ NextLine(id, "refuse")
  /\ Throw(id)
  /\ chunk' = NoChunk
  /\ UNCHANGED vars

RefuseLine(id) ==
  /\ NextLine(id, "refuse")
  /\ Throw(id)
  /\ FailBeforeAcceptance(id)
  /\ chunk' = NoChunk

\* The idle of a request that is not accepted yet, or not live any more, is ignored.
IdleLine(id) ==
  /\ NextLine(id, "idle")
  /\ LineDone
  /\ \/ /\ ArmOutboundIdle(id)
        /\ graceTimer' = IF id \in pendingPublished THEN graceTimer ELSE graceTimer \cup {id}
     \/ id \notin accepted /\ UNCHANGED <<vars, graceTimer>>
  /\ UNCHANGED <<call, link, closes, completed, hardTimer, requestLines, lines,
                 responder, heard>>

\* A chunk may carry the acknowledgement and the Response: then the Response is
\* handled before the continuation of `await transport.open` accepts the request.
Hear(id) ==
  heard' = [heard EXCEPT ![id] = IF id \notin outbound THEN @
                                 ELSE IF call[id] = "opened" THEN "joined" ELSE "alone"]

\* Mutant of ResponseLine: the request is finished and its outcome forgotten.
ResponseLineUnresolved(id) ==
  /\ NextLine(id, "response")
  /\ LineDone
  /\ completed' = completed \cup {id}
  /\ FinishRequest(id)
  /\ Hear(id)
  /\ UNCHANGED <<vars, call, requestLines, responder>>

\* The registry may refuse the Response; the request is finished regardless.
ResponseLine(id) ==
  /\ NextLine(id, "response")
  /\ LineDone
  /\ \/ ResolveResponse(id)
     \/ id \notin accepted /\ UNCHANGED vars
  /\ completed' = completed \cup {id}
  /\ FinishRequest(id)
  /\ Hear(id)
  /\ UNCHANGED <<call, requestLines, responder>>

\* end, error or close of an accepted request's socket: onTerminalClose.
SocketEnd(id) ==
  /\ LoopFree
  /\ call[id] = "returned"
  /\ link[id] = "up"
  /\ id \in hungUp
  /\ lines[id] = <<>>
  /\ ResolveOffline(id)
  /\ completed' = completed \cup {id}
  /\ FinishRequest(id)
  /\ UNCHANGED <<call, chunk, requestLines, responder, heard>>

-----------------------------------------------------------------------------
(* The requester: timers and waiting callers.                               *)

\* The request is always live here: finishRequest clears its timer.
HardTimeout(id) ==
  /\ LoopFree
  /\ id \in hardTimer
  /\ ResolveTimeout(id)
  /\ completed' = completed \cup {id}
  /\ FinishRequest(id)
  /\ UNCHANGED <<call, chunk, requestLines, responder, heard>>

GraceExpires(id) ==
  /\ LoopFree
  /\ id \in graceTimer
  /\ graceTimer' = graceTimer \ {id}
  /\ ResolvePendingAfterIdle(id)
  /\ UNCHANGED <<call, link, closes, completed, hardTimer, chunk, requestLines, lines,
                 responder, heard>>

\* Only member_request_list can tell a caller of a request that is not accepted.
WaitForRequestOutcomeById(id) ==
  /\ LoopFree
  /\ call[id] = "returned" \/ WaitOnListed
  /\ WaitForRequest(id)
  /\ UNCHANGED <<requester, requestLines, lines, responder, heard>>

CancelWait(id) ==
  /\ LoopFree
  /\ CancelRequestWait(id)
  /\ UNCHANGED <<requester, requestLines, lines, responder, heard>>

-----------------------------------------------------------------------------
(* The responder.  What it writes to a destroyed socket is lost silently.   *)

Written(id, line) == IF link[id] = "up" THEN Append(lines[id], line) ELSE lines[id]

\* handleMemberRequest: registered, shown to the model, accepted, acknowledged.
AcceptInbound(id) ==
  /\ id \in requestLines
  /\ Cardinality(inbound) < MaxInbound
  /\ requestLines' = requestLines \ {id}
  /\ inbound' = inbound \cup {id}
  /\ lines' = [lines EXCEPT ![id] = Written(id, "accept")]
  /\ UNCHANGED <<vars, requester, hungUp, idleNotified, exits, answered, heard>>

\* Untrusted, unknown origin, no capacity, or Pi refuses the message.
RefuseInbound(id) ==
  /\ id \in requestLines
  /\ requestLines' = requestLines \ {id}
  /\ lines' = [lines EXCEPT ![id] = Written(id, "refuse")]
  /\ UNCHANGED <<vars, requester, responder, heard>>

RespondToMemberRequest(id) ==
  /\ id \in inbound
  /\ inbound' = inbound \ {id}
  /\ answered' = answered \cup {id}
  /\ lines' = [lines EXCEPT ![id] = Written(id, "response")]
  /\ UNCHANGED <<vars, requester, requestLines, hungUp, idleNotified, exits, heard>>

\* The responder's agent settled: every inbound request is notified once.
SettleAllInboundIdle ==
  /\ inbound \ idleNotified # {}
  /\ idleNotified' = idleNotified \cup inbound
  /\ lines' = [id \in RequestIds |->
                 IF id \in inbound \ idleNotified THEN Written(id, "idle") ELSE lines[id]]
  /\ UNCHANGED <<vars, requester, requestLines, hungUp, inbound, exits, answered, heard>>

\* The requester's socket is gone: cleanupInbound.
RemoveInbound(id) ==
  /\ id \in inbound
  /\ link[id] = "closed"
  /\ inbound' = inbound \ {id}
  /\ UNCHANGED <<vars, requester, requestLines, lines, hungUp, idleNotified, exits,
                 answered, heard>>

\* The responder's process ends and may come back: sockets and memory are gone.
ResponderExit ==
  /\ exits < MaxExits
  /\ exits' = exits + 1
  /\ hungUp' = hungUp \cup {id \in RequestIds : link[id] = "up"}
  /\ requestLines' = {} /\ inbound' = {} /\ idleNotified' = {}
  /\ UNCHANGED <<vars, requester, lines, answered, heard>>

-----------------------------------------------------------------------------
RequesterTask(id) ==
  \/ Dispatch(id) \/ RejectOpen(id) \/ LostAcknowledgement(id) \/ SocketEnd(id)
  \/ ReadChunk(id) \/ AcceptLine(id) \/ RefuseLine(id) \/ IdleLine(id) \/ ResponseLine(id)
  \/ ContinueSend(id)

FlowNext ==
  \/ \E id \in RequestIds :
       \/ SendMemberRequest(id)
       \/ RequesterTask(id)
       \/ HardTimeout(id) \/ GraceExpires(id)
       \/ WaitForRequestOutcomeById(id) \/ CancelWait(id)
       \/ AcceptInbound(id) \/ RefuseInbound(id)
       \/ RespondToMemberRequest(id) \/ RemoveInbound(id)
  \/ SettleAllInboundIdle
  \/ ResponderExit

\* The event loops run, timers fire, and a dead socket is noticed.  Nobody is
\* obliged to send, wait, answer, go idle or exit.
Fairness ==
  \A id \in RequestIds :
    /\ WF_flowVars(RequesterTask(id))
    /\ WF_flowVars(RejectOpen(id))
    /\ WF_flowVars(HardTimeout(id))
    /\ WF_flowVars(GraceExpires(id))
    /\ WF_flowVars(RemoveInbound(id))

FlowSpec == FlowInit /\ [][FlowNext]_flowVars
FairFlowSpec == FlowSpec /\ Fairness

-----------------------------------------------------------------------------
Lines == {"accept", "refuse", "idle", "response"}

(* Types of all variables; the inbound capacity and the lines of one socket  *)
(* stay bounded.                                                             *)
FlowTypeOK ==
  /\ TypeOK
  /\ call \in [RequestIds -> {"unsent", "opening", "opened", "returned", "threw"}]
  /\ link \in [RequestIds -> {"none", "dialing", "up", "closed"}]
  /\ closes \subseteq issued /\ completed \subseteq issued
  /\ hardTimer \subseteq issued /\ graceTimer \subseteq issued
  /\ chunk.id \in RequestIds \cup {"none"} /\ chunk.lines \in Seq(Lines)
  /\ requestLines \subseteq issued
  /\ lines \in [RequestIds -> Seq(Lines)]
  /\ \A id \in RequestIds : Len(lines[id]) <= 3
  /\ hungUp \subseteq issued /\ inbound \subseteq issued /\ idleNotified \subseteq issued
  /\ Cardinality(inbound) <= MaxInbound
  /\ exits \in 0 .. MaxExits
  /\ answered \subseteq issued /\ heard \in [RequestIds -> {"never", "joined", "alone"}]

\* finishRequest's promise that no timer outlives its request, and the docs' that
\* every accepted request is bounded: the max-wait timer runs for exactly the
\* accepted live requests, the grace for exactly the idle ones without a notice.
TimersMatchRequests ==
  /\ hardTimer = accepted
  /\ graceTimer = idleArmed \ pendingPublished

\* A caller whose sendMemberRequest threw never gets an outcome later, one still
\* in the call has a live request that nothing resolved behind its back, and one
\* that was told "accepted" has a live request or an outcome.
CallAgreesWithRegistry ==
  \A id \in RequestIds :
    /\ call[id] = "threw" => id \notin outbound /\ resolution[id] = "none"
    /\ call[id] \in {"opening", "opened"} => id \in outbound \ accepted
    /\ call[id] = "returned" => id \in accepted \/ resolution[id] # "none"

\* The requester's socket does not outlive its request.
SocketReleased ==
  \A id \in RequestIds :
    call[id] \in {"returned", "threw"} /\ id \notin outbound => link[id] = "closed"

\* A Response that reaches the requester while its request is open wins over the
\* timers and the end of the socket, then and ever after, unless it came in the
\* task of the acknowledgement (onUpdate before acceptOutbound).
ResponseWins == \A id \in RequestIds : heard[id] = "alone" => resolution[id] = "response"

\* docs/MEMBER-REQUEST-WORKFLOW.md: a Response delivered before the grace, or during
\* it, "always wins".  One handled before acceptOutbound is refused and lost.
ResponseAlwaysWins ==
  \A id \in RequestIds :
    heard[id] # "never" /\ resolution[id] # "none" => resolution[id] = "response"

\* A request the target accepted reaches a terminal outcome whatever the target,
\* its process and the socket do.
AcceptedSettles ==
  \A id \in RequestIds : call[id] = "returned" ~> resolution[id] # "none"

\* A caller parked on the outcome of a request is answered or gives up.
ParkedCallerServed ==
  \A id \in RequestIds : id \in exactWaiters ~> id \notin exactWaiters

\* The responder does not keep an inbound slot for ever: the requester's bounds
\* close the socket, and that frees it.
InboundSlotFreed == \A id \in RequestIds : id \in inbound ~> id \notin inbound
=============================================================================
