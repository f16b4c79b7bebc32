----------------------- MODULE RequestOutcomeRegistry -----------------------
(***************************************************************************)
(* The requester's half of the RequestOutcomeRegistry class: the pure,     *)
(* synchronous bookkeeping of outbound Member Requests.  It keeps the live *)
(* requests, a bounded memory of the closed ones (tombstones), a bounded   *)
(* buffer of outcomes nobody has asked for yet, and the callers parked on  *)
(* an outcome.  One action per method; a call that returns an error code   *)
(* changes nothing and is a stuttering step.  The methods may be called in *)
(* any order: sockets and timers are the callers' (MemberRequestFlow).     *)
(*                                                                         *)
(* A request is its identifier.  The boolean fields of its record are sets *)
(* of identifiers; message, member, age and deadline are left out.         *)
(***************************************************************************)
EXTENDS Naturals, Sequences, FiniteSets

CONSTANTS RequestIds,     \* the opaque identifiers createRequestId draws from
          MaxOutbound,    \* MAX_MEMBER_REQUEST_OUTBOUND, 8 in the code
          MaxBuffered,    \* MAX_MEMBER_REQUEST_BUFFERED, 64 in the code
          MaxTombstones   \* MAX_REQUEST_OUTCOME_TOMBSTONES, 64 in the code

ASSUME RegistryAssumption == /\ MaxOutbound \in Nat
                             /\ MaxBuffered \in Nat
                             /\ MaxTombstones \in Nat

TerminalKinds == {"response", "offline", "timeout"}
OutcomeKinds == TerminalKinds \cup {"pending"}
NoOutcome == "none"

VARIABLES
  outbound,          \* live requests
  accepted,          \* live requests whose target acknowledged delivery
  idleArmed,         \* live requests whose responder went idle
  pendingPublished,  \* live requests whose pending-after-idle notice went out
  terminal,          \* closed requests still remembered
  tombstoneOrder,    \* the same, oldest first
  buffered,          \* outcomes waiting for a caller: [sequence, id, kind]
  sequence,          \* the next buffer sequence number
  waiter,            \* whether a caller is parked on the next outcome of any request
  exactWaiters,      \* requests with a caller parked on exactly theirs
  issued,            \* history: identifiers createRequestId has handed out
  resolution,        \* history: the terminal outcome of each request
  collected          \* history: requests whose terminal outcome a caller got

requests == <<outbound, accepted, idleArmed, pendingPublished>>
tombstones == <<terminal, tombstoneOrder>>
buffer == <<buffered, sequence>>
waiters == <<waiter, exactWaiters>>
history == <<issued, resolution, collected>>
vars == <<requests, tombstones, buffer, waiters, history>>

Outcome(id, kind) == [sequence |-> sequence, id |-> id, kind |-> kind]
BufferedFor(id) == {b \in buffered : b.id = id}

Init ==
  /\ outbound = {} /\ accepted = {} /\ idleArmed = {} /\ pendingPublished = {}
  /\ terminal = {} /\ tombstoneOrder = <<>>
  /\ buffered = {} /\ sequence = 0
  /\ waiter = FALSE /\ exactWaiters = {}
  /\ issued = {} /\ collected = {}
  /\ resolution = [id \in RequestIds |-> NoOutcome]

-----------------------------------------------------------------------------
(* Opening a request and learning of its delivery.                          *)

\* Mutant of RegisterOutbound: live requests are not counted against the
\* buffer they may still have to publish into.
RegisterOutboundUncounted(id) ==
  /\ id \notin issued
  /\ id \notin outbound \cup terminal
  /\ Cardinality(outbound) < MaxOutbound
  /\ Cardinality(buffered) < MaxBuffered
  /\ outbound' = outbound \cup {id}
  /\ issued' = issued \cup {id}
  /\ UNCHANGED <<accepted, idleArmed, pendingPublished, tombstones, buffer, waiters,
                 resolution, collected>>

\* The first guard is the caller's: createRequestId never repeats itself.
RegisterOutbound(id) ==
  /\ id \notin issued
  /\ id \notin outbound \cup terminal
  /\ Cardinality(outbound) < MaxOutbound
  /\ Cardinality(buffered) + Cardinality(outbound) < MaxBuffered
  /\ outbound' = outbound \cup {id}
  /\ issued' = issued \cup {id}
  /\ UNCHANGED <<accepted, idleArmed, pendingPublished, tombstones, buffer, waiters,
                 resolution, collected>>

AcceptOutbound(id) ==
  /\ id \in outbound
  /\ accepted' = accepted \cup {id}
  /\ UNCHANGED <<outbound, idleArmed, pendingPublished, tombstones, buffer, waiters, history>>

ArmOutboundIdle(id) ==
  /\ id \in accepted
  /\ idleArmed' = idleArmed \cup {id}
  /\ UNCHANGED <<outbound, accepted, pendingPublished, tombstones, buffer, waiters, history>>

Forget(id) ==
  /\ outbound' = outbound \ {id}
  /\ accepted' = accepted \ {id}
  /\ idleArmed' = idleArmed \ {id}
  /\ pendingPublished' = pendingPublished \ {id}

FailBeforeAcceptance(id) ==
  /\ id \in outbound \ accepted
  /\ Forget(id)
  /\ UNCHANGED <<tombstones, buffer, waiters, history>>

CloseOutcomeUnknown(id) ==
  /\ id \in outbound
  /\ Forget(id)
  /\ UNCHANGED <<tombstones, buffer, waiters, history>>

-----------------------------------------------------------------------------
(* Publishing an outcome: to the caller parked on this request, else to the *)
(* caller parked on any, else into the buffer if it has room.               *)

\* Mutant of Unsuperseded: a terminal outcome leaves the notice in the buffer.
UnsupersededKept(id, kind) == buffered

\* A terminal outcome supersedes what is buffered for its request.
Unsuperseded(id, kind) ==
  IF kind = "pending" THEN buffered ELSE buffered \ BufferedFor(id)

Hand(id, kind) ==
  /\ buffered' = Unsuperseded(id, kind)
  /\ collected' = IF kind \in TerminalKinds THEN collected \cup {id} ELSE collected
  /\ UNCHANGED sequence

Publish(id, kind) ==
  \/ /\ id \in exactWaiters
     /\ exactWaiters' = exactWaiters \ {id}
     /\ Hand(id, kind)
     /\ UNCHANGED waiter
  \/ /\ id \notin exactWaiters
     /\ waiter
     /\ waiter' = FALSE
     /\ Hand(id, kind)
     /\ UNCHANGED exactWaiters
  \/ /\ id \notin exactWaiters
     /\ ~waiter
     /\ IF Cardinality(Unsuperseded(id, kind)) < MaxBuffered
          THEN /\ buffered' = Unsuperseded(id, kind) \cup {Outcome(id, kind)}
               /\ sequence' = sequence + 1
          ELSE /\ buffered' = Unsuperseded(id, kind)   \* silently dropped
               /\ UNCHANGED sequence
     /\ UNCHANGED <<waiters, collected>>

SetTerminal(id) ==
  LET order == Append(tombstoneOrder, id) IN
  IF Len(order) > MaxTombstones
    THEN /\ tombstoneOrder' = Tail(order)
         /\ terminal' = (terminal \cup {id}) \ {Head(order)}
    ELSE /\ tombstoneOrder' = order
         /\ terminal' = terminal \cup {id}

\* Mutant of Close: the closed request stays among the live ones.
CloseKept(id, kind) ==
  /\ SetTerminal(id)
  /\ resolution' = [resolution EXCEPT ![id] = kind]
  /\ Publish(id, kind)
  /\ UNCHANGED <<requests, issued>>

Close(id, kind) ==
  /\ Forget(id)
  /\ SetTerminal(id)
  /\ resolution' = [resolution EXCEPT ![id] = kind]
  /\ Publish(id, kind)
  /\ UNCHANGED issued

ResolveResponse(id) == id \in accepted /\ Close(id, "response")
ResolveOffline(id) == id \in outbound /\ Close(id, "offline")
ResolveTimeout(id) == id \in outbound /\ Close(id, "timeout")

ResolvePendingAfterIdle(id) ==
  /\ id \in accepted \cap idleArmed
  /\ id \notin pendingPublished
  /\ pendingPublished' = pendingPublished \cup {id}
  /\ Publish(id, "pending")
  /\ UNCHANGED <<outbound, accepted, idleArmed, tombstones, issued, resolution>>

-----------------------------------------------------------------------------
(* Waiting for an outcome: take a buffered one, else park.                  *)

Take(b) ==
  /\ buffered' = buffered \ {b}
  /\ collected' = IF b.kind \in TerminalKinds THEN collected \cup {b.id} ELSE collected
  /\ UNCHANGED <<requests, tombstones, sequence, waiters, issued, resolution>>

Park(exact, any) ==
  /\ exactWaiters' = exact
  /\ waiter' = any
  /\ UNCHANGED <<requests, tombstones, buffer, history>>

Oldest(bs) == {b \in bs : \A other \in bs : b.sequence <= other.sequence}

WaitForRequest(id) ==
  \/ \E b \in Oldest(BufferedFor(id)) : Take(b)
  \/ /\ BufferedFor(id) = {}
     /\ id \in outbound
     /\ id \notin exactWaiters
     /\ ~waiter
     /\ Park(exactWaiters \cup {id}, waiter)

WaitForUpdate ==
  \/ \E b \in Oldest(buffered) : Take(b)
  \/ /\ buffered = {}
     /\ outbound # {}
     /\ ~waiter
     /\ exactWaiters = {}
     /\ Park(exactWaiters, TRUE)

CancelRequestWait(id) == id \in exactWaiters /\ Park(exactWaiters \ {id}, waiter)
CancelUpdateWait == waiter /\ Park(exactWaiters, FALSE)

-----------------------------------------------------------------------------
Next ==
  \/ \E id \in RequestIds :
       \/ RegisterOutbound(id)
       \/ AcceptOutbound(id)
       \/ ArmOutboundIdle(id)
       \/ FailBeforeAcceptance(id)
       \/ CloseOutcomeUnknown(id)
       \/ ResolveResponse(id)
       \/ ResolveOffline(id)
       \/ ResolveTimeout(id)
       \/ ResolvePendingAfterIdle(id)
       \/ WaitForRequest(id)
       \/ CancelRequestWait(id)
  \/ WaitForUpdate
  \/ CancelUpdateWait

Spec == Init /\ [][Next]_vars

-----------------------------------------------------------------------------
(* Types of all variables.                                                  *)
TypeOK ==
  /\ issued \subseteq RequestIds
  /\ outbound \subseteq issued
  /\ accepted \subseteq outbound
  /\ idleArmed \subseteq accepted
  /\ pendingPublished \subseteq idleArmed
  /\ terminal \subseteq issued \ outbound
  /\ tombstoneOrder \in Seq(RequestIds)
  /\ Len(tombstoneOrder) <= MaxTombstones
  /\ buffered \subseteq [sequence : Nat, id : issued, kind : OutcomeKinds]
  /\ sequence \in Nat
  /\ waiter \in BOOLEAN
  /\ exactWaiters \subseteq issued
  /\ resolution \in [RequestIds -> TerminalKinds \cup {NoOutcome}]
  /\ collected \subseteq issued

\* The branch of publish that silently drops an outcome is never taken: whatever
\* request settles next, and whenever a notice is due, the bounded buffer has room.
\* This is what the buffer-capacity refusal of registerOutbound is for.
RoomForEveryOutcome ==
  /\ \A id \in outbound : Cardinality(buffered \ BufferedFor(id)) < MaxBuffered
  /\ \A id \in outbound \ pendingPublished : Cardinality(buffered) < MaxBuffered

\* A closed request's outcome is either already in a caller's hands or buffered
\* for the first caller that asks: never lost, never there for two callers, also
\* after its tombstone was evicted.
OutcomeKept ==
  \A id \in RequestIds :
    resolution[id] # NoOutcome =>
      (id \in collected <=> ~\E b \in buffered : b.id = id /\ b.kind = resolution[id])

\* A caller never reads a pending-after-idle notice of a request that is already
\* closed: the terminal outcome replaced it.
NoSupersededNotice ==
  \A b \in buffered : b.kind = "pending" => resolution[b.id] = NoOutcome

\* No caller stays parked while an outcome it asks for lies in the buffer.
NoCallerParkedPastOutcome ==
  /\ \A b \in buffered : b.id \notin exactWaiters
  /\ waiter => buffered = {} /\ exactWaiters = {}

\* The registry keeps the promise of RequestPromise.
Promise == INSTANCE RequestPromise WITH opened <- issued, pending <- outbound
PromiseKept == Promise!Spec
=============================================================================
