----------------------- MODULE MemberRequestFlowProofs -----------------------
(***************************************************************************)
(* First the registry alone, for every set of identifiers and every value  *)
(* of the three limits, whoever calls it.  The argument turns on one       *)
(* count.  Call an identifier claimed if it has a buffered outcome or is   *)
(* still live.  Registration refuses to claim more than MaxBuffered        *)
(* identifiers; publishing moves a claimed one from live to buffered and   *)
(* never claims another; and a claimed identifier has at most one entry in *)
(* the buffer.  So the buffer has room for whatever settles next, and      *)
(* publish never drops an outcome.                                         *)
(*                                                                         *)
(* Then the flow: it drives the registry by the registry's own operations, *)
(* so that all this holds of it with its sockets and timers.  The flow's   *)
(* own invariants are about who holds a request: the caller inside         *)
(* sendMemberRequest, then the two timers and the socket.  They are        *)
(* inductive once it is added that an accepted request's socket is either  *)
(* closed or in the flow's hands (FlowIInv), given the registry's types.   *)
(* That a response which arrived decides the request rests on what a       *)
(* socket carries: the verdict comes before the response, and a line is    *)
(* handled before the next is read (ReadInv, HeardInv).  The one exception *)
(* is the response handled in the task of the acknowledgement.             *)
(***************************************************************************)
EXTENDS MemberRequestFlow, FiniteSetTheorems, SequenceTheorems, TLAPS

-----------------------------------------------------------------------------
(* The registry.                                                            *)

IdsOf(entries) == {b.id : b \in entries}
Claimed == IdsOf(buffered) \cup outbound

CapacityInv == /\ IsFiniteSet(Claimed)
               /\ Cardinality(Claimed) <= MaxBuffered

BufferInv ==
  /\ \A b, c \in buffered : b.id = c.id => b = c
  /\ \A b \in buffered : b.id \in outbound => b.kind = "pending" /\ b.id \in pendingPublished
  /\ \A b \in buffered : b.kind # "pending" => resolution[b.id] = b.kind /\ b.id \notin collected

HistoryInv ==
  /\ \A id \in RequestIds : resolution[id] # NoOutcome => id \in issued \ outbound
  /\ \A id \in collected : resolution[id] # NoOutcome

IInv == /\ TypeOK
        /\ CapacityInv
        /\ BufferInv
        /\ HistoryInv
        /\ OutcomeKept
        /\ NoSupersededNotice
        /\ NoCallerParkedPastOutcome

-----------------------------------------------------------------------------
(* Entries with different identifiers are no more than the identifiers.     *)
LEMMA EntriesInject ==
  ASSUME NEW S, NEW W, IsFiniteSet(W),
         \A b \in S : b.id \in W,
         \A b, c \in S : b.id = c.id => b = c
  PROVE  IsFiniteSet(S) /\ Cardinality(S) <= Cardinality(W)
<1> DEFINE f == [b \in S |-> b.id]
<1>1. f \in Injection(S, W)
  BY DEF Injection, IsInjective
<1>2. QED
  BY <1>1, FS_Injection

(* And the identifiers are no more than the entries.                        *)
LEMMA IdsCount ==
  ASSUME NEW S, IsFiniteSet(S)
  PROVE  IsFiniteSet(IdsOf(S)) /\ Cardinality(IdsOf(S)) <= Cardinality(S)
<1> DEFINE f == [b \in S |-> b.id]
<1>1. f \in Surjection(S, IdsOf(S))
  BY DEF Surjection, IdsOf
<1>2. QED
  BY <1>1, FS_Surjection

LEMMA UnionBound ==
  ASSUME NEW S, NEW T, IsFiniteSet(S), IsFiniteSet(T)
  PROVE  Cardinality(S \cup T) <= Cardinality(S) + Cardinality(T)
<1>1. IsFiniteSet(S \cap T)
  BY FS_Intersection
<1>2. /\ Cardinality(S) \in Nat /\ Cardinality(T) \in Nat
      /\ Cardinality(S \cap T) \in Nat
  BY <1>1, FS_CardinalityType
<1>3. Cardinality(S \cup T) = Cardinality(S) + Cardinality(T) - Cardinality(S \cap T)
  BY FS_Union
<1>4. QED
  BY <1>2, <1>3

(* A step that claims no further identifier keeps the count.                *)
LEMMA CapacityShrinks ==
  ASSUME CapacityInv, Claimed' \subseteq Claimed
  PROVE  CapacityInv'
BY FS_Subset, FS_CardinalityType, RegistryAssumption DEF CapacityInv

(* The claimed identifiers without a live one are fewer than MaxBuffered,   *)
(* hence so are the entries buffered for other requests.                    *)
LEMMA Room ==
  ASSUME IInv, NEW id \in outbound
  PROVE  /\ IsFiniteSet(buffered \ BufferedFor(id))
         /\ Cardinality(buffered \ BufferedFor(id)) < MaxBuffered
         /\ id \notin pendingPublished => BufferedFor(id) = {}
<1> DEFINE S == buffered \ BufferedFor(id)
           W == Claimed \ {id}
<1>1. IsFiniteSet(W) /\ Cardinality(W) = Cardinality(Claimed) - 1
  BY FS_RemoveElement DEF IInv, CapacityInv, Claimed
<1>2. Cardinality(W) < MaxBuffered
  BY <1>1, FS_CardinalityType, RegistryAssumption DEF IInv, CapacityInv
<1>3. \A b \in S : b.id \in W
  BY DEF Claimed, IdsOf, BufferedFor
<1>4. \A b, c \in S : b.id = c.id => b = c
  BY DEF IInv, BufferInv
<1>5. IsFiniteSet(S) /\ Cardinality(S) <= Cardinality(W)
  BY <1>1, <1>3, <1>4, EntriesInject
<1>6. id \notin pendingPublished => BufferedFor(id) = {}
  BY DEF IInv, BufferInv, BufferedFor
<1>7. Cardinality(S) < MaxBuffered
  BY <1>1, <1>2, <1>5, FS_CardinalityType, RegistryAssumption
<1>8. QED
  BY <1>5, <1>6, <1>7

LEMMA RoomForEveryOutcomeFollows == IInv => RoomForEveryOutcome
<1>1. SUFFICES ASSUME IInv PROVE RoomForEveryOutcome
  OBVIOUS
<1>2. \A id \in outbound : Cardinality(buffered \ BufferedFor(id)) < MaxBuffered
  BY <1>1, Room
<1>3. ASSUME NEW id \in outbound \ pendingPublished
      PROVE  Cardinality(buffered) < MaxBuffered
  <2>1. buffered \ BufferedFor(id) = buffered
    BY <1>1, Room
  <2>2. QED
    BY <1>2, <2>1
<1>4. QED
  BY <1>2, <1>3 DEF RoomForEveryOutcome

-----------------------------------------------------------------------------
(* What publishing does to the buffer and the callers when the published    *)
(* request was live: it is handed over or buffered, and never dropped.      *)
Handed(id, kind) ==
  /\ buffered' = Unsuperseded(id, kind)
  /\ collected' = IF kind \in TerminalKinds THEN collected \cup {id} ELSE collected
  /\ sequence' = sequence
  /\ exactWaiters' \subseteq exactWaiters
  /\ waiter' \in BOOLEAN
  /\ waiter' => waiter

Kept(id, kind) ==
  /\ buffered' = Unsuperseded(id, kind) \cup {Outcome(id, kind)}
  /\ sequence' = sequence + 1
  /\ id \notin exactWaiters /\ ~waiter
  /\ UNCHANGED <<waiter, exactWaiters, collected>>

LEMMA PublishNeverDrops ==
  ASSUME IInv, NEW id \in outbound, NEW kind \in OutcomeKinds,
         kind = "pending" => id \notin pendingPublished,
         Publish(id, kind)
  PROVE  /\ Unsuperseded(id, kind) = buffered \ BufferedFor(id)
         /\ Handed(id, kind) \/ Kept(id, kind)
<1>1. Unsuperseded(id, kind) = buffered \ BufferedFor(id)
  BY Room DEF Unsuperseded
<1>2. Cardinality(Unsuperseded(id, kind)) < MaxBuffered
  BY <1>1, Room
<1>3. waiter \in BOOLEAN
  BY DEF IInv, TypeOK
<1>4. CASE id \in exactWaiters
  <2>1. /\ exactWaiters' = exactWaiters \ {id}
        /\ Hand(id, kind)
        /\ waiter' = waiter
    BY <1>4 DEF Publish
  <2>2. QED
    BY <1>1, <1>3, <2>1, Zenon DEF Hand, Handed
<1>5. CASE id \notin exactWaiters /\ waiter
  <2>1. /\ waiter' = FALSE
        /\ Hand(id, kind)
        /\ exactWaiters' = exactWaiters
    BY <1>5 DEF Publish
  <2>2. QED
    BY <1>1, <1>5, <2>1, Zenon DEF Hand, Handed
<1>6. CASE id \notin exactWaiters /\ ~waiter
  BY <1>1, <1>2, <1>6 DEF Publish, Kept, waiters
<1>7. QED
  BY <1>1, <1>4, <1>5, <1>6

(* The buffer invariants are about the same few variables in every          *)
(* publishing step: prove them once for a step that publishes an outcome    *)
(* of a live request and then possibly forgets it.                          *)
LEMMA PublishPreserves ==
  ASSUME IInv, NEW id \in outbound, NEW kind \in OutcomeKinds,
         kind = "pending" => id \notin pendingPublished,
         Publish(id, kind),
         issued' = issued,
         kind = "pending" => /\ outbound' = outbound
                             /\ pendingPublished' = pendingPublished \cup {id}
                             /\ resolution' = resolution,
         kind # "pending" => /\ outbound' = outbound \ {id}
                             /\ pendingPublished' = pendingPublished \ {id}
                             /\ resolution' = [resolution EXCEPT ![id] = kind]
  PROVE  /\ buffered' \subseteq [sequence : Nat, id : issued, kind : OutcomeKinds]
         /\ sequence' \in Nat
         /\ waiter' \in BOOLEAN /\ exactWaiters' \subseteq issued
         /\ resolution' \in [RequestIds -> TerminalKinds \cup {NoOutcome}]
         /\ collected' \subseteq issued
         /\ CapacityInv' /\ BufferInv' /\ HistoryInv'
         /\ OutcomeKept' /\ NoSupersededNotice' /\ NoCallerParkedPastOutcome'
<1> DEFINE old == buffered \ BufferedFor(id)
<1>1. /\ Unsuperseded(id, kind) = old
      /\ Handed(id, kind) \/ Kept(id, kind)
  BY PublishNeverDrops
<1>2. id \in issued /\ id \in RequestIds /\ resolution[id] = NoOutcome /\ id \notin collected
  BY DEF IInv, TypeOK, HistoryInv
<1>3. /\ Outcome(id, kind) \in [sequence : Nat, id : issued, kind : OutcomeKinds]
      /\ Outcome(id, kind).id = id
      /\ Outcome(id, kind).kind = kind
  BY <1>2 DEF IInv, TypeOK, Outcome
<1>4. \A b \in old : b \in buffered /\ b.id # id
  BY DEF BufferedFor
<1>5. \A b \in buffered' : b \in old \/ b = Outcome(id, kind)
  BY <1>1 DEF Handed, Kept
<1>6. /\ buffered' \subseteq [sequence : Nat, id : issued, kind : OutcomeKinds]
      /\ sequence' \in Nat
      /\ waiter' \in BOOLEAN /\ exactWaiters' \subseteq issued
      /\ resolution' \in [RequestIds -> TerminalKinds \cup {NoOutcome}]
      /\ collected' \subseteq issued
  BY <1>1, <1>2, <1>3, <1>4 DEF Handed, Kept, IInv, TypeOK, OutcomeKinds
<1>7. CapacityInv'
  <2>1. Claimed' \subseteq Claimed
    BY <1>3, <1>4, <1>5 DEF Claimed, IdsOf
  <2>2. QED
    BY <2>1, CapacityShrinks DEF IInv
<1>8. BufferInv'
  <2>1. \A b, c \in buffered' : b.id = c.id => b = c
    BY <1>3, <1>4, <1>5 DEF IInv, BufferInv
  <2>2. \A b \in buffered' : b.id \in outbound' => b.kind = "pending" /\ b.id \in pendingPublished'
    BY <1>3, <1>4, <1>5 DEF IInv, BufferInv
  <2>3. \A b \in buffered' : b.kind # "pending" => resolution'[b.id] = b.kind /\ b.id \notin collected'
    <3>1. ASSUME NEW b \in old, b.kind # "pending"
          PROVE  resolution'[b.id] = b.kind /\ b.id \notin collected'
      <4>1. b.id # id /\ b \in buffered
        BY <1>4, <3>1
      <4>2. resolution[b.id] = b.kind /\ b.id \notin collected
        BY <4>1, <3>1 DEF IInv, BufferInv
      <4>3. resolution'[b.id] = resolution[b.id]
        BY <4>1 DEF IInv, TypeOK
      <4>4. collected' \subseteq collected \cup {id}
        BY <1>1 DEF Handed, Kept
      <4>5. QED
        BY <4>1, <4>2, <4>3, <4>4
    <3>2. ASSUME Kept(id, kind), kind # "pending"
          PROVE  resolution'[id] = kind /\ id \notin collected'
      BY <1>2, <3>2 DEF Kept, IInv, TypeOK
    <3>3. CASE Handed(id, kind)
      BY <1>1, <3>1, <3>3 DEF Handed
    <3>4. CASE Kept(id, kind)
      BY <1>1, <1>3, <1>5, <3>1, <3>2, <3>4
    <3>5. QED
      BY <1>1, <3>3, <3>4
  <2>4. QED
    BY <2>1, <2>2, <2>3 DEF BufferInv
<1>9. HistoryInv'
  <2>1. \A x \in RequestIds : resolution'[x] # NoOutcome => x \in issued' \ outbound'
    BY <1>2 DEF IInv, TypeOK, HistoryInv
  <2>2. \A x \in collected' : resolution'[x] # NoOutcome
    <3>1. kind \in TerminalKinds => kind # NoOutcome /\ kind # "pending"
      BY DEF TerminalKinds, NoOutcome
    <3>2. \A x \in collected : resolution'[x] # NoOutcome
      BY <1>2 DEF IInv, TypeOK, HistoryInv
    <3>3. kind \in TerminalKinds => resolution'[id] # NoOutcome
      BY <3>1, <1>2 DEF IInv, TypeOK
    <3>4. QED
      BY <1>1, <3>2, <3>3 DEF Handed, Kept
  <2>3. QED
    BY <2>1, <2>2 DEF HistoryInv
<1>10. OutcomeKept'
  <2>1. SUFFICES ASSUME NEW x \in RequestIds, resolution'[x] # NoOutcome
                 PROVE  x \in collected' <=> ~\E b \in buffered' : b.id = x /\ b.kind = resolution'[x]
    BY DEF OutcomeKept
  <2>2. CASE x # id
    <3>1. resolution'[x] = resolution[x]
      BY <2>2, <1>2 DEF IInv, TypeOK
    <3>2. x \in collected' <=> x \in collected
      BY <2>2, <1>1 DEF Handed, Kept
    <3>3. (\E b \in buffered' : b.id = x /\ b.kind = resolution[x])
            <=> (\E b \in buffered : b.id = x /\ b.kind = resolution[x])
      BY <1>1, <1>3, <1>4, <2>2 DEF Handed, Kept, BufferedFor
    <3>4. x \in collected <=> ~\E b \in buffered : b.id = x /\ b.kind = resolution[x]
      BY <2>1, <3>1 DEF IInv, OutcomeKept
    <3>5. QED
      BY <3>1, <3>2, <3>3, <3>4
  <2>3. CASE x = id
    <3>1. kind # "pending" /\ resolution'[id] = kind /\ kind \in TerminalKinds
      BY <2>1, <2>3, <1>2 DEF IInv, TypeOK, OutcomeKinds
    <3>2. CASE Handed(id, kind)
      BY <1>1, <1>4, <2>3, <3>1, <3>2 DEF Handed
    <3>3. CASE Kept(id, kind)
      <4>1. id \notin collected'
        BY <1>2, <3>3 DEF Kept
      <4>2. \E b \in buffered' : b.id = id /\ b.kind = kind
        BY <1>3, <3>3 DEF Kept
      <4>3. QED
        BY <2>3, <3>1, <4>1, <4>2
    <3>4. QED
      BY <1>1, <3>2, <3>3
  <2>4. QED
    BY <2>2, <2>3
<1>11. NoSupersededNotice'
  BY <1>2, <1>3, <1>4, <1>5 DEF IInv, TypeOK, NoSupersededNotice
<1>12. NoCallerParkedPastOutcome'
  <2>1. CASE Handed(id, kind)
    BY <1>1, <1>4, <2>1 DEF IInv, NoCallerParkedPastOutcome, Handed
  <2>2. CASE Kept(id, kind)
    BY <1>1, <1>3, <1>4, <2>2 DEF IInv, NoCallerParkedPastOutcome, Kept
  <2>3. QED
    BY <1>1, <2>1, <2>2
<1>13. QED
  BY <1>6, <1>7, <1>8, <1>9, <1>10, <1>11, <1>12

-----------------------------------------------------------------------------
(* The ring of tombstones never outgrows its limit.                         *)
LEMMA SetTerminalType ==
  ASSUME TypeOK, NEW id \in issued, SetTerminal(id)
  PROVE  /\ terminal' \subseteq terminal \cup {id}
         /\ tombstoneOrder' \in Seq(RequestIds)
         /\ Len(tombstoneOrder') <= MaxTombstones
<1> DEFINE order == Append(tombstoneOrder, id)
<1>1. /\ order \in Seq(RequestIds)
      /\ Len(order) = Len(tombstoneOrder) + 1
      /\ Len(tombstoneOrder) \in Nat
      /\ Len(tombstoneOrder) <= MaxTombstones
  BY AppendProperties, LenProperties DEF TypeOK
<1>2. CASE Len(order) > MaxTombstones
  <2>1. order # <<>>
    BY <1>1, EmptySeq
  <2>2. Tail(order) \in Seq(RequestIds) /\ Len(Tail(order)) = Len(order) - 1
    BY <1>1, <2>1, HeadTailProperties
  <2>3. QED
    BY <1>1, <1>2, <2>2 DEF SetTerminal
<1>3. CASE ~(Len(order) > MaxTombstones)
  BY <1>1, <1>3, RegistryAssumption DEF SetTerminal
<1>4. QED
  BY <1>2, <1>3

(* A step that leaves the buffer, the callers and the outcomes alone, claims *)
(* nothing and forgets only requests whose notice did not go out.            *)
LEMMA QuietPreserves ==
  ASSUME IInv, UNCHANGED <<buffer, resolution, collected>>, issued \subseteq issued',
         Claimed' \subseteq Claimed, outbound' \subseteq outbound,
         pendingPublished \cap outbound' \subseteq pendingPublished',
         \A b \in buffered : b.id \notin exactWaiters',
         waiter' => buffered = {} /\ exactWaiters' = {}
  PROVE  /\ CapacityInv' /\ BufferInv' /\ HistoryInv'
         /\ OutcomeKept' /\ NoSupersededNotice' /\ NoCallerParkedPastOutcome'
<1>1. buffered' = buffered /\ resolution' = resolution /\ collected' = collected
  BY DEF buffer
<1>2. CapacityInv'
  BY CapacityShrinks DEF IInv
<1>3. BufferInv'
  BY <1>1 DEF IInv, BufferInv
<1>4. HistoryInv'
  BY <1>1 DEF IInv, HistoryInv
<1>5. OutcomeKept' /\ NoSupersededNotice'
  BY <1>1 DEF IInv, OutcomeKept, NoSupersededNotice
<1>6. NoCallerParkedPastOutcome'
  BY <1>1, Zenon DEF NoCallerParkedPastOutcome
<1>7. QED
  BY <1>2, <1>3, <1>4, <1>5, <1>6

(* Registration claims one identifier more, and only if that fits.          *)
LEMMA RegisterPreserves ==
  ASSUME IInv, NEW id \in RequestIds, RegisterOutbound(id)
  PROVE  IInv'
<1>1. /\ outbound' = outbound \cup {id} /\ issued' = issued \cup {id}
      /\ id \notin issued
      /\ UNCHANGED <<accepted, idleArmed, pendingPublished, tombstones, buffer, waiters,
                     resolution, collected>>
  BY DEF RegisterOutbound
<1>2. /\ buffered' = buffered /\ sequence' = sequence
      /\ terminal' = terminal /\ tombstoneOrder' = tombstoneOrder
      /\ waiter' = waiter /\ exactWaiters' = exactWaiters
      /\ resolution' = resolution /\ collected' = collected
  BY <1>1 DEF buffer, tombstones, waiters
<1>3. \A b \in buffered : b.id \in issued
  BY DEF IInv, TypeOK
<1>4. TypeOK'
  <2>1. buffered \subseteq [sequence : Nat, id : issued', kind : OutcomeKinds]
    BY <1>1 DEF IInv, TypeOK
  <2>2. terminal \subseteq issued' \ outbound'
    BY <1>1 DEF IInv, TypeOK
  <2>3. QED
    BY <1>1, <1>2, <2>1, <2>2 DEF IInv, TypeOK
<1>5. CapacityInv'
  <2>1. IsFiniteSet(Claimed) /\ IsFiniteSet(outbound) /\ IsFiniteSet(buffered)
    <3>1. IsFiniteSet(Claimed) /\ outbound \subseteq Claimed
      BY DEF IInv, CapacityInv, Claimed
    <3>2. \A b \in buffered : b.id \in Claimed
      BY DEF Claimed, IdsOf
    <3>3. QED
      BY <3>1, <3>2, FS_Subset, EntriesInject DEF IInv, BufferInv
  <2>2. /\ IsFiniteSet(IdsOf(buffered))
        /\ Cardinality(IdsOf(buffered)) <= Cardinality(buffered)
    BY <2>1, IdsCount
  <2>3. Cardinality(Claimed) <= Cardinality(IdsOf(buffered)) + Cardinality(outbound)
    BY <2>1, <2>2, UnionBound DEF Claimed
  <2>4. Cardinality(Claimed) < MaxBuffered
    BY <2>1, <2>2, <2>3, FS_CardinalityType, RegistryAssumption DEF RegisterOutbound
  <2>5. Claimed' = Claimed \cup {id} /\ id \notin Claimed
    BY <1>1, <1>2, <1>3 DEF Claimed, IdsOf, IInv, TypeOK
  <2>6. IsFiniteSet(Claimed') /\ Cardinality(Claimed') = Cardinality(Claimed) + 1
    BY <2>1, <2>5, FS_AddElement
  <2>7. QED
    BY <2>1, <2>4, <2>6, FS_CardinalityType, RegistryAssumption DEF CapacityInv
<1>6. BufferInv' /\ HistoryInv'
  BY <1>1, <1>2, <1>3 DEF IInv, BufferInv, HistoryInv
<1>7. OutcomeKept' /\ NoSupersededNotice'
  BY <1>2 DEF IInv, OutcomeKept, NoSupersededNotice
<1>8. NoCallerParkedPastOutcome'
  BY <1>2, Zenon DEF IInv, NoCallerParkedPastOutcome
<1>9. QED
  BY <1>4, <1>5, <1>6, <1>7, <1>8 DEF IInv

(* A request that leaves the live ones closed or withdrawn takes its flags   *)
(* with it.                                                                  *)
LEMMA ForgetType ==
  ASSUME TypeOK, NEW id \in RequestIds, Forget(id), issued' = issued
  PROVE  /\ outbound' \subseteq issued' /\ accepted' \subseteq outbound'
         /\ idleArmed' \subseteq accepted' /\ pendingPublished' \subseteq idleArmed'
         /\ id \notin outbound' /\ outbound' \subseteq outbound
         /\ pendingPublished \cap outbound' = pendingPublished'
BY DEF TypeOK, Forget

LEMMA WithdrawPreserves ==
  ASSUME IInv, NEW id \in outbound, Forget(id),
         UNCHANGED <<tombstones, buffer, waiters, history>>
  PROVE  IInv'
<1>1. /\ buffered' = buffered /\ sequence' = sequence
      /\ terminal' = terminal /\ tombstoneOrder' = tombstoneOrder
      /\ waiter' = waiter /\ exactWaiters' = exactWaiters
      /\ issued' = issued /\ resolution' = resolution /\ collected' = collected
  BY DEF buffer, tombstones, waiters, history
<1>2. id \in RequestIds
  BY DEF IInv, TypeOK
<1>3. /\ outbound' \subseteq issued' /\ accepted' \subseteq outbound'
      /\ idleArmed' \subseteq accepted' /\ pendingPublished' \subseteq idleArmed'
      /\ outbound' \subseteq outbound
      /\ pendingPublished \cap outbound' = pendingPublished'
  BY <1>1, <1>2, ForgetType DEF IInv
<1>4. TypeOK'
  BY <1>1, <1>3 DEF IInv, TypeOK
<1>5. Claimed' \subseteq Claimed
  BY <1>1, <1>3 DEF Claimed
<1>6. /\ \A b \in buffered : b.id \notin exactWaiters'
      /\ waiter' => buffered = {} /\ exactWaiters' = {}
  BY <1>1, Zenon DEF IInv, NoCallerParkedPastOutcome
<1>7. /\ CapacityInv' /\ BufferInv' /\ HistoryInv'
      /\ OutcomeKept' /\ NoSupersededNotice' /\ NoCallerParkedPastOutcome'
  BY <1>1, <1>3, <1>5, <1>6, QuietPreserves
<1>8. QED
  BY <1>4, <1>7 DEF IInv

(* Closing a request with a terminal outcome.                               *)
LEMMA ClosePreserves ==
  ASSUME IInv, NEW id \in outbound, NEW kind \in TerminalKinds, Close(id, kind)
  PROVE  IInv'
<1>1. /\ Forget(id) /\ SetTerminal(id) /\ Publish(id, kind)
      /\ issued' = issued
      /\ resolution' = [resolution EXCEPT ![id] = kind]
  BY DEF Close
<1>2. kind \in OutcomeKinds /\ kind # "pending" /\ id \in issued /\ id \in RequestIds
  BY DEF TerminalKinds, OutcomeKinds, IInv, TypeOK
<1>3. outbound' = outbound \ {id} /\ pendingPublished' = pendingPublished \ {id}
  BY <1>1 DEF Forget
<1>4. /\ buffered' \subseteq [sequence : Nat, id : issued, kind : OutcomeKinds]
      /\ sequence' \in Nat
      /\ waiter' \in BOOLEAN /\ exactWaiters' \subseteq issued
      /\ resolution' \in [RequestIds -> TerminalKinds \cup {NoOutcome}]
      /\ collected' \subseteq issued
      /\ CapacityInv' /\ BufferInv' /\ HistoryInv'
      /\ OutcomeKept' /\ NoSupersededNotice' /\ NoCallerParkedPastOutcome'
  BY <1>1, <1>2, <1>3, PublishPreserves
<1>5. /\ terminal' \subseteq terminal \cup {id}
      /\ tombstoneOrder' \in Seq(RequestIds)
      /\ Len(tombstoneOrder') <= MaxTombstones
  BY <1>1, <1>2, SetTerminalType DEF IInv
<1>6. /\ outbound' \subseteq issued' /\ accepted' \subseteq outbound'
      /\ idleArmed' \subseteq accepted' /\ pendingPublished' \subseteq idleArmed'
  BY <1>1, <1>2, ForgetType DEF IInv
<1>7. terminal' \subseteq issued' \ outbound'
  BY <1>1, <1>2, <1>3, <1>5 DEF IInv, TypeOK
<1>8. TypeOK'
  <2>1. issued' \subseteq RequestIds
    BY <1>1 DEF IInv, TypeOK
  <2>2. QED
    BY <1>1, <1>4, <1>5, <1>6, <1>7, <2>1 DEF TypeOK
<1>9. QED
  BY <1>4, <1>8 DEF IInv

LEMMA PendingAfterIdlePreserves ==
  ASSUME IInv, NEW id \in RequestIds, ResolvePendingAfterIdle(id)
  PROVE  IInv'
<1>1. /\ id \in accepted /\ id \in idleArmed /\ id \notin pendingPublished
      /\ pendingPublished' = pendingPublished \cup {id}
      /\ Publish(id, "pending")
      /\ UNCHANGED <<outbound, accepted, idleArmed, tombstones, issued, resolution>>
  BY DEF ResolvePendingAfterIdle
<1>2. id \in outbound /\ "pending" \in OutcomeKinds
  BY <1>1 DEF IInv, TypeOK, OutcomeKinds
<1>3. /\ buffered' \subseteq [sequence : Nat, id : issued, kind : OutcomeKinds]
      /\ sequence' \in Nat
      /\ waiter' \in BOOLEAN /\ exactWaiters' \subseteq issued
      /\ resolution' \in [RequestIds -> TerminalKinds \cup {NoOutcome}]
      /\ collected' \subseteq issued
      /\ CapacityInv' /\ BufferInv' /\ HistoryInv'
      /\ OutcomeKept' /\ NoSupersededNotice' /\ NoCallerParkedPastOutcome'
  BY <1>1, <1>2, PublishPreserves
<1>4. TypeOK'
  BY <1>1, <1>3 DEF IInv, TypeOK, tombstones
<1>5. QED
  BY <1>3, <1>4 DEF IInv

(* Taking a buffered outcome hands it to the caller and nobody else.        *)
LEMMA TakePreserves ==
  ASSUME IInv, NEW entry \in buffered, Take(entry)
  PROVE  IInv'
<1>1. /\ buffered' = buffered \ {entry} /\ sequence' = sequence
      /\ outbound' = outbound /\ accepted' = accepted
      /\ idleArmed' = idleArmed /\ pendingPublished' = pendingPublished
      /\ terminal' = terminal /\ tombstoneOrder' = tombstoneOrder
      /\ waiter' = waiter /\ exactWaiters' = exactWaiters
      /\ issued' = issued /\ resolution' = resolution
  BY DEF Take, requests, tombstones, waiters
<1>2. collected' = IF entry.kind \in TerminalKinds THEN collected \cup {entry.id} ELSE collected
  BY DEF Take
<1>3. entry.id \in issued /\ entry.id \in RequestIds /\ entry.kind \in OutcomeKinds
  BY DEF IInv, TypeOK
<1>4. TypeOK'
  BY <1>1, <1>2, <1>3 DEF IInv, TypeOK
<1>5. CapacityInv'
  <2>1. Claimed' \subseteq Claimed
    BY <1>1 DEF Claimed, IdsOf
  <2>2. QED
    BY <2>1, CapacityShrinks DEF IInv
<1>6. \A b \in buffered' : b \in buffered /\ b.id # entry.id
  BY <1>1 DEF IInv, BufferInv
<1>7. BufferInv'
  BY <1>1, <1>2, <1>6 DEF IInv, BufferInv
<1>8. entry.kind \in TerminalKinds =>
        entry.kind # "pending" /\ entry.kind # NoOutcome /\ resolution[entry.id] = entry.kind
  BY DEF IInv, BufferInv, TerminalKinds, NoOutcome
<1>9. HistoryInv'
  BY <1>1, <1>2, <1>8 DEF IInv, HistoryInv
<1>10. OutcomeKept'
  <2>1. SUFFICES ASSUME NEW x \in RequestIds, resolution[x] # NoOutcome
                 PROVE  x \in collected' <=> ~\E b \in buffered' : b.id = x /\ b.kind = resolution[x]
    BY <1>1 DEF OutcomeKept
  <2>2. x \in collected <=> ~\E b \in buffered : b.id = x /\ b.kind = resolution[x]
    BY <2>1 DEF IInv, OutcomeKept
  <2>3. CASE x # entry.id
    BY <1>1, <1>2, <2>2, <2>3
  <2>4. CASE x = entry.id /\ entry.kind \in TerminalKinds
    BY <1>2, <1>6, <2>4
  <2>5. CASE x = entry.id /\ entry.kind \notin TerminalKinds
    <3>1. resolution[x] # entry.kind
      BY <2>1, <2>5 DEF IInv, TypeOK
    <3>2. QED
      BY <1>1, <1>2, <2>2, <2>5, <3>1
  <2>6. QED
    BY <2>3, <2>4, <2>5
<1>11. NoSupersededNotice'
  BY <1>1, <1>6 DEF IInv, NoSupersededNotice
<1>12. NoCallerParkedPastOutcome'
  <2>1. \A b \in buffered' : b.id \notin exactWaiters'
    BY <1>1, <1>6 DEF IInv, NoCallerParkedPastOutcome
  <2>2. ~waiter
    BY DEF IInv, NoCallerParkedPastOutcome
  <2>3. ~waiter'
    BY <1>1, <2>2, Zenon
  <2>4. QED
    BY <2>1, <2>3 DEF NoCallerParkedPastOutcome
<1>13. QED
  BY <1>4, <1>5, <1>7, <1>9, <1>10, <1>11, <1>12 DEF IInv

(* A step on the flags of a live request.                                   *)
LEMMA FlagPreserves ==
  ASSUME IInv, UNCHANGED <<outbound, pendingPublished, tombstones, buffer, waiters, history>>,
         accepted \subseteq accepted', idleArmed \subseteq idleArmed',
         accepted' \subseteq outbound, idleArmed' \subseteq accepted'
  PROVE  IInv'
<1>1. /\ buffered' = buffered /\ sequence' = sequence
      /\ terminal' = terminal /\ tombstoneOrder' = tombstoneOrder
      /\ waiter' = waiter /\ exactWaiters' = exactWaiters
      /\ issued' = issued /\ resolution' = resolution /\ collected' = collected
      /\ outbound' = outbound /\ pendingPublished' = pendingPublished
  BY DEF buffer, tombstones, waiters, history
<1>2. TypeOK'
  BY <1>1 DEF IInv, TypeOK
<1>3. Claimed' = Claimed
  BY <1>1 DEF Claimed
<1>4. /\ \A b \in buffered : b.id \notin exactWaiters'
      /\ waiter' => buffered = {} /\ exactWaiters' = {}
  BY <1>1, Zenon DEF IInv, NoCallerParkedPastOutcome
<1>5. /\ CapacityInv' /\ BufferInv' /\ HistoryInv'
      /\ OutcomeKept' /\ NoSupersededNotice' /\ NoCallerParkedPastOutcome'
  BY <1>1, <1>3, <1>4, QuietPreserves
<1>6. QED
  BY <1>2, <1>5 DEF IInv

(* Parking a caller, or letting it go.                                      *)
LEMMA ParkPreserves ==
  ASSUME IInv, NEW exact \in SUBSET issued, NEW any \in BOOLEAN, Park(exact, any),
         \A b \in buffered : b.id \notin exact,
         any => buffered = {} /\ exact = {}
  PROVE  IInv'
<1>1. /\ buffered' = buffered /\ sequence' = sequence
      /\ outbound' = outbound /\ accepted' = accepted
      /\ idleArmed' = idleArmed /\ pendingPublished' = pendingPublished
      /\ terminal' = terminal /\ tombstoneOrder' = tombstoneOrder
      /\ issued' = issued /\ resolution' = resolution /\ collected' = collected
  BY DEF Park, requests, tombstones, buffer, history
<1>2. exactWaiters' = exact /\ waiter' = any
  BY DEF Park
<1>3. waiter' \in BOOLEAN
  BY <1>2, Zenon
<1>4. TypeOK'
  BY <1>1, <1>2, <1>3 DEF IInv, TypeOK
<1>5. Claimed' = Claimed
  BY <1>1 DEF Claimed
<1>6. /\ \A b \in buffered : b.id \notin exactWaiters'
      /\ waiter' => buffered = {} /\ exactWaiters' = {}
  BY <1>2, Zenon
<1>7. /\ CapacityInv' /\ BufferInv' /\ HistoryInv'
      /\ OutcomeKept' /\ NoSupersededNotice' /\ NoCallerParkedPastOutcome'
  BY <1>1, <1>5, <1>6, QuietPreserves DEF buffer
<1>8. QED
  BY <1>4, <1>7 DEF IInv

LEMMA WaitPreserves ==
  ASSUME IInv,
         \/ \E id \in RequestIds : WaitForRequest(id) \/ CancelRequestWait(id)
         \/ WaitForUpdate
         \/ CancelUpdateWait
  PROVE  IInv'
<1>1. waiter \in BOOLEAN /\ outbound \subseteq issued /\ exactWaiters \subseteq issued
  BY DEF IInv, TypeOK
<1>2. /\ \A b \in buffered : b.id \notin exactWaiters
      /\ waiter => buffered = {} /\ exactWaiters = {}
  BY DEF IInv, NoCallerParkedPastOutcome
<1>3. ASSUME NEW id \in RequestIds, WaitForRequest(id) PROVE IInv'
  <2>1. CASE \E b \in Oldest(BufferedFor(id)) : Take(b)
    BY <2>1, TakePreserves DEF Oldest, BufferedFor
  <2>2. CASE /\ BufferedFor(id) = {} /\ id \in outbound /\ ~waiter
             /\ Park(exactWaiters \cup {id}, waiter)
    <3>1. \A b \in buffered : b.id \notin exactWaiters \cup {id}
      BY <1>2, <2>2 DEF BufferedFor
    <3>2. exactWaiters \cup {id} \in SUBSET issued
      BY <1>1, <2>2
    <3>3. QED
      BY <1>1, <2>2, <3>1, <3>2, ParkPreserves
  <2>3. QED
    BY <1>3, <2>1, <2>2 DEF WaitForRequest
<1>4. ASSUME NEW id \in RequestIds, CancelRequestWait(id) PROVE IInv'
  <2>1. Park(exactWaiters \ {id}, waiter)
    BY <1>4 DEF CancelRequestWait
  <2>2. /\ \A b \in buffered : b.id \notin exactWaiters \ {id}
        /\ exactWaiters \ {id} \in SUBSET issued
    BY <1>1, <1>2
  <2>3. waiter => buffered = {} /\ exactWaiters \ {id} = {}
    BY <1>2
  <2>4. QED
    BY <1>1, <2>1, <2>2, <2>3, ParkPreserves
<1>5. ASSUME WaitForUpdate PROVE IInv'
  <2>1. CASE \E b \in Oldest(buffered) : Take(b)
    BY <2>1, TakePreserves DEF Oldest
  <2>2. CASE buffered = {} /\ exactWaiters = {} /\ Park(exactWaiters, TRUE)
    BY <1>1, <2>2, ParkPreserves
  <2>3. QED
    BY <1>5, <2>1, <2>2 DEF WaitForUpdate
<1>6. ASSUME CancelUpdateWait PROVE IInv'
  BY <1>1, <1>2, <1>6, ParkPreserves DEF CancelUpdateWait
<1>7. QED
  BY <1>3, <1>4, <1>5, <1>6

-----------------------------------------------------------------------------
(* The inductive invariant holds of every behaviour.                        *)
LEMMA Initially == Init => IInv
<1>1. SUFFICES ASSUME Init PROVE IInv
  OBVIOUS
<1>2. /\ outbound = {} /\ buffered = {} /\ issued = {} /\ collected = {}
      /\ exactWaiters = {} /\ ~waiter
      /\ \A id \in RequestIds : resolution[id] = NoOutcome
  BY <1>1 DEF Init
<1>3. TypeOK
  <2>1. tombstoneOrder \in Seq(RequestIds) /\ Len(tombstoneOrder) <= MaxTombstones
    BY <1>1, RegistryAssumption DEF Init
  <2>2. resolution \in [RequestIds -> TerminalKinds \cup {NoOutcome}]
    BY <1>1 DEF Init
  <2>3. waiter \in BOOLEAN
    BY <1>1, Zenon DEF Init
  <2>4. /\ outbound = {} /\ accepted = {} /\ idleArmed = {} /\ pendingPublished = {}
        /\ terminal = {} /\ sequence \in Nat
    BY <1>1 DEF Init
  <2>5. QED
    BY <1>2, <2>1, <2>2, <2>3, <2>4 DEF TypeOK
<1>4. CapacityInv
  <2>1. Claimed = {}
    BY <1>2 DEF Claimed, IdsOf
  <2>2. QED
    BY <2>1, FS_EmptySet, RegistryAssumption DEF CapacityInv
<1>5. BufferInv /\ HistoryInv /\ OutcomeKept /\ NoSupersededNotice
  BY <1>2 DEF BufferInv, HistoryInv, OutcomeKept, NoSupersededNotice
<1>6. NoCallerParkedPastOutcome
  BY <1>2 DEF NoCallerParkedPastOutcome
<1>7. QED
  BY <1>3, <1>4, <1>5, <1>6 DEF IInv

LEMMA StepPreserves == IInv /\ [Next]_vars => IInv'
<1>1. SUFFICES ASSUME IInv, [Next]_vars PROVE IInv'
  OBVIOUS
<1>2. ASSUME NEW id \in RequestIds, RegisterOutbound(id) PROVE IInv'
  BY <1>1, <1>2, RegisterPreserves
<1>3. ASSUME NEW id \in RequestIds, AcceptOutbound(id) \/ ArmOutboundIdle(id) PROVE IInv'
  <2>1. /\ UNCHANGED <<outbound, pendingPublished, tombstones, buffer, waiters, history>>
        /\ accepted \subseteq accepted' /\ idleArmed \subseteq idleArmed'
        /\ accepted' \subseteq outbound /\ idleArmed' \subseteq accepted'
    BY <1>1, <1>3 DEF AcceptOutbound, ArmOutboundIdle, IInv, TypeOK
  <2>2. QED
    BY <1>1, <2>1, FlagPreserves
<1>4. ASSUME NEW id \in RequestIds, FailBeforeAcceptance(id) \/ CloseOutcomeUnknown(id)
      PROVE  IInv'
  BY <1>1, <1>4, WithdrawPreserves DEF FailBeforeAcceptance, CloseOutcomeUnknown
<1>5. ASSUME NEW id \in RequestIds,
             ResolveResponse(id) \/ ResolveOffline(id) \/ ResolveTimeout(id)
      PROVE  IInv'
  <2>1. accepted \subseteq outbound
    BY <1>1 DEF IInv, TypeOK
  <2>2. QED
    BY <1>1, <1>5, <2>1, ClosePreserves
    DEF ResolveResponse, ResolveOffline, ResolveTimeout, TerminalKinds
<1>6. ASSUME NEW id \in RequestIds, ResolvePendingAfterIdle(id) PROVE IInv'
  BY <1>1, <1>6, PendingAfterIdlePreserves
<1>7. ASSUME \/ \E id \in RequestIds : WaitForRequest(id) \/ CancelRequestWait(id)
             \/ WaitForUpdate
             \/ CancelUpdateWait
      PROVE  IInv'
  BY <1>1, <1>7, WaitPreserves
<1>8. CASE UNCHANGED vars
  <2>1. Claimed' = Claimed /\ BufferInv' = BufferInv
    BY <1>8 DEF vars, requests, tombstones, buffer, waiters, history, Claimed, BufferInv
  <2>2. CapacityInv'
    BY <1>1, <2>1, CapacityShrinks DEF IInv
  <2>3. TypeOK'
    BY <1>1, <1>8 DEF IInv, TypeOK, vars, requests, tombstones, buffer, waiters, history
  <2>4. /\ HistoryInv' /\ OutcomeKept' /\ NoSupersededNotice'
    BY <1>1, <1>8 DEF IInv, HistoryInv, OutcomeKept, NoSupersededNotice,
       vars, requests, tombstones, buffer, waiters, history
  <2>5. NoCallerParkedPastOutcome'
    BY <1>1, <1>8, Zenon DEF IInv, NoCallerParkedPastOutcome, vars, buffer, waiters
  <2>6. BufferInv'
    BY <1>1, <2>1 DEF IInv
  <2>7. QED
    BY <2>2, <2>3, <2>4, <2>5, <2>6 DEF IInv
<1>9. QED
  BY <1>1, <1>2, <1>3, <1>4, <1>5, <1>6, <1>7, <1>8 DEF Next

THEOREM Invariance == Spec => []IInv
BY Initially, StepPreserves, PTL DEF Spec

(* Every variable keeps its type: a request flagged accepted is live, one   *)
(* flagged idle is accepted, a tombstone is never live, and the ring of     *)
(* tombstones stays within its limit (the fields of RequestOutcomeRegistry).*)
THEOREM TypeCorrect == Spec => []TypeOK
<1>1. IInv => TypeOK
  BY DEF IInv
<1>2. QED
  BY <1>1, Invariance, PTL

(* Whatever the limits, publish always finds room: its last branch, which   *)
(* drops an outcome without a trace when the buffer is full, is dead code.  *)
THEOREM NoOutcomeDropped == Spec => []RoomForEveryOutcome
BY RoomForEveryOutcomeFollows, Invariance, PTL

(* The terminal outcome of a closed request is with a caller or still in    *)
(* the buffer, in exactly one of the two, however long ago it was closed.   *)
THEOREM OutcomesAreKept == Spec => []OutcomeKept
<1>1. IInv => OutcomeKept
  BY DEF IInv
<1>2. QED
  BY <1>1, Invariance, PTL

(* The buffer never serves a pending-after-idle notice of a closed request, *)
(* because publish removes it when the terminal outcome arrives.            *)
THEOREM NoticesAreCurrent == Spec => []NoSupersededNotice
<1>1. IInv => NoSupersededNotice
  BY DEF IInv
<1>2. QED
  BY <1>1, Invariance, PTL

(* No caller of waitForRequest or waitForUpdate stays parked while the      *)
(* outcome it asked for lies in the buffer.                                 *)
THEOREM CallersAreServed == Spec => []NoCallerParkedPastOutcome
<1>1. IInv => NoCallerParkedPastOutcome
  BY DEF IInv
<1>2. QED
  BY <1>1, Invariance, PTL

-----------------------------------------------------------------------------
(* The registry implements RequestPromise: buffering, parking and tombstones *)
(* are invisible, and each remaining step is one of the promise's.           *)
LEMMA CloseResolves ==
  ASSUME IInv, NEW id \in outbound, NEW kind \in TerminalKinds, Close(id, kind)
  PROVE  Promise!Resolve(id, kind)
<1>1. Publish(id, kind) /\ kind \in OutcomeKinds /\ kind # "pending"
  BY DEF Close, OutcomeKinds, TerminalKinds
<1>2. collected' \in {collected, collected \cup {id}}
  BY <1>1, PublishNeverDrops DEF Handed, Kept
<1>3. resolution[id] = NoOutcome
  BY DEF IInv, HistoryInv, TypeOK
<1>4. QED
  BY <1>2, <1>3 DEF Close, Forget, Promise!Resolve

LEMMA TakeCollects ==
  ASSUME IInv, NEW entry \in buffered, Take(entry)
  PROVE  \/ \E id \in RequestIds : Promise!Collect(id)
         \/ UNCHANGED Promise!vars
<1>1. /\ outbound' = outbound /\ issued' = issued /\ resolution' = resolution
      /\ collected' = IF entry.kind \in TerminalKinds
                        THEN collected \cup {entry.id} ELSE collected
  BY DEF Take, requests
<1>2. CASE entry.kind \in TerminalKinds
  <2>1. entry.id \in RequestIds
    BY DEF IInv, TypeOK
  <2>2. resolution[entry.id] # NoOutcome /\ entry.id \notin collected
    BY <1>2 DEF IInv, BufferInv, TerminalKinds, NoOutcome
  <2>3. QED
    BY <1>1, <1>2, <2>1, <2>2 DEF Promise!Collect
<1>3. CASE entry.kind \notin TerminalKinds
  BY <1>1, <1>3 DEF Promise!vars
<1>4. QED
  BY <1>2, <1>3

LEMMA StepKeepsPromise == IInv /\ [Next]_vars => [Promise!Next]_(Promise!vars)
<1>1. SUFFICES ASSUME IInv, [Next]_vars PROVE Promise!Next \/ UNCHANGED Promise!vars
  OBVIOUS
<1>2. ASSUME NEW id \in RequestIds, RegisterOutbound(id) PROVE Promise!Next
  <2>1. Promise!Open(id)
    BY <1>2 DEF RegisterOutbound, Promise!Open
  <2>2. QED
    BY <2>1 DEF Promise!Next
<1>3. ASSUME NEW id \in RequestIds, AcceptOutbound(id) \/ ArmOutboundIdle(id)
      PROVE  UNCHANGED Promise!vars
  BY <1>3 DEF AcceptOutbound, ArmOutboundIdle, history, Promise!vars
<1>4. ASSUME NEW id \in RequestIds, FailBeforeAcceptance(id) \/ CloseOutcomeUnknown(id)
      PROVE  Promise!Next
  <2>1. Promise!Withdraw(id)
    BY <1>4 DEF FailBeforeAcceptance, CloseOutcomeUnknown, Forget, history,
         Promise!Withdraw
  <2>2. QED
    BY <2>1 DEF Promise!Next
<1>5. ASSUME NEW id \in RequestIds,
             ResolveResponse(id) \/ ResolveOffline(id) \/ ResolveTimeout(id)
      PROVE  Promise!Next
  <2>1. \E kind \in TerminalKinds : id \in outbound /\ Close(id, kind)
    BY <1>1, <1>5
    DEF ResolveResponse, ResolveOffline, ResolveTimeout, TerminalKinds, IInv, TypeOK
  <2>2. \E kind \in TerminalKinds : Promise!Resolve(id, kind)
    BY <1>1, <2>1, CloseResolves
  <2>3. QED
    BY <2>2 DEF Promise!Next
<1>6. ASSUME NEW id \in RequestIds, ResolvePendingAfterIdle(id)
      PROVE  UNCHANGED Promise!vars
  <2>1. Publish(id, "pending") /\ id \in outbound /\ "pending" \in OutcomeKinds
        /\ id \notin pendingPublished
    BY <1>1, <1>6 DEF ResolvePendingAfterIdle, IInv, TypeOK, OutcomeKinds
  <2>2. "pending" \notin TerminalKinds
    BY DEF TerminalKinds
  <2>3. collected' = collected
    BY <1>1, <2>1, <2>2, PublishNeverDrops DEF Handed, Kept
  <2>4. QED
    BY <1>6, <2>3 DEF ResolvePendingAfterIdle, Promise!vars
<1>7. ASSUME NEW id \in RequestIds, WaitForRequest(id)
      PROVE  Promise!Next \/ UNCHANGED Promise!vars
  <2>1. CASE \E b \in Oldest(BufferedFor(id)) : Take(b)
    BY <1>1, <2>1, TakeCollects DEF Oldest, BufferedFor, Promise!Next
  <2>2. CASE Park(exactWaiters \cup {id}, waiter)
    BY <2>2 DEF Park, requests, history, Promise!vars
  <2>3. QED
    BY <1>7, <2>1, <2>2 DEF WaitForRequest
<1>8. ASSUME WaitForUpdate PROVE Promise!Next \/ UNCHANGED Promise!vars
  <2>1. CASE \E b \in Oldest(buffered) : Take(b)
    BY <1>1, <2>1, TakeCollects DEF Oldest, Promise!Next
  <2>2. CASE Park(exactWaiters, TRUE)
    BY <2>2 DEF Park, requests, history, Promise!vars
  <2>3. QED
    BY <1>8, <2>1, <2>2 DEF WaitForUpdate
<1>9. ASSUME CancelUpdateWait \/ \E id \in RequestIds : CancelRequestWait(id)
      PROVE  UNCHANGED Promise!vars
  BY <1>9 DEF CancelUpdateWait, CancelRequestWait, Park, requests, history, Promise!vars
<1>10. CASE UNCHANGED vars
  BY <1>10 DEF vars, requests, history, Promise!vars
<1>11. QED
  BY <1>1, <1>2, <1>3, <1>4, <1>5, <1>6, <1>7, <1>8, <1>9, <1>10 DEF Next

(* The registry keeps the promise: an open request is withdrawn without an  *)
(* outcome or reaches exactly one, which never changes and is handed to at  *)
(* most one caller.                                                         *)
THEOREM Refinement == Spec => PromiseKept
<1>1. Init => Promise!Init
  BY DEF Init, Promise!Init
<1>2. IInv /\ [Next]_vars => [Promise!Next]_(Promise!vars)
  BY StepKeepsPromise
<1>3. QED
  BY <1>1, <1>2, Invariance, PTL DEF Spec, PromiseKept, Promise!Spec

-----------------------------------------------------------------------------
(* The flow.                                                                *)

LEMMA StepRespectsRegistry == [FlowNext]_flowVars => [Next]_vars
<1>1. SUFFICES ASSUME [FlowNext]_flowVars PROVE Next \/ UNCHANGED vars
  OBVIOUS
<1>2. ASSUME NEW id \in RequestIds, SendMemberRequest(id) PROVE Next
  BY <1>2 DEF SendMemberRequest, Next
<1>3. ASSUME NEW id \in RequestIds, RequesterTask(id)
      PROVE  Next \/ UNCHANGED vars
  <2>1. CASE Dispatch(id) \/ ReadChunk(id) \/ AcceptLine(id)
    BY <2>1 DEF Dispatch, ReadChunk, AcceptLine
  <2>2. CASE RejectOpen(id) \/ RefuseLine(id)
    BY <2>2 DEF RejectOpen, RefuseLine, Next
  <2>3. CASE LostAcknowledgement(id)
    BY <2>3 DEF LostAcknowledgement, Next
  <2>4. CASE SocketEnd(id)
    BY <2>4 DEF SocketEnd, Next
  <2>5. CASE IdleLine(id)
    BY <2>5 DEF IdleLine, Next
  <2>6. CASE ResponseLine(id)
    BY <2>6 DEF ResponseLine, Next
  <2>7. CASE ContinueSend(id)
    BY <2>7 DEF ContinueSend, Next
  <2>8. QED
    BY <1>3, <2>1, <2>2, <2>3, <2>4, <2>5, <2>6, <2>7 DEF RequesterTask
<1>4. ASSUME NEW id \in RequestIds, HardTimeout(id) \/ GraceExpires(id) PROVE Next
  BY <1>4 DEF HardTimeout, GraceExpires, Next
<1>5. ASSUME NEW id \in RequestIds, WaitForRequestOutcomeById(id) \/ CancelWait(id)
      PROVE  Next
  BY <1>5 DEF WaitForRequestOutcomeById, CancelWait, Next
<1>6. ASSUME NEW id \in RequestIds,
             \/ AcceptInbound(id) \/ RefuseInbound(id)
             \/ RespondToMemberRequest(id) \/ RemoveInbound(id)
      PROVE  UNCHANGED vars
  BY <1>6 DEF AcceptInbound, RefuseInbound, RespondToMemberRequest, RemoveInbound
<1>7. CASE SettleAllInboundIdle \/ ResponderExit
  BY <1>7 DEF SettleAllInboundIdle, ResponderExit
<1>8. CASE UNCHANGED flowVars
  BY <1>8 DEF flowVars
<1>9. QED
  BY <1>1, <1>2, <1>3, <1>4, <1>5, <1>6, <1>7, <1>8 DEF FlowNext

(* Every behaviour of the flow is a behaviour of its registry: sockets,     *)
(* timers and the responder only decide which operation is called when.     *)
LEMMA FlowRefinesRegistry == FlowSpec => Spec
<1>1. FlowInit => Init
  BY DEF FlowInit
<1>2. QED
  BY <1>1, StepRespectsRegistry, PTL DEF FlowSpec, Spec

(* Under any socket and timer behaviour the outcome buffer has room: the    *)
(* flow never loses an outcome to publish's silent drop.                    *)
THEOREM FlowNeverDropsOutcomes == FlowSpec => []RoomForEveryOutcome
BY FlowRefinesRegistry, NoOutcomeDropped, PTL

(* The flow keeps the promise of RequestPromise to whoever waits.           *)
THEOREM FlowKeepsPromise == FlowSpec => PromiseKept
BY FlowRefinesRegistry, Refinement, PTL

-----------------------------------------------------------------------------
CallType == call \in [RequestIds -> {"unsent", "opening", "opened", "returned", "threw"}]
SocketHeld == \A id \in accepted : id \in closes \/ link[id] = "closed"
LinkType == link \in [RequestIds -> {"none", "dialing", "up", "closed"}]

FlowIInv ==
  /\ CallType /\ LinkType
  /\ TimersMatchRequests
  /\ CallAgreesWithRegistry
  /\ SocketReleased
  /\ SocketHeld

(* What a registry call does to the fields the flow's invariants look at.   *)
LEMMA ForgetEffect ==
  ASSUME TypeOK, NEW id \in RequestIds, Forget(id)
  PROVE  /\ outbound' = outbound \ {id} /\ accepted' = accepted \ {id}
         /\ idleArmed' \ pendingPublished' = (idleArmed \ pendingPublished) \ {id}
BY DEF Forget, TypeOK

(* Closing an accepted request: FinishRequest clears what belongs to it.    *)
LEMMA FinishPreserves ==
  ASSUME TypeOK, FlowIInv, NEW id \in accepted, NEW kind \in TerminalKinds,
         Close(id, kind), FinishRequest(id), call' = call
  PROVE  FlowIInv'
<1>1. id \in RequestIds /\ id \in outbound
  BY DEF TypeOK
<1>2. /\ outbound' = outbound \ {id} /\ accepted' = accepted \ {id}
      /\ idleArmed' \ pendingPublished' = (idleArmed \ pendingPublished) \ {id}
      /\ resolution' = [resolution EXCEPT ![id] = kind]
  BY <1>1, ForgetEffect DEF Close
<1>3. /\ hardTimer' = hardTimer \ {id} /\ graceTimer' = graceTimer \ {id}
      /\ closes' = closes \ {id}
  BY DEF FinishRequest
<1>4. LinkType' /\ link'[id] = "closed" /\ \A x \in RequestIds \ {id} : link'[x] = link[x]
  BY <1>1 DEF FinishRequest, Shut, FlowIInv, SocketHeld, LinkType
<1>5. CallType' /\ TimersMatchRequests'
  BY <1>2, <1>3 DEF FlowIInv, CallType, TimersMatchRequests
<1>6. CallAgreesWithRegistry'
  <2>1. kind # "none"
    BY DEF TerminalKinds
  <2>2. call[id] \notin {"threw", "opening", "opened"}
    BY <1>1 DEF FlowIInv, CallAgreesWithRegistry
  <2>3. resolution' [id] = kind /\ \A x \in RequestIds \ {id} : resolution'[x] = resolution[x]
    BY <1>1, <1>2 DEF TypeOK
  <2>4. QED
    BY <1>2, <2>1, <2>2, <2>3 DEF FlowIInv, CallAgreesWithRegistry
<1>7. SocketReleased' /\ SocketHeld'
  BY <1>2, <1>3, <1>4 DEF FlowIInv, SocketReleased, SocketHeld, TypeOK
<1>8. QED
  BY <1>4, <1>5, <1>6, <1>7 DEF FlowIInv

(* Leaving the call by an exception withdraws the request and closes its    *)
(* socket.                                                                  *)
LEMMA ThrowPreserves ==
  ASSUME TypeOK, HistoryInv, FlowIInv, NEW id \in RequestIds,
         Throw(id), Forget(id), resolution' = resolution
  PROVE  FlowIInv'
<1>1. id \in outbound \ accepted
  BY DEF Throw, FlowIInv, CallAgreesWithRegistry
<1>2. /\ outbound' = outbound \ {id} /\ accepted' = accepted
      /\ idleArmed' \ pendingPublished' = (idleArmed \ pendingPublished) \ {id}
  BY <1>1, ForgetEffect
<1>3. /\ hardTimer' = hardTimer /\ graceTimer' = graceTimer \ {id} /\ closes' = closes
      /\ call' = [call EXCEPT ![id] = "threw"]
      /\ link' = [link EXCEPT ![id] = "closed"]
  BY DEF Throw, Shut
<1>4. CallType' /\ LinkType'
  BY <1>3 DEF FlowIInv, CallType, LinkType
<1>5. TimersMatchRequests'
  BY <1>2, <1>3 DEF FlowIInv, TimersMatchRequests
<1>6. CallAgreesWithRegistry'
  <2>1. resolution[id] = "none"
    BY <1>1 DEF HistoryInv, NoOutcome
  <2>2. QED
    BY <1>2, <1>3, <2>1 DEF FlowIInv, CallType, CallAgreesWithRegistry
<1>7. SocketReleased' /\ SocketHeld'
  BY <1>2, <1>3 DEF FlowIInv, CallType, LinkType, SocketReleased, SocketHeld, TypeOK
<1>8. QED
  BY <1>4, <1>5, <1>6, <1>7 DEF FlowIInv

(* Steps that change nothing the invariants look at.                        *)
LEMMA UntouchedPreserves ==
  ASSUME FlowIInv,
         UNCHANGED <<outbound, accepted, resolution, call, link, closes, hardTimer, graceTimer>>,
         idleArmed' \ pendingPublished' = idleArmed \ pendingPublished
  PROVE  FlowIInv'
BY DEF FlowIInv, CallType, LinkType, TimersMatchRequests, CallAgreesWithRegistry,
       SocketReleased, SocketHeld

LEMMA FlowInitially == FlowInit => FlowIInv
<1>1. SUFFICES ASSUME FlowInit PROVE FlowIInv
  OBVIOUS
<1>2. /\ call = [id \in RequestIds |-> "unsent"] /\ link = [id \in RequestIds |-> "none"]
      /\ hardTimer = {} /\ graceTimer = {} /\ accepted = {} /\ idleArmed = {}
  BY <1>1 DEF FlowInit, Init
<1>3. QED
  BY <1>2 DEF FlowIInv, CallType, LinkType, TimersMatchRequests, CallAgreesWithRegistry,
              SocketReleased, SocketHeld

LEMMA FlowStepPreserves == IInv /\ FlowIInv /\ [FlowNext]_flowVars => FlowIInv'
<1>1. SUFFICES ASSUME IInv, FlowIInv, [FlowNext]_flowVars PROVE FlowIInv'
  OBVIOUS
<1>2. TypeOK /\ HistoryInv
  BY <1>1 DEF IInv
<1>3. ASSUME NEW id \in RequestIds, SendMemberRequest(id) PROVE FlowIInv'
  <2>1. /\ outbound' = outbound \cup {id} /\ id \notin issued /\ resolution' = resolution
        /\ accepted' = accepted /\ idleArmed' = idleArmed
        /\ pendingPublished' = pendingPublished
        /\ call' = [call EXCEPT ![id] = "opening"]
        /\ link' = [link EXCEPT ![id] = "dialing"]
        /\ UNCHANGED <<closes, hardTimer, graceTimer>>
    BY <1>3 DEF SendMemberRequest, RegisterOutbound
  <2>2. id \notin accepted
    BY <1>2, <2>1 DEF TypeOK
  <2>3. CallType' /\ LinkType' /\ TimersMatchRequests'
    BY <1>1, <2>1 DEF FlowIInv, CallType, LinkType, TimersMatchRequests
  <2>4. CallAgreesWithRegistry' /\ SocketReleased'
    BY <1>1, <2>1, <2>2 DEF FlowIInv, CallType, LinkType, CallAgreesWithRegistry,
         SocketReleased
  <2>5. SocketHeld'
    BY <1>1, <1>2, <2>1, <2>2 DEF FlowIInv, LinkType, SocketHeld, TypeOK
  <2>6. QED
    BY <2>3, <2>4, <2>5 DEF FlowIInv
<1>4. ASSUME NEW id \in RequestIds, Dispatch(id) PROVE FlowIInv'
  <2>1. /\ UNCHANGED vars /\ UNCHANGED <<call, closes, hardTimer, graceTimer>>
        /\ link[id] = "dialing" /\ link' = [link EXCEPT ![id] = "up"]
    BY <1>4 DEF Dispatch
  <2>2. /\ outbound' = outbound /\ accepted' = accepted /\ resolution' = resolution
        /\ idleArmed' = idleArmed /\ pendingPublished' = pendingPublished
    BY <2>1 DEF vars, requests, history
  <2>3. CallType' /\ LinkType' /\ TimersMatchRequests' /\ CallAgreesWithRegistry'
    BY <1>1, <2>1, <2>2
    DEF FlowIInv, CallType, LinkType, TimersMatchRequests, CallAgreesWithRegistry
  <2>4. SocketReleased'
    BY <1>1, <2>1, <2>2 DEF FlowIInv, LinkType, SocketReleased
  <2>5. SocketHeld'
    BY <1>1, <1>2, <2>1, <2>2 DEF FlowIInv, LinkType, SocketHeld, TypeOK
  <2>6. QED
    BY <2>3, <2>4, <2>5 DEF FlowIInv
<1>5. ASSUME NEW id \in RequestIds, RejectOpen(id) \/ RefuseLine(id) \/ LostAcknowledgement(id)
      PROVE  FlowIInv'
  <2>1. Throw(id) /\ Forget(id) /\ UNCHANGED history
    BY <1>5 DEF RejectOpen, RefuseLine, LostAcknowledgement, FailBeforeAcceptance,
                CloseOutcomeUnknown
  <2>2. QED
    BY <1>1, <1>2, <2>1, ThrowPreserves DEF history
<1>6. ASSUME NEW id \in RequestIds, ReadChunk(id) PROVE FlowIInv'
  BY <1>1, <1>6, UntouchedPreserves DEF ReadChunk, vars, requests, history
<1>7. ASSUME NEW id \in RequestIds, AcceptLine(id) PROVE FlowIInv'
  <2>1. /\ UNCHANGED vars /\ UNCHANGED <<link, closes, hardTimer, graceTimer>>
        /\ call[id] = "opening" /\ call' = [call EXCEPT ![id] = "opened"]
    BY <1>7 DEF AcceptLine
  <2>2. /\ outbound' = outbound /\ accepted' = accepted /\ resolution' = resolution
        /\ idleArmed' = idleArmed /\ pendingPublished' = pendingPublished
    BY <2>1 DEF vars, requests, history
  <2>3. QED
    BY <1>1, <2>1, <2>2
    DEF FlowIInv, CallType, LinkType, TimersMatchRequests, CallAgreesWithRegistry,
        SocketReleased, SocketHeld
<1>8. ASSUME NEW id \in RequestIds, IdleLine(id) PROVE FlowIInv'
  <2>1. UNCHANGED <<call, link, closes, hardTimer>>
    BY <1>8 DEF IdleLine
  <2>2. CASE ArmOutboundIdle(id)
              /\ graceTimer' = IF id \in pendingPublished THEN graceTimer
                                                          ELSE graceTimer \cup {id}
    <3>1. /\ idleArmed' = idleArmed \cup {id} /\ pendingPublished' = pendingPublished
          /\ outbound' = outbound /\ accepted' = accepted /\ resolution' = resolution
      BY <2>2 DEF ArmOutboundIdle, history
    <3>2. TimersMatchRequests'
      BY <1>1, <2>1, <2>2, <3>1 DEF FlowIInv, TimersMatchRequests
    <3>3. QED
      BY <1>1, <2>1, <3>1, <3>2
      DEF FlowIInv, CallType, LinkType, CallAgreesWithRegistry, SocketReleased, SocketHeld
  <2>3. CASE UNCHANGED <<vars, graceTimer>>
    BY <1>1, <2>1, <2>3, UntouchedPreserves DEF vars, requests, history
  <2>4. QED
    BY <1>8, <2>2, <2>3 DEF IdleLine
<1>9. ASSUME NEW id \in RequestIds, ResponseLine(id) PROVE FlowIInv'
  <2>1. FinishRequest(id) /\ call' = call
    BY <1>9 DEF ResponseLine
  <2>2. CASE ResolveResponse(id)
    BY <1>1, <1>2, <2>1, <2>2, FinishPreserves DEF ResolveResponse, TerminalKinds
  <2>3. CASE id \notin accepted /\ UNCHANGED vars
    <3>1. /\ outbound' = outbound /\ accepted' = accepted /\ resolution' = resolution
          /\ idleArmed' = idleArmed /\ pendingPublished' = pendingPublished
      BY <2>3 DEF vars, requests, history
    <3>2. /\ hardTimer' = hardTimer \ {id} /\ graceTimer' = graceTimer \ {id}
          /\ closes' = closes \ {id}
      BY <2>1 DEF FinishRequest
    <3>3. TimersMatchRequests'
      BY <1>1, <1>2, <2>3, <3>1, <3>2 DEF FlowIInv, TimersMatchRequests, TypeOK
    <3>4. LinkType' /\ \A x \in RequestIds : link'[x] = link[x] \/ link'[x] = "closed"
      BY <1>1, <2>1 DEF FinishRequest, Shut, FlowIInv, LinkType
    <3>5. SocketReleased'
      BY <1>1, <2>1, <3>1, <3>4 DEF FlowIInv, SocketReleased
    <3>6. SocketHeld'
      BY <1>1, <1>2, <2>3, <3>1, <3>2, <3>4 DEF FlowIInv, SocketHeld, TypeOK
    <3>7. QED
      BY <1>1, <2>1, <3>1, <3>3, <3>4, <3>5, <3>6
      DEF FlowIInv, CallType, CallAgreesWithRegistry
  <2>4. QED
    BY <1>9, <2>2, <2>3 DEF ResponseLine
<1>10. ASSUME NEW id \in RequestIds, ContinueSend(id) PROVE FlowIInv'
  <2>1. /\ call[id] = "opened" /\ call' = [call EXCEPT ![id] = "returned"]
        /\ accepted' = accepted \cup {id} /\ hardTimer' = hardTimer \cup {id}
        /\ outbound' = outbound /\ resolution' = resolution
        /\ idleArmed' = idleArmed /\ pendingPublished' = pendingPublished
    BY <1>10 DEF ContinueSend, AcceptOutbound, history
  <2>2. id \in outbound \ accepted
    BY <1>1, <2>1 DEF FlowIInv, CallAgreesWithRegistry
  <2>3. /\ LinkType' /\ closes \subseteq closes'
        /\ \A x \in RequestIds : link'[x] = link[x] \/ link'[x] = "closed"
        /\ id \in closes' \/ link'[id] = "closed"
        /\ graceTimer' \in {graceTimer, graceTimer \ {id}}
    BY <1>1, <1>10 DEF ContinueSend, Shut, FlowIInv, LinkType
  <2>4. TimersMatchRequests'
    BY <1>1, <1>2, <2>1, <2>2, <2>3 DEF FlowIInv, TimersMatchRequests, TypeOK
  <2>5. CallType' /\ CallAgreesWithRegistry'
    BY <1>1, <2>1, <2>2 DEF FlowIInv, CallType, CallAgreesWithRegistry
  <2>6. SocketReleased'
    BY <1>1, <2>1, <2>2, <2>3 DEF FlowIInv, CallType, SocketReleased
  <2>7. SocketHeld'
    BY <1>1, <1>2, <2>1, <2>2, <2>3 DEF FlowIInv, SocketHeld, TypeOK
  <2>8. QED
    BY <2>3, <2>4, <2>5, <2>6, <2>7 DEF FlowIInv
<1>11. ASSUME NEW id \in RequestIds, SocketEnd(id) PROVE FlowIInv'
  <2>1. /\ id \in outbound /\ Close(id, "offline") /\ FinishRequest(id) /\ call' = call
        /\ call[id] = "returned"
    BY <1>11 DEF SocketEnd, ResolveOffline
  <2>2. id \in accepted
    BY <1>1, <1>2, <2>1 DEF FlowIInv, CallAgreesWithRegistry, HistoryInv, NoOutcome
  <2>3. QED
    BY <1>1, <1>2, <2>1, <2>2, FinishPreserves DEF TerminalKinds
<1>12. ASSUME NEW id \in RequestIds, HardTimeout(id) PROVE FlowIInv'
  <2>1. /\ id \in hardTimer /\ Close(id, "timeout") /\ FinishRequest(id) /\ call' = call
    BY <1>12 DEF HardTimeout, ResolveTimeout
  <2>2. id \in accepted
    BY <1>1, <2>1 DEF FlowIInv, TimersMatchRequests
  <2>3. QED
    BY <1>1, <1>2, <2>1, <2>2, FinishPreserves DEF TerminalKinds
<1>13. ASSUME NEW id \in RequestIds, GraceExpires(id) PROVE FlowIInv'
  <2>1. /\ graceTimer' = graceTimer \ {id} /\ UNCHANGED <<call, link, closes, hardTimer>>
        /\ pendingPublished' = pendingPublished \cup {id} /\ idleArmed' = idleArmed
        /\ outbound' = outbound /\ accepted' = accepted /\ resolution' = resolution
    BY <1>13 DEF GraceExpires, ResolvePendingAfterIdle
  <2>2. TimersMatchRequests'
    BY <1>1, <2>1 DEF FlowIInv, TimersMatchRequests
  <2>3. QED
    BY <1>1, <2>1, <2>2
    DEF FlowIInv, CallType, LinkType, CallAgreesWithRegistry, SocketReleased, SocketHeld
<1>14. ASSUME NEW id \in RequestIds, WaitForRequestOutcomeById(id) \/ CancelWait(id)
       PROVE  FlowIInv'
  <2>1. UNCHANGED <<requests, resolution, requester>>
    BY <1>14 DEF WaitForRequestOutcomeById, CancelWait, WaitForRequest, CancelRequestWait,
                 Take, Park, history
  <2>2. QED
    BY <1>1, <2>1, UntouchedPreserves DEF requests, requester
<1>15. ASSUME \/ SettleAllInboundIdle \/ ResponderExit \/ UNCHANGED flowVars
              \/ \E id \in RequestIds :
                   \/ AcceptInbound(id) \/ RefuseInbound(id)
                   \/ RespondToMemberRequest(id) \/ RemoveInbound(id)
       PROVE  FlowIInv'
  <2>1. UNCHANGED <<vars, requester>>
    BY <1>15 DEF SettleAllInboundIdle, ResponderExit, flowVars, AcceptInbound,
         RefuseInbound,
                 RespondToMemberRequest, RemoveInbound
  <2>2. QED
    BY <1>1, <2>1, UntouchedPreserves DEF vars, requests, history, requester
<1>16. QED
  BY <1>1, <1>3, <1>4, <1>5, <1>6, <1>7, <1>8, <1>9, <1>10, <1>11, <1>12, <1>13, <1>14,
       <1>15
  DEF FlowNext, RequesterTask

THEOREM FlowInvariance == FlowSpec => []FlowIInv
<1>1. IInv /\ FlowIInv /\ [FlowNext]_flowVars => FlowIInv'
  BY FlowStepPreserves
<1>2. FlowSpec => []IInv
  BY FlowRefinesRegistry, Invariance, PTL
<1>3. QED
  BY <1>1, <1>2, FlowInitially, PTL DEF FlowSpec

(* However many requests and whatever the chunking: the max-wait timer runs  *)
(* for exactly the accepted live requests and the grace timer for exactly    *)
(* the idle ones without a notice, so no timer leaks and none is missing.    *)
THEOREM TimersMatch == FlowSpec => []TimersMatchRequests
<1>1. FlowIInv => TimersMatchRequests
  BY DEF FlowIInv
<1>2. QED
  BY <1>1, FlowInvariance, PTL

(* sendMemberRequest never throws and yields an outcome, and never returns   *)
(* and leaves neither a live request nor an outcome.                         *)
THEOREM CallsAgree == FlowSpec => []CallAgreesWithRegistry
<1>1. FlowIInv => CallAgreesWithRegistry
  BY DEF FlowIInv
<1>2. QED
  BY <1>1, FlowInvariance, PTL

(* The requester's socket never outlives its request.                        *)
THEOREM SocketsReleased == FlowSpec => []SocketReleased
<1>1. FlowIInv => SocketReleased
  BY DEF FlowIInv
<1>2. QED
  BY <1>1, FlowInvariance, PTL

-----------------------------------------------------------------------------
(* A Response that is heard wins.  The requester reads what its socket      *)
(* brought, and the only way to hear a Response of a live request without   *)
(* recording it is to read it before the request is accepted: never while   *)
(* the request is being opened, since the first line that is read of it is  *)
(* its verdict, so only in the task of the acknowledgement itself.  How     *)
(* many lines a chunk carries does not matter.                              *)

Verdicts == {"accept", "refuse"}
Reading(id) == chunk # NoChunk /\ chunk.id = id

ChunkType ==
  chunk = NoChunk
    \/ \E id \in RequestIds \cap issued, s \in Seq(Lines) \ {<<>>} :
         chunk = [id |-> id, lines |-> s]
LinesType == lines \in [RequestIds -> Seq(Lines)]
SentWhenIssued == \A id \in issued \cap RequestIds : call[id] # "unsent"
NothingBeforeSending ==
  \A id \in RequestIds \ issued :
    lines[id] = <<>> /\ id \notin inbound /\ id \notin requestLines /\ link[id] # "dialing"
VerdictFirst(id) ==
  call[id] = "opening" =>
    /\ id \in requestLines => link[id] = "up"
    /\ IF Reading(id) THEN Head(chunk.lines) \in Verdicts
       ELSE IF lines[id] = <<>> THEN id \notin inbound ELSE Head(lines[id]) \in Verdicts

ReadInv ==
  /\ ChunkType /\ LinesType
  /\ SentWhenIssued /\ NothingBeforeSending
  /\ \A id \in RequestIds : VerdictFirst(id)

LEMMA FirstOf ==
  ASSUME NEW s \in Seq(Lines), NEW n \in 1 .. Len(s)
  PROVE  /\ SubSeq(s, 1, n) \in Seq(Lines) \ {<<>>} /\ Head(SubSeq(s, 1, n)) = Head(s)
         /\ s # <<>> /\ SubSeq(s, n + 1, Len(s)) \in Seq(Lines)
<1>1. Len(s) \in Nat /\ n >= 1 /\ n <= Len(s) /\ n \in Nat
  OBVIOUS
<1>2. \A i \in 1 .. Len(s) : s[i] \in Lines
  OBVIOUS
<1>3. /\ SubSeq(s, 1, n) \in Seq(Lines) /\ Len(SubSeq(s, 1, n)) = n
      /\ SubSeq(s, 1, n)[1] = s[1]
  BY <1>1, <1>2, SMT
<1>4. SubSeq(s, n + 1, Len(s)) \in Seq(Lines)
  BY <1>1, <1>2, SMT
<1>5. s # <<>> /\ SubSeq(s, 1, n) # <<>>
  BY <1>1, <1>3
<1>6. Head(SubSeq(s, 1, n)) = SubSeq(s, 1, n)[1] /\ Head(s) = s[1]
  BY <1>3, <1>5
<1>7. QED
  BY <1>3, <1>4, <1>5, <1>6

LEMMA FirstStays ==
  ASSUME NEW s \in Seq(Lines), NEW line \in Lines
  PROVE  /\ Append(s, line) \in Seq(Lines) /\ Append(s, line) # <<>>
         /\ Head(Append(s, line)) = IF s = <<>> THEN line ELSE Head(s)
<1>1. /\ Append(s, line) \in Seq(Lines) /\ Len(Append(s, line)) = Len(s) + 1
      /\ Append(s, line)[Len(s) + 1] = line
      /\ \A i \in 1 .. Len(s) : Append(s, line)[i] = s[i]
  OBVIOUS
<1>2. Len(s) \in Nat /\ (s = <<>> <=> Len(s) = 0)
  OBVIOUS
<1>3. Append(s, line) # <<>> /\ Head(Append(s, line)) = Append(s, line)[1]
  BY <1>1, <1>2
<1>4. QED
  BY <1>1, <1>2, <1>3

(* Steps that touch nothing these invariants look at.                       *)
LEMMA UntouchedReading ==
  ASSUME ReadInv, UNCHANGED <<call, link, chunk, lines, requestLines, inbound, issued>>
  PROVE  ReadInv'
BY DEF ReadInv, ChunkType, LinesType, SentWhenIssued, NothingBeforeSending, VerdictFirst,
       Reading

(* The requester goes on with a request that is not being opened any more.  *)
LEMMA RequesterKeepsReading ==
  ASSUME ReadInv, NEW id \in RequestIds, id \in issued,
         call'[id] \notin {"opening", "unsent"}, ChunkType',
         chunk' = chunk \/ (Reading(id) /\ (chunk' = NoChunk \/ chunk'.id = id)),
         LinesType', link'[id] \in {link[id], "closed"}, lines'[id] \in {lines[id], <<>>},
         \A x \in RequestIds \ {id} :
           call'[x] = call[x] /\ link'[x] = link[x] /\ lines'[x] = lines[x],
         UNCHANGED <<requestLines, inbound, issued>>
  PROVE  ReadInv'
<1>1. ChunkType' /\ LinesType' /\ SentWhenIssued' /\ NothingBeforeSending'
  BY DEF ReadInv, SentWhenIssued, NothingBeforeSending
<1>2. ASSUME NEW x \in RequestIds PROVE VerdictFirst(x)'
  <2>1. CASE x = id
    BY <2>1 DEF VerdictFirst
  <2>2. CASE x # id
    <3>1. Reading(x)' <=> Reading(x)
      BY <2>2 DEF Reading, NoChunk
    <3>2. Reading(x) => chunk' = chunk
      BY <2>2 DEF Reading
    <3>3. QED
      BY <2>2, <3>1, <3>2 DEF ReadInv, VerdictFirst
  <2>3. QED
    BY <2>1, <2>2
<1>3. QED
  BY <1>1, <1>2 DEF ReadInv

(* The responder writes a verdict to what it reads and anything to what it  *)
(* accepted, and accepts nothing it did not write a verdict to.             *)
LEMMA ResponderKeepsReading ==
  ASSUME ReadInv, UNCHANGED <<call, link, chunk, issued>>,
         requestLines' \subseteq requestLines, LinesType',
         \A x \in RequestIds :
           \/ lines'[x] = lines[x] /\ (x \in inbound' => x \in inbound)
           \/ x \in requestLines /\ \E line \in Verdicts : lines'[x] = Written(x, line)
           \/ /\ x \in inbound /\ x \in issued
              /\ \E line \in Lines : lines'[x] = Written(x, line)
  PROVE  ReadInv'
<1>1. ChunkType' /\ SentWhenIssued'
  BY DEF ReadInv, ChunkType, SentWhenIssued
<1>2. NothingBeforeSending'
  BY DEF ReadInv, NothingBeforeSending
<1>3. ASSUME NEW x \in RequestIds, call[x] = "opening" PROVE VerdictFirst(x)'
  <2>1. VerdictFirst(x) /\ lines[x] \in Seq(Lines) /\ (Reading(x)' <=> Reading(x))
    BY DEF ReadInv, LinesType, Reading
  <2>2. x \in requestLines' => link'[x] = "up"
    BY <1>3, <2>1 DEF VerdictFirst
  <2>3. CASE Reading(x)
    BY <1>3, <2>1, <2>2, <2>3 DEF VerdictFirst
  <2>4. CASE ~Reading(x) /\ lines'[x] = lines[x] /\ (x \in inbound' => x \in inbound)
    BY <1>3, <2>1, <2>2, <2>4 DEF VerdictFirst
  <2>5. CASE /\ ~Reading(x) /\ x \in requestLines
             /\ \E line \in Verdicts : lines'[x] = Written(x, line)
    <3>1. PICK line \in Verdicts : lines'[x] = Append(lines[x], line)
      BY <1>3, <2>1, <2>5 DEF VerdictFirst, Written
    <3>2. line \in Lines
      BY DEF Lines, Verdicts
    <3>3. lines'[x] # <<>> /\ Head(lines'[x]) = IF lines[x] = <<>> THEN line ELSE Head(lines[x])
      BY <2>1, <3>1, <3>2, FirstStays
    <3>4. Head(lines'[x]) \in Verdicts
      BY <1>3, <2>1, <2>5, <3>3 DEF VerdictFirst
    <3>5. QED
      BY <2>1, <2>2, <2>5, <3>3, <3>4 DEF VerdictFirst
  <2>6. CASE /\ ~Reading(x) /\ x \in inbound
             /\ \E line \in Lines : lines'[x] = Written(x, line)
    <3>1. lines[x] # <<>> /\ Head(lines[x]) \in Verdicts
      BY <1>3, <2>1, <2>6 DEF VerdictFirst
    <3>2. PICK line \in Lines : lines'[x] \in {lines[x], Append(lines[x], line)}
      BY <2>6 DEF Written
    <3>3. lines'[x] # <<>> /\ Head(lines'[x]) = Head(lines[x])
      BY <2>1, <3>1, <3>2, FirstStays
    <3>4. QED
      BY <2>1, <2>2, <2>6, <3>1, <3>3 DEF VerdictFirst
  <2>7. QED
    BY <2>3, <2>4, <2>5, <2>6
<1>4. ASSUME NEW x \in RequestIds, call[x] # "opening" PROVE VerdictFirst(x)'
  BY <1>4 DEF VerdictFirst
<1>5. QED
  BY <1>1, <1>2, <1>3, <1>4 DEF ReadInv

(* What is left of a chunk when its line is handled is of the same request, *)
(* which is not being opened unless the line is its verdict.                *)
LEMMA HandledLine ==
  ASSUME ReadInv, NEW id \in RequestIds, NEW line, NextLine(id, line)
  PROVE  /\ Reading(id) /\ id \in issued
         /\ chunk' = NoChunk \/ LineDone =>
              /\ chunk' = NoChunk \/ chunk'.id = id
              /\ UNCHANGED issued => ChunkType'
         /\ call[id] = "opening" => line \in Verdicts
<1>1. chunk # NoChunk
  BY DEF NextLine, NoChunk
<1>2. PICK x \in RequestIds \cap issued, s \in Seq(Lines) \ {<<>>} : chunk = [id |-> x, lines |-> s]
  BY <1>1 DEF ReadInv, ChunkType
<1>3. x = id /\ Head(s) = line /\ chunk.lines = s /\ Reading(id) /\ id \in issued
  BY <1>1, <1>2 DEF NextLine, Reading
<1>4. ASSUME LineDone
      PROVE  /\ chunk' = NoChunk \/ chunk'.id = id
             /\ UNCHANGED issued => ChunkType'
  <2>1. CASE Len(s) = 1
    BY <1>3, <1>4, <2>1 DEF LineDone, ChunkType
  <2>2. CASE Len(s) # 1
    <3>1. chunk' = [id |-> id, lines |-> Tail(s)]
      BY <1>2, <1>3, <1>4, <2>2 DEF LineDone
    <3>2. Len(s) \in Nat /\ Len(s) # 0
      BY <1>2
    <3>3. Tail(s) \in Seq(Lines) /\ Len(Tail(s)) = Len(s) - 1
      BY <1>2, <3>2
    <3>4. Tail(s) \in Seq(Lines) \ {<<>>}
      <4>1. Len(Tail(s)) # 0
        BY <2>2, <3>2, <3>3
      <4>2. Len(<<>>) = 0
        OBVIOUS
      <4>3. QED
        BY <3>3, <4>1, <4>2, Zenon
    <3>5. UNCHANGED issued => ChunkType'
      BY <1>3, <3>1, <3>4 DEF ChunkType
    <3>6. QED
      BY <3>1, <3>5
  <2>3. QED
    BY <2>1, <2>2
<1>5. chunk' = NoChunk => ChunkType'
  BY DEF ChunkType
<1>6. call[id] = "opening" => line \in Verdicts
  BY <1>3 DEF ReadInv, VerdictFirst
<1>7. QED
  BY <1>3, <1>4, <1>5, <1>6

(* Shutting a socket, or leaving it alone, keeps what the lines are.        *)
LEMMA ShutEffect ==
  ASSUME ReadInv, FlowIInv, NEW id \in RequestIds,
         Shut(id) \/ UNCHANGED <<link, lines>>
  PROVE  /\ LinesType' /\ link'[id] \in {link[id], "closed"} /\ lines'[id] \in {lines[id], <<>>}
         /\ \A x \in RequestIds \ {id} : link'[x] = link[x] /\ lines'[x] = lines[x]
<1>1. LinesType /\ LinkType /\ <<>> \in Seq(Lines)
  BY DEF ReadInv, FlowIInv
<1>2. CASE UNCHANGED <<link, lines>>
  BY <1>1, <1>2 DEF LinesType
<1>3. CASE Shut(id)
  <2>1. /\ link' = [link EXCEPT ![id] = "closed"] /\ lines' = [lines EXCEPT ![id] = <<>>]
    BY <1>3 DEF Shut
  <2>2. link'[id] = "closed" /\ \A x \in RequestIds \ {id} : link'[x] = link[x]
    BY <1>1, <2>1 DEF LinkType
  <2>3. /\ LinesType' /\ lines'[id] = <<>>
        /\ \A x \in RequestIds \ {id} : lines'[x] = lines[x]
    BY <1>1, <2>1, Zenon DEF LinesType
  <2>4. QED
    BY <2>2, <2>3
<1>4. QED
  BY <1>2, <1>3

(* The requester's own tasks on a request that was sent.                    *)
LEMMA RequesterReads ==
  ASSUME IInv, FlowIInv, ReadInv, NEW id \in RequestIds,
         \/ RejectOpen(id) \/ LostAcknowledgement(id) \/ SocketEnd(id) \/ HardTimeout(id)
         \/ AcceptLine(id) \/ RefuseLine(id) \/ IdleLine(id) \/ ResponseLine(id)
         \/ ContinueSend(id)
  PROVE  ReadInv'
<1>1. TypeOK
  BY DEF IInv
<1>2. \A x \in accepted : x \in outbound /\ x \in issued
  BY <1>1 DEF TypeOK
<1>3. \A x \in RequestIds : call[x] \in {"opening", "opened"} => x \in outbound \ accepted
  BY DEF FlowIInv, CallAgreesWithRegistry
<1>4. \A x \in outbound \cap RequestIds : call[x] # "unsent" /\ x \in issued
  BY <1>1 DEF ReadInv, SentWhenIssued, TypeOK
<1>5. CASE RejectOpen(id) \/ LostAcknowledgement(id) \/ RefuseLine(id)
  <2>1. /\ Throw(id) /\ UNCHANGED issued /\ ChunkType'
        /\ chunk' = chunk \/ (Reading(id) /\ chunk' = NoChunk)
    <3>1. CASE RejectOpen(id) \/ LostAcknowledgement(id)
      BY <3>1 DEF RejectOpen, LostAcknowledgement, FailBeforeAcceptance,
                  CloseOutcomeUnknown, history, ReadInv, ChunkType
    <3>2. CASE RefuseLine(id)
      <4>1. Reading(id) /\ (chunk' = NoChunk => ChunkType')
        BY <3>2, HandledLine DEF RefuseLine, ChunkType
      <4>2. QED
        BY <3>2, <4>1 DEF RefuseLine, FailBeforeAcceptance, history
    <3>3. QED
      BY <1>5, <3>1, <3>2
  <2>2. /\ call[id] = "opening" /\ call' = [call EXCEPT ![id] = "threw"] /\ Shut(id)
        /\ UNCHANGED <<requestLines, inbound>>
    BY <2>1 DEF Throw, responder
  <2>3. id \in issued
    BY <1>3, <1>4, <2>2
  <2>4. call'[id] = "threw" /\ \A x \in RequestIds \ {id} : call'[x] = call[x]
    BY <2>2 DEF FlowIInv, CallType
  <2>5. QED
    BY <2>1, <2>2, <2>3, <2>4, ShutEffect, RequesterKeepsReading
<1>6. CASE SocketEnd(id) \/ HardTimeout(id)
  <2>1. /\ UNCHANGED <<issued, call, chunk, requestLines, inbound>>
        /\ FinishRequest(id) /\ id \in outbound
        /\ call[id] = "returned" \/ id \in accepted
    <3>1. CASE SocketEnd(id)
      BY <3>1 DEF SocketEnd, ResolveOffline, Close, responder
    <3>2. CASE HardTimeout(id)
      BY <3>2 DEF HardTimeout, ResolveTimeout, Close, responder, FlowIInv,
           TimersMatchRequests
    <3>3. QED
      BY <1>6, <3>1, <3>2
  <2>2. call[id] \notin {"opening", "opened", "unsent"} /\ id \in issued
    BY <1>3, <1>4, <2>1
  <2>3. Shut(id) \/ UNCHANGED <<link, lines>>
    BY <2>1 DEF FinishRequest
  <2>4. ChunkType'
    BY <2>1 DEF ReadInv, ChunkType
  <2>5. QED
    BY <2>1, <2>2, <2>3, <2>4, ShutEffect, RequesterKeepsReading
<1>7. CASE AcceptLine(id)
  <2>1. /\ call[id] = "opening" /\ call' = [call EXCEPT ![id] = "opened"]
        /\ UNCHANGED <<vars, link, lines, requestLines, inbound>>
    BY <1>7 DEF AcceptLine, responder
  <2>2. id \in issued /\ UNCHANGED issued
    BY <1>3, <1>4, <2>1 DEF vars, requests, history
  <2>3. Reading(id) /\ (chunk' = NoChunk \/ chunk'.id = id) /\ ChunkType'
    BY <1>7, <2>2, HandledLine DEF AcceptLine
  <2>4. call'[id] = "opened" /\ \A x \in RequestIds \ {id} : call'[x] = call[x]
    BY <2>1 DEF FlowIInv, CallType
  <2>5. QED
    BY <2>1, <2>2, <2>3, <2>4, ShutEffect, RequesterKeepsReading
<1>8. CASE IdleLine(id) \/ ResponseLine(id)
  <2>1. PICK line \in {"idle", "response"} : NextLine(id, line)
    BY <1>8 DEF IdleLine, ResponseLine
  <2>2. line \notin Verdicts
    BY DEF Verdicts
  <2>3. /\ Reading(id) /\ id \in issued /\ call[id] # "opening"
    BY <2>1, <2>2, HandledLine
  <2>4. LineDone /\ UNCHANGED <<call, requestLines, inbound>>
    BY <1>8, <2>3 DEF IdleLine, ResponseLine, responder
  <2>5. UNCHANGED issued
    <3>1. CASE IdleLine(id)
      BY <3>1 DEF IdleLine, ArmOutboundIdle, vars, requests, history
    <3>2. CASE ResponseLine(id)
      BY <3>2 DEF ResponseLine, ResolveResponse, Close, vars, requests, history
    <3>3. QED
      BY <1>8, <3>1, <3>2
  <2>6. Shut(id) \/ UNCHANGED <<link, lines>>
    BY <1>8 DEF IdleLine, ResponseLine, FinishRequest
  <2>7. call[id] # "unsent"
    BY <2>3 DEF ReadInv, SentWhenIssued
  <2>8. (chunk' = NoChunk \/ chunk'.id = id) /\ ChunkType'
    BY <2>1, <2>4, <2>5, HandledLine
  <2>9. QED
    BY <2>3, <2>4, <2>5, <2>6, <2>7, <2>8, ShutEffect, RequesterKeepsReading
<1>9. CASE ContinueSend(id)
  <2>1. /\ chunk' = chunk /\ call[id] = "opened" /\ call' = [call EXCEPT ![id] = "returned"]
        /\ Shut(id) \/ UNCHANGED <<link, lines>>
        /\ UNCHANGED <<requestLines, inbound, issued>>
    BY <1>9 DEF ContinueSend, AcceptOutbound, responder, history
  <2>2. id \in issued
    BY <1>3, <1>4, <2>1
  <2>3. call'[id] = "returned" /\ \A x \in RequestIds \ {id} : call'[x] = call[x]
    BY <2>1 DEF FlowIInv, CallType
  <2>4. ChunkType'
    BY <2>1 DEF ReadInv, ChunkType
  <2>5. QED
    BY <2>1, <2>2, <2>3, <2>4, ShutEffect, RequesterKeepsReading
<1>10. QED
  BY <1>5, <1>6, <1>7, <1>8, <1>9

(* The responder's steps.                                                   *)
LEMMA ResponderReads ==
  ASSUME IInv, ReadInv,
         \/ SettleAllInboundIdle \/ ResponderExit
         \/ \E id \in RequestIds :
              \/ AcceptInbound(id) \/ RefuseInbound(id)
              \/ RespondToMemberRequest(id) \/ RemoveInbound(id)
  PROVE  ReadInv'
<1>1. /\ lines \in [RequestIds -> Seq(Lines)]
      /\ \A x \in RequestIds : x \in inbound => x \in issued
      /\ \A x \in RequestIds, line \in Lines : Written(x, line) \in Seq(Lines)
  <2>1. lines \in [RequestIds -> Seq(Lines)]
    BY DEF ReadInv, LinesType
  <2>2. \A x \in RequestIds, line \in Lines : Append(lines[x], line) \in Seq(Lines)
    BY <2>1, FirstStays
  <2>3. QED
    BY <2>1, <2>2, Zenon DEF ReadInv, NothingBeforeSending, Written
<1>2. UNCHANGED <<call, link, chunk, issued>>
  BY DEF SettleAllInboundIdle, ResponderExit, AcceptInbound, RefuseInbound,
         RespondToMemberRequest, RemoveInbound, vars, history, requester
<1>3. "accept" \in Verdicts /\ "refuse" \in Verdicts /\ Verdicts \subseteq Lines
      /\ "idle" \in Lines /\ "response" \in Lines
  BY DEF Verdicts, Lines
<1>4. CASE SettleAllInboundIdle
  <2>1. /\ requestLines' = requestLines /\ inbound' = inbound
        /\ lines' = [id \in RequestIds |->
                       IF id \in inbound \ idleNotified THEN Written(id, "idle") ELSE lines[id]]
    BY <1>4 DEF SettleAllInboundIdle
  <2>2. LinesType'
    BY <1>1, <1>3, <2>1, Zenon DEF LinesType
  <2>3. ASSUME NEW x \in RequestIds
        PROVE  \/ lines'[x] = lines[x]
               \/ x \in inbound /\ lines'[x] = Written(x, "idle")
    BY <2>1, Zenon
  <2>4. QED
    BY <1>1, <1>2, <1>3, <2>1, <2>2, <2>3, ResponderKeepsReading
<1>5. CASE ResponderExit
  <2>1. lines' = lines /\ requestLines' = {} /\ inbound' = {}
    BY <1>5 DEF ResponderExit
  <2>2. LinesType'
    BY <1>1, <2>1 DEF LinesType
  <2>3. QED
    BY <1>2, <2>1, <2>2, ResponderKeepsReading
<1>6. ASSUME NEW id \in RequestIds, RemoveInbound(id) PROVE ReadInv'
  <2>1. lines' = lines /\ requestLines' = requestLines /\ inbound' \subseteq inbound
    BY <1>6 DEF RemoveInbound
  <2>2. LinesType'
    BY <1>1, <2>1 DEF LinesType
  <2>3. QED
    BY <1>2, <2>1, <2>2, ResponderKeepsReading
<1>7. ASSUME NEW id \in RequestIds,
             AcceptInbound(id) \/ RefuseInbound(id) \/ RespondToMemberRequest(id)
      PROVE  ReadInv'
  <2>1. PICK line \in Lines :
          /\ lines' = [lines EXCEPT ![id] = Written(id, line)]
          /\ (id \in requestLines /\ line \in Verdicts) \/ id \in inbound
          /\ requestLines' \subseteq requestLines
          /\ \A x \in RequestIds \ {id} : x \in inbound' => x \in inbound
    <3>1. CASE AcceptInbound(id)
      BY <1>3, <3>1 DEF AcceptInbound
    <3>2. CASE RefuseInbound(id)
      BY <1>3, <3>2 DEF RefuseInbound, responder
    <3>3. CASE RespondToMemberRequest(id)
      BY <1>3, <3>3 DEF RespondToMemberRequest
    <3>4. QED
      BY <1>7, <3>1, <3>2, <3>3
  <2>2. /\ LinesType' /\ lines'[id] = Written(id, line)
        /\ \A x \in RequestIds \ {id} : lines'[x] = lines[x]
    BY <1>1, <2>1, Zenon DEF LinesType
  <2>3. ASSUME NEW x \in RequestIds
        PROVE  \/ lines'[x] = lines[x] /\ (x \in inbound' => x \in inbound)
               \/ x \in requestLines /\ \E l \in Verdicts : lines'[x] = Written(x, l)
               \/ /\ x \in inbound /\ x \in issued
                  /\ \E l \in Lines : lines'[x] = Written(x, l)
    <3>1. CASE x = id
      BY <1>1, <2>1, <2>2, <3>1, Zenon
    <3>2. CASE x # id
      BY <2>1, <2>2, <3>2, Zenon
    <3>3. QED
      BY <3>1, <3>2
  <2>4. QED
    BY <1>2, <2>1, <2>2, <2>3, ResponderKeepsReading
<1>8. QED
  BY <1>4, <1>5, <1>6, <1>7

LEMMA ReadInitially == FlowInit => ReadInv
<1>1. SUFFICES ASSUME FlowInit PROVE ReadInv
  OBVIOUS
<1>2. /\ call = [id \in RequestIds |-> "unsent"] /\ link = [id \in RequestIds |-> "none"]
      /\ lines = [id \in RequestIds |-> <<>>] /\ chunk = NoChunk
      /\ requestLines = {} /\ inbound = {} /\ issued = {}
  BY <1>1 DEF FlowInit, Init
<1>3. <<>> \in Seq(Lines)
  OBVIOUS
<1>4. LinesType
  BY <1>2, <1>3, Zenon DEF LinesType
<1>5. QED
  BY <1>2, <1>4 DEF ReadInv, ChunkType, SentWhenIssued, NothingBeforeSending, VerdictFirst

LEMMA ReadStepPreserves ==
  ASSUME IInv, FlowIInv, ReadInv, [FlowNext]_flowVars
  PROVE  ReadInv'
<1>1. TypeOK
  BY DEF IInv
<1>2. ASSUME NEW id \in RequestIds, SendMemberRequest(id) PROVE ReadInv'
  <2>1. /\ call' = [call EXCEPT ![id] = "opening"] /\ link' = [link EXCEPT ![id] = "dialing"]
        /\ id \notin issued /\ issued' = issued \cup {id} /\ chunk = NoChunk
        /\ UNCHANGED <<chunk, requestLines, lines, inbound>>
    BY <1>2 DEF SendMemberRequest, RegisterOutbound, LoopFree, responder
  <2>2. /\ call'[id] = "opening"
        /\ \A x \in RequestIds \ {id} : call'[x] = call[x] /\ link'[x] = link[x]
    BY <2>1 DEF FlowIInv, CallType, LinkType
  <2>3. lines[id] = <<>> /\ id \notin inbound /\ id \notin requestLines
    BY <2>1 DEF ReadInv, NothingBeforeSending
  <2>4. ChunkType' /\ LinesType' /\ SentWhenIssued' /\ NothingBeforeSending'
    BY <2>1, <2>2 DEF ReadInv, ChunkType, LinesType, SentWhenIssued, NothingBeforeSending
  <2>5. ASSUME NEW x \in RequestIds PROVE VerdictFirst(x)'
    BY <2>1, <2>2, <2>3 DEF ReadInv, VerdictFirst, Reading
  <2>6. QED
    BY <2>4, <2>5 DEF ReadInv
<1>3. ASSUME NEW id \in RequestIds, Dispatch(id) PROVE ReadInv'
  <2>1. /\ link[id] = "dialing" /\ link' = [link EXCEPT ![id] = "up"]
        /\ requestLines' = requestLines \cup {id}
        /\ UNCHANGED <<call, chunk, lines, inbound, issued>>
    BY <1>3 DEF Dispatch, responder, vars, history
  <2>2. id \in issued
    BY <2>1 DEF ReadInv, NothingBeforeSending
  <2>3. link'[id] = "up" /\ \A x \in RequestIds \ {id} : link'[x] = link[x]
    BY <2>1 DEF FlowIInv, LinkType
  <2>4. ChunkType' /\ LinesType' /\ SentWhenIssued' /\ NothingBeforeSending'
    BY <2>1, <2>2, <2>3 DEF ReadInv, ChunkType, LinesType, SentWhenIssued,
                            NothingBeforeSending
  <2>5. ASSUME NEW x \in RequestIds PROVE VerdictFirst(x)'
    BY <2>1, <2>3 DEF ReadInv, VerdictFirst, Reading
  <2>6. QED
    BY <2>4, <2>5 DEF ReadInv
<1>4. ASSUME NEW id \in RequestIds, ReadChunk(id) PROVE ReadInv'
  <2>1. /\ chunk = NoChunk /\ \A x \in RequestIds : call[x] # "opened"
        /\ UNCHANGED <<call, link, requestLines, inbound, issued>>
    BY <1>4 DEF ReadChunk, LoopFree, responder, vars, history
  <2>2. lines \in [RequestIds -> Seq(Lines)] /\ lines[id] \in Seq(Lines)
    BY DEF ReadInv, LinesType
  <2>3. PICK n \in 1 .. Len(lines[id]) :
            /\ chunk' = [id |-> id, lines |-> SubSeq(lines[id], 1, n)]
            /\ lines' = [lines EXCEPT ![id] = SubSeq(@, n + 1, Len(@))]
    BY <1>4 DEF ReadChunk
  <2>4. DEFINE s == SubSeq(lines[id], 1, n)
  <2>5. /\ s \in Seq(Lines) \ {<<>>} /\ Head(s) = Head(lines[id]) /\ lines[id] # <<>>
        /\ SubSeq(lines[id], n + 1, Len(lines[id])) \in Seq(Lines)
    BY <2>2, FirstOf
  <2>6. LinesType' /\ \A x \in RequestIds \ {id} : lines'[x] = lines[x]
    BY <2>2, <2>3, <2>5, Zenon DEF LinesType
  <2>7. id \in issued
    BY <2>5 DEF ReadInv, NothingBeforeSending
  <2>9. ChunkType'
    <3>1. chunk' = [id |-> id, lines |-> s] /\ id \in RequestIds \cap issued'
      BY <2>1, <2>3, <2>7
    <3>2. QED
      BY <2>5, <3>1, Zenon DEF ChunkType
  <2>10. SentWhenIssued' /\ NothingBeforeSending'
    BY <2>1, <2>6, <2>7 DEF ReadInv, SentWhenIssued, NothingBeforeSending
  <2>8. ASSUME NEW x \in RequestIds PROVE VerdictFirst(x)'
    <3>1. ~Reading(x)
      BY <2>1 DEF Reading
    <3>2. CASE x = id
      <4>1. chunk'.lines = s /\ chunk'.id = id /\ chunk'.lines # <<>>
        BY <2>3, <2>5
      <4>2. Reading(id)'
        BY <4>1 DEF Reading, NoChunk
      <4>3. Head(chunk'.lines) = Head(lines[id])
        BY <2>5, <4>1
      <4>4. QED
        BY <2>1, <2>5, <3>1, <3>2, <4>2, <4>3 DEF ReadInv, VerdictFirst
    <3>3. CASE x # id
      <4>1. ~Reading(x)'
        BY <2>3, <3>3 DEF Reading
      <4>2. QED
        BY <2>1, <2>6, <3>1, <3>3, <4>1 DEF ReadInv, VerdictFirst
    <3>4. QED
      BY <3>2, <3>3
  <2>11. QED
    BY <2>6, <2>8, <2>9, <2>10 DEF ReadInv
<1>5. ASSUME NEW id \in RequestIds,
             \/ GraceExpires(id) \/ WaitForRequestOutcomeById(id) \/ CancelWait(id)
      PROVE  ReadInv'
  <2>1. UNCHANGED <<call, link, chunk, lines, requestLines, inbound, issued>>
    BY <1>5 DEF GraceExpires, WaitForRequestOutcomeById, CancelWait,
         ResolvePendingAfterIdle,
                WaitForRequest, CancelRequestWait, Take, Park, requester, responder, history
  <2>2. QED
    BY <2>1, UntouchedReading
<1>6. CASE UNCHANGED flowVars
  BY <1>6, UntouchedReading DEF flowVars, vars, history, requester, responder
<1>7. QED
  BY <1>2, <1>3, <1>4, <1>5, <1>6, RequesterReads, ResponderReads DEF FlowNext,
       RequesterTask

HeardInv ==
  /\ heard \in [RequestIds -> {"never", "joined", "alone"}]
  /\ ResponseWins

(* A Response is heard of live requests only.  Those that are neither being *)
(* opened nor just acknowledged are accepted: the registry records it, once *)
(* and for all.                                                             *)
LEMMA HeardStepPreserves ==
  ASSUME IInv, FlowIInv, ReadInv, HeardInv, [FlowNext]_flowVars
  PROVE  HeardInv'
<1>1. TypeOK /\ HistoryInv
  BY DEF IInv
<1>2. ASSUME NEW id \in RequestIds, ResponseLine(id) PROVE HeardInv'
  <2>1. "response" \notin Verdicts
    BY DEF Verdicts
  <2>2. id \in issued /\ call[id] # "opening"
    BY <1>2, <2>1, HandledLine DEF ResponseLine
  <2>3. call[id] \in {"opened", "returned", "threw"}
    BY <2>2 DEF FlowIInv, CallType, ReadInv, SentWhenIssued
  <2>4. id \in outbound /\ call[id] # "opened" => id \in accepted
    BY <1>1, <2>3 DEF FlowIInv, CallAgreesWithRegistry, HistoryInv, NoOutcome
  <2>5. CASE id \in accepted
    <3>1. Close(id, "response") /\ id \in outbound /\ call[id] # "opened"
      BY <1>1, <1>2, <2>5 DEF ResponseLine, ResolveResponse, TypeOK, FlowIInv,
                             CallAgreesWithRegistry
    <3>2. /\ heard' \in [RequestIds -> {"never", "joined", "alone"}]
          /\ \A x \in RequestIds \ {id} : heard'[x] = heard[x]
      BY <1>2 DEF ResponseLine, Hear, HeardInv
    <3>3. \A x \in RequestIds : resolution'[x] = IF x = id THEN "response" ELSE resolution[x]
      BY <1>1, <3>1 DEF Close, TypeOK
    <3>4. QED
      BY <3>2, <3>3 DEF HeardInv, ResponseWins
  <2>6. CASE id \notin accepted
    <3>1. UNCHANGED vars
      BY <1>2, <2>6 DEF ResponseLine, ResolveResponse
    <3>2. /\ heard' \in [RequestIds -> {"never", "joined", "alone"}]
          /\ \A x \in RequestIds : heard'[x] = heard[x] \/ heard'[x] = "joined"
      BY <1>2, <2>4, <2>6 DEF ResponseLine, Hear, HeardInv
    <3>3. QED
      BY <3>1, <3>2 DEF HeardInv, ResponseWins, vars, history
  <2>7. QED
    BY <2>5, <2>6
<1>3. ASSUME NEW id \in RequestIds, SocketEnd(id) \/ HardTimeout(id) PROVE HeardInv'
  <2>1. /\ heard' = heard /\ id \in outbound
        /\ \E kind \in TerminalKinds : resolution' = [resolution EXCEPT ![id] = kind]
    BY <1>3 DEF SocketEnd, HardTimeout, ResolveOffline, ResolveTimeout, Close,
         TerminalKinds
  <2>2. heard[id] # "alone"
    BY <1>1, <2>1 DEF HeardInv, ResponseWins, HistoryInv, NoOutcome
  <2>3. \A x \in RequestIds \ {id} : resolution'[x] = resolution[x]
    BY <1>1, <2>1 DEF TypeOK
  <2>4. QED
    BY <2>1, <2>2, <2>3 DEF HeardInv, ResponseWins
<1>4. ASSUME NEW id \in RequestIds,
             \/ SendMemberRequest(id) \/ Dispatch(id) \/ ReadChunk(id) \/ AcceptLine(id)
             \/ IdleLine(id) \/ ContinueSend(id)
      PROVE  UNCHANGED <<heard, resolution>>
  BY <1>4 DEF SendMemberRequest, RegisterOutbound, Dispatch, ReadChunk, AcceptLine,
       IdleLine,
              ArmOutboundIdle, ContinueSend, AcceptOutbound, vars, history
<1>5. ASSUME NEW id \in RequestIds, RejectOpen(id) \/ LostAcknowledgement(id) \/ RefuseLine(id)
      PROVE  UNCHANGED <<heard, resolution>>
  BY <1>5 DEF RejectOpen, LostAcknowledgement, RefuseLine, Throw, FailBeforeAcceptance,
              CloseOutcomeUnknown, history
<1>6. ASSUME NEW id \in RequestIds,
             \/ GraceExpires(id) \/ WaitForRequestOutcomeById(id) \/ CancelWait(id)
      PROVE  UNCHANGED <<heard, resolution>>
  BY <1>6 DEF GraceExpires, ResolvePendingAfterIdle, WaitForRequestOutcomeById,
       CancelWait,
              WaitForRequest, CancelRequestWait, Take, Park, history
<1>7. ASSUME \/ SettleAllInboundIdle \/ ResponderExit \/ UNCHANGED flowVars
             \/ \E id \in RequestIds :
                  \/ AcceptInbound(id) \/ RefuseInbound(id)
                  \/ RespondToMemberRequest(id) \/ RemoveInbound(id)
      PROVE  UNCHANGED <<heard, resolution>>
  BY <1>7 DEF SettleAllInboundIdle, ResponderExit, flowVars, AcceptInbound, RefuseInbound,
              RespondToMemberRequest, RemoveInbound, vars, history
<1>8. UNCHANGED <<heard, resolution>> => HeardInv'
  BY DEF HeardInv, ResponseWins
<1>9. QED
  BY <1>2, <1>3, <1>4, <1>5, <1>6, <1>7, <1>8 DEF FlowNext, RequesterTask

(* However many lines a chunk carries: a Response that reaches the requester *)
(* while the request is open wins, unless it was handled in the task of the  *)
(* acknowledgement; no timeout, no end of the socket and no later step       *)
(* records anything else.                                                    *)
THEOREM ResponseWinsHolds == FlowSpec => []ResponseWins
<1>1. FlowInit => ReadInv /\ HeardInv
  BY ReadInitially DEF FlowInit, HeardInv, ResponseWins
<1>2. IInv /\ FlowIInv /\ ReadInv /\ HeardInv /\ [FlowNext]_flowVars
        => ReadInv' /\ HeardInv'
  BY ReadStepPreserves, HeardStepPreserves
<1>3. FlowSpec => []IInv
  BY FlowRefinesRegistry, Invariance, PTL
<1>4. HeardInv => ResponseWins
  BY DEF HeardInv
<1>5. QED
  BY <1>1, <1>2, <1>3, <1>4, FlowInvariance, PTL DEF FlowSpec
=============================================================================
