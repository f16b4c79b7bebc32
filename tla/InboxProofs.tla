----------------------------- MODULE InboxProofs -----------------------------
(***************************************************************************)
(* Two ways into an Inbox, InboxDelivery and then CrewIntake; neither uses *)
(* what is proved about the other.                                         *)
(*                                                                         *)
(* InboxDelivery:                                                          *)
(* For any number of senders, messages and sessions: the stored items have *)
(* places of their own and fit the inbox, and no wake-up is lost; and,     *)
(* provided that no two messages share target and payload (Twins is empty) *)
(* and a listing is not empty by its limit (MaxListed > 0), no message is  *)
(* lost, the inbox implements Mailbox, a session gets a message once for   *)
(* each time it joined, and cancelling is final.                           *)
(*                                                                         *)
(* The first rests on the lock file: at most one sender is between its     *)
(* listing and its rename, so what it computed from the listing still      *)
(* holds (Chosen).  The second rests on the evidence: what an attempt has  *)
(* seen is in some session's log for ever (SeenLogged), and without twins  *)
(* an id names one message.  The refinement adds that stored items keep    *)
(* the order of arrival (InOrder), so that the oldest stored item has no   *)
(* predecessor left to overtake.                                           *)
(*                                                                         *)
(* CrewIntake:                                                             *)
(* For any number of sessions, Members, files and crashes, and until the   *)
(* lock of a living scan is deleted by another process (robbed): one file  *)
(* reaches one Member, what lies in processed/ was persisted first, and no *)
(* file is lost that was not published while its name was being put back.  *)
(*                                                                         *)
(* All three rest on the lock: whoever works has it (Alone), so what a     *)
(* scan saw of the files, the intent and the receipt at one step is still  *)
(* so at the next (Fits, Commits).  A scan without the lock could write    *)
(* over an intent or a file that appeared after it had looked; then        *)
(* nothing is claimed.                                                     *)
(***************************************************************************)
EXTENDS InboxDelivery, CrewIntake, FiniteSetTheorems, TLAPS

-----------------------------------------------------------------------------
(* The store.                                                               *)

StoreTypes ==
  /\ sender \in [Messages -> SenderStates]
  /\ chosen \in [Messages -> Nat]
  /\ dir \subseteq Items /\ IsFiniteSet(dir)

Exclusive ==
  /\ \A m \in Messages : sender[m] = "locked" => m \in lock
  /\ \A m, other \in lock : m = other

\* The sender with the lock has a free place and a number above all others.
Chosen ==
  \A m \in Messages : sender[m] = "locked" =>
    Cardinality(dir) < MaxItems /\ \A i \in dir : i.sequence < chosen[m]

StoreInv == StoreTypes /\ Exclusive /\ Chosen /\ StoreConsistent

\* The number nextInboxSequence computes is above all stored ones.
LEMMA NextSequenceAbove ==
  ASSUME dir \subseteq Items, NEW n \in NextSequence(dir)
  PROVE  n \in Nat /\ \A i \in dir : i.sequence < n
  BY DEF NextSequence, Items

\* Fewer items take less room.
LEMMA Shrunk ==
  ASSUME StoreInv, dir' \subseteq dir, UNCHANGED senders
  PROVE  StoreInv'
<1>1. IsFiniteSet(dir') /\ Cardinality(dir') <= Cardinality(dir)
      /\ Cardinality(dir') \in Nat /\ Cardinality(dir) \in Nat
  BY FS_Subset, FS_CardinalityType DEF StoreInv, StoreTypes
<1>2. StoreTypes' /\ Exclusive'
  BY <1>1 DEF StoreInv, StoreTypes, Exclusive, senders
<1>3. Chosen'
  BY <1>1, InboxAssumption DEF StoreInv, Chosen, senders
<1>4. StoreConsistent'
  BY <1>1, InboxAssumption DEF StoreInv, StoreConsistent
<1>5. QED
  BY <1>2, <1>3, <1>4 DEF StoreInv

\* What a sender computed under the lock holds when it renames its file into place.
LEMMA SendersKeepStore ==
  ASSUME StoreInv, NEW m \in Messages, SenderStep(m)
  PROVE  StoreInv'
<1>1. CASE LockInbox(m)
  <2>1. PICK n \in NextSequence(dir) : chosen' = [chosen EXCEPT ![m] = n]
    BY <1>1 DEF LockInbox
  <2>2. n \in Nat /\ \A i \in dir : i.sequence < n
    BY NextSequenceAbove DEF StoreInv, StoreTypes
  <2>3. StoreTypes'
    BY <1>1, <2>1, <2>2 DEF LockInbox, Move, StoreInv, StoreTypes, SenderStates
  <2>4. Exclusive'
    BY <1>1 DEF LockInbox, Move, StoreInv, StoreTypes, Exclusive
  <2>5. Chosen'
    BY <1>1, <2>1, <2>2 DEF LockInbox, Move, StoreInv, StoreTypes, Exclusive, Chosen
  <2>6. StoreConsistent'
    BY <1>1 DEF LockInbox, StoreInv, StoreConsistent
  <2>7. QED
    BY <2>3, <2>4, <2>5, <2>6 DEF StoreInv
<1>2. CASE PersistItem(m)
  <2> DEFINE new == [sequence |-> chosen[m], message |-> m]
  <2>1. /\ sender[m] = "locked" /\ dir' = dir \cup {new} /\ UNCHANGED <<chosen, lock>>
        /\ sender' = [sender EXCEPT ![m] = "persisted"]
    BY <1>2 DEF PersistItem, Move
  <2>2. new \in Items /\ new.sequence = chosen[m]
    BY DEF StoreInv, StoreTypes, Items
  <2>3. \A i \in dir : i.sequence \in Nat /\ i.sequence < chosen[m]
    BY <2>1 DEF StoreInv, StoreTypes, Chosen, Items
  <2>4. IsFiniteSet(dir') /\ Cardinality(dir') <= Cardinality(dir) + 1
        /\ Cardinality(dir) \in Nat /\ Cardinality(dir') \in Nat
    <3>1. IsFiniteSet(dir) /\ Cardinality(dir) \in Nat
      BY FS_CardinalityType DEF StoreInv, StoreTypes
    <3>2. /\ IsFiniteSet(dir \cup {new})
          /\ Cardinality(dir \cup {new}) = IF new \in dir THEN Cardinality(dir)
                                                        ELSE Cardinality(dir) + 1
      BY <3>1, FS_AddElement
    <3>3. QED
      BY <2>1, <3>1, <3>2
  <2>5. StoreTypes'
    BY <2>1, <2>2, <2>4 DEF StoreInv, StoreTypes, SenderStates
  <2>6. Exclusive' /\ \A other \in Messages : sender'[other] # "locked"
    BY <2>1 DEF StoreInv, StoreTypes, Exclusive
  <2>7. Chosen'
    BY <2>6 DEF Chosen
  <2>8. Cardinality(dir') <= MaxItems
    BY <2>1, <2>4, InboxAssumption DEF StoreInv, Chosen
  <2>9. ASSUME NEW i \in dir', NEW j \in dir', i.sequence = j.sequence PROVE i = j
    BY <2>1, <2>2, <2>3, <2>9 DEF StoreInv, StoreTypes, StoreConsistent
  <2>10. QED
    BY <2>5, <2>6, <2>7, <2>8, <2>9 DEF StoreInv, StoreConsistent
<1>3. CASE RefuseEnqueue(m) \/ Unlock(m) \/ SendHint(m) \/ SkipHint(m) \/ SenderCrash(m)
  <2>1. /\ UNCHANGED <<chosen, dir>> /\ lock' \subseteq lock
        /\ \E s \in SenderStates \ {"locked"} : sender' = [sender EXCEPT ![m] = s]
        /\ \A other \in Messages \ {m} : other \in lock => other \in lock'
    BY <1>3 DEF RefuseEnqueue, Unlock, SendHint, SkipHint, SenderCrash, Move, SenderStates
  <2>2. StoreTypes'
    BY <2>1 DEF StoreInv, StoreTypes
  <2>3. Exclusive'
    BY <2>1 DEF StoreInv, StoreTypes, Exclusive
  <2>4. Chosen'
    BY <2>1 DEF StoreInv, StoreTypes, Chosen
  <2>5. StoreConsistent'
    BY <2>1 DEF StoreInv, StoreConsistent
  <2>6. QED
    BY <2>2, <2>3, <2>4, <2>5 DEF StoreInv
<1>4. QED
  BY <1>1, <1>2, <1>3 DEF SenderStep

\* The recipient only ever removes items, and leaves the senders alone.
LEMMA RecipientShrinks ==
  RecipientStep \/ BridgeStep \/ UNCHANGED inboxVars => dir' \subseteq dir /\ UNCHANGED senders
<1>1. CASE RecipientStep
  BY <1>1 DEF RecipientStep, StartSession, JoinCrew, LeaveCrew, EndProcess, PauseInbox,
     ResumeInbox, DeliverFollowUp, EndTurn, RequestCancel
<1>2. CASE BridgeStep
  BY <1>2 DEF BridgeStep, BeginOffer, AbandonOffer, ReadEvidence, ListItems,
       RemoveDelivered,
     RemoveListed, Reconcile, OfferOldest, BeginCancel, CancelItem
<1>3. CASE UNCHANGED inboxVars
  BY <1>3 DEF inboxVars
<1>4. QED
  BY <1>1, <1>2, <1>3

LEMMA StoreInvHolds == InboxSpec => []StoreInv
<1>1. InboxInit => StoreInv
  <2>1. SUFFICES ASSUME InboxInit PROVE StoreInv
    OBVIOUS
  <2>2. StoreTypes
    BY <2>1, FS_EmptySet DEF InboxInit, StoreTypes, SenderStates
  <2>3. Exclusive /\ Chosen
    BY <2>1 DEF InboxInit, Exclusive, Chosen
  <2>4. StoreConsistent
    BY <2>1, FS_EmptySet, InboxAssumption DEF InboxInit, StoreConsistent
  <2>5. QED
    BY <2>2, <2>3, <2>4 DEF StoreInv
<1>2. StoreInv /\ [InboxNext]_inboxVars => StoreInv'
  <2>1. SUFFICES ASSUME StoreInv, [InboxNext]_inboxVars PROVE StoreInv'
    OBVIOUS
  <2>2. CASE \E m \in Messages : SenderStep(m)
    BY <2>1, <2>2, SendersKeepStore
  <2>3. CASE RecipientStep \/ BridgeStep \/ UNCHANGED inboxVars
    BY <2>1, <2>3, RecipientShrinks, Shrunk
  <2>4. QED
    BY <2>1, <2>2, <2>3 DEF InboxNext
<1>3. QED
  BY <1>1, <1>2, PTL DEF InboxSpec

\* Concurrent senders, and senders that die with the lock, give no two stored items the
\* same place and never fill the inbox beyond MAX_INBOX_ITEMS (MemberInboxStore.enqueue).
THEOREM StoreConsistentHolds == InboxSpec => []StoreConsistent
<1>1. StoreInv => StoreConsistent
  BY DEF StoreInv
<1>2. QED
  BY <1>1, StoreInvHolds, PTL

-----------------------------------------------------------------------------
(* No message is lost.                                                      *)

LogTypes ==
  /\ dir \subseteq Items
  /\ followUps \in Seq(Items)
  /\ log \in [Sessions -> Seq(Items)]
  /\ session \in Sessions

\* What an attempt has read as evidence is in a session's log.
SeenLogged == \A id \in seen : \E s \in Sessions : id \in Evidence(s)

LossInv == LogTypes /\ SeenLogged /\ NoMessageLost

\* Without twins an id names one message.
LEMMA IdNames ==
  ASSUME Twins = {}, NEW i \in Items, NEW j \in Items, Id(i) = Id(j)
  PROVE  i.message = j.message
  BY DEF Id, Payload, Items

\* Logs only grow, and the Follow-ups Pi begins come from the store.
LEMMA LogsGrow ==
  ASSUME LogTypes, chosen \in [Messages -> Nat], [InboxNext]_inboxVars
  PROVE  /\ LogTypes'
         /\ \A s \in Sessions : /\ DOMAIN log[s] \subseteq DOMAIN log'[s]
                                /\ \A k \in DOMAIN log[s] : log'[s][k] = log[s][k]
<1>1. CASE DeliverFollowUp
  <2>1. Head(followUps) \in Items /\ Tail(followUps) \in Seq(Items)
    BY <1>1 DEF DeliverFollowUp, LogTypes
  <2>2. log[session] \in Seq(Items) /\ Append(log[session], Head(followUps)) \in Seq(Items)
    BY <2>1 DEF LogTypes
  <2>3. LogTypes'
    BY <1>1, <2>1, <2>2 DEF DeliverFollowUp, LogTypes, process
  <2>4. ASSUME NEW s \in Sessions
        PROVE  /\ DOMAIN log[s] \subseteq DOMAIN log'[s]
               /\ \A k \in DOMAIN log[s] : log'[s][k] = log[s][k]
    <3>1. CASE s = session
      BY <1>1, <2>1, <2>2, <3>1 DEF DeliverFollowUp, LogTypes
    <3>2. CASE s # session
      BY <1>1, <3>2 DEF DeliverFollowUp, LogTypes
    <3>3. QED
      BY <3>1, <3>2
  <2>5. QED
    BY <2>3, <2>4
<1>2. CASE OfferOldest
  <2>1. followUps' \in Seq(Items)
    <3>1. ASSUME NEW i \in OldestItem(dir) PROVE Append(followUps, i) \in Seq(Items)
      BY <3>1 DEF OldestItem, LogTypes
    <3>2. QED
      BY <1>2, <3>1 DEF OfferOldest, LogTypes
  <2>2. QED
    BY <1>2, <2>1 DEF OfferOldest, LogTypes, process
<1>3. CASE \E m \in Messages : PersistItem(m)
  <2>1. dir' \subseteq Items
    BY <1>3 DEF PersistItem, LogTypes, Items
  <2>2. QED
    BY <1>3, <2>1 DEF PersistItem, LogTypes, pi, process, queue
<1>4. CASE EndProcess
  BY <1>4 DEF EndProcess, LogTypes
<1>5. CASE \E m \in Messages : SenderStep(m) /\ ~PersistItem(m)
  BY <1>5 DEF SenderStep, LockInbox, RefuseEnqueue, Unlock, SendHint, SkipHint,
       SenderCrash,
     LogTypes, pi, process, queue
<1>6. CASE RecipientStep /\ ~DeliverFollowUp /\ ~EndProcess
  BY <1>6 DEF RecipientStep, StartSession, JoinCrew, LeaveCrew, PauseInbox, ResumeInbox,
       EndTurn,
     RequestCancel, LogTypes, process, queue
<1>7. CASE BridgeStep /\ ~OfferOldest
  BY <1>7 DEF BridgeStep, BeginOffer, AbandonOffer, ReadEvidence, ListItems,
       RemoveDelivered,
     RemoveListed, Reconcile, BeginCancel, CancelItem, LogTypes, pi, process, queue
<1>8. CASE UNCHANGED inboxVars
  BY <1>8 DEF inboxVars, LogTypes, pi, process, queue
<1>9. QED
  BY <1>1, <1>2, <1>3, <1>4, <1>5, <1>6, <1>7, <1>8 DEF InboxNext, SenderStep

\* Evidence stays, and a delivered or cancelled message stays delivered or cancelled.
LEMMA EvidenceStays ==
  ASSUME \A s \in Sessions : /\ DOMAIN log[s] \subseteq DOMAIN log'[s]
                             /\ \A k \in DOMAIN log[s] : log'[s][k] = log[s][k]
  PROVE  /\ \A s \in Sessions : Evidence(s) \subseteq Evidence(s)'
         /\ Delivered \subseteq Delivered'
<1>1. ASSUME NEW s \in Sessions PROVE Evidence(s) \subseteq Evidence(s)'
  BY <1>1 DEF Evidence
<1>2. ASSUME NEW s \in Sessions PROVE Logged(s) \subseteq Logged(s)'
  BY <1>2 DEF Logged
<1>3. QED
  BY <1>1, <1>2 DEF Delivered

\* Only ReadEvidence adds to what an attempt has seen.
LEMMA SeenPreserved ==
  ASSUME LossInv, chosen \in [Messages -> Nat], [InboxNext]_inboxVars
  PROVE  SeenLogged'
<1>1. \A s \in Sessions : Evidence(s) \subseteq Evidence(s)'
  BY LogsGrow, EvidenceStays DEF LossInv
<1>2. seen' \subseteq seen \/ (seen' = Evidence(session) /\ UNCHANGED log)
  BY DEF InboxNext, SenderStep, LockInbox, RefuseEnqueue, PersistItem, Unlock, SendHint,
       SkipHint,
     SenderCrash, RecipientStep, StartSession, JoinCrew, LeaveCrew, EndProcess, PauseInbox,
     ResumeInbox, DeliverFollowUp, EndTurn, RequestCancel, BridgeStep, BeginOffer, AbandonOffer,
     ReadEvidence, ListItems, RemoveDelivered, RemoveListed, Reconcile, OfferOldest, BeginCancel,
     CancelItem, Finish, inboxVars, bridge, attempt, pi, queue
<1>3. QED
  BY <1>1, <1>2 DEF LossInv, LogTypes, SeenLogged

\* A removal takes the items of one id, which without twins is one delivered message;
\* a cancel records what it takes.
LEMMA RemovalsAccounted ==
  ASSUME Twins = {}, LossInv, chosen \in [Messages -> Nat], [InboxNext]_inboxVars,
         NEW j \in dir \ dir'
  PROVE  j.message \in Delivered \cup Cancelled'
<1>1. CASE RemoveDelivered
  <2>1. PICK i \in listed : Id(i) \in seen /\ dir' = {k \in dir : Id(k) # Id(i)}
    BY <1>1 DEF RemoveDelivered, RemoveListed, OldestItem
  <2>2. PICK s \in Sessions : Id(i) \in Evidence(s)
    BY <2>1 DEF LossInv, SeenLogged
  <2>3. PICK n \in DOMAIN log[s] : Id(log[s][n]) = Id(i)
    BY <2>2 DEF Evidence
  <2>4. Id(j) = Id(i) /\ j \in Items /\ log[s][n] \in Items
    BY <2>1 DEF LossInv, LogTypes
  <2>5. j.message = log[s][n].message
    BY <2>3, <2>4, IdNames
  <2>6. QED
    BY <2>5 DEF Delivered, Logged
<1>2. CASE CancelItem
  <2>1. <<j.message, session>> \in cancelled'
    BY <1>2 DEF CancelItem
  <2>2. <<j.message, session>>[1] \in Cancelled'
    BY <2>1, Zenon DEF Cancelled
  <2>3. QED
    BY <2>2
<1>3. CASE \E m \in Messages : SenderStep(m)
  BY <1>3 DEF SenderStep, LockInbox, RefuseEnqueue, PersistItem, Unlock, SendHint,
       SkipHint,
     SenderCrash
<1>4. CASE RecipientStep \/ UNCHANGED inboxVars
  BY <1>4 DEF RecipientStep, StartSession, JoinCrew, LeaveCrew, EndProcess, PauseInbox,
       ResumeInbox,
     DeliverFollowUp, EndTurn, RequestCancel, inboxVars
<1>5. CASE BridgeStep /\ ~RemoveDelivered /\ ~CancelItem
  BY <1>5 DEF BridgeStep, BeginOffer, AbandonOffer, ReadEvidence, ListItems, Reconcile,
       OfferOldest,
     BeginCancel
<1>6. QED
  BY <1>1, <1>2, <1>3, <1>4, <1>5 DEF InboxNext

\* What arrives is stored, and what was cancelled stays so.
LEMMA ArrivalsStored ==
  ASSUME arrivals \in Seq(Messages), [InboxNext]_inboxVars
  PROVE  /\ arrivals' \in Seq(Messages)
         /\ \A m \in Arrived' : m \in Arrived \/ \E i \in dir' : i.message = m
         /\ Cancelled \subseteq Cancelled'
<1>1. CASE \E m \in Messages : PersistItem(m)
  <2>1. PICK m \in Messages : PersistItem(m)
    BY <1>1
  <2>2. arrivals' = Append(arrivals, m) /\ arrivals' \in Seq(Messages) /\ UNCHANGED cancelled
    BY <2>1 DEF PersistItem
  <2>3. \A a \in Arrived' : a \in Arrived \/ a = m
    BY <2>2 DEF Arrived
  <2>4. \E i \in dir' : i.message = m
    <3>1. [sequence |-> chosen[m], message |-> m] \in dir'
      BY <2>1 DEF PersistItem
    <3>2. [sequence |-> chosen[m], message |-> m].message = m
      OBVIOUS
    <3>3. QED
      BY <3>1, <3>2, Zenon
  <2>5. QED
    BY <2>2, <2>3, <2>4 DEF Cancelled
<1>2. CASE ~ \E m \in Messages : PersistItem(m)
  <2>1. UNCHANGED arrivals /\ cancelled \subseteq cancelled'
    BY <1>2 DEF InboxNext, SenderStep, LockInbox, RefuseEnqueue, Unlock, SendHint,
         SkipHint,
       SenderCrash, RecipientStep, StartSession, JoinCrew, LeaveCrew, EndProcess, PauseInbox,
       ResumeInbox, DeliverFollowUp, EndTurn, RequestCancel, BridgeStep, BeginOffer, AbandonOffer,
       ReadEvidence, ListItems, RemoveDelivered, RemoveListed, Reconcile, OfferOldest, BeginCancel,
       CancelItem, inboxVars, history
  <2>2. QED
    BY <2>1 DEF Arrived, Cancelled
<1>3. QED
  BY <1>1, <1>2

DeliveryInv == LossInv /\ arrivals \in Seq(Messages) /\ chosen \in [Messages -> Nat]

LEMMA DeliveryInvHolds ==
  ASSUME Twins = {}
  PROVE  InboxSpec => []DeliveryInv
<1>1. InboxInit => DeliveryInv
  <2>1. SUFFICES ASSUME InboxInit PROVE DeliveryInv
    OBVIOUS
  <2>2. LogTypes /\ arrivals \in Seq(Messages) /\ chosen \in [Messages -> Nat]
    BY <2>1 DEF InboxInit, LogTypes
  <2>3. SeenLogged /\ NoMessageLost
    BY <2>1 DEF InboxInit, SeenLogged, NoMessageLost, Arrived
  <2>4. QED
    BY <2>2, <2>3 DEF DeliveryInv, LossInv
<1>2. DeliveryInv /\ [InboxNext]_inboxVars => DeliveryInv'
  <2>1. SUFFICES ASSUME DeliveryInv, [InboxNext]_inboxVars PROVE DeliveryInv'
    OBVIOUS
  <2>2. LogTypes' /\ SeenLogged' /\ arrivals' \in Seq(Messages)
    BY <2>1, LogsGrow, SeenPreserved, ArrivalsStored DEF DeliveryInv, LossInv
  <2>3. chosen' \in [Messages -> Nat]
    <3>1. UNCHANGED chosen
          \/ \E m \in Messages, n \in NextSequence(dir) : chosen' = [chosen EXCEPT ![m] = n]
      BY <2>1 DEF InboxNext, SenderStep, LockInbox, RefuseEnqueue, PersistItem, Unlock,
           SendHint,
         SkipHint, SenderCrash, RecipientStep, StartSession, JoinCrew, LeaveCrew, EndProcess,
         PauseInbox, ResumeInbox, DeliverFollowUp, EndTurn, RequestCancel, BridgeStep, BeginOffer,
         AbandonOffer, ReadEvidence, ListItems, RemoveDelivered, RemoveListed, Reconcile,
         OfferOldest, BeginCancel, CancelItem, inboxVars, senders
    <3>2. \A n \in NextSequence(dir) : n \in Nat
      BY <2>1, NextSequenceAbove DEF DeliveryInv, LossInv, LogTypes
    <3>3. QED
      BY <2>1, <3>1, <3>2 DEF DeliveryInv
  <2>4. ASSUME NEW m \in Arrived'
        PROVE  m \in (Delivered \cup Cancelled)' \/ \E i \in dir' : i.message = m
    <3>1. Delivered \subseteq Delivered' /\ Cancelled \subseteq Cancelled'
      BY <2>1, LogsGrow, EvidenceStays, ArrivalsStored DEF DeliveryInv, LossInv
    <3>2. CASE m \in Delivered \cup Cancelled
      BY <3>1, <3>2
    <3>3. CASE \E i \in dir : i.message = m
      <4>1. PICK i \in dir : i.message = m
        BY <3>3
      <4>2. CASE i \in dir'
        BY <4>1, <4>2
      <4>3. CASE i \notin dir'
        BY <2>1, <3>1, <4>1, <4>3, RemovalsAccounted DEF DeliveryInv
      <4>4. QED
        BY <4>2, <4>3
    <3>4. CASE \E i \in dir' : i.message = m
      BY <3>4
    <3>5. QED
      BY <2>1, <2>4, <3>2, <3>3, <3>4, ArrivalsStored
         DEF DeliveryInv, LossInv, NoMessageLost
  <2>5. NoMessageLost'
    BY <2>4 DEF NoMessageLost
  <2>6. QED
    BY <2>2, <2>3, <2>5 DEF DeliveryInv, LossInv
<1>3. QED
  BY <1>1, <1>2, PTL DEF InboxSpec

\* A persisted message stays in the inbox until a session's log shows it or the user
\* cancelled it (attemptOffer, cancel), through every crash and change of session.
THEOREM NoMessageLostHolds ==
  ASSUME Twins = {}
  PROVE  InboxSpec => []NoMessageLost
<1>1. DeliveryInv => NoMessageLost
  BY DEF DeliveryInv, LossInv
<1>2. QED
  BY <1>1, DeliveryInvHolds, PTL

-----------------------------------------------------------------------------
(* The inbox implements Mailbox.                                            *)

\* A stored item has arrived.
Stored == \A x \in dir : x.message \in Arrived

\* The sequence numbers of stored items follow the order of arrival.
InOrder ==
  \A x, y \in dir, i, j \in DOMAIN arrivals :
    x.message = arrivals[i] /\ y.message = arrivals[j] /\ i < j => x.sequence < y.sequence

\* An enqueue call persists its message once.
Once == \A m \in Arrived : sender[m] \notin {"unsent", "locked"}

\* A Follow-up's predecessors are delivered or cancelled before it is queued.
Preceded(i) == \A j \in 1 .. i - 1 : arrivals[j] \in Delivered \cup Cancelled
Ready ==
  \A k \in DOMAIN followUps :
    \E i \in DOMAIN arrivals : arrivals[i] = followUps[k].message /\ Preceded(i)

OrderInv == Stored /\ InOrder /\ Once /\ Ready

MailboxInv == StoreInv /\ DeliveryInv /\ OrderInv

\* The actions that touch neither the arrivals, the logs nor the cancelled messages.
Quiet == UNCHANGED <<arrivals, log, cancelled>>

LEMMA QuietSteps ==
  ASSUME [InboxNext]_inboxVars
  PROVE  \/ \E m \in Messages : PersistItem(m)
         \/ DeliverFollowUp
         \/ CancelItem
         \/ /\ Quiet /\ dir' \subseteq dir
            /\ \/ followUps' \in {followUps, <<>>}
               \/ OfferOldest
<1>1. CASE \E m \in Messages : SenderStep(m)
  BY <1>1 DEF SenderStep, LockInbox, RefuseEnqueue, Unlock, SendHint, SkipHint,
       SenderCrash,
     Quiet, pi, queue, history
<1>2. CASE RecipientStep
  BY <1>2 DEF RecipientStep, StartSession, JoinCrew, LeaveCrew, EndProcess, PauseInbox,
     ResumeInbox, EndTurn, RequestCancel, Quiet, queue, history
<1>3. CASE BridgeStep
  BY <1>3 DEF BridgeStep, BeginOffer, AbandonOffer, ReadEvidence, ListItems,
       RemoveDelivered,
     RemoveListed, Reconcile, OfferOldest, BeginCancel, Quiet, pi, queue, history
<1>4. CASE UNCHANGED inboxVars
  BY <1>4 DEF inboxVars, Quiet, pi, queue, history
<1>5. QED
  BY <1>1, <1>2, <1>3, <1>4 DEF InboxNext

\* A call that has left "unsent" and "locked" does not return there.
LEMMA SendersAdvance ==
  ASSUME StoreInv, [InboxNext]_inboxVars, NEW m \in Messages,
         sender[m] \notin {"unsent", "locked"}
  PROVE  sender'[m] \notin {"unsent", "locked"}
<1>1. ASSUME NEW other \in Messages, SenderStep(other) PROVE sender'[m] \notin {"unsent", "locked"}
  BY <1>1 DEF SenderStep, LockInbox, RefuseEnqueue, PersistItem, Unlock, SendHint,
       SkipHint,
     SenderCrash, Move, StoreInv, StoreTypes
<1>2. CASE RecipientStep \/ BridgeStep \/ UNCHANGED inboxVars
  BY <1>2, RecipientShrinks DEF senders
<1>3. QED
  BY <1>1, <1>2 DEF InboxNext

\* A sender adds a message that has not arrived, at the end and above all others.
LEMMA PersistKeepsOrder ==
  ASSUME MailboxInv, NEW m \in Messages, PersistItem(m)
  PROVE  OrderInv'
<1> DEFINE new == [sequence |-> chosen[m], message |-> m]
<1> DEFINE n == Len(arrivals) + 1
<1>1. /\ dir' = dir \cup {new} /\ arrivals' = Append(arrivals, m)
      /\ sender[m] = "locked" /\ sender' = [sender EXCEPT ![m] = "persisted"]
      /\ UNCHANGED <<followUps, log, cancelled>>
  BY DEF PersistItem, Move, pi, queue
<1>2. new.message = m /\ new.sequence = chosen[m] /\ \A x \in dir : x.sequence < chosen[m]
  BY <1>1 DEF MailboxInv, StoreInv, Chosen
<1>3. arrivals \in Seq(Messages) /\ sender \in [Messages -> SenderStates] /\ m \notin Arrived
  BY <1>1 DEF MailboxInv, DeliveryInv, StoreInv, StoreTypes, OrderInv, Once
<1>4. /\ DOMAIN arrivals = 1 .. n - 1 /\ DOMAIN arrivals' = 1 .. n /\ n - 1 \in Nat
      /\ arrivals'[n] = m /\ \A i \in 1 .. n - 1 : arrivals'[i] = arrivals[i]
  BY <1>1, <1>3
<1>5. Arrived' = Arrived \cup {m}
  BY <1>4 DEF Arrived
<1>6. \A i \in 1 .. n - 1 : arrivals[i] # m
  BY <1>3, <1>4 DEF Arrived
<1>7. Stored'
  BY <1>1, <1>2, <1>5 DEF MailboxInv, OrderInv, Stored
<1>8. InOrder'
  <2>1. SUFFICES ASSUME NEW x \in dir', NEW y \in dir', NEW i \in 1 .. n, NEW j \in 1 .. n,
                        x.message = arrivals'[i], y.message = arrivals'[j], i < j
                 PROVE  x.sequence < y.sequence
    BY <1>4 DEF InOrder
  <2>2. i \in 1 .. n - 1 /\ arrivals'[i] = arrivals[i]
    BY <2>1, <1>4
  <2>3. x \in dir
    BY <2>1, <2>2, <1>1, <1>2, <1>6
  <2>4. CASE j = n
    <3>1. y.message = m
      BY <2>1, <2>4, <1>4
    <3>2. y = new
      <4>1. y \in dir => y.message \in Arrived
        BY DEF MailboxInv, OrderInv, Stored
      <4>2. QED
        BY <3>1, <4>1, <1>1, <1>3
    <3>3. QED
      BY <2>3, <3>2, <1>2
  <2>5. CASE j # n
    <3>1. j \in 1 .. n - 1 /\ arrivals'[j] = arrivals[j]
      BY <2>1, <2>5, <1>4
    <3>2. y \in dir
      BY <2>1, <3>1, <1>1, <1>2, <1>6
    <3>3. QED
      BY <2>1, <2>2, <2>3, <3>1, <3>2, <1>4 DEF MailboxInv, OrderInv, InOrder
  <2>6. QED
    BY <2>4, <2>5
<1>9. Once'
  BY <1>1, <1>3, <1>5 DEF MailboxInv, OrderInv, Once
<1>10. Ready'
  <2>1. SUFFICES ASSUME NEW k \in DOMAIN followUps
                 PROVE  \E i \in DOMAIN arrivals' :
                          arrivals'[i] = followUps[k].message /\ Preceded(i)'
    BY <1>1 DEF Ready
  <2>2. PICK i \in DOMAIN arrivals : arrivals[i] = followUps[k].message /\ Preceded(i)
    BY DEF MailboxInv, OrderInv, Ready
  <2>3. (Delivered \cup Cancelled)' = Delivered \cup Cancelled
    BY <1>1 DEF Delivered, Logged, Cancelled
  <2>4. Preceded(i)'
    BY <2>2, <2>3, <1>4 DEF Preceded
  <2>5. QED
    BY <2>2, <2>4, <1>4
<1>11. QED
  BY <1>7, <1>8, <1>9, <1>10 DEF OrderInv

\* The oldest stored item has no predecessor that is stored, so all are accounted for.
LEMMA OldestReady ==
  ASSUME MailboxInv, NEW x \in OldestItem(dir)
  PROVE  \E i \in DOMAIN arrivals : arrivals[i] = x.message /\ Preceded(i)
<1>1. x \in dir /\ x.sequence \in Nat /\ \A y \in dir : ~(y.sequence < x.sequence)
  BY DEF OldestItem, Before, MailboxInv, StoreInv, StoreTypes, Items
<1>2. PICK i \in DOMAIN arrivals : arrivals[i] = x.message
  BY <1>1 DEF MailboxInv, OrderInv, Stored, Arrived
<1>3. ASSUME NEW j \in 1 .. i - 1 PROVE arrivals[j] \in Delivered \cup Cancelled
  <2>1. j \in DOMAIN arrivals /\ j < i
    BY <1>2, <1>3 DEF MailboxInv, DeliveryInv
  <2>2. arrivals[j] \in Arrived
    BY <2>1 DEF Arrived
  <2>3. arrivals[j] \in Delivered \cup Cancelled \/ \E y \in dir : y.message = arrivals[j]
    BY <2>2 DEF MailboxInv, DeliveryInv, LossInv, NoMessageLost
  <2>4. \A y \in dir : y.message # arrivals[j]
    BY <1>1, <1>2, <2>1 DEF MailboxInv, OrderInv, InOrder
  <2>5. QED
    BY <2>3, <2>4
<1>4. QED
  BY <1>2, <1>3 DEF Preceded

\* Without a new arrival, order is kept: items only go, and evidence only grows.
LEMMA QuietKeepsOrder ==
  ASSUME MailboxInv, StoreInv', [InboxNext]_inboxVars,
         ~ \E m \in Messages : PersistItem(m)
  PROVE  OrderInv'
<1>1. UNCHANGED arrivals /\ dir' \subseteq dir /\ Cancelled \subseteq Cancelled'
  <2>1. UNCHANGED arrivals /\ dir' \subseteq dir /\ cancelled \subseteq cancelled'
    BY QuietSteps DEF Quiet, DeliverFollowUp, CancelItem, history
  <2>2. QED
    BY <2>1 DEF Cancelled
<1>2. Delivered \subseteq Delivered'
  BY LogsGrow, EvidenceStays DEF MailboxInv, DeliveryInv, LossInv
<1>3. Stored' /\ InOrder'
  BY <1>1 DEF MailboxInv, OrderInv, Stored, InOrder, Arrived
<1>4. Once'
  <2>1. ASSUME NEW m \in Arrived PROVE sender'[m] \notin {"unsent", "locked"}
    <3>1. m \in Messages
      BY DEF MailboxInv, DeliveryInv, Arrived
    <3>2. QED
      BY <3>1, SendersAdvance DEF MailboxInv, OrderInv, Once
  <2>2. QED
    BY <1>1, <2>1 DEF Once, Arrived
<1>5. ASSUME NEW i \in DOMAIN arrivals, Preceded(i) PROVE Preceded(i)'
  BY <1>1, <1>2, <1>5 DEF Preceded
<1>6. ASSUME NEW k \in DOMAIN followUps'
      PROVE  \E i \in DOMAIN arrivals : arrivals[i] = followUps'[k].message /\ Preceded(i)
  <2>1. followUps \in Seq(Items)
    BY DEF MailboxInv, DeliveryInv, LossInv, LogTypes
  <2>2. CASE \E l \in DOMAIN followUps : followUps'[k] = followUps[l]
    BY <2>2 DEF MailboxInv, OrderInv, Ready
  <2>3. CASE \E x \in OldestItem(dir) : followUps'[k] = x
    BY <2>3, OldestReady
  <2>4. CASE followUps' \in {followUps, <<>>} \/ CancelItem
    <3>1. followUps' \in {followUps, <<>>}
      BY <2>4 DEF CancelItem, pi, queue
    <3>2. QED
      BY <3>1, <2>2
  <2>5. CASE DeliverFollowUp
    <3>1. followUps # <<>> /\ followUps' = Tail(followUps)
      BY <2>5 DEF DeliverFollowUp
    <3>2. k + 1 \in DOMAIN followUps /\ followUps'[k] = followUps[k + 1]
      BY <2>1, <3>1
    <3>3. QED
      BY <3>2, <2>2
  <2>6. CASE OfferOldest
    <3>1. UNCHANGED followUps \/ \E x \in OldestItem(dir) : followUps' = Append(followUps, x)
      BY <2>6 DEF OfferOldest
    <3>2. CASE UNCHANGED followUps
      BY <3>2, <2>2
    <3>3. ASSUME NEW x \in OldestItem(dir), followUps' = Append(followUps, x)
          PROVE  \E i \in DOMAIN arrivals : arrivals[i] = followUps'[k].message /\ Preceded(i)
      <4>1. (k \in DOMAIN followUps /\ followUps'[k] = followUps[k]) \/ followUps'[k] = x
        BY <2>1, <3>3
      <4>2. QED
        BY <4>1, <2>2, <2>3
    <3>4. QED
      BY <3>1, <3>2, <3>3
  <2>7. QED
    BY <2>4, <2>5, <2>6, QuietSteps
<1>7. Ready'
  BY <1>1, <1>5, <1>6 DEF Ready
<1>8. QED
  BY <1>3, <1>4, <1>7 DEF OrderInv

LEMMA MailboxInvHolds ==
  ASSUME Twins = {}
  PROVE  InboxSpec => []MailboxInv
<1>1. InboxInit => OrderInv
  BY DEF InboxInit, OrderInv, Stored, InOrder, Once, Ready, Arrived
<1>2. MailboxInv /\ StoreInv' /\ [InboxNext]_inboxVars => OrderInv'
  BY PersistKeepsOrder, QuietKeepsOrder
<1>3. OrderInv /\ StoreInv /\ DeliveryInv <=> MailboxInv
  BY DEF MailboxInv
<1>4. QED
  BY <1>1, <1>2, <1>3, StoreInvHolds, DeliveryInvHolds, PTL DEF InboxSpec

\* Each step of the inbox is one of the mailbox or leaves it alone.
LEMMA InboxStepsMap ==
  ASSUME Twins = {}, MailboxInv, [InboxNext]_inboxVars
  PROVE  [MailboxOf!Next]_<<arrivals, Delivered, Cancelled>>
<1> USE DEF MailboxOf!Next, MailboxOf!Accepted
<1>1. ASSUME NEW m \in Messages, PersistItem(m) PROVE MailboxOf!Accept(m)
  <2>1. sender[m] = "locked" /\ arrivals' = Append(arrivals, m) /\ UNCHANGED <<log, cancelled>>
    BY <1>1 DEF PersistItem, Move, pi, queue
  <2>2. m \notin Arrived
    BY <2>1 DEF MailboxInv, OrderInv, Once
  <2>3. QED
    BY <2>1, <2>2 DEF MailboxOf!Accept, Arrived, Delivered, Logged, Cancelled
<1>2. CASE DeliverFollowUp
  <2>1. /\ followUps # <<>> /\ followUps \in Seq(Items) /\ 1 \in DOMAIN followUps
        /\ Head(followUps) = followUps[1] /\ UNCHANGED <<arrivals, cancelled>>
        /\ log' = [log EXCEPT ![session] = Append(@, Head(followUps))]
        /\ session \in Sessions /\ log \in [Sessions -> Seq(Items)]
    BY <1>2 DEF DeliverFollowUp, history, MailboxInv, DeliveryInv, LossInv, LogTypes
  <2>2. PICK i \in DOMAIN arrivals :
          arrivals[i] = Head(followUps).message /\ Preceded(i)
    BY <2>1 DEF MailboxInv, OrderInv, Ready
  <2>3. Delivered' = Delivered \cup {arrivals[i]}
    <3> DEFINE h == Head(followUps)
    <3>1. \A s \in Sessions : Logged(s)' = IF s = session THEN Logged(s) \cup {h.message}
                                                         ELSE Logged(s)
      <4>1. ASSUME NEW s \in Sessions, s # session PROVE Logged(s)' = Logged(s)
        BY <2>1, <4>1 DEF Logged
      <4>2. ASSUME NEW s \in Sessions, s = session
            PROVE  Logged(s)' = Logged(s) \cup {h.message}
        <5>1. log[session] \in Seq(Items) /\ log'[session] = Append(log[session], h)
          BY <2>1
        <5>2. /\ DOMAIN log'[session] = DOMAIN log[session] \cup {Len(log[session]) + 1}
              /\ log'[session][Len(log[session]) + 1] = h
              /\ \A k \in DOMAIN log[session] : log'[session][k] = log[session][k]
          BY <5>1
        <5>3. QED
          BY <4>2, <5>2 DEF Logged
      <4>3. QED
        BY <4>1, <4>2
    <3>2. QED
      BY <2>1, <2>2, <3>1 DEF Delivered
  <2>4. MailboxOf!Deliver(i)
    BY <2>1, <2>2, <2>3 DEF MailboxOf!Deliver, Preceded, Cancelled
  <2>5. QED
    BY <2>4
<1>3. CASE CancelItem
  <2> DEFINE gone == dir \ dir'
  <2>1. /\ cancelled' = cancelled \cup {<<x.message, session>> : x \in gone}
        /\ UNCHANGED <<arrivals, log>> /\ \A x \in gone : x \in dir /\ Id(x) = Head(ops)
    BY <1>3 DEF CancelItem, pi, queue
  <2>2. Cancelled' = Cancelled \cup {x.message : x \in gone} /\ Delivered' = Delivered
    <3>1. Delivered' = Delivered
      BY <2>1 DEF Delivered, Logged
    <3>2. \A x \in gone : <<x.message, session>> \in cancelled' /\ <<x.message, session>>[1] = x.message
      BY <2>1
    <3>3. \A c \in cancelled' : c \in cancelled \/ \E x \in gone : c = <<x.message, session>>
      BY <2>1
    <3>4. \A m \in Cancelled' : m \in Cancelled \/ \E x \in gone : m = x.message
      BY <3>2, <3>3 DEF Cancelled
    <3>5. Cancelled \subseteq Cancelled' /\ \A x \in gone : x.message \in Cancelled'
      BY <2>1, <3>2 DEF Cancelled
    <3>6. QED
      BY <3>1, <3>4, <3>5
  <2>3. CASE gone = {}
    BY <2>1, <2>2, <2>3
  <2>4. CASE gone # {}
    <3>1. PICK x \in gone : TRUE
      BY <2>4
    <3>2. \A y \in gone : y.message = x.message
      BY <2>1, <3>1, IdNames DEF MailboxInv, StoreInv, StoreTypes
    <3>3. Cancelled' = Cancelled \cup {x.message}
      BY <2>2, <3>1, <3>2
    <3>4. x.message \in Arrived
      BY <2>1, <3>1 DEF MailboxInv, OrderInv, Stored
    <3>5. MailboxOf!Cancel(x.message)
      BY <2>1, <2>2, <3>3 DEF MailboxOf!Cancel
    <3>6. QED
      BY <3>4, <3>5 DEF Arrived
  <2>5. QED
    BY <2>3, <2>4
<1>4. CASE Quiet
  BY <1>4 DEF Quiet, Delivered, Logged, Cancelled
<1>5. QED
  BY <1>1, <1>2, <1>3, <1>4, QuietSteps

\* The inbox implements Mailbox: whatever senders and recipient do between, what is
\* delivered was accepted, and nothing overtakes what was accepted before it
\* (nextInboxSequence, peekOldest and the evidence-gated removal of attemptOffer).
THEOREM MailboxKeptHolds ==
  ASSUME Twins = {}
  PROVE  InboxSpec => MailboxKept
<1>1. InboxInit => MailboxOf!Init
  BY DEF InboxInit, MailboxOf!Init, Delivered, Logged, Cancelled
<1>2. MailboxInv /\ [InboxNext]_inboxVars => [MailboxOf!Next]_<<arrivals, Delivered, Cancelled>>
  BY InboxStepsMap
<1>3. QED
  BY <1>1, <1>2, MailboxInvHolds, PTL DEF InboxSpec, MailboxKept, MailboxOf!Spec

-----------------------------------------------------------------------------
(* No wake-up is lost.  While an item waits whose hint arrived, something   *)
(* is on its way that makes the bridge look again (Pending): a Follow-up or *)
(* its turn, whose end is a trigger; an attempt that has not begun or is    *)
(* current; or one queued behind the running operation (Later), as there is *)
(* whenever the running attempt went stale in a joined recipient (Rerun).   *)
(* An attempt that stops at an outstanding item is safe to stop: the item   *)
(* was not in the evidence it read, so its turn was still to come (Unseen). *)

Operations == {"offer"} \cup {Id(i) : i \in Items}
Attempting == {"open", "list", "remove", "peek"}

Later == \E k \in DOMAIN ops : k > 1 /\ ops[k] = "offer"
Waiting == {k \in DOMAIN followUps : Id(followUps[k]) = outstanding}

BridgeTypes ==
  /\ ops \in Seq(Operations) /\ step \in Steps
  /\ alive \in BOOLEAN /\ owned \in BOOLEAN /\ current \in BOOLEAN
  /\ turn \in BOOLEAN /\ missed \in BOOLEAN
RunningFirst ==
  /\ step # "idle" => ops # <<>>
  /\ step \in Attempting => Head(ops) = "offer"
  /\ step = "cancel" => Head(ops) # "offer"
OnlyAlive ==
  alive = FALSE => /\ owned = FALSE /\ turn = FALSE /\ ops = <<>> /\ step = "idle"
                   /\ followUps = <<>> /\ outstanding = NoId
OutstandingKnown == outstanding # NoId => Waiting # {} \/ outstanding \in Evidence(session)
Rerun == step \in Attempting /\ current = FALSE /\ owned = TRUE => Later
Unseen ==
  step \in {"list", "remove"} /\ current = TRUE /\ outstanding # NoId /\ outstanding \notin seen
    => followUps # <<>> \/ turn = TRUE \/ Later
Pending ==
  \/ followUps # <<>> \/ turn = TRUE \/ Later
  \/ ops # <<>> /\ Head(ops) = "offer" /\ (step = "idle" \/ current = TRUE)
Hinted(i) == sender[i.message] \notin {"persisted", "stored"}
Woken ==
  owned = TRUE /\ session \notin paused /\ missed = FALSE /\ (\E i \in dir : Hinted(i)) => Pending

WakeInv ==
  /\ BridgeTypes /\ RunningFirst /\ OnlyAlive /\ OutstandingKnown
  /\ Rerun /\ Unseen /\ Woken

(* A trigger is queued behind whatever runs.                                *)
LEMMA QueueEffect ==
  ASSUME ops \in Seq(Operations), NEW op \in Operations, Queue(op)
  PROVE  /\ ops' \in Seq(Operations) /\ ops' # <<>>
         /\ Head(ops') = IF ops = <<>> THEN op ELSE Head(ops)
         /\ Later => Later'
         /\ op = "offer" /\ ops # <<>> => Later'
<1>1. ops' = Append(ops, op) /\ Len(ops) \in Nat /\ (ops = <<>> <=> Len(ops) = 0)
  BY DEF Queue
<1>2. /\ ops' \in Seq(Operations) /\ Len(ops') = Len(ops) + 1 /\ ops'[Len(ops) + 1] = op
      /\ \A k \in 1 .. Len(ops) : ops'[k] = ops[k]
  BY <1>1
<1>3. DOMAIN ops' = 1 .. Len(ops) + 1 /\ DOMAIN ops = 1 .. Len(ops)
  BY <1>1, <1>2
<1>4. ops' # <<>> /\ Head(ops') = ops'[1]
  BY <1>1, <1>2
<1>5. Later => Later'
  BY <1>1, <1>2, <1>3 DEF Later
<1>6. op = "offer" /\ ops # <<>> => Later'
  <2>1. SUFFICES ASSUME op = "offer", ops # <<>> PROVE Later'
    OBVIOUS
  <2>2. Len(ops) + 1 \in DOMAIN ops' /\ Len(ops) + 1 > 1
    BY <1>1, <1>3, <2>1
  <2>3. QED
    BY <1>2, <2>1, <2>2 DEF Later
<1>7. QED
  BY <1>1, <1>2, <1>4, <1>5, <1>6

(* The end of an operation brings what is behind it to the front.           *)
LEMMA FinishEffect ==
  ASSUME ops \in Seq(Operations), ops # <<>>, Finish
  PROVE  /\ ops' \in Seq(Operations) /\ step' = "idle" /\ current' = FALSE /\ seen' = {}
         /\ Later => ops' # <<>> /\ (Later' \/ Head(ops') = "offer")
<1>1. ops' = Tail(ops) /\ step' = "idle" /\ current' = FALSE /\ seen' = {}
  BY DEF Finish
<1>2. /\ ops' \in Seq(Operations) /\ Len(ops) \in Nat /\ Len(ops) >= 1
      /\ Len(ops') = Len(ops) - 1 /\ \A k \in 1 .. Len(ops) - 1 : ops'[k] = ops[k + 1]
  BY <1>1
<1>3. DOMAIN ops' = 1 .. Len(ops) - 1 /\ DOMAIN ops = 1 .. Len(ops)
  BY <1>2
<1>4. ASSUME Later PROVE ops' # <<>> /\ (Later' \/ Head(ops') = "offer")
  <2>1. PICK k \in DOMAIN ops : k > 1 /\ ops[k] = "offer"
    BY <1>4 DEF Later
  <2>2. k - 1 \in DOMAIN ops' /\ ops'[k - 1] = "offer" /\ k \in Nat
    BY <1>2, <1>3, <2>1
  <2>3. ops' # <<>> /\ Head(ops') = ops'[1]
    BY <1>2, <1>3, <2>2
  <2>4. k - 1 > 1 \/ k - 1 = 1
    BY <2>1, <2>2
  <2>5. QED
    BY <2>2, <2>3, <2>4 DEF Later
<1>5. QED
  BY <1>1, <1>2, <1>4

LEMMA WakeInitially == InboxInit => WakeInv
<1>1. SUFFICES ASSUME InboxInit PROVE WakeInv
  OBVIOUS
<1>2. /\ ops = <<>> /\ step = "idle" /\ alive = FALSE /\ owned = FALSE /\ current = FALSE
      /\ turn = FALSE /\ missed = FALSE /\ followUps = <<>> /\ outstanding = NoId
  BY <1>1 DEF InboxInit
<1>3. BridgeTypes
  <2>1. <<>> \in Seq(Operations)
    OBVIOUS
  <2>2. QED
    BY <1>2, <2>1, Zenon DEF BridgeTypes, Steps
<1>4. RunningFirst /\ OnlyAlive /\ OutstandingKnown /\ Rerun /\ Unseen /\ Woken
  BY <1>2 DEF RunningFirst, OnlyAlive, OutstandingKnown, Rerun, Unseen, Woken, Attempting
<1>5. QED
  BY <1>3, <1>4 DEF WakeInv

(* Nothing of the bridge changes but what it waits for.                     *)
LEMMA StillWoken ==
  ASSUME WakeInv, UNCHANGED <<bridge, alive, session, followUps, log, turn, paused>>,
         missed' \in BOOLEAN, missed = TRUE => missed' = TRUE,
         owned = TRUE /\ missed' = FALSE /\ (\E i \in dir' : Hinted(i)') => \E i \in dir : Hinted(i)
  PROVE  WakeInv'
<1>1. /\ UNCHANGED <<owned, ops, step, current, seen, outstanding, Later, Waiting, Pending>>
      /\ Evidence(session)' = Evidence(session)
  BY DEF bridge, attempt, Later, Waiting, Evidence, Pending
<1>2. BridgeTypes' /\ RunningFirst' /\ OnlyAlive' /\ OutstandingKnown' /\ Rerun' /\ Unseen'
  BY <1>1 DEF WakeInv, BridgeTypes, RunningFirst, OnlyAlive, OutstandingKnown, Rerun,
       Unseen
<1>3. missed' = FALSE => missed = FALSE
  BY DEF WakeInv, BridgeTypes
<1>4. Woken'
  BY <1>1, <1>3 DEF WakeInv, Woken
<1>5. QED
  BY <1>2, <1>4 DEF WakeInv

LEMMA SendersWake ==
  ASSUME StoreInv, WakeInv, NEW m \in Messages, SenderStep(m)
  PROVE  WakeInv'
<1>1. /\ sender \in [Messages -> SenderStates] /\ \A i \in dir : i.message \in Messages
      /\ missed \in BOOLEAN /\ alive \in BOOLEAN /\ (owned = TRUE => alive = TRUE)
  BY DEF StoreInv, StoreTypes, Items, WakeInv, BridgeTypes, OnlyAlive
<1>2. CASE LockInbox(m) \/ RefuseEnqueue(m) \/ Unlock(m)
  <2>1. /\ UNCHANGED <<dir, missed, bridge, pi>>
        /\ sender[m] \in {"unsent"} \/ sender'[m] \in {"persisted", "stored"}
        /\ \A x \in Messages \ {m} : sender'[x] = sender[x]
    BY <1>1, <1>2 DEF LockInbox, RefuseEnqueue, Unlock, Move
  <2>2. (\E i \in dir' : Hinted(i)') => \E i \in dir : Hinted(i)
    BY <1>1, <2>1 DEF Hinted
  <2>3. QED
    BY <1>1, <2>1, <2>2, StillWoken DEF pi, process, queue, user
<1>3. CASE PersistItem(m)
  <2>1. /\ UNCHANGED <<missed, bridge, pi>>
        /\ dir' = dir \cup {[sequence |-> chosen[m], message |-> m]}
        /\ sender' = [sender EXCEPT ![m] = "persisted"]
    BY <1>3 DEF PersistItem, Move
  <2>2. sender'[m] = "persisted" /\ \A x \in Messages \ {m} : sender'[x] = sender[x]
    BY <1>1, <2>1
  <2>3. (\E i \in dir' : Hinted(i)') => \E i \in dir : Hinted(i)
    BY <1>1, <2>1, <2>2 DEF Hinted
  <2>4. QED
    BY <1>1, <2>1, <2>3, StillWoken DEF pi, process, queue, user
<1>4. CASE SkipHint(m)
  <2>1. missed' = (missed \/ alive) /\ UNCHANGED <<dir, bridge, pi>>
    BY <1>4 DEF SkipHint
  <2>2. missed' \in BOOLEAN /\ (missed = TRUE => missed' = TRUE) /\ (alive = TRUE => missed' = TRUE)
    BY <1>1, <2>1, Zenon
  <2>3. QED
    BY <1>1, <2>1, <2>2, StillWoken DEF pi, process, queue, user
<1>5. CASE SenderCrash(m)
  <2>1. /\ missed' = (missed \/ sender[m] # "locked") /\ sender' = [sender EXCEPT ![m] = "dead"]
        /\ UNCHANGED <<dir, bridge, alive, session, queue, user>>
    BY <1>5 DEF SenderCrash
  <2>2. missed' \in BOOLEAN /\ (missed = TRUE => missed' = TRUE)
        /\ (sender[m] # "locked" => missed' = TRUE)
    BY <1>1, <2>1, Zenon
  <2>3. \A x \in Messages \ {m} : sender'[x] = sender[x]
    BY <1>1, <2>1
  <2>4. missed' = FALSE /\ (\E i \in dir' : Hinted(i)') => \E i \in dir : Hinted(i)
    BY <1>1, <2>1, <2>2, <2>3 DEF Hinted
  <2>5. QED
    BY <1>1, <2>1, <2>2, <2>4, StillWoken DEF queue, user
<1>6. CASE SendHint(m)
  <2>1. /\ Queue("offer") /\ alive
        /\ UNCHANGED <<owned, step, current, seen, outstanding, alive, session, followUps, log, turn,
                       missed>>
    BY <1>6 DEF SendHint, pi, process, queue
  <2>2. "offer" \in Operations
    BY DEF Operations
  <2>3. /\ ops' \in Seq(Operations) /\ ops' # <<>>
        /\ Head(ops') = IF ops = <<>> THEN "offer" ELSE Head(ops)
        /\ Later => Later'
        /\ ops # <<>> => Later'
    BY <2>1, <2>2, QueueEffect DEF WakeInv, BridgeTypes
  <2>4. BridgeTypes' /\ RunningFirst'
    BY <2>1, <2>3 DEF WakeInv, BridgeTypes, RunningFirst
  <2>5. OnlyAlive' /\ OutstandingKnown'
    BY <2>1 DEF WakeInv, OnlyAlive, OutstandingKnown, Waiting, Evidence
  <2>6. Rerun' /\ Unseen'
    BY <2>1, <2>3 DEF WakeInv, Rerun, Unseen
  <2>7. Pending'
    BY <2>1, <2>3 DEF WakeInv, RunningFirst, Pending
  <2>8. QED
    BY <2>4, <2>5, <2>6, <2>7 DEF WakeInv, Woken
<1>7. QED
  BY <1>2, <1>3, <1>4, <1>5, <1>6 DEF SenderStep

LEMMA RecipientWakes ==
  ASSUME LogTypes, WakeInv, RecipientStep
  PROVE  WakeInv'
<1>1. "offer" \in Operations
  BY DEF Operations
<1>2. ASSUME NEW s \in Sessions, StartSession(s) PROVE WakeInv'
  <2>1. /\ alive = FALSE /\ alive' = TRUE
        /\ UNCHANGED <<ops, step, owned, current, seen, outstanding, followUps, turn, missed>>
    BY <1>2, Zenon DEF StartSession, bridge, attempt, queue, WakeInv, BridgeTypes
  <2>2. /\ owned = FALSE /\ turn = FALSE /\ ops = <<>> /\ step = "idle"
        /\ followUps = <<>> /\ outstanding = NoId
    BY <2>1 DEF WakeInv, OnlyAlive
  <2>3. BridgeTypes'
    BY <2>1 DEF WakeInv, BridgeTypes
  <2>4. RunningFirst' /\ OnlyAlive' /\ OutstandingKnown' /\ Rerun' /\ Unseen' /\ Woken'
    BY <2>1, <2>2 DEF RunningFirst, OnlyAlive, OutstandingKnown, Rerun, Unseen, Woken,
         Attempting
  <2>5. QED
    BY <2>3, <2>4 DEF WakeInv
<1>3. CASE JoinCrew
  <2>1. /\ alive = TRUE /\ alive' = TRUE /\ owned' = TRUE /\ current' = FALSE /\ Queue("offer")
        /\ outstanding' \in {outstanding, NoId}
        /\ UNCHANGED <<step, seen, session, followUps, log, turn, missed>>
    BY <1>3 DEF JoinCrew, process, queue, WakeInv, BridgeTypes
  <2>2. /\ ops' \in Seq(Operations) /\ ops' # <<>>
        /\ Head(ops') = IF ops = <<>> THEN "offer" ELSE Head(ops)
        /\ Later => Later'
        /\ ops # <<>> => Later'
    BY <1>1, <2>1, QueueEffect DEF WakeInv, BridgeTypes
  <2>3. BridgeTypes' /\ RunningFirst' /\ OnlyAlive'
    BY <2>1, <2>2 DEF WakeInv, BridgeTypes, RunningFirst, OnlyAlive
  <2>4. OutstandingKnown'
    BY <2>1 DEF WakeInv, OutstandingKnown, Waiting, Evidence
  <2>5. Rerun' /\ Unseen'
    BY <2>1, <2>2 DEF WakeInv, RunningFirst, Rerun, Unseen, Attempting
  <2>6. Pending'
    BY <2>1, <2>2 DEF WakeInv, RunningFirst, Pending
  <2>7. QED
    BY <2>3, <2>4, <2>5, <2>6 DEF WakeInv, Woken
<1>4. CASE LeaveCrew
  <2>1. /\ alive = TRUE /\ alive' = TRUE /\ owned' = FALSE /\ current' = FALSE
        /\ outstanding' = NoId
        /\ UNCHANGED <<ops, step, seen, session, followUps, log, turn, missed>>
    BY <1>4 DEF LeaveCrew, Command, Invalidate, process, queue, WakeInv, BridgeTypes
  <2>2. QED
    BY <2>1 DEF WakeInv, BridgeTypes, RunningFirst, OnlyAlive, OutstandingKnown, Rerun,
         Unseen,
                Woken
<1>5. CASE EndProcess
  <2>1. /\ alive' = FALSE /\ owned' = FALSE /\ current' = FALSE /\ outstanding' = NoId
        /\ ops' = <<>> /\ step' = "idle" /\ followUps' = <<>> /\ turn' = FALSE
        /\ missed' = missed
    BY <1>5 DEF EndProcess, Invalidate
  <2>2. BridgeTypes'
    <3>1. <<>> \in Seq(Operations)
      OBVIOUS
    <3>2. QED
      BY <2>1, <3>1, Zenon DEF WakeInv, BridgeTypes, Steps
  <2>3. QED
    BY <2>1, <2>2 DEF WakeInv, RunningFirst, OnlyAlive, OutstandingKnown, Rerun, Unseen,
         Woken,
                      Attempting
<1>6. CASE PauseInbox \/ ResumeInbox
  <2>1. /\ UNCHANGED <<ops, step, owned, current, seen, outstanding, alive, session, followUps,
                       log, turn, dir, sender>>
        /\ Evidence(session)' = Evidence(session)
    BY <1>6 DEF PauseInbox, ResumeInbox, bridge, attempt, process, queue, Command,
         senders,
                Evidence, WakeInv, BridgeTypes
  <2>2. missed' \in BOOLEAN /\ (missed = TRUE => missed' = TRUE)
        /\ (session \in paused => session \in paused' \/ missed' = TRUE)
    <3>1. CASE PauseInbox
      BY <3>1 DEF PauseInbox, WakeInv, BridgeTypes
    <3>2. CASE ResumeInbox
      <4>1. missed' = (missed \/ session \in paused) /\ missed \in BOOLEAN
        BY <3>2 DEF ResumeInbox, WakeInv, BridgeTypes
      <4>2. QED
        BY <4>1, Zenon
    <3>3. QED
      BY <1>6, <3>1, <3>2
  <2>3. UNCHANGED <<Later, Waiting, Pending>> /\ \A i : Hinted(i)' <=> Hinted(i)
    BY <2>1 DEF Later, Waiting, Pending, Hinted
  <2>4. BridgeTypes' /\ RunningFirst' /\ OnlyAlive' /\ OutstandingKnown' /\ Rerun' /\ Unseen'
    BY <2>1, <2>2, <2>3 DEF WakeInv, BridgeTypes, RunningFirst, OnlyAlive,
         OutstandingKnown, Rerun,
                            Unseen
  <2>5. missed' = FALSE => missed = FALSE
    BY <2>2 DEF WakeInv, BridgeTypes
  <2>6. Woken'
    BY <2>1, <2>2, <2>3, <2>5 DEF WakeInv, Woken
  <2>7. QED
    BY <2>4, <2>6 DEF WakeInv
<1>7. CASE DeliverFollowUp
  <2>1. /\ followUps # <<>> /\ turn' = TRUE /\ followUps' = Tail(followUps) /\ alive = TRUE
        /\ log' = [log EXCEPT ![session] = Append(@, Head(followUps))]
        /\ UNCHANGED <<ops, step, owned, current, seen, outstanding, alive, session, missed>>
    BY <1>7 DEF DeliverFollowUp, bridge, attempt, process, WakeInv, BridgeTypes
  <2>2. followUps \in Seq(Items) /\ log[session] \in Seq(Items) /\ session \in Sessions
    BY DEF LogTypes
  <2>3. log'[session] = Append(log[session], Head(followUps))
    BY <2>1, <2>2 DEF LogTypes
  <2>4. Evidence(session) \subseteq Evidence(session)' /\ Id(Head(followUps)) \in Evidence(session)'
    <3>1. /\ Len(log[session]) + 1 \in DOMAIN log'[session]
          /\ log'[session][Len(log[session]) + 1] = Head(followUps)
          /\ \A k \in DOMAIN log[session] :
               k \in DOMAIN log'[session] /\ log'[session][k] = log[session][k]
      BY <2>1, <2>2, <2>3
    <3>2. QED
      BY <2>1, <3>1 DEF Evidence
  <2>5. ASSUME NEW k \in Waiting PROVE k = 1 \/ k - 1 \in Waiting'
    <3>1. k \in 1 .. Len(followUps) /\ Id(followUps[k]) = outstanding
      BY <2>2 DEF Waiting
    <3>2. k # 1 => k - 1 \in DOMAIN followUps' /\ followUps'[k - 1] = followUps[k]
      BY <2>1, <2>2, <3>1
    <3>3. QED
      BY <2>1, <3>1, <3>2 DEF Waiting
  <2>6. 1 \in Waiting => outstanding \in Evidence(session)'
    BY <2>1, <2>2, <2>4 DEF Waiting
  <2>7. OutstandingKnown'
    BY <2>1, <2>4, <2>5, <2>6 DEF WakeInv, OutstandingKnown
  <2>8. BridgeTypes' /\ RunningFirst' /\ OnlyAlive' /\ Rerun' /\ Unseen' /\ Pending'
    BY <2>1 DEF WakeInv, BridgeTypes, RunningFirst, OnlyAlive, Rerun, Unseen, Pending,
         Later
  <2>9. QED
    BY <2>7, <2>8 DEF WakeInv, Woken
<1>8. CASE EndTurn
  <2>1. /\ alive = TRUE /\ alive' = TRUE /\ turn' = FALSE /\ Queue("offer")
        /\ UNCHANGED <<step, owned, current, seen, outstanding, session, followUps, log, missed>>
    BY <1>8 DEF EndTurn, process, WakeInv, BridgeTypes
  <2>2. /\ ops' \in Seq(Operations) /\ ops' # <<>>
        /\ Head(ops') = IF ops = <<>> THEN "offer" ELSE Head(ops)
        /\ Later => Later'
        /\ ops # <<>> => Later'
    BY <1>1, <2>1, QueueEffect DEF WakeInv, BridgeTypes
  <2>3. BridgeTypes' /\ RunningFirst' /\ OnlyAlive'
    BY <2>1, <2>2 DEF WakeInv, BridgeTypes, RunningFirst, OnlyAlive
  <2>4. OutstandingKnown'
    BY <2>1 DEF WakeInv, OutstandingKnown, Waiting, Evidence
  <2>5. Rerun' /\ Unseen'
    BY <2>1, <2>2 DEF WakeInv, RunningFirst, Rerun, Unseen, Attempting
  <2>6. Pending'
    BY <2>1, <2>2 DEF WakeInv, RunningFirst, Pending
  <2>7. QED
    BY <2>3, <2>4, <2>5, <2>6 DEF WakeInv, Woken
<1>9. ASSUME NEW item \in dir, RequestCancel(item) PROVE WakeInv'
  <2>1. /\ Queue(Id(item)) /\ alive = TRUE
        /\ UNCHANGED <<step, owned, current, seen, outstanding, alive, session, followUps, log,
                       turn, missed, paused, dir, sender>>
    BY <1>9 DEF RequestCancel, Command, process, queue, senders, WakeInv, BridgeTypes
  <2>2. Id(item) \in Operations
    BY DEF Operations, LogTypes
  <2>3. /\ ops' \in Seq(Operations) /\ ops' # <<>>
        /\ Head(ops') = IF ops = <<>> THEN Id(item) ELSE Head(ops)
        /\ Later => Later'
    BY <2>1, <2>2, QueueEffect DEF WakeInv, BridgeTypes
  <2>4. BridgeTypes' /\ RunningFirst' /\ OnlyAlive'
    <3>1. BridgeTypes' /\ OnlyAlive'
      BY <2>1, <2>3 DEF WakeInv, BridgeTypes, OnlyAlive
    <3>2. step # "idle" => ops # <<>> /\ Head(ops') = Head(ops)
      BY <2>3 DEF WakeInv, RunningFirst
    <3>3. RunningFirst'
      BY <2>1, <2>3, <3>2 DEF WakeInv, RunningFirst, Attempting
    <3>4. QED
      BY <3>1, <3>3
  <2>5. OutstandingKnown'
    BY <2>1 DEF WakeInv, OutstandingKnown, Waiting, Evidence
  <2>6. Rerun' /\ Unseen'
    BY <2>1, <2>3 DEF WakeInv, Rerun, Unseen
  <2>7. Pending => Pending'
    BY <2>1, <2>3 DEF Pending
  <2>8. Woken'
    BY <2>1, <2>7 DEF WakeInv, Woken, Hinted
  <2>9. QED
    BY <2>4, <2>5, <2>6, <2>8 DEF WakeInv
<1>10. QED
  BY <1>2, <1>3, <1>4, <1>5, <1>6, <1>7, <1>8, <1>9 DEF RecipientStep

(* An operation that ends with nothing outstanding on its own account: what *)
(* is behind it comes to the front.                                         *)
LEMMA FinishKeepsAwake ==
  ASSUME WakeInv, ops # <<>>, Finish, missed' \in BOOLEAN,
         UNCHANGED <<owned, alive, session, log, turn>>, alive = TRUE,
         OutstandingKnown',
         Woken' \/ followUps' # <<>> \/ turn = TRUE \/ Later
  PROVE  WakeInv'
<1>1. /\ ops' \in Seq(Operations) /\ step' = "idle" /\ current' = FALSE
      /\ Later => ops' # <<>> /\ (Later' \/ Head(ops') = "offer")
  BY FinishEffect DEF WakeInv, BridgeTypes
<1>2. BridgeTypes'
  BY <1>1 DEF WakeInv, BridgeTypes, Steps
<1>3. RunningFirst' /\ OnlyAlive' /\ Rerun' /\ Unseen'
  BY <1>1 DEF RunningFirst, OnlyAlive, Rerun, Unseen, Attempting
<1>4. Woken'
  BY <1>1 DEF Woken, Pending
<1>5. QED
  BY <1>2, <1>3, <1>4 DEF WakeInv

LEMMA BridgeWakes ==
  ASSUME LogTypes, WakeInv, BridgeStep
  PROVE  WakeInv'
<1>1. UNCHANGED <<sender, owned, alive, session, log, turn, paused>>
  BY DEF BridgeStep, BeginOffer, AbandonOffer, ReadEvidence, ListItems, RemoveDelivered,
     RemoveListed, Reconcile, OfferOldest, BeginCancel, CancelItem, senders, pi, process, queue,
     user
<1>2. missed' \in BOOLEAN
  <2>1. missed \in BOOLEAN /\ current \in BOOLEAN
    BY DEF WakeInv, BridgeTypes
  <2>2. missed' = missed \/ missed' = FALSE \/ missed' = (missed \/ current)
    BY DEF BridgeStep, BeginOffer, AbandonOffer, ReadEvidence, ListItems, RemoveDelivered,
       RemoveListed, Reconcile, OfferOldest, BeginCancel, CancelItem
  <2>3. QED
    BY <2>1, <2>2, Zenon
<1>3. ops # <<>> /\ alive = TRUE
  <2>1. ops # <<>>
    BY DEF BridgeStep, BeginOffer, AbandonOffer, ReadEvidence, ListItems, RemoveDelivered,
       RemoveListed, Reconcile, OfferOldest, BeginCancel, CancelItem, WakeInv, RunningFirst
  <2>2. QED
    BY <2>1 DEF WakeInv, OnlyAlive, BridgeTypes
<1>4. UNCHANGED <<outstanding, followUps>> \/ outstanding' = NoId => OutstandingKnown'
  BY <1>1 DEF WakeInv, OutstandingKnown, Waiting, Evidence
<1>5. CASE BeginOffer
  <2>1. /\ Head(ops) = "offer" /\ step = "idle" /\ UNCHANGED <<outstanding, followUps>>
    BY <1>5 DEF BeginOffer, pi, queue
  <2>2. CASE owned /\ step' = "open" /\ current' = TRUE /\ UNCHANGED <<ops, seen, listed>>
    <3>1. Pending'
      BY <1>3, <2>1, <2>2 DEF Pending
    <3>2. BridgeTypes'
      BY <1>1, <1>2, <2>2 DEF WakeInv, BridgeTypes, Steps
    <3>3. RunningFirst' /\ OnlyAlive' /\ Rerun' /\ Unseen'
      BY <1>1, <1>3, <2>1, <2>2 DEF RunningFirst, OnlyAlive, Rerun, Unseen, Attempting
    <3>4. QED
      BY <1>4, <2>1, <3>1, <3>2, <3>3 DEF WakeInv, Woken
  <2>3. CASE ~owned /\ Finish
    <3>1. Woken'
      BY <1>1, <2>3 DEF Woken
    <3>2. QED
      BY <1>1, <1>2, <1>3, <1>4, <2>1, <2>3, <3>1, FinishKeepsAwake
  <2>4. QED
    BY <1>5, <2>2, <2>3 DEF BeginOffer
<1>6. CASE AbandonOffer
  <2>1. /\ Finish /\ step \in Attempting /\ missed' = (missed \/ current)
        /\ UNCHANGED <<outstanding, followUps>>
    BY <1>6 DEF AbandonOffer, Attempting, pi, queue
  <2>2. current = TRUE => missed' = TRUE
    BY <2>1, Zenon DEF WakeInv, BridgeTypes
  <2>3. Woken' \/ Later
    BY <1>1, <2>1, <2>2 DEF Woken, WakeInv, BridgeTypes, Rerun
  <2>4. QED
    BY <1>1, <1>2, <1>3, <1>4, <2>1, <2>3, FinishKeepsAwake
<1>7. CASE ReadEvidence \/ ListItems
  <2>1. /\ step \in Attempting /\ step' \in {"list", "remove"} /\ current = TRUE
        /\ UNCHANGED <<ops, current, outstanding, followUps>>
    BY <1>7 DEF ReadEvidence, ListItems, Attempting, pi, queue, WakeInv, BridgeTypes
  <2>2. Pending' /\ RunningFirst' /\ OnlyAlive' /\ Rerun'
    BY <1>1, <1>3, <2>1
    DEF Pending, WakeInv, RunningFirst, OnlyAlive, Rerun, Attempting
  <2>3. BridgeTypes'
    BY <1>1, <1>2, <2>1 DEF WakeInv, BridgeTypes, Steps
  <2>4. Unseen'
    <3>1. CASE ReadEvidence
      <4>1. seen' = Evidence(session)
        BY <3>1 DEF ReadEvidence
      <4>2. outstanding # NoId /\ outstanding \notin seen' => followUps # <<>>
        BY <4>1 DEF WakeInv, OutstandingKnown, Waiting
      <4>3. QED
        BY <2>1, <4>2 DEF Unseen
    <3>2. CASE ListItems
      BY <1>1, <2>1, <3>2 DEF ListItems, Unseen, WakeInv, Later
    <3>3. QED
      BY <1>7, <3>1, <3>2
  <2>5. QED
    BY <1>4, <2>1, <2>2, <2>3, <2>4 DEF WakeInv, Woken
<1>8. CASE RemoveDelivered
  <2>1. /\ step = "remove" /\ UNCHANGED <<outstanding, followUps, missed>>
        /\ IF current THEN UNCHANGED <<ops, step, current, seen>> ELSE Finish
    BY <1>8 DEF RemoveDelivered, RemoveListed, pi, queue
  <2>2. CASE current = TRUE
    <3>1. UNCHANGED <<ops, step, current, seen>>
      BY <2>1, <2>2
    <3>2. Pending'
      BY <1>3, <2>1, <2>2, <3>1 DEF Pending, WakeInv, RunningFirst, Attempting
    <3>3. BridgeTypes' /\ RunningFirst' /\ OnlyAlive' /\ Rerun' /\ Unseen'
      BY <1>1, <1>3, <2>1, <3>1
      DEF WakeInv, BridgeTypes, RunningFirst, OnlyAlive, Rerun, Unseen, Later
    <3>4. QED
      BY <1>4, <2>1, <3>2, <3>3 DEF WakeInv, Woken
  <2>3. CASE current = FALSE
    <3>1. Finish
      BY <2>1, <2>3
    <3>2. Woken' \/ Later
      BY <1>1, <2>1, <2>3 DEF Woken, WakeInv, BridgeTypes, Rerun, Attempting
    <3>3. QED
      BY <1>1, <1>2, <1>3, <1>4, <2>1, <3>1, <3>2, FinishKeepsAwake
  <2>4. QED
    BY <2>2, <2>3 DEF WakeInv, BridgeTypes
<1>9. CASE Reconcile
  <2>1. /\ step = "remove" /\ current = TRUE /\ \A i \in listed : Id(i) \notin seen
        /\ outstanding' = IF outstanding \in Ids(listed) THEN outstanding ELSE NoId
        /\ UNCHANGED followUps
    BY <1>9 DEF Reconcile, pi, queue, WakeInv, BridgeTypes
  <2>2. OutstandingKnown'
    BY <1>1, <1>4, <2>1
  <2>3. CASE Finish /\ (session \in paused \/ outstanding' # NoId)
    <3>1. outstanding' # NoId => outstanding # NoId /\ outstanding \notin seen
      BY <2>1 DEF Ids
    <3>2. Woken' \/ followUps' # <<>> \/ turn = TRUE \/ Later
      BY <1>1, <2>1, <2>3, <3>1 DEF Woken, WakeInv, Unseen
    <3>3. QED
      BY <1>1, <1>2, <1>3, <2>2, <2>3, <3>2, FinishKeepsAwake
  <2>4. CASE step' = "peek" /\ UNCHANGED <<ops, current>>
    <3>1. Pending' /\ RunningFirst' /\ OnlyAlive' /\ Rerun' /\ Unseen'
      BY <1>1, <1>3, <2>1, <2>4
      DEF Pending, WakeInv, RunningFirst, OnlyAlive, Rerun, Unseen, Attempting
    <3>2. BridgeTypes'
      BY <1>1, <1>2, <2>4 DEF WakeInv, BridgeTypes, Steps
    <3>3. QED
      BY <2>2, <3>1, <3>2 DEF WakeInv, Woken
  <2>5. QED
    BY <1>9, <2>3, <2>4 DEF Reconcile
<1>10. CASE OfferOldest
  <2>1. Finish /\ dir' = dir
    BY <1>10 DEF OfferOldest
  <2>2. CASE dir = {} /\ UNCHANGED <<followUps, outstanding>>
    <3>1. Woken'
      BY <2>1, <2>2 DEF Woken
    <3>2. QED
      BY <1>1, <1>2, <1>3, <1>4, <2>1, <2>2, <3>1, FinishKeepsAwake
  <2>3. ASSUME NEW i \in OldestItem(dir), followUps' = Append(followUps, i), outstanding' = Id(i)
        PROVE  WakeInv'
    <3>1. i \in Items /\ followUps \in Seq(Items)
      BY DEF OldestItem, LogTypes
    <3>2. /\ Len(followUps) + 1 \in DOMAIN followUps' /\ followUps' # <<>>
          /\ followUps'[Len(followUps) + 1] = i
      BY <2>3, <3>1
    <3>3. OutstandingKnown'
      BY <2>3, <3>2 DEF OutstandingKnown, Waiting
    <3>4. QED
      BY <1>1, <1>2, <1>3, <2>1, <3>2, <3>3, FinishKeepsAwake
  <2>4. QED
    BY <1>10, <2>2, <2>3 DEF OfferOldest
<1>11. CASE BeginCancel \/ CancelItem
  <2>1. /\ Head(ops) # "offer" /\ dir' \subseteq dir
        /\ UNCHANGED <<outstanding, followUps, missed>>
    BY <1>11 DEF BeginCancel, CancelItem, WakeInv, RunningFirst, pi, queue
  <2>2. (\E i \in dir' : Hinted(i)') => \E i \in dir : Hinted(i)
    BY <1>1, <2>1 DEF Hinted
  <2>3. Woken' \/ followUps' # <<>> \/ turn = TRUE \/ Later
    BY <1>1, <2>1, <2>2 DEF WakeInv, Woken, Pending
  <2>4. CASE Finish
    BY <1>1, <1>2, <1>3, <1>4, <2>1, <2>3, <2>4, FinishKeepsAwake
  <2>5. CASE step' = "cancel" /\ UNCHANGED <<ops, current, seen>>
    <3>1. Later' <=> Later
      BY <2>5 DEF Later
    <3>2. Woken'
      BY <1>1, <2>1, <2>3, <3>1 DEF Woken, Pending
    <3>3. BridgeTypes' /\ RunningFirst' /\ OnlyAlive' /\ Rerun' /\ Unseen'
      BY <1>1, <1>2, <1>3, <2>1, <2>5
      DEF WakeInv, BridgeTypes, RunningFirst, OnlyAlive, Rerun, Unseen, Attempting, Steps
    <3>4. QED
      BY <1>4, <2>1, <3>2, <3>3 DEF WakeInv
  <2>6. QED
    BY <1>11, <2>4, <2>5 DEF BeginCancel, CancelItem
<1>12. QED
  BY <1>5, <1>6, <1>7, <1>8, <1>9, <1>10, <1>11 DEF BridgeStep

LEMMA WakeInvHolds == InboxSpec => [](LogTypes /\ WakeInv)
<1>1. InboxInit => LogTypes /\ WakeInv
  <2>1. InboxInit => LogTypes
    BY DEF InboxInit, LogTypes
  <2>2. QED
    BY <2>1, WakeInitially
<1>2. LogTypes /\ WakeInv /\ StoreInv /\ [InboxNext]_inboxVars => LogTypes' /\ WakeInv'
  <2>1. SUFFICES ASSUME LogTypes, WakeInv, StoreInv, [InboxNext]_inboxVars
                 PROVE  LogTypes' /\ WakeInv'
    OBVIOUS
  <2>2. LogTypes'
    BY <2>1, LogsGrow DEF StoreInv, StoreTypes
  <2>3. CASE UNCHANGED inboxVars
    <3>1. UNCHANGED <<bridge, alive, session, followUps, log, turn, paused, missed, dir, sender>>
      BY <2>3 DEF inboxVars, pi, process, queue, user, senders
    <3>2. missed \in BOOLEAN
      BY <2>1 DEF WakeInv, BridgeTypes
    <3>3. WakeInv'
      BY <2>1, <3>1, <3>2, StillWoken DEF Hinted
    <3>4. QED
      BY <2>2, <3>3
  <2>4. QED
    BY <2>1, <2>2, <2>3, SendersWake, RecipientWakes, BridgeWakes DEF InboxNext
<1>3. QED
  BY <1>1, <1>2, StoreInvHolds, PTL DEF InboxSpec

\* No wake-up is lost, whatever the sizes and also with twins: when a joined, unpaused
\* recipient has come to rest and no hint was lost, every item left in its inbox still
\* has a sender on its way to send the hint (attemptOffer's serialized operations).
THEOREM NoLostWakeupHolds == InboxSpec => []NoLostWakeup
<1>1. WakeInv => NoLostWakeup
  BY DEF WakeInv, Woken, Pending, Later, NoLostWakeup, AtRest, Hinted, BridgeTypes
<1>2. QED
  BY <1>1, WakeInvHolds, PTL

-----------------------------------------------------------------------------
(* How often a session gets a message.  The proof counts what a session has *)
(* in its log and its queue (Copies) against how often it left the crew.    *)

Copied(q, m) == {k \in DOMAIN q : q[k].message = m}
Count(q, m) == Cardinality(Copied(q, m))

LEMMA CountType ==
  ASSUME NEW q \in Seq(Items), NEW m
  PROVE  /\ IsFiniteSet(Copied(q, m)) /\ Count(q, m) \in Nat
         /\ (\A k \in DOMAIN q : q[k].message # m) <=> Count(q, m) = 0
<1>1. DOMAIN q = 1 .. Len(q) /\ 1 \in Int /\ Len(q) \in Int
  OBVIOUS
<1>2. IsFiniteSet(DOMAIN q)
  BY <1>1, FS_Interval
<1>3. IsFiniteSet(Copied(q, m))
  BY <1>2, FS_Subset DEF Copied
<1>4. Count(q, m) \in Nat /\ (Count(q, m) = 0 <=> Copied(q, m) = {})
  BY <1>3, FS_CardinalityType, FS_EmptySet DEF Count
<1>5. QED
  BY <1>3, <1>4 DEF Copied

LEMMA CountEmpty ==
  ASSUME NEW m
  PROVE  Count(<<>>, m) = 0
<1>1. Copied(<<>>, m) = {}
  BY DEF Copied
<1>2. QED
  BY <1>1, FS_EmptySet DEF Count

LEMMA CountAppend ==
  ASSUME NEW q \in Seq(Items), NEW x \in Items, NEW m
  PROVE  Count(Append(q, x), m) = Count(q, m) + (IF x.message = m THEN 1 ELSE 0)
<1> DEFINE n == Len(q) + 1
<1>1. /\ DOMAIN Append(q, x) = DOMAIN q \cup {n} /\ n \notin DOMAIN q
      /\ Append(q, x)[n] = x /\ \A k \in DOMAIN q : Append(q, x)[k] = q[k]
  OBVIOUS
<1>2. Copied(Append(q, x), m) = IF x.message = m THEN Copied(q, m) \cup {n} ELSE Copied(q, m)
  BY <1>1 DEF Copied
<1>3. n \notin Copied(q, m) /\ IsFiniteSet(Copied(q, m)) /\ Count(q, m) \in Nat
  BY <1>1, CountType DEF Copied
<1>4. Cardinality(Copied(q, m) \cup {n}) = Cardinality(Copied(q, m)) + 1
  BY <1>3, FS_AddElement
<1>5. QED
  BY <1>2, <1>3, <1>4 DEF Count

LEMMA CountTail ==
  ASSUME NEW q \in Seq(Items), q # <<>>, NEW m
  PROVE  Count(q, m) = Count(Tail(q), m) + (IF Head(q).message = m THEN 1 ELSE 0)
<1> DEFINE S == Copied(Tail(q), m)
<1> DEFINE T == Copied(q, m) \ {1}
<1> DEFINE f == [k \in S |-> k + 1]
<1>1. /\ Tail(q) \in Seq(Items) /\ Len(Tail(q)) = Len(q) - 1 /\ Len(q) \in Nat /\ Len(q) >= 1
      /\ \A k \in 1 .. Len(q) - 1 : Tail(q)[k] = q[k + 1]
      /\ Head(q) = q[1]
  OBVIOUS
<1>2. DOMAIN q = 1 .. Len(q) /\ DOMAIN Tail(q) = 1 .. Len(q) - 1
  BY <1>1
<1>3. S \subseteq Nat /\ \A k \in S : k + 1 \in T
  <2>1. ASSUME NEW k \in S PROVE k \in Nat /\ k + 1 \in T
    <3>1. k \in 1 .. Len(q) - 1 /\ Tail(q)[k].message = m
      BY <1>2 DEF Copied
    <3>2. k + 1 \in 1 .. Len(q) /\ k + 1 # 1 /\ k \in Nat
      BY <1>1, <3>1
    <3>3. q[k + 1].message = m
      BY <1>1, <3>1
    <3>4. QED
      BY <1>2, <3>2, <3>3, Zenon DEF Copied
  <2>2. QED
    BY <2>1
<1>4. \A k \in T : k - 1 \in S /\ (k - 1) + 1 = k
  BY <1>1, <1>2 DEF Copied
<1>5. f \in Injection(S, T)
  <2>1. f \in [S -> T]
    BY <1>3
  <2>2. ASSUME NEW a \in S, NEW b \in S, f[a] = f[b] PROVE a = b
    BY <1>3, <2>2
  <2>3. QED
    BY <2>1, <2>2 DEF Injection, IsInjective
<1>6. f \in Surjection(S, T)
  <2>1. f \in [S -> T]
    BY <1>3
  <2>2. ASSUME NEW k \in T PROVE \E j \in S : f[j] = k
    BY <1>4
  <2>3. QED
    BY <2>1, <2>2 DEF Surjection
<1>7. ExistsBijection(S, T)
  BY <1>5, <1>6 DEF ExistsBijection, Bijection
<1>8. IsFiniteSet(S) /\ Cardinality(S) \in Nat
  BY <1>1, CountType DEF Count
<1>9. IsFiniteSet(T) /\ Cardinality(T) = Cardinality(S)
  BY <1>7, <1>8, FS_Bijection
<1>10. Copied(q, m) = IF Head(q).message = m THEN T \cup {1} ELSE T
  <2>1. 1 \in DOMAIN q /\ Head(q) = q[1]
    BY <1>1, <1>2
  <2>2. 1 \in Copied(q, m) <=> Head(q).message = m
    BY <2>1, Zenon DEF Copied
  <2>3. QED
    BY <2>2, Zenon
<1>11. Cardinality(T \cup {1}) = Cardinality(T) + 1
  <2>1. 1 \notin T
    OBVIOUS
  <2>2. QED
    BY <1>9, <2>1, FS_AddElement
<1>12. Count(q, m) = (IF Head(q).message = m THEN Cardinality(T) + 1 ELSE Cardinality(T))
  BY <1>10, <1>11, Zenon DEF Count
<1>13. Count(Tail(q), m) = Cardinality(S)
  BY DEF Count
<1>14. QED
  BY <1>8, <1>9, <1>12, <1>13

LEMMA CopiesCount ==
  ASSUME LogTypes, NEW m, NEW s \in Sessions
  PROVE  /\ Copies(m, s) = Count(log[s], m) + (IF s = session THEN Count(followUps, m) ELSE 0)
         /\ Copies(m, s) \in Nat
<1>1. Copies(m, s) = Count(log[s], m) + (IF s = session THEN Count(followUps, m) ELSE 0)
  BY DEF Copies, Count, Copied
<1>2. Count(log[s], m) \in Nat /\ Count(followUps, m) \in Nat
  BY CountType DEF LogTypes
<1>3. QED
  BY <1>1, <1>2

LEMMA CopiesNat ==
  ASSUME LogTypes', NEW m, NEW s \in Sessions
  PROVE  Copies(m, s)' \in Nat
<1>1. Copies(m, s)' = Count(log'[s], m) + (IF s = session' THEN Count(followUps', m) ELSE 0)
  BY DEF Copies, Count, Copied
<1>2. Count(log'[s], m) \in Nat /\ Count(followUps', m) \in Nat
  BY CountType DEF LogTypes
<1>3. QED
  BY <1>1, <1>2

(* Offering an item adds a copy of its message to the session's, and no     *)
(* other step adds any.                                                     *)
Offer(i) ==
  /\ OfferOldest /\ i \in OldestItem(dir)
  /\ followUps' = Append(followUps, i) /\ outstanding' = Id(i)

LEMMA OfferCopies ==
  ASSUME LogTypes, LogTypes', NEW i \in dir, Offer(i), NEW m, NEW s \in Sessions
  PROVE  Copies(m, s)' = Copies(m, s) + (IF s = session /\ i.message = m THEN 1 ELSE 0)
<1>1. UNCHANGED <<log, session>> /\ i \in Items /\ followUps \in Seq(Items)
  BY DEF Offer, OfferOldest, process, LogTypes
<1>2. followUps' = Append(followUps, i)
  BY DEF Offer
<1>3. Count(followUps', m) = Count(followUps, m) + (IF i.message = m THEN 1 ELSE 0)
  BY <1>1, <1>2, CountAppend
<1>4. /\ Copies(m, s) = Count(log[s], m) + (IF s = session THEN Count(followUps, m) ELSE 0)
      /\ Copies(m, s)' = Count(log'[s], m) + (IF s = session' THEN Count(followUps', m) ELSE 0)
  BY CopiesCount DEF Copies, Count, Copied
<1>5. Count(log[s], m) \in Nat /\ Count(followUps, m) \in Nat
  BY CountType DEF LogTypes
<1>6. QED
  BY <1>1, <1>3, <1>4, <1>5

LEMMA SessionSteps ==
  ASSUME [InboxNext]_inboxVars
  PROVE  \/ UNCHANGED <<log, followUps, session>>
         \/ DeliverFollowUp
         \/ EndProcess
         \/ \E s \in Sessions : StartSession(s)
         \/ \E i \in dir : Offer(i)
<1>1. CASE \E m \in Messages : SenderStep(m)
  BY <1>1 DEF SenderStep, LockInbox, RefuseEnqueue, PersistItem, Unlock, SendHint,
       SkipHint,
     SenderCrash, pi, process, queue
<1>2. CASE RecipientStep
  BY <1>2 DEF RecipientStep, JoinCrew, LeaveCrew, PauseInbox, ResumeInbox, EndTurn,
       RequestCancel,
     process, queue
<1>3. CASE OfferOldest
  <2>1. \A i \in OldestItem(dir) : i \in dir
    BY DEF OldestItem
  <2>2. QED
    BY <1>3, <2>1 DEF OfferOldest, Offer, process
<1>4. CASE BridgeStep /\ ~OfferOldest
  BY <1>4 DEF BridgeStep, BeginOffer, AbandonOffer, ReadEvidence, ListItems,
       RemoveDelivered,
     RemoveListed, Reconcile, BeginCancel, CancelItem, pi, process, queue
<1>5. CASE UNCHANGED inboxVars
  BY <1>5 DEF inboxVars, pi, process, queue
<1>6. QED
  BY <1>1, <1>2, <1>3, <1>4, <1>5 DEF InboxNext

LEMMA OtherCopies ==
  ASSUME LogTypes, LogTypes', OnlyAlive, alive \in BOOLEAN, [InboxNext]_inboxVars,
         ~ \E i \in dir : Offer(i), NEW m, NEW s \in Sessions
  PROVE  Copies(m, s)' <= Copies(m, s)
<1>1. /\ Copies(m, s) = Count(log[s], m) + (IF s = session THEN Count(followUps, m) ELSE 0)
      /\ Copies(m, s)' = Count(log'[s], m) + (IF s = session' THEN Count(followUps', m) ELSE 0)
  BY CopiesCount DEF Copies, Count, Copied
<1>2. /\ Count(log[s], m) \in Nat /\ Count(followUps, m) \in Nat
      /\ Count(log'[s], m) \in Nat /\ Count(followUps', m) \in Nat
  BY CountType DEF LogTypes
<1>3. CASE UNCHANGED <<log, followUps, session>>
  BY <1>1, <1>2, <1>3
<1>4. CASE DeliverFollowUp
  <2>1. /\ followUps # <<>> /\ followUps' = Tail(followUps) /\ session' = session
        /\ log' = [log EXCEPT ![session] = Append(@, Head(followUps))]
        /\ Head(followUps) \in Items
    BY <1>4 DEF DeliverFollowUp, process, LogTypes
  <2>2. Count(followUps, m)
          = Count(followUps', m) + (IF Head(followUps).message = m THEN 1 ELSE 0)
    BY <2>1, CountTail DEF LogTypes
  <2>3. CASE s = session
    <3>1. log'[s] = Append(log[s], Head(followUps)) /\ log[s] \in Seq(Items)
      BY <2>1, <2>3 DEF LogTypes
    <3>2. Count(log'[s], m)
            = Count(log[s], m) + (IF Head(followUps).message = m THEN 1 ELSE 0)
      BY <2>1, <3>1, CountAppend
    <3>3. QED
      BY <1>1, <1>2, <2>1, <2>2, <2>3, <3>2
  <2>4. CASE s # session
    <3>1. log'[s] = log[s]
      BY <2>1, <2>4 DEF LogTypes
    <3>2. QED
      BY <1>1, <1>2, <2>1, <2>4, <3>1
  <2>5. QED
    BY <2>3, <2>4
<1>5. CASE EndProcess
  <2>1. followUps' = <<>> /\ UNCHANGED <<log, session>>
    BY <1>5 DEF EndProcess
  <2>2. Count(followUps', m) = 0
    BY <2>1, CountEmpty
  <2>3. QED
    BY <1>1, <1>2, <2>1, <2>2
<1>6. CASE \E t \in Sessions : StartSession(t)
  <2>1. followUps = <<>> /\ UNCHANGED <<log, followUps>>
    BY <1>6 DEF StartSession, queue, OnlyAlive
  <2>2. Count(followUps, m) = 0 /\ Count(followUps', m) = 0
    BY <2>1, CountEmpty
  <2>3. QED
    BY <1>1, <1>2, <2>1, <2>2
<1>7. QED
  BY <1>3, <1>4, <1>5, <1>6, SessionSteps

-----------------------------------------------------------------------------
(* The items that were ever offered.  Each message has one item; an item    *)
(* that was offered and is still stored is the oldest one, because nobody   *)
(* is put before it; and what is cancelled is gone.                         *)

Traced ==
  /\ Delivered \subseteq Arrived /\ Cancelled \subseteq Arrived
  /\ \A k \in DOMAIN followUps : followUps[k].message \in Arrived
  /\ \A i \in Items : outstanding = Id(i) => i.message \in Arrived
OneItem ==
  \A i \in dir :
    /\ \A j \in dir : j.message = i.message => j = i
    /\ \A k \in DOMAIN followUps : followUps[k].message = i.message => followUps[k] = i
    /\ \A s \in Sessions :
         \A k \in DOMAIN log[s] : log[s][k].message = i.message => log[s][k] = i
Offered(i) ==
  \/ i.message \in Delivered
  \/ \E k \in DOMAIN followUps : followUps[k].message = i.message
  \/ outstanding = Id(i)
OfferedOldest == \A i \in dir : Offered(i) => Before(dir, i) = {}
CancelledGone == \A i \in dir : i.message \notin Cancelled

ItemsInv == Traced /\ OneItem /\ OfferedOldest /\ CancelledGone

LEMMA IdNotNone ==
  ASSUME NEW i
  PROVE  Id(i) # NoId
BY DEF Id, NoId

(* Items, Follow-ups and the outstanding mark only go.                      *)
LEMMA ItemsFewer ==
  ASSUME LogTypes, Stored, ItemsInv, dir' \subseteq dir, UNCHANGED <<log, arrivals>>,
         followUps' \in {followUps, <<>>}, outstanding' \in {outstanding, NoId},
         \A m \in Cancelled' : m \in Cancelled \/ \E j \in dir \ dir' : m = j.message
  PROVE  ItemsInv'
<1>1. Arrived' = Arrived /\ Delivered' = Delivered
  BY DEF Arrived, Delivered, Logged
<1>2. \A k \in DOMAIN followUps' : k \in DOMAIN followUps /\ followUps'[k] = followUps[k]
  OBVIOUS
<1>3. \A i : outstanding' = Id(i) => outstanding = Id(i)
  BY IdNotNone
<1>4. Traced'
  BY <1>1, <1>2, <1>3 DEF ItemsInv, Traced, Stored
<1>5. OneItem'
  BY <1>2 DEF ItemsInv, OneItem
<1>6. OfferedOldest'
  BY <1>1, <1>2, <1>3 DEF ItemsInv, OfferedOldest, Offered, Before
<1>7. CancelledGone'
  BY DEF ItemsInv, OneItem, CancelledGone
<1>8. QED
  BY <1>4, <1>5, <1>6, <1>7 DEF ItemsInv

LEMMA PersistKeepsItems ==
  ASSUME MailboxInv, ItemsInv, NEW m \in Messages, PersistItem(m)
  PROVE  ItemsInv'
<1> DEFINE new == [sequence |-> chosen[m], message |-> m]
<1>1. /\ dir' = dir \cup {new} /\ arrivals' = Append(arrivals, m) /\ sender[m] = "locked"
      /\ UNCHANGED <<followUps, log, cancelled, outstanding>>
  BY DEF PersistItem, Move, pi, queue, bridge
<1>2. /\ new.message = m /\ new.sequence = chosen[m] /\ chosen[m] \in Nat
      /\ \A x \in dir : x.sequence \in Nat /\ x.sequence < chosen[m]
  BY <1>1 DEF MailboxInv, StoreInv, StoreTypes, Chosen, Items
<1>3. m \notin Arrived /\ \A x \in dir : x.message \in Arrived
  BY <1>1 DEF MailboxInv, OrderInv, Once, Stored
<1>4. Arrived \subseteq Arrived' /\ Delivered' = Delivered /\ Cancelled' = Cancelled
  BY <1>1 DEF Arrived, Delivered, Logged, Cancelled, MailboxInv, DeliveryInv
<1>5. \A s \in Sessions : \A k \in DOMAIN log[s] : log[s][k].message \in Arrived
  BY DEF ItemsInv, Traced, Delivered, Logged
<1>6. new \in Items
  BY <1>2 DEF Items
<1>7. ~Offered(new)
  BY <1>2, <1>3, <1>6 DEF ItemsInv, Traced, Offered
<1>8. Traced'
  BY <1>1, <1>4 DEF ItemsInv, Traced
<1>9. OneItem'
  <2>1. ASSUME NEW i \in dir'
        PROVE  /\ \A j \in dir' : j.message = i.message => j = i
               /\ \A k \in DOMAIN followUps : followUps[k].message = i.message => followUps[k] = i
               /\ \A s \in Sessions :
                    \A k \in DOMAIN log[s] : log[s][k].message = i.message => log[s][k] = i
    <3>1. CASE i = new
      BY <1>1, <1>2, <1>3, <1>5, <3>1 DEF ItemsInv, Traced
    <3>2. CASE i \in dir
      BY <1>1, <1>2, <1>3, <3>2 DEF ItemsInv, OneItem
    <3>3. QED
      BY <1>1, <3>1, <3>2
  <2>2. QED
    BY <1>1, <2>1 DEF OneItem
<1>10. OfferedOldest'
  <2>1. SUFFICES ASSUME NEW i \in dir', Offered(i) PROVE Before(dir', i) = {}
    BY <1>1, <1>4 DEF OfferedOldest, Offered
  <2>2. i \in dir
    BY <1>1, <1>7, <2>1
  <2>3. Before(dir, i) = {} /\ ~(new.sequence < i.sequence)
    BY <1>2, <2>1, <2>2 DEF ItemsInv, OfferedOldest
  <2>4. QED
    BY <1>1, <2>3 DEF Before
<1>11. CancelledGone'
  BY <1>1, <1>2, <1>3, <1>4 DEF ItemsInv, Traced, CancelledGone
<1>12. QED
  BY <1>8, <1>9, <1>10, <1>11 DEF ItemsInv

LEMMA OfferKeepsItems ==
  ASSUME Twins = {}, MailboxInv, ItemsInv, NEW o \in dir, Offer(o)
  PROVE  ItemsInv'
<1>1. /\ UNCHANGED <<dir, log, arrivals, cancelled>> /\ Before(dir, o) = {}
      /\ followUps' = Append(followUps, o) /\ outstanding' = Id(o)
  BY DEF Offer, OfferOldest, history, OldestItem
<1>2. /\ followUps \in Seq(Items) /\ dir \subseteq Items /\ o \in Items
      /\ \A x \in dir : x.message \in Arrived
  BY DEF MailboxInv, DeliveryInv, LossInv, LogTypes, OrderInv, Stored
<1>3. Arrived' = Arrived /\ Delivered' = Delivered /\ Cancelled' = Cancelled
  BY <1>1 DEF Arrived, Delivered, Logged, Cancelled
<1>4. \A k \in DOMAIN followUps' :
        followUps'[k] = o \/ (k \in DOMAIN followUps /\ followUps'[k] = followUps[k])
  BY <1>1, <1>2
<1>5. \A i \in Items : outstanding' = Id(i) => i.message = o.message
  BY <1>1, <1>2, IdNames
<1>6. Traced'
  BY <1>2, <1>3, <1>4, <1>5 DEF ItemsInv, Traced
<1>7. OneItem'
  BY <1>1, <1>4 DEF ItemsInv, OneItem
<1>8. OfferedOldest'
  <2>1. SUFFICES ASSUME NEW i \in dir, Offered(i)' PROVE Before(dir, i) = {}
    BY <1>1 DEF OfferedOldest
  <2>2. Offered(i) \/ i.message = o.message
    BY <1>2, <1>3, <1>4, <1>5, <2>1 DEF Offered
  <2>3. QED
    BY <1>1, <2>2 DEF ItemsInv, OneItem, OfferedOldest
<1>9. CancelledGone'
  BY <1>1, <1>3 DEF ItemsInv, CancelledGone
<1>10. QED
  BY <1>6, <1>7, <1>8, <1>9 DEF ItemsInv

LEMMA DeliverKeepsItems ==
  ASSUME MailboxInv, ItemsInv, DeliverFollowUp
  PROVE  ItemsInv'
<1> DEFINE h == Head(followUps)
<1>1. /\ UNCHANGED <<dir, arrivals, cancelled, outstanding>> /\ followUps # <<>>
      /\ followUps' = Tail(followUps)
      /\ log' = [log EXCEPT ![session] = Append(@, h)]
  BY DEF DeliverFollowUp, history, bridge
<1>2. /\ followUps \in Seq(Items) /\ log \in [Sessions -> Seq(Items)] /\ session \in Sessions
      /\ h \in Items /\ 1 \in DOMAIN followUps /\ h = followUps[1]
  BY <1>1 DEF MailboxInv, DeliveryInv, LossInv, LogTypes
<1>3. Arrived' = Arrived /\ Cancelled' = Cancelled
  BY <1>1 DEF Arrived, Cancelled
<1>4. \A k \in DOMAIN followUps' : \E l \in DOMAIN followUps : followUps'[k] = followUps[l]
  <2>1. ASSUME NEW k \in DOMAIN followUps' PROVE k + 1 \in DOMAIN followUps
                                                 /\ followUps'[k] = followUps[k + 1]
    BY <1>1, <1>2, <2>1
  <2>2. QED
    BY <2>1
<1>5. \A s \in Sessions : \A k \in DOMAIN log'[s] :
        log'[s][k] = h \/ (k \in DOMAIN log[s] /\ log'[s][k] = log[s][k])
  <2>1. ASSUME NEW s \in Sessions, NEW k \in DOMAIN log'[s]
        PROVE  log'[s][k] = h \/ (k \in DOMAIN log[s] /\ log'[s][k] = log[s][k])
    <3>1. CASE s = session
      <4>1. log'[s] = Append(log[s], h) /\ log[s] \in Seq(Items)
        BY <1>1, <1>2, <3>1
      <4>2. QED
        BY <1>2, <2>1, <4>1
    <3>2. CASE s # session
      BY <1>1, <1>2, <2>1, <3>2
    <3>3. QED
      BY <3>1, <3>2
  <2>2. QED
    BY <2>1
<1>6. \A m \in Delivered' : m \in Delivered \/ m = h.message
  BY <1>5 DEF Delivered, Logged
<1>7. Traced'
  BY <1>1, <1>2, <1>3, <1>4, <1>6 DEF ItemsInv, Traced
<1>8. OneItem'
  <2>1. \A i \in dir : h.message = i.message => h = i
    BY <1>2 DEF ItemsInv, OneItem
  <2>2. QED
    BY <1>1, <1>4, <1>5, <2>1 DEF ItemsInv, OneItem
<1>9. OfferedOldest'
  BY <1>1, <1>2, <1>4, <1>6 DEF ItemsInv, OfferedOldest, Offered
<1>10. CancelledGone'
  BY <1>1, <1>3 DEF ItemsInv, CancelledGone
<1>11. QED
  BY <1>7, <1>8, <1>9, <1>10 DEF ItemsInv

LEMMA ItemsStepPreserves ==
  ASSUME Twins = {}, MailboxInv, ItemsInv, [InboxNext]_inboxVars
  PROVE  ItemsInv'
<1>1. LogTypes /\ Stored
  BY DEF MailboxInv, DeliveryInv, LossInv, OrderInv
<1>2. CASE \E m \in Messages : PersistItem(m)
  BY <1>2, PersistKeepsItems
<1>3. CASE \E i \in dir : Offer(i)
  BY <1>3, OfferKeepsItems
<1>4. CASE DeliverFollowUp
  BY <1>4, DeliverKeepsItems
<1>5. CASE CancelItem
  <2>1. /\ cancelled' = cancelled \cup {<<i.message, session>> : i \in dir \ dir'}
        /\ dir' \subseteq dir /\ UNCHANGED <<log, arrivals, followUps, outstanding>>
    BY <1>5 DEF CancelItem, pi, queue
  <2>2. \A m \in Cancelled' : m \in Cancelled \/ \E j \in dir \ dir' : m = j.message
    <3>1. ASSUME NEW c \in cancelled'
          PROVE  c[1] \in Cancelled \/ \E j \in dir \ dir' : c[1] = j.message
      <4>1. CASE c \in cancelled
        BY <4>1 DEF Cancelled
      <4>2. CASE \E j \in dir \ dir' : c = <<j.message, session>>
        BY <4>2
      <4>3. QED
        BY <2>1, <4>1, <4>2
    <3>2. QED
      BY <3>1 DEF Cancelled
  <2>3. QED
    BY <1>1, <2>1, <2>2, ItemsFewer
<1>6. CASE /\ Quiet /\ dir' \subseteq dir /\ followUps' \in {followUps, <<>>}
           /\ outstanding' \in {outstanding, NoId}
  BY <1>1, <1>6, ItemsFewer DEF Quiet, Cancelled
<1>7. \/ outstanding' \in {outstanding, NoId}
      \/ \E i \in dir : Offer(i)
  <2>1. OfferOldest => UNCHANGED outstanding \/ \E i \in dir : Offer(i)
    BY DEF OfferOldest, Offer, OldestItem
  <2>2. QED
    BY <2>1 DEF InboxNext, SenderStep, LockInbox, RefuseEnqueue, PersistItem, Unlock,
         SendHint,
       SkipHint, SenderCrash, RecipientStep, StartSession, JoinCrew, LeaveCrew, EndProcess,
       Invalidate, PauseInbox, ResumeInbox, DeliverFollowUp, EndTurn, RequestCancel, BridgeStep,
       BeginOffer, AbandonOffer, ReadEvidence, ListItems, RemoveDelivered, RemoveListed, Reconcile,
       BeginCancel, CancelItem, inboxVars, bridge
<1>8. OfferOldest => UNCHANGED followUps \/ \E i \in dir : Offer(i)
  BY DEF OfferOldest, Offer, OldestItem
<1>9. QED
  BY <1>2, <1>3, <1>4, <1>5, <1>6, <1>7, <1>8, QuietSteps

LEMMA ItemsInvHolds ==
  ASSUME Twins = {}
  PROVE  InboxSpec => []ItemsInv
<1>1. InboxInit => ItemsInv
  <2>1. SUFFICES ASSUME InboxInit PROVE ItemsInv
    OBVIOUS
  <2>2. dir = {} /\ outstanding = NoId /\ followUps = <<>> /\ cancelled = {}
        /\ log = [s \in Sessions |-> <<>>]
    BY <2>1 DEF InboxInit
  <2>3. Delivered = {} /\ Cancelled = {}
    BY <2>2 DEF Delivered, Logged, Cancelled
  <2>4. Traced
    BY <2>2, <2>3, IdNotNone DEF Traced
  <2>5. OneItem /\ OfferedOldest /\ CancelledGone
    BY <2>2 DEF OneItem, OfferedOldest, CancelledGone
  <2>6. QED
    BY <2>4, <2>5 DEF ItemsInv
<1>2. MailboxInv /\ ItemsInv /\ [InboxNext]_inboxVars => ItemsInv'
  BY ItemsStepPreserves
<1>3. QED
  BY <1>1, <1>2, MailboxInvHolds, PTL DEF InboxSpec

-----------------------------------------------------------------------------
(* One copy for each time a session joined.  A session may be given a       *)
(* stored item when it has no more copies of it than it left the crew       *)
(* (Spare).  Where it may not, its log or the outstanding mark tells        *)
(* (Guarded), and an attempt that saw neither finds only items with a copy  *)
(* to spare (SeenGuards, ListedAll, PeekSpare).                             *)

CopyTypes == leaves \in [Sessions -> Nat] /\ cancelled \subseteq Messages \X Sessions
Held == (current = TRUE => owned = TRUE) /\ (owned = FALSE => outstanding = NoId)

Spare(i, s) == Copies(i.message, s) <= leaves[s]
Guarded ==
  \A i \in dir, s \in Sessions :
    Spare(i, s) \/ Id(i) \in Evidence(s) \/ (s = session /\ outstanding = Id(i))
SeenGuards ==
  step \in {"list", "remove"} /\ current = TRUE =>
    \A i \in dir : Spare(i, session) \/ Id(i) \in seen \cup {outstanding}
ListedAll ==
  step = "remove" /\ current = TRUE =>
    \A i \in dir : Id(i) \in seen \cup {outstanding} => i \in listed
PeekSpare ==
  step = "peek" /\ current = TRUE => outstanding = NoId /\ \A i \in dir : Spare(i, session)
CancelSpare ==
  step = "cancel" => \A i \in dir : Id(i) = Head(ops) => Spare(i, session)
AttemptsGuarded == Guarded /\ SeenGuards /\ ListedAll /\ PeekSpare /\ CancelSpare

CopyInv == CopyTypes /\ Held /\ CopiesBounded /\ CancelIsFinal /\ AttemptsGuarded
KnownInv == LogTypes /\ MailboxInv /\ WakeInv /\ ItemsInv

(* A session leaves the crew by LeaveCrew only, and an item is cancelled by *)
(* CancelItem only.                                                         *)
LEMMA CopyTypesKept ==
  ASSUME LogTypes, CopyTypes, [InboxNext]_inboxVars
  PROVE  /\ CopyTypes' /\ \A s \in Sessions : leaves[s] <= leaves'[s]
         /\ UNCHANGED cancelled \/ CancelItem
<1>1. CASE LeaveCrew
  BY <1>1 DEF LeaveCrew, LogTypes, CopyTypes
<1>2. CASE CancelItem
  <2>1. UNCHANGED leaves /\ dir \subseteq Items /\ session \in Sessions
        /\ cancelled' = cancelled \cup {<<i.message, session>> : i \in dir \ dir'}
    BY <1>2 DEF CancelItem, LogTypes
  <2>2. QED
    BY <1>2, <2>1 DEF CopyTypes, Items
<1>3. CASE UNCHANGED <<leaves, cancelled>>
  BY <1>3 DEF CopyTypes
<1>4. CASE \E m \in Messages : SenderStep(m)
  BY <1>3, <1>4 DEF SenderStep, LockInbox, RefuseEnqueue, PersistItem, Unlock, SendHint,
       SkipHint,
     SenderCrash, history
<1>5. CASE RecipientStep
  BY <1>1, <1>3, <1>5 DEF RecipientStep, StartSession, JoinCrew, EndProcess, PauseInbox,
     ResumeInbox, DeliverFollowUp, EndTurn, RequestCancel, history
<1>6. CASE BridgeStep
  BY <1>2, <1>3, <1>6 DEF BridgeStep, BeginOffer, AbandonOffer, ReadEvidence, ListItems,
     RemoveDelivered, RemoveListed, Reconcile, OfferOldest, BeginCancel, history
<1>7. QED
  BY <1>3, <1>4, <1>5, <1>6 DEF InboxNext, inboxVars, history

(* Without an offer, what has a copy to spare keeps it.                     *)
LEMMA SpareStays ==
  ASSUME KnownInv, CopyTypes, CopiesBounded, [InboxNext]_inboxVars,
         ~ \E i \in dir : Offer(i)
  PROVE  /\ LogTypes' /\ CopiesBounded'
         /\ \A i, s : s \in Sessions /\ Spare(i, s) => Spare(i, s)'
         /\ \A m, s : s \in Sessions /\ Copies(m, s) = 0 => Copies(m, s)' = 0
<1>1. LogTypes /\ LogTypes' /\ OnlyAlive /\ alive \in BOOLEAN
  BY LogsGrow DEF KnownInv, MailboxInv, DeliveryInv, WakeInv, BridgeTypes
<1>2. ASSUME NEW m, NEW s \in Sessions
      PROVE  /\ Copies(m, s) \in Nat /\ Copies(m, s)' \in Nat /\ Copies(m, s)' <= Copies(m, s)
             /\ leaves[s] \in Nat /\ leaves'[s] \in Nat /\ leaves[s] <= leaves'[s]
  <2>1. Copies(m, s)' <= Copies(m, s)
    BY <1>1, OtherCopies
  <2>2. Copies(m, s) \in Nat /\ (s \in Sessions => Copies(m, s)' \in Nat)
    BY <1>1, CopiesCount, CopiesNat
  <2>3. CopyTypes' /\ leaves[s] <= leaves'[s]
    BY <1>1, CopyTypesKept
  <2>4. QED
    BY <2>1, <2>2, <2>3 DEF CopyTypes
<1>3. CopiesBounded'
  <2>1. ASSUME NEW m \in Messages, NEW s \in Sessions PROVE Copies(m, s)' <= 1 + leaves'[s]
    <3>1. Copies(m, s) <= 1 + leaves[s]
      BY DEF CopiesBounded
    <3>2. QED
      BY <1>2, <3>1
  <2>2. QED
    BY <2>1 DEF CopiesBounded
<1>4. ASSUME NEW i, NEW s \in Sessions, Spare(i, s) PROVE Spare(i, s)'
  <2>1. Copies(i.message, s) <= leaves[s]
    BY <1>4 DEF Spare
  <2>2. Copies(i.message, s)' <= leaves'[s]
    BY <1>2, <2>1
  <2>3. QED
    BY <2>2 DEF Spare
<1>5. ASSUME NEW m, NEW s \in Sessions, Copies(m, s) = 0 PROVE Copies(m, s)' = 0
  <2>1. Copies(m, s)' \in Nat /\ Copies(m, s)' <= 0
    BY <1>2, <1>5
  <2>2. QED
    BY <2>1
<1>6. QED
  BY <1>1, <1>3, <1>4, <1>5

(* What an attempt knows is kept while neither the session nor the          *)
(* outstanding mark changes; a new item has copies to spare everywhere.     *)
LEMMA GuardsStay ==
  ASSUME KnownInv, CopyInv, [InboxNext]_inboxVars, ~ \E i \in dir : Offer(i),
         UNCHANGED <<session, outstanding>>,
         \A i \in dir' :
           i \in dir \/ (/\ \A s \in Sessions : Spare(i, s)
                         /\ Id(i) \notin seen \cup {outstanding}),
         \/ step' \in {"idle", "open"}
         \/ /\ UNCHANGED <<step, seen, listed>>
            /\ current' = TRUE => current = TRUE
            /\ step = "cancel" => Head(ops') = Head(ops)
  PROVE  AttemptsGuarded'
<1>1. /\ session \in Sessions
      /\ \A i, s : s \in Sessions /\ Spare(i, s) => Spare(i, s)'
      /\ \A s \in Sessions : Evidence(s) \subseteq Evidence(s)'
  <2>1. \A s \in Sessions : Evidence(s) \subseteq Evidence(s)'
    BY LogsGrow, EvidenceStays DEF KnownInv, MailboxInv, DeliveryInv
  <2>2. QED
    BY <2>1, SpareStays DEF KnownInv, LogTypes, CopyInv
<1>2. \A i \in dir' : i \in dir \/ \A s \in Sessions : Spare(i, s)
  OBVIOUS
<1>3. Guarded'
  <2>1. SUFFICES ASSUME NEW i \in dir', NEW s \in Sessions
                 PROVE  \/ Spare(i, s)' \/ Id(i) \in Evidence(s)'
                        \/ (s = session /\ outstanding = Id(i))
    BY DEF Guarded
  <2>2. Spare(i, s) \/ Id(i) \in Evidence(s) \/ (s = session /\ outstanding = Id(i))
    BY <1>2 DEF CopyInv, AttemptsGuarded, Guarded
  <2>3. QED
    BY <1>1, <2>2
<1>4. CASE step' \in {"idle", "open"}
  BY <1>3, <1>4 DEF AttemptsGuarded, SeenGuards, ListedAll, PeekSpare, CancelSpare
<1>5. CASE /\ UNCHANGED <<step, seen, listed>> /\ current' = TRUE => current = TRUE
           /\ step = "cancel" => Head(ops') = Head(ops)
  <2>1. SeenGuards'
    BY <1>1, <1>2, <1>5 DEF CopyInv, AttemptsGuarded, SeenGuards
  <2>2. ListedAll'
    BY <1>5 DEF CopyInv, AttemptsGuarded, ListedAll
  <2>3. PeekSpare'
    BY <1>1, <1>2, <1>5 DEF CopyInv, AttemptsGuarded, PeekSpare
  <2>4. CancelSpare'
    BY <1>1, <1>2, <1>5 DEF CopyInv, AttemptsGuarded, CancelSpare
  <2>5. QED
    BY <1>3, <2>1, <2>2, <2>3, <2>4 DEF AttemptsGuarded
<1>6. QED
  BY <1>4, <1>5

(* A trigger leaves the operation that runs at the front.                   *)
LEMMA QueueKeepsFirst ==
  ASSUME WakeInv, NEW op, Queue(op), step = "cancel"
  PROVE  Head(ops') = Head(ops)
<1>1. ops # <<>> /\ ops' = Append(ops, op) /\ Len(ops) \in Nat /\ Len(ops) > 0
  BY DEF WakeInv, RunningFirst, BridgeTypes, Queue
<1>2. QED
  BY <1>1 DEF WakeInv, BridgeTypes

(* What an attempt has seen is the id of a delivered item.                  *)
LEMMA SeenDelivered ==
  ASSUME LogTypes, MailboxInv, NEW id \in seen
  PROVE  \E i \in Items : Id(i) = id /\ i.message \in Delivered
<1>1. PICK s \in Sessions : id \in Evidence(s)
  BY DEF MailboxInv, DeliveryInv, LossInv, SeenLogged
<1>2. PICK k \in DOMAIN log[s] : Id(log[s][k]) = id
  BY <1>1 DEF Evidence
<1>3. log[s][k] \in Items /\ log[s][k].message \in Delivered
  BY DEF LogTypes, Delivered, Logged
<1>4. QED
  BY <1>2, <1>3

LEMMA SendersKeepGuards ==
  ASSUME Twins = {}, KnownInv, CopyInv, NEW m \in Messages, SenderStep(m)
  PROVE  AttemptsGuarded'
<1>1. [InboxNext]_inboxVars /\ UNCHANGED <<session, outstanding, step, seen, listed, current, followUps>>
      /\ ~ OfferOldest
  <2>1. [InboxNext]_inboxVars
    BY DEF InboxNext
  <2>2. UNCHANGED <<session, outstanding, step, seen, listed, current, followUps>>
    BY DEF SenderStep, LockInbox, RefuseEnqueue, PersistItem, Unlock, SendHint, SkipHint,
       SenderCrash, pi, process, queue, bridge, attempt
  <2>3. ~ OfferOldest
    <3>1. sender' # sender
      BY DEF SenderStep, LockInbox, RefuseEnqueue, PersistItem, Unlock, SendHint,
           SkipHint,
         SenderCrash, Move, KnownInv, MailboxInv, StoreInv, StoreTypes
    <3>2. QED
      BY <3>1 DEF OfferOldest, senders
  <2>4. QED
    BY <2>1, <2>2, <2>3
<1>2. ~ \E i \in dir : Offer(i)
  BY <1>1 DEF Offer
<1>3. step = "cancel" => Head(ops') = Head(ops)
  <2>1. UNCHANGED ops \/ Queue("offer")
    BY DEF SenderStep, LockInbox, RefuseEnqueue, PersistItem, Unlock, SendHint, SkipHint,
       SenderCrash, bridge, attempt
  <2>2. QED
    BY <2>1, QueueKeepsFirst DEF KnownInv
<1>4. CASE PersistItem(m)
  <2> DEFINE new == [sequence |-> chosen[m], message |-> m]
  <2>1. dir' = dir \cup {new} /\ sender[m] = "locked"
    BY <1>4 DEF PersistItem, Move
  <2>2. m \notin Arrived /\ new.message = m /\ new \in Items
    BY <2>1 DEF KnownInv, MailboxInv, OrderInv, Once, StoreInv, StoreTypes, Items
  <2>3. Id(new) \notin seen
    <3>1. SUFFICES ASSUME Id(new) \in seen PROVE FALSE
      OBVIOUS
    <3>2. PICK i \in Items : Id(i) = Id(new) /\ i.message \in Delivered
      BY <3>1, SeenDelivered DEF KnownInv
    <3>3. QED
      BY <2>2, <3>2, IdNames DEF KnownInv, ItemsInv, Traced
  <2>4. outstanding # Id(new)
    BY <2>2 DEF KnownInv, ItemsInv, Traced
  <2>5. ASSUME NEW s \in Sessions PROVE Spare(new, s)
    <3>1. \A k \in DOMAIN log[s] : log[s][k].message # m
      BY <2>2 DEF KnownInv, ItemsInv, Traced, Delivered, Logged
    <3>2. \A k \in DOMAIN followUps : followUps[k].message # m
      BY <2>2 DEF KnownInv, ItemsInv, Traced
    <3>3. Count(log[s], m) = 0 /\ Count(followUps, m) = 0
      BY <3>1, <3>2, CountType DEF KnownInv, LogTypes
    <3>4. Copies(m, s) = 0
      BY <3>3, CopiesCount DEF KnownInv
    <3>5. QED
      BY <2>2, <3>4 DEF Spare, CopyInv, CopyTypes
  <2>6. QED
    BY <1>1, <1>2, <1>3, <2>1, <2>3, <2>4, <2>5, GuardsStay
<1>5. CASE ~PersistItem(m)
  <2>1. UNCHANGED dir
    BY <1>5 DEF SenderStep, LockInbox, RefuseEnqueue, Unlock, SendHint, SkipHint,
         SenderCrash
  <2>2. QED
    BY <1>1, <1>2, <1>3, <2>1, GuardsStay
<1>6. QED
  BY <1>4, <1>5

(* Leaving makes room for one more copy of everything; the end of the       *)
(* process takes the copies that are not in the log.                        *)
LEMMA RecipientKeepsGuards ==
  ASSUME KnownInv, CopyInv, RecipientStep
  PROVE  AttemptsGuarded'
<1>1. [InboxNext]_inboxVars /\ UNCHANGED dir /\ ~ OfferOldest
  <2>1. [InboxNext]_inboxVars
    BY DEF InboxNext
  <2>2. UNCHANGED dir
    BY DEF RecipientStep, StartSession, JoinCrew, LeaveCrew, EndProcess, PauseInbox,
         ResumeInbox,
       DeliverFollowUp, EndTurn, RequestCancel
  <2>3. ~ OfferOldest
    <3>1. SUFFICES ASSUME OfferOldest PROVE FALSE
      OBVIOUS
    <3>2. step' = "idle" /\ step = "peek" /\ ops # <<>> /\ Head(ops) = "offer"
          /\ UNCHANGED <<alive, session, crashes, log, turn, paused, commands, owned, leaves>>
          /\ alive = TRUE
      BY <3>1 DEF OfferOldest, Finish, process, user, history, KnownInv, WakeInv,
           RunningFirst,
         OnlyAlive, Attempting, BridgeTypes
    <3>3. CASE EndProcess
      BY <3>2, <3>3 DEF EndProcess
    <3>4. CASE \E s \in Sessions : StartSession(s)
      BY <3>2, <3>4 DEF StartSession
    <3>5. QED
      BY <3>2, <3>3, <3>4 DEF RecipientStep, JoinCrew, LeaveCrew, PauseInbox, ResumeInbox,
         DeliverFollowUp, EndTurn, RequestCancel, bridge, attempt
  <2>4. QED
    BY <2>1, <2>2, <2>3
<1>2. ~ \E i \in dir : Offer(i)
  BY <1>1 DEF Offer
<1>3. /\ \A i, s : s \in Sessions /\ Spare(i, s) => Spare(i, s)'
      /\ \A s \in Sessions : Evidence(s) \subseteq Evidence(s)'
      /\ LogTypes /\ LogTypes'
  <2>1. \A s \in Sessions : Evidence(s) \subseteq Evidence(s)'
    BY <1>1, LogsGrow, EvidenceStays DEF KnownInv, MailboxInv, DeliveryInv
  <2>2. QED
    BY <1>1, <1>2, <2>1, SpareStays DEF KnownInv, CopyInv
<1>4. ASSUME NEW t \in Sessions, StartSession(t) PROVE AttemptsGuarded'
  <2>1. step' = "idle" /\ outstanding' = NoId /\ outstanding = NoId
    BY <1>4 DEF StartSession, bridge, attempt, KnownInv, WakeInv, OnlyAlive, BridgeTypes
  <2>2. Guarded'
    BY <1>1, <1>3, <2>1, IdNotNone DEF CopyInv, AttemptsGuarded, Guarded
  <2>3. QED
    BY <2>1, <2>2 DEF AttemptsGuarded, SeenGuards, ListedAll, PeekSpare, CancelSpare
<1>5. CASE JoinCrew
  <2>1. /\ UNCHANGED <<step, seen, listed, session>> /\ current' = FALSE /\ Queue("offer")
        /\ outstanding' = IF owned THEN outstanding ELSE NoId
    BY <1>5 DEF JoinCrew, process
  <2>2. outstanding' = outstanding
    BY <2>1 DEF CopyInv, Held, KnownInv, WakeInv, BridgeTypes
  <2>3. step = "cancel" => Head(ops') = Head(ops)
    BY <2>1, QueueKeepsFirst DEF KnownInv
  <2>4. QED
    BY <1>1, <1>2, <2>1, <2>2, <2>3, GuardsStay
<1>6. CASE LeaveCrew
  <2>1. /\ leaves' = [leaves EXCEPT ![session] = @ + 1] /\ outstanding' = NoId
        /\ current' = FALSE /\ UNCHANGED <<session, step, ops, log, followUps>>
    BY <1>6 DEF LeaveCrew, Invalidate, process, queue
  <2>2. ASSUME NEW i \in dir PROVE Spare(i, session)'
    <3>1. session \in Sessions /\ i.message \in Messages
      BY <1>3 DEF LogTypes, Items
    <3>2. Copies(i.message, session) <= 1 + leaves[session] /\ leaves[session] \in Nat
      BY <3>1 DEF CopyInv, CopiesBounded, CopyTypes
    <3>3. Copies(i.message, session)' = Copies(i.message, session)
      BY <2>1 DEF Copies
    <3>4. leaves'[session'] = leaves[session] + 1 /\ session' = session
      BY <2>1, <3>1 DEF CopyInv, CopyTypes
    <3>5. Copies(i.message, session)' <= leaves'[session']
      BY <3>2, <3>3, <3>4
    <3>6. QED
      BY <3>5 DEF Spare
  <2>3. Guarded'
    <3>1. ASSUME NEW i \in dir, NEW s \in Sessions PROVE Spare(i, s)' \/ Id(i) \in Evidence(s)'
      <4>1. CASE s = session
        BY <2>1, <2>2, <4>1
      <4>2. CASE s # session
        BY <1>3, <4>2 DEF CopyInv, AttemptsGuarded, Guarded
      <4>3. QED
        BY <4>1, <4>2
    <3>2. QED
      BY <1>1, <3>1 DEF Guarded
  <2>4. SeenGuards' /\ ListedAll' /\ PeekSpare'
    BY <2>1 DEF SeenGuards, ListedAll, PeekSpare
  <2>5. CancelSpare'
    BY <1>1, <2>1, <2>2 DEF CancelSpare
  <2>6. QED
    BY <2>3, <2>4, <2>5 DEF AttemptsGuarded
<1>7. CASE EndProcess
  <2>1. /\ step' = "idle" /\ outstanding' = NoId /\ followUps' = <<>>
        /\ UNCHANGED <<session, log, leaves>>
    BY <1>7 DEF EndProcess, Invalidate, history
  <2>2. ASSUME NEW i \in dir, NEW s \in Sessions PROVE Spare(i, s)' \/ Id(i) \in Evidence(s)'
    <3>1. CASE Id(i) \in Evidence(s)
      BY <1>3, <3>1
    <3>2. CASE Id(i) \notin Evidence(s)
      <4>1. \A k \in DOMAIN log[s] : log[s][k].message # i.message
        BY <3>2 DEF Evidence, KnownInv, ItemsInv, OneItem
      <4>2. Count(log[s], i.message) = 0 /\ Count(<<>>, i.message) = 0
        BY <1>3, <4>1, CountType, CountEmpty DEF LogTypes
      <4>3. Copies(i.message, s)' = Count(log'[s], i.message)
                                    + (IF s = session' THEN Count(followUps', i.message) ELSE 0)
        BY DEF Copies, Count, Copied
      <4>4. Copies(i.message, s)' = 0
        BY <2>1, <4>2, <4>3
      <4>5. leaves'[s] \in Nat
        BY <2>1 DEF CopyInv, CopyTypes
      <4>6. Copies(i.message, s)' <= leaves'[s]
        BY <4>4, <4>5
      <4>7. QED
        BY <4>6 DEF Spare
    <3>3. QED
      BY <3>1, <3>2
  <2>3. Guarded'
    BY <1>1, <2>2 DEF Guarded
  <2>4. QED
    BY <2>1, <2>3 DEF AttemptsGuarded, SeenGuards, ListedAll, PeekSpare, CancelSpare
<1>8. CASE PauseInbox \/ ResumeInbox \/ DeliverFollowUp \/ EndTurn \/ \E i \in dir : RequestCancel(i)
  <2>1. /\ UNCHANGED <<session, outstanding, step, seen, listed, current>>
        /\ UNCHANGED ops \/ \E op : Queue(op)
    BY <1>8 DEF PauseInbox, ResumeInbox, DeliverFollowUp, EndTurn, RequestCancel, bridge,
         attempt,
       process
  <2>2. step = "cancel" => Head(ops') = Head(ops)
    BY <2>1, QueueKeepsFirst DEF KnownInv
  <2>3. QED
    BY <1>1, <1>2, <2>1, <2>2, GuardsStay
<1>9. QED
  BY <1>4, <1>5, <1>6, <1>7, <1>8 DEF RecipientStep

(* An offer takes the copy that was to spare, and the outstanding mark says *)
(* so; a message that was cancelled is not stored and so never offered.     *)
LEMMA OfferKeepsGuards ==
  ASSUME KnownInv, CopyInv, LogTypes', NEW o \in dir, Offer(o)
  PROVE  AttemptsGuarded' /\ CopiesBounded' /\ CancelIsFinal'
<1>1. /\ step = "peek" /\ step' = "idle" /\ current = TRUE
      /\ UNCHANGED <<dir, session, log, leaves, cancelled>> /\ outstanding' = Id(o)
  BY DEF Offer, OfferOldest, Finish, process, history, KnownInv, WakeInv, BridgeTypes
<1>2. /\ session \in Sessions /\ outstanding = NoId /\ \A i \in dir : Spare(i, session)
      /\ \A s \in Sessions : leaves[s] \in Nat
  BY <1>1 DEF KnownInv, LogTypes, CopyInv, AttemptsGuarded, PeekSpare, CopyTypes
<1>3. ASSUME NEW m, NEW s \in Sessions
      PROVE  Copies(m, s)' = Copies(m, s) + (IF s = session /\ o.message = m THEN 1 ELSE 0)
             /\ Copies(m, s) \in Nat
  BY OfferCopies, CopiesCount DEF KnownInv
<1>4. CopiesBounded'
  <2>1. ASSUME NEW m \in Messages, NEW s \in Sessions PROVE Copies(m, s)' <= 1 + leaves'[s]
    <3>1. CASE s = session /\ o.message = m
      <4>1. Copies(m, s) <= leaves[s]
        BY <1>2, <3>1 DEF Spare
      <4>2. Copies(m, s)' = Copies(m, s) + 1
        BY <1>3, <3>1
      <4>3. QED
        BY <1>1, <1>2, <1>3, <4>1, <4>2
    <3>2. CASE ~(s = session /\ o.message = m)
      <4>1. Copies(m, s) <= 1 + leaves[s]
        BY DEF CopyInv, CopiesBounded
      <4>2. Copies(m, s)' = Copies(m, s)
        BY <1>3, <3>2
      <4>3. QED
        BY <1>1, <4>1, <4>2
    <3>3. QED
      BY <3>1, <3>2
  <2>2. QED
    BY <2>1 DEF CopiesBounded
<1>5. Guarded'
  <2>1. SUFFICES ASSUME NEW i \in dir, NEW s \in Sessions
                 PROVE  \/ Spare(i, s)' \/ Id(i) \in Evidence(s)
                        \/ (s = session /\ outstanding' = Id(i))
    BY <1>1 DEF Guarded, Evidence
  <2>2. CASE s = session /\ i.message = o.message
    BY <1>1, <2>2 DEF KnownInv, ItemsInv, OneItem
  <2>3. CASE ~(s = session /\ i.message = o.message)
    <3>1. Copies(i.message, s)' = Copies(i.message, s)
      BY <1>3, <2>3
    <3>2. Spare(i, s) => Spare(i, s)'
      BY <1>1, <3>1 DEF Spare
    <3>3. Spare(i, s) \/ Id(i) \in Evidence(s)
      BY <1>2, IdNotNone DEF CopyInv, AttemptsGuarded, Guarded
    <3>4. QED
      BY <3>2, <3>3
  <2>4. QED
    BY <2>2, <2>3
<1>6. CancelIsFinal'
  <2>1. ASSUME NEW c \in cancelled, leaves[c[2]] = 0 PROVE Copies(c[1], c[2])' = 0
    <3>1. Copies(c[1], c[2]) = 0 /\ c[2] \in Sessions /\ c[1] \in Cancelled
      BY <2>1 DEF CopyInv, CancelIsFinal, CopyTypes, Cancelled
    <3>2. o.message # c[1]
      BY <3>1 DEF KnownInv, ItemsInv, CancelledGone
    <3>3. Copies(c[1], c[2])' = Copies(c[1], c[2])
      BY <1>3, <3>1, <3>2
    <3>4. QED
      BY <3>1, <3>3
  <2>2. QED
    BY <1>1, <2>1 DEF CancelIsFinal
<1>7. QED
  BY <1>1, <1>4, <1>5, <1>6
  DEF AttemptsGuarded, SeenGuards, ListedAll, PeekSpare, CancelSpare

(* The listing has every item that was offered: it is the oldest.           *)
LEMMA OfferedListed ==
  ASSUME Twins = {}, MaxListed > 0, KnownInv, NEW i \in dir, Id(i) \in seen \cup {outstanding}
  PROVE  i \in Listing(dir)
<1>1. i \in Items
  BY DEF KnownInv, LogTypes
<1>2. Offered(i)
  <2>1. ASSUME Id(i) \in seen PROVE i.message \in Delivered
    <3>1. PICK j \in Items : Id(j) = Id(i) /\ j.message \in Delivered
      BY <2>1, SeenDelivered DEF KnownInv
    <3>2. j.message = i.message
      BY <1>1, <3>1, IdNames
    <3>3. QED
      BY <3>1, <3>2
  <2>2. QED
    BY <2>1 DEF Offered
<1>3. Before(dir, i) = {}
  BY <1>2 DEF KnownInv, ItemsInv, OfferedOldest
<1>4. Cardinality(Before(dir, i)) = 0
  BY <1>3, FS_EmptySet
<1>5. QED
  BY <1>4, InboxAssumption DEF Listing

(* An attempt that offers nothing: what it reads and lists covers all that  *)
(* was offered, so when none of it is left, everything has a copy to spare. *)
LEMMA BridgeKeepsGuards ==
  ASSUME Twins = {}, MaxListed > 0, KnownInv, CopyInv, BridgeStep, ~ \E i \in dir : Offer(i)
  PROVE  AttemptsGuarded'
<1>1. /\ [InboxNext]_inboxVars /\ dir' \subseteq dir
      /\ UNCHANGED <<session, log, leaves, owned>>
      /\ current \in BOOLEAN
  BY DEF InboxNext, BridgeStep, BeginOffer, AbandonOffer, ReadEvidence, ListItems,
       RemoveDelivered,
     RemoveListed, Reconcile, OfferOldest, BeginCancel, CancelItem, pi, process, queue, history,
     KnownInv, WakeInv, BridgeTypes
<1>2. /\ \A i, s : s \in Sessions /\ Spare(i, s) => Spare(i, s)'
      /\ \A s \in Sessions : Evidence(s)' = Evidence(s)
      /\ session \in Sessions
  BY <1>1, SpareStays DEF KnownInv, CopyInv, LogTypes, Evidence
<1>3. CASE UNCHANGED outstanding /\ step' \in {"idle", "open"}
  BY <1>1, <1>3, GuardsStay
<1>4. CASE BeginOffer \/ AbandonOffer \/ OfferOldest \/ CancelItem
  <2>1. UNCHANGED outstanding /\ step' \in {"idle", "open"}
    BY <1>4 DEF BeginOffer, AbandonOffer, OfferOldest, CancelItem, Finish, Offer,
         OldestItem
  <2>2. QED
    BY <1>3, <2>1
<1>5. ASSUME UNCHANGED outstanding PROVE Guarded'
  BY <1>1, <1>2, <1>5 DEF Guarded, CopyInv, AttemptsGuarded
<1>6. CASE ReadEvidence
  <2>1. /\ step' = "list" /\ seen' = Evidence(session) /\ UNCHANGED <<dir, outstanding>>
    BY <1>6 DEF ReadEvidence
  <2>2. SeenGuards'
    <3>1. ASSUME NEW i \in dir PROVE Spare(i, session)' \/ Id(i) \in seen' \cup {outstanding}
      BY <1>1, <1>2, <2>1 DEF CopyInv, AttemptsGuarded, Guarded
    <3>2. QED
      BY <1>1, <2>1, <3>1 DEF SeenGuards
  <2>3. ListedAll' /\ PeekSpare' /\ CancelSpare'
    BY <2>1 DEF ListedAll, PeekSpare, CancelSpare
  <2>4. QED
    BY <1>5, <2>1, <2>2, <2>3 DEF CopyInv, AttemptsGuarded
<1>7. CASE ListItems
  <2>1. /\ step = "list" /\ step' = "remove" /\ listed' = Listing(dir) /\ current = TRUE
        /\ UNCHANGED <<dir, outstanding, seen, current>>
    BY <1>1, <1>7 DEF ListItems
  <2>2. SeenGuards'
    BY <1>1, <1>2, <2>1 DEF SeenGuards, CopyInv, AttemptsGuarded
  <2>3. ListedAll'
    BY <2>1, OfferedListed DEF ListedAll
  <2>4. PeekSpare' /\ CancelSpare'
    BY <2>1 DEF PeekSpare, CancelSpare
  <2>5. QED
    BY <1>5, <2>1, <2>2, <2>3, <2>4 DEF CopyInv, AttemptsGuarded
<1>8. CASE RemoveDelivered
  <2>1. PICK i \in listed : /\ step = "remove" /\ dir' = {j \in dir : Id(j) # Id(i)}
                            /\ IF current THEN listed' = listed \ {i} /\ UNCHANGED <<step, current, seen>>
                                          ELSE Finish
    BY <1>8 DEF RemoveDelivered, RemoveListed, OldestItem
  <2>2. UNCHANGED outstanding
    BY <1>8 DEF RemoveDelivered, RemoveListed
  <2>3. CASE current = TRUE
    <3>1. listed' = listed \ {i} /\ UNCHANGED <<step, current, seen>>
      BY <2>1, <2>3
    <3>2. SeenGuards'
      <4>1. step = "remove" /\ UNCHANGED <<session, seen, outstanding>> /\ dir' \subseteq dir
        BY <1>1, <2>1, <2>2, <3>1
      <4>2. \A j \in dir : Spare(j, session) \/ Id(j) \in seen \cup {outstanding}
        BY <2>3, <4>1 DEF SeenGuards, CopyInv, AttemptsGuarded
      <4>3. \A j \in dir : Spare(j, session)' \/ Id(j) \in seen \cup {outstanding}
        BY <1>1, <1>2, <4>2
      <4>4. QED
        BY <4>1, <4>3 DEF SeenGuards
    <3>3. ListedAll'
      BY <2>1, <2>2, <3>1 DEF ListedAll, CopyInv, AttemptsGuarded
    <3>4. PeekSpare' /\ CancelSpare'
      BY <2>1, <3>1 DEF PeekSpare, CancelSpare
    <3>5. QED
      BY <1>5, <2>2, <3>2, <3>3, <3>4 DEF CopyInv, AttemptsGuarded
  <2>4. CASE current = FALSE
    BY <1>3, <2>1, <2>2, <2>4 DEF Finish
  <2>5. QED
    BY <1>1, <2>3, <2>4
<1>9. CASE Reconcile
  <2>1. /\ step = "remove" /\ current = TRUE /\ \A i \in listed : Id(i) \notin seen
        /\ outstanding' = IF outstanding \in Ids(listed) THEN outstanding ELSE NoId
        /\ UNCHANGED dir
        /\ \/ Finish
           \/ step' = "peek" /\ outstanding' = NoId
    BY <1>1, <1>9 DEF Reconcile
  <2>2. ASSUME NEW i \in dir, outstanding = Id(i) PROVE outstanding' = Id(i)
    BY <2>1, <2>2 DEF CopyInv, AttemptsGuarded, ListedAll, Ids
  <2>3. Guarded'
    BY <1>1, <1>2, <2>1, <2>2 DEF Guarded, CopyInv, AttemptsGuarded
  <2>4. ASSUME outstanding' = NoId, NEW i \in dir PROVE Spare(i, session)
    <3>1. Id(i) \in seen \cup {outstanding} => i \in listed
      BY <2>1 DEF CopyInv, AttemptsGuarded, ListedAll
    <3>2. Id(i) \notin seen
      BY <2>1, <3>1
    <3>3. outstanding # Id(i)
      BY <2>2, <2>4, IdNotNone
    <3>4. QED
      BY <2>1, <3>2, <3>3 DEF CopyInv, AttemptsGuarded, SeenGuards
  <2>5. SeenGuards' /\ ListedAll' /\ CancelSpare'
    BY <2>1 DEF Finish, SeenGuards, ListedAll, CancelSpare
  <2>6. PeekSpare'
    BY <1>1, <1>2, <2>1, <2>4 DEF Finish, PeekSpare
  <2>7. QED
    BY <2>3, <2>5, <2>6 DEF AttemptsGuarded
<1>10. CASE BeginCancel
  <2>1. CASE Finish /\ UNCHANGED outstanding
    BY <1>3, <2>1 DEF Finish
  <2>2. CASE Cancellable(Head(ops)) /\ step' = "cancel" /\ UNCHANGED <<ops, dir, outstanding>>
    <3>1. CancelSpare'
      <4>1. ASSUME NEW i \in dir, Id(i) = Head(ops) PROVE Spare(i, session)
        BY <1>2, <2>2, <4>1 DEF Cancellable, CopyInv, AttemptsGuarded, Guarded
      <4>2. QED
        BY <1>1, <1>2, <2>2, <4>1 DEF CancelSpare
    <3>2. SeenGuards' /\ ListedAll' /\ PeekSpare'
      BY <2>2 DEF SeenGuards, ListedAll, PeekSpare
    <3>3. QED
      BY <1>5, <2>2, <3>1, <3>2 DEF CopyInv, AttemptsGuarded
  <2>3. QED
    BY <1>10, <2>1, <2>2 DEF BeginCancel
<1>11. QED
  BY <1>4, <1>6, <1>7, <1>8, <1>9, <1>10 DEF BridgeStep

LEMMA CopyStepPreserves ==
  ASSUME Twins = {}, MaxListed > 0, KnownInv, CopyInv, [InboxNext]_inboxVars
  PROVE  CopyInv'
<1>1. /\ LogTypes' /\ CopyTypes' /\ (UNCHANGED cancelled \/ CancelItem)
      /\ \A s \in Sessions : leaves[s] <= leaves'[s]
  BY LogsGrow, CopyTypesKept DEF KnownInv, MailboxInv, DeliveryInv, CopyInv
<1>2. Held'
  <2>1. current \in BOOLEAN /\ owned \in BOOLEAN
    BY DEF KnownInv, WakeInv, BridgeTypes
  <2>2. CASE \E m \in Messages : SenderStep(m)
    BY <2>2 DEF SenderStep, LockInbox, RefuseEnqueue, PersistItem, Unlock, SendHint,
         SkipHint,
       SenderCrash, bridge, attempt, CopyInv, Held
  <2>3. CASE RecipientStep
    BY <2>3 DEF RecipientStep, StartSession, JoinCrew, LeaveCrew, EndProcess, Invalidate,
       PauseInbox, ResumeInbox, DeliverFollowUp, EndTurn, RequestCancel, bridge, attempt, CopyInv,
       Held
  <2>4. CASE BridgeStep
    BY <2>1, <2>4 DEF BridgeStep, BeginOffer, AbandonOffer, ReadEvidence, ListItems,
       RemoveDelivered, RemoveListed, Reconcile, OfferOldest, BeginCancel, CancelItem, Finish,
       CopyInv, Held
  <2>5. CASE UNCHANGED inboxVars
    BY <2>5 DEF inboxVars, bridge, attempt, CopyInv, Held
  <2>6. QED
    BY <2>2, <2>3, <2>4, <2>5 DEF InboxNext
<1>3. CASE \E i \in dir : Offer(i)
  BY <1>1, <1>2, <1>3, OfferKeepsGuards DEF CopyInv
<1>4. CASE ~ \E i \in dir : Offer(i)
  <2>1. /\ CopiesBounded'
        /\ \A m, s : s \in Sessions /\ Copies(m, s) = 0 => Copies(m, s)' = 0
    BY <1>4, SpareStays DEF CopyInv
  <2>2. AttemptsGuarded'
    <3>1. CASE UNCHANGED inboxVars
      BY <1>4, <3>1, GuardsStay DEF inboxVars, pi, process, bridge, attempt
    <3>2. QED
      BY <1>4, <3>1, SendersKeepGuards, RecipientKeepsGuards, BridgeKeepsGuards
         DEF InboxNext
  <2>3. ASSUME NEW c \in cancelled', leaves'[c[2]] = 0 PROVE Copies(c[1], c[2])' = 0
    <3>1. c[2] \in Sessions
      BY <1>1 DEF CopyTypes
    <3>2. leaves[c[2]] = 0
      BY <1>1, <2>3, <3>1 DEF CopyInv, CopyTypes
    <3>3. Copies(c[1], c[2]) = 0
      <4>1. CASE c \in cancelled
        BY <3>2, <4>1 DEF CopyInv, CancelIsFinal
      <4>2. CASE c \notin cancelled
        <5>1. PICK i \in dir : c = <<i.message, session>> /\ step = "cancel" /\ Id(i) = Head(ops)
          BY <1>1, <4>2 DEF CancelItem
        <5>2. Spare(i, session)
          BY <5>1 DEF CopyInv, AttemptsGuarded, CancelSpare
        <5>3. Copies(c[1], c[2]) <= leaves[c[2]] /\ Copies(c[1], c[2]) \in Nat
          BY <3>1, <5>1, <5>2, CopiesCount DEF Spare, KnownInv
        <5>4. QED
          BY <3>2, <5>3
      <4>3. QED
        BY <4>1, <4>2
    <3>4. QED
      BY <2>1, <3>1, <3>3
  <2>4. CancelIsFinal'
    BY <2>3 DEF CancelIsFinal
  <2>5. QED
    BY <1>1, <1>2, <2>1, <2>2, <2>4 DEF CopyInv
<1>5. QED
  BY <1>3, <1>4

LEMMA CopyInvHolds ==
  ASSUME Twins = {}, MaxListed > 0
  PROVE  InboxSpec => []CopyInv
<1>1. InboxInit => CopyInv
  <2>1. SUFFICES ASSUME InboxInit PROVE CopyInv
    OBVIOUS
  <2>2. /\ dir = {} /\ cancelled = {} /\ leaves = [s \in Sessions |-> 0] /\ current = FALSE
        /\ outstanding = NoId /\ followUps = <<>> /\ log = [s \in Sessions |-> <<>>]
        /\ step = "idle"
    BY <2>1 DEF InboxInit
  <2>3. CopiesBounded
    <3>1. ASSUME NEW m \in Messages, NEW s \in Sessions PROVE Copies(m, s) = 0
      <4>1. Copies(m, s) = Count(log[s], m) + (IF s = session THEN Count(followUps, m) ELSE 0)
        BY DEF Copies, Count, Copied
      <4>2. Count(log[s], m) = 0 /\ Count(followUps, m) = 0
        BY <2>2, CountEmpty
      <4>3. QED
        BY <4>1, <4>2
    <3>2. QED
      BY <2>2, <3>1 DEF CopiesBounded
  <2>4. CopyTypes /\ Held /\ CancelIsFinal
    BY <2>2 DEF CopyTypes, Held, CancelIsFinal
  <2>5. AttemptsGuarded
    BY <2>2 DEF AttemptsGuarded, Guarded, SeenGuards, ListedAll, PeekSpare, CancelSpare
  <2>6. QED
    BY <2>3, <2>4, <2>5 DEF CopyInv
<1>2. LogTypes /\ WakeInv /\ MailboxInv /\ ItemsInv /\ CopyInv /\ [InboxNext]_inboxVars => CopyInv'
  BY CopyStepPreserves DEF KnownInv
<1>3. QED
  BY <1>1, <1>2, MailboxInvHolds, WakeInvHolds, ItemsInvHolds, PTL DEF InboxSpec

\* Without twins, a session has a message at most once for each time it joined, through
\* overlapping and stale attempts, restarts and returns to an earlier session
\* (attemptOffer: evidence, the outstanding item and isCurrent).
THEOREM CopiesBoundedHolds ==
  ASSUME Twins = {}, MaxListed > 0
  PROVE  InboxSpec => []CopiesBounded
<1>1. CopyInv => CopiesBounded
  BY DEF CopyInv
<1>2. QED
  BY <1>1, CopyInvHolds, PTL

\* Without twins, a session that never left the crew does not meet a message that
\* /crew inbox cancel took from it (inbox-bridge's cancel: the outstanding item and
\* the evidence are consulted first, in one operation with the removal).
THEOREM CancelIsFinalHolds ==
  ASSUME Twins = {}, MaxListed > 0
  PROVE  InboxSpec => []CancelIsFinal
<1>1. CopyInv => CancelIsFinal
  BY DEF CopyInv
<1>2. QED
  BY <1>1, CopyInvHolds, PTL

-----------------------------------------------------------------------------
(* The intake of a Crew.                                                    *)

ScanAt == ScanWorks \cup {"idle", "down", "lock", "unlink", "relock"}

\* The steps at which a scan has a file, has read it, and is about its commit.
Named == ScanWorks \ {"list", "next", "unlock"}
Knowing == Named \ {"claiming", "read", "putback", "restore"}
Bound == Named \ {"read", "putback"}

ScanRecord ==
  [at : ScanAt, seen : Members \cup {None}, work : SUBSET (Names \X {"new", "claimed"}),
   name : Names \cup {None}, text : Contents \cup {None}, to : Members \cup {None},
   had : Procs \cup {None}, stale : BOOLEAN, again : BOOLEAN, taken : Nat]

Boxes == [Dirs -> [Names -> Contents \cup {None}]]

Call == [at : CallWorks \cup {"idle", "lock", "unlink"}, key : Keys \cup {None}]

DataTyped ==
  /\ box \in Boxes
  /\ contact \in Members
  /\ lockFile \in Procs \cup {None, Dead, Contact}
  /\ intent \in [Keys -> Members \cup {None}]
  /\ receipts \in [Keys -> Procs \cup {None}]
  /\ enqueued \subseteq Members \X Keys
  /\ sent \subseteq Keys
  /\ caller \in Call /\ (caller.at # "idle" => caller.key \in Keys)
  /\ robbed \in BOOLEAN

\* A scan's record, with the fields that its step relies on.
Shaped(r) ==
  /\ r \in ScanRecord
  /\ r.at \notin {"idle", "down"} => r.seen \in Members
  /\ r.at \in Named => r.name \in Names
  /\ r.at \in Knowing => r.text \in Contents
  /\ r.at \in {"check", "enqueue"} => r.to \in Members

ScanTyped == scan \in [Procs -> ScanRecord] /\ \A p \in Procs : Shaped(scan[p])

TypeInv == DataTyped /\ ScanTyped

\* Whoever works has the lock.
Alone ==
  /\ \A p \in Procs : scan[p].at \in ScanWorks => lockFile = p
  /\ caller.at \in CallWorks => lockFile = Contact

\* What a scan has seen of the files is so until it acts on it.
Fits(p) ==
  /\ At(p, "claiming") => box["claimed"][scan[p].name] = None
  /\ scan[p].at \in Knowing => box["claimed"][scan[p].name] = scan[p].text
  /\ At(p, "refuse") => box["failed"][scan[p].name] = None
  /\ At(p, "file") => box["processed"][scan[p].name] = None
  /\ At(p, "restore") => \/ box["new"][scan[p].name] = None
                         \/ <<scan[p].name, box["new"][scan[p].name]>> \in raced

\* What a scan knows of its commit.
Commits(p) ==
  /\ scan[p].at \in {"recall", "intent", "commit", "check", "enqueue", "receipt"} /\ scan[p].had # None =>
       receipts[Key(p)] # None
  /\ At(p, "commit") => intent[Key(p)] = None
  /\ scan[p].at \in {"check", "enqueue"} => intent[Key(p)] = scan[p].to
  /\ At(p, "record") \/ (At(p, "receipt") /\ scan[p].had = None) =>
       <<intent[Key(p)], Key(p)>> \in enqueued
  /\ scan[p].at \in {"recheck", "move", "file"} => receipts[Key(p)] # None

Knows(p) == Fits(p) /\ Commits(p)

\* The scan is still about the same file, and knows of it what it knew.
SameFile(p) ==
  /\ scan'[p].name = scan[p].name /\ scan'[p].text = scan[p].text
  /\ scan'[p].to = scan[p].to /\ scan'[p].had = scan[p].had

\* What was enqueued went where the intent says.
Recipients == \A x \in enqueued : x[1] = intent[x[2]]

Persisted ==
  /\ \A k \in Keys : receipts[k] # None => <<intent[k], k>> \in enqueued
  /\ \A n \in Names : box["processed"][n] # None => receipts[<<n, box["processed"][n]>>] # None

Present == \A k \in sent \ raced : \E d \in Dirs : box[d][k[1]] = k[2]

Kept == Recipients /\ Persisted /\ Present

IInv == TypeInv /\ (~robbed => Alone /\ (\A p \in Procs : Knows(p)) /\ Kept)

-----------------------------------------------------------------------------
(* Types.                                                                   *)

LEMMA KeyTyped ==
  ASSUME ScanTyped, NEW p \in Procs, scan[p].at \in Knowing
  PROVE  Key(p) \in Keys
  BY DEF ScanTyped, Shaped, Key, Keys, Knowing

\* A rename, written out.
LEMMA MoveEffect ==
  ASSUME box \in Boxes, NEW n \in Names, NEW from \in Dirs, NEW to \in Dirs, from # to,
         MoveFile(n, from, to)
  PROVE  /\ box' \in Boxes
         /\ box'[from][n] = None /\ box'[to][n] = box[from][n]
         /\ \A d \in Dirs, o \in Names : o # n \/ d \notin {from, to} => box'[d][o] = box[d][o]
  BY DEF MoveFile, Boxes

LEMMA ArriveEffect ==
  ASSUME box \in Boxes, NEW n \in Names, NEW c \in Contents, Arrive(n, c)
  PROVE  /\ box' \in Boxes
         /\ box'["new"][n] = c
         /\ \A d \in Dirs, o \in Names : o # n \/ d # "new" => box'[d][o] = box[d][o]
  BY DEF Arrive, Boxes, Dirs

LEMMA RecordTyped ==
  ASSUME ScanTyped, NEW p \in Procs, NEW r, Shaped(r), scan' = [scan EXCEPT ![p] = r]
  PROVE  ScanTyped' /\ scan'[p] = r /\ \A q \in Procs \ {p} : scan'[q] = scan[q]
<1>1. scan \in [Procs -> ScanRecord] /\ r \in ScanRecord
  BY DEF ScanTyped, Shaped
<1>2. scan' \in [Procs -> ScanRecord] /\ scan'[p] = r /\ \A q \in Procs \ {p} : scan'[q] = scan[q]
  BY <1>1
<1>3. \A q \in Procs : Shaped(scan'[q])
  BY <1>2 DEF ScanTyped
<1>4. QED
  BY <1>2, <1>3 DEF ScanTyped, Shaped

LEMMA GotoTyped ==
  ASSUME ScanTyped, NEW p \in Procs, NEW stage \in ScanAt, Goto(p, stage),
         scan[p].at \notin {"idle", "down"} \/ stage = "idle",
         stage \in Named => scan[p].name \in Names,
         stage \in Knowing => scan[p].text \in Contents,
         stage \in {"check", "enqueue"} => scan[p].to \in Members
  PROVE  /\ ScanTyped'
         /\ scan'[p].at = stage /\ SameFile(p)
         /\ \A q \in Procs \ {p} : scan'[q] = scan[q]
<1> DEFINE r == [scan[p] EXCEPT !.at = stage]
<1>1. scan[p] \in ScanRecord
  BY DEF ScanTyped
<1>2. r \in ScanRecord /\ r.at = stage /\ r.seen = scan[p].seen /\ r.name = scan[p].name
      /\ r.text = scan[p].text /\ r.to = scan[p].to /\ r.had = scan[p].had
  BY <1>1 DEF ScanRecord
<1>3. stage \notin {"idle", "down"} => scan[p].seen \in Members
  BY DEF ScanTyped, Shaped
<1>4. Shaped(r)
  BY <1>2, <1>3 DEF Shaped
<1>5. scan' = [scan EXCEPT ![p] = r]
  BY DEF Goto, ScanTyped
<1> HIDE DEF r
<1>6. ScanTyped' /\ scan'[p] = r /\ \A q \in Procs \ {p} : scan'[q] = scan[q]
  BY <1>4, <1>5, RecordTyped
<1>7. QED
  BY <1>2, <1>6 DEF SameFile

LEMMA BetweenTyped ==
  ASSUME NEW stage \in {"idle", "down", "lock", "next", "unlock"}, NEW judged \in Members \cup {None},
         NEW work \in SUBSET (Names \X {"new", "claimed"}), NEW stale \in BOOLEAN, NEW taken \in Nat,
         stage \notin {"idle", "down"} => judged \in Members
  PROVE  Shaped(Between(stage, judged, work, stale, taken)) /\ Between(stage, judged, work, stale, taken).at = stage
<1> DEFINE r == Between(stage, judged, work, stale, taken)
<1>1. r \in ScanRecord /\ r.at = stage /\ r.seen = judged
  BY DEF Between, ScanRecord, ScanAt, ScanWorks
<1> HIDE DEF r
<1>2. Shaped(r)
  BY <1>1 DEF Shaped, Named, Knowing, ScanWorks
<1>3. QED
  BY <1>1, <1>2 DEF r

LEMMA LeaveTyped ==
  ASSUME ScanTyped, NEW p \in Procs, NEW stage \in {"next", "unlock"}, Leave(p, stage),
         scan[p].at \in ScanWorks
  PROVE  /\ ScanTyped'
         /\ scan'[p].at = stage
         /\ \A q \in Procs \ {p} : scan'[q] = scan[q]
<1> DEFINE work == IF stage = "unlock" THEN {} ELSE scan[p].work
           r == Between(stage, scan[p].seen, work, scan[p].stale, scan[p].taken)
<1>1. /\ scan[p].seen \in Members /\ scan[p].stale \in BOOLEAN /\ scan[p].taken \in Nat
      /\ work \in SUBSET (Names \X {"new", "claimed"})
  BY DEF ScanTyped, Shaped, ScanWorks, ScanRecord
<1>2. Shaped(r) /\ r.at = stage
  BY <1>1, BetweenTyped
<1>3. scan' = [scan EXCEPT ![p] = r]
  BY DEF Leave
<1> HIDE DEF r
<1>4. QED
  BY <1>2, <1>3, RecordTyped

LEMMA NoScanTyped ==
  ASSUME ScanTyped, NEW p \in Procs, NEW stage \in {"idle", "down"},
         scan' = [scan EXCEPT ![p] = Between(stage, None, {}, FALSE, 0)]
  PROVE  ScanTyped' /\ scan'[p].at = stage /\ \A q \in Procs \ {p} : scan'[q] = scan[q]
<1> DEFINE r == Between(stage, None, {}, FALSE, 0)
<1>1. r \in ScanRecord /\ r.at = stage
  BY DEF Between, ScanRecord, ScanAt
<1>2. scan' = [scan EXCEPT ![p] = r]
  OBVIOUS
<1> HIDE DEF r
<1>3. Shaped(r)
  BY <1>1 DEF Shaped, Named, Knowing, ScanWorks
<1>4. QED
  BY <1>1, <1>2, <1>3, RecordTyped

LEMMA StartTyped ==
  ASSUME ScanTyped, contact \in Members, NEW p \in Procs,
         scan' = [scan EXCEPT ![p] = Between("lock", contact, {}, FALSE, 0)]
  PROVE  ScanTyped' /\ scan'[p].at = "lock" /\ \A q \in Procs \ {p} : scan'[q] = scan[q]
<1> DEFINE r == Between("lock", contact, {}, FALSE, 0)
<1>1. r \in ScanRecord /\ r.at = "lock" /\ r.seen = contact
  BY DEF Between, ScanRecord, ScanAt
<1>2. scan' = [scan EXCEPT ![p] = r]
  OBVIOUS
<1> HIDE DEF r
<1>3. Shaped(r)
  BY <1>1 DEF Shaped, Named, Knowing, ScanWorks
<1>4. QED
  BY <1>1, <1>2, <1>3, RecordTyped

LEMMA GiveUpTyped ==
  ASSUME ScanTyped, NEW p \in Procs, scan[p].at \in Named, GiveUp(p)
  PROVE  /\ ScanTyped' /\ scan'[p].at = "putback"
         /\ \A q \in Procs \ {p} : scan'[q] = scan[q]
<1>1. /\ scan[p].name \in Names /\ scan[p].at \notin {"idle", "down"}
      /\ "putback" \in ScanAt /\ "putback" \notin Knowing \cup {"check", "enqueue"}
  BY DEF ScanTyped, Shaped, Named, ScanWorks, ScanAt, Knowing
<1>2. QED
  BY <1>1, GotoTyped DEF GiveUp

-----------------------------------------------------------------------------
(* What a step of one scan means for the invariant.                         *)

\* At a step that relies on nothing a scan knows nothing.
LEMMA KnowsNothing ==
  ASSUME NEW p \in Procs
  PROVE  /\ scan[p].at \notin Bound => Knows(p)
         /\ scan'[p].at \notin Bound => Knows(p)'
  BY DEF Knows, Fits, Commits, At, Bound, Knowing, Named, ScanWorks

\* Only one scan works, so nothing is known to the others.
LEMMA WorkKept ==
  ASSUME IInv, NEW p \in Procs, scan[p].at \in ScanWorks, scan'[p].at \in ScanWorks,
         UNCHANGED <<lockFile, caller, robbed>>, DataTyped', ScanTyped',
         \A q \in Procs \ {p} : scan'[q] = scan[q],
         ~robbed => Knows(p)' /\ Kept'
  PROVE  IInv'
<1>1. TypeInv'
  BY DEF TypeInv
<1>2. ASSUME ~robbed
      PROVE  Alone' /\ (\A q \in Procs : Knows(q)') /\ Kept'
  <2>1. Alone /\ Alone'
    BY <1>2 DEF IInv, Alone
  <2>2. ASSUME NEW q \in Procs \ {p}
        PROVE  scan'[q].at \notin Bound
    BY <2>1 DEF Alone, Bound, Named
  <2>3. QED
    BY <1>2, <2>1, <2>2, KnowsNothing
<1>3. QED
  BY <1>1, <1>2 DEF IInv

\* A step that leaves the files alone.
LEMMA LookKept ==
  ASSUME IInv, NEW p \in Procs, scan[p].at \in ScanWorks, scan'[p].at \in ScanWorks,
         Looks, ScanTyped', \A q \in Procs \ {p} : scan'[q] = scan[q],
         ~robbed => Knows(p)'
  PROVE  IInv'
<1>1. DataTyped' /\ (~robbed => Kept')
  BY DEF IInv, TypeInv, DataTyped, Looks, store, publications, Kept, Recipients, Persisted, Present
<1>2. QED
  BY <1>1, WorkKept DEF Looks

LEMMA GiveUpKept ==
  ASSUME IInv, NEW p \in Procs, scan[p].at \in Named, GiveUp(p), Looks
  PROVE  IInv'
<1>1. /\ ScanTyped' /\ scan'[p].at = "putback" /\ \A q \in Procs \ {p} : scan'[q] = scan[q]
  BY GiveUpTyped DEF IInv, TypeInv
<1>2. scan[p].at \in ScanWorks /\ scan'[p].at \in ScanWorks /\ scan'[p].at \notin Bound
  BY <1>1 DEF Named, ScanWorks, Bound
<1>3. QED
  BY <1>1, <1>2, KnowsNothing, LookKept

LEMMA LeaveKept ==
  ASSUME IInv, NEW p \in Procs, scan[p].at \in ScanWorks, NEW stage \in {"next", "unlock"},
         Leave(p, stage), Looks
  PROVE  IInv'
<1>1. /\ ScanTyped' /\ scan'[p].at = stage /\ \A q \in Procs \ {p} : scan'[q] = scan[q]
  BY LeaveTyped DEF IInv, TypeInv
<1>2. scan'[p].at \in ScanWorks /\ scan'[p].at \notin Bound
  BY <1>1 DEF Named, ScanWorks, Bound
<1>3. QED
  BY <1>1, <1>2, KnowsNothing, LookKept

\* The next step for the same file.
LEMMA GotoKept ==
  ASSUME IInv, NEW p \in Procs, scan[p].at \in Named, NEW stage \in Named,
         Goto(p, stage), Looks,
         stage \in Knowing => scan[p].at \in Knowing,
         stage \in {"check", "enqueue"} => scan[p].at \in {"check", "enqueue"},
         ~robbed /\ scan'[p].at = stage /\ SameFile(p) => Knows(p)'
  PROVE  IInv'
<1>1. /\ stage \in ScanAt /\ stage \in ScanWorks
      /\ scan[p].at \in ScanWorks /\ scan[p].at \notin {"idle", "down"}
      /\ scan[p].name \in Names
      /\ stage \in Knowing => scan[p].text \in Contents
      /\ stage \in {"check", "enqueue"} => scan[p].to \in Members
  BY DEF IInv, TypeInv, ScanTyped, Shaped, Named, ScanWorks, ScanAt
<1>2. /\ ScanTyped' /\ scan'[p].at = stage /\ SameFile(p)
      /\ \A q \in Procs \ {p} : scan'[q] = scan[q]
  BY <1>1, GotoTyped DEF IInv, TypeInv
<1>3. QED
  BY <1>1, <1>2, LookKept

\* A step whose files change, with the types of what it leaves.
LEMMA StoreKept ==
  ASSUME IInv, NEW p \in Procs, scan[p].at \in Named, NEW stage \in Named,
         Goto(p, stage), UNCHANGED <<lockFile, caller, robbed>>, DataTyped',
         stage \in Knowing => scan[p].at \in Knowing,
         stage \notin {"check", "enqueue"},
         ~robbed /\ scan'[p].at = stage /\ SameFile(p) => Knows(p)' /\ Kept'
  PROVE  IInv'
<1>1. /\ stage \in ScanAt /\ stage \in ScanWorks
      /\ scan[p].at \in ScanWorks /\ scan[p].at \notin {"idle", "down"}
      /\ scan[p].name \in Names
      /\ stage \in Knowing => scan[p].text \in Contents
  BY DEF IInv, TypeInv, ScanTyped, Shaped, Named, ScanWorks, ScanAt
<1>2. /\ ScanTyped' /\ scan'[p].at = stage /\ SameFile(p)
      /\ \A q \in Procs \ {p} : scan'[q] = scan[q]
  BY <1>1, GotoTyped DEF IInv, TypeInv
<1>3. QED
  BY <1>1, <1>2, WorkKept

-----------------------------------------------------------------------------
(* The steps of a scan, one by one.                                         *)

LEMMA CheckKept ==
  ASSUME IInv, NEW p \in Procs, Check(p) \/ Recheck(p)
  PROVE  IInv'
<1>1. Looks /\ scan[p].at \in Named /\ scan[p].at \in Knowing
  BY DEF Check, Recheck, At, Named, Knowing, ScanWorks
<1>2. CASE GiveUp(p)
  BY <1>1, <1>2, GiveUpKept
<1>3. CASE At(p, "check") /\ Goto(p, "enqueue")
  <2>1. ~robbed /\ scan'[p].at = "enqueue" /\ SameFile(p) => Knows(p)'
    BY <1>1, <1>3 DEF IInv, Looks, store, Knows, Fits, Commits, At, Key, SameFile, Knowing, Named, ScanWorks
  <2>2. "enqueue" \in Named
    BY DEF Named, ScanWorks
  <2>3. QED
    BY <1>1, <1>3, <2>1, <2>2, GotoKept DEF At
<1>4. CASE At(p, "recheck") /\ Goto(p, "move")
  <2>1. ~robbed /\ scan'[p].at = "move" /\ SameFile(p) => Knows(p)'
    BY <1>1, <1>4 DEF IInv, Looks, store, Knows, Fits, Commits, At, Key, SameFile, Knowing, Named, ScanWorks
  <2>2. "move" \in Named
    BY DEF Named, ScanWorks
  <2>3. QED
    BY <1>1, <1>4, <2>1, <2>2, GotoKept
<1>5. QED
  BY <1>2, <1>3, <1>4 DEF Check, Recheck

LEMMA LookForIntentKept ==
  ASSUME IInv, NEW p \in Procs, LookForIntent(p)
  PROVE  IInv'
<1>1. Looks /\ scan[p].at \in Named /\ scan[p].at \in Knowing
  BY DEF LookForIntent, At, Named, Knowing, ScanWorks
<1>2. CASE GiveUp(p)
  BY <1>1, <1>2, GiveUpKept
<1>3. CASE intent[Key(p)] = None /\ Goto(p, "commit")
  <2>1. ~robbed /\ scan'[p].at = "commit" /\ SameFile(p) => Knows(p)'
    BY <1>1, <1>3 DEF IInv, LookForIntent, Looks, store, Knows, Fits, Commits, At, Key, SameFile,
                      Knowing, Named, ScanWorks
  <2>2. "commit" \in Named
    BY DEF Named, ScanWorks
  <2>3. QED
    BY <1>1, <1>3, <2>1, <2>2, GotoKept
<1>4. QED
  BY <1>2, <1>3 DEF LookForIntent

LEMMA LookForReceiptKept ==
  ASSUME IInv, NEW p \in Procs, LookForReceipt(p)
  PROVE  IInv'
<1>1. Looks /\ At(p, "receipt") /\ scan[p].at \in Named /\ scan[p].at \in Knowing
  BY DEF LookForReceipt, At, Named, Knowing, ScanWorks
<1>2. CASE GiveUp(p)
  BY <1>1, <1>2, GiveUpKept
<1>3. CASE receipts[Key(p)] = None /\ Goto(p, "record")
  <2>1. ~robbed /\ scan'[p].at = "record" /\ SameFile(p) => Knows(p)'
    BY <1>1, <1>3 DEF IInv, Looks, store, Knows, Fits, Commits, At, Key, SameFile,
                      Knowing, Named, ScanWorks
  <2>2. "record" \in Named
    BY DEF Named, ScanWorks
  <2>3. QED
    BY <1>1, <1>3, <2>1, <2>2, GotoKept
<1>4. CASE receipts[Key(p)] # None /\ Goto(p, "recheck")
  <2>1. ~robbed /\ scan'[p].at = "recheck" /\ SameFile(p) => Knows(p)'
    BY <1>1, <1>4 DEF IInv, Looks, store, Knows, Fits, Commits, At, Key, SameFile,
                      Knowing, Named, ScanWorks
  <2>2. "recheck" \in Named
    BY DEF Named, ScanWorks
  <2>3. QED
    BY <1>1, <1>4, <2>1, <2>2, GotoKept
<1>5. QED
  BY <1>2, <1>3, <1>4 DEF LookForReceipt

LEMMA MoveProcessedKept ==
  ASSUME IInv, NEW p \in Procs, MoveProcessed(p)
  PROVE  IInv'
<1>1. Looks /\ At(p, "move") /\ scan[p].at \in Named /\ scan[p].at \in Knowing
  BY DEF MoveProcessed, At, Named, Knowing, ScanWorks
<1>2. CASE GiveUp(p)
  BY <1>1, <1>2, GiveUpKept
<1>3. CASE ~Exists(p, "processed") /\ Goto(p, "file")
  <2>1. ~robbed /\ scan'[p].at = "file" /\ SameFile(p) => Knows(p)'
    BY <1>1, <1>3 DEF IInv, Looks, store, Exists, Knows, Fits, Commits, At, Key, SameFile,
                      Knowing, Named, ScanWorks
  <2>2. "file" \in Named
    BY DEF Named, ScanWorks
  <2>3. QED
    BY <1>1, <1>3, <2>1, <2>2, GotoKept
<1>4. QED
  BY <1>2, <1>3 DEF MoveProcessed

LEMMA RejectKept ==
  ASSUME IInv, NEW p \in Procs, Reject(p)
  PROVE  IInv'
<1>1. Looks /\ At(p, "reject") /\ scan[p].at \in Named /\ scan[p].at \in Knowing
      /\ scan[p].at \in ScanWorks
  BY DEF Reject, At, Named, Knowing, ScanWorks
<1>2. CASE Leave(p, "unlock")
  BY <1>1, <1>2, LeaveKept
<1>3. CASE ~Exists(p, "failed") /\ Goto(p, "refuse")
  <2>1. ~robbed /\ scan'[p].at = "refuse" /\ SameFile(p) => Knows(p)'
    BY <1>1, <1>3 DEF IInv, Looks, store, Exists, Knows, Fits, Commits, At, Key, SameFile,
                      Knowing, Named, ScanWorks
  <2>2. "refuse" \in Named
    BY DEF Named, ScanWorks
  <2>3. QED
    BY <1>1, <1>3, <2>1, <2>2, GotoKept
<1>4. QED
  BY <1>2, <1>3 DEF Reject

LEMMA NotPutBackKept ==
  ASSUME IInv, NEW p \in Procs, scan[p].at \in {"putback", "restore"}, NotPutBack(p), Looks
  PROVE  IInv'
<1>1. scan[p].at \in ScanWorks
  BY DEF ScanWorks
<1>2. CASE Leave(p, "unlock")
  BY <1>1, <1>2, LeaveKept
<1>3. CASE scan' = [scan EXCEPT ![p].at = "putback", ![p].again = FALSE]
  <2> DEFINE r == [scan[p] EXCEPT !.at = "putback", !.again = FALSE]
  <2>1. scan[p] \in ScanRecord /\ Shaped(scan[p]) /\ scan \in [Procs -> ScanRecord]
    BY DEF IInv, TypeInv, ScanTyped
  <2>2. r \in ScanRecord /\ r.at = "putback" /\ r.seen = scan[p].seen /\ r.name = scan[p].name
    BY <2>1 DEF ScanRecord, ScanAt, ScanWorks
  <2>3. Shaped(r)
    BY <2>1, <2>2 DEF Shaped, Named, Knowing, ScanWorks
  <2>4. scan' = [scan EXCEPT ![p] = r]
    BY <1>3, <2>1 DEF ScanRecord
  <2> HIDE DEF r
  <2>5. ScanTyped' /\ scan'[p].at = "putback" /\ \A q \in Procs \ {p} : scan'[q] = scan[q]
    BY <2>2, <2>3, <2>4, RecordTyped DEF IInv, TypeInv
  <2>6. scan'[p].at \in ScanWorks /\ scan'[p].at \notin Bound
    BY <2>5 DEF ScanWorks, Bound, Named
  <2>7. QED
    BY <1>1, <2>5, <2>6, KnowsNothing, LookKept
<1>4. QED
  BY <1>2, <1>3 DEF NotPutBack

LEMMA PutBackKept ==
  ASSUME IInv, NEW p \in Procs, PutBack(p)
  PROVE  IInv'
<1>1. Looks /\ At(p, "putback") /\ scan[p].at \in Named
  BY DEF PutBack, At, Named, ScanWorks
<1>2. CASE NotPutBack(p)
  BY <1>1, <1>2, NotPutBackKept DEF At
<1>3. CASE MayPutBack(p) /\ Goto(p, "restore")
  <2>1. ~robbed /\ scan'[p].at = "restore" /\ SameFile(p) => Knows(p)'
    BY <1>1, <1>3 DEF IInv, Looks, MayPutBack, Exists, Knows, Fits, Commits, At, SameFile,
                      Knowing, Named, ScanWorks
  <2>2. "restore" \in Named /\ "restore" \notin Knowing
    BY DEF Named, ScanWorks, Knowing
  <2>3. QED
    BY <1>1, <1>3, <2>1, <2>2, GotoKept
<1>4. QED
  BY <1>2, <1>3 DEF PutBack

LEMMA ReadReceiptKept ==
  ASSUME IInv, NEW p \in Procs, ReadReceipt(p)
  PROVE  IInv'
<1> DEFINE r == [scan[p] EXCEPT !.had = receipts[Key(p)], !.at = "recall"]
<1>1. /\ Looks /\ At(p, "evidence") /\ scan[p].at \in ScanWorks
      /\ scan[p] \in ScanRecord /\ scan \in [Procs -> ScanRecord]
      /\ scan[p].seen \in Members /\ scan[p].name \in Names /\ scan[p].text \in Contents
      /\ Key(p) \in Keys
  <2>1. scan[p].at \in Knowing /\ scan[p].at \in Named /\ scan[p].at \notin {"idle", "down"} /\ scan[p].at \in ScanWorks
    BY DEF ReadReceipt, At, Knowing, Named, ScanWorks
  <2>2. QED
    BY <2>1, KeyTyped DEF IInv, TypeInv, ScanTyped, Shaped, ReadReceipt
<1>2. /\ r \in ScanRecord /\ r.at = "recall" /\ r.seen = scan[p].seen /\ r.name = scan[p].name
      /\ r.text = scan[p].text /\ r.had = receipts[Key(p)]
  <2>1. receipts[Key(p)] \in Procs \cup {None}
    BY <1>1 DEF IInv, TypeInv, DataTyped
  <2>2. QED
    BY <1>1, <2>1 DEF ScanRecord, ScanAt, ScanWorks
<1>3. Shaped(r)
  BY <1>1, <1>2 DEF Shaped
<1>4. scan' = [scan EXCEPT ![p] = r]
  BY <1>1 DEF ReadReceipt, ScanRecord
<1> HIDE DEF r
<1>5. ScanTyped' /\ scan'[p] = r /\ \A q \in Procs \ {p} : scan'[q] = scan[q]
  BY <1>3, <1>4, RecordTyped DEF IInv, TypeInv
<1>6. ~robbed => Knows(p)'
  BY <1>1, <1>2, <1>5 DEF IInv, Looks, store, Knows, Fits, Commits, At, Key, Knowing, Named, ScanWorks
<1>7. scan'[p].at \in ScanWorks
  BY <1>2, <1>5 DEF ScanWorks
<1>8. QED
  BY <1>1, <1>5, <1>6, <1>7, LookKept

LEMMA ReadIntentKept ==
  ASSUME IInv, NEW p \in Procs, ReadIntent(p)
  PROVE  IInv'
<1> DEFINE to == intent[Key(p)]
           stage == IF scan[p].had # None THEN "receipt" ELSE IF to # None THEN "check" ELSE "intent"
           r == [scan[p] EXCEPT !.to = to, !.at = stage]
<1>1. /\ Looks /\ At(p, "recall") /\ scan[p].at \in ScanWorks
      /\ scan[p] \in ScanRecord /\ scan \in [Procs -> ScanRecord]
      /\ scan[p].seen \in Members /\ scan[p].name \in Names /\ scan[p].text \in Contents
      /\ to \in Members \cup {None}
  <2>1. scan[p].at \in Knowing /\ scan[p].at \in Named /\ scan[p].at \notin {"idle", "down"} /\ scan[p].at \in ScanWorks
    BY DEF ReadIntent, At, Knowing, Named, ScanWorks
  <2>2. QED
    BY <2>1, KeyTyped DEF IInv, TypeInv, ScanTyped, Shaped, ReadIntent, DataTyped
<1>2. /\ r \in ScanRecord /\ r.at = stage /\ r.seen = scan[p].seen /\ r.name = scan[p].name
      /\ r.text = scan[p].text /\ r.had = scan[p].had /\ r.to = to
  <2>1. stage \in ScanAt
    BY DEF ScanAt, ScanWorks
  <2> HIDE DEF stage, to
  <2>2. QED
    BY <1>1, <2>1 DEF ScanRecord
<1>3. Shaped(r)
  <2>1. stage \in {"check", "enqueue"} => to \in Members
    BY <1>1
  <2> HIDE DEF stage, to
  <2>2. QED
    BY <1>1, <1>2, <2>1 DEF Shaped
<1>4. scan' = [scan EXCEPT ![p] = r]
  BY <1>1 DEF ReadIntent, Recall, ScanRecord
<1>5. stage \in {"receipt", "check", "intent"}
  OBVIOUS
<1>6. /\ stage = "receipt" => scan[p].had # None
      /\ stage # "receipt" => scan[p].had = None
  OBVIOUS
<1> HIDE DEF r
<1>7. ScanTyped' /\ scan'[p] = r /\ \A q \in Procs \ {p} : scan'[q] = scan[q]
  BY <1>3, <1>4, RecordTyped DEF IInv, TypeInv
<1>8. ~robbed => Knows(p)'
  <2>1. scan'[p].at = stage /\ scan'[p].name = scan[p].name /\ scan'[p].text = scan[p].text
        /\ scan'[p].had = scan[p].had /\ scan'[p].to = intent[Key(p)]
    BY <1>2, <1>7
  <2>2. Key(p)' = Key(p)
    BY <2>1 DEF Key
  <2> HIDE DEF stage, to
  <2>3. ~robbed => Fits(p)'
    BY <1>1, <1>5, <2>1 DEF IInv, Looks, Knows, Fits, At, Knowing, Named, ScanWorks
  <2>4. ~robbed => Commits(p)'
    BY <1>1, <1>5, <1>6, <2>1, <2>2 DEF IInv, Looks, store, Knows, Commits, At
  <2>5. QED
    BY <2>3, <2>4 DEF Knows
<1>9. scan'[p].at \in ScanWorks
  BY <1>2, <1>5, <1>7 DEF ScanWorks
<1>10. QED
  BY <1>1, <1>7, <1>8, <1>9, LookKept

LEMMA ReadKept ==
  ASSUME IInv, NEW p \in Procs, Read(p)
  PROVE  IInv'
<1> DEFINE c == box["claimed"][scan[p].name]
<1>1. /\ Looks /\ scan[p].at = "read" /\ scan[p].at \in ScanWorks /\ scan[p].at \in Named
      /\ Shaped(scan[p]) /\ scan[p] \in ScanRecord /\ scan \in [Procs -> ScanRecord]
      /\ scan[p].seen \in Members /\ scan[p].name \in Names /\ scan[p].taken \in Nat
  <2>1. scan[p].at = "read" /\ scan[p].at \in Named /\ scan[p].at \in ScanWorks /\ scan[p].at \notin {"idle", "down"}
    BY DEF Read, At, Named, ScanWorks
  <2>2. QED
    BY <2>1 DEF IInv, TypeInv, ScanTyped, Shaped, Read, ScanRecord
<1>2. CASE GiveUp(p)
  BY <1>1, <1>2, GiveUpKept
<1>3. CASE c \in Junk /\ scan' = [scan EXCEPT ![p].at = "reject", ![p].text = c]
  <2> DEFINE r == [scan[p] EXCEPT !.at = "reject", !.text = c]
  <2>1. /\ r \in ScanRecord /\ r.at = "reject" /\ r.seen = scan[p].seen /\ r.name = scan[p].name
        /\ r.text = c
    BY <1>1, <1>3 DEF ScanRecord, ScanAt, ScanWorks, Contents
  <2>2. scan' = [scan EXCEPT ![p] = r]
    BY <1>1, <1>3 DEF ScanRecord
  <2> HIDE DEF r
  <2>3. Shaped(r)
    BY <1>1, <1>3, <2>1 DEF Shaped, Contents
  <2>4. ScanTyped' /\ scan'[p] = r /\ \A q \in Procs \ {p} : scan'[q] = scan[q]
    BY <2>2, <2>3, RecordTyped DEF IInv, TypeInv
  <2>5. Knows(p)'
    BY <1>1, <2>1, <2>4 DEF Looks, Knows, Fits, Commits, At, Knowing, Named, ScanWorks
  <2>6. scan'[p].at \in ScanWorks
    BY <2>1, <2>4 DEF ScanWorks
  <2>7. QED
    BY <1>1, <2>4, <2>5, <2>6, LookKept
<1>4. CASE scan' = [scan EXCEPT ![p].at = "putback", ![p].again = TRUE]
  <2> DEFINE r == [scan[p] EXCEPT !.at = "putback", !.again = TRUE]
  <2>1. r \in ScanRecord /\ r.at = "putback" /\ r.seen = scan[p].seen /\ r.name = scan[p].name
    BY <1>1 DEF ScanRecord, ScanAt, ScanWorks
  <2>2. scan' = [scan EXCEPT ![p] = r]
    BY <1>1, <1>4 DEF ScanRecord
  <2> HIDE DEF r
  <2>3. Shaped(r)
    BY <1>1, <2>1 DEF Shaped, Named, Knowing, ScanWorks
  <2>4. ScanTyped' /\ scan'[p] = r /\ \A q \in Procs \ {p} : scan'[q] = scan[q]
    BY <2>2, <2>3, RecordTyped DEF IInv, TypeInv
  <2>5. scan'[p].at \in ScanWorks /\ scan'[p].at \notin Bound
    BY <2>1, <2>4 DEF ScanWorks, Bound, Named
  <2>6. QED
    BY <1>1, <2>4, <2>5, KnowsNothing, LookKept
<1>5. CASE /\ c \in Texts
           /\ scan' = [scan EXCEPT ![p].at = "evidence", ![p].text = c, ![p].taken = @ + 1]
  <2> DEFINE r == [scan[p] EXCEPT !.at = "evidence", !.text = c, !.taken = scan[p].taken + 1]
  <2>1. /\ r \in ScanRecord /\ r.at = "evidence" /\ r.seen = scan[p].seen /\ r.name = scan[p].name
        /\ r.text = c
    BY <1>1, <1>5 DEF ScanRecord, ScanAt, ScanWorks, Contents
  <2>2. scan' = [scan EXCEPT ![p] = r]
    BY <1>1, <1>5 DEF ScanRecord
  <2> HIDE DEF r
  <2>3. Shaped(r)
    BY <1>1, <1>5, <2>1 DEF Shaped, Contents
  <2>4. ScanTyped' /\ scan'[p] = r /\ \A q \in Procs \ {p} : scan'[q] = scan[q]
    BY <2>2, <2>3, RecordTyped DEF IInv, TypeInv
  <2>5. Knows(p)'
    BY <1>1, <2>1, <2>4 DEF Looks, Knows, Fits, Commits, At, Knowing, Named, ScanWorks
  <2>6. scan'[p].at \in ScanWorks
    BY <2>1, <2>4 DEF ScanWorks
  <2>7. QED
    BY <1>1, <2>4, <2>5, <2>6, LookKept
<1>6. QED
  BY <1>2, <1>3, <1>4, <1>5 DEF Read

LEMMA ListKept ==
  ASSUME IInv, NEW p \in Procs, List(p)
  PROVE  IInv'
<1> DEFINE work == {w \in Names \X {"new", "claimed"} : box[w[2]][w[1]] # None}
           r == [scan[p] EXCEPT !.at = "next", !.work = work]
<1>1. /\ Looks /\ scan[p].at \in ScanWorks
      /\ scan[p] \in ScanRecord /\ scan \in [Procs -> ScanRecord] /\ scan[p].seen \in Members
      /\ work \in SUBSET (Names \X {"new", "claimed"})
  <2>1. scan[p].at \notin {"idle", "down"} /\ scan[p].at \in ScanWorks
    BY DEF List, At, ScanWorks
  <2>2. QED
    BY <2>1 DEF IInv, TypeInv, ScanTyped, Shaped, List
<1>2. scan' = [scan EXCEPT ![p] = r]
  BY <1>1 DEF List, ScanRecord
<1> HIDE DEF work
<1>3. r \in ScanRecord /\ r.at = "next" /\ r.seen = scan[p].seen
  BY <1>1 DEF ScanRecord, ScanAt, ScanWorks
<1> HIDE DEF r
<1>4. Shaped(r)
  BY <1>1, <1>3 DEF Shaped, Named, Knowing, ScanWorks
<1>5. ScanTyped' /\ scan'[p] = r /\ \A q \in Procs \ {p} : scan'[q] = scan[q]
  BY <1>2, <1>4, RecordTyped DEF IInv, TypeInv
<1>6. scan'[p].at \in ScanWorks /\ scan'[p].at \notin Bound
  BY <1>3, <1>5 DEF ScanWorks, Bound, Named
<1>7. QED
  BY <1>1, <1>5, <1>6, KnowsNothing, LookKept

LEMMA ClaimKept ==
  ASSUME IInv, NEW p \in Procs, NEW w \in Names \X {"new", "claimed"}, Claim(p, w)
  PROVE  IInv'
<1> DEFINE skip == w[2] = "new" /\ (box["new"][w[1]] = None \/ box["claimed"][w[1]] # None)
           work == scan[p].work \ {w}
           name == IF skip THEN None ELSE w[1]
           stage == IF skip THEN "next" ELSE IF w[2] = "new" THEN "claiming" ELSE "read"
           r == [scan[p] EXCEPT !.work = work, !.name = name, !.at = stage]
<1>1. /\ Looks /\ scan[p].at \in ScanWorks
      /\ scan[p] \in ScanRecord /\ scan \in [Procs -> ScanRecord] /\ scan[p].seen \in Members
  <2>1. scan[p].at \notin {"idle", "down"} /\ scan[p].at \in ScanWorks
    BY DEF Claim, At, ScanWorks
  <2>2. QED
    BY <2>1 DEF IInv, TypeInv, ScanTyped, Shaped, Claim
<1>2. scan' = [scan EXCEPT ![p] = r]
  BY <1>1 DEF Claim, ScanRecord
<1>3. /\ work \in SUBSET (Names \X {"new", "claimed"}) /\ name \in Names \cup {None}
      /\ stage \in {"next", "claiming", "read"}
      /\ stage # "next" => name \in Names
      /\ stage = "claiming" => box["claimed"][name] = None
  BY <1>1 DEF ScanRecord
<1> HIDE DEF work, name, stage, skip
<1>4. r \in ScanRecord /\ r.at = stage /\ r.seen = scan[p].seen /\ r.name = name
  <2>1. stage \in ScanAt
    BY <1>3 DEF ScanAt, ScanWorks
  <2>2. QED
    BY <1>1, <1>3, <2>1 DEF ScanRecord
<1> HIDE DEF r
<1>5. Shaped(r)
  BY <1>1, <1>3, <1>4 DEF Shaped, Named, Knowing, ScanWorks
<1>6. ScanTyped' /\ scan'[p] = r /\ \A q \in Procs \ {p} : scan'[q] = scan[q]
  BY <1>2, <1>5, RecordTyped DEF IInv, TypeInv
<1>7. Knows(p)'
  BY <1>1, <1>3, <1>4, <1>6 DEF Looks, Knows, Fits, Commits, At, Knowing, Named, ScanWorks
<1>8. scan'[p].at \in ScanWorks
  BY <1>3, <1>4, <1>6 DEF ScanWorks
<1>9. QED
  BY <1>1, <1>6, <1>7, <1>8, LookKept

LEMMA EndScanKept ==
  ASSUME IInv, NEW p \in Procs, EndScan(p)
  PROVE  IInv'
<1>1. scan[p].at \in ScanWorks
  BY DEF EndScan, At, ScanWorks
<1>2. QED
  BY <1>1, LeaveKept DEF EndScan

LEMMA StorageErrorKept ==
  ASSUME IInv, NEW p \in Procs, StorageError(p)
  PROVE  IInv'
<1>1. scan[p].at \in Named /\ scan[p].at \in ScanWorks /\ GiveUp(p)
  BY DEF StorageError, Named, ScanWorks
<1>2. ScanTyped' /\ scan'[p].at = "putback" /\ \A q \in Procs \ {p} : scan'[q] = scan[q]
  BY <1>1, GiveUpTyped DEF IInv, TypeInv
<1>3. scan'[p].at \in ScanWorks /\ scan'[p].at \notin Bound
  BY <1>2 DEF ScanWorks, Bound, Named
<1>4. DataTyped' /\ (~robbed => Kept') /\ UNCHANGED <<lockFile, caller, robbed>>
  BY DEF StorageError, IInv, TypeInv, DataTyped, store, publications, Kept, Recipients, Persisted, Present
<1>5. QED
  BY <1>1, <1>2, <1>3, <1>4, KnowsNothing, WorkKept

-----------------------------------------------------------------------------
(* Writes and renames.                                                      *)

LEMMA WriteIntentKept ==
  ASSUME IInv, NEW p \in Procs, WriteIntent(p)
  PROVE  IInv'
<1> DEFINE r == [scan[p] EXCEPT !.at = "check", !.to = scan[p].seen]
<1>1. /\ At(p, "commit") /\ scan[p].at \in ScanWorks
      /\ scan[p] \in ScanRecord /\ scan \in [Procs -> ScanRecord]
      /\ scan[p].seen \in Members /\ scan[p].name \in Names /\ scan[p].text \in Contents
      /\ Key(p) \in Keys
  <2>1. scan[p].at \in Knowing /\ scan[p].at \in Named /\ scan[p].at \notin {"idle", "down"} /\ scan[p].at \in ScanWorks
    BY DEF WriteIntent, At, Knowing, Named, ScanWorks
  <2>2. QED
    BY <2>1, KeyTyped DEF IInv, TypeInv, ScanTyped, Shaped, WriteIntent
<1>2. /\ r \in ScanRecord /\ r.at = "check" /\ r.seen = scan[p].seen /\ r.name = scan[p].name
      /\ r.text = scan[p].text /\ r.had = scan[p].had /\ r.to = scan[p].seen
  BY <1>1 DEF ScanRecord, ScanAt, ScanWorks
<1>3. Shaped(r)
  BY <1>1, <1>2 DEF Shaped
<1>4. scan' = [scan EXCEPT ![p] = r]
  BY <1>1 DEF WriteIntent, ScanRecord
<1> HIDE DEF r
<1>5. ScanTyped' /\ scan'[p] = r /\ \A q \in Procs \ {p} : scan'[q] = scan[q]
  BY <1>3, <1>4, RecordTyped DEF IInv, TypeInv
<1>6. Key(p)' = Key(p)
  BY <1>2, <1>5 DEF Key
<1>7. /\ intent \in [Keys -> Members \cup {None}]
      /\ intent'[Key(p)] = scan[p].seen
      /\ \A k \in Keys : k # Key(p) => intent'[k] = intent[k]
      /\ UNCHANGED <<box, contact, lockFile, receipts, enqueued, caller, sent, raced, robbed>>
  BY <1>1 DEF WriteIntent, IInv, TypeInv, DataTyped, publications
<1>8. DataTyped'
  BY <1>1, <1>7 DEF WriteIntent, IInv, TypeInv, DataTyped
<1>9. ~robbed => Knows(p)'
  <2>1. ~robbed => Fits(p)'
    BY <1>1, <1>2, <1>5, <1>7 DEF IInv, Knows, Fits, At, Knowing, Named, ScanWorks
  <2>2. ~robbed => Commits(p)'
    BY <1>1, <1>2, <1>5, <1>6, <1>7 DEF IInv, Knows, Commits, At
  <2>3. QED
    BY <2>1, <2>2 DEF Knows
<1>10. ~robbed => Kept'
  <2>1. ~robbed => intent[Key(p)] = None
    BY <1>1 DEF IInv, Knows, Commits
  <2>2. ~robbed => \A x \in enqueued : x[2] # Key(p)
    <3>1. \A x \in enqueued : x[1] \in Members
      BY DEF IInv, TypeInv, DataTyped
    <3>2. QED
      BY <2>1, <3>1, IntakeAssumption DEF IInv, Kept, Recipients
  <2>3. ~robbed => Recipients'
    BY <1>7, <2>2 DEF IInv, TypeInv, DataTyped, Kept, Recipients
  <2>4. ~robbed => Persisted'
    BY <1>7, <2>2 DEF IInv, Kept, Persisted
  <2>5. ~robbed => Present'
    BY <1>7 DEF IInv, Kept, Present
  <2>6. QED
    BY <2>3, <2>4, <2>5 DEF Kept
<1>11. scan'[p].at \in ScanWorks
  BY <1>2, <1>5 DEF ScanWorks
<1>12. QED
  BY <1>1, <1>5, <1>7, <1>8, <1>9, <1>10, <1>11, WorkKept

LEMMA EnqueueKept ==
  ASSUME IInv, NEW p \in Procs, Enqueue(p)
  PROVE  IInv'
<1>1. /\ At(p, "enqueue") /\ scan[p].at \in Named /\ scan[p].at \in Knowing
      /\ Key(p) \in Keys /\ scan[p].to \in Members
  <2>1. At(p, "enqueue") /\ scan[p].at \in Named /\ scan[p].at \in Knowing
    BY DEF Enqueue, At, Knowing, Named, ScanWorks
  <2>2. QED
    BY <2>1, KeyTyped DEF IInv, TypeInv, ScanTyped, Shaped, At
<1>2. DataTyped'
  BY <1>1 DEF Enqueue, IInv, TypeInv, DataTyped, publications
<1>3. ASSUME ~robbed, scan'[p].at = "receipt", SameFile(p)
      PROVE  Knows(p)' /\ Kept'
  <2>1. Key(p)' = Key(p) /\ intent[Key(p)] = scan[p].to
    BY <1>1, <1>3 DEF Key, SameFile, IInv, Knows, Commits, At
  <2>2. /\ UNCHANGED <<box, intent, receipts, sent, raced>>
        /\ enqueued' = enqueued \cup {<<scan[p].to, Key(p)>>}
    BY DEF Enqueue, publications
  <2>3. Fits(p)'
    BY <1>1, <1>3, <2>2 DEF SameFile, IInv, Knows, Fits, At, Knowing, Named, ScanWorks
  <2>4. Commits(p)'
    BY <1>1, <1>3, <2>1, <2>2 DEF SameFile, IInv, Knows, Commits, At
  <2>5. Kept'
    BY <1>3, <2>1, <2>2 DEF IInv, Kept, Recipients, Persisted, Present
  <2>6. QED
    BY <2>3, <2>4, <2>5 DEF Knows
<1>4. "receipt" \in Named
  BY DEF Named, ScanWorks
<1>5. QED
  BY <1>1, <1>2, <1>3, <1>4, StoreKept DEF Enqueue

LEMMA WriteReceiptKept ==
  ASSUME IInv, NEW p \in Procs, WriteReceipt(p)
  PROVE  IInv'
<1>1. /\ At(p, "record") /\ scan[p].at \in Named /\ scan[p].at \in Knowing /\ Key(p) \in Keys
  <2>1. At(p, "record") /\ scan[p].at \in Named /\ scan[p].at \in Knowing
    BY DEF WriteReceipt, At, Knowing, Named, ScanWorks
  <2>2. QED
    BY <2>1, KeyTyped DEF IInv, TypeInv
<1>2. /\ receipts' = [receipts EXCEPT ![Key(p)] = p]
      /\ UNCHANGED <<box, contact, lockFile, intent, enqueued, caller, sent, raced, robbed>>
  BY DEF WriteReceipt, publications
<1>3. DataTyped'
  BY <1>1, <1>2 DEF IInv, TypeInv, DataTyped
<1>4. /\ receipts'[Key(p)] # None
      /\ \A k \in Keys : k # Key(p) => receipts'[k] = receipts[k]
      /\ \A k \in Keys : receipts[k] # None => receipts'[k] # None
  BY <1>1, <1>2, IntakeAssumption DEF IInv, TypeInv, DataTyped
<1>5. ASSUME ~robbed, scan'[p].at = "recheck", SameFile(p)
      PROVE  Knows(p)' /\ Kept'
  <2>1. Key(p)' = Key(p) /\ <<intent[Key(p)], Key(p)>> \in enqueued
    BY <1>1, <1>5 DEF Key, SameFile, IInv, Knows, Commits, At
  <2>2. Fits(p)'
    BY <1>1, <1>2, <1>5 DEF SameFile, IInv, Knows, Fits, At, Knowing, Named, ScanWorks
  <2>3. Commits(p)'
    BY <1>1, <1>4, <1>5, <2>1 DEF SameFile, IInv, Knows, Commits, At
  <2>4. Persisted'
    <3>1. \A k \in Keys : receipts'[k] # None => <<intent[k], k>> \in enqueued
      BY <1>4, <1>5, <2>1 DEF IInv, Kept, Persisted
    <3>2. \A n \in Names : box["processed"][n] # None => <<n, box["processed"][n]>> \in Keys
      BY DEF IInv, TypeInv, DataTyped, Boxes, Dirs, Keys
    <3>3. \A n \in Names : box["processed"][n] # None => receipts'[<<n, box["processed"][n]>>] # None
      BY <1>4, <1>5, <3>2 DEF IInv, Kept, Persisted
    <3>4. QED
      BY <1>2, <3>1, <3>3 DEF Persisted
  <2>5. Recipients' /\ Present'
    BY <1>2, <1>5 DEF IInv, Kept, Recipients, Present
  <2>6. QED
    BY <2>2, <2>3, <2>4, <2>5 DEF Knows, Kept
<1>6. "recheck" \in Named
  BY DEF Named, ScanWorks
<1>7. QED
  BY <1>1, <1>2, <1>3, <1>5, <1>6, StoreKept DEF WriteReceipt

\* A rename loses nothing where nothing lies at its destination, or only what was
\* published meanwhile.
LEMMA MovedPresent ==
  ASSUME IInv, Present, NEW n \in Names, NEW from \in Dirs, NEW to \in Dirs, from # to,
         MoveFile(n, from, to), UNCHANGED <<sent, raced>>,
         box[to][n] = None \/ <<n, box[to][n]>> \in raced
  PROVE  Present'
<1>1. /\ box'[to][n] = box[from][n]
      /\ \A d \in Dirs, o \in Names : o # n \/ d \notin {from, to} => box'[d][o] = box[d][o]
  BY MoveEffect DEF IInv, TypeInv, DataTyped
<1>2. ASSUME NEW k \in sent \ raced
      PROVE  \E d \in Dirs : box'[d][k[1]] = k[2]
  <2>1. k[1] \in Names /\ k[2] \in Contents /\ k = <<k[1], k[2]>> /\ k[2] # None
    BY <1>2, IntakeAssumption DEF IInv, TypeInv, DataTyped, Keys, Contents
  <2>2. PICK d \in Dirs : box[d][k[1]] = k[2]
    BY <1>2 DEF Present
  <2>3. CASE k[1] # n \/ d \notin {from, to}
    BY <1>1, <2>1, <2>2, <2>3
  <2>4. CASE k[1] = n /\ d = from
    BY <1>1, <2>2, <2>4
  <2>5. CASE k[1] = n /\ d = to
    BY <1>2, <2>1, <2>2, <2>5
  <2>6. QED
    BY <2>3, <2>4, <2>5
<1>3. QED
  BY <1>2 DEF Present

LEMMA RenameTyped ==
  ASSUME IInv, NEW n \in Names, NEW from \in Dirs, NEW to \in Dirs, from # to,
         MoveFile(n, from, to), MoveOnly
  PROVE  DataTyped'
<1>1. box' \in Boxes
  BY MoveEffect DEF IInv, TypeInv, DataTyped
<1>2. QED
  BY <1>1 DEF IInv, TypeInv, DataTyped, MoveOnly, store, publications

LEMMA MovedKept ==
  ASSUME IInv, NEW p \in Procs, scan[p].name \in Names, scan[p].at \in ScanWorks,
         NEW from \in {"new", "claimed"}, NEW to \in Dirs, from # to,
         Moved(p, from, to), MoveOnly, ScanTyped',
         scan'[p].at \in ScanWorks, scan'[p].at \notin Bound,
         \A q \in Procs \ {p} : scan'[q] = scan[q],
         ~robbed => \/ box[to][scan[p].name] = None
                    \/ <<scan[p].name, box[to][scan[p].name]>> \in raced,
         ~robbed /\ to = "processed" => receipts[<<scan[p].name, box[from][scan[p].name]>>] # None
  PROVE  IInv'
<1> DEFINE n == scan[p].name
<1>1. /\ MoveFile(n, from, to) /\ n \in Names /\ from \in Dirs
      /\ UNCHANGED <<lockFile, caller, robbed, sent, raced, intent, receipts, enqueued>>
  BY DEF Moved, MoveOnly, store, publications, Dirs
<1>2. DataTyped'
  BY <1>1, RenameTyped
<1>3. ~robbed => Present'
  BY <1>1, MovedPresent DEF IInv, Kept
<1>4. /\ box'[to][n] = box[from][n] /\ box'[from][n] = None
      /\ \A d \in Dirs, o \in Names : o # n \/ d \notin {from, to} => box'[d][o] = box[d][o]
  BY <1>1, MoveEffect DEF IInv, TypeInv, DataTyped
<1>5. ~robbed => Persisted'
  <2>1. ASSUME ~robbed, NEW o \in Names, box'["processed"][o] # None
        PROVE  receipts[<<o, box'["processed"][o]>>] # None
    BY <1>1, <1>4, <2>1 DEF IInv, Kept, Persisted, Dirs
  <2>2. QED
    BY <1>1, <2>1 DEF IInv, Kept, Persisted
<1>6. ~robbed => Recipients'
  BY <1>1 DEF IInv, Kept, Recipients
<1>7. ~robbed => Knows(p)' /\ Kept'
  BY <1>3, <1>5, <1>6, KnowsNothing DEF Kept
<1>8. QED
  BY <1>1, <1>2, <1>7, WorkKept

LEMMA GoneLooks ==
  ASSUME NEW p \in Procs, NEW from, Gone(p, from), MoveOnly
  PROVE  Looks
  BY DEF Gone, MoveOnly, Looks

LEMMA RenameClaimKept ==
  ASSUME IInv, NEW p \in Procs, RenameClaim(p)
  PROVE  IInv'
<1>1. /\ scan[p].at = "claiming" /\ scan[p].at \in Named /\ scan[p].at \in ScanWorks
      /\ scan[p].name \in Names /\ scan[p].at \notin {"idle", "down"} /\ MoveOnly
  BY DEF RenameClaim, At, Named, ScanWorks, IInv, TypeInv, ScanTyped, Shaped
<1>2. CASE Moved(p, "new", "claimed") /\ Goto(p, "read")
  <2>1. /\ "read" \in ScanAt /\ "read" \in ScanWorks /\ "read" \notin Bound /\ "read" \notin Knowing
        /\ "claimed" \in Dirs
    BY DEF ScanAt, ScanWorks, Bound, Knowing, Dirs
  <2>2. ScanTyped' /\ scan'[p].at = "read" /\ \A q \in Procs \ {p} : scan'[q] = scan[q]
    BY <1>1, <1>2, <2>1, GotoTyped DEF IInv, TypeInv
  <2>3. ~robbed => box["claimed"][scan[p].name] = None
    BY <1>1 DEF IInv, Knows, Fits, At
  <2>4. QED
    BY <1>1, <1>2, <2>1, <2>2, <2>3, MovedKept
<1>3. CASE Gone(p, "new") /\ Leave(p, "next")
  BY <1>1, <1>3, GoneLooks, LeaveKept
<1>4. QED
  BY <1>2, <1>3 DEF RenameClaim

\* The renames that end the work on a file.
LEMMA LastMoveKept ==
  ASSUME IInv, NEW p \in Procs, scan[p].name \in Names, scan[p].at \in ScanWorks,
         NEW to \in {"new", "processed", "failed"}, NEW stage \in {"next", "unlock"},
         Moved(p, "claimed", to), Leave(p, stage), MoveOnly,
         ~robbed => \/ box[to][scan[p].name] = None
                    \/ <<scan[p].name, box[to][scan[p].name]>> \in raced,
         ~robbed /\ to = "processed" => receipts[<<scan[p].name, box["claimed"][scan[p].name]>>] # None
  PROVE  IInv'
<1>1. ScanTyped' /\ scan'[p].at = stage /\ \A q \in Procs \ {p} : scan'[q] = scan[q]
  BY LeaveTyped DEF IInv, TypeInv
<1>2. scan'[p].at \in ScanWorks /\ scan'[p].at \notin Bound /\ to \in Dirs /\ to # "claimed"
  BY <1>1 DEF ScanWorks, Bound, Named, Dirs
<1>3. QED
  BY <1>1, <1>2, MovedKept

LEMMA RenameFailedKept ==
  ASSUME IInv, NEW p \in Procs, RenameFailed(p)
  PROVE  IInv'
<1>1. /\ scan[p].at = "refuse" /\ scan[p].at \in ScanWorks
      /\ scan[p].name \in Names /\ MoveOnly
  BY DEF RenameFailed, At, Named, ScanWorks, IInv, TypeInv, ScanTyped, Shaped
<1>2. CASE Moved(p, "claimed", "failed") /\ Leave(p, "next")
  <2>1. ~robbed => box["failed"][scan[p].name] = None
    BY <1>1 DEF IInv, Knows, Fits, At
  <2>2. QED
    BY <1>1, <1>2, <2>1, LastMoveKept
<1>3. CASE Gone(p, "claimed") /\ Leave(p, "unlock")
  BY <1>1, <1>3, GoneLooks, LeaveKept
<1>4. QED
  BY <1>2, <1>3 DEF RenameFailed

LEMMA RenameProcessedKept ==
  ASSUME IInv, NEW p \in Procs, RenameProcessed(p)
  PROVE  IInv'
<1>1. /\ scan[p].at = "file" /\ scan[p].at \in ScanWorks /\ scan[p].at \in Named
      /\ scan[p].at \in Knowing
      /\ scan[p].name \in Names /\ MoveOnly
  BY DEF RenameProcessed, At, Named, Knowing, ScanWorks, IInv, TypeInv, ScanTyped, Shaped
<1>2. CASE Moved(p, "claimed", "processed") /\ Leave(p, "next")
  <2>1. ~robbed => box["processed"][scan[p].name] = None
    BY <1>1 DEF IInv, Knows, Fits, At
  <2>2. ~robbed => receipts[<<scan[p].name, box["claimed"][scan[p].name]>>] # None
    BY <1>1 DEF IInv, Knows, Fits, Commits, At, Key
  <2>3. QED
    BY <1>1, <1>2, <2>1, <2>2, LastMoveKept
<1>3. CASE Gone(p, "claimed") /\ GiveUp(p)
  BY <1>1, <1>3, GoneLooks, GiveUpKept
<1>4. QED
  BY <1>2, <1>3 DEF RenameProcessed

LEMMA RenameBackKept ==
  ASSUME IInv, NEW p \in Procs, RenameBack(p)
  PROVE  IInv'
<1>1. /\ scan[p].at = "restore" /\ scan[p].at \in ScanWorks
      /\ scan[p].name \in Names /\ MoveOnly
  BY DEF RenameBack, At, Named, ScanWorks, IInv, TypeInv, ScanTyped, Shaped
<1>2. CASE Moved(p, "claimed", "new") /\ Leave(p, "unlock")
  <2>1. ~robbed => \/ box["new"][scan[p].name] = None
                   \/ <<scan[p].name, box["new"][scan[p].name]>> \in raced
    BY <1>1 DEF IInv, Knows, Fits, At
  <2>2. QED
    BY <1>1, <1>2, <2>1, LastMoveKept
<1>3. CASE Gone(p, "claimed") /\ NotPutBack(p)
  BY <1>1, <1>3, GoneLooks, NotPutBackKept
<1>4. QED
  BY <1>2, <1>3 DEF RenameBack

-----------------------------------------------------------------------------
(* The lock, bebop contact, writers and processes.                          *)

\* A step that leaves the files alone, and tells no scan anything.
LEMMA QuietKept ==
  ASSUME IInv, UNCHANGED <<box, store, publications>>, TypeInv',
         \A q \in Procs : \/ scan'[q].at \notin Bound
                          \/ scan'[q].at = scan[q].at /\ SameFile(q),
         ~robbed' => ~robbed /\ Alone'
  PROVE  IInv'
<1>1. ASSUME ~robbed'
      PROVE  Alone' /\ (\A q \in Procs : Knows(q)') /\ Kept'
  <2>1. Alone' /\ (\A q \in Procs : Knows(q)) /\ Kept
    BY <1>1 DEF IInv
  <2>2. Kept'
    BY <2>1 DEF Kept, Recipients, Persisted, Present, store, publications
  <2>3. ASSUME NEW q \in Procs
        PROVE  Knows(q)'
    <3>1. CASE scan'[q].at \notin Bound
      BY <3>1, KnowsNothing
    <3>2. CASE scan'[q].at = scan[q].at /\ SameFile(q)
      BY <2>1, <3>2 DEF SameFile, Knows, Fits, Commits, At, Key, store, publications
    <3>3. QED
      BY <3>1, <3>2
  <2>4. QED
    BY <2>1, <2>2, <2>3
<1>2. QED
  BY <1>1 DEF IInv

\* The scan of p alone changes, and is at a step that relies on nothing.
LEMMA OthersSame ==
  ASSUME NEW p \in Procs, \A q \in Procs \ {p} : scan'[q] = scan[q], scan'[p].at \notin Bound
  PROVE  \A q \in Procs : \/ scan'[q].at \notin Bound
                          \/ scan'[q].at = scan[q].at /\ SameFile(q)
  BY DEF SameFile

\* With the lock file gone, or somebody else's, nobody works.
LEMMA NobodyWorks ==
  ASSUME IInv, ~robbed
  PROVE  /\ \A q \in Procs : lockFile # q => scan[q].at \notin ScanWorks
         /\ lockFile # Contact => caller.at \notin CallWorks
  BY DEF IInv, Alone

LEMMA LockKept ==
  ASSUME IInv, NEW p \in Procs, Lock(p) \/ Relock(p)
  PROVE  IInv'
<1>1. /\ UNCHANGED <<box, contact, store, publications, caller, robbed>>
      /\ scan[p].at \notin ScanWorks /\ scan[p].at \notin {"idle", "down"}
  BY DEF Lock, Relock, LockStep, At, ScanWorks
<1>2. CASE lockFile = None /\ lockFile' = p /\ Goto(p, "list")
  <2>1. /\ "list" \in ScanAt /\ "list" \notin Named /\ "list" \notin Knowing /\ "list" \notin Bound
        /\ "list" \in ScanWorks
    BY DEF ScanAt, ScanWorks, Named, Knowing, Bound
  <2>2. ScanTyped' /\ scan'[p].at = "list" /\ \A q \in Procs \ {p} : scan'[q] = scan[q]
    BY <1>1, <1>2, <2>1, GotoTyped DEF IInv, TypeInv
  <2>3. TypeInv'
    BY <1>1, <1>2, <2>2 DEF IInv, TypeInv, DataTyped, store, publications
  <2>4. ~robbed => Alone'
    BY <1>1, <1>2, <2>2, NobodyWorks, IntakeAssumption DEF Alone
  <2>5. QED
    BY <1>1, <2>1, <2>2, <2>3, <2>4, OthersSame, QuietKept
<1>3. CASE UNCHANGED lockFile /\ Goto(p, "unlink")
  <2>1. /\ "unlink" \in ScanAt /\ "unlink" \notin Named /\ "unlink" \notin Knowing
        /\ "unlink" \notin Bound /\ "unlink" \notin ScanWorks
    BY DEF ScanAt, ScanWorks, Named, Knowing, Bound
  <2>2. ScanTyped' /\ scan'[p].at = "unlink" /\ \A q \in Procs \ {p} : scan'[q] = scan[q]
    BY <1>1, <1>3, <2>1, GotoTyped DEF IInv, TypeInv
  <2>3. TypeInv'
    BY <1>1, <1>3, <2>2 DEF IInv, TypeInv, DataTyped, store, publications
  <2>4. ~robbed => Alone'
    BY <1>1, <1>3, <2>1, <2>2 DEF IInv, Alone
  <2>5. QED
    BY <1>1, <2>1, <2>2, <2>3, <2>4, OthersSame, QuietKept
<1>4. CASE UNCHANGED lockFile /\ scan' = [scan EXCEPT ![p] = NoScan]
  <2>1. ScanTyped' /\ scan'[p].at = "idle" /\ \A q \in Procs \ {p} : scan'[q] = scan[q]
    BY <1>4, NoScanTyped DEF NoScan, IInv, TypeInv
  <2>2. TypeInv'
    BY <1>1, <1>4, <2>1 DEF IInv, TypeInv, DataTyped, store, publications
  <2>3. scan'[p].at \notin Bound /\ scan'[p].at \notin ScanWorks
    BY <2>1 DEF Bound, Named, ScanWorks
  <2>4. ~robbed => Alone'
    BY <1>1, <1>4, <2>1, <2>3 DEF IInv, Alone
  <2>5. QED
    BY <1>1, <2>1, <2>2, <2>3, <2>4, OthersSame, QuietKept
<1>5. QED
  BY <1>2, <1>3, <1>4 DEF Lock, Relock

\* Whoever deletes the lock file and robs nobody leaves nobody at work.
LEMMA UnlinkKept ==
  ASSUME IInv, NEW p \in Procs, UnlinkStale(p) \/ ReleaseScan(p)
  PROVE  IInv'
<1>1. /\ UNCHANGED <<box, contact, store, publications, caller>> /\ lockFile' = None
      /\ robbed' = (robbed \/ lockFile \notin {None, Dead, p})
  BY DEF UnlinkStale, ReleaseScan, LockStep, Unlink
<1>2. ScanTyped' /\ scan'[p].at \in {"idle", "relock"} /\ \A q \in Procs \ {p} : scan'[q] = scan[q]
  <2>1. CASE scan' = [scan EXCEPT ![p] = NoScan]
    BY <2>1, NoScanTyped DEF NoScan, IInv, TypeInv
  <2>2. CASE At(p, "unlink") /\ Goto(p, "relock")
    <3>1. "relock" \in ScanAt /\ "relock" \notin Named /\ "relock" \notin Knowing
      BY DEF ScanAt, ScanWorks, Named, Knowing
    <3>2. QED
      BY <2>2, <3>1, GotoTyped DEF IInv, TypeInv, At
  <2>3. QED
    BY <2>1, <2>2 DEF UnlinkStale, ReleaseScan
<1>3. scan'[p].at \notin Bound /\ scan'[p].at \notin ScanWorks
  BY <1>2 DEF Bound, Named, ScanWorks
<1>4. TypeInv'
  <2>1. robbed' \in BOOLEAN
    BY <1>1
  <2>2. DataTyped'
    BY <1>1, <2>1 DEF IInv, TypeInv, DataTyped, store, publications
  <2>3. QED
    BY <1>2, <2>2 DEF TypeInv
<1>5. ~robbed' => ~robbed /\ Alone'
  <2>1. ASSUME ~robbed'
        PROVE  ~robbed /\ lockFile \in {None, Dead, p}
    BY <1>1, <2>1 DEF IInv, TypeInv, DataTyped
  <2>2. QED
    BY <1>1, <1>2, <1>3, <2>1, NobodyWorks, IntakeAssumption DEF Alone
<1>6. QED
  BY <1>1, <1>2, <1>3, <1>4, <1>5, OthersSame, QuietKept

\* bebop contact, but for its link.
LEMMA CallKept ==
  ASSUME IInv, \/ \E n \in Names, c \in Texts : StartCall(n, c)
               \/ CallLock \/ CallUnlink \/ CallLook \/ CallUnlock \/ CallEnds
  PROVE  IInv'
<1>1. UNCHANGED <<box, contact, store, publications, scan>>
  BY DEF StartCall, CallLock, CallUnlink, CallLook, CallUnlock, CallEnds, LockStep
<1>2. \A q \in Procs : scan'[q].at = scan[q].at /\ SameFile(q)
  BY <1>1 DEF SameFile
<1>3. \A stage \in CallWorks \cup {"idle", "lock", "unlink"} :
        CallTo(stage) /\ caller.at # "idle" =>
          /\ caller' \in Call /\ caller'.at = stage /\ caller'.key \in Keys
  BY DEF CallTo, IInv, TypeInv, DataTyped, Call
<1>4. NoCall \in Call /\ NoCall.at = "idle"
  BY DEF NoCall, Call
<1>5. CASE \E n \in Names, c \in Texts : StartCall(n, c)
  <2>1. PICK n \in Names, c \in Texts : StartCall(n, c)
    BY <1>5
  <2>2. UNCHANGED <<lockFile, robbed>> /\ caller' = [at |-> "lock", key |-> <<n, c>>]
    BY <2>1 DEF StartCall
  <2>3. caller' \in Call /\ caller'.at = "lock" /\ caller'.key \in Keys
    BY <2>2 DEF Call, Keys, Contents
  <2>4. TypeInv'
    BY <1>1, <2>2, <2>3 DEF IInv, TypeInv, DataTyped, ScanTyped, store, publications
  <2>5. ~robbed => Alone'
    BY <1>1, <2>2, <2>3 DEF IInv, Alone, CallWorks
  <2>6. QED
    BY <1>1, <1>2, <2>2, <2>4, <2>5, QuietKept
<1>6. CASE CallLock
  <2>1. UNCHANGED robbed /\ caller.at = "lock"
    BY <1>6 DEF CallLock
  <2>2. /\ caller' \in Call /\ (caller'.at # "idle" => caller'.key \in Keys)
        /\ lockFile' \in {lockFile, Contact}
        /\ caller'.at \in CallWorks => lockFile = None /\ lockFile' = Contact
        /\ lockFile' # lockFile => lockFile = None
    <3>1. CASE lockFile = None /\ lockFile' = Contact /\ CallTo("look")
      BY <1>3, <2>1, <3>1 DEF CallWorks
    <3>2. CASE UNCHANGED lockFile /\ CallTo("unlink")
      BY <1>3, <2>1, <3>2 DEF CallWorks
    <3>3. CASE UNCHANGED lockFile /\ caller' = NoCall
      BY <1>4, <3>3 DEF CallWorks
    <3>4. QED
      BY <1>6, <3>1, <3>2, <3>3 DEF CallLock
  <2>3. TypeInv'
    BY <1>1, <2>1, <2>2 DEF IInv, TypeInv, DataTyped, ScanTyped, store, publications
  <2>4. ~robbed => Alone'
    BY <1>1, <2>1, <2>2, NobodyWorks, IntakeAssumption DEF Alone
  <2>5. QED
    BY <1>1, <1>2, <2>1, <2>3, <2>4, QuietKept
<1>7. CASE CallUnlink \/ CallUnlock
  <2>1. /\ caller.at # "idle" /\ lockFile' = None
        /\ robbed' = (robbed \/ lockFile \notin {None, Dead, Contact})
    BY <1>7 DEF CallUnlink, CallUnlock, Unlink
  <2>2. /\ caller' \in Call /\ (caller'.at # "idle" => caller'.key \in Keys)
        /\ caller'.at \notin CallWorks
    <3>1. CASE CallTo("lock")
      BY <1>3, <2>1, <3>1 DEF CallWorks
    <3>2. CASE caller' = NoCall
      BY <1>4, <3>2 DEF CallWorks
    <3>3. QED
      BY <1>7, <3>1, <3>2 DEF CallUnlink, CallUnlock
  <2>3. TypeInv'
    <3>1. robbed' \in BOOLEAN
      BY <2>1
    <3>2. QED
      BY <1>1, <2>1, <2>2, <3>1 DEF IInv, TypeInv, DataTyped, ScanTyped, store, publications
  <2>4. ~robbed' => ~robbed /\ Alone'
    <3>1. ASSUME ~robbed'
          PROVE  ~robbed /\ lockFile \in {None, Dead, Contact}
      BY <2>1, <3>1 DEF IInv, TypeInv, DataTyped
    <3>2. QED
      BY <1>1, <2>1, <2>2, <3>1, NobodyWorks, IntakeAssumption DEF Alone
  <2>5. QED
    BY <1>1, <1>2, <2>3, <2>4, QuietKept
<1>8. CASE CallLook
  <2>1. UNCHANGED <<robbed, lockFile>> /\ caller.at = "look" /\ caller.at \in CallWorks
    BY <1>8 DEF CallLook, CallWorks
  <2>2. caller' \in Call /\ caller'.key \in Keys
    <3>1. CallTo("link") \/ CallTo("unlock")
      BY <1>8 DEF CallLook
    <3>2. QED
      BY <1>3, <2>1, <3>1 DEF CallWorks
  <2>3. TypeInv'
    BY <1>1, <2>1, <2>2 DEF IInv, TypeInv, DataTyped, ScanTyped, store, publications
  <2>4. ~robbed => Alone'
    BY <1>1, <2>1 DEF IInv, Alone
  <2>5. QED
    BY <1>1, <1>2, <2>1, <2>3, <2>4, QuietKept
<1>9. CASE CallEnds
  <2>1. UNCHANGED robbed /\ caller' = NoCall /\ lockFile' = IF lockFile = Contact THEN Dead ELSE lockFile
    BY <1>9 DEF CallEnds
  <2>2. TypeInv'
    BY <1>1, <1>4, <2>1 DEF IInv, TypeInv, DataTyped, ScanTyped, store, publications
  <2>3. ~robbed => Alone'
    BY <1>1, <1>4, <2>1, IntakeAssumption DEF IInv, Alone, CallWorks
  <2>4. QED
    BY <1>1, <1>2, <2>1, <2>2, <2>3, QuietKept
<1>10. QED
  BY <1>5, <1>6, <1>7, <1>8, <1>9

LEMMA EditManifestKept ==
  ASSUME IInv, NEW m \in Members, EditManifest(m)
  PROVE  IInv'
<1>1. UNCHANGED <<box, lockFile, store, scan, caller, publications, robbed>> /\ contact' = m
  BY DEF EditManifest
<1>2. \A q \in Procs : scan'[q].at = scan[q].at /\ SameFile(q)
  BY <1>1 DEF SameFile
<1>3. TypeInv'
  BY <1>1 DEF IInv, TypeInv, DataTyped, ScanTyped, store, publications
<1>4. ~robbed => Alone'
  BY <1>1 DEF IInv, Alone
<1>5. QED
  BY <1>1, <1>2, <1>3, <1>4, QuietKept

LEMMA EndScannerKept ==
  ASSUME IInv, NEW p \in Procs, EndScanner(p)
  PROVE  IInv'
<1>1. /\ UNCHANGED <<box, contact, store, caller, publications, robbed>>
      /\ lockFile' = IF lockFile = p THEN Dead ELSE lockFile
      /\ scan' = [scan EXCEPT ![p] = Between("down", None, {}, FALSE, 0)]
  BY DEF EndScanner
<1>2. ScanTyped' /\ scan'[p].at = "down" /\ \A q \in Procs \ {p} : scan'[q] = scan[q]
  BY <1>1, NoScanTyped DEF IInv, TypeInv
<1>3. scan'[p].at \notin Bound /\ scan'[p].at \notin ScanWorks
  BY <1>2 DEF Bound, Named, ScanWorks
<1>4. TypeInv'
  BY <1>1, <1>2 DEF IInv, TypeInv, DataTyped, store, publications
<1>5. ~robbed => Alone'
  BY <1>1, <1>2, <1>3, IntakeAssumption DEF IInv, Alone
<1>6. QED
  BY <1>1, <1>2, <1>3, <1>4, <1>5, OthersSame, QuietKept

LEMMA RestKept ==
  ASSUME IInv, NEW p \in Procs, Restart(p) \/ StartScan(p)
  PROVE  IInv'
<1>1. /\ UNCHANGED <<box, contact, lockFile, store, caller, publications, robbed>>
      /\ scan[p].at \notin ScanWorks
  BY DEF Restart, StartScan, Looks, At, ScanWorks
<1>2. ScanTyped' /\ scan'[p].at \in {"idle", "lock"} /\ \A q \in Procs \ {p} : scan'[q] = scan[q]
  <2>1. CASE Restart(p)
    <3>1. "idle" \in ScanAt /\ "idle" \notin Named /\ "idle" \notin Knowing
      BY DEF ScanAt, ScanWorks, Named, Knowing
    <3>2. QED
      BY <2>1, <3>1, GotoTyped DEF IInv, TypeInv, Restart
  <2>2. CASE StartScan(p)
    BY <2>2, StartTyped DEF IInv, TypeInv, DataTyped, StartScan
  <2>3. QED
    BY <2>1, <2>2
<1>3. scan'[p].at \notin Bound /\ scan'[p].at \notin ScanWorks
  BY <1>2 DEF Bound, Named, ScanWorks
<1>4. TypeInv'
  BY <1>1, <1>2 DEF IInv, TypeInv, DataTyped, store, publications
<1>5. ~robbed => Alone'
  BY <1>1, <1>2, <1>3 DEF IInv, Alone
<1>6. QED
  BY <1>1, <1>2, <1>3, <1>4, <1>5, OthersSame, QuietKept

LEMMA ResyncKept ==
  ASSUME IInv, NEW p \in Procs, Resync(p)
  PROVE  IInv'
<1> DEFINE r == [scan[p] EXCEPT !.stale = TRUE]
<1>1. /\ UNCHANGED <<box, contact, lockFile, store, caller, publications, robbed>>
      /\ scan[p] \in ScanRecord /\ Shaped(scan[p])
      /\ scan' = [scan EXCEPT ![p] = r]
  BY DEF Resync, IInv, TypeInv, ScanTyped
<1>2. /\ r \in ScanRecord /\ r.at = scan[p].at /\ r.seen = scan[p].seen /\ r.name = scan[p].name
      /\ r.text = scan[p].text /\ r.to = scan[p].to /\ r.had = scan[p].had
  BY <1>1 DEF ScanRecord
<1> HIDE DEF r
<1>3. Shaped(r)
  BY <1>1, <1>2 DEF Shaped
<1>4. ScanTyped' /\ scan'[p] = r /\ \A q \in Procs \ {p} : scan'[q] = scan[q]
  BY <1>1, <1>3, RecordTyped DEF IInv, TypeInv
<1>5. \A q \in Procs : scan'[q].at = scan[q].at /\ SameFile(q)
  BY <1>2, <1>4 DEF SameFile
<1>6. TypeInv'
  BY <1>1, <1>4 DEF IInv, TypeInv, DataTyped, store, publications
<1>7. ~robbed => Alone'
  BY <1>1, <1>5 DEF IInv, Alone
<1>8. QED
  BY <1>1, <1>5, <1>6, <1>7, QuietKept

\* A file arrives: what a scan saw stays as it was, unless the name was being put back.
LEMMA ArriveKept ==
  ASSUME IInv, NEW n \in Names, NEW c \in Contents, Arrive(n, c),
         UNCHANGED <<contact, lockFile, store, scan, robbed>>,
         caller' \in Call, caller'.at # "idle" => caller'.key \in Keys,
         caller'.at \in CallWorks => caller.at \in CallWorks
  PROVE  IInv'
<1>1. /\ box["new"][n] = None /\ box' \in Boxes /\ box'["new"][n] = c
      /\ \A d \in Dirs, o \in Names : o # n \/ d # "new" => box'[d][o] = box[d][o]
  BY ArriveEffect DEF Arrive, IInv, TypeInv, DataTyped
<1>2. sent' \subseteq Keys /\ <<n, c>> \in Keys
  BY DEF Arrive, Keys, IInv, TypeInv, DataTyped
<1>3. TypeInv'
  BY <1>1, <1>2 DEF IInv, TypeInv, DataTyped, ScanTyped, store
<1>4. ASSUME ~robbed'
      PROVE  Alone' /\ (\A q \in Procs : Knows(q)') /\ Kept'
  <2>1. Alone /\ (\A q \in Procs : Knows(q)) /\ Kept
    BY <1>4 DEF IInv
  <2>2. Alone'
    BY <2>1 DEF Alone
  <2>3. ASSUME NEW q \in Procs
        PROVE  Fits(q)'
    <3>1. /\ At(q, "claiming") => box["claimed"][scan[q].name] = None /\ scan[q].name \in Names
          /\ scan[q].at \in Knowing => box["claimed"][scan[q].name] = scan[q].text /\ scan[q].name \in Names
          /\ At(q, "refuse") => box["failed"][scan[q].name] = None /\ scan[q].name \in Names
          /\ At(q, "file") => box["processed"][scan[q].name] = None /\ scan[q].name \in Names
      BY <2>1 DEF Knows, Fits, IInv, TypeInv, ScanTyped, Shaped, At, Named, Knowing, ScanWorks
    <3>2. At(q, "restore") => \/ box'["new"][scan[q].name] = None
                              \/ <<scan[q].name, box'["new"][scan[q].name]>> \in raced'
      <4>1. ASSUME At(q, "restore"), scan[q].name = n
            PROVE  <<n, c>> \in raced'
        BY <4>1 DEF Arrive, PutBackOf
      <4>2. ASSUME At(q, "restore"), scan[q].name # n
            PROVE  /\ box'["new"][scan[q].name] = box["new"][scan[q].name]
                   /\ <<scan[q].name, box["new"][scan[q].name]>> \in raced
                        => <<scan[q].name, box["new"][scan[q].name]>> \in raced'
        <5>1. scan[q].name \in Names
          BY <4>2 DEF IInv, TypeInv, ScanTyped, Shaped, At, Named, ScanWorks
        <5>2. QED
          BY <1>1, <4>2, <5>1 DEF Arrive, Dirs
      <4>3. At(q, "restore") => \/ box["new"][scan[q].name] = None
                                \/ <<scan[q].name, box["new"][scan[q].name]>> \in raced
        BY <2>1 DEF Knows, Fits
      <4>4. QED
        BY <1>1, <4>1, <4>2, <4>3
    <3>3. QED
      BY <1>1, <3>1, <3>2 DEF Fits, At, Dirs
  <2>4. \A q \in Procs : Commits(q)'
    BY <2>1 DEF Knows, Commits, At, Key, store
  <2>5. Recipients' /\ Persisted'
    <3>1. \A o \in Names : box'["processed"][o] = box["processed"][o]
      BY <1>1 DEF Dirs
    <3>2. QED
      BY <2>1, <3>1 DEF Kept, Recipients, Persisted, store
  <2>6. Present'
    <3>1. ASSUME NEW k \in sent' \ raced'
          PROVE  \E d \in Dirs : box'[d][k[1]] = k[2]
      <4>1. CASE k = <<n, c>>
        BY <1>1, <4>1 DEF Dirs
      <4>2. CASE k # <<n, c>>
        <5>1. k \in sent \ raced /\ k[1] \in Names /\ k[2] # None
          BY <3>1, <4>2, <1>2, IntakeAssumption DEF Arrive, Keys, Contents
        <5>2. PICK d \in Dirs : box[d][k[1]] = k[2]
          BY <2>1, <5>1 DEF Kept, Present
        <5>3. QED
          BY <1>1, <5>1, <5>2
      <4>3. QED
        BY <4>1, <4>2
    <3>2. QED
      BY <3>1 DEF Present
  <2>7. QED
    BY <2>2, <2>3, <2>4, <2>5, <2>6 DEF Knows, Kept
<1>5. QED
  BY <1>3, <1>4 DEF IInv

LEMMA DropKept ==
  ASSUME IInv, NEW n \in Names, NEW c \in Contents, Drop(n, c)
  PROVE  IInv'
  BY ArriveKept DEF Drop, IInv, TypeInv, DataTyped

LEMMA CallLinkKept ==
  ASSUME IInv, CallLink
  PROVE  IInv'
<1> DEFINE n == caller.key[1]
           c == caller.key[2]
<1>1. /\ caller.at = "link" /\ caller.at \in CallWorks /\ n \in Names /\ c \in Contents
      /\ caller' \in Call /\ caller'.at = "unlock" /\ caller'.key \in Keys
      /\ caller'.at \in CallWorks
      /\ UNCHANGED <<contact, lockFile, store, scan, robbed>>
  BY DEF CallLink, CallTo, CallWorks, IInv, TypeInv, DataTyped, Call, Keys
<1>2. CASE Arrive(n, c)
  BY <1>1, <1>2, ArriveKept
<1>3. CASE UNCHANGED <<box, publications>>
  <2>1. \A q \in Procs : scan'[q].at = scan[q].at /\ SameFile(q)
    BY <1>1 DEF SameFile
  <2>2. TypeInv'
    BY <1>1, <1>3 DEF IInv, TypeInv, DataTyped, ScanTyped, store, publications
  <2>3. ~robbed => Alone'
    BY <1>1 DEF IInv, Alone
  <2>4. QED
    BY <1>1, <1>3, <2>1, <2>2, <2>3, QuietKept
<1>4. QED
  BY <1>2, <1>3 DEF CallLink

-----------------------------------------------------------------------------
(* The theorems.                                                            *)

LEMMA IntakeInitial ==
  ASSUME IntakeInit
  PROVE  IInv
<1>1. \A p \in Procs : scan[p] = NoScan
  BY DEF IntakeInit
<1>2. NoScan \in ScanRecord /\ NoScan.at = "idle"
  BY DEF NoScan, Between, ScanRecord, ScanAt
<1>3. Shaped(NoScan)
  BY <1>2 DEF Shaped, Named, Knowing, ScanWorks
<1>4. ScanTyped
  BY <1>2, <1>3 DEF ScanTyped, IntakeInit
<1>5. DataTyped
  BY DEF IntakeInit, DataTyped, Boxes, NoCall, Call
<1>6. Alone
  BY <1>1, <1>2 DEF IntakeInit, Alone, ScanWorks, CallWorks, NoCall
<1>7. \A p \in Procs : Knows(p)
  BY <1>1, <1>2, KnowsNothing DEF Bound, Named, ScanWorks
<1>8. Kept
  BY DEF IntakeInit, Kept, Recipients, Persisted, Present, Dirs
<1>9. QED
  BY <1>4, <1>5, <1>6, <1>7, <1>8 DEF IInv, TypeInv

LEMMA IntakeStep ==
  ASSUME IInv, [IntakeNext]_intakeVars
  PROVE  IInv'
<1>1. CASE \E n \in Names, c \in Contents : Drop(n, c)
  BY <1>1, DropKept
<1>2. CASE CallSteps
  BY <1>2, CallKept, CallLinkKept DEF CallSteps
<1>3. CASE \E m \in Members : EditManifest(m)
  BY <1>3, EditManifestKept
<1>4. CASE \E p \in Procs : EndScanner(p) \/ Restart(p) \/ Resync(p) \/ StorageError(p)
  BY <1>4, EndScannerKept, RestKept, ResyncKept, StorageErrorKept
<1>5. CASE \E p \in Procs : StartScan(p) \/ LockSteps(p)
  BY <1>5, RestKept, LockKept, UnlinkKept DEF LockSteps
<1>6. CASE \E p \in Procs : ClaimSteps(p)
  BY <1>6, ListKept, EndScanKept, ReadKept, RenameClaimKept, ClaimKept DEF ClaimSteps
<1>7. CASE \E p \in Procs : CommitSteps(p)
  BY <1>7, ReadReceiptKept, ReadIntentKept, LookForIntentKept, WriteIntentKept, CheckKept,
     EnqueueKept, LookForReceiptKept, WriteReceiptKept DEF CommitSteps
<1>8. CASE \E p \in Procs : MoveSteps(p)
  BY <1>8, MoveProcessedKept, RenameProcessedKept, RejectKept, RenameFailedKept, PutBackKept,
     RenameBackKept DEF MoveSteps
<1>9. CASE UNCHANGED intakeVars
  <2>1. UNCHANGED <<box, contact, lockFile, intent, receipts, enqueued, scan, caller, sent, raced, robbed>>
    BY <1>9 DEF intakeVars, store, publications
  <2>2. \A q \in Procs : scan'[q].at = scan[q].at /\ SameFile(q)
    BY <2>1 DEF SameFile
  <2>3. TypeInv' /\ (~robbed => Alone')
    BY <2>1 DEF IInv, TypeInv, DataTyped, ScanTyped, Alone
  <2>4. QED
    BY <2>1, <2>2, <2>3, QuietKept DEF store, publications
<1>10. QED
  BY <1>1, <1>2, <1>3, <1>4, <1>5, <1>6, <1>7, <1>8, <1>9 DEF IntakeNext

LEMMA IntakeInvariant == IntakeSpec => []IInv
<1>1. IntakeInit => IInv
  BY IntakeInitial
<1>2. IInv /\ [IntakeNext]_intakeVars => IInv'
  BY IntakeStep
<1>3. QED
  BY <1>1, <1>2, PTL DEF IntakeSpec

\* One file reaches one Member, for any number of sessions, Members and files: while no
\* lock is deleted under its owner, whatever was enqueued went where its intent says, and
\* the intent is written once.
THEOREM OneRecipientHolds == IntakeSpec => []OneRecipient
<1>1. IInv => OneRecipient
  BY DEF IInv, Kept, Recipients, OneRecipient
<1>2. QED
  BY <1>1, IntakeInvariant, PTL

\* The source moves to processed/ only after its receipt, and the receipt is written only
\* after the item was enqueued for the recipient of the intent.
THEOREM PersistedFirstHolds == IntakeSpec => []PersistedFirst
<1>1. IInv => PersistedFirst
  BY DEF IInv, Kept, Persisted, PersistedFirst
<1>2. QED
  BY <1>1, IntakeInvariant, PTL

\* No rename of a scan replaces a file, but for one that was published between the look
\* and the rename with which a claim of its name is put back.
THEOREM NoFileLostHolds == IntakeSpec => []NoFileLost
<1>1. IInv => NoFileLost
  BY DEF IInv, Kept, Present, NoFileLost
<1>2. QED
  BY <1>1, IntakeInvariant, PTL

=============================================================================
