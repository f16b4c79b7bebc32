------------------------------- MODULE Mailbox -------------------------------
(***************************************************************************)
(* What a member inbox promises, whatever processes and crashes lie        *)
(* between: an accepted message is there until it is delivered or          *)
(* cancelled, and messages are first delivered in the order in which they  *)
(* were accepted.  Delivering a message again is not a step: the inbox     *)
(* claims no exactly-once delivery.                                        *)
(***************************************************************************)
EXTENDS Naturals, Sequences

CONSTANT Messages

VARIABLES arrivals,   \* accepted messages, oldest first
          delivered,  \* messages some session of the recipient has received
          cancelled   \* messages the recipient removed unread

Accepted == {arrivals[i] : i \in DOMAIN arrivals}

Init == arrivals = <<>> /\ delivered = {} /\ cancelled = {}

Accept(m) ==
  /\ m \notin Accepted
  /\ arrivals' = Append(arrivals, m)
  /\ UNCHANGED <<delivered, cancelled>>

Deliver(i) ==
  /\ \A j \in 1 .. i - 1 : arrivals[j] \in delivered \cup cancelled
  /\ delivered' = delivered \cup {arrivals[i]}
  /\ UNCHANGED <<arrivals, cancelled>>

Cancel(m) ==
  /\ cancelled' = cancelled \cup {m}
  /\ UNCHANGED <<arrivals, delivered>>

Next ==
  \/ \E m \in Messages : Accept(m)
  \/ \E i \in DOMAIN arrivals : Deliver(i)
  \/ \E m \in Accepted : Cancel(m)

Spec == Init /\ [][Next]_<<arrivals, delivered, cancelled>>
=============================================================================
