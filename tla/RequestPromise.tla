--------------------------- MODULE RequestPromise ---------------------------
(***************************************************************************)
(* What the bookkeeping of outbound Member Requests promises its caller,   *)
(* whatever it buffers, whoever waits and however many requests there are: *)
(* an open request either is withdrawn without an outcome or reaches       *)
(* exactly one terminal outcome, and that outcome is handed to a caller at *)
(* most once and never changes.  RequestOutcomeRegistry implements it.     *)
(***************************************************************************)
CONSTANTS RequestIds,     \* every identifier a request may get
          TerminalKinds,  \* the outcomes that close a request
          NoOutcome       \* the absence of one

VARIABLES opened,         \* requests ever opened
          pending,        \* requests open now
          resolution,     \* the terminal outcome each request reached
          collected       \* requests whose terminal outcome a caller got

vars == <<opened, pending, resolution, collected>>

Init == /\ opened = {}
        /\ pending = {}
        /\ resolution = [id \in RequestIds |-> NoOutcome]
        /\ collected = {}

Open(id) == /\ id \notin opened
            /\ opened' = opened \cup {id}
            /\ pending' = pending \cup {id}
            /\ UNCHANGED <<resolution, collected>>

\* The target never accepted the request, or nobody can tell whether it did.
Withdraw(id) == /\ id \in pending
                /\ pending' = pending \ {id}
                /\ UNCHANGED <<opened, resolution, collected>>

\* The outcome goes straight to a parked caller or is kept for a later one.
Resolve(id, kind) == /\ id \in pending
                     /\ resolution[id] = NoOutcome
                     /\ pending' = pending \ {id}
                     /\ resolution' = [resolution EXCEPT ![id] = kind]
                     /\ collected' \in {collected, collected \cup {id}}
                     /\ UNCHANGED opened

Collect(id) == /\ resolution[id] # NoOutcome
               /\ id \notin collected
               /\ collected' = collected \cup {id}
               /\ UNCHANGED <<opened, pending, resolution>>

Next == \E id \in RequestIds : \/ Open(id)
                               \/ Withdraw(id)
                               \/ \E kind \in TerminalKinds : Resolve(id, kind)
                               \/ Collect(id)

Spec == Init /\ [][Next]_vars
=============================================================================
