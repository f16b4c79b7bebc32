----------------------------- MODULE SendPromise -----------------------------
(***************************************************************************)
(* What a sender may believe about the messages it sent, whichever surface *)
(* it used and however many hops lay between: a message is taken by its    *)
(* target at most once; "accepted" is said only of a message that was      *)
(* taken; after "denied" it is never taken; only "unknown" leaves it open. *)
(* ClientCall implements it.                                               *)
(***************************************************************************)
CONSTANT Sends            \* one element per message and recipient

VARIABLES taken,          \* sends whose target has the message
          told            \* what the sender was told of each

vars == <<taken, told>>

Words == {"nothing", "accepted", "denied", "unknown"}

Init == /\ taken = {}
        /\ told = [s \in Sends |-> "nothing"]

Take(s) == /\ s \notin taken
           /\ told[s] \in {"nothing", "unknown"}
           /\ taken' = taken \cup {s}
           /\ UNCHANGED told

\* What may be said of s now.
Truthful(s, word) == CASE word = "accepted" -> s \in taken
                       [] word = "denied" -> s \notin taken
                       [] OTHER -> TRUE

\* One answer may speak of several recipients.
Tell == /\ told' \in [Sends -> Words]
        /\ \A s \in Sends : \/ told'[s] = told[s]
                            \/ told[s] = "nothing" /\ Truthful(s, told'[s])
        /\ UNCHANGED taken

Next == Tell \/ \E s \in Sends : Take(s)

Spec == Init /\ [][Next]_vars
=============================================================================
