-------------------------- MODULE MCControlRuntime --------------------------
(* Interrupts and idle waits are answered by the same control server and     *)
(* share no state: TLC explores the one or the other.  One sender interrupts *)
(* twice, the other once.                                                    *)
EXTENDS InterruptFlow, IdleWait, TLC

CONSTANTS mia, noa

TwoSenders == {mia, noa}
ThreeCalls == {<<mia, 1>>, <<mia, 2>>, <<noa, 1>>}

VARIABLE part

Init == part \in {"interrupts", "waits"} /\ InterruptInit /\ IdleWaitInit /\ (part = "waits" => ~busy)

Interrupting == part = "interrupts" /\ InterruptNext /\ UNCHANGED <<part, idleVars>>
Waiting == part = "waits" /\ IdleWaitNext /\ UNCHANGED <<part, interruptVars>>

Next == Interrupting \/ Waiting
Spec == Init /\ [][Next]_<<part, interruptVars, idleVars>>

Sym == Permutations(Sessions)

\* The result a wait ended with is read by no action: IdleWasTrue looks at it in the step
\* that sets it.  States that differ in it alone are one.
Unanswered == [r \in Reqs |-> [wait[r] EXCEPT !.result = None]]
View ==
  IF part = "interrupts" THEN <<part, interruptVars>>
  ELSE <<part, sessionVars, piVars, subs, Unanswered, link, counters>>
=============================================================================
