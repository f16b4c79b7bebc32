----------------------------- MODULE CommandForm -----------------------------
(***************************************************************************)
(* The form of a message on its way from the caller to the target: which   *)
(* messages a caller's own checks take, what is then sent of the list of   *)
(* instructions, and which of the checks along the way refuse it.  Sizes   *)
(* are those of the compact JSON payload; the caller does not know the     *)
(* origin its source will add, so it leaves room for the worst one.        *)
(*   sdk/*-operation.ts, cli/commands/{member-message,durable-message,     *)
(*   member-request,ask}.ts, domain/message-payload.ts                     *)
(***************************************************************************)
EXTENDS Naturals

CONSTANTS Limit,          \* MAX_MESSAGE_PAYLOAD_BYTES
          WorstOrigin,    \* the size of an origin of two fields of control characters
          Origins         \* the sizes of the origins that Members have

ASSUME FormAssumption == /\ Limit \in Nat /\ WorstOrigin \in Nat
                         /\ Origins \subseteq 0..WorstOrigin

\* "edged": an instruction with blanks around it; "bad": blank, too long, NUL, or
\* too many of them.
Written == [text : {"ok", "bad"}, list : {"none", "empty", "ok", "edged", "bad"}, size : Nat]

\* As a bug would have it: the message alone is measured.
FitsAlone(w) == w.size <= Limit

\* fitsAggregatePayload and its copies in the other operations.
Fits(w) == w.size + WorstOrigin <= Limit

\* areInstructionsValid (an Inbox message) and validateInstructions (the others).
TrimmedList(w) == w.list \notin {"edged", "bad"}
AnyList(w) == w.list # "bad"

\* The checks of the SDK operations, which the CLI uses too.
FollowUpTakes(w) == w.text = "ok" /\ AnyList(w) /\ Fits(w)
RedirectTakes(w) == w.text = "ok" /\ AnyList(w) /\ Fits(w)
InboxTakes(w) == w.text = "ok" /\ TrimmedList(w) /\ Fits(w)
BroadcastTakes(w) == w.text = "ok" /\ AnyList(w) /\ Fits(w)
AskTakes(w) == w.text = "ok" /\ AnyList(w) /\ Fits(w)
OperationTakes(op, w) == CASE op = "follow-up" -> FollowUpTakes(w)
                           [] op = "redirect"  -> RedirectTakes(w)
                           [] op = "inbox"     -> InboxTakes(w)
                           [] op = "broadcast" -> BroadcastTakes(w)
                           [] op = "ask"       -> AskTakes(w)

\* The CLI's own checks come first.
MessageCommandTakes(w) == w.text = "ok" /\ TrimmedList(w)
DurableCommandTakes(w) == w.text = "ok" /\ TrimmedList(w)
AskCommandTakes(w) == w.text = "ok"
CommandTakes(op, w) == CASE op \in {"follow-up", "redirect"}  -> MessageCommandTakes(w)
                         [] op \in {"inbox", "broadcast"}     -> DurableCommandTakes(w)
                         [] op = "ask"                        -> AskCommandTakes(w)

CallerTakes(op, via, w) == /\ via = "cli" => CommandTakes(op, w)
                           /\ OperationTakes(op, w)

\* The CLI has an empty list where no instruction was given.
CliList(via, w) == IF via = "cli" /\ w.list = "none" THEN "empty" ELSE w.list

\* An empty list is left out, or it is sent as it is.
SendsEmptyList(op, via) == \/ op = "ask"
                           \/ op = "inbox" /\ via # "cli"
                           \/ op = "broadcast" /\ via = "local"
Sent(op, via, w) ==
  IF CliList(via, w) = "empty"
    THEN [w EXCEPT !.list = IF SendsEmptyList(op, via) THEN "empty" ELSE "none"]
    ELSE w

\* MessageInstructionsSchema wants an instruction in a list; isMessagePayload
\* checks the schema again and then the size, with the origin added.
ListReads(s) == s.list # "empty"
PayloadReads(s, origin) == ListReads(s) /\ s.size + origin <= Limit

\* What is wrong with a message that was sent.
Flaw(s, origin) == IF ~ListReads(s) THEN "empty-list"
                   ELSE IF ~PayloadReads(s, origin) THEN "too-large"
                   ELSE "none"
=============================================================================
