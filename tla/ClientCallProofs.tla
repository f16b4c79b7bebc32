--------------------------- MODULE ClientCallProofs ---------------------------
(***************************************************************************)
(* For any callers, Members, kinds of calls and losses on either hop: each *)
(* endpoint's sends run one at a time and in order, a call that was        *)
(* cancelled before its turn writes nothing, the checks of a message's     *)
(* form on its way agree, and what a caller is told of a message is what   *)
(* SendPromise lets it believe.                                            *)
(*                                                                         *)
(* Basic is what every step keeps of a call of its own: a call that has    *)
(* not begun left no trace, a started one has recipients, a job that waits *)
(* stands in its endpoint's line.  OneAtATime needs the lines themselves   *)
(* (LineInv), the form checks need what the caller made sure of before it  *)
(* sent (Formed), and the promise needs the way an answer takes: what the  *)
(* target did, what the hop reported of it, what the source answered, what *)
(* the caller was told (TruthInv).                                         *)
(***************************************************************************)
EXTENDS ClientCall, Integers, TLAPS

-----------------------------------------------------------------------------
(* Lines and lists of recipients are sequences without repetitions.         *)

LEMMA TailOf ==
  ASSUME NEW S, NEW q \in Seq(S), q # <<>>, IsInjective(q)
  PROVE  /\ Head(q) \in Range(q) /\ Range(q) \subseteq S
         /\ Tail(q) \in Seq(S) /\ IsInjective(Tail(q))
         /\ Len(Tail(q)) = Len(q) - 1
         /\ Range(Tail(q)) = Range(q) \ {Head(q)}
<1>1. /\ Len(q) \in Nat /\ Len(q) > 0 /\ DOMAIN q = 1..Len(q) /\ Head(q) = q[1]
      /\ \A i \in 1..Len(q) : q[i] \in S
  OBVIOUS
<1>2. /\ Tail(q) \in Seq(S) /\ Len(Tail(q)) = Len(q) - 1
      /\ \A i \in 1..Len(q)-1 : Tail(q)[i] = q[i + 1]
  BY <1>1
<1>3. DOMAIN Tail(q) = 1..Len(q)-1
  BY <1>2
<1>4. \A i, j \in 1..Len(q) : q[i] = q[j] => i = j
  BY <1>1 DEF IsInjective
<1>5. IsInjective(Tail(q))
  BY <1>1, <1>2, <1>3, <1>4 DEF IsInjective
<1>6. Head(q) \in Range(q) /\ Range(q) \subseteq S
  BY <1>1 DEF Range
<1>7. ASSUME NEW x \in Range(Tail(q)) PROVE x \in Range(q) \ {Head(q)}
  <2>1. PICK i \in 1..Len(q)-1 : x = Tail(q)[i]
    BY <1>3 DEF Range
  <2>2. i + 1 \in 1..Len(q) /\ x = q[i + 1] /\ i + 1 # 1
    BY <1>1, <1>2, <2>1
  <2>3. QED
    BY <1>1, <1>4, <2>2 DEF Range
<1>8. ASSUME NEW x \in Range(q) \ {Head(q)} PROVE x \in Range(Tail(q))
  <2>1. PICK i \in 1..Len(q) : x = q[i]
    BY <1>1 DEF Range
  <2>2. i # 1 /\ i - 1 \in 1..Len(q)-1
    BY <1>1, <2>1
  <2>3. Tail(q)[i - 1] = x
    BY <1>2, <2>1, <2>2
  <2>4. QED
    BY <1>3, <2>2, <2>3 DEF Range
<1>9. QED
  BY <1>2, <1>5, <1>6, <1>7, <1>8

LEMMA AppendTo ==
  ASSUME NEW S, NEW q \in Seq(S), NEW x \in S, x \notin Range(q), IsInjective(q)
  PROVE  /\ Append(q, x) \in Seq(S) /\ Append(q, x) # <<>> /\ IsInjective(Append(q, x))
         /\ Range(Append(q, x)) = Range(q) \cup {x}
         /\ Head(Append(q, x)) = IF q = <<>> THEN x ELSE Head(q)
<1> DEFINE a == Append(q, x)
<1>1. /\ Len(q) \in Nat /\ DOMAIN q = 1..Len(q)
      /\ a \in Seq(S) /\ Len(a) = Len(q) + 1 /\ DOMAIN a = 1..Len(q)+1
      /\ \A i \in 1..Len(q) : a[i] = q[i]
      /\ a[Len(q)+1] = x
  OBVIOUS
<1>2. Head(a) = a[1]
  BY <1>1
<1> HIDE DEF a
<1>3. \A i \in 1..Len(q) : q[i] # x
  BY <1>1 DEF Range
<1>4. IsInjective(a)
  BY <1>1, <1>3 DEF IsInjective
<1>5. ASSUME NEW y \in Range(a) PROVE y \in Range(q) \cup {x}
  <2>1. PICK i \in 1..Len(q)+1 : y = a[i]
    BY <1>1 DEF Range
  <2>2. QED
    BY <1>1, <2>1 DEF Range
<1>6. ASSUME NEW y \in Range(q) \cup {x} PROVE y \in Range(a)
  <2>1. CASE y = x
    BY <1>1, <2>1 DEF Range
  <2>2. CASE y \in Range(q)
    <3>1. PICK i \in 1..Len(q) : y = q[i]
      BY <1>1, <2>2 DEF Range
    <3>2. QED
      BY <1>1, <3>1 DEF Range
  <2>3. QED
    BY <2>1, <2>2
<1>7. Head(a) = IF q = <<>> THEN x ELSE Head(q)
  BY <1>1, <1>2
<1>8. a # <<>>
  BY <1>1
<1>9. QED
  BY <1>1, <1>4, <1>5, <1>6, <1>7, <1>8 DEF a

LEMMA AloneIn ==
  ASSUME NEW S, NEW x \in S
  PROVE  /\ <<x>> \in Seq(S) /\ <<x>> # <<>> /\ IsInjective(<<x>>) /\ Range(<<x>>) = {x}
         /\ Len(<<x>>) = 1 /\ Head(<<x>>) = x
<1>1. DOMAIN <<x>> = {1} /\ <<x>>[1] = x
  OBVIOUS
<1>2. IsInjective(<<x>>) /\ Range(<<x>>) = {x}
  BY <1>1 DEF IsInjective, Range
<1>3. QED
  BY <1>2

LEMMA MoreThanOne ==
  ASSUME NEW S, NEW q \in Seq(S), q # <<>>, Len(q) # 1
  PROVE  Len(q) \in Nat /\ Len(q) > 1 /\ Tail(q) # <<>>
<1>1. PICK n \in Nat : n = Len(q) /\ n # 0
  OBVIOUS
<1>2. n # 1
  BY <1>1
<1>3. n > 1 /\ n - 1 # 0
  BY <1>1, <1>2
<1>4. Len(Tail(q)) = n - 1
  BY <1>1
<1>5. Tail(q) # <<>>
  BY <1>3, <1>4
<1>6. QED
  BY <1>1, <1>3, <1>5

LEMMA NoneIn == IsInjective(<<>>) /\ Range(<<>>) = {} /\ Len(<<>>) = 0
<1>1. DOMAIN <<>> = {}
  OBVIOUS
<1>2. QED
  BY <1>1 DEF IsInjective, Range

-----------------------------------------------------------------------------
(* Types.                                                                   *)

Clients == {"idle", "dialing", "waiting", "done", "gone"}
NoKind == <<"none", "none">>

CallerTypes ==
  /\ kind = [c \in Calls |-> kind[c]] /\ \A c \in Calls : kind[c] \in Kinds[c] \cup {NoKind}
  /\ flaw \in [Calls -> {"none", "empty-list", "too-large"}]
  /\ client \in [Calls -> Clients]
  /\ told = [c \in Calls |-> told[c]]
HopTypes ==
  /\ asked \subseteq Calls
  /\ answer \in [Calls -> [Members -> Codes]]
  /\ wire \subseteq Calls \X Members
  /\ reply \in [Calls -> {"none", "taken", "refused", "ended"}]
  /\ taken \in [Calls -> [Members -> Nat]]
WorkTypes ==
  /\ job \in [Calls -> Stages]
  /\ left \in [Calls -> Seq(Members)]
  /\ signal \in [Calls -> {"live", "aborted", "expired"}]
  /\ report \in [Calls -> [Members -> Codes]]
  /\ queue \in [Members -> Seq(Calls)]
CallTypes == CallerTypes /\ HopTypes /\ WorkTypes

LEMMA CallTypesInitially == CallInit => CallTypes
<1>1. SUFFICES ASSUME CallInit PROVE CallTypes
  OBVIOUS
<1>2. Nothing \in [Members -> Codes]
  BY DEF Nothing, Codes
<1>3. QED
  BY <1>1, <1>2
  DEF CallInit, CallTypes, CallerTypes, HopTypes, WorkTypes, Clients, Stages, NoKind

\* A step of one call, and of a target that reads for it.
Acts(c) ==
  \/ Start(c) \/ Refuse(c) \/ CallStep(c)
  \/ \E why \in {"abort", "timeout"} : GiveUp(c, why)
  \/ \E why \in {"aborted", "expired"} : LocalGiveUp(c, why)
  \/ \E m \in Members : TargetReads(c, m)

LEMMA StepsOf ==
  ASSUME [Next]_callVars
  PROVE  \/ \E c \in Calls : Acts(c)
         \/ \E m \in Members : TargetExit(m) \/ TargetStart(m)
         \/ SourceExit \/ SourceStart \/ UNCHANGED callVars
  BY Zenon DEF Next, Acts

\* What a call is about: nothing of it changes.
Same(c) ==
  /\ kind'[c] = kind[c] /\ flaw'[c] = flaw[c] /\ client'[c] = client[c] /\ told'[c] = told[c]
  /\ c \in asked' <=> c \in asked
  /\ answer'[c] = answer[c] /\ reply'[c] = reply[c] /\ taken'[c] = taken[c]
  /\ \A m \in Members : <<c, m>> \in wire' <=> <<c, m>> \in wire
  /\ job'[c] = job[c] /\ left'[c] = left[c] /\ signal'[c] = signal[c] /\ report'[c] = report[c]

LEMMA Ending ==
  ASSUME CallTypes, NEW c \in Calls, NEW codes, Ends(c, codes),
         NEW d \in Calls \ {c}
  PROVE  /\ job'[d] = job[d] /\ left'[d] = left[d] /\ report'[d] = report[d]
         /\ answer'[d] = answer[d] /\ client'[d] = client[d] /\ told'[d] = told[d]
  BY DEF Ends, TellsLocal, Tells, CallTypes, CallerTypes, HopTypes, WorkTypes

LEMMA Hopping ==
  ASSUME CallTypes, NEW c \in Calls, NEW code, Served(c, code),
         NEW d \in Calls \ {c}
  PROVE  /\ job'[d] = job[d] /\ left'[d] = left[d] /\ report'[d] = report[d]
         /\ answer'[d] = answer[d] /\ client'[d] = client[d] /\ told'[d] = told[d]
<1> DEFINE codes == [report[c] EXCEPT ![Head(left[c])] = code]
<1>1. CASE Len(left[c]) = 1
  <2>1. Ends(c, codes)
    BY <1>1 DEF Served
  <2>2. QED
    BY <2>1, Ending
<1>2. CASE Len(left[c]) # 1
  BY <1>2 DEF Served, CallTypes, WorkTypes
<1>3. QED
  BY <1>1, <1>2

LEMMA OthersSame ==
  ASSUME CallTypes, NEW c \in Calls, Acts(c), NEW d \in Calls \ {c}
  PROVE  Same(d)
<1> USE DEF CallTypes, CallerTypes, HopTypes, WorkTypes
<1> DEFINE Worked == /\ job'[d] = job[d] /\ left'[d] = left[d] /\ report'[d] = report[d]
                     /\ answer'[d] = answer[d] /\ client'[d] = client[d] /\ told'[d] = told[d]
<1>1. ASSUME NEW codes, Ends(c, codes) PROVE Worked
  BY <1>1, Ending
<1>2. ASSUME NEW end, HopEnds(c, end) PROVE Worked /\ reply'[d] = reply[d]
  BY <1>2, Hopping DEF HopEnds
<1>3. ASSUME NEW words, Tells(c, words) PROVE client'[d] = client[d] /\ told'[d] = told[d]
  BY <1>3 DEF Tells
<1>4. ASSUME HopStarts(c) PROVE Worked /\ reply'[d] = reply[d]
  BY <1>2, <1>4 DEF HopStarts
<1> HIDE DEF Worked
<1>5. CASE Start(c)
  BY <1>5 DEF Start, Same, firstHop, secondHop, processes
<1>6. CASE Refuse(c)
  BY <1>6 DEF Refuse, Same, firstHop, secondHop, processes, jobVars
<1>7. CASE Dial(c) \/ DialFails(c) \/ SeeEnd(c) \/ Receive(c)
  BY <1>3, <1>7
  DEF Dial, DialFails, SeeEnd, Receive, Same, firstHop, secondHop, processes, jobVars
<1>8. CASE \E why \in {"abort", "timeout"} : GiveUp(c, why)
  BY <1>3, <1>8 DEF GiveUp, Same, firstHop, secondHop, processes, jobVars
<1>9. CASE ReadRequest(c) \/ Begin(c)
  BY <1>1, <1>9 DEF ReadRequest, Begin, Same, secondHop, processes, Worked
<1>10. CASE Resolved(c) \/ RunQueued(c)
  BY <1>4, <1>10 DEF Resolved, RunQueued, Same, processes, Worked
<1>11. CASE HopDials(c)
  BY <1>2, <1>11 DEF HopDials, Same, processes, Worked
<1>12. CASE HopTimeout(c) \/ HopAnswered(c)
  BY <1>2, <1>12 DEF HopTimeout, HopAnswered, Same, processes, Worked
<1>13. ASSUME NEW why, Cancel(c, why) PROVE Same(d)
  <2>1. Worked /\ reply'[d] = reply[d]
    <3>1. CASE job[c] \in {"dialing", "sent"}
      BY <1>2, <1>13, <3>1 DEF Cancel
    <3>2. CASE job[c] \notin {"dialing", "sent"}
      BY <1>3, <1>13, <3>2 DEF Cancel, Worked
    <3>3. QED
      BY <3>1, <3>2
  <2>2. QED
    BY <1>13, <2>1 DEF Cancel, Same, processes, Worked
<1>14. CASE NoticeClose(c) \/ \E why \in {"aborted", "expired"} : LocalGiveUp(c, why)
  BY <1>13, <1>14 DEF NoticeClose, LocalGiveUp
<1>15. CASE StoreOpened(c) \/ Persist(c) \/ Hinted(c)
  BY <1>1, <1>15 DEF StoreOpened, Persist, Hinted, Same, secondHop, processes, Worked
<1>16. CASE \E m \in Members : TargetReads(c, m)
  BY <1>16 DEF TargetReads, Same, callerVars, firstHop, jobVars, processes
<1>17. QED
  BY <1>5, <1>6, <1>7, <1>8, <1>9, <1>10, <1>11, <1>12, <1>14, <1>15, <1>16 DEF Acts, CallStep

HopWords == {"accepted", "outcome-unknown", "aborted", "timeout", "offline", "remote-error"}

LEMMA CodesOf ==
  ASSUME NEW c
  PROVE  /\ \A end \in HopWords : SourceCode(c, end) \in Codes \ {"pending", "nothing"}
         /\ \A code \in Codes : ToAll(c, code) \in [Members -> Codes]
         /\ \A why \in {"aborted", "timeout", "end"} :
              HopLost(c, why) \in {"outcome-unknown", "aborted", "timeout"}
<1>1. \A end \in HopWords : SourceCode(c, end) \in Codes \ {"pending", "nothing"}
  BY DEF HopWords, SourceCode, FailureCode, MemberMessageErrorCode, Codes
<1>2. \A code \in Codes : ToAll(c, code) \in [Members -> Codes]
  BY DEF Codes, ToAll
<1>3. \A why \in {"aborted", "timeout", "end"} :
        HopLost(c, why) \in {"outcome-unknown", "aborted", "timeout"}
  BY DEF HopLost
<1>4. QED
  BY <1>1, <1>2, <1>3

LEMMA HopEnded ==
  ASSUME CallTypes, NEW c \in Calls, HopTimeout(c) \/ HopAnswered(c)
  PROVE  \E end \in HopWords : HopEnds(c, end)
<1>1. {"timeout", "accepted", "remote-error", HopLost(c, "timeout"), HopLost(c, "end")}
        \subseteq HopWords
  BY CodesOf DEF HopWords
<1>2. CASE HopTimeout(c)
  BY <1>1, <1>2 DEF HopTimeout
<1>3. CASE HopAnswered(c)
  <2>1. reply[c] \in {"taken", "refused", "ended"}
    BY <1>3 DEF HopAnswered, CallTypes, HopTypes
  <2>2. QED
    BY <1>1, <1>3, <2>1 DEF HopAnswered
<1>4. QED
  BY <1>2, <1>3

\* A step of a hop leaves the report alone or ends the hop.
LEMMA HopsEnd ==
  ASSUME CallTypes, NEW c \in Calls,
         \/ Resolved(c) \/ RunQueued(c) \/ HopDials(c) \/ HopTimeout(c) \/ HopAnswered(c)
         \/ NoticeClose(c) \/ \E why \in {"aborted", "expired"} : LocalGiveUp(c, why)
  PROVE  UNCHANGED report \/ \E end \in HopWords : HopEnds(c, end)
<1>1. {"aborted", "offline", HopLost(c, "aborted")} \subseteq HopWords
  BY CodesOf DEF HopWords
<1>2. CASE Resolved(c) \/ RunQueued(c) \/ HopDials(c)
  BY <1>1, <1>2 DEF Resolved, RunQueued, HopDials, HopStarts
<1>3. CASE HopTimeout(c) \/ HopAnswered(c)
  BY <1>3, HopEnded
<1>4. ASSUME NEW why, Cancel(c, why) PROVE UNCHANGED report \/ \E end \in HopWords : HopEnds(c, end)
  BY <1>1, <1>4 DEF Cancel
<1>5. QED
  BY <1>2, <1>3, <1>4 DEF NoticeClose, LocalGiveUp

LEMMA EndsTyped ==
  ASSUME CallTypes, NEW c \in Calls, NEW codes \in [Members -> Codes], Ends(c, codes)
  PROVE  /\ job' \in [Calls -> Stages] /\ left' \in [Calls -> Seq(Members)]
         /\ report' \in [Calls -> [Members -> Codes]] /\ answer' \in [Calls -> [Members -> Codes]]
         /\ client' \in [Calls -> Clients] /\ told' = [d \in Calls |-> told'[d]]
<1>1. job' \in [Calls -> Stages]
  BY DEF CallTypes, WorkTypes, Ends, Stages
<1>2. left' \in [Calls -> Seq(Members)]
  <2>1. <<>> \in Seq(Members)
    OBVIOUS
  <2>2. left' = [left EXCEPT ![c] = <<>>]
    BY DEF Ends
  <2>3. QED
    BY <2>1, <2>2 DEF CallTypes, WorkTypes
<1>3. report' \in [Calls -> [Members -> Codes]] /\ answer' \in [Calls -> [Members -> Codes]]
  BY DEF CallTypes, HopTypes, WorkTypes, Ends
<1>4. client' \in [Calls -> Clients] /\ told' = [d \in Calls |-> told'[d]]
  BY DEF CallTypes, CallerTypes, Ends, TellsLocal, Tells, Clients
<1>5. QED
  BY <1>1, <1>2, <1>3, <1>4

LEMMA ServedTyped ==
  ASSUME CallTypes, NEW c \in Calls, left[c] # <<>>, IsInjective(left[c]), NEW end \in HopWords,
         HopEnds(c, end)
  PROVE  /\ job' \in [Calls -> Stages] /\ left' \in [Calls -> Seq(Members)]
         /\ report' \in [Calls -> [Members -> Codes]] /\ answer' \in [Calls -> [Members -> Codes]]
         /\ client' \in [Calls -> Clients] /\ told' = [d \in Calls |-> told'[d]]
         /\ reply' \in [Calls -> {"none", "taken", "refused", "ended"}]
         /\ queue' \in [Members -> Seq(Calls)]
<1> DEFINE m == Head(left[c])
<1> DEFINE code == SourceCode(c, end)
<1> DEFINE codes == [report[c] EXCEPT ![m] = code]
<1>1. left[c] \in Seq(Members) /\ report[c] \in [Members -> Codes]
  BY DEF CallTypes, WorkTypes
<1>2. m \in Members /\ Tail(left[c]) \in Seq(Members)
  BY <1>1
<1>3. code \in Codes
  BY CodesOf
<1>4. Served(c, code) /\ reply' = [reply EXCEPT ![c] = "none"]
  BY DEF HopEnds
<1> HIDE DEF code
<1>5. codes \in [Members -> Codes]
  BY <1>1, <1>2, <1>3
<1>6. queue' \in [Members -> Seq(Calls)]
  <2>1. queue' = IF Queued(c) THEN Shift(queue, m) ELSE queue
    BY <1>4 DEF Served
  <2>2. queue \in [Members -> Seq(Calls)]
    BY DEF CallTypes, WorkTypes
  <2>3. queue[m] # <<>> => Tail(queue[m]) \in Seq(Calls)
    BY <1>2, <2>2
  <2>4. Shift(queue, m) \in [Members -> Seq(Calls)]
    BY <1>2, <2>2, <2>3 DEF Shift
  <2>5. QED
    BY <2>1, <2>2, <2>4
<1>7. reply' \in [Calls -> {"none", "taken", "refused", "ended"}]
  BY <1>4 DEF CallTypes, HopTypes
<1>8. CASE Len(left[c]) = 1
  <2>1. Ends(c, codes)
    BY <1>4, <1>8 DEF Served
  <2>2. QED
    BY <1>5, <1>6, <1>7, <2>1, EndsTyped
<1>9. CASE Len(left[c]) # 1
  <2>1. /\ job' = [job EXCEPT ![c] = "resolving"] /\ left' = [left EXCEPT ![c] = Tail(left[c])]
        /\ report' = [report EXCEPT ![c] = codes] /\ UNCHANGED <<answer, client, told>>
    BY <1>4, <1>9 DEF Served
  <2> HIDE DEF codes
  <2>2. QED
    BY <1>2, <1>5, <1>6, <1>7, <2>1 DEF CallTypes, CallerTypes, HopTypes, WorkTypes, Stages
<1>10. QED
  BY <1>8, <1>9

-----------------------------------------------------------------------------
(* What holds of every call.                                                *)

\* Nothing is done for a call that was not made, ...
Fresh(c) ==
  client[c] = "idle" =>
    /\ job[c] = "none" /\ c \notin asked /\ signal[c] = "live" /\ left[c] = <<>>
    /\ answer[c] = Nothing /\ report[c] = Nothing

\* ... and one that was made is of a kind it may be.
Known(c) == client[c] # "idle" => kind[c] \in Kinds[c]

\* The source does nothing for a request it has not read.
Entered(c) ==
  /\ client[c] = "dialing" => job[c] = "none" /\ c \notin asked
  /\ c \in asked => job[c] = "none"

\* Recipients that are still to be served are those of whom nothing is reported.
Listed(c) ==
  /\ job[c] # "over" => \A m \in Members : report[c][m] = "pending" <=> m \in Range(left[c])
  /\ IsInjective(left[c])
  /\ Active(c) \/ c \in asked \/ client[c] = "dialing" => left[c] # <<>>
  /\ Op(c) # "broadcast" => Len(left[c]) <= 1
  /\ job[c] \in {"opening", "writing", "hinting"} => Op(c) = "inbox"
  /\ job[c] = "queued" => Queued(c)

\* A signal that has fired stops the hop, and only signals that are watched fire.
Signals(c) ==
  /\ job[c] \in {"dialing", "sent"} => signal[c] = "live"
  /\ ~HasSignal(c) => signal[c] = "live"

Basic(c) == Fresh(c) /\ Known(c) /\ Entered(c) /\ Listed(c) /\ Signals(c)

LEMMA SameBasic ==
  ASSUME NEW c \in Calls, Same(c), Basic(c)
  PROVE  Basic(c)'
  BY DEF Same, Basic, Fresh, Known, Entered, Listed, Signals, Active, HasSignal, Queued,
       Op, Remote, Via, Nothing

LEMMA Addressed ==
  ASSUME NEW k, NEW to \in To(k)
  PROVE  /\ to \in Seq(Members) /\ to # <<>> /\ IsInjective(to)
         /\ k[1] # "broadcast" => Len(to) = 1
<1>1. CASE k[1] = "broadcast"
  BY <1>1, CallAssumption DEF To
<1>2. CASE k[1] # "broadcast"
  <2>1. PICK m \in Members : to = <<m>>
    BY <1>2 DEF To
  <2>2. QED
    BY <1>2, <2>1, AloneIn
<1>3. QED
  BY <1>1, <1>2

\* What a call starts with.
Starts(c, k, w, to, origin) ==
  /\ k[2] = "local" => sourceUp
  /\ CallerTakes(k[1], k[2], w)
  /\ kind' = [kind EXCEPT ![c] = k]
  /\ flaw' = [flaw EXCEPT ![c] = Flaw(Sent(k[1], k[2], w), origin)]
  /\ client' = [client EXCEPT ![c] = IF k[2] = "local" THEN "waiting" ELSE "dialing"]
  /\ job' = [job EXCEPT ![c] = IF k[2] = "local" THEN "begun" ELSE "none"]
  /\ left' = [left EXCEPT ![c] = to]
  /\ report' = [report EXCEPT ![c] =
       [m \in Members |-> IF m \in Range(to) THEN "pending" ELSE "nothing"]]

LEMMA Starting ==
  ASSUME NEW c, Start(c)
  PROVE  \E k \in Kinds[c], w \in Messages[c] : \E to \in To(k), origin \in Origins :
           Starts(c, k, w, to, origin)
<1>1. \E k \in Kinds[c] : \E w \in Messages[c] : \E to \in To(k), origin \in Origins :
        Starts(c, k, w, to, origin)
  BY Zenon DEF Start, Starts
<1>2. QED
  BY <1>1

\* The steps of a call keep the types.
LEMMA ActsTyped ==
  ASSUME CallTypes, NEW c \in Calls, Basic(c), Acts(c)
  PROVE  CallTypes'
<1> DEFINE Worked == /\ job' \in [Calls -> Stages] /\ left' \in [Calls -> Seq(Members)]
                     /\ report' \in [Calls -> [Members -> Codes]]
                     /\ answer' \in [Calls -> [Members -> Codes]]
                     /\ client' \in [Calls -> Clients] /\ told' = [d \in Calls |-> told'[d]]
<1> DEFINE Replying == reply' \in [Calls -> {"none", "taken", "refused", "ended"}]
<1> DEFINE Lined == queue' \in [Members -> Seq(Calls)]
<1>1. ASSUME NEW codes \in [Members -> Codes], Ends(c, codes) PROVE Worked
  BY <1>1, EndsTyped
<1>2. ASSUME Active(c), NEW end \in HopWords, HopEnds(c, end) PROVE Worked /\ Replying /\ Lined
  BY <1>2, ServedTyped DEF Basic, Listed
<1>3. ASSUME NEW words, Tells(c, words)
      PROVE  client' \in [Calls -> Clients] /\ told' = [d \in Calls |-> told'[d]]
  BY <1>3 DEF Tells, CallTypes, CallerTypes, Clients
<1>4. ASSUME Active(c), HopStarts(c) PROVE Worked /\ Replying /\ Lined
  <2>1. "aborted" \in HopWords
    BY DEF HopWords
  <2>2. CASE HopEnds(c, "aborted")
    BY <1>2, <1>4, <2>1, <2>2
  <2>3. CASE /\ job' = [job EXCEPT ![c] = "dialing"]
             /\ UNCHANGED <<client, told, answer, left, report, queue, reply>>
    BY <2>3 DEF CallTypes, CallerTypes, HopTypes, WorkTypes, Stages
  <2>4. QED
    BY <1>4, <2>2, <2>3 DEF HopStarts
<1>5. ASSUME UNCHANGED <<client, told, answer, left, report>>, NEW stage \in Stages,
             job' = [job EXCEPT ![c] = stage]
      PROVE  Worked
  BY <1>5 DEF CallTypes, CallerTypes, HopTypes, WorkTypes
<1>6. Active(c) => left[c] \in Seq(Members) /\ left[c] # <<>> /\ Head(left[c]) \in Members
  <2>1. Active(c) => left[c] \in Seq(Members) /\ left[c] # <<>>
    BY DEF Basic, Listed, CallTypes, WorkTypes
  <2>2. QED
    BY <2>1
<1> DEFINE Rest == /\ kind' = [d \in Calls |-> kind'[d]]
                   /\ \A d \in Calls : kind'[d] \in Kinds[d] \cup {NoKind}
                   /\ flaw' \in [Calls -> {"none", "empty-list", "too-large"}]
                   /\ asked' \subseteq Calls /\ wire' \subseteq Calls \X Members
                   /\ taken' \in [Calls -> [Members -> Nat]]
                   /\ signal' \in [Calls -> {"live", "aborted", "expired"}]
<1>7. Worked /\ Replying /\ Lined /\ Rest => CallTypes'
  BY DEF CallTypes, CallerTypes, HopTypes, WorkTypes
<1>8. UNCHANGED <<job, left, report, answer, client, told>> => Worked
  BY DEF CallTypes, CallerTypes, HopTypes, WorkTypes
<1>9. (UNCHANGED reply => Replying) /\ (UNCHANGED queue => Lined)
  BY DEF CallTypes, HopTypes, WorkTypes
<1>10. /\ UNCHANGED <<kind, flaw, asked, wire, taken, signal>> => Rest
  BY DEF CallTypes, CallerTypes, HopTypes, WorkTypes
<1> HIDE DEF Worked, Replying, Lined, Rest
<1>11. CASE Start(c)
  <2>9. PICK k \in Kinds[c], w \in Messages[c] : \E to \in To(k), origin \in Origins :
          Starts(c, k, w, to, origin)
    BY <1>11, Starting
  <2>1. PICK to \in To(k), origin \in Origins : Starts(c, k, w, to, origin)
    BY <2>9
  <2>2. to \in Seq(Members)
    BY Addressed
  <2>3. Flaw(Sent(k[1], k[2], w), origin) \in {"none", "empty-list", "too-large"}
    BY DEF Flaw
  <2>4. UNCHANGED <<told, answer, asked, wire, taken, signal, reply, queue>>
    BY <1>11 DEF Start, firstHop, secondHop
  <2>5. Worked
    BY <2>1, <2>2, <2>4
    DEF Starts, Worked, CallTypes, CallerTypes, HopTypes, WorkTypes, Clients, Stages, Codes
  <2>6. Rest
    BY <2>1, <2>3, <2>4 DEF Starts, Rest, CallTypes, CallerTypes, HopTypes, WorkTypes
  <2>7. QED
    BY <1>7, <1>9, <2>4, <2>5, <2>6
<1>12. CASE Refuse(c)
  <2>1. /\ \E k \in Kinds[c] : kind' = [kind EXCEPT ![c] = k]
        /\ client' = [client EXCEPT ![c] = "done"]
        /\ \E words : told' = [told EXCEPT ![c] = words]
    BY <1>12, Zenon DEF Refuse
  <2>2. UNCHANGED <<flaw, answer, asked, job, left, report, wire, taken, signal, reply, queue>>
    BY <1>12 DEF Refuse, firstHop, secondHop, jobVars
  <2>3. Worked
    BY <2>1, <2>2 DEF Worked, CallTypes, CallerTypes, HopTypes, WorkTypes, Clients
  <2>4. Rest
    BY <2>1, <2>2 DEF Rest, CallTypes, CallerTypes, HopTypes, WorkTypes
  <2>5. QED
    BY <1>7, <1>9, <2>2, <2>3, <2>4
<1>13. CASE Dial(c)
  <2>1. Worked
    BY <1>13 DEF Dial, jobVars, Worked, CallTypes, CallerTypes, HopTypes, WorkTypes, Clients
  <2>2. Rest
    BY <1>13 DEF Dial, jobVars, secondHop, Rest, CallTypes, CallerTypes, HopTypes, WorkTypes
  <2>3. QED
    BY <1>7, <1>9, <1>13, <2>1, <2>2 DEF Dial, jobVars, secondHop
<1>14. ASSUME \/ DialFails(c) \/ SeeEnd(c) \/ Receive(c)
              \/ \E why \in {"abort", "timeout"} : GiveUp(c, why)
       PROVE  CallTypes'
  <2>1. UNCHANGED <<client, told>> \/ \E words : Tells(c, words)
    BY <1>14 DEF DialFails, SeeEnd, Receive, GiveUp
  <2>2. UNCHANGED <<kind, flaw, asked, wire, taken, signal, job, left, report, answer, reply, queue>>
    BY <1>14 DEF DialFails, SeeEnd, Receive, GiveUp, firstHop, secondHop, jobVars
  <2>3. Worked
    BY <1>3, <2>1, <2>2 DEF Worked, CallTypes, CallerTypes, HopTypes, WorkTypes
  <2>4. QED
    BY <1>7, <1>9, <1>10, <2>2, <2>3
<1>15. CASE ReadRequest(c)
  <2>1. ToAll(c, "invalid-params") \in [Members -> Codes] /\ "begun" \in Stages
    BY CodesOf DEF Codes, Stages
  <2>2. Worked
    BY <1>1, <1>5, <1>15, <2>1 DEF ReadRequest
  <2>3. Rest
    BY <1>15 DEF ReadRequest, secondHop, Rest, CallTypes, CallerTypes, HopTypes, WorkTypes
  <2>4. QED
    BY <1>7, <1>9, <1>15, <2>2, <2>3 DEF ReadRequest, secondHop
<1>16. CASE Begin(c) \/ StoreOpened(c) \/ Hinted(c)
  <2>1. /\ \A code \in {"not-joined", "invalid-payload", "aborted", "storage-failed", "accepted"} :
             ToAll(c, code) \in [Members -> Codes]
        /\ {"opening", "resolving", "writing"} \subseteq Stages
    BY CodesOf DEF Codes, Stages
  <2>2. Worked
    BY <1>1, <1>5, <1>16, <2>1 DEF Begin, StoreOpened, Hinted
  <2>3. UNCHANGED <<kind, flaw, asked, wire, taken, signal, reply, queue>>
    BY <1>16 DEF Begin, StoreOpened, Hinted, secondHop
  <2>4. QED
    BY <1>7, <1>9, <1>10, <2>2, <2>3
<1>17. CASE Persist(c)
  <2>1. ToAll(c, "storage-failed") \in [Members -> Codes] /\ "hinting" \in Stages
    BY CodesOf DEF Codes, Stages
  <2>2. Active(c)
    BY <1>17 DEF Persist, Active
  <2>3. Worked
    BY <1>1, <1>5, <1>17, <2>1 DEF Persist
  <2>4. UNCHANGED <<kind, flaw, asked, wire, signal, reply, queue>>
    BY <1>17 DEF Persist, secondHop
  <2>5. taken' \in [Calls -> [Members -> Nat]]
    <3> DEFINE m == Head(left[c])
    <3>1. m \in Members /\ taken[c] \in [Members -> Nat]
      BY <1>6, <2>2 DEF CallTypes, HopTypes
    <3>2. \/ taken' = [taken EXCEPT ![c] = [taken[c] EXCEPT ![m] = taken[c][m] + 1]]
          \/ taken' = taken
      BY <1>17 DEF Persist
    <3> HIDE DEF m
    <3>3. [taken[c] EXCEPT ![m] = taken[c][m] + 1] \in [Members -> Nat]
      BY <3>1
    <3>4. QED
      BY <3>2, <3>3 DEF CallTypes, HopTypes
  <2>6. Rest
    BY <2>4, <2>5 DEF Rest, CallTypes, CallerTypes, HopTypes, WorkTypes
  <2>7. QED
    BY <1>7, <1>9, <2>3, <2>4, <2>6
<1>18. CASE Resolved(c) \/ RunQueued(c)
  <2>1. Active(c)
    BY <1>18 DEF Resolved, RunQueued, Active
  <2>2. UNCHANGED <<kind, flaw, asked, wire, taken, signal>>
    BY <1>18 DEF Resolved, RunQueued
  <2>3. CASE HopStarts(c)
    BY <1>4, <1>7, <1>10, <2>1, <2>2, <2>3
  <2>4. CASE /\ job' = [job EXCEPT ![c] = "queued"]
             /\ queue' = [queue EXCEPT ![Head(left[c])] = Append(@, c)]
             /\ UNCHANGED <<client, told, answer, left, report, reply>>
    <3>1. Worked
      BY <1>5, <2>4 DEF Stages
    <3>2. Lined
      <4>1. Append(queue[Head(left[c])], c) \in Seq(Calls)
        BY <1>6, <2>1 DEF CallTypes, WorkTypes
      <4>2. QED
        BY <2>4, <4>1 DEF Lined, CallTypes, WorkTypes
    <3>3. QED
      BY <1>7, <1>9, <1>10, <2>2, <2>4, <3>1, <3>2
  <2>5. QED
    BY <1>18, <2>3, <2>4 DEF Resolved, RunQueued
<1>19. CASE HopDials(c)
  <2>1. Active(c) /\ "offline" \in HopWords
    BY <1>19 DEF HopDials, Active, HopWords
  <2>2. Worked /\ Replying /\ Lined
    BY <1>2, <1>5, <1>9, <1>19, <2>1 DEF HopDials, Stages
  <2>3. Rest
    BY <1>6, <1>19, <2>1 DEF HopDials, processes, Rest, CallTypes, CallerTypes, HopTypes,
         WorkTypes
  <2>4. QED
    BY <1>7, <2>2, <2>3
<1>20. CASE HopTimeout(c) \/ HopAnswered(c)
  <2>1. Active(c)
    BY <1>20 DEF HopTimeout, HopAnswered, Active
  <2>2. \E end \in HopWords : HopEnds(c, end)
    BY <1>20, HopEnded
  <2>3. UNCHANGED <<kind, flaw, asked, wire, taken, signal>>
    BY <1>20 DEF HopTimeout, HopAnswered
  <2>4. QED
    BY <1>2, <1>7, <1>10, <2>1, <2>2, <2>3
<1>21. ASSUME Active(c), NEW why \in {"aborted", "expired"}, Cancel(c, why) PROVE CallTypes'
  <2>1. UNCHANGED <<kind, flaw, asked, wire, taken>>
    BY <1>21 DEF Cancel
  <2>2. Rest
    BY <1>21, <2>1 DEF Cancel, Rest, CallTypes, CallerTypes, HopTypes, WorkTypes
  <2>3. CASE job[c] \in {"dialing", "sent"}
    <3>1. {"aborted", HopLost(c, "aborted")} \subseteq HopWords
      BY CodesOf DEF HopWords
    <3>2. \E end \in HopWords : HopEnds(c, end)
      BY <1>21, <2>3, <3>1 DEF Cancel
    <3>3. QED
      BY <1>2, <1>7, <1>21, <2>2, <3>2
  <2>4. CASE job[c] \notin {"dialing", "sent"}
    <3>1. /\ UNCHANGED <<answer, job, left, report, queue, reply>>
          /\ UNCHANGED <<client, told>> \/ \E words : Tells(c, words)
      BY <1>21, <2>4 DEF Cancel
    <3>2. Worked
      BY <1>3, <3>1 DEF Worked, CallTypes, CallerTypes, HopTypes, WorkTypes
    <3>3. QED
      BY <1>7, <1>9, <2>2, <3>1, <3>2
  <2>5. QED
    BY <2>3, <2>4
<1>22. CASE NoticeClose(c) \/ \E why \in {"aborted", "expired"} : LocalGiveUp(c, why)
  BY <1>21, <1>22 DEF NoticeClose, LocalGiveUp
<1>23. CASE \E m \in Members : TargetReads(c, m)
  <2>1. PICK m \in Members : TargetReads(c, m)
    BY <1>23
  <2>2. Rest
    BY <2>1 DEF TargetReads, callerVars, firstHop, jobVars, Rest, CallTypes, CallerTypes,
         HopTypes, WorkTypes
  <2>3. Replying
    BY <2>1 DEF TargetReads, Replying, CallTypes, HopTypes
  <2>4. QED
    BY <1>7, <1>8, <1>9, <2>1, <2>2, <2>3 DEF TargetReads, callerVars, firstHop, jobVars
<1>24. QED
  BY <1>11, <1>12, <1>13, <1>14, <1>15, <1>16, <1>17, <1>18, <1>19, <1>20, <1>22, <1>23
  DEF Acts, CallStep

-----------------------------------------------------------------------------
(* What holds of every call is kept.                                        *)

LEMMA EndsOwn ==
  ASSUME CallTypes, NEW c \in Calls, NEW codes, Ends(c, codes)
  PROVE  /\ job'[c] = "over" /\ left'[c] = <<>> /\ report'[c] = codes
         /\ answer'[c] = IF Remote(c) THEN codes ELSE answer[c]
         /\ \/ /\ ~Remote(c) /\ client[c] = "waiting" /\ client'[c] = "done"
               /\ told'[c] = [m \in Members |-> AskSays(c, LocalSays(c, codes[m]))]
            \/ /\ Remote(c) \/ client[c] # "waiting"
               /\ client'[c] = client[c] /\ told'[c] = told[c]
<1>1. job'[c] = "over" /\ left'[c] = <<>> /\ report'[c] = codes
  BY DEF Ends, CallTypes, WorkTypes
<1>2. answer'[c] = IF Remote(c) THEN codes ELSE answer[c]
  BY DEF Ends, CallTypes, HopTypes
<1>3. CASE ~Remote(c) /\ client[c] = "waiting"
  <2>1. Tells(c, [m \in Members |-> LocalSays(c, codes[m])])
    BY <1>3 DEF Ends, TellsLocal
  <2>2. client' = [client EXCEPT ![c] = "done"]
    BY <2>1 DEF Tells
  <2>3. told' = [told EXCEPT ![c] = [m \in Members |-> AskSays(c, LocalSays(c, codes[m]))]]
    BY <2>1 DEF Tells
  <2>4. client'[c] = "done" /\ told'[c] = [m \in Members |-> AskSays(c, LocalSays(c, codes[m]))]
    BY <2>2, <2>3 DEF CallTypes, CallerTypes
  <2>5. QED
    BY <1>1, <1>2, <1>3, <2>4
<1>4. CASE Remote(c) \/ client[c] # "waiting"
  BY <1>1, <1>2, <1>4 DEF Ends, TellsLocal
<1>5. QED
  BY <1>3, <1>4

\* A hop's end is the end of the job, or a Broadcast goes on.
GoesOn(c, codes) ==
  /\ job'[c] = "resolving" /\ left'[c] = Tail(left[c]) /\ Tail(left[c]) # <<>>
  /\ report'[c] = codes /\ Op(c) = "broadcast"
  /\ answer'[c] = answer[c] /\ client'[c] = client[c] /\ told'[c] = told[c]

Noted(c, end) == [report[c] EXCEPT ![Head(left[c])] = SourceCode(c, end)]

LEMMA ServedOwn ==
  ASSUME CallTypes, NEW c \in Calls, Basic(c), Active(c), NEW end, HopEnds(c, end)
  PROVE  /\ reply'[c] = "none"
         /\ (Ends(c, Noted(c, end)) /\ Len(left[c]) = 1) \/ GoesOn(c, Noted(c, end))
<1>1. Served(c, SourceCode(c, end)) /\ reply' = [reply EXCEPT ![c] = "none"]
  BY DEF HopEnds
<1>2. left[c] \in Seq(Members) /\ left[c] # <<>> /\ IsInjective(left[c])
  BY DEF Basic, Listed, CallTypes, WorkTypes
<1>3. reply'[c] = "none"
  BY <1>1 DEF CallTypes, HopTypes
<1>4. CASE Len(left[c]) = 1
  <2>1. Ends(c, Noted(c, end))
    BY <1>1, <1>4 DEF Served, Noted
  <2>2. QED
    BY <1>3, <1>4, <2>1
<1>5. CASE Len(left[c]) # 1
  <2>1. /\ job' = [job EXCEPT ![c] = "resolving"] /\ left' = [left EXCEPT ![c] = Tail(left[c])]
        /\ report' = [report EXCEPT ![c] = Noted(c, end)] /\ UNCHANGED <<answer, client, told>>
    BY <1>1, <1>5 DEF Served, Noted
  <2>2. Tail(left[c]) # <<>> /\ Op(c) = "broadcast"
    <3>1. Len(left[c]) \in Nat /\ Len(left[c]) > 1 /\ Tail(left[c]) # <<>>
      BY <1>2, <1>5, MoreThanOne
    <3>2. ~(Len(left[c]) <= 1)
      BY <3>1
    <3>3. QED
      BY <3>1, <3>2 DEF Basic, Listed
  <2>3. job'[c] = "resolving" /\ left'[c] = Tail(left[c]) /\ report'[c] = Noted(c, end)
    BY <2>1 DEF CallTypes, WorkTypes
  <2>4. QED
    BY <1>3, <2>1, <2>2, <2>3 DEF GoesOn
<1>6. QED
  BY <1>4, <1>5

LEMMA EndedBasic ==
  ASSUME CallTypes, NEW c \in Calls, Basic(c), NEW codes, Ends(c, codes),
         kind'[c] = kind[c], client[c] \notin {"idle", "dialing"}, c \notin asked',
         signal'[c] = signal[c] \/ HasSignal(c)
  PROVE  Basic(c)'
<1>1. job'[c] = "over" /\ left'[c] = <<>> /\ client'[c] \in {client[c], "done"}
  BY EndsOwn
<1>2. IsInjective(<<>>) /\ Len(<<>>) = 0
  BY NoneIn
<1>3. QED
  BY <1>1, <1>2
  DEF Basic, Fresh, Known, Entered, Listed, Signals, Active, HasSignal, Queued, Op, Remote, Via

LEMMA ServedBasic ==
  ASSUME CallTypes, NEW c \in Calls, Basic(c), Active(c), NEW end \in HopWords, HopEnds(c, end),
         kind'[c] = kind[c], asked' = asked, signal'[c] = signal[c] \/ HasSignal(c)
  PROVE  Basic(c)'
<1>1. client[c] \notin {"idle", "dialing"} /\ c \notin asked
  BY DEF Basic, Fresh, Entered, Active
<1>2. CASE Ends(c, Noted(c, end))
  BY <1>1, <1>2, EndedBasic
<1>3. CASE GoesOn(c, Noted(c, end))
  <2> DEFINE m == Head(left[c])
  <2>1. left[c] \in Seq(Members) /\ left[c] # <<>> /\ IsInjective(left[c])
    BY DEF Basic, Listed, CallTypes, WorkTypes
  <2>2. /\ m \in Members /\ IsInjective(Tail(left[c]))
        /\ Range(Tail(left[c])) = Range(left[c]) \ {m}
    BY <2>1, TailOf
  <2>3. SourceCode(c, end) \notin {"pending", "nothing"}
    BY CodesOf
  <2>4. \A x \in Members : report[c][x] = "pending" <=> x \in Range(left[c])
    BY DEF Basic, Listed, Active
  <2>5. report[c] \in [Members -> Codes]
    BY DEF CallTypes, WorkTypes
  <2>6. report'[c] = [report[c] EXCEPT ![m] = SourceCode(c, end)]
    BY <1>3 DEF GoesOn, Noted
  <2>7. left'[c] = Tail(left[c]) /\ Tail(left[c]) # <<>>
    BY <1>3 DEF GoesOn
  <2> HIDE DEF m
  <2>8. \A x \in Members : report'[c][x] = "pending" <=> x \in Range(left'[c])
    BY <2>2, <2>3, <2>4, <2>5, <2>6, <2>7
  <2>9. Listed(c)'
    BY <1>3, <2>2, <2>7, <2>8 DEF GoesOn, Listed, Op
  <2>10. Fresh(c)' /\ Known(c)' /\ Entered(c)' /\ Signals(c)'
    BY <1>1, <1>3 DEF GoesOn, Basic, Fresh, Known, Entered, Signals, HasSignal, Queued,
         Op, Remote, Via
  <2>11. QED
    BY <2>9, <2>10 DEF Basic
<1>4. QED
  BY <1>2, <1>3, ServedOwn

\* Another stage of the job, or another state of the caller.
LEMMA MovedBasic ==
  ASSUME CallTypes, NEW c \in Calls, Basic(c), kind'[c] = kind[c], asked' = asked,
         left'[c] = left[c], report'[c] = report[c],
         Active(c),
         job'[c] \in Stages \ {"none", "over"},
         job'[c] \in {"opening", "writing", "hinting"} => Op(c) = "inbox",
         job'[c] = "queued" => Queued(c),
         client'[c] \in {client[c], "done"},
         job'[c] \in {"dialing", "sent"} => signal'[c] = "live",
         signal'[c] = signal[c] \/ HasSignal(c)
  PROVE  Basic(c)'
<1>1. client[c] \notin {"idle", "dialing"} /\ c \notin asked
  BY DEF Basic, Fresh, Entered, Active
<1>2. QED
  BY <1>1 DEF Basic, Fresh, Known, Entered, Listed, Signals, Active, HasSignal, Queued,
       Op, Remote, Via

\* A call that is not at work: its caller alone takes a step.
LEMMA CallerBasic ==
  ASSUME CallTypes, NEW c \in Calls, Basic(c), kind'[c] = kind[c],
         c \in asked' <=> c \in asked, signal'[c] = signal[c],
         job'[c] = job[c], left'[c] = left[c], report'[c] = report[c], answer'[c] = answer[c],
         client[c] # "idle", client'[c] \in {client[c], "done"}
  PROVE  Basic(c)'
  BY DEF Basic, Fresh, Known, Entered, Listed, Signals, Active, HasSignal, Queued, Op,
       Remote, Via

LEMMA ActsBasic ==
  ASSUME CallTypes, NEW c \in Calls, Basic(c), Acts(c)
  PROVE  Basic(c)'
<1>1. CASE Start(c)
  <2>1. PICK k \in Kinds[c], w \in Messages[c] : \E to \in To(k), origin \in Origins :
          Starts(c, k, w, to, origin)
    BY <1>1, Starting
  <2>2. PICK to \in To(k), origin \in Origins : Starts(c, k, w, to, origin)
    BY <2>1
  <2>3. /\ kind'[c] = k /\ client'[c] = (IF k[2] = "local" THEN "waiting" ELSE "dialing")
        /\ job'[c] = (IF k[2] = "local" THEN "begun" ELSE "none")
        /\ left'[c] = to
        /\ report'[c] = [m \in Members |-> IF m \in Range(to) THEN "pending" ELSE "nothing"]
    BY <2>2 DEF Starts, CallTypes, CallerTypes, WorkTypes
  <2>4. /\ to # <<>> /\ IsInjective(to)
        /\ k[1] # "broadcast" => Len(to) = 1
    BY Addressed
  <2>5. client[c] = "idle" /\ UNCHANGED <<asked, signal>>
    BY <1>1 DEF Start, firstHop
  <2>6. job[c] = "none" /\ c \notin asked /\ signal[c] = "live"
    BY <2>5 DEF Basic, Fresh
  <2>10. Op(c)' = k[1]
    BY <2>3 DEF Op
  <2>7. Listed(c)'
    <3>1. \A m \in Members : report'[c][m] = "pending" <=> m \in Range(left'[c])
      BY <2>3
    <3>2. Op(c)' # "broadcast" => Len(left'[c]) <= 1
      <4>1. 1 <= 1
        OBVIOUS
      <4>2. Op(c)' # "broadcast" => Len(left'[c]) = 1
        BY <2>3, <2>4, <2>10
      <4>3. QED
        BY <4>1, <4>2
    <3>3. job'[c] \notin {"opening", "writing", "hinting", "queued"}
      BY <2>3
    <3>4. QED
      BY <2>3, <2>4, <3>1, <3>2, <3>3 DEF Listed
  <2>8. Fresh(c)' /\ Known(c)' /\ Entered(c)' /\ Signals(c)'
    BY <2>3, <2>5, <2>6 DEF Fresh, Known, Entered, Signals
  <2>9. QED
    BY <2>7, <2>8 DEF Basic
<1>2. CASE Refuse(c)
  <2>1. PICK k \in Kinds[c] : kind' = [kind EXCEPT ![c] = k] /\ client' = [client EXCEPT ![c] = "done"]
    BY <1>2, Zenon DEF Refuse
  <2>2. kind'[c] = k /\ client'[c] = "done"
    BY <2>1 DEF CallTypes, CallerTypes
  <2>3. client[c] = "idle" /\ UNCHANGED <<asked, job, left, signal, report>>
    BY <1>2 DEF Refuse, firstHop, jobVars
  <2>5. Listed(c)'
    BY <2>2, <2>3, NoneIn DEF Basic, Fresh, Listed, Active, Queued, Op
  <2>6. Fresh(c)' /\ Known(c)' /\ Entered(c)' /\ Signals(c)'
    BY <2>2, <2>3 DEF Basic, Fresh, Known, Entered, Signals
  <2>7. QED
    BY <2>5, <2>6 DEF Basic
<1>3. CASE Dial(c)
  <2>1. client[c] = "dialing" /\ client'[c] = "waiting" /\ c \in asked'
        /\ UNCHANGED <<kind, job, left, signal, report>>
    BY <1>3 DEF Dial, jobVars, CallTypes, CallerTypes
  <2>2. QED
    BY <2>1
    DEF Basic, Fresh, Known, Entered, Listed, Signals, Active, HasSignal, Queued, Op, Remote, Via
<1>4. ASSUME \/ DialFails(c) \/ SeeEnd(c) \/ Receive(c)
             \/ \E why \in {"abort", "timeout"} : GiveUp(c, why)
      PROVE  Basic(c)'
  <2>1. /\ client[c] \in {"dialing", "waiting"}
        /\ UNCHANGED client \/ \E words : Tells(c, words)
        /\ UNCHANGED <<kind, asked, job, left, signal, report, answer>>
    BY <1>4 DEF DialFails, SeeEnd, Receive, GiveUp, firstHop, jobVars
  <2>2. client'[c] \in {client[c], "done"}
    BY <2>1 DEF Tells, CallTypes, CallerTypes
  <2>3. QED
    BY <2>1, <2>2, CallerBasic
<1>5. CASE ReadRequest(c)
  <2>1. /\ c \in asked /\ c \notin asked' /\ UNCHANGED <<kind, signal>>
    BY <1>5 DEF ReadRequest
  <2>2. job[c] = "none" /\ client[c] \notin {"idle", "dialing"} /\ left[c] # <<>>
    BY <2>1 DEF Basic, Fresh, Entered, Listed
  <2>3. CASE Ends(c, ToAll(c, "invalid-params"))
    BY <2>1, <2>2, <2>3, EndedBasic
  <2>4. CASE job' = [job EXCEPT ![c] = "begun"] /\ UNCHANGED <<client, left, report>>
    <3>1. job'[c] = "begun"
      BY <2>4 DEF CallTypes, WorkTypes
    <3>2. QED
      BY <2>1, <2>2, <2>4, <3>1
      DEF Basic, Fresh, Known, Entered, Listed, Signals, Active, HasSignal, Queued, Op, Remote, Via
  <2>5. QED
    BY <1>5, <2>3, <2>4 DEF ReadRequest
<1>6. ASSUME Active(c), UNCHANGED <<kind, asked, signal>>, NEW codes, Ends(c, codes) PROVE Basic(c)'
  <2>1. client[c] \notin {"idle", "dialing"} /\ c \notin asked
    BY <1>6 DEF Basic, Fresh, Entered, Active
  <2>2. QED
    BY <1>6, <2>1, EndedBasic
<1>7. ASSUME Active(c), UNCHANGED <<kind, asked, signal, client, left, report>>,
             NEW stage \in Stages \ {"none", "over"}, job' = [job EXCEPT ![c] = stage],
             stage \in {"opening", "writing", "hinting"} => Op(c) = "inbox",
             stage = "queued" => Queued(c),
             stage \in {"dialing", "sent"} => signal[c] = "live"
      PROVE  Basic(c)'
  <2>1. job'[c] = stage
    BY <1>7 DEF CallTypes, WorkTypes
  <2>2. QED
    BY <1>7, <2>1, MovedBasic
<1>8. ASSUME Active(c), HopStarts(c), UNCHANGED <<kind, asked, signal>> PROVE Basic(c)'
  <2>1. CASE /\ signal[c] = "live"
             /\ job' = [job EXCEPT ![c] = "dialing"] /\ UNCHANGED <<client, left, report>>
    BY <1>7, <1>8, <2>1 DEF Stages
  <2>2. CASE HopEnds(c, "aborted")
    <3>1. "aborted" \in HopWords
      BY DEF HopWords
    <3>2. QED
      BY <1>8, <2>2, <3>1, ServedBasic
  <2>3. ~HasSignal(c) => signal[c] = "live"
    BY DEF Basic, Signals
  <2>4. QED
    BY <1>8, <2>1, <2>2, <2>3 DEF HopStarts
<1>9. CASE Begin(c)
  <2>1. Active(c) /\ UNCHANGED <<kind, asked, signal>>
    BY <1>9 DEF Begin, Active
  <2>2. CASE \E code : Ends(c, ToAll(c, code))
    BY <1>6, <2>1, <2>2
  <2>3. CASE /\ job' = [job EXCEPT ![c] = IF Op(c) = "inbox" THEN "opening" ELSE "resolving"]
             /\ UNCHANGED <<client, left, report>>
    <3>1. CASE Op(c) = "inbox"
      BY <1>7, <2>1, <2>3, <3>1 DEF Stages
    <3>2. CASE Op(c) # "inbox"
      BY <1>7, <2>1, <2>3, <3>2 DEF Stages
    <3>3. QED
      BY <3>1, <3>2
  <2>4. QED
    BY <1>9, <2>2, <2>3 DEF Begin
<1>10. CASE Resolved(c)
  <2>1. Active(c) /\ UNCHANGED <<kind, asked, signal>>
    BY <1>10 DEF Resolved, Active
  <2>2. CASE Queued(c) /\ job' = [job EXCEPT ![c] = "queued"] /\ UNCHANGED <<client, left, report>>
    BY <1>7, <2>1, <2>2 DEF Stages
  <2>3. QED
    BY <1>8, <1>10, <2>1, <2>2 DEF Resolved
<1>11. CASE RunQueued(c)
  BY <1>8, <1>11 DEF RunQueued, Active
<1>12. CASE HopDials(c)
  <2>1. Active(c) /\ UNCHANGED <<kind, asked, signal>> /\ signal[c] = "live"
    BY <1>12 DEF HopDials, Active, Basic, Signals
  <2>2. CASE job' = [job EXCEPT ![c] = "sent"] /\ UNCHANGED <<client, left, report>>
    BY <1>7, <2>1, <2>2 DEF Stages
  <2>3. CASE HopEnds(c, "offline")
    <3>1. "offline" \in HopWords
      BY DEF HopWords
    <3>2. QED
      BY <2>1, <2>3, <3>1, ServedBasic
  <2>4. QED
    BY <1>12, <2>2, <2>3 DEF HopDials
<1>13. CASE HopTimeout(c) \/ HopAnswered(c)
  <2>1. Active(c) /\ UNCHANGED <<kind, asked, signal>>
    BY <1>13 DEF HopTimeout, HopAnswered, Active
  <2>2. \E end \in HopWords : HopEnds(c, end)
    BY <1>13, HopEnded
  <2>3. QED
    BY <2>1, <2>2, ServedBasic
<1>14. ASSUME Active(c), HasSignal(c), NEW why \in {"aborted", "expired"}, Cancel(c, why)
       PROVE  Basic(c)'
  <2>1. UNCHANGED <<kind, asked>>
    BY <1>14 DEF Cancel
  <2>2. CASE job[c] \in {"dialing", "sent"}
    <3>1. {"aborted", HopLost(c, "aborted")} \subseteq HopWords
      BY CodesOf DEF HopWords
    <3>2. \E end \in HopWords : HopEnds(c, end)
      BY <1>14, <2>2, <3>1 DEF Cancel
    <3>3. QED
      BY <1>14, <2>1, <3>2, ServedBasic
  <2>3. CASE job[c] \notin {"dialing", "sent"}
    <3>1. /\ UNCHANGED <<job, left, report>>
          /\ UNCHANGED client \/ \E words : Tells(c, words)
      BY <1>14, <2>3 DEF Cancel
    <3>2. client'[c] \in {client[c], "done"}
      BY <3>1 DEF Tells, CallTypes, CallerTypes
    <3>3. /\ job[c] \in Stages \ {"none", "over"}
          /\ job[c] \in {"opening", "writing", "hinting"} => Op(c) = "inbox"
          /\ job[c] = "queued" => Queued(c)
      BY <1>14 DEF Active, Basic, Listed, CallTypes, WorkTypes
    <3>4. QED
      BY <1>14, <2>1, <2>3, <3>1, <3>2, <3>3, MovedBasic
  <2>4. QED
    BY <2>2, <2>3
<1>15. CASE NoticeClose(c) \/ \E why \in {"aborted", "expired"} : LocalGiveUp(c, why)
  BY <1>14, <1>15 DEF NoticeClose, LocalGiveUp, HasSignal
<1>16. CASE StoreOpened(c) \/ Persist(c) \/ Hinted(c)
  <2>1. Active(c) /\ UNCHANGED <<kind, asked, signal>> /\ Op(c) = "inbox"
    BY <1>16 DEF StoreOpened, Persist, Hinted, Active, Basic, Listed
  <2>2. CASE \E code : Ends(c, ToAll(c, code))
    BY <1>6, <2>1, <2>2
  <2>3. CASE \E stage \in {"writing", "hinting"} :
               job' = [job EXCEPT ![c] = stage] /\ UNCHANGED <<client, left, report>>
    BY <1>7, <2>1, <2>3 DEF Stages
  <2>4. QED
    BY <1>16, <2>2, <2>3 DEF StoreOpened, Persist, Hinted
<1>17. CASE \E m \in Members : TargetReads(c, m)
  <2>1. UNCHANGED <<kind, flaw, client, asked, answer, job, left, signal, report>>
    BY <1>17 DEF TargetReads, callerVars, firstHop, jobVars
  <2>2. QED
    BY <2>1
    DEF Basic, Fresh, Known, Entered, Listed, Signals, Active, HasSignal, Queued, Op, Remote,
        Via, Nothing
<1>18. QED
  BY <1>1, <1>2, <1>3, <1>4, <1>5, <1>9, <1>10, <1>11, <1>12, <1>13, <1>15, <1>16, <1>17
  DEF Acts, CallStep

\* Targets and the source end and start again.
Restarts == (\E m \in Members : TargetExit(m) \/ TargetStart(m)) \/ SourceStart

LEMMA OthersBasic ==
  ASSUME CallTypes, \A c \in Calls : Basic(c), Restarts \/ SourceExit \/ UNCHANGED callVars
  PROVE  CallTypes' /\ \A c \in Calls : Basic(c)'
<1>1. CASE Restarts \/ UNCHANGED callVars
  <2>1. UNCHANGED <<callerVars, firstHop, jobVars, taken>>
    BY <1>1 DEF Restarts, TargetExit, TargetStart, SourceStart, callVars
  <2>2. wire' \subseteq wire
    BY <1>1 DEF Restarts, TargetExit, TargetStart, SourceStart, callVars, secondHop
  <2>3. reply' \in [Calls -> {"none", "taken", "refused", "ended"}]
    BY <1>1 DEF Restarts, TargetExit, TargetStart, SourceStart, callVars, secondHop,
         CallTypes, HopTypes
  <2>4. CallTypes'
    BY <2>1, <2>2, <2>3
    DEF CallTypes, CallerTypes, HopTypes, WorkTypes, callerVars, firstHop, jobVars
  <2>5. ASSUME NEW c \in Calls PROVE Basic(c)'
    <3>1. Basic(c)
      OBVIOUS
    <3>2. QED
      BY <2>1, <3>1
      DEF callerVars, firstHop, jobVars, Basic, Fresh, Known, Entered, Listed, Signals, Active,
          HasSignal, Queued, Op, Remote, Via, Nothing
  <2>6. QED
    BY <2>4, <2>5
<1>2. CASE SourceExit
  <2>1. /\ UNCHANGED <<kind, flaw, told, answer, signal, report, wire, taken>> /\ asked' = {}
        /\ client' = [c \in Calls |->
             IF client[c] = "waiting" /\ ~Remote(c) THEN "gone" ELSE client[c]]
        /\ job' = [c \in Calls |-> IF Active(c) THEN "over" ELSE job[c]]
        /\ left' = [c \in Calls |-> IF Active(c) THEN <<>> ELSE left[c]]
        /\ queue' = [m \in Members |-> <<>>]
        /\ reply' = [c \in Calls |-> "none"]
    BY <1>2 DEF SourceExit
  <2>2. <<>> \in Seq(Members) /\ <<>> \in Seq(Calls)
    OBVIOUS
  <2>3. CallerTypes' /\ HopTypes'
    BY <2>1 DEF CallTypes, CallerTypes, HopTypes, Clients
  <2>4. left' \in [Calls -> Seq(Members)]
    BY <2>1, <2>2 DEF CallTypes, WorkTypes
  <2>5. job' \in [Calls -> Stages]
    BY <2>1 DEF CallTypes, WorkTypes, Stages
  <2>6. queue' \in [Members -> Seq(Calls)]
    BY <2>1, <2>2
  <2>7. CallTypes'
    BY <2>1, <2>3, <2>4, <2>5, <2>6 DEF CallTypes, WorkTypes
  <2>8. ASSUME NEW c \in Calls PROVE Basic(c)'
    <3>1. Basic(c)
      OBVIOUS
    <3>2. CASE Active(c)
      <4>1. job'[c] = "over" /\ left'[c] = <<>> /\ client'[c] \in {client[c], "gone"}
        BY <2>1, <3>2
      <4>2. client[c] \notin {"idle", "dialing"}
        BY <3>1, <3>2 DEF Basic, Fresh, Entered, Active
      <4>3. Listed(c)'
        BY <2>1, <4>1, <4>2, NoneIn DEF Listed, Active
      <4>4. QED
        BY <2>1, <3>1, <4>1, <4>2, <4>3
        DEF Basic, Fresh, Known, Entered, Signals, HasSignal, Queued, Op, Remote, Via
    <3>3. CASE ~Active(c)
      <4>1. job'[c] = job[c] /\ left'[c] = left[c]
            /\ client'[c] \in {client[c], IF client[c] = "waiting" THEN "gone" ELSE client[c]}
        BY <2>1, <3>3
      <4>2. QED
        BY <2>1, <3>1, <4>1
        DEF Basic, Fresh, Known, Entered, Listed, Signals, Active, HasSignal, Queued, Op,
            Remote, Via, Nothing
    <3>4. QED
      BY <3>2, <3>3
  <2>9. QED
    BY <2>7, <2>8
<1>3. QED
  BY <1>1, <1>2

BasicInv == CallTypes /\ \A c \in Calls : Basic(c)

LEMMA BasicKept == BasicInv /\ [Next]_callVars => BasicInv'
<1> SUFFICES ASSUME BasicInv, [Next]_callVars PROVE BasicInv'
  OBVIOUS
<1> USE DEF BasicInv
<1>1. CASE \E c \in Calls : Acts(c)
  <2>1. PICK c \in Calls : Acts(c)
    BY <1>1
  <2>2. CallTypes' /\ Basic(c)'
    BY <2>1, ActsTyped, ActsBasic
  <2>3. ASSUME NEW d \in Calls \ {c} PROVE Basic(d)'
    <3>1. Same(d)
      BY <2>1, OthersSame
    <3>2. QED
      BY <3>1, SameBasic
  <2>4. QED
    BY <2>2, <2>3
<1>2. CASE Restarts \/ SourceExit \/ UNCHANGED callVars
  BY <1>2, OthersBasic
<1>3. QED
  BY <1>1, <1>2, StepsOf DEF Restarts

LEMMA BasicInitially == CallInit => BasicInv
<1>1. SUFFICES ASSUME CallInit PROVE BasicInv
  OBVIOUS
<1>2. CallTypes
  BY <1>1, CallTypesInitially
<1>3. ASSUME NEW c \in Calls PROVE Basic(c)
  <2>1. /\ kind[c] = <<"none", "none">> /\ client[c] = "idle" /\ asked = {} /\ answer[c] = Nothing
        /\ job[c] = "none" /\ left[c] = <<>> /\ signal[c] = "live" /\ report[c] = Nothing
    BY <1>1 DEF CallInit
  <2>2. \A m \in Members : Nothing[m] = "nothing"
    BY DEF Nothing
  <2>3. Len(<<>>) <= 1
    BY NoneIn
  <2>4. Listed(c)
    BY <2>1, <2>2, <2>3, NoneIn DEF Listed, Active
  <2>5. QED
    BY <2>1, <2>4 DEF Basic, Fresh, Known, Entered, Signals
<1>4. QED
  BY <1>2, <1>3 DEF BasicInv

\* Every variable has its type, and what is left to do for a call agrees with what
\* is reported of it.
THEOREM CallTypesHold == CallSpec => []BasicInv
<1>1. CallInit => BasicInv
  BY BasicInitially
<1>2. BasicInv /\ [Next]_callVars => BasicInv'
  BY BasicKept
<1>3. QED
  BY <1>1, <1>2, PTL DEF CallSpec

-----------------------------------------------------------------------------
(* The lines of the endpoints.                                              *)

InLine(c, m) == Queued(c) /\ job[c] \in {"queued", "dialing", "sent"} /\ Head(left[c]) = m

Lines == \A m \in Members : /\ IsInjective(queue[m])
                            /\ \A c \in Calls : c \in Range(queue[m]) <=> InLine(c, m)

\* The only ways a call moves in the lines: it stays where it is and hops only at
\* the head, it joins a line at the end, or it leaves a line whose head it was.
Stays(c) == /\ queue' = queue
            /\ \A m \in Members :
                 /\ InLine(c, m)' <=> InLine(c, m)
                 /\ InLine(c, m)' /\ job'[c] \in {"dialing", "sent"} => Head(queue[m]) = c
Joins(c, m) == /\ \A n \in Members : ~InLine(c, n)
               /\ queue' = [queue EXCEPT ![m] = Append(queue[m], c)]
               /\ \A n \in Members : InLine(c, n)' <=> n = m
               /\ job'[c] = "queued"
Leaves(c, m) == /\ InLine(c, m) /\ Head(queue[m]) = c
                /\ queue' = Shift(queue, m)
                /\ \A n \in Members : ~InLine(c, n)'

LEMMA HopLeaves ==
  ASSUME CallTypes, NEW c \in Calls, Basic(c), Active(c), NEW end, HopEnds(c, end),
         kind'[c] = kind[c],
         Queued(c) => /\ job[c] \in {"queued", "dialing", "sent"}
                      /\ Head(queue[Head(left[c])]) = c
  PROVE  Stays(c) \/ \E m \in Members : Leaves(c, m)
<1> DEFINE m == Head(left[c])
<1>1. m \in Members
  <2>1. left[c] \in Seq(Members) /\ left[c] # <<>>
    BY DEF Basic, Listed, CallTypes, WorkTypes
  <2>2. QED
    BY <2>1
<1>2. queue' = IF Queued(c) THEN Shift(queue, m) ELSE queue
  BY DEF HopEnds, Served
<1>3. job'[c] \in {"over", "resolving"}
  BY ServedOwn, EndsOwn DEF GoesOn
<1>4. \A n \in Members : ~InLine(c, n)'
  BY <1>3 DEF InLine
<1> HIDE DEF m
<1>5. CASE Queued(c)
  <2>1. InLine(c, m)
    BY <1>5 DEF InLine, m
  <2>2. Leaves(c, m)
    BY <1>2, <1>4, <1>5, <2>1 DEF Leaves, m
  <2>3. QED
    BY <1>1, <2>2
<1>6. CASE ~Queued(c)
  BY <1>2, <1>4, <1>6 DEF Stays, InLine
<1>7. QED
  BY <1>5, <1>6

\* A job outside the lines stays outside.
LEMMA OutsideStays ==
  ASSUME NEW c, UNCHANGED queue, job[c] \notin {"queued", "dialing", "sent"},
         job'[c] \notin {"queued", "dialing", "sent"}
  PROVE  Stays(c)
  BY DEF Stays, InLine

LEMMA ActsLine ==
  ASSUME BasicInv, OneAtATime, NEW c \in Calls, Acts(c)
  PROVE  Stays(c) \/ \E m \in Members : Joins(c, m) \/ Leaves(c, m)
<1>0. CallTypes /\ Basic(c)
  BY DEF BasicInv
<1> DEFINE Moves == Stays(c) \/ \E m \in Members : Joins(c, m) \/ Leaves(c, m)
<1>1. CASE Start(c) \/ Refuse(c)
  <2>1. client[c] = "idle" /\ UNCHANGED queue
    BY <1>1 DEF Start, Refuse, jobVars
  <2>2. job[c] = "none"
    BY <1>0, <2>1 DEF Basic, Fresh
  <2>3. job'[c] \in {"none", "begun"}
    BY <1>0, <1>1, <2>2 DEF Start, Refuse, jobVars, CallTypes, WorkTypes
  <2>4. QED
    BY <2>1, <2>2, <2>3, OutsideStays
<1>2. ASSUME UNCHANGED <<kind, queue, left>>, job'[c] = job[c] PROVE Stays(c)
  <2>1. /\ \A m \in Members : InLine(c, m)' <=> InLine(c, m)
    BY <1>2 DEF InLine, Queued, Op
  <2>2. \A m \in Members : InLine(c, m) /\ job[c] \in {"dialing", "sent"} => Head(queue[m]) = c
    BY DEF InLine, OneAtATime
  <2>3. QED
    BY <1>2, <2>1, <2>2 DEF Stays
<1>3. CASE \/ Dial(c) \/ DialFails(c) \/ SeeEnd(c) \/ Receive(c)
           \/ \E why \in {"abort", "timeout"} : GiveUp(c, why)
           \/ \E m \in Members : TargetReads(c, m)
  BY <1>2, <1>3 DEF Dial, DialFails, SeeEnd, Receive, GiveUp, TargetReads, jobVars, callerVars
<1>4. ASSUME UNCHANGED <<kind, queue>>, NEW codes, Ends(c, codes), 
             job[c] \notin {"queued", "dialing", "sent"}
      PROVE  Stays(c)
  <2>1. job'[c] = "over"
    BY <1>0, <1>4, EndsOwn
  <2>2. QED
    BY <1>4, <2>1, OutsideStays
<1>5. ASSUME UNCHANGED queue, job[c] \notin {"queued", "dialing", "sent"},
             NEW stage \in Stages \ {"queued", "dialing", "sent"}, job' = [job EXCEPT ![c] = stage]
      PROVE  Stays(c)
  <2>1. job'[c] = stage
    BY <1>0, <1>5 DEF CallTypes, WorkTypes
  <2>2. QED
    BY <1>5, <2>1, OutsideStays
<1>6. CASE ReadRequest(c)
  <2>1. c \in asked /\ UNCHANGED <<kind, queue>>
    BY <1>6 DEF ReadRequest
  <2>2. job[c] = "none"
    BY <1>0, <2>1 DEF Basic, Entered
  <2>3. CASE \E codes : Ends(c, codes)
    BY <1>4, <2>1, <2>2, <2>3
  <2>4. CASE job' = [job EXCEPT ![c] = "begun"]
    BY <1>5, <2>1, <2>2, <2>4 DEF Stages
  <2>5. QED
    BY <1>6, <2>3, <2>4 DEF ReadRequest
<1>7. CASE Begin(c)
  <2>1. job[c] = "begun" /\ UNCHANGED <<kind, queue>>
    BY <1>7 DEF Begin
  <2>2. CASE \E codes : Ends(c, codes)
    BY <1>4, <2>1, <2>2
  <2>3. CASE \E stage \in {"opening", "resolving"} : job' = [job EXCEPT ![c] = stage]
    BY <1>5, <2>1, <2>3 DEF Stages
  <2>4. QED
    BY <1>7, <2>2, <2>3 DEF Begin
<1>8. CASE StoreOpened(c) \/ Persist(c) \/ Hinted(c)
  <2>1. job[c] \in {"opening", "writing", "hinting"} /\ UNCHANGED <<kind, queue>>
    BY <1>8 DEF StoreOpened, Persist, Hinted
  <2>2. CASE \E codes : Ends(c, codes)
    BY <1>4, <2>1, <2>2
  <2>3. CASE \E stage \in {"writing", "hinting"} : job' = [job EXCEPT ![c] = stage]
    BY <1>5, <2>1, <2>3 DEF Stages
  <2>4. QED
    BY <1>8, <2>2, <2>3 DEF StoreOpened, Persist, Hinted
<1>9. ASSUME job[c] \in {"dialing", "sent"}, Queued(c)
      PROVE  Head(queue[Head(left[c])]) = c
  <2>1. left[c] \in Seq(Members) /\ left[c] # <<>>
    BY <1>0, <1>9 DEF Basic, Listed, Active, CallTypes, WorkTypes
  <2>2. Head(left[c]) \in Members
    BY <2>1
  <2>3. QED
    BY <1>9, <2>2 DEF OneAtATime
<1>10. ASSUME job[c] \in {"dialing", "sent"}, NEW end, HopEnds(c, end), UNCHANGED kind
       PROVE  Moves
  <2>1. Active(c)
    BY <1>10 DEF Active
  <2>2. Stays(c) \/ \E m \in Members : Leaves(c, m)
    BY <1>0, <1>9, <1>10, <2>1, HopLeaves
  <2>3. QED
    BY <2>2
<1>11. CASE HopDials(c)
  <2>1. CASE \E end : HopEnds(c, end)
    BY <1>10, <1>11, <2>1 DEF HopDials
  <2>2. CASE job' = [job EXCEPT ![c] = "sent"] /\ UNCHANGED <<left, queue>>
    <3>1. job'[c] = "sent" /\ job[c] = "dialing" /\ UNCHANGED kind
      BY <1>0, <1>11, <2>2 DEF HopDials, CallTypes, WorkTypes
    <3>2. \A m \in Members : InLine(c, m)' <=> InLine(c, m)
      BY <2>2, <3>1 DEF InLine, Queued, Op
    <3>3. \A m \in Members : InLine(c, m) => Head(queue[m]) = c
      BY <3>1 DEF InLine, OneAtATime
    <3>4. QED
      BY <2>2, <3>2, <3>3 DEF Stays
  <2>3. QED
    BY <1>11, <2>1, <2>2 DEF HopDials
<1>12. CASE HopTimeout(c) \/ HopAnswered(c)
  <2>1. \E end : HopEnds(c, end)
    BY <1>12 DEF HopTimeout, HopAnswered
  <2>2. QED
    BY <1>10, <1>12, <2>1 DEF HopTimeout, HopAnswered
<1>13. ASSUME NEW why, Cancel(c, why) PROVE Moves
  <2>1. CASE job[c] \in {"dialing", "sent"}
    <3>1. \E end : HopEnds(c, end)
      BY <1>13, <2>1 DEF Cancel
    <3>2. QED
      BY <1>10, <1>13, <2>1, <3>1 DEF Cancel
  <2>2. CASE job[c] \notin {"dialing", "sent"}
    BY <1>2, <1>13, <2>2 DEF Cancel
  <2>3. QED
    BY <2>1, <2>2
<1>14. CASE NoticeClose(c) \/ \E why \in {"aborted", "expired"} : LocalGiveUp(c, why)
  BY <1>13, <1>14 DEF NoticeClose, LocalGiveUp
<1>15. ASSUME HopStarts(c), Active(c), UNCHANGED kind,
              Queued(c) => job[c] = "queued" /\ Head(queue[Head(left[c])]) = c,
              ~Queued(c) => job[c] = "resolving"
       PROVE  Moves
  <2>1. CASE HopEnds(c, "aborted")
    <3>1. Stays(c) \/ \E m \in Members : Leaves(c, m)
      BY <1>0, <1>15, <2>1, HopLeaves
    <3>2. QED
      BY <3>1
  <2>2. CASE job' = [job EXCEPT ![c] = "dialing"] /\ UNCHANGED <<left, queue>>
    <3>1. job'[c] = "dialing"
      BY <1>0, <2>2 DEF CallTypes, WorkTypes
    <3>2. \A m \in Members : InLine(c, m)' <=> InLine(c, m)
      BY <1>15, <2>2, <3>1 DEF InLine, Queued, Op
    <3>3. \A m \in Members : InLine(c, m) => Head(queue[m]) = c
      BY <1>15 DEF InLine
    <3>4. QED
      BY <2>2, <3>2, <3>3 DEF Stays
  <2>3. QED
    BY <1>15, <2>1, <2>2 DEF HopStarts
<1>16. CASE RunQueued(c)
  <2>1. CASE Queued(c)
    BY <1>15, <1>16, <2>1 DEF RunQueued, Active
  <2>2. CASE ~Queued(c)
    BY <1>0, <1>16, <2>2 DEF RunQueued, Basic, Listed
  <2>3. QED
    BY <2>1, <2>2
<1>17. CASE Resolved(c)
  <2>1. job[c] = "resolving" /\ Active(c) /\ UNCHANGED kind
    BY <1>17 DEF Resolved, Active
  <2>2. CASE ~Queued(c)
    BY <1>15, <1>17, <2>1, <2>2 DEF Resolved
  <2>3. CASE Queued(c)
    <3> DEFINE m == Head(left[c])
    <3>1. job' = [job EXCEPT ![c] = "queued"] /\ UNCHANGED left
          /\ queue' = [queue EXCEPT ![m] = Append(queue[m], c)]
      BY <1>17, <2>3 DEF Resolved
    <3>2. job'[c] = "queued"
      BY <1>0, <3>1 DEF CallTypes, WorkTypes
    <3>3. left[c] \in Seq(Members) /\ left[c] # <<>>
      BY <1>0, <2>1 DEF Basic, Listed, CallTypes, WorkTypes
    <3>4. m \in Members
      BY <3>3
    <3>5. \A n \in Members : ~InLine(c, n)
      BY <2>1 DEF InLine
    <3>6. \A n \in Members : InLine(c, n)' <=> n = m
      BY <2>1, <2>3, <3>1, <3>2 DEF InLine, Queued, Op
    <3> HIDE DEF m
    <3>7. Joins(c, m)
      BY <3>1, <3>2, <3>5, <3>6 DEF Joins
    <3>8. QED
      BY <3>4, <3>7
  <2>4. QED
    BY <2>2, <2>3
<1>18. QED
  BY <1>1, <1>3, <1>6, <1>7, <1>8, <1>11, <1>12, <1>14, <1>16, <1>17 DEF Acts, CallStep

LineInv == BasicInv /\ Lines /\ OneAtATime

LEMMA LineInitially == CallInit => LineInv
<1>1. SUFFICES ASSUME CallInit PROVE LineInv
  OBVIOUS
<1>2. BasicInv
  BY <1>1, BasicInitially
<1>3. /\ \A c \in Calls : job[c] = "none"
      /\ \A m \in Members : queue[m] = <<>>
  BY <1>1 DEF CallInit
<1>4. Lines
  BY <1>3, NoneIn DEF Lines, InLine
<1>5. OneAtATime
  BY <1>3 DEF OneAtATime
<1>6. QED
  BY <1>2, <1>4, <1>5 DEF LineInv

\* A step of one call moves it alone: the others keep their order.
LEMMA LinesKeptBy ==
  ASSUME LineInv, NEW c \in Calls, Acts(c)
  PROVE  Lines' /\ OneAtATime'
<1>1. CallTypes /\ queue \in [Members -> Seq(Calls)]
  BY DEF LineInv, BasicInv, CallTypes, WorkTypes
<1>2. ASSUME NEW d \in Calls \ {c}
      PROVE  job'[d] = job[d] /\ \A n \in Members : InLine(d, n)' <=> InLine(d, n)
  <2>1. Same(d)
    BY <1>1, OthersSame
  <2>2. QED
    BY <2>1 DEF Same, InLine, Queued, Op
<1>3. Stays(c) \/ \E m \in Members : Joins(c, m) \/ Leaves(c, m)
  BY ActsLine DEF LineInv
<1> DEFINE Ordered(n) ==
      /\ IsInjective(queue'[n])
      /\ \A d \in Calls : d \in Range(queue'[n]) <=> InLine(d, n)'
      /\ \A d \in Calls : InLine(d, n)' /\ job'[d] \in {"dialing", "sent"} => Head(queue'[n]) = d
<1>4. (\A n \in Members : Ordered(n)) => Lines' /\ OneAtATime'
  BY DEF Lines, OneAtATime, InLine
<1>5. ASSUME NEW n \in Members
      PROVE  /\ IsInjective(queue[n]) /\ queue[n] \in Seq(Calls)
             /\ \A d \in Calls : d \in Range(queue[n]) <=> InLine(d, n)
             /\ \A d \in Calls :
                  InLine(d, n) /\ job[d] \in {"dialing", "sent"} => Head(queue[n]) = d
  BY <1>1 DEF LineInv, Lines, OneAtATime, InLine
<1>6. ASSUME Stays(c), NEW n \in Members PROVE Ordered(n)
  BY <1>2, <1>5, <1>6 DEF Stays
<1>7. ASSUME NEW m \in Members, Joins(c, m), NEW n \in Members PROVE Ordered(n)
  <2>1. /\ ~InLine(c, n) /\ (InLine(c, n)' <=> n = m) /\ job'[c] = "queued"
        /\ queue'[n] = IF n = m THEN Append(queue[n], c) ELSE queue[n]
    BY <1>1, <1>7 DEF Joins
  <2>2. c \notin Range(queue[n])
    BY <1>5, <2>1
  <2>3. CASE n = m
    <3>1. /\ IsInjective(queue'[n]) /\ Range(queue'[n]) = Range(queue[n]) \cup {c}
          /\ Head(queue'[n]) = IF queue[n] = <<>> THEN c ELSE Head(queue[n])
      BY <1>5, <2>1, <2>2, <2>3, AppendTo
    <3>2. \A d \in Calls : d \in Range(queue'[n]) <=> InLine(d, n)'
      BY <1>2, <1>5, <2>1, <2>3, <3>1
    <3>3. ASSUME NEW d \in Calls, InLine(d, n)', job'[d] \in {"dialing", "sent"}
          PROVE  Head(queue'[n]) = d
      <4>1. d # c
        BY <2>1, <3>3
      <4>2. InLine(d, n) /\ job[d] \in {"dialing", "sent"}
        BY <1>2, <3>3, <4>1
      <4>3. d \in Range(queue[n]) /\ Head(queue[n]) = d
        BY <1>5, <4>2
      <4>4. queue[n] # <<>>
        BY <4>3, NoneIn
      <4>5. QED
        BY <3>1, <4>3, <4>4
    <3>4. QED
      BY <3>1, <3>2, <3>3
  <2>4. CASE n # m
    BY <1>2, <1>5, <2>1, <2>4
  <2>5. QED
    BY <2>3, <2>4
<1>8. ASSUME NEW m \in Members, Leaves(c, m), NEW n \in Members PROVE Ordered(n)
  <2>1. /\ InLine(c, m) /\ Head(queue[m]) = c /\ ~InLine(c, n)'
        /\ queue' = Shift(queue, m)
    BY <1>8 DEF Leaves
  <2>2. c \in Range(queue[m])
    BY <1>5, <2>1
  <2>3. queue[m] # <<>>
    BY <2>2, NoneIn
  <2>4. queue'[n] = IF n = m THEN Tail(queue[n]) ELSE queue[n]
    BY <1>1, <2>1, <2>3 DEF Shift
  <2>5. CASE n = m
    <3>1. /\ IsInjective(queue'[n]) /\ Range(queue'[n]) = Range(queue[n]) \ {c}
      BY <1>5, <2>1, <2>3, <2>4, <2>5, TailOf
    <3>2. \A d \in Calls : d \in Range(queue'[n]) <=> InLine(d, n)'
      BY <1>2, <1>5, <2>1, <2>5, <3>1
    <3>3. ASSUME NEW d \in Calls, InLine(d, n)', job'[d] \in {"dialing", "sent"}
          PROVE  FALSE
      <4>1. d # c
        BY <2>1, <3>3
      <4>2. InLine(d, n) /\ job[d] \in {"dialing", "sent"}
        BY <1>2, <3>3, <4>1
      <4>3. Head(queue[n]) = d
        BY <1>5, <4>2
      <4>4. QED
        BY <2>1, <2>5, <4>1, <4>3
    <3>4. QED
      BY <3>1, <3>2, <3>3
  <2>6. CASE n # m
    <3>1. ~InLine(c, n)
      BY <2>1, <2>6 DEF InLine
    <3>2. QED
      BY <1>2, <1>5, <2>1, <2>4, <2>6, <3>1
  <2>7. QED
    BY <2>5, <2>6
<1> HIDE DEF Ordered
<1>9. QED
  BY <1>3, <1>4, <1>6, <1>7, <1>8

LEMMA LineKept == LineInv /\ [Next]_callVars => LineInv'
<1> SUFFICES ASSUME LineInv, [Next]_callVars PROVE LineInv'
  OBVIOUS
<1>1. BasicInv'
  BY BasicKept DEF LineInv
<1>2. CASE \E c \in Calls : Acts(c)
  BY <1>1, <1>2, LinesKeptBy DEF LineInv
<1>3. CASE Restarts \/ UNCHANGED callVars
  <2>1. UNCHANGED <<kind, job, left, queue>>
    BY <1>3 DEF Restarts, TargetExit, TargetStart, SourceStart, callVars, callerVars, jobVars
  <2>2. QED
    BY <1>1, <2>1 DEF LineInv, Lines, OneAtATime, InLine, Queued, Op
<1>4. CASE SourceExit
  <2>1. /\ queue' = [m \in Members |-> <<>>]
        /\ job' = [c \in Calls |-> IF Active(c) THEN "over" ELSE job[c]]
    BY <1>4 DEF SourceExit
  <2>2. /\ \A m \in Members : queue'[m] = <<>>
        /\ \A c \in Calls : job'[c] \in {"none", "over"}
    BY <2>1 DEF Active
  <2>3. Lines'
    BY <2>2, NoneIn DEF Lines, InLine
  <2>4. OneAtATime'
    BY <2>2 DEF OneAtATime
  <2>5. QED
    BY <1>1, <2>3, <2>4 DEF LineInv
<1>5. QED
  BY <1>2, <1>3, <1>4, StepsOf DEF Restarts

\* runTargetQueue: Follow-ups and Broadcasts of one source reach a target one at a
\* time and in line; only the job at the head of an endpoint's line is dialing or has
\* written, and however its hop ends, it alone leaves.
THEOREM OneAtATimeHolds == CallSpec => []OneAtATime
<1>1. CallInit => LineInv
  BY LineInitially
<1>2. LineInv /\ [Next]_callVars => LineInv'
  BY LineKept
<1>3. LineInv => OneAtATime
  BY DEF LineInv
<1>4. QED
  BY <1>1, <1>2, <1>3, PTL DEF CallSpec

-----------------------------------------------------------------------------
(* A signal that has fired.                                                 *)

\* The only ways a request or an item is written for a call.
LEMMA WritesLive ==
  ASSUME BasicInv, NEW c \in Calls, Acts(c), signal[c] # "live"
  PROVE  /\ wire' \subseteq wire
         /\ job'[c] = "writing" => job[c] = "writing"
<1>0. CallTypes /\ Basic(c)
  BY DEF BasicInv
<1>1. ~HopDials(c)
  BY <1>0 DEF HopDials, Basic, Signals
<1>2. wire' \subseteq wire
  BY <1>1
  DEF Acts, CallStep, Start, Refuse, GiveUp, LocalGiveUp, Dial, DialFails, SeeEnd, Receive,
      ReadRequest,
      Begin, Resolved, RunQueued, HopTimeout, HopAnswered, NoticeClose, Cancel, StoreOpened,
      Persist, Hinted, TargetReads, secondHop
<1>3. ASSUME NEW codes, Ends(c, codes) PROVE job'[c] = "over"
  BY <1>0, <1>3, EndsOwn
<1>4. ASSUME Active(c), NEW end, HopEnds(c, end) PROVE job'[c] \in {"over", "resolving"}
  BY <1>0, <1>4, ServedOwn, EndsOwn DEF GoesOn
<1>5. ASSUME NEW stage, job' = [job EXCEPT ![c] = stage] PROVE job'[c] = stage
  BY <1>0, <1>5 DEF CallTypes, WorkTypes
<1>6. CASE Start(c) \/ Refuse(c)
  BY <1>0, <1>2, <1>6 DEF Start, Refuse, jobVars, CallTypes, WorkTypes
<1>7. CASE \/ Dial(c) \/ DialFails(c) \/ SeeEnd(c) \/ Receive(c)
           \/ \E why \in {"abort", "timeout"} : GiveUp(c, why)
           \/ \E m \in Members : TargetReads(c, m)
  BY <1>2, <1>7 DEF Dial, DialFails, SeeEnd, Receive, GiveUp, TargetReads, jobVars
<1>8. CASE ReadRequest(c) \/ Begin(c) \/ Hinted(c) \/ Persist(c) \/ StoreOpened(c)
  <2>1. \/ \E codes : Ends(c, codes)
        \/ \E stage \in {"begun", "opening", "resolving", "hinting"} : job' = [job EXCEPT ![c] = stage]
    BY <1>8 DEF ReadRequest, Begin, Hinted, Persist, StoreOpened
  <2>2. QED
    BY <1>2, <1>3, <1>5, <2>1
<1>9. CASE Resolved(c) \/ RunQueued(c) \/ HopTimeout(c) \/ HopAnswered(c)
  <2>1. \/ \E end : HopEnds(c, end)
        \/ \E stage \in {"queued", "dialing"} : job' = [job EXCEPT ![c] = stage]
    BY <1>9 DEF Resolved, RunQueued, HopTimeout, HopAnswered, HopStarts
  <2>2. Active(c)
    BY <1>9 DEF Resolved, RunQueued, HopTimeout, HopAnswered, Active
  <2>3. QED
    BY <1>2, <1>4, <1>5, <2>1, <2>2
<1>10. ~NoticeClose(c) /\ \A why : ~LocalGiveUp(c, why)
  BY DEF NoticeClose, LocalGiveUp, Cancel
<1>11. QED
  BY <1>1, <1>2, <1>6, <1>7, <1>8, <1>9, <1>10 DEF Acts, CallStep

\* sendRpcCommand and the Inbox store look at the signal: once the signal of a job has
\* fired, nothing more is written for it, on a socket or in an Inbox.
THEOREM NothingSentAfterCancelHolds == CallSpec => NothingSentAfterCancel
<1>1. ASSUME BasicInv, [Next]_callVars, NEW c \in Calls, signal[c] # "live"
      PROVE  /\ \A m \in Members : <<c, m>> \in wire' => <<c, m>> \in wire
             /\ job'[c] = "writing" => job[c] = "writing"
  <2>1. CASE \E d \in Calls : Acts(d)
    <3>1. PICK d \in Calls : Acts(d)
      BY <2>1
    <3>2. CASE d = c
      BY <1>1, <3>1, <3>2, WritesLive
    <3>3. CASE d # c
      <4>1. Same(c)
        BY <1>1, <3>1, <3>3, OthersSame DEF BasicInv
      <4>2. QED
        BY <4>1 DEF Same
    <3>4. QED
      BY <3>2, <3>3
  <2>2. CASE Restarts \/ UNCHANGED callVars
    BY <2>2 DEF Restarts, TargetExit, TargetStart, SourceStart, callVars, jobVars, secondHop
  <2>3. CASE SourceExit
    BY <2>3 DEF SourceExit, Active
  <2>4. QED
    BY <1>1, <2>1, <2>2, <2>3, StepsOf DEF Restarts
<1>2. ASSUME BasicInv, [Next]_callVars
      PROVE  [\A c \in Calls : signal[c] # "live" =>
                /\ \A m \in Members : <<c, m>> \in wire' => <<c, m>> \in wire
                /\ job'[c] = "writing" => job[c] = "writing"]_callVars
  BY <1>1, <1>2
<1>3. QED
  BY <1>2, CallTypesHold, PTL DEF CallSpec, NothingSentAfterCancel

-----------------------------------------------------------------------------
(* The form of a message.                                                   *)

Formed(c) == /\ flaw[c] # "too-large"
             /\ \A m \in Members :
                  report[c][m] \in {"invalid-params", "invalid-payload"} => flaw[c] = "empty-list"

\* The room that the caller's check leaves is enough for any origin.
LEMMA RoomForOrigin ==
  ASSUME NEW k \in Operations \X Surfaces, NEW w \in Written, CallerTakes(k[1], k[2], w),
         NEW origin \in Origins
  PROVE  Flaw(Sent(k[1], k[2], w), origin) \in {"none", "empty-list"}
<1> DEFINE s == Sent(k[1], k[2], w)
<1>1. k[1] \in Operations
  OBVIOUS
<1>2. Fits(w)
  <2>1. OperationTakes(k[1], w)
    BY DEF CallerTakes
  <2>2. QED
    BY <1>1, <2>1
    DEF Operations, OperationTakes, FollowUpTakes, RedirectTakes, InboxTakes, BroadcastTakes,
        AskTakes
<1>3. s.size = w.size
  <2>1. \A l : [w EXCEPT !.list = l].size = w.size
    BY DEF Written
  <2>2. QED
    BY <2>1 DEF Sent
<1>4. w.size \in Nat /\ WorstOrigin \in Nat /\ Limit \in Nat /\ origin \in 0..WorstOrigin
  BY FormAssumption DEF Written
<1> HIDE DEF s
<1>5. s.size + origin <= Limit
  BY <1>2, <1>3, <1>4 DEF Fits
<1>6. Flaw(s, origin) \in {"none", "empty-list"}
  <2>1. CASE ListReads(s)
    <3>1. PayloadReads(s, origin)
      BY <1>5, <2>1 DEF PayloadReads
    <3>2. QED
      BY <2>1, <3>1 DEF Flaw
  <2>2. CASE ~ListReads(s)
    BY <2>2 DEF Flaw, PayloadReads
  <2>3. QED
    BY <2>1, <2>2
<1>7. QED
  BY <1>6 DEF s

LEMMA ActsFormed ==
  ASSUME BasicInv, NEW c \in Calls, Acts(c), Formed(c)
  PROVE  Formed(c)'
<1>0. CallTypes /\ Basic(c) /\ flaw[c] \in {"none", "empty-list", "too-large"}
  BY DEF BasicInv, CallTypes, CallerTypes
<1> DEFINE Bad == {"invalid-params", "invalid-payload"}
<1>1. ASSUME UNCHANGED flaw, report'[c] = report[c] PROVE Formed(c)'
  BY <1>1 DEF Formed
<1>2. ASSUME UNCHANGED flaw, NEW code, Ends(c, ToAll(c, code)),
             code \in Bad => flaw[c] = "empty-list"
      PROVE  Formed(c)'
  <2>1. report'[c] = ToAll(c, code)
    BY <1>0, <1>2, EndsOwn
  <2>2. \A m \in Members : report'[c][m] \in Bad => flaw[c] = "empty-list"
    BY <1>2, <2>1 DEF ToAll
  <2>3. QED
    BY <1>2, <2>2 DEF Formed
<1>3. ASSUME UNCHANGED flaw, Active(c), NEW end \in HopWords, HopEnds(c, end) PROVE Formed(c)'
  <2>1. report'[c] = Noted(c, end)
    BY <1>0, <1>3, ServedOwn, EndsOwn DEF GoesOn
  <2>2. SourceCode(c, end) \notin Bad
    BY <1>3 DEF HopWords, SourceCode, FailureCode, MemberMessageErrorCode
  <2>3. report[c] \in [Members -> Codes]
    BY <1>0 DEF CallTypes, WorkTypes
  <2>4. \A m \in Members : report'[c][m] \in Bad => report[c][m] \in Bad
    BY <2>1, <2>2, <2>3 DEF Noted
  <2>5. QED
    BY <1>3, <2>4 DEF Formed
<1>4. CASE Start(c)
  <2>1. PICK k \in Kinds[c], w \in Messages[c] : \E to \in To(k), origin \in Origins :
          Starts(c, k, w, to, origin)
    BY <1>4, Starting
  <2>2. PICK to \in To(k), origin \in Origins : Starts(c, k, w, to, origin)
    BY <2>1
  <2>3. k \in Operations \X Surfaces /\ w \in Written
    BY CallAssumption
  <2>4. flaw'[c] \in {"none", "empty-list"}
    <3>1. Flaw(Sent(k[1], k[2], w), origin) \in {"none", "empty-list"}
      BY <2>2, <2>3, RoomForOrigin DEF Starts
    <3>2. QED
      BY <1>0, <2>2, <3>1 DEF Starts, CallTypes, CallerTypes
  <2>5. \A m \in Members : report'[c][m] \in {"pending", "nothing"}
    BY <1>0, <2>2 DEF Starts, CallTypes, WorkTypes
  <2>6. QED
    BY <2>4, <2>5 DEF Formed
<1>5. CASE \/ Refuse(c) \/ Dial(c) \/ DialFails(c) \/ SeeEnd(c) \/ Receive(c)
           \/ \E why \in {"abort", "timeout"} : GiveUp(c, why)
           \/ \E m \in Members : TargetReads(c, m)
  BY <1>1, <1>5
  DEF Refuse, Dial, DialFails, SeeEnd, Receive, GiveUp, TargetReads, jobVars, callerVars
<1>6. CASE ReadRequest(c) \/ Begin(c) \/ Hinted(c) \/ Persist(c) \/ StoreOpened(c)
  <2>1. UNCHANGED flaw
    BY <1>6 DEF ReadRequest, Begin, Hinted, Persist, StoreOpened
  <2>2. \/ UNCHANGED report
        \/ flaw[c] = "empty-list" /\ Ends(c, ToAll(c, "invalid-params"))
        \/ flaw[c] # "none" /\ Ends(c, ToAll(c, "invalid-payload"))
        \/ \E code \in {"not-joined", "accepted", "storage-failed", "aborted"} : Ends(c, ToAll(c, code))
    BY <1>6 DEF ReadRequest, Begin, Hinted, Persist, StoreOpened
  <2>3. flaw[c] # "none" => flaw[c] = "empty-list"
    BY <1>0 DEF Formed
  <2>4. QED
    BY <1>1, <1>2, <2>1, <2>2, <2>3
<1>7. CASE \/ Resolved(c) \/ RunQueued(c) \/ HopDials(c) \/ HopTimeout(c) \/ HopAnswered(c)
           \/ NoticeClose(c) \/ \E why \in {"aborted", "expired"} : LocalGiveUp(c, why)
  <2>1. UNCHANGED flaw /\ Active(c)
    BY <1>7
    DEF Resolved, RunQueued, HopDials, HopTimeout, HopAnswered, NoticeClose, LocalGiveUp,
        Cancel, Active
  <2>2. UNCHANGED report \/ \E end \in HopWords : HopEnds(c, end)
    BY <1>0, <1>7, HopsEnd
  <2>3. QED
    BY <1>1, <1>3, <2>1, <2>2
<1>8. QED
  BY <1>4, <1>5, <1>6, <1>7 DEF Acts, CallStep

FormInv == BasicInv /\ \A c \in Calls : Formed(c)

LEMMA FormKept == FormInv /\ [Next]_callVars => FormInv'
<1> SUFFICES ASSUME FormInv, [Next]_callVars PROVE FormInv'
  OBVIOUS
<1>1. BasicInv' /\ BasicInv /\ CallTypes
  BY BasicKept DEF FormInv, BasicInv
<1>2. CASE \E c \in Calls : Acts(c)
  <2>1. PICK c \in Calls : Acts(c)
    BY <1>2
  <2>2. Formed(c)'
    BY <1>1, <2>1, ActsFormed DEF FormInv
  <2>3. ASSUME NEW d \in Calls \ {c} PROVE Formed(d)'
    <3>1. Same(d) /\ Formed(d)
      BY <1>1, <2>1, OthersSame DEF FormInv
    <3>2. QED
      BY <3>1 DEF Same, Formed
  <2>4. QED
    BY <1>1, <2>2, <2>3 DEF FormInv
<1>3. CASE Restarts \/ SourceExit \/ UNCHANGED callVars
  <2>1. UNCHANGED <<flaw, report>>
    BY <1>3 DEF Restarts, TargetExit, TargetStart, SourceStart, SourceExit, callVars,
         callerVars, jobVars
  <2>2. QED
    BY <1>1, <2>1 DEF FormInv, Formed
<1>4. QED
  BY <1>2, <1>3, StepsOf DEF Restarts

\* The callers' checks leave room for the worst origin (fitsAggregatePayload and its
\* copies): a message they took is refused on the way only for an empty list.
THEOREM OnlyEmptyListsRefusedHolds == CallSpec => []OnlyEmptyListsRefused
<1>1. CallInit => FormInv
  <2>1. SUFFICES ASSUME CallInit PROVE \A c \in Calls : Formed(c)
    BY BasicInitially DEF FormInv
  <2>2. QED
    BY <2>1 DEF CallInit, Nothing, Formed
<1>2. FormInv /\ [Next]_callVars => FormInv'
  BY FormKept
<1>3. FormInv => OnlyEmptyListsRefused
  BY DEF FormInv, Formed, OnlyEmptyListsRefused
<1>4. QED
  BY <1>1, <1>2, <1>3, PTL DEF CallSpec

-----------------------------------------------------------------------------
(* What the caller is told is true.                                         *)

Denials == Codes \ {"pending", "nothing", "accepted", "outcome-unknown"}
NoAsk == \A c \in Calls : \A k \in Kinds[c] : k[1] # "ask"
Plain == Operations \ {"ask"}

\* m has not got the message of c, and it is not on its way.
Untaken(c, m) == taken[c][m] = 0 /\ <<c, m>> \notin wire

\* Nothing is sent before a job hops or writes, ...
Untouched(c) ==
  job[c] \in {"none", "begun", "opening", "writing"} => \A m \in Members : Untaken(c, m)

\* ... and nothing to a recipient whose turn has not come.
Unsent(c) ==
  job[c] # "over" => \A m \in Members : m \in Range(left[c]) =>
                       \/ job[c] \in {"sent", "hinting"} /\ m = Head(left[c])
                       \/ Untaken(c, m)

\* A message is taken once.
OnceTaken(c) == \A m \in Members : <<c, m>> \in wire => taken[c][m] = 0

\* The target's answer is true.
Replied(c) ==
  /\ reply[c] # "none" => job[c] = "sent"
  /\ \A m \in Members : m = Head(left[c]) =>
       /\ reply[c] = "taken" \/ job[c] = "hinting" => taken[c][m] > 0
       /\ reply[c] = "refused" => Untaken(c, m)

\* So is what the source reports, ...
CodeTrue(c, m, code) == /\ code = "accepted" => taken[c][m] > 0
                        /\ code \in Denials \cup {"nothing"} => Untaken(c, m)
Reported(c) ==
  /\ \A m \in Members : CodeTrue(c, m, report[c][m])
  /\ Op(c) # "broadcast" /\ job[c] # "over" => \A m \in Members : report[c][m] \in {"pending", "nothing"}

\* ... what it answers, ...
Answered(c) ==
  answer[c] # Nothing => /\ job[c] = "over" /\ answer[c] = report[c]
                         /\ \A m \in Members : report[c][m] # "pending"

\* ... and what the caller is told: a denied message will never be sent.
Never(c, m) ==
  /\ Untaken(c, m)
  /\ \/ job[c] = "over"
     \/ job[c] = "none" /\ c \notin asked /\ client[c] = "done"
     \/ job[c] = "opening" /\ signal[c] # "live"
WordTrue(c, m, word) == /\ Meaning(word) = "accepted" => taken[c][m] > 0
                        /\ Meaning(word) = "denied" => Never(c, m)
Told(c) == /\ client[c] \in {"idle", "dialing", "waiting"} => told[c] = Nothing
           /\ \A m \in Members : WordTrue(c, m, told[c][m])

Sends(c) == Untouched(c) /\ Unsent(c) /\ OnceTaken(c) /\ Replied(c)
Truth(c) == Sends(c) /\ Reported(c) /\ Answered(c) /\ Told(c)

LEMMA SameTruth ==
  ASSUME NEW c \in Calls, Same(c), Truth(c)
  PROVE  Truth(c)'
<1>1. Sends(c)'
  BY DEF Same, Truth, Sends, Untouched, Unsent, OnceTaken, Replied, Untaken
<1>2. Reported(c)'
  BY DEF Same, Truth, Reported, CodeTrue, Untaken, Op
<1>3. Answered(c)'
  BY DEF Same, Truth, Answered, Nothing
<1>4. Told(c)'
  BY DEF Same, Truth, Told, WordTrue, Never, Untaken, Nothing
<1>5. QED
  BY <1>1, <1>2, <1>3, <1>4 DEF Truth

\* The words that the layers use for a code mean what the code means.
LEMMA WordsMean ==
  ASSUME NEW c, Op(c) \in Plain, NEW code \in Codes \ {"pending"}
  PROVE  /\ \A word \in {AskSays(c, Says(c, code)), AskSays(c, LocalSays(c, code))} :
              /\ Meaning(word) = "accepted" => code = "accepted"
              /\ Meaning(word) = "denied" => code \in Denials \cup {"nothing"}
<1>0. Op(c) \in {"follow-up", "redirect", "inbox", "broadcast"}
  BY DEF Plain, Operations
<1> DEFINE Kept(word) == /\ Meaning(word) = "accepted" => code = "accepted"
                         /\ Meaning(word) = "denied" => code \in Denials \cup {"nothing"}
<1>1. Kept(Says(c, code))
  <2>1. CASE code = "accepted"
    BY <1>0, <2>1 DEF Says, FollowUpSays, RedirectSays, InboxSays, BroadcastSays, Meaning
  <2>2. CASE code = "outcome-unknown"
    BY <1>0, <2>2 DEF Says, FollowUpSays, RedirectSays, InboxSays, BroadcastSays, Meaning
  <2>3. CASE code \notin {"accepted", "outcome-unknown"}
    <3>1. code \in Denials \cup {"nothing"}
      BY <2>3 DEF Denials
    <3>2. Says(c, code) # "accepted"
      BY <1>0, <2>3 DEF Says, FollowUpSays, RedirectSays, InboxSays, BroadcastSays
    <3>3. QED
      BY <3>1, <3>2 DEF Meaning
  <2>4. QED
    BY <2>1, <2>2, <2>3
<1>2. Kept(LocalSays(c, code))
  <2>1. CASE code \in {"accepted", "outcome-unknown"}
    <3>1. LocalSays(c, code) = code
      BY <2>1 DEF LocalSays
    <3>2. QED
      BY <2>1, <3>1 DEF Meaning
  <2>2. CASE code \notin {"accepted", "outcome-unknown"}
    <3>1. code \in Denials \cup {"nothing"}
      BY <2>2 DEF Denials
    <3>2. LocalSays(c, code) # "accepted"
      BY <2>2 DEF LocalSays
    <3>3. QED
      BY <3>1, <3>2 DEF Meaning
  <2>3. QED
    BY <2>1, <2>2
<1> HIDE DEF Kept
<1>3. \A word : AskSays(c, word) = word
  BY <1>0 DEF AskSays
<1>4. \A word \in {AskSays(c, Says(c, code)), AskSays(c, LocalSays(c, code))} : Kept(word)
  BY <1>1, <1>2, <1>3
<1>5. QED
  BY <1>4 DEF Kept

CodesTrue(c, codes) ==
  \A m \in Members : codes[m] \in Codes \ {"pending"} /\ CodeTrue(c, m, codes[m])

LEMMA EndedTruth ==
  ASSUME CallTypes, NEW c \in Calls, Basic(c), Truth(c), NEW codes, Ends(c, codes),
         CodesTrue(c, codes),
         Op(c) \in Plain, UNCHANGED <<kind, wire, taken>>, job[c] # "over", reply'[c] = "none"
  PROVE  Truth(c)'
<1>1. /\ job'[c] = "over" /\ left'[c] = <<>> /\ report'[c] = codes
      /\ answer'[c] = IF Remote(c) THEN codes ELSE answer[c]
      /\ \/ /\ client'[c] = "done"
            /\ told'[c] = [m \in Members |-> AskSays(c, LocalSays(c, codes[m]))]
         \/ client'[c] = client[c] /\ told'[c] = told[c]
  BY EndsOwn
<1>2. \A m \in Members : Untaken(c, m)' <=> Untaken(c, m)
  BY DEF Untaken
<1>3. Sends(c)'
  BY <1>1, NoneIn DEF Truth, Sends, Untouched, Unsent, OnceTaken, Replied
<1>4. Reported(c)'
  BY <1>1, <1>2 DEF CodesTrue, Reported, CodeTrue
<1>5. Answered(c)'
  <2>1. CASE answer'[c] = codes
    BY <1>1, <2>1 DEF Answered, CodesTrue
  <2>2. CASE answer'[c] = answer[c]
    BY <2>2 DEF Answered, Truth, Nothing
  <2>3. QED
    BY <1>1, <2>1, <2>2
<1>6. Told(c)'
  <2>1. \A m \in Members : Never(c, m)' <=> Untaken(c, m)
    BY <1>1, <1>2 DEF Never
  <2>2. CASE client'[c] = client[c] /\ told'[c] = told[c]
    BY <1>2, <2>1, <2>2 DEF Told, Truth, WordTrue, Never, Nothing
  <2>3. CASE /\ client'[c] = "done"
             /\ told'[c] = [m \in Members |-> AskSays(c, LocalSays(c, codes[m]))]
    <3>1. ASSUME NEW m \in Members PROVE WordTrue(c, m, told[c][m])'
      <4>1. told'[c][m] = AskSays(c, LocalSays(c, codes[m]))
        BY <2>3
      <4>2. codes[m] \in Codes \ {"pending"} /\ CodeTrue(c, m, codes[m])
        BY DEF CodesTrue
      <4>3. /\ Meaning(told'[c][m]) = "accepted" => codes[m] = "accepted"
            /\ Meaning(told'[c][m]) = "denied" => codes[m] \in Denials \cup {"nothing"}
        BY <4>1, <4>2, WordsMean
      <4>4. QED
        BY <2>1, <4>2, <4>3 DEF CodeTrue, WordTrue
    <3>2. QED
      BY <2>3, <3>1 DEF Told
  <2>4. QED
    BY <1>1, <2>2, <2>3
<1>7. QED
  BY <1>3, <1>4, <1>5, <1>6 DEF Truth

\* The recipients of one-target calls are reported on when the call ends.
LEMMA OneLeft ==
  ASSUME CallTypes, NEW c \in Calls, Basic(c), job[c] # "over", left[c] # <<>>, Len(left[c]) = 1
  PROVE  /\ Head(left[c]) \in Members
         /\ \A m \in Members : report[c][m] = "pending" <=> m = Head(left[c])
<1>1. left[c] \in Seq(Members) /\ IsInjective(left[c])
  BY DEF CallTypes, WorkTypes, Basic, Listed
<1>2. PICK x \in Members : left[c] = <<x>>
  BY <1>1
<1>3. Range(left[c]) = {x} /\ Head(left[c]) = x
  BY <1>2, AloneIn
<1>4. QED
  BY <1>3 DEF Basic, Listed

\* A whole-call code is true if it is true of every recipient.
LEMMA ToAllTrue ==
  ASSUME NEW c \in Calls, Truth(c), NEW code \in Codes \ {"pending"},
         \A m \in Members : report[c][m] # "nothing" => CodeTrue(c, m, code)
  PROVE  CodesTrue(c, ToAll(c, code))
<1>1. ASSUME NEW m \in Members
      PROVE  /\ ToAll(c, code)[m] \in Codes \ {"pending"}
             /\ CodeTrue(c, m, ToAll(c, code)[m])
  <2>1. ToAll(c, code)[m] = IF report[c][m] = "nothing" THEN "nothing" ELSE code
    BY DEF ToAll
  <2>2. report[c][m] = "nothing" => CodeTrue(c, m, "nothing")
    BY DEF Truth, Reported
  <2>3. "nothing" \in Codes \ {"pending"}
    BY DEF Codes
  <2>4. QED
    BY <2>1, <2>2, <2>3
<1>2. QED
  BY <1>1 DEF CodesTrue

\* What a hop's end says of its recipient.
HopTrue(c, end) ==
  /\ end = "accepted" => taken[c][Head(left[c])] > 0
  /\ end \notin {"accepted", "outcome-unknown"} => \A m \in Members : m = Head(left[c]) => Untaken(c, m)

LEMMA SourceCodeTrue ==
  ASSUME NEW c, NEW end \in HopWords, HopTrue(c, end), NEW m \in Members, m = Head(left[c])
  PROVE  SourceCode(c, end) \in Codes \ {"pending", "nothing"} /\ CodeTrue(c, m, SourceCode(c, end))
<1>1. SourceCode(c, end) \in Codes \ {"pending", "nothing"}
  BY CodesOf
<1>2. SourceCode(c, end) = IF end = "remote-error" THEN "transport-error" ELSE end
  BY DEF SourceCode, FailureCode, MemberMessageErrorCode
<1>3. QED
  BY <1>1, <1>2 DEF HopTrue, HopWords, CodeTrue, Denials

LEMMA HoppedTruth ==
  ASSUME CallTypes, NEW c \in Calls, Basic(c), Truth(c), Active(c), Op(c) \in Plain,
         NEW end \in HopWords, HopTrue(c, end), HopEnds(c, end), UNCHANGED <<kind, asked, wire,
         taken>>
  PROVE  Truth(c)'
<1> DEFINE h == Head(left[c])
<1> DEFINE codes == Noted(c, end)
<1> DEFINE code == SourceCode(c, end)
<1>1. /\ left[c] \in Seq(Members) /\ left[c] # <<>> /\ IsInjective(left[c])
      /\ report[c] \in [Members -> Codes]
  BY DEF Basic, Listed, CallTypes, WorkTypes
<1>2. h \in Members
  BY <1>1
<1>3. code \in Codes \ {"pending", "nothing"} /\ CodeTrue(c, h, code)
  BY <1>2, SourceCodeTrue
<1>4. codes = [report[c] EXCEPT ![h] = code]
  BY DEF Noted
<1>5. reply'[c] = "none"
  BY ServedOwn
<1> HIDE DEF h, code
<1>6. \A m \in Members : codes[m] = IF m = h THEN code ELSE report[c][m]
  BY <1>1, <1>2, <1>4
<1>7. \A m \in Members : CodeTrue(c, m, codes[m])
  BY <1>3, <1>6 DEF Truth, Reported
<1> HIDE DEF codes
<1>8. CASE Ends(c, codes) /\ Len(left[c]) = 1
  <2>1. \A m \in Members : report[c][m] = "pending" <=> m = h
    BY <1>1, <1>8, OneLeft DEF Active, h
  <2>2. CodesTrue(c, codes)
    BY <1>1, <1>3, <1>6, <1>7, <2>1 DEF CodesTrue
  <2>3. QED
    BY <1>5, <1>8, <2>2, EndedTruth DEF Active
<1>9. CASE GoesOn(c, codes)
  <2>1. /\ job'[c] = "resolving" /\ left'[c] = Tail(left[c]) /\ report'[c] = codes
        /\ Op(c) = "broadcast" /\ answer'[c] = answer[c] /\ client'[c] = client[c]
        /\ told'[c] = told[c]
    BY <1>9 DEF GoesOn
  <2>2. Range(Tail(left[c])) = Range(left[c]) \ {h}
    BY <1>1, TailOf DEF h
  <2>3. \A m \in Members : (Untaken(c, m)' <=> Untaken(c, m)) /\ Op(c)' = "broadcast"
    BY <2>1 DEF Untaken, Op
  <2>4. Sends(c)'
    <3>1. Unsent(c)'
      BY <2>1, <2>2, <2>3 DEF Truth, Sends, Unsent, Active, h
    <3>2. Untouched(c)' /\ OnceTaken(c)' /\ Replied(c)'
      BY <1>5, <2>1 DEF Truth, Sends, Untouched, OnceTaken, Replied
    <3>3. QED
      BY <3>1, <3>2 DEF Sends
  <2>5. Reported(c)'
    <3>1. Op(c)' = "broadcast"
      BY <2>1 DEF Op
    <3>2. QED
      BY <1>7, <2>1, <2>3, <3>1 DEF Reported, CodeTrue
  <2>6. Answered(c)'
    BY <2>1 DEF Truth, Answered, Active, Nothing
  <2>7. Told(c)'
    <3>1. \A m \in Members : ~Never(c, m) \/ job[c] = "opening"
      BY DEF Never, Active
    <3>2. job[c] # "opening"
      BY <2>1 DEF Basic, Listed
    <3>3. QED
      BY <2>1, <2>3, <3>1, <3>2 DEF Truth, Told, WordTrue, Nothing
  <2>8. QED
    BY <2>4, <2>5, <2>6, <2>7 DEF Truth
<1>10. QED
  BY <1>8, <1>9, ServedOwn DEF codes

\* Another stage, nothing sent yet.
LEMMA StageTruth ==
  ASSUME CallTypes, NEW c \in Calls, Truth(c),
         UNCHANGED <<kind, wire, taken, reply, told, client, answer, left, report, signal>>,
         NEW stage \in Stages \ {"none", "over", "sent", "hinting"},
         job' = [job EXCEPT ![c] = stage],
         job[c] \notin {"over", "sent", "hinting"},
         job[c] = "none" => c \in asked,
         job[c] = "opening" => signal[c] = "live",
         stage \in {"begun", "opening", "writing"} =>
           job[c] \in {"none", "begun", "opening", "writing"}
  PROVE  Truth(c)'
<1>1. job'[c] = stage
  BY DEF CallTypes, WorkTypes
<1>2. \A m \in Members : Untaken(c, m)' <=> Untaken(c, m)
  BY DEF Untaken
<1>3. Sends(c)'
  BY <1>1, <1>2 DEF Truth, Sends, Untouched, Unsent, OnceTaken, Replied
<1>4. Reported(c)'
  BY <1>1, <1>2 DEF Truth, Reported, CodeTrue, Op
<1>5. Answered(c)'
  BY <1>1 DEF Truth, Answered, Nothing
<1>6. Told(c)'
  <2>1. \A m \in Members : ~Never(c, m)
    BY DEF Never
  <2>2. QED
    BY <2>1 DEF Truth, Told, WordTrue, Nothing
<1>7. QED
  BY <1>3, <1>4, <1>5, <1>6 DEF Truth

\* The caller hears something, and the job is not touched.
LEMMA HeardTruth ==
  ASSUME CallTypes, NEW c \in Calls, Truth(c), NEW words, Tells(c, words),
         UNCHANGED <<kind, asked, wire, taken, reply, answer, job, left, report>>,
         signal'[c] = signal[c] \/ signal'[c] # "live",
         \A m \in Members :
           /\ Meaning(AskSays(c, words[m])) = "accepted" => taken[c][m] > 0
           /\ Meaning(AskSays(c, words[m])) = "denied" =>
                /\ Untaken(c, m)
                /\ \/ job[c] = "over"
                   \/ job[c] = "none" /\ c \notin asked
                   \/ job[c] = "opening" /\ signal'[c] # "live"
  PROVE  Truth(c)'
<1>1. client' = [client EXCEPT ![c] = "done"]
  BY DEF Tells
<1>2. told' = [told EXCEPT ![c] = [m \in Members |-> AskSays(c, words[m])]]
  BY DEF Tells
<1>3. client'[c] = "done" /\ told'[c] = [m \in Members |-> AskSays(c, words[m])]
  BY <1>1, <1>2 DEF CallTypes, CallerTypes
<1>4. \A m \in Members : Untaken(c, m)' <=> Untaken(c, m)
  BY DEF Untaken
<1>5. Sends(c)'
  BY <1>4 DEF Truth, Sends, Untouched, Unsent, OnceTaken, Replied
<1>6. Reported(c)' /\ Answered(c)'
  BY <1>4 DEF Truth, Reported, CodeTrue, Op, Answered, Nothing
<1>7. ASSUME NEW m \in Members PROVE WordTrue(c, m, told[c][m])'
  <2>1. told'[c][m] = AskSays(c, words[m])
    BY <1>3
  <2>2. Meaning(told'[c][m]) = "denied" => Never(c, m)'
    BY <1>3, <1>4, <2>1 DEF Never
  <2>3. Meaning(told'[c][m]) = "accepted" => taken'[c][m] > 0
    BY <2>1
  <2>4. QED
    BY <2>2, <2>3 DEF WordTrue
<1>8. Told(c)'
  BY <1>3, <1>7 DEF Told
<1>9. QED
  BY <1>5, <1>6, <1>8 DEF Truth

\* A word about the whole call.
LEMMA ToAllHeard ==
  ASSUME NEW c, Op(c) \in Plain, NEW word, word \notin {"nothing", "accepted"}, NEW m \in Members
  PROVE  /\ Meaning(AskSays(c, ToAll(c, word)[m])) # "accepted"
         /\ Meaning(AskSays(c, ToAll(c, word)[m])) = "denied" => word # "outcome-unknown"
<1>1. AskSays(c, ToAll(c, word)[m]) = ToAll(c, word)[m]
  BY DEF AskSays, Plain
<1>2. ToAll(c, word)[m] \in {"nothing", word}
  BY DEF ToAll
<1>3. QED
  BY <1>1, <1>2 DEF Meaning

LEMMA PlainKind ==
  ASSUME NoAsk, NEW c \in Calls, Basic(c), client[c] # "idle"
  PROVE  Op(c) \in Plain
<1>1. kind[c] \in Kinds[c]
  BY DEF Basic, Known
<1>2. Kinds[c] \subseteq Operations \X Surfaces
  BY CallAssumption
<1>3. QED
  BY <1>1, <1>2 DEF NoAsk, Op, Plain

\* What the caller does keeps the truth.
LEMMA CallerTruth ==
  ASSUME NoAsk, CallTypes, NEW c \in Calls, Basic(c), Truth(c),
         \/ DialFails(c) \/ SeeEnd(c) \/ Receive(c)
         \/ \E why \in {"abort", "timeout"} : GiveUp(c, why)
  PROVE  Truth(c)'
<1>1. /\ client[c] \in {"dialing", "waiting"}
      /\ UNCHANGED <<kind, asked, wire, taken, reply, answer, job, left, report, signal>>
  BY DEF DialFails, SeeEnd, Receive, GiveUp, firstHop, secondHop, jobVars
<1>2. Op(c) \in Plain
  BY <1>1, PlainKind
<1>3. client[c] = "dialing" => /\ job[c] = "none" /\ c \notin asked
                               /\ \A m \in Members : Untaken(c, m)
  BY DEF Basic, Entered, Truth, Sends, Untouched
<1>4. ASSUME NEW word, word \notin {"nothing", "accepted"}, Tells(c, ToAll(c, word)),
             client[c] = "dialing" \/ word = "outcome-unknown"
      PROVE  Truth(c)'
  <2> DEFINE words == ToAll(c, word)
  <2>1. \A m \in Members :
          /\ Meaning(AskSays(c, words[m])) # "accepted"
          /\ Meaning(AskSays(c, words[m])) = "denied" => client[c] = "dialing"
    BY <1>2, <1>4, ToAllHeard
  <2> HIDE DEF words
  <2>2. Tells(c, words)
    BY <1>4 DEF words
  <2>3. QED
    BY <1>1, <1>3, <2>1, <2>2, HeardTruth
<1>5. \A why : Lost(c, why) = "outcome-unknown"
  BY <1>2 DEF Lost, Op, Plain
<1>6. CASE DialFails(c)
  <2>1. CASE UNCHANGED <<client, told>>
    BY <1>1, <2>1
    DEF Truth, Sends, Untouched, Unsent, OnceTaken, Replied, Untaken, Reported, CodeTrue,
        Answered, Told, WordTrue, Never, Op, Nothing
  <2>2. CASE \E word \in {"unknown-session", "offline-session"} : Tells(c, ToAll(c, word))
    BY <1>4, <1>6, <2>2 DEF DialFails
  <2>3. QED
    BY <1>6, <2>1, <2>2 DEF DialFails
<1>7. CASE SeeEnd(c)
  BY <1>4, <1>5, <1>7 DEF SeeEnd
<1>8. CASE \E why \in {"abort", "timeout"} : GiveUp(c, why)
  BY <1>4, <1>5, <1>8 DEF GiveUp
<1>9. CASE Receive(c)
  <2> DEFINE words == [m \in Members |-> Says(c, answer[c][m])]
  <2>1. Tells(c, words) /\ answer[c] # Nothing
    BY <1>9 DEF Receive
  <2>2. /\ job[c] = "over" /\ answer[c] = report[c] /\ \A m \in Members : report[c][m] # "pending"
    BY <2>1 DEF Truth, Answered
  <2>3. ASSUME NEW m \in Members
        PROVE  /\ Meaning(AskSays(c, words[m])) = "accepted" => taken[c][m] > 0
               /\ Meaning(AskSays(c, words[m])) = "denied" => Untaken(c, m)
    <3>1. words[m] = Says(c, report[c][m])
      BY <2>2
    <3>2. report[c][m] \in Codes \ {"pending"} /\ CodeTrue(c, m, report[c][m])
      BY <2>2 DEF Truth, Reported, CallTypes, WorkTypes
    <3>3. /\ Meaning(AskSays(c, words[m])) = "accepted" => report[c][m] = "accepted"
          /\ Meaning(AskSays(c, words[m])) = "denied" => report[c][m] \in Denials \cup {"nothing"}
      BY <1>2, <3>1, <3>2, WordsMean
    <3>4. QED
      BY <3>2, <3>3 DEF CodeTrue
  <2> HIDE DEF words
  <2>4. QED
    BY <1>1, <2>1, <2>2, <2>3, HeardTruth
<1>10. QED
  BY <1>6, <1>7, <1>8, <1>9

\* A call is made, refused by its caller's checks, or written to the source.
LEMMA MadeTruth ==
  ASSUME CallTypes, NEW c \in Calls, Basic(c), Truth(c), Start(c) \/ Refuse(c) \/ Dial(c)
  PROVE  Truth(c)'
<1>0. ASSUME client[c] = "idle"
      PROVE  /\ job[c] = "none" /\ c \notin asked /\ answer[c] = Nothing /\ told[c] = Nothing
             /\ \A m \in Members : Untaken(c, m)
  BY <1>0 DEF Basic, Fresh, Truth, Told, Sends, Untouched
<1>1. CASE Start(c)
  <2>1. PICK k \in Kinds[c], w \in Messages[c] : \E to \in To(k), origin \in Origins :
          Starts(c, k, w, to, origin)
    BY <1>1, Starting
  <2>2. PICK to \in To(k), origin \in Origins : Starts(c, k, w, to, origin)
    BY <2>1
  <2>3. /\ client'[c] \in {"waiting", "dialing"} /\ job'[c] \in {"begun", "none"}
        /\ report'[c] = [m \in Members |-> IF m \in Range(to) THEN "pending" ELSE "nothing"]
    BY <2>2 DEF Starts, CallTypes, CallerTypes, WorkTypes
  <2>4. client[c] = "idle" /\ UNCHANGED <<told, answer, wire, taken, reply>>
    BY <1>1 DEF Start, firstHop, secondHop
  <2>5. \A m \in Members : Untaken(c, m)'
    BY <1>0, <2>4 DEF Untaken
  <2>6. Sends(c)'
    BY <1>0, <2>3, <2>4, <2>5 DEF Truth, Sends, Untouched, Unsent, OnceTaken, Replied
  <2>7. Reported(c)'
    BY <2>3, <2>5 DEF Reported, CodeTrue, Denials
  <2>8. Answered(c)' /\ Told(c)'
    BY <1>0, <2>4 DEF Answered, Told, WordTrue, Nothing, Meaning
  <2>9. QED
    BY <2>6, <2>7, <2>8 DEF Truth
<1>2. CASE Refuse(c)
  <2>1. PICK to :
          /\ client' = [client EXCEPT ![c] = "done"]
          /\ told' = [told EXCEPT ![c] =
               [m \in Members |-> IF m \in Range(to) THEN "invalid-input" ELSE "nothing"]]
    BY <1>2, Zenon DEF Refuse
  <2>2. /\ client'[c] = "done"
        /\ told'[c] = [m \in Members |-> IF m \in Range(to) THEN "invalid-input" ELSE "nothing"]
    BY <2>1 DEF CallTypes, CallerTypes
  <2>3. client[c] = "idle" /\ UNCHANGED <<asked, answer, job, left, report, wire, taken, reply>>
    BY <1>2 DEF Refuse, firstHop, secondHop, jobVars
  <2>4. \A m \in Members : Untaken(c, m)'
    BY <1>0, <2>3 DEF Untaken
  <2>5. Sends(c)'
    BY <1>0, <2>3, <2>4 DEF Truth, Sends, Untouched, Unsent, OnceTaken, Replied
  <2>6. Reported(c)' /\ Answered(c)'
    <3>1. report[c] = Nothing
      BY <2>3 DEF Basic, Fresh
    <3>2. QED
      BY <1>0, <2>3, <2>4, <3>1 DEF Reported, CodeTrue, Answered, Nothing, Denials
  <2>7. Told(c)'
    BY <1>0, <2>2, <2>3, <2>4 DEF Told, WordTrue, Never, Meaning
  <2>8. QED
    BY <2>5, <2>6, <2>7 DEF Truth
<1>3. CASE Dial(c)
  <2>1. /\ client[c] = "dialing" /\ client'[c] = "waiting"
        /\ UNCHANGED <<kind, told, answer, job, left, report, signal, wire, taken, reply>>
    BY <1>3 DEF Dial, secondHop, jobVars, CallTypes, CallerTypes
  <2>2. told[c] = Nothing
    BY <2>1 DEF Truth, Told
  <2>3. Sends(c)' /\ Reported(c)' /\ Answered(c)'
    BY <2>1
    DEF Truth, Sends, Untouched, Unsent, OnceTaken, Replied, Untaken, Reported, CodeTrue,
        Answered, Op, Nothing
  <2>4. Told(c)'
    BY <2>1, <2>2 DEF Told, WordTrue, Nothing, Meaning
  <2>5. QED
    BY <2>3, <2>4 DEF Truth
<1>4. QED
  BY <1>1, <1>2, <1>3

\* A target reads the request, and takes it or refuses it.
LEMMA ReadTruth ==
  ASSUME CallTypes, NEW c \in Calls, Truth(c), NEW m \in Members, TargetReads(c, m)
  PROVE  Truth(c)'
<1>1. /\ <<c, m>> \in wire /\ wire' = wire \ {<<c, m>>}
      /\ UNCHANGED <<kind, client, told, asked, answer, job, left, signal, report>>
  BY DEF TargetReads, callerVars, firstHop, jobVars
<1>2. PICK takes \in BOOLEAN :
        /\ taken' = IF takes THEN [taken EXCEPT ![c] = [taken[c] EXCEPT ![m] = taken[c][m] + 1]] ELSE taken
        /\ reply' = IF Listening(c, m) THEN [reply EXCEPT ![c] = IF takes THEN "taken" ELSE "refused"]
                   ELSE reply
  BY DEF TargetReads
<1>3. taken[c] \in [Members -> Nat] /\ taken[c][m] = 0
  BY <1>1 DEF Truth, Sends, OnceTaken, CallTypes, HopTypes
<1>4. \A n \in Members : taken'[c][n] = IF takes /\ n = m THEN 1 ELSE taken[c][n]
  BY <1>2, <1>3 DEF CallTypes, HopTypes
<1>5. reply'[c] = IF Listening(c, m) THEN IF takes THEN "taken" ELSE "refused" ELSE reply[c]
  BY <1>2 DEF CallTypes, HopTypes
<1>6. ~Untaken(c, m)
  BY <1>1 DEF Untaken
<1>7. \A n \in Members \ {m} : Untaken(c, n)' <=> Untaken(c, n)
  BY <1>1, <1>4 DEF Untaken
<1>8. \A n \in Members : Untaken(c, n) => Untaken(c, n)' /\ n # m
  BY <1>6, <1>7
<1>9. Sends(c)'
  <2>1. Untouched(c)' /\ Unsent(c)'
    BY <1>1, <1>8 DEF Truth, Sends, Untouched, Unsent
  <2>2. OnceTaken(c)'
    BY <1>1, <1>4 DEF Truth, Sends, OnceTaken
  <2>3. Replied(c)'
    <3>1. CASE Listening(c, m)
      <4>1. job[c] = "sent" /\ Head(left[c]) = m /\ reply'[c] = IF takes THEN "taken" ELSE "refused"
        BY <1>5, <3>1 DEF Listening
      <4>2. takes => taken'[c][m] = 1
        BY <1>4
      <4>3. ~takes => Untaken(c, m)'
        BY <1>1, <1>3, <1>4 DEF Untaken
      <4>4. QED
        BY <1>1, <4>1, <4>2, <4>3 DEF Replied
    <3>2. CASE ~Listening(c, m)
      <4>1. \A n \in Members : taken[c][n] > 0 => taken'[c][n] > 0
        BY <1>3, <1>4
      <4>2. QED
        BY <1>1, <1>5, <1>8, <3>2, <4>1 DEF Truth, Sends, Replied
    <3>3. QED
      BY <3>1, <3>2
  <2>4. QED
    BY <2>1, <2>2, <2>3 DEF Sends
<1>10. \A n \in Members : taken[c][n] > 0 => taken'[c][n] > 0
  BY <1>3, <1>4
<1>11. Reported(c)'
  BY <1>1, <1>8, <1>10 DEF Truth, Reported, CodeTrue, Op
<1>12. Answered(c)'
  BY <1>1 DEF Truth, Answered, Nothing
<1>13. Told(c)'
  BY <1>1, <1>8, <1>10 DEF Truth, Told, WordTrue, Never, Nothing
<1>14. QED
  BY <1>9, <1>11, <1>12, <1>13 DEF Truth

\* What the source does before a hop, and with an Inbox message.
LEMMA SourceTruth ==
  ASSUME NoAsk, CallTypes, NEW c \in Calls, Basic(c), Truth(c),
         ReadRequest(c) \/ Begin(c) \/ StoreOpened(c) \/ Persist(c) \/ Hinted(c)
  PROVE  Truth(c)'
<1>1. /\ job[c] \in {"none", "begun", "opening", "writing", "hinting"}
      /\ job[c] = "none" => c \in asked
      /\ client[c] # "idle"
      /\ UNCHANGED <<kind, wire, reply, signal>>
  BY DEF ReadRequest, Begin, StoreOpened, Persist, Hinted, Basic, Fresh, Entered, secondHop
<1>2. Op(c) \in Plain
  BY <1>1, PlainKind
<1>3. reply'[c] = "none"
  BY <1>1 DEF Truth, Sends, Replied
<1>4. ASSUME UNCHANGED taken, NEW code \in Codes \ {"pending"}, Ends(c, ToAll(c, code)),
             \A m \in Members : report[c][m] # "nothing" => CodeTrue(c, m, code)
      PROVE  Truth(c)'
  <2>1. CodesTrue(c, ToAll(c, code))
    BY <1>4, ToAllTrue
  <2>2. QED
    BY <1>1, <1>2, <1>3, <1>4, <2>1, EndedTruth
<1>5. ASSUME UNCHANGED taken, job[c] # "hinting",
             NEW code \in {"invalid-params", "invalid-payload", "not-joined", "aborted",
             "storage-failed"},
             Ends(c, ToAll(c, code))
      PROVE  Truth(c)'
  <2>1. \A m \in Members : Untaken(c, m)
    BY <1>1, <1>5 DEF Truth, Sends, Untouched
  <2>2. code \in Codes \ {"pending"} /\ \A m \in Members : CodeTrue(c, m, code)
    BY <1>5, <2>1 DEF CodeTrue, Codes, Denials
  <2>3. QED
    BY <1>4, <1>5, <2>2
<1>6. ASSUME UNCHANGED <<taken, client, told, answer, left, report>>,
             NEW stage \in {"begun", "opening", "resolving", "writing"},
             job' = [job EXCEPT ![c] = stage],
             job[c] # "hinting", job[c] = "opening" => signal[c] = "live"
      PROVE  Truth(c)'
  <2>1. stage \in Stages \ {"none", "over", "sent", "hinting"}
    BY <1>6 DEF Stages
  <2>2. QED
    BY <1>1, <1>6, <2>1, StageTruth
<1>7. CASE ReadRequest(c)
  BY <1>1, <1>5, <1>6, <1>7 DEF ReadRequest, Basic, Entered
<1>8. CASE Begin(c)
  <2>1. job[c] = "begun" /\ UNCHANGED taken
    BY <1>8 DEF Begin
  <2>2. CASE \E code \in {"not-joined", "invalid-payload"} : Ends(c, ToAll(c, code))
    BY <1>5, <2>1, <2>2
  <2>3. CASE /\ \E stage \in {"opening", "resolving"} : job' = [job EXCEPT ![c] = stage]
             /\ UNCHANGED <<client, told, answer, left, report>>
    BY <1>6, <2>1, <2>3
  <2>4. QED
    BY <1>8, <2>2, <2>3 DEF Begin
<1>9. CASE StoreOpened(c)
  BY <1>5, <1>6, <1>9 DEF StoreOpened
<1>10. CASE Hinted(c)
  <2>1. job[c] = "hinting" /\ Ends(c, ToAll(c, "accepted")) /\ UNCHANGED taken
    BY <1>10 DEF Hinted
  <2>2. Op(c) = "inbox" /\ left[c] # <<>> /\ Len(left[c]) = 1
    <3>1. Op(c) = "inbox" /\ left[c] # <<>> /\ Len(left[c]) <= 1
      BY <2>1 DEF Basic, Listed, Active
    <3>2. left[c] \in Seq(Members)
      BY DEF CallTypes, WorkTypes
    <3>3. QED
      BY <3>1, <3>2, MoreThanOne
  <2>3. \A m \in Members : report[c][m] = "pending" <=> m = Head(left[c])
    BY <2>1, <2>2, OneLeft
  <2>4. \A m \in Members : report[c][m] \in {"pending", "nothing"}
    BY <2>1, <2>2 DEF Truth, Reported
  <2>5. \A m \in Members : m = Head(left[c]) => taken[c][m] > 0
    BY <2>1 DEF Truth, Sends, Replied
  <2>6. \A m \in Members : report[c][m] # "nothing" => CodeTrue(c, m, "accepted")
    BY <2>3, <2>4, <2>5 DEF CodeTrue, Denials
  <2>7. "accepted" \in Codes \ {"pending"}
    BY DEF Codes
  <2>8. QED
    BY <1>4, <2>1, <2>6, <2>7
<1>11. CASE Persist(c)
  <2>1. job[c] = "writing"
    BY <1>11 DEF Persist
  <2>2. CASE Ends(c, ToAll(c, "storage-failed")) /\ UNCHANGED taken
    BY <1>5, <2>1, <2>2
  <2>3. CASE /\ taken' = [taken EXCEPT ![c] = [taken[c] EXCEPT ![Head(left[c])] = taken[c][Head(left[c])] + 1]]
             /\ job' = [job EXCEPT ![c] = "hinting"]
             /\ UNCHANGED <<client, told, answer, left, report, asked>>
    <3> DEFINE h == Head(left[c])
    <3>1. left[c] \in Seq(Members) /\ left[c] # <<>> /\ h \in Members
      <4>1. left[c] \in Seq(Members) /\ left[c] # <<>>
        BY <2>1 DEF Basic, Listed, Active, CallTypes, WorkTypes
      <4>2. QED
        BY <4>1
    <3>2. job'[c] = "hinting"
      BY <2>3 DEF CallTypes, WorkTypes
    <3>3. \A m \in Members : Untaken(c, m)
      BY <2>1 DEF Truth, Sends, Untouched
    <3>4. taken[c] \in [Members -> Nat]
      BY DEF CallTypes, HopTypes
    <3> HIDE DEF h
    <3>5. taken'[c] = [taken[c] EXCEPT ![h] = taken[c][h] + 1]
      BY <2>3 DEF CallTypes, HopTypes, h
    <3>6. \A m \in Members : taken'[c][m] = IF m = h THEN 1 ELSE 0
      <4>1. \A m \in Members : taken[c][m] = 0
        BY <3>3 DEF Untaken
      <4>2. \A m \in Members : taken'[c][m] = IF m = h THEN taken[c][h] + 1 ELSE taken[c][m]
        BY <3>1, <3>4, <3>5
      <4>3. QED
        BY <3>1, <4>1, <4>2
    <3>7. \A m \in Members \ {h} : Untaken(c, m)'
      BY <1>1, <3>3, <3>6 DEF Untaken
    <3>8. Sends(c)'
      <4>1. Untouched(c)' /\ OnceTaken(c)'
        BY <1>1, <3>2, <3>3 DEF Untouched, OnceTaken, Untaken
      <4>2. Unsent(c)'
        BY <2>3, <3>2, <3>7 DEF Unsent, h
      <4>3. Replied(c)'
        BY <1>3, <2>3, <3>2, <3>6 DEF Replied, h
      <4>4. QED
        BY <4>1, <4>2, <4>3 DEF Sends
    <3>9. \A m \in Members : report[c][m] # "nothing" => report[c][m] = "pending"
      <4>1. Op(c) # "broadcast"
        BY <2>1 DEF Basic, Listed
      <4>2. QED
        BY <2>1, <4>1 DEF Truth, Reported
    <3>10. Reported(c)'
      <4>1. report[c][h] = "pending"
        <5>1. h \in Range(left[c])
          BY <3>1, TailOf DEF Basic, Listed, h
        <5>2. QED
          BY <2>1, <3>1, <5>1 DEF Basic, Listed
      <4>2. \A m \in Members : CodeTrue(c, m, report[c][m])'
        BY <2>3, <3>7, <3>9, <4>1 DEF CodeTrue, Denials
      <4>3. QED
        BY <2>3, <3>9, <4>2 DEF Reported
    <3>11. Answered(c)'
      BY <2>1, <2>3 DEF Truth, Answered, Nothing
    <3>12. Told(c)'
      <4>1. \A m \in Members : ~Never(c, m)
        BY <2>1 DEF Never
      <4>2. \A m \in Members : Meaning(told[c][m]) # "denied" /\ Meaning(told[c][m]) # "accepted"
        <5>1. \A m \in Members : taken[c][m] = 0
          BY <3>3 DEF Untaken
        <5>2. \A m \in Members : ~(taken[c][m] > 0)
          BY <5>1
        <5>3. QED
          BY <4>1, <5>2 DEF Truth, Told, WordTrue
      <4>3. QED
        BY <2>3, <4>2 DEF Truth, Told, WordTrue, Nothing
    <3>13. QED
      BY <3>8, <3>10, <3>11, <3>12 DEF Truth
  <2>4. QED
    BY <1>11, <2>2, <2>3 DEF Persist, firstHop
<1>12. QED
  BY <1>7, <1>8, <1>9, <1>10, <1>11

\* Before anything is written for a recipient, the end of its hop may deny it.
LEMMA UnsentTrue ==
  ASSUME CallTypes, NEW c \in Calls, Basic(c), Truth(c), Active(c), job[c] \notin {"sent",
         "hinting"},
         NEW end, end # "accepted"
  PROVE  HopTrue(c, end)
<1>1. left[c] \in Seq(Members) /\ left[c] # <<>> /\ IsInjective(left[c])
  BY DEF Basic, Listed, CallTypes, WorkTypes
<1>2. Head(left[c]) \in Range(left[c])
  BY <1>1, TailOf
<1>3. \A m \in Members : m = Head(left[c]) => Untaken(c, m)
  BY <1>2 DEF Truth, Sends, Unsent, Active
<1>4. QED
  BY <1>3 DEF HopTrue

\* The steps of a hop keep the truth.
LEMMA HopTruth ==
  ASSUME NoAsk, CallTypes, NEW c \in Calls, Basic(c), Truth(c),
         \/ Resolved(c) \/ RunQueued(c) \/ HopDials(c) \/ HopTimeout(c) \/ HopAnswered(c)
         \/ NoticeClose(c) \/ \E why \in {"aborted", "expired"} : LocalGiveUp(c, why)
  PROVE  Truth(c)'
<1>1. Active(c) /\ client[c] # "idle" /\ UNCHANGED <<kind, asked, taken>>
  BY DEF Resolved, RunQueued, HopDials, HopTimeout, HopAnswered, NoticeClose,
       LocalGiveUp, Cancel, Active, Basic, Fresh
<1>2. Op(c) \in Plain
  BY <1>1, PlainKind
<1>3. ASSUME UNCHANGED wire, NEW end \in HopWords, HopTrue(c, end), HopEnds(c, end) PROVE Truth(c)'
  BY <1>1, <1>2, <1>3, HoppedTruth
<1>4. \A why : HopLost(c, why) = "outcome-unknown"
  BY <1>2 DEF HopLost, Plain
<1>5. /\ {"aborted", "timeout", "offline", "accepted", "remote-error", "outcome-unknown"} \subseteq HopWords
      /\ HopTrue(c, "outcome-unknown")
  BY DEF HopWords, HopTrue
<1>6. ASSUME UNCHANGED <<wire, signal>>, job[c] \in {"resolving", "queued"}, HopStarts(c)
      PROVE Truth(c)'
  <2>1. CASE HopEnds(c, "aborted")
    <3>1. HopTrue(c, "aborted")
      BY <1>1, <1>6, UnsentTrue
    <3>2. QED
      BY <1>3, <1>5, <1>6, <2>1, <3>1
  <2>2. CASE /\ job' = [job EXCEPT ![c] = "dialing"]
             /\ UNCHANGED <<client, told, answer, left, report, reply>>
    <3>1. "dialing" \in Stages \ {"none", "over", "sent", "hinting"}
      BY DEF Stages
    <3>2. QED
      BY <1>1, <1>6, <2>2, <3>1, StageTruth
  <2>3. QED
    BY <1>6, <2>1, <2>2 DEF HopStarts
<1>7. CASE Resolved(c)
  <2>1. job[c] = "resolving" /\ UNCHANGED <<wire, signal>>
    BY <1>7 DEF Resolved
  <2>2. CASE /\ job' = [job EXCEPT ![c] = "queued"]
             /\ UNCHANGED <<client, told, answer, left, report, reply>>
    <3>1. "queued" \in Stages \ {"none", "over", "sent", "hinting"}
      BY DEF Stages
    <3>2. QED
      BY <1>1, <2>1, <2>2, <3>1, StageTruth
  <2>3. QED
    BY <1>6, <1>7, <2>1, <2>2 DEF Resolved
<1>8. CASE RunQueued(c)
  BY <1>6, <1>8 DEF RunQueued
<1>9. CASE HopDials(c)
  <2>1. job[c] = "dialing" /\ UNCHANGED signal
    BY <1>9 DEF HopDials
  <2>2. CASE HopEnds(c, "offline") /\ UNCHANGED wire
    <3>1. HopTrue(c, "offline")
      BY <1>1, <2>1, UnsentTrue
    <3>2. QED
      BY <1>3, <1>5, <2>2, <3>1
  <2>3. CASE /\ job' = [job EXCEPT ![c] = "sent"] /\ wire' = wire \cup {<<c, Head(left[c])>>}
             /\ UNCHANGED <<client, told, answer, left, report, reply>>
    <3> DEFINE h == Head(left[c])
    <3>1. job'[c] = "sent"
      BY <2>3 DEF CallTypes, WorkTypes
    <3>2. \A m \in Members : m = h => Untaken(c, m)
      <4>1. HopTrue(c, "offline")
        BY <1>1, <2>1, UnsentTrue
      <4>2. QED
        BY <4>1 DEF HopTrue
    <3> HIDE DEF h
    <3>3. \A m \in Members : m # h => (Untaken(c, m)' <=> Untaken(c, m))
      BY <1>1, <2>3 DEF Untaken, h
    <3>4. reply[c] = "none"
      BY <2>1 DEF Truth, Sends, Replied
    <3>5. Sends(c)'
      <4>1. Unsent(c)'
        BY <2>1, <2>3, <3>1, <3>3 DEF Truth, Sends, Unsent, h
      <4>2. OnceTaken(c)'
        BY <1>1, <2>3, <3>2 DEF Truth, Sends, OnceTaken, Untaken, h
      <4>3. Untouched(c)' /\ Replied(c)'
        BY <2>3, <3>1, <3>4 DEF Untouched, Replied
      <4>4. QED
        BY <4>1, <4>2, <4>3 DEF Sends
    <3>6. \A m \in Members : m = h => report[c][m] = "pending"
      <4>1. left[c] \in Seq(Members) /\ left[c] # <<>> /\ IsInjective(left[c])
        BY <1>1 DEF Basic, Listed, CallTypes, WorkTypes
      <4>2. h \in Range(left[c])
        BY <4>1, TailOf DEF h
      <4>3. QED
        BY <2>1, <4>2 DEF Basic, Listed
    <3>7. Reported(c)'
      <4>1. \A m \in Members : CodeTrue(c, m, report[c][m])'
        BY <1>1, <2>3, <3>3, <3>6 DEF Truth, Reported, CodeTrue, Denials
      <4>2. QED
        BY <1>1, <2>1, <2>3, <4>1 DEF Truth, Reported, Op
    <3>8. Answered(c)'
      BY <2>1, <2>3 DEF Truth, Answered, Nothing
    <3>9. Told(c)'
      <4>1. \A m \in Members : ~Never(c, m)
        BY <2>1 DEF Never
      <4>2. QED
        BY <1>1, <2>3, <4>1 DEF Truth, Told, WordTrue, Nothing
    <3>10. QED
      BY <3>5, <3>7, <3>8, <3>9 DEF Truth
  <2>4. QED
    BY <1>9, <2>2, <2>3 DEF HopDials
<1>10. CASE HopTimeout(c)
  <2>1. CASE job[c] = "sent"
    BY <1>3, <1>4, <1>5, <1>10, <2>1 DEF HopTimeout
  <2>2. CASE job[c] = "dialing"
    <3>1. HopTrue(c, "timeout")
      BY <1>1, <2>2, UnsentTrue
    <3>2. QED
      BY <1>3, <1>5, <1>10, <2>2, <3>1 DEF HopTimeout
  <2>3. QED
    BY <1>10, <2>1, <2>2 DEF HopTimeout
<1>11. CASE HopAnswered(c)
  <2>1. reply[c] \in {"taken", "refused", "ended"} /\ UNCHANGED wire
    BY <1>11 DEF HopAnswered, CallTypes, HopTypes
  <2>2. left[c] \in Seq(Members) /\ left[c] # <<>>
    BY <1>1 DEF Basic, Listed, CallTypes, WorkTypes
  <2>3. Head(left[c]) \in Members
    BY <2>2
  <2>4. CASE reply[c] = "taken"
    <3>1. HopTrue(c, "accepted") /\ HopEnds(c, "accepted")
      BY <1>11, <2>3, <2>4 DEF HopAnswered, HopTrue, Truth, Sends, Replied
    <3>2. QED
      BY <1>3, <1>5, <2>1, <3>1
  <2>5. CASE reply[c] = "refused"
    <3>1. HopTrue(c, "remote-error") /\ HopEnds(c, "remote-error")
      BY <1>11, <2>3, <2>5 DEF HopAnswered, HopTrue, Truth, Sends, Replied
    <3>2. QED
      BY <1>3, <1>5, <2>1, <3>1
  <2>6. CASE reply[c] = "ended"
    BY <1>3, <1>4, <1>5, <1>11, <2>1, <2>6 DEF HopAnswered
  <2>7. QED
    BY <2>1, <2>4, <2>5, <2>6
<1>12. ASSUME NEW why \in {"aborted", "expired"}, Cancel(c, why) PROVE Truth(c)'
  <2>1. UNCHANGED wire /\ signal'[c] # "live"
    BY <1>12 DEF Cancel, CallTypes, WorkTypes
  <2>2. CASE job[c] = "sent"
    BY <1>3, <1>4, <1>5, <1>12, <2>1, <2>2 DEF Cancel
  <2>3. CASE job[c] = "dialing"
    <3>1. HopTrue(c, "aborted")
      BY <1>1, <2>3, UnsentTrue
    <3>2. QED
      BY <1>3, <1>5, <1>12, <2>1, <2>3, <3>1 DEF Cancel
  <2>4. CASE job[c] \notin {"dialing", "sent"}
    <3>1. UNCHANGED <<answer, job, left, report, reply>>
      BY <1>12, <2>4 DEF Cancel
    <3>2. CASE UNCHANGED <<client, told>>
      <4>1. Sends(c)' /\ Reported(c)' /\ Answered(c)'
        BY <1>1, <2>1, <3>1, <3>2
        DEF Truth, Sends, Untouched, Unsent, OnceTaken, Replied, Untaken, Reported, CodeTrue,
            Answered, Op, Nothing
      <4>2. \A m \in Members : Never(c, m) => Never(c, m)'
        BY <1>1, <2>1, <3>1, <3>2 DEF Never, Untaken
      <4>3. Told(c)'
        BY <1>1, <3>2, <4>2 DEF Truth, Told, WordTrue, Nothing
      <4>4. QED
        BY <4>1, <4>3 DEF Truth
    <3>3. ASSUME NEW word, Tells(c, ToAll(c, word)), word \notin {"nothing", "accepted"},
                 job[c] = "opening" \/ word = "outcome-unknown"
          PROVE  Truth(c)'
      <4> DEFINE words == ToAll(c, word)
      <4>1. \A m \in Members : job[c] = "opening" => Untaken(c, m)
        BY DEF Truth, Sends, Untouched
      <4>2. \A m \in Members :
              /\ Meaning(AskSays(c, words[m])) # "accepted"
              /\ Meaning(AskSays(c, words[m])) = "denied" => job[c] = "opening"
        BY <1>2, <3>3, ToAllHeard
      <4> HIDE DEF words
      <4>3. Tells(c, words)
        BY <3>3 DEF words
      <4>4. QED
        BY <1>1, <2>1, <3>1, <4>1, <4>2, <4>3, HeardTruth
    <3>4. \/ UNCHANGED <<client, told>>
          \/ /\ job[c] \in {"opening", "writing", "hinting"}
             /\ Tells(c, ToAll(c, IF job[c] # "opening" THEN "outcome-unknown"
                                 ELSE IF why = "expired" THEN "timeout" ELSE "aborted"))
      BY <1>12, <2>4 DEF Cancel
    <3>5. CASE Tells(c, ToAll(c, IF job[c] # "opening" THEN "outcome-unknown"
                               ELSE IF why = "expired" THEN "timeout" ELSE "aborted"))
      BY <3>3, <3>5
    <3>6. QED
      BY <3>2, <3>4, <3>5
  <2>5. QED
    BY <2>2, <2>3, <2>4
<1>13. CASE NoticeClose(c) \/ \E why \in {"aborted", "expired"} : LocalGiveUp(c, why)
  BY <1>12, <1>13 DEF NoticeClose, LocalGiveUp
<1>14. QED
  BY <1>7, <1>8, <1>9, <1>10, <1>11, <1>13

LEMMA ActsTruth ==
  ASSUME NoAsk, CallTypes, NEW c \in Calls, Basic(c), Truth(c), Acts(c)
  PROVE  Truth(c)'
<1>1. CASE Start(c) \/ Refuse(c) \/ Dial(c)
  BY <1>1, MadeTruth
<1>2. CASE \/ DialFails(c) \/ SeeEnd(c) \/ Receive(c)
           \/ \E why \in {"abort", "timeout"} : GiveUp(c, why)
  BY <1>2, CallerTruth
<1>3. CASE ReadRequest(c) \/ Begin(c) \/ StoreOpened(c) \/ Persist(c) \/ Hinted(c)
  BY <1>3, SourceTruth
<1>4. CASE \/ Resolved(c) \/ RunQueued(c) \/ HopDials(c) \/ HopTimeout(c) \/ HopAnswered(c)
           \/ NoticeClose(c) \/ \E why \in {"aborted", "expired"} : LocalGiveUp(c, why)
  BY <1>4, HopTruth
<1>5. CASE \E m \in Members : TargetReads(c, m)
  BY <1>5, ReadTruth
<1>6. QED
  BY <1>1, <1>2, <1>3, <1>4, <1>5 DEF Acts, CallStep

\* Processes end and start: what was written and not read may be lost.
LEMMA RestartsTruth ==
  ASSUME CallTypes, NEW c \in Calls, Basic(c), Truth(c),
         Restarts \/ SourceExit \/ UNCHANGED callVars
  PROVE  Truth(c)'
<1>1. ASSUME UNCHANGED <<callerVars, firstHop, jobVars, taken>>, wire' \subseteq wire,
             reply'[c] = reply[c] \/ (reply'[c] = "ended" /\ job[c] = "sent")
      PROVE  Truth(c)'
  <2>1. UNCHANGED <<kind, client, told, asked, answer, job, left, signal, report>>
    BY <1>1 DEF callerVars, firstHop, jobVars
  <2>2. \A m \in Members : Untaken(c, m) => Untaken(c, m)'
    BY <1>1 DEF Untaken
  <2>3. Sends(c)'
    BY <1>1, <2>1, <2>2 DEF Truth, Sends, Untouched, Unsent, OnceTaken, Replied
  <2>4. Reported(c)' /\ Answered(c)'
    BY <1>1, <2>1, <2>2 DEF Truth, Reported, CodeTrue, Op, Answered, Nothing
  <2>5. Told(c)'
    BY <1>1, <2>1, <2>2 DEF Truth, Told, WordTrue, Never, Nothing
  <2>6. QED
    BY <2>3, <2>4, <2>5 DEF Truth
<1>2. CASE \E m \in Members : TargetExit(m)
  <2>1. PICK m \in Members : TargetExit(m)
    BY <1>2
  <2>2. reply'[c] = IF Listening(c, m) /\ reply[c] = "none" THEN "ended" ELSE reply[c]
    BY <2>1 DEF TargetExit
  <2>3. QED
    BY <1>1, <2>1, <2>2 DEF TargetExit, Listening
<1>3. CASE (\E m \in Members : TargetStart(m)) \/ SourceStart \/ UNCHANGED callVars
  BY <1>1, <1>3 DEF TargetStart, SourceStart, callVars, secondHop
<1>4. CASE SourceExit
  <2>1. /\ UNCHANGED <<kind, told, answer, signal, report, wire, taken>> /\ asked' = {}
        /\ client'[c] = IF client[c] = "waiting" /\ ~Remote(c) THEN "gone" ELSE client[c]
        /\ job'[c] = IF Active(c) THEN "over" ELSE job[c]
        /\ left'[c] = IF Active(c) THEN <<>> ELSE left[c]
        /\ reply'[c] = "none"
    BY <1>4 DEF SourceExit
  <2>2. \A m \in Members : Untaken(c, m)' <=> Untaken(c, m)
    BY <2>1 DEF Untaken
  <2>3. \/ job'[c] = job[c] /\ left'[c] = left[c]
        \/ job'[c] = "over" /\ Active(c)
    BY <2>1
  <2>4. job'[c] \in {"none", "over"}
    BY <2>1 DEF Active
  <2>5. Sends(c)'
    BY <2>1, <2>2, <2>3, <2>4 DEF Truth, Sends, Untouched, Unsent, OnceTaken, Replied
  <2>6. Reported(c)' /\ Answered(c)'
    BY <2>1, <2>2, <2>3, <2>4 DEF Truth, Reported, CodeTrue, Op, Answered, Nothing, Active
  <2>7. ASSUME NEW m \in Members, Never(c, m) PROVE Never(c, m)'
    BY <2>1, <2>2, <2>3, <2>7 DEF Never
  <2>8. Told(c)'
    BY <2>1, <2>7 DEF Truth, Told, WordTrue, Nothing
  <2>9. QED
    BY <2>5, <2>6, <2>8 DEF Truth
<1>5. QED
  BY <1>2, <1>3, <1>4 DEF Restarts

TruthInv == BasicInv /\ \A c \in Calls : Truth(c)

LEMMA TruthInitially == CallInit => TruthInv
<1>1. SUFFICES ASSUME CallInit, NEW c \in Calls PROVE Truth(c)
  BY BasicInitially DEF TruthInv
<1>2. /\ client[c] = "idle" /\ told[c] = Nothing /\ answer[c] = Nothing /\ job[c] = "none"
      /\ left[c] = <<>> /\ report[c] = Nothing /\ wire = {} /\ reply[c] = "none"
      /\ taken[c] = [m \in Members |-> 0]
  BY <1>1 DEF CallInit
<1>3. \A m \in Members : Untaken(c, m) /\ Nothing[m] = "nothing"
  BY <1>2 DEF Untaken, Nothing
<1>4. Sends(c)
  BY <1>2, <1>3 DEF Sends, Untouched, Unsent, OnceTaken, Replied
<1>5. Reported(c) /\ Answered(c) /\ Told(c)
  BY <1>2, <1>3 DEF Reported, CodeTrue, Answered, Told, WordTrue, Meaning
<1>6. QED
  BY <1>4, <1>5 DEF Truth

LEMMA TruthKept ==
  ASSUME NoAsk
  PROVE  TruthInv /\ [Next]_callVars => TruthInv'
<1> SUFFICES ASSUME TruthInv, [Next]_callVars PROVE TruthInv'
  OBVIOUS
<1>1. BasicInv' /\ CallTypes
  BY BasicKept DEF TruthInv, BasicInv
<1>2. CASE \E c \in Calls : Acts(c)
  <2>1. PICK c \in Calls : Acts(c)
    BY <1>2
  <2>2. Truth(c)'
    BY <1>1, <2>1, ActsTruth DEF TruthInv, BasicInv
  <2>3. ASSUME NEW d \in Calls \ {c} PROVE Truth(d)'
    <3>1. Same(d) /\ Truth(d)
      BY <1>1, <2>1, OthersSame DEF TruthInv
    <3>2. QED
      BY <3>1, SameTruth
  <2>4. QED
    BY <1>1, <2>2, <2>3 DEF TruthInv
<1>3. CASE Restarts \/ SourceExit \/ UNCHANGED callVars
  BY <1>1, <1>3, RestartsTruth DEF TruthInv, BasicInv
<1>4. QED
  BY <1>2, <1>3, StepsOf DEF Restarts

\* A step of a call either tells its caller something, who had heard nothing, or has
\* a target take its message, and never both.
LEMMA TellsOrTakes ==
  ASSUME TruthInv, NEW c \in Calls, Acts(c)
  PROVE  \/ taken' = taken /\ (told'[c] = told[c] \/ told[c] = Nothing)
         \/ /\ told' = told
            /\ \E m \in Members :
                 /\ taken' = [taken EXCEPT ![c] = [taken[c] EXCEPT ![m] = taken[c][m] + 1]]
                 /\ taken[c][m] = 0 /\ ~Never(c, m)
<1>0. CallTypes /\ Basic(c) /\ Truth(c)
  BY DEF TruthInv, BasicInv
<1>1. CASE \E m \in Members : TargetReads(c, m)
  <2>1. PICK m \in Members : TargetReads(c, m)
    BY <1>1
  <2>2. <<c, m>> \in wire /\ taken[c][m] = 0 /\ ~Never(c, m)
    BY <1>0, <2>1 DEF TargetReads, Truth, Sends, OnceTaken, Never, Untaken
  <2>3. \/ taken' = [taken EXCEPT ![c] = [taken[c] EXCEPT ![m] = taken[c][m] + 1]]
        \/ taken' = taken
    BY <2>1 DEF TargetReads
  <2>4. told' = told
    BY <2>1 DEF TargetReads, callerVars
  <2>5. QED
    BY <2>2, <2>3, <2>4
<1>2. ASSUME client[c] \in {"idle", "dialing", "waiting"} PROVE told[c] = Nothing
  BY <1>0, <1>2 DEF Truth, Told
<1>3. ASSUME NEW codes, Ends(c, codes) PROVE told'[c] = told[c] \/ told[c] = Nothing
  BY <1>0, <1>2, <1>3, EndsOwn
<1>4. ASSUME Active(c), NEW end, HopEnds(c, end) PROVE told'[c] = told[c] \/ told[c] = Nothing
  BY <1>0, <1>3, <1>4, ServedOwn DEF GoesOn
<1>5. CASE Persist(c)
  <2>1. CASE \E codes : Ends(c, codes) /\ taken' = taken
    BY <1>3, <2>1
  <2>2. CASE /\ taken' = [taken EXCEPT ![c] =
                   [taken[c] EXCEPT ![Head(left[c])] = taken[c][Head(left[c])] + 1]]
             /\ told' = told
    <3> DEFINE h == Head(left[c])
    <3>1. left[c] \in Seq(Members) /\ left[c] # <<>> /\ job[c] = "writing"
      BY <1>0, <1>5 DEF Persist, Basic, Listed, Active, CallTypes, WorkTypes
    <3>2. h \in Members
      BY <3>1
    <3> HIDE DEF h
    <3>3. taken[c][h] = 0 /\ ~Never(c, h)
      BY <1>0, <3>1, <3>2 DEF Truth, Sends, Untouched, Untaken, Never
    <3>4. taken' = [taken EXCEPT ![c] = [taken[c] EXCEPT ![h] = taken[c][h] + 1]]
      BY <2>2 DEF h
    <3>5. QED
      BY <2>2, <3>2, <3>3, <3>4
  <2>3. QED
    BY <1>5, <2>1, <2>2 DEF Persist
<1>6. CASE Start(c) \/ Refuse(c) \/ Dial(c)
  BY <1>2, <1>6 DEF Start, Refuse, Dial
<1>7. CASE \/ DialFails(c) \/ SeeEnd(c) \/ Receive(c)
           \/ \E why \in {"abort", "timeout"} : GiveUp(c, why)
  BY <1>2, <1>7 DEF DialFails, SeeEnd, Receive, GiveUp
<1>8. CASE ReadRequest(c) \/ Begin(c) \/ StoreOpened(c) \/ Hinted(c)
  <2>1. taken' = taken /\ (UNCHANGED told \/ \E codes : Ends(c, codes))
    BY <1>8 DEF ReadRequest, Begin, StoreOpened, Hinted
  <2>2. QED
    BY <1>3, <2>1
<1>9. CASE Resolved(c) \/ RunQueued(c) \/ HopDials(c) \/ HopTimeout(c) \/ HopAnswered(c)
  <2>1. taken' = taken /\ Active(c) /\ (UNCHANGED told \/ \E end : HopEnds(c, end))
    BY <1>9 DEF Resolved, RunQueued, HopDials, HopTimeout, HopAnswered, HopStarts, Active
  <2>2. QED
    BY <1>4, <2>1
<1>10. ASSUME NEW why, Cancel(c, why), Active(c), Remote(c) \/ client[c] = "waiting"
       PROVE  taken' = taken /\ (told'[c] = told[c] \/ told[c] = Nothing)
  <2>1. CASE job[c] \in {"dialing", "sent"}
    <3>1. \E end : HopEnds(c, end)
      BY <1>10, <2>1 DEF Cancel
    <3>2. QED
      BY <1>4, <1>10, <3>1 DEF Cancel
  <2>2. CASE job[c] \notin {"dialing", "sent"}
    BY <1>2, <1>10, <2>2 DEF Cancel
  <2>3. QED
    BY <2>1, <2>2
<1>11. CASE NoticeClose(c) \/ \E why \in {"aborted", "expired"} : LocalGiveUp(c, why)
  BY <1>10, <1>11 DEF NoticeClose, LocalGiveUp
<1>12. QED
  BY <1>1, <1>5, <1>6, <1>7, <1>8, <1>9, <1>11 DEF Acts, CallStep

\* A step of a call is one of the promise.
LEMMA ActsPromise ==
  ASSUME TruthInv, TruthInv', NEW c \in Calls, Acts(c)
  PROVE  [Promise!Next]_(Promise!vars)
<1> DEFINE All == Calls \X Members
<1> DEFINE has == {s \in All : taken[s[1]][s[2]] > 0}
<1> DEFINE said == [s \in All |-> Meaning(told[s[1]][s[2]])]
<1>0. CallTypes
  BY DEF TruthInv, BasicInv
<1>1. \A s \in All : said[s] = Meaning(told[s[1]][s[2]]) /\ said'[s] = Meaning(told'[s[1]][s[2]])
  OBVIOUS
<1>2. said' = [s \in All |-> Meaning(told'[s[1]][s[2]])]
  OBVIOUS
<1>3. has' = {s \in All : taken'[s[1]][s[2]] > 0}
  OBVIOUS
<1>4. CASE taken' = taken /\ (told'[c] = told[c] \/ told[c] = Nothing)
  <2>1. said' \in [All -> Promise!Words]
    BY <1>2 DEF Meaning, Promise!Words
  <2>2. has' = has
    BY <1>3, <1>4
  <2>3. ASSUME NEW s \in All
        PROVE  said'[s] = said[s] \/ (said[s] = "nothing" /\ Promise!Truthful(s, said'[s]))
    <3>1. PICK d \in Calls, m \in Members : s = <<d, m>>
      BY <2>3
    <3>2. said[s] = Meaning(told[d][m]) /\ said'[s] = Meaning(told'[d][m])
      BY <1>1, <3>1
    <3>3. CASE told'[d] = told[d]
      BY <3>2, <3>3
    <3>4. CASE d = c /\ told[c] = Nothing
      <4>1. said[s] = "nothing"
        BY <3>2, <3>4 DEF Nothing, Meaning
      <4>2. WordTrue(c, m, told[c][m])'
        BY DEF TruthInv, Truth, Told
      <4>3. /\ said'[s] = "accepted" => taken[c][m] > 0
            /\ said'[s] = "denied" => taken[c][m] = 0
        BY <1>4, <3>2, <3>4, <4>2 DEF WordTrue, Never, Untaken
      <4>4. s \in has <=> taken[c][m] > 0
        BY <3>1, <3>4
      <4>5. taken[c][m] \in Nat
        BY <1>0 DEF CallTypes, HopTypes
      <4>6. said'[s] = "denied" => s \notin has
        BY <4>3, <4>4, <4>5
      <4>7. Promise!Truthful(s, said'[s])
        BY <4>3, <4>4, <4>6 DEF Promise!Truthful
      <4>8. QED
        BY <4>1, <4>7
    <3>5. CASE d # c
      <4>1. Same(d)
        BY <1>0, <3>5, OthersSame
      <4>2. QED
        BY <3>3, <4>1 DEF Same
    <3>6. QED
      BY <1>4, <3>3, <3>4, <3>5
  <2>4. Promise!Tell
    BY <2>1, <2>2, <2>3 DEF Promise!Tell
  <2>5. QED
    BY <2>4 DEF Promise!Next
<1>5. CASE /\ told' = told
           /\ \E m \in Members :
                 /\ taken' = [taken EXCEPT ![c] = [taken[c] EXCEPT ![m] = taken[c][m] + 1]]
                 /\ taken[c][m] = 0 /\ ~Never(c, m)
  <2>1. PICK m \in Members :
          /\ taken' = [taken EXCEPT ![c] = [taken[c] EXCEPT ![m] = taken[c][m] + 1]]
          /\ taken[c][m] = 0 /\ ~Never(c, m)
    BY <1>5
  <2> DEFINE s == <<c, m>>
  <2>2. s \in All /\ s[1] = c /\ s[2] = m
    OBVIOUS
  <2>3. taken \in [Calls -> [Members -> Nat]]
    BY <1>0 DEF CallTypes, HopTypes
  <2>4. \A d \in Calls, n \in Members :
          taken'[d][n] = IF d = c /\ n = m THEN 1 ELSE taken[d][n]
    BY <2>1, <2>3
  <2>5. \A x \in All : x = <<x[1], x[2]>> /\ x[1] \in Calls /\ x[2] \in Members
    OBVIOUS
  <2>6. has' = has \cup {s}
    <3>1. ASSUME NEW x \in All PROVE x \in has' <=> x \in has \cup {s}
      <4>1. CASE x[1] = c /\ x[2] = m
        BY <2>2, <2>4, <2>5, <4>1
      <4>2. CASE ~(x[1] = c /\ x[2] = m)
        <5>1. taken'[x[1]][x[2]] = taken[x[1]][x[2]]
          BY <2>4, <2>5, <4>2
        <5>2. x # s
          BY <2>2, <4>2
        <5>3. QED
          BY <5>1, <5>2
      <4>3. QED
        BY <4>1, <4>2
    <3>2. QED
      BY <2>2, <3>1
  <2>7. s \notin has
    BY <2>1, <2>2
  <2>8. said[s] \in {"nothing", "unknown"}
    <3>1. WordTrue(c, m, told[c][m])
      BY DEF TruthInv, Truth, Told
    <3>2. ~(taken[c][m] > 0)
      BY <2>1
    <3>3. said[s] = Meaning(told[c][m])
      BY <1>1, <2>2
    <3>4. Meaning(told[c][m]) \notin {"accepted", "denied"}
      BY <2>1, <3>1, <3>2 DEF WordTrue
    <3>5. QED
      BY <3>3, <3>4 DEF Meaning
  <2>9. said' = said
    BY <1>5
  <2>10. Promise!Take(s)
    BY <2>6, <2>7, <2>8, <2>9 DEF Promise!Take
  <2>11. QED
    BY <2>2, <2>10 DEF Promise!Next
<1>6. QED
  BY <1>4, <1>5, TellsOrTakes

\* memberMessageErrorCode, mapRemoteFollowUpError, mapInboxErrorCode, fromWireResult and
\* their kin: through every layer and both hops, a caller that is told "accepted" has
\* its message with the target, one that is denied never will, and a message is taken
\* once, for every operation but an Ask, whose channel reports a lost answer as denied.
THEOREM PromiseKeptHolds ==
  ASSUME NoAsk
  PROVE  CallSpec => PromiseKept
<1>1. CallInit => Promise!Init
  <2>1. SUFFICES ASSUME CallInit PROVE Promise!Init
    OBVIOUS
  <2>2. \A s \in Calls \X Members : taken[s[1]][s[2]] = 0 /\ told[s[1]][s[2]] = "nothing"
    BY <2>1 DEF CallInit, Nothing
  <2>3. \A s \in Calls \X Members : ~(taken[s[1]][s[2]] > 0)
    BY <2>2
  <2>4. QED
    BY <2>2, <2>3 DEF Promise!Init, Meaning
<1>2. CallInit => TruthInv
  BY TruthInitially
<1>3. TruthInv /\ [Next]_callVars => TruthInv'
  BY TruthKept
<1>4. TruthInv /\ TruthInv' /\ [Next]_callVars => [Promise!Next]_(Promise!vars)
  <2>1. SUFFICES ASSUME TruthInv, TruthInv', [Next]_callVars PROVE [Promise!Next]_(Promise!vars)
    OBVIOUS
  <2>2. CASE \E c \in Calls : Acts(c)
    BY <2>1, <2>2, ActsPromise
  <2>3. CASE Restarts \/ SourceExit \/ UNCHANGED callVars
    <3>1. UNCHANGED <<taken, told>>
      BY <2>3 DEF Restarts, TargetExit, TargetStart, SourceStart, SourceExit, callVars,
           callerVars
    <3>2. QED
      BY <3>1 DEF Promise!vars
  <2>4. QED
    BY <2>1, <2>2, <2>3, StepsOf DEF Restarts
<1>5. QED
  BY <1>1, <1>2, <1>3, <1>4, PTL DEF CallSpec, PromiseKept, Promise!Spec
=============================================================================
