---------------------------- MODULE CrewProject ----------------------------
(* One project directory, and the bebop commands that run against it, each a *)
(* process of its own:                                                      *)
(*   init     application/crew-init-flow.ts: lays the .pi/bebop scaffold     *)
(*   list     application/crew-directory.ts: the Crews of the project        *)
(*   resolve  application/crew-target-resolution.ts: a target such as        *)
(*            <crew>/<member> to the one live endpoint it names              *)
(*   ask      cli/commands/ask.ts: what it captures of its source session,   *)
(*            the resolution, and the question it then hands that session    *)
(*   select   sdk/source-discovery.ts, selectSource: a session for the SDK   *)
(* Each reads the two manifest places, the endpoints and the sessions one    *)
(* after the other, while files are edited and sessions come and go.        *)
EXTENDS CrewManifest, CommandRegistry

CONSTANTS Procs,      \* the commands
          Sources,    \* Pi sessions a command may be run from
          Drafts,     \* what a user may write in a manifest
          Template,   \* the manifest of the scaffold, byte for byte
          Foreign,    \* a manifest that is not at one of the project's two places
          Scenes,     \* where to start: the files, the sessions, what each command is, and how
                      \* many of the MaxMoves steps the surroundings have
          Callers,    \* on whose behalf resolve is called
          Targets,    \* the targets asked for
          Selectors,  \* the ids SELECTOR_PATTERN admits
          MaxMoves    \* bound on the steps of the surroundings

ASSUME CrewProjectConstants ==
  /\ MaxMoves \in Nat
  /\ Template \in Drafts /\ Selectors \subseteq Ids
  /\ \A w \in Scenes : w.moves \in 0..MaxMoves
  /\ \A w \in Scenes : w.duty \in [Procs -> {"init", "list", "resolve", "ask", "select", "none"}]

Layouts == {"bebop", "crew"}     \* .pi/bebop/crew.json, and .pi/crew/crew.json for old projects
Bebop   == "bebop"

VARIABLES
  disk,      \* [Layouts -> what is at that place]: nothing, a file, or a symbolic link
  root,      \* what .pi/bebop is: "missing", "dir", "symlink", "file"
  guide,     \* the scaffold's other managed files: "missing", "exact", "differs"
  staging,   \* [Procs -> "none", "part", "full"]: a private .bebop-init-* directory
  answers,   \* [Layouts -> [Sockets -> what connecting there and asking for status gives]]
  src,       \* [Sources -> is it up, the membership it holds in memory]
  alias,     \* the session the alias names, None: no such alias
  proc,      \* [Procs -> the command's own variables]
  moves,     \* steps the surroundings have taken
  changes    \* history: changes of the world, the publication of a scaffold included
vars  == <<disk, root, guide, staging, answers, src, alias, proc, moves, changes>>

-----------------------------------------------------------------------------
(* Files *)

Nothing    == [is |-> "none"]
File(d)    == [is |-> "file", d |-> d]
LinkTo(to) == [is |-> "link", to |-> to]   \* "bebop", "outside" the project, or "nested" in it

\* realpath: where the file at a place really is.
Real(l) ==
  CASE disk[l].is = "none" -> None
    [] disk[l].is = "file" -> l
    [] OTHER -> IF disk[l].to \notin Layouts THEN disk[l].to
                ELSE IF disk[disk[l].to].is = "file" THEN disk[l].to ELSE None
RealOf(place) == IF place \in Layouts THEN Real(place) ELSE None

\* The manifest at a real place.
Content(at) ==
  CASE at \in Layouts -> IF disk[at].is = "file" THEN Parse(disk[at].d) ELSE Refused
    [] at = None      -> Refused
    [] OTHER          -> Parse(Foreign)

Exact(l) == disk[l] = File(Template)

Silent(a)   == a = "silent"
Reported(a) == a \in Layouts       \* a joined session of a trusted project, with its locator
Answers     == Layouts \cup {"silent", "stopped", "garbage", "unjoined"}

\* The Crew Locator two names stand for: sameCanonicalPath.
SamePlace(a, b) == a = b \/ (RealOf(a) # None /\ RealOf(a) = RealOf(b))

-----------------------------------------------------------------------------
(* Commands *)

NoCaller == [kind |-> "external", loc |-> None, id |-> None, name |-> None, ok |-> FALSE,
             can |-> FALSE]
Begin(k) == [kind |-> k, pc |-> "start", caller |-> NoCaller, target |-> None, given |-> None,
             home |-> TRUE, by |-> "id", todo |-> {}, at |-> None, found |-> {}, bad |-> FALSE,
             escaped |-> FALSE, own |-> None, member |-> None, socket |-> None, out |-> None, since |-> 0,
             from |-> None, rows |-> {}, seen |-> {}]

Init ==
  /\ \E w \in Scenes :
       /\ disk = w.disk /\ root = w.root /\ guide = w.guide
       /\ src = w.src /\ alias = w.alias /\ moves = MaxMoves - w.moves
       /\ proc = [p \in Procs |-> Begin(w.duty[p])]
  /\ staging = [p \in Procs |-> "none"]
  /\ answers = [l \in Layouts |-> [k \in Sockets |-> l]]
  /\ changes = 0

\* There is nothing inside a directory that is not there; and the mark of what is not there
\* is no place and no id.
ASSUME ScenesAreSound ==
  \A w \in Scenes : /\ DOMAIN w.disk = Layouts
                    /\ w.root = "missing" => w.disk[Bebop] = Nothing /\ w.guide = "missing"
ASSUME NoneIsNone == None \notin Layouts \cup Ids

Kind(p) == proc[p].kind
At(p, pc) == proc[p].pc = pc
Become(p, new) == proc' = [proc EXCEPT ![p] = new]
Goto(p, pc)    == Become(p, [proc[p] EXCEPT !.pc = pc])
Settle(p, out) == Become(p, [proc[p] EXCEPT !.pc = "done", !.out = out])
Reads          == UNCHANGED <<disk, root, guide, staging, answers, src, alias, moves, changes>>

Routes(p) == Kind(p) \in {"resolve", "ask"}

-----------------------------------------------------------------------------
(* The surroundings: users, and the sessions of the project *)

Move == moves < MaxMoves /\ moves' = moves + 1 /\ changes' = changes + 1

\* A user writes or deletes a manifest; for the first one of .pi/bebop the directory is made.
Write(l, d) ==
  /\ Move /\ disk[l] # File(d)
  /\ l = Bebop => root \in {"dir", "missing"}
  /\ disk' = [disk EXCEPT ![l] = File(d)]
  /\ root' = IF l = Bebop THEN "dir" ELSE root
  /\ UNCHANGED <<guide, staging, answers, src, alias, proc>>

Delete(l) ==
  /\ Move /\ disk[l] # Nothing
  /\ disk' = [disk EXCEPT ![l] = Nothing]
  /\ UNCHANGED <<root, guide, staging, answers, src, alias, proc>>

\* A user makes, edits or deletes the rest of .pi/bebop, or makes it something else.
TouchLayout ==
  /\ Move
  /\ \/ root = "missing" /\ root' \in {"dir", "symlink", "file"} /\ UNCHANGED <<guide, disk>>
     \/ root = "dir" /\ guide' = "differs" /\ guide # "differs" /\ UNCHANGED <<root, disk>>
     \/ root = "dir" /\ root' = "missing" /\ guide' = "missing"
        /\ disk' = [disk EXCEPT ![Bebop] = Nothing]
  /\ UNCHANGED <<staging, answers, src, alias, proc>>

\* Whoever serves a Member's endpoint comes, goes, joins elsewhere or misbehaves.
Serve(l, k, a) ==
  /\ Move /\ answers[l][k] # a
  /\ answers' = [answers EXCEPT ![l][k] = a]
  /\ UNCHANGED <<disk, root, guide, staging, src, alias, proc>>

\* A source session ends, takes the alias, or joins under the manifest it reads.
EndSource(s) ==
  /\ Move /\ src[s].up
  /\ src' = [src EXCEPT ![s].up = FALSE]
  /\ UNCHANGED <<disk, root, guide, staging, answers, alias, proc>>

TakeAlias(s) ==
  /\ Move /\ src[s].up /\ alias # s
  /\ alias' = s
  /\ UNCHANGED <<disk, root, guide, staging, answers, src, proc>>

Rejoin(s, l, n) ==
  /\ Move /\ src[s].up
  /\ LET man == Content(Real(l)) IN
     /\ man # Refused /\ n \in NamesOf(man.members)
     /\ src[s].loc # l \/ src[s].name # n
     /\ src' = [src EXCEPT ![s].as = "member", ![s].loc = l, ![s].id = man.crew,
                           ![s].name = n, ![s].knows = NamesOf(man.members)]
  /\ UNCHANGED <<disk, root, guide, staging, answers, alias, proc>>

-----------------------------------------------------------------------------
(* resolve and ask: a target to a route *)

Fails(r, why) == [r EXCEPT !.pc = "done", !.out = why]

\* parseCrewTarget and validateCaller, and the trust of the caller's own locator: nothing
\* of these is read from the project.
Entitled(r) ==
  /\ r.caller.kind \in {"member", "guest"} /\ r.caller.ok
  /\ r.caller.id = r.target.sel
  /\ r.caller.kind = "guest" => r.caller.can
Placed(r)   == r.home /\ r.caller.loc \in Layouts /\ r.given # "outside"
Checked(r)  ==
  IF r.target.sel \notin Selectors THEN Fails(r, "unknown-crew")
  ELSE IF ~Entitled(r) \/ ~Placed(r) THEN Fails(r, "authorization-required")
  ELSE [r EXCEPT !.pc = "own"]

Resolve(p) ==
  /\ Kind(p) = "resolve" /\ At(p, "start")
  /\ \E c \in Callers, t \in Targets, g \in Layouts \cup {None, "outside"}, h \in BOOLEAN :
       Become(p, Checked([proc[p] EXCEPT !.caller = c, !.target = t, !.given = g, !.home = h,
                                         !.since = changes]))
  /\ Reads

\* The realpath of the caller's locator, then the places to look at: the one given, or
\* both (the caller's own is one of them).
FindOwn(p) ==
  /\ Routes(p) /\ At(p, "own")
  /\ LET at == Real(proc[p].caller.loc) IN
     Become(p, IF at = None THEN Fails(proc[p], "authorization-required")
               ELSE [proc[p] EXCEPT !.pc = "real", !.own = at,
                                    !.todo = IF proc[p].given # None THEN {proc[p].given}
                                             ELSE Layouts])
  /\ Reads

First(places) == IF Bebop \in places THEN Bebop ELSE "crew"

\* findTargetMember, in a manifest that names every Member once.
Targeted(r, man) == IF r.target.member # None THEN r.target.member ELSE man.contact
SocketOf(man, n) == (CHOOSE m \in {man.members[i] : i \in DOMAIN man.members} : m.name = n).socket

\* What the places gave, once all have been looked at.
Matched(r) ==
  LET one == CHOOSE f \in r.found : TRUE
      n   == Targeted(r, one.man)
  IN IF r.found = {} THEN
       Fails(r, IF r.given # None /\ r.escaped THEN "authorization-required"
                ELSE IF r.bad THEN "invalid-manifest" ELSE "unknown-crew")
     ELSE IF r.given = None /\ Cardinality(r.found) > 1 THEN Fails(r, "ambiguous-crew")
     ELSE IF one.loc # r.own THEN Fails(r, "authorization-required")
     ELSE IF n \notin NamesOf(one.man.members) THEN Fails(r, "unknown-member")
     ELSE IF r.caller.kind = "member" /\ n = r.caller.name THEN Fails(r, "self-target")
     ELSE [r EXCEPT !.pc = "probe", !.at = one.loc, !.member = n,
                    !.socket = SocketOf(one.man, n)]
Looked(r) == IF r.todo = {} THEN Matched(r) ELSE [r EXCEPT !.pc = "real"]

\* The realpath of the next place: nothing there, met already, outside the two places, or
\* to be read.
FindReal(p) ==
  /\ Routes(p) /\ At(p, "real")
  /\ LET l  == First(proc[p].todo)
         at == Real(l)
         r  == [proc[p] EXCEPT !.todo = @ \ {l}, !.seen = @ \cup {at}]
     IN Become(p, IF at = None \/ at \in proc[p].seen THEN Looked(r)
                  ELSE IF at \notin Layouts THEN Looked([r EXCEPT !.escaped = TRUE])
                  ELSE [r EXCEPT !.pc = "read", !.at = at])
  /\ Reads

ReadCandidate(p) ==
  /\ Routes(p) /\ At(p, "read")
  /\ LET r   == proc[p]
         man == Content(r.at)
     IN Become(p, Looked(IF man = Refused THEN [r EXCEPT !.bad = TRUE]
                         ELSE IF man.crew = r.target.sel
                         THEN [r EXCEPT !.found = @ \cup {[loc |-> r.at, man |-> man]}]
                         ELSE r))
  /\ Reads

\* One status query to the Member's socket (probeCanonicalOwner). A runtime does not say
\* which Member it is: its Crew Locator is all there is to compare.
OwnedLexically(a, at) ==
  CASE a \in {"silent", "stopped"} -> "offline-member"
    [] a = "garbage"               -> "malformed-response"
    [] OTHER -> IF a = at THEN "resolved" ELSE "route-conflict"
Owned(a, at) ==
  CASE a \in {"silent", "stopped"} -> "offline-member"
    [] a = "garbage"               -> "malformed-response"
    [] OTHER -> IF Reported(a) /\ SamePlace(a, at) THEN "resolved" ELSE "route-conflict"

Probe(p) ==
  /\ Routes(p) /\ At(p, "probe")
  /\ LET r   == proc[p]
         out == Owned(answers[r.at][r.socket], r.at)
     IN Become(p, IF out = "resolved" /\ r.kind = "ask" THEN [r EXCEPT !.pc = "send"]
                  ELSE Fails(r, out))
  /\ Reads

\* The deadline of the discovery, of the probe, and the caller's signal.
Expire(p) ==
  /\ Routes(p)
  /\ \/ proc[p].pc \in {"own", "real", "read"} /\ Settle(p, "discovery-timeout")
     \/ At(p, "probe") /\ Settle(p, "offline-member")
  /\ Reads
Cancel(p) ==
  /\ Routes(p) /\ proc[p].pc \in {"own", "real", "read", "probe"}
  /\ Settle(p, "cancelled")
  /\ Reads

-----------------------------------------------------------------------------
(* ask: the two exchanges with the source session *)

\* The id's socket first; when there is none, the alias of that text.
Reached(by) == IF by \in Sources THEN (IF src[by].up THEN by ELSE None)
               ELSE IF alias # None /\ src[alias].up THEN alias ELSE None

\* session_capture: a Member's route, else an approved Guest's. The root it reports is the
\* session manager's directory, which ask takes for the project.
CallerOf(s) == [kind |-> src[s].as, loc |-> src[s].loc, id |-> src[s].id, name |-> src[s].name,
                ok |-> TRUE, can |-> TRUE]
Ask(p) ==
  /\ Kind(p) = "ask" /\ At(p, "start")
  /\ \E t \in Targets, by \in Sources \cup {"alias"}, h \in BOOLEAN :
       LET s == Reached(by)
           r == [proc[p] EXCEPT !.target = t, !.by = by, !.home = h, !.from = s, !.since = changes]
       IN Become(p, IF s = None THEN Fails(r, "offline")
                    ELSE IF src[s].as = "none" THEN Fails(r, "not-joined")
                    ELSE IF src[s].id = None THEN Fails(r, "authorization-required")
                    ELSE Checked([r EXCEPT !.caller = CallerOf(s), !.given = src[s].loc]))
  /\ Reads

\* member_request_start, by the resolved Member's name: whichever session is reached now
\* looks the name up in the membership it holds.  A Guest would need to be told the Crew,
\* which the CLI writes and the wire does not carry.
AskFields == {"target", "crew", "message", "timeoutSeconds", "maxWaitSeconds"}
Accepted(s, r) ==
  CASE src[s].as = "member" -> r.member \in src[s].knows /\ r.member # src[s].name
    [] src[s].as = "guest"  -> /\ "crew" \in Received("member_request_start", AskFields)
                               /\ r.caller.kind = "guest" /\ src[s].id = r.target.sel
    [] OTHER                -> FALSE
Send(p) ==
  /\ At(p, "send")
  /\ LET r == proc[p]
         s == Reached(r.by)
     IN Become(p, IF s = None THEN Fails(r, "offline")
                  ELSE IF ~Accepted(s, r) THEN Fails(r, "delivery-rejected")
                  ELSE [r EXCEPT !.pc = "done", !.out = "resolved"])
  /\ Reads

-----------------------------------------------------------------------------
(* select: a source session for the SDK *)

\* sourceCandidates: the id's socket, or the socket the alias really links to.
Select(p) ==
  /\ Kind(p) = "select" /\ At(p, "start")
  /\ \E by \in Sources \cup {"alias"} :
       LET s == IF by \in Sources THEN by ELSE Reached(by) IN
       Become(p, IF s = None THEN Fails([proc[p] EXCEPT !.by = by, !.since = changes],
                                        "unknown-session")
                 ELSE [proc[p] EXCEPT !.pc = "query", !.by = by, !.from = s, !.since = changes])
  /\ Reads

\* querySource: only a joined session of a trusted project is a source.
Query(p) ==
  /\ Kind(p) = "select" /\ At(p, "query")
  /\ LET s == proc[p].from IN
     IF ~src[s].up THEN Settle(p, "unknown-session")
     ELSE IF src[s].as # "member" THEN Settle(p, "not-joined")
     ELSE Goto(p, "use")
  /\ Reads

\* A later call of that client goes to the socket it selected, whatever the alias says now.
Use(p) ==
  /\ Kind(p) = "select" /\ At(p, "use")
  /\ Settle(p, IF src[proc[p].from].up THEN "resolved" ELSE "offline-session")
  /\ Reads

-----------------------------------------------------------------------------
(* list: the Crews of the project *)

\* readDirectoryManifest: links are followed as long as they stay in the project.
Listed(l) == IF Real(l) = "outside" THEN Refused ELSE Content(Real(l))

\* How many of a Crew's endpoints take a connection; nobody serves a foreign Crew's.
Answering(l, man) == {i \in DOMAIN man.members :
  Real(l) \in Layouts /\ ~Silent(answers[Real(l)][man.members[i].socket])}
Availability(l, man) ==
  IF man.crew = None THEN "unaddressable"
  ELSE IF Answering(l, man) = {} THEN "offline"
  ELSE IF Answering(l, man) = DOMAIN man.members THEN "online" ELSE "partial"

RowOf(l, man, av) == [loc |-> l, sel |-> man.crew, av |-> av]
HasRow(rows, l)   == \E row \in rows : row.loc = l

\* Rows of one selector are told apart by their locator, which no other row shows.
ShowsLocatorOfMany(rows, row) ==
  row.sel # None /\ Cardinality({other \in rows : other.sel = row.sel}) > 2
ShowsLocator(rows, row) == row.sel # None /\ \E other \in rows : other # row /\ other.sel = row.sel

List(p) ==
  /\ Kind(p) = "list" /\ At(p, "start")
  /\ LET there == {l \in Layouts : disk[l] # Nothing} IN
     Become(p, [proc[p] EXCEPT !.todo = there, !.since = changes,
                               !.pc = IF there = {} THEN "live" ELSE "read"])
  /\ Reads

Onward(r) == [r EXCEPT !.todo = @ \ {First(@)}, !.pc = IF r.todo \ {First(r.todo)} = {} THEN "live" ELSE "read"]

\* One manifest, then its Members' endpoints, all at once.
ReadListed(p) ==
  /\ Kind(p) = "list" /\ At(p, "read")
  /\ LET man == Listed(First(proc[p].todo)) IN
     Become(p, IF man = Refused THEN Onward([proc[p] EXCEPT !.bad = TRUE])
               ELSE [proc[p] EXCEPT !.pc = "count", !.found = {man}])
  /\ Reads
CountOnline(p) ==
  /\ Kind(p) = "list" /\ At(p, "count")
  /\ LET l   == First(proc[p].todo)
         man == CHOOSE m \in proc[p].found : TRUE
     IN Become(p, Onward([proc[p] EXCEPT !.rows = @ \cup {RowOf(l, man, Availability(l, man))},
                                         !.found = {}]))
  /\ Reads

\* Then the locators of the joined sessions, for a Crew the files did not give.
ReadLive(p) ==
  /\ Kind(p) = "list" /\ At(p, "live")
  /\ LET live == {src[s].loc : s \in {t \in Sources : src[t].up /\ src[t].as = "member"}}
         more == {l \in live : ~HasRow(proc[p].rows, l)}
     IN Become(p, IF more = {} THEN Fails(proc[p], "listed")
                  ELSE [proc[p] EXCEPT !.pc = "reread", !.todo = more])
  /\ Reads
Reread(p) ==
  /\ Kind(p) = "list" /\ At(p, "reread")
  /\ LET l   == First(proc[p].todo)
         man == Listed(l)
         r   == [proc[p] EXCEPT !.todo = @ \ {l},
                                !.bad = @ \/ man = Refused,
                                !.rows = IF man = Refused \/ man.crew = None THEN @
                                         ELSE @ \cup {RowOf(l, man, "online")}]
     IN Become(p, IF r.todo = {} THEN Fails(r, "listed") ELSE r)
  /\ Reads

\* Out of time, or cancelled: the rows so far, as a partial answer.
CutShort(p) ==
  /\ Kind(p) = "list" /\ proc[p].pc \in {"read", "count", "live", "reread"}
  /\ Settle(p, "partial")
  /\ Reads

-----------------------------------------------------------------------------
(* init: the scaffold *)

Managed == {"root", "manifest", "guide"}   \* .pi/bebop/, its crew.json, the other managed files

Kindof(item) ==
  CASE item = "root"  -> root
    [] item = "guide" -> guide
    [] OTHER -> IF disk[Bebop] = Nothing THEN "missing"
                ELSE IF disk[Bebop].is = "link" THEN "symlink"
                ELSE IF Exact(Bebop) THEN "exact" ELSE "differs"

\* The managed paths are looked at in no fixed order; below something that is no directory
\* the look itself fails.
Classifies(p, pc) ==
  /\ Kind(p) = "init" /\ At(p, pc)
  /\ \E item \in proc[p].todo :
       Become(p, IF root = "file" /\ item # "root"
                 THEN [proc[p] EXCEPT !.pc = "clean", !.out = "operational"]
                 ELSE [proc[p] EXCEPT !.todo = @ \ {item},
                                      !.seen = @ \cup {<<item, Kindof(item)>>}])
  /\ Reads

Verdict(seen) ==
  LET kinds == {s[2] : s \in seen} IN
  IF kinds \subseteq {"missing"} THEN "created"
  ELSE IF kinds \subseteq {"dir", "exact"} THEN "unchanged" ELSE "conflict"

StartInit(p) ==
  /\ Kind(p) = "init" /\ At(p, "start")
  /\ Become(p, [proc[p] EXCEPT !.pc = "classify", !.todo = Managed, !.since = moves])
  /\ Reads
Classify(p) == Classifies(p, "classify")
Decide(p) ==
  /\ Kind(p) = "init" /\ At(p, "classify") /\ proc[p].todo = {}
  /\ LET verdict == Verdict(proc[p].seen) IN
     IF verdict = "created" THEN Goto(p, "stage") ELSE Settle(p, verdict)
  /\ Reads

\* A private directory beside the target, then every template, then one rename.
Stage(p) ==
  /\ Kind(p) = "init" /\ At(p, "stage")
  /\ staging' = [staging EXCEPT ![p] = "part"]
  /\ Goto(p, "fill")
  /\ UNCHANGED <<disk, root, guide, answers, src, alias, moves, changes>>
Fill(p) ==
  /\ At(p, "fill")
  /\ staging' = [staging EXCEPT ![p] = "full"]
  /\ Goto(p, "publish")
  /\ UNCHANGED <<disk, root, guide, answers, src, alias, moves, changes>>

\* rename replaces nothing, or an empty directory.
VacantDirectory == root \in {"missing", "dir"}
Vacant == root = "missing" \/ (root = "dir" /\ disk[Bebop] = Nothing /\ guide = "missing")
Publish(p) ==
  /\ At(p, "publish") /\ Vacant
  /\ root' = "dir" /\ guide' = "exact"
  /\ disk' = [disk EXCEPT ![Bebop] = File(Template)]
  /\ staging' = [staging EXCEPT ![p] = "none"]
  /\ changes' = changes + 1
  /\ Settle(p, "created")
  /\ UNCHANGED <<answers, src, alias, moves>>

\* A directory with something in it: look again. Anything else cannot be renamed onto.
PublishRefused(p) ==
  /\ At(p, "publish") /\ ~Vacant
  /\ Become(p, IF root = "dir" THEN [proc[p] EXCEPT !.pc = "again", !.todo = Managed, !.seen = {}]
               ELSE [proc[p] EXCEPT !.pc = "clean", !.out = "publish-failed"])
  /\ Reads
ClassifyAgain(p) == Classifies(p, "again")
Reconcile(p) ==
  /\ Kind(p) = "init" /\ At(p, "again") /\ proc[p].todo = {}
  /\ LET verdict == Verdict(proc[p].seen) IN
     Become(p, [proc[p] EXCEPT !.pc = "clean",
                               !.out = IF verdict = "created" THEN "publish-failed" ELSE verdict])
  /\ Reads

\* A write or the rename fails: no space, no permission.
InitFails(p) ==
  /\ Kind(p) = "init" /\ proc[p].pc \in {"stage", "fill", "publish"}
  /\ Become(p, [proc[p] EXCEPT !.pc = "clean", !.out = "failed"])
  /\ Reads

\* Whatever the outcome, what was staged and not published is removed.
Clean(p) ==
  /\ At(p, "clean")
  /\ staging' = [staging EXCEPT ![p] = "none"]
  /\ Goto(p, "done")
  /\ UNCHANGED <<disk, root, guide, answers, src, alias, moves, changes>>

\* The process is killed.
Crash(p) ==
  /\ Move
  /\ Kind(p) = "init" /\ proc[p].pc \in {"stage", "fill", "publish", "again", "clean"}
  /\ Goto(p, "crashed")
  /\ UNCHANGED <<disk, root, guide, staging, answers, src, alias>>

-----------------------------------------------------------------------------
Surroundings ==
  \/ \E l \in Layouts : Delete(l) \/ \E d \in Drafts : Write(l, d)
  \/ TouchLayout
  \/ \E l \in Layouts, k \in Sockets, a \in Answers : Serve(l, k, a)
  \/ \E s \in Sources : \/ EndSource(s) \/ TakeAlias(s)
                        \/ \E l \in Layouts, n \in Names : Rejoin(s, l, n)

Command(p) ==
  \/ Resolve(p) \/ FindOwn(p) \/ FindReal(p) \/ ReadCandidate(p) \/ Probe(p)
  \/ Expire(p) \/ Cancel(p)
  \/ Ask(p) \/ Send(p)
  \/ Select(p) \/ Query(p) \/ Use(p)
  \/ List(p) \/ ReadListed(p) \/ CountOnline(p) \/ ReadLive(p) \/ Reread(p) \/ CutShort(p)
  \/ StartInit(p) \/ Classify(p) \/ Decide(p) \/ Stage(p) \/ Fill(p) \/ Publish(p)
  \/ PublishRefused(p) \/ ClassifyAgain(p) \/ Reconcile(p) \/ InitFails(p) \/ Clean(p)
  \/ Crash(p)

Next == Surroundings \/ \E p \in Procs : Command(p)
Spec == Init /\ [][Next]_vars

-----------------------------------------------------------------------------
(* Properties *)

Still(p) == proc[p].since = IF Kind(p) = "init" THEN moves ELSE changes

\* Where a target's Crew is, among the places that count for a resolution.
Places(r) == IF r.given = None THEN Layouts ELSE {r.given}
Homes(r)  == {at \in {Real(l) : l \in Places(r)} \cap Layouts :
               Content(at) # Refused /\ Content(at).crew = r.target.sel}

\* What makes a target routable, whatever the order in which it is looked into.
Routable(r) ==
  /\ r.target.sel \in Selectors /\ Entitled(r) /\ Placed(r)
  /\ LET here == Real(r.caller.loc) IN
     /\ Homes(r) = {here}
     /\ LET man == Content(here)
            n   == IF r.target.member = None THEN man.contact ELSE r.target.member
        IN \E i \in DOMAIN man.members :
             /\ man.members[i].name = n
             /\ r.caller.kind = "member" => n # r.caller.name
             /\ answers[here][man.members[i].socket] \in {l \in Layouts : Real(l) = here}

\* The answer of a resolution is true of the project: when nothing has changed since it
\* began, it gives a route exactly when there is one (unless it ran out of time or was
\* cancelled), the socket of that route is the socket of one Member only, and a refusal
\* that names a state of the Crews (unknown, ambiguous, unreadable) names the one they are in.
VerdictIsTrue == \A p \in Procs :
  LET r == proc[p] IN
  (Routes(p) /\ At(p, "done") /\ Still(p) /\ r.caller # NoCaller) =>
    /\ Routable(r) => r.out \in {"resolved", "discovery-timeout", "cancelled", "offline-member",
                                "offline", "delivery-rejected"}
    /\ r.out = "resolved" => Routable(r) /\ Cardinality(BySocket(Content(r.at), r.socket)) = 1
    /\ r.out = "unknown-crew" => r.target.sel \notin Selectors \/ Homes(r) = {}
    /\ r.out = "ambiguous-crew" => Cardinality(Homes(r)) > 1
    /\ r.out = "invalid-manifest" =>
         Homes(r) = {} /\ \E l \in Places(r) : Real(l) # None /\ Content(Real(l)) = Refused

\* list and resolve, which read the same files by two different paths, agree while nothing
\* changes: a Crew that is routed to is listed, one that is ambiguous is listed with the
\* locators that tell it apart, and a listed Crew at one of the two places is not unknown.
ListAgrees == \A p, q \in Procs :
  LET r == proc[p]  rows == proc[q].rows IN
  (/\ Routes(p) /\ At(p, "done") /\ Still(p)
   /\ Kind(q) = "list" /\ At(q, "done") /\ proc[q].out = "listed" /\ Still(q)) =>
    /\ r.out = "resolved" => \E row \in rows : row.sel = r.target.sel /\ Real(row.loc) = r.at
    /\ r.out = "ambiguous-crew" =>
         \E row \in rows : row.sel = r.target.sel /\ ShowsLocator(rows, row)
    /\ (r.out = "unknown-crew" /\ r.given = None /\ r.target.sel \in Selectors) =>
         \A row \in rows : row.sel = r.target.sel => Real(row.loc) \notin Layouts

\* crew init never touches what exists: only users change or remove a file or a directory
\* of the project that is there (the scaffold's rename may replace an empty directory).
NothingOverwritten ==
  [][moves' = moves =>
       /\ root # "missing" => root' = root
       /\ guide # "missing" => guide' = guide
       /\ \A l \in Layouts : disk[l] # Nothing => disk'[l] = disk[l]]_vars

=============================================================================
