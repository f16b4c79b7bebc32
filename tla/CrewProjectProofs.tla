------------------------- MODULE CrewProjectProofs -------------------------
(***************************************************************************)
(* For any commands, sessions, drafts and scenes: the verdict on a target  *)
(* is true of the project, list and resolve agree, and init overwrites     *)
(* nothing.                                                                *)
(*                                                                         *)
(* A command looks at one file at a time.  While nothing has changed since *)
(* it began, what it has noted of the places it looked at is what is there *)
(* now (Searching, Probing, Listing), so a verdict from its notes is a     *)
(* verdict on the project; and a change makes it stale for ever, because   *)
(* changes are counted (Stepping).                                         *)
(***************************************************************************)
EXTENDS CrewProject, FiniteSetTheorems, TLAPS

-----------------------------------------------------------------------------
(* The shape of the state. *)

Variables == {"kind", "pc", "caller", "target", "given", "home", "by", "todo", "at", "found",
              "bad", "escaped", "own", "member", "socket", "out", "since", "from",
              "rows", "seen"}
Kinds == {"init", "list", "resolve", "ask", "select", "none"}

Working == {"own", "real", "read", "probe", "send"}
Stages(kind) ==
  CASE kind = "resolve" -> {"start", "done"} \cup (Working \ {"send"})
    [] kind = "ask"     -> {"start", "done"} \cup Working
    [] kind = "list"    -> {"start", "read", "count", "live", "reread", "done"}
    [] kind = "select"  -> {"start", "query", "use", "done"}
    [] kind = "init"    -> {"start", "classify", "stage", "fill", "publish", "again", "clean",
                            "done", "crashed"}
    [] OTHER            -> {"start"}

Formed(r) ==
  /\ DOMAIN r = Variables
  /\ r.kind \in Kinds /\ r.pc \in Stages(r.kind)
  /\ r.pc = "start" => r = Begin(r.kind)
  /\ r.since \in Nat

Shapes ==
  /\ moves \in Nat /\ changes \in Nat
  /\ DOMAIN disk = Layouts
  /\ DOMAIN proc = Procs

\* A directory that is missing holds nothing.
Rooted == root = "missing" => disk[Bebop] = Nothing /\ guide = "missing"

-----------------------------------------------------------------------------
(* What a command has noted. *)

Routing(r) == r.kind \in {"resolve", "ask"}

\* It is entitled to the answer.
Admitted(r) ==
  r.target.sel \in Selectors /\ Entitled(r) /\ Placed(r) /\ r.given \in Layouts \cup {None}

HomesAmong(r, places) ==
  {at \in places \cap Layouts : Content(at) # Refused /\ Content(at).crew = r.target.sel}
Reals(places) == {Real(l) : l \in places}

\* Of the places it has looked at, it has noted the real ones, and of those without the
\* pending one, the manifests of the Crew it looks for.
Collected(r, pending) ==
  /\ r.todo \subseteq Places(r)
  /\ r.seen = Reals(Places(r) \ r.todo)
  /\ \A f \in r.found : /\ f = [loc |-> f.loc, man |-> Content(f.loc)]
                        /\ f.loc \in HomesAmong(r, r.seen)
  /\ \A at \in HomesAmong(r, r.seen) \ pending : \E f \in r.found : f.loc = at
  /\ r.bad = TRUE => \E l \in Places(r) : Real(l) # None /\ Content(Real(l)) = Refused

OwnKnown(r) == r.own # None /\ r.own = Real(r.caller.loc)

Searching(r) ==
  /\ r.pc = "own" => r.seen = {} /\ r.found = {} /\ r.bad = FALSE
  /\ r.pc \in {"real", "read"} => OwnKnown(r)
  /\ r.pc = "real" => Collected(r, {}) /\ r.todo # {}
  /\ r.pc = "read" => Collected(r, {r.at}) /\ r.at \in r.seen \cap Layouts

\* The one place of the Crew, and the Member there.
Found(r) ==
  LET man == Content(r.at) IN
  /\ r.at = Real(r.caller.loc) /\ Homes(r) = {r.at}
  /\ r.member = Targeted(r, man) /\ r.member \in NamesOf(man.members)
  /\ ~(r.caller.kind = "member" /\ r.member = r.caller.name)
  /\ r.socket = SocketOf(man, r.member)

Deserved(r, out) ==
  /\ Routable(r) => out \in {"resolved", "discovery-timeout", "cancelled", "offline-member",
                              "offline", "delivery-rejected"}
  /\ out = "resolved" => /\ Routable(r) /\ r.at \in Homes(r)
                           /\ Cardinality(BySocket(Content(r.at), r.socket)) = 1
  /\ out = "unknown-crew" => r.target.sel \notin Selectors \/ Homes(r) = {}
  /\ out = "ambiguous-crew" => r.target.sel \in Selectors /\ Cardinality(Homes(r)) > 1
  /\ out = "invalid-manifest" =>
       Homes(r) = {} /\ \E l \in Places(r) : Real(l) # None /\ Content(Real(l)) = Refused

Probing(r) ==
  /\ r.pc = "probe" => Found(r)
  /\ r.pc = "send"  => /\ Found(r) /\ Routable(r)
                       /\ Cardinality(BySocket(Content(r.at), r.socket)) = 1
  /\ r.pc = "done"  => Deserved(r, r.out)

Fresh(r) == r.since = changes

RouteInv(r) == Routing(r) =>
  /\ r.pc \in Working => Admitted(r)
  /\ Fresh(r) => Searching(r) /\ Probing(r)

-----------------------------------------------------------------------------
(* list: rows are what is there, and every readable place looked at has one. *)

There == {l \in Layouts : disk[l] # Nothing}
RowsTrue(rows) == \A row \in rows : /\ row.loc \in Layouts /\ Listed(row.loc) # Refused
                                    /\ row.sel = Listed(row.loc).crew
Rowed(rows, places) == \A l \in places : Listed(l) # Refused => \E row \in rows : row.loc = l

Listing(r) ==
  /\ RowsTrue(r.rows)
  /\ r.pc \in {"read", "count"} =>
       r.todo # {} /\ r.todo \subseteq There /\ Rowed(r.rows, There \ r.todo)
  /\ r.pc = "count" => LET l == First(r.todo) IN r.found = {Listed(l)} /\ Listed(l) # Refused
  /\ r.pc \in {"live", "reread"} \/ (r.pc = "done" /\ r.out = "listed") => Rowed(r.rows, There)

ListInv(r) == r.kind = "list" /\ Fresh(r) => Listing(r)

Holds(r) ==
  /\ Formed(r) /\ (r.kind # "init" => r.since <= changes)
  /\ RouteInv(r) /\ ListInv(r)

IInv == Shapes /\ Rooted /\ \A p \in Procs : Holds(proc[p])

-----------------------------------------------------------------------------
(* Files: what a real place is, and what a manifest that was accepted says. *)

LEMMA RealIsReal ==
  ASSUME NEW l, Real(l) \in Layouts
  PROVE  disk[Real(l)].is = "file" /\ Real(Real(l)) = Real(l)
<1>1. disk[l].is # "none"
  BY NoneIsNone DEF Real
<1>2. CASE disk[l].is = "file"
  BY <1>2 DEF Real
<1>3. CASE disk[l].is # "file"
  <2>1. Real(l) = IF disk[l].to \notin Layouts THEN disk[l].to
                  ELSE IF disk[disk[l].to].is = "file" THEN disk[l].to ELSE None
    BY <1>1, <1>3 DEF Real
  <2>2. Real(l) = disk[l].to /\ disk[Real(l)].is = "file"
    BY <2>1, NoneIsNone
  <2>3. QED
    BY <2>2 DEF Real
<1>4. QED
  BY <1>2, <1>3

LEMMA ToldApart ==
  ASSUME NEW at, Content(at) # Refused
  PROVE  \A i, j \in DOMAIN Content(at).members :
           \/ Content(at).members[i].name = Content(at).members[j].name
           \/ Content(at).members[i].socket = Content(at).members[j].socket
           => i = j
<1>1. PICK d : Content(at) = Parse(d)
  BY DEF Content
<1>2. Accepts(d) /\ Content(at).members = d.members
  BY <1>1 DEF Parse
<1>3. QED
  BY <1>2 DEF Accepts, MembersAreSound, IsInjective

LEMMA OneMember ==
  ASSUME NEW at, Content(at) # Refused, NEW n \in NamesOf(Content(at).members)
  PROVE  \E i \in DOMAIN Content(at).members :
           /\ Content(at).members[i].name = n
           /\ SocketOf(Content(at), n) = Content(at).members[i].socket
           /\ \A j \in DOMAIN Content(at).members : Content(at).members[j].name = n => j = i
           /\ BySocket(Content(at), SocketOf(Content(at), n)) = {i}
<1> DEFINE man == Content(at)
<1>1. PICK i \in DOMAIN man.members : man.members[i].name = n
  BY DEF NamesOf
<1>2. \A j \in DOMAIN man.members : man.members[j].name = n => j = i
  BY <1>1, ToldApart
<1> DEFINE m == CHOOSE x \in {man.members[k] : k \in DOMAIN man.members} : x.name = n
<1>3. m \in {man.members[k] : k \in DOMAIN man.members} /\ m.name = n
  BY <1>1
<1>4. m = man.members[i]
  BY <1>2, <1>3
<1>5. SocketOf(man, n) = man.members[i].socket
  BY <1>4 DEF SocketOf
<1>6. BySocket(man, SocketOf(man, n)) = {i}
  BY <1>5, ToldApart DEF BySocket
<1>7. QED
  BY <1>1, <1>2, <1>5, <1>6

-----------------------------------------------------------------------------
(* What stands while nothing changes. *)

LEMMA FilesStand ==
  ASSUME UNCHANGED <<disk, answers>>
  PROVE  /\ \A l : Real(l)' = Real(l) /\ RealOf(l)' = RealOf(l) /\ Listed(l)' = Listed(l)
         /\ \A at : Content(at)' = Content(at)
         /\ There' = There
<1>1. \A l : Real(l)' = Real(l)
  BY DEF Real
<1>2. \A at : Content(at)' = Content(at)
  BY DEF Content
<1>3. QED
  BY <1>1, <1>2 DEF RealOf, Listed, There

LEMMA HoldsStands ==
  ASSUME NEW r, Holds(r), UNCHANGED <<disk, answers, changes>>
  PROVE  Holds(r)'
<1>1. /\ \A l : Real(l)' = Real(l) /\ RealOf(l)' = RealOf(l) /\ Listed(l)' = Listed(l)
      /\ \A at : Content(at)' = Content(at)
      /\ There' = There
  BY FilesStand
<1>2. Homes(r)' = Homes(r)
  BY <1>1 DEF Homes, Places
<1>3. Routable(r)' <=> Routable(r)
  BY <1>1, <1>2 DEF Routable, Entitled, Placed
<1>4. \A s : Reals(s)' = Reals(s) /\ HomesAmong(r, s)' = HomesAmong(r, s)
  BY <1>1 DEF Reals, HomesAmong
<1>5. \A s : Collected(r, s)' <=> Collected(r, s)
  BY <1>1, <1>4 DEF Collected, Places
<1>6. Searching(r)' <=> Searching(r)
  BY <1>1, <1>5 DEF Searching, OwnKnown
<1>7. \A out : Deserved(r, out)' <=> Deserved(r, out)
  BY <1>1, <1>2, <1>3 DEF Deserved, Places
<1>8. Found(r)' <=> Found(r)
  BY <1>1, <1>2 DEF Found, Targeted, SocketOf
<1>9. Probing(r)' <=> Probing(r)
  BY <1>1, <1>3, <1>7, <1>8 DEF Probing
<1>10. RouteInv(r)'
  BY <1>6, <1>9 DEF Holds, RouteInv, Admitted, Entitled, Placed, Routing, Fresh
<1>11. ListInv(r)'
  BY <1>1 DEF Holds, ListInv, Listing, RowsTrue, Rowed, Fresh
<1>12. QED
  BY <1>10, <1>11 DEF Holds, Formed

\* A change makes notes stale for good.
LEMMA HoldsStale ==
  ASSUME NEW r, Holds(r), changes \in Nat, changes' = changes + 1
  PROVE  Holds(r)'
<1>1. r.kind # "init" => r.since \in Nat /\ r.since < changes'
  BY DEF Holds, Formed
<1>2. r.kind # "init" => ~Fresh(r)'
  BY <1>1 DEF Fresh
<1>3. RouteInv(r)'
  BY <1>2 DEF Holds, RouteInv, Admitted, Entitled, Placed, Routing
<1>4. ListInv(r)'
  BY <1>2 DEF Holds, ListInv
<1>5. QED
  BY <1>1, <1>3, <1>4 DEF Holds, Formed

-----------------------------------------------------------------------------
(* A step of one command. *)

Same == UNCHANGED <<disk, root, guide, answers, moves, changes>>

LEMMA Setting ==
  ASSUME Shapes, NEW p \in Procs, NEW new, Become(p, new)
  PROVE  /\ DOMAIN proc' = Procs /\ proc'[p] = new
         /\ \A q \in Procs \ {p} : proc'[q] = proc[q]
  BY DEF Shapes, Become

LEMMA StepKeeps ==
  ASSUME IInv, NEW p \in Procs, NEW new, Become(p, new), Same, Holds(new)
  PROVE  IInv'
<1>1. /\ DOMAIN proc' = Procs /\ proc'[p] = new
      /\ \A q \in Procs \ {p} : proc'[q] = proc[q]
  BY Setting DEF IInv
<1>2. Shapes' /\ Rooted'
  BY <1>1 DEF IInv, Shapes, Rooted, Same
<1>3. \A r : Holds(r) => Holds(r)'
  BY HoldsStands DEF Same
<1>4. ASSUME NEW q \in Procs PROVE Holds(proc[q])'
  <2>1. PICK r : r = proc'[q]
    OBVIOUS
  <2>2. Holds(r)
    BY <1>1, <2>1 DEF IInv
  <2>3. Holds(r)'
    BY <2>2, <1>3
  <2>4. QED
    BY <2>1, <2>3
<1>5. QED
  BY <1>2, <1>4 DEF IInv

\* A change of the world.
LEMMA ChangeKeeps ==
  ASSUME IInv, changes' = changes + 1, Shapes', Rooted',
         \A q \in Procs : proc'[q] = proc[q] \/ \E r : r = proc'[q] /\ Holds(r)
  PROVE  IInv'
<1>1. \A r : Holds(r) => Holds(r)'
  BY HoldsStale DEF IInv, Shapes
<1>2. ASSUME NEW q \in Procs PROVE Holds(proc[q])'
  <2>1. PICK r : r = proc'[q]
    OBVIOUS
  <2>2. Holds(r)'
    BY <1>1, <2>1 DEF IInv
  <2>3. QED
    BY <2>1, <2>2
<1>3. QED
  BY <1>2 DEF IInv

LEMMA SurroundingsMove ==
  ASSUME Surroundings
  PROVE  /\ Move /\ proc' = proc
         /\ \/ \E l \in Layouts, d \in Drafts : Write(l, d)
            \/ \E l \in Layouts : Delete(l)
            \/ TouchLayout
            \/ UNCHANGED <<disk, root, guide>>
<1> DEFINE Moves == Move /\ proc' = proc
           Apart == Moves /\ UNCHANGED <<disk, root, guide>>
<1>1. \A l, d : Write(l, d) => Moves
  BY DEF Write
<1>2. \A l : Delete(l) => Moves
  BY DEF Delete
<1>3. TouchLayout => Moves
  BY DEF TouchLayout
<1>4. \A l, k, a : Serve(l, k, a) => Apart
  BY DEF Serve
<1>5. \A s : EndSource(s) => Apart
  BY DEF EndSource
<1>6. \A s : TakeAlias(s) => Apart
  BY DEF TakeAlias
<1>7. \A s, l, n : Rejoin(s, l, n) => Apart
  BY DEF Rejoin
<1>8. CASE \/ \E l \in Layouts : Delete(l) \/ \E d \in Drafts : Write(l, d)
           \/ TouchLayout
  BY <1>1, <1>2, <1>3, <1>8
<1>9. CASE \/ \E l \in Layouts, k \in Sockets, a \in Answers : Serve(l, k, a)
           \/ \E s \in Sources : \/ EndSource(s) \/ TakeAlias(s)
                                 \/ \E l \in Layouts, n \in Names : Rejoin(s, l, n)
  BY <1>4, <1>5, <1>6, <1>7, <1>9
<1>10. QED
  BY <1>8, <1>9 DEF Surroundings

LEMMA SurroundingsKeep ==
  ASSUME IInv, Surroundings PROVE IInv'
<1>1. Move /\ proc' = proc
  BY SurroundingsMove
<1>2. moves' \in Nat /\ changes' = changes + 1 /\ changes' \in Nat
  BY <1>1 DEF Move, IInv, Shapes
<1>3. DOMAIN disk' = Layouts /\ Rooted'
  <2>1. CASE \E l \in Layouts, d \in Drafts : Write(l, d)
    BY <2>1 DEF Write, IInv, Shapes, Rooted, Bebop
  <2>2. CASE \E l \in Layouts : Delete(l)
    BY <2>2 DEF Delete, IInv, Shapes, Rooted, Bebop, Layouts
  <2>3. CASE TouchLayout
    <3>1. CASE root = "missing" /\ root' \in {"dir", "symlink", "file"} /\ UNCHANGED <<guide, disk>>
      BY <3>1 DEF IInv, Shapes, Rooted
    <3>2. CASE root = "dir" /\ guide' = "differs" /\ UNCHANGED <<root, disk>>
      BY <3>2 DEF IInv, Shapes, Rooted
    <3>3. CASE root' = "missing" /\ guide' = "missing" /\ disk' = [disk EXCEPT ![Bebop] = Nothing]
      BY <3>3 DEF IInv, Shapes, Rooted, Bebop, Layouts
    <3>4. QED
      BY <2>3, <3>1, <3>2, <3>3 DEF TouchLayout
  <2>4. CASE UNCHANGED <<disk, root, guide>>
    BY <2>4 DEF IInv, Shapes, Rooted
  <2>5. QED
    BY <2>1, <2>2, <2>3, <2>4, SurroundingsMove
<1>4. QED
  BY <1>1, <1>2, <1>3, ChangeKeeps DEF IInv, Shapes

-----------------------------------------------------------------------------
(* resolve and ask *)

\* A route's record, with nothing sent yet.
Routed(r) ==
  /\ DOMAIN r = Variables /\ r.kind \in {"resolve", "ask"}
  /\ r.since \in Nat /\ r.since <= changes

LEMMA RouteIsRouted ==
  ASSUME NEW r, Holds(r), Routing(r), r.pc # "done"
  PROVE  Routed(r)
  BY DEF Holds, Formed, Routing, Routed

LEMMA FailsFields ==
  ASSUME NEW r, DOMAIN r = Variables, NEW why
  PROVE  /\ DOMAIN Fails(r, why) = Variables
         /\ Fails(r, why).pc = "done" /\ Fails(r, why).out = why
         /\ Fails(r, why).kind = r.kind /\ Fails(r, why).caller = r.caller
         /\ Fails(r, why).target = r.target /\ Fails(r, why).given = r.given
         /\ Fails(r, why).at = r.at /\ Fails(r, why).socket = r.socket
         /\ Fails(r, why).home = r.home /\ Fails(r, why).rows = r.rows
         /\ Fails(r, why).since = r.since
  BY DEF Fails, Variables

LEMMA SameQuestion ==
  ASSUME NEW r, NEW s, s.caller = r.caller, s.target = r.target, s.given = r.given,
         s.home = r.home
  PROVE  /\ Places(s) = Places(r) /\ Homes(s) = Homes(r)
         /\ Entitled(s) <=> Entitled(r)
         /\ Placed(s) <=> Placed(r)
         /\ Routable(s) <=> Routable(r)
<1>1. Places(s) = Places(r) /\ (Entitled(s) <=> Entitled(r)) /\ (Placed(s) <=> Placed(r))
  BY DEF Places, Entitled, Placed
<1>2. Homes(s) = Homes(r)
  BY <1>1 DEF Homes
<1>3. QED
  BY <1>1, <1>2 DEF Routable

LEMMA FailsHolds ==
  ASSUME NEW r, Routed(r), NEW why, Fresh(r) => Deserved(r, why)
  PROVE  Holds(Fails(r, why))
<1> DEFINE s == Fails(r, why)
<1>1. /\ DOMAIN s = Variables /\ s.pc = "done" /\ s.out = why /\ s.kind = r.kind
      /\ s.caller = r.caller /\ s.target = r.target /\ s.given = r.given /\ s.at = r.at
      /\ s.socket = r.socket /\ s.home = r.home /\ s.since = r.since
  BY FailsFields DEF Routed
<1> HIDE DEF s
<1>2. Fresh(s) => Deserved(s, why)
  <2>1. /\ Places(s) = Places(r) /\ Homes(s) = Homes(r) /\ (Routable(s) <=> Routable(r))
    BY <1>1, SameQuestion
  <2>2. QED
    BY <1>1, <2>1 DEF Deserved, Fresh
<1>3. RouteInv(s)
  BY <1>1, <1>2 DEF RouteInv, Searching, Probing, Working
<1>4. Formed(s)
  BY <1>1 DEF Formed, Routed, Kinds, Stages
<1>5. QED
  BY <1>1, <1>3, <1>4 DEF Holds, ListInv, Routed, s

LEMMA GoesOn ==
  ASSUME NEW r, Routed(r), r.pc \in Working, r.pc = "send" => r.kind = "ask", Admitted(r),
         Fresh(r) => Searching(r) /\ Probing(r)
  PROVE  Holds(r)
<1>1. Formed(r)
  BY DEF Formed, Routed, Kinds, Stages, Working
<1>2. QED
  BY <1>1 DEF Holds, RouteInv, ListInv, Routed

\* Two homes, one home: there are two places.
LEMMA OneOrMany ==
  ASSUME NEW S, S \subseteq Layouts, NEW x \in S
  PROVE  /\ Cardinality(S) > 1 => \E y \in S : y # x
         /\ \A y \in S : y # x => Cardinality(S) > 1
<1>1. ASSUME \A y \in S : y = x PROVE ~(Cardinality(S) > 1)
  <2>1. S = {x}
    BY <1>1
  <2>2. QED
    BY <2>1, FS_Singleton
<1>2. ASSUME NEW y \in S, y # x PROVE Cardinality(S) > 1
  <2>1. S = {x} \cup {y} /\ y \notin {x}
    <3>1. \A z \in S : z = x \/ z = y
      BY <1>2 DEF Layouts
    <3>2. QED
      BY <1>2, <3>1
  <2>2. IsFiniteSet({x}) /\ Cardinality({x}) = 1
    BY FS_Singleton
  <2>3. Cardinality({x} \cup {y}) = 2
    BY <2>1, <2>2, FS_AddElement
  <2>4. QED
    BY <2>1, <2>3
<1>3. QED
  BY <1>1, <1>2

\* All places have been looked at: what was found is where the Crew is.
LEMMA AllFound ==
  ASSUME NEW r, Collected(r, {}), r.todo = {}
  PROVE  /\ Homes(r) = {f.loc : f \in r.found}
         /\ \A f \in r.found : f.man = Content(f.loc) /\ f.man # Refused
         /\ \A f, g \in r.found : f.loc = g.loc => f = g
<1>1. Homes(r) = HomesAmong(r, r.seen)
  BY DEF Collected, Homes, HomesAmong, Reals
<1>2. \A f \in r.found : /\ f = [loc |-> f.loc, man |-> Content(f.loc)]
                         /\ f.loc \in Homes(r)
  BY <1>1 DEF Collected
<1>3. \A at \in Homes(r) : \E f \in r.found : f.loc = at
  BY <1>1 DEF Collected
<1>4. \A f \in r.found : f.man = Content(f.loc) /\ f.man # Refused
  BY <1>2 DEF Homes
<1>5. \A f, g \in r.found : f.loc = g.loc => f = g
  BY <1>2
<1>6. Homes(r) = {f.loc : f \in r.found}
  BY <1>2, <1>3
<1>7. QED
  BY <1>4, <1>5, <1>6

LEMMA FoundOnce ==
  ASSUME NEW r, Collected(r, {}), r.todo = {}, NEW one \in r.found,
         r.given = None => ~(Cardinality(r.found) > 1)
  PROVE  Homes(r) = {one.loc}
<1>1. /\ Homes(r) = {f.loc : f \in r.found}
      /\ \A f, g \in r.found : f.loc = g.loc => f = g
  BY AllFound
<1>2. Homes(r) \subseteq Layouts
  BY DEF Homes
<1>3. CASE r.given # None
  BY <1>1, <1>3 DEF Homes, Places
<1>4. CASE r.given = None
  <2>1. ASSUME NEW f \in r.found, f # one PROVE FALSE
    <3>1. f.loc # one.loc /\ f.loc \in Layouts /\ one.loc \in Layouts
      BY <1>1, <1>2, <2>1
    <3>2. \A g \in r.found : g = f \/ g = one
      BY <1>1, <1>2, <3>1 DEF Layouts
    <3>3. r.found = {one} \cup {f} /\ f \notin {one}
      BY <2>1, <3>2
    <3>4. IsFiniteSet({one}) /\ Cardinality({one}) = 1
      BY FS_Singleton
    <3>5. Cardinality({one} \cup {f}) = 2
      BY <3>3, <3>4, FS_AddElement
    <3>6. QED
      BY <1>4, <3>3, <3>5
  <2>2. QED
    BY <1>1, <2>1
<1>5. QED
  BY <1>3, <1>4

LEMMA FoundMany ==
  ASSUME NEW r, Collected(r, {}), r.todo = {}, Cardinality(r.found) > 1
  PROVE  Cardinality(Homes(r)) > 1
<1>1. /\ Homes(r) = {f.loc : f \in r.found}
      /\ \A f, g \in r.found : f.loc = g.loc => f = g
  BY AllFound
<1>2. PICK f, g \in r.found : f # g
  <2>1. ASSUME r.found = {} PROVE FALSE
    BY <2>1, FS_EmptySet
  <2>2. PICK f \in r.found : TRUE
    BY <2>1
  <2>3. ASSUME r.found = {f} PROVE FALSE
    <3>1. Cardinality({f}) = 1
      BY FS_Singleton
    <3>2. QED
      BY <2>3, <3>1
  <2>4. QED
    BY <2>2, <2>3
<1>3. f.loc \in Homes(r) /\ g.loc \in Homes(r) /\ f.loc # g.loc
  BY <1>1, <1>2
<1>4. Homes(r) \subseteq Layouts
  BY DEF Homes
<1>5. QED
  BY <1>3, <1>4, OneOrMany

\* findTargetMember and the conclusions before the probe.
LEMMA MatchedHolds ==
  ASSUME NEW r, Routed(r), Admitted(r), r.todo = {},
         Fresh(r) => OwnKnown(r) /\ Collected(r, {})
  PROVE  Holds(Matched(r))
<1> DEFINE one == CHOOSE f \in r.found : TRUE
           n   == Targeted(r, one.man)
<1>1. Fresh(r) => /\ Homes(r) = {f.loc : f \in r.found}
                  /\ \A f \in r.found : f.man = Content(f.loc) /\ f.man # Refused
  BY AllFound
<1>2. r.found # {} => one \in r.found
  OBVIOUS
<1>3. CASE r.found = {}
  <2>1. Fresh(r) => Homes(r) = {} /\ ~Routable(r)
    BY <1>1, <1>3 DEF Routable
  <2>2. Fresh(r) => Deserved(r, "authorization-required") /\ Deserved(r, "unknown-crew")
    BY <2>1 DEF Deserved
  <2>3. r.bad = TRUE => (Fresh(r) => Deserved(r, "invalid-manifest"))
    BY <2>1 DEF Deserved, Collected
  <2>4. CASE r.given # None /\ r.escaped
    <3>1. Matched(r) = Fails(r, "authorization-required")
      BY <1>3, <2>4 DEF Matched
    <3>2. QED
      BY <2>2, <3>1, FailsHolds
  <2>5. CASE ~(r.given # None /\ r.escaped) /\ r.bad
    <3>1. Matched(r) = Fails(r, "invalid-manifest")
      BY <1>3, <2>5 DEF Matched
    <3>2. QED
      BY <2>3, <2>5, <3>1, FailsHolds
  <2>6. CASE ~(r.given # None /\ r.escaped) /\ ~r.bad
    <3>1. Matched(r) = Fails(r, "unknown-crew")
      BY <1>3, <2>6 DEF Matched
    <3>2. QED
      BY <2>2, <3>1, FailsHolds
  <2>7. QED
    BY <2>4, <2>5, <2>6
<1>4. CASE r.found # {} /\ r.given = None /\ Cardinality(r.found) > 1
  <2>1. Matched(r) = Fails(r, "ambiguous-crew")
    BY <1>4 DEF Matched
  <2>2. ASSUME Fresh(r) PROVE Deserved(r, "ambiguous-crew")
    <3>1. Cardinality(Homes(r)) > 1
      BY <1>4, <2>2, FoundMany
    <3>2. ~Routable(r)
      <4>1. Cardinality({Real(r.caller.loc)}) = 1
        BY FS_Singleton
      <4>2. QED
        BY <3>1, <4>1 DEF Routable
    <3>3. QED
      BY <3>1, <3>2 DEF Deserved, Admitted
  <2>3. QED
    BY <2>1, <2>2, FailsHolds
<1>5. CASE r.found # {} /\ ~(r.given = None /\ Cardinality(r.found) > 1)
  <2>1. one \in r.found
    BY <1>2, <1>5
  <2>2. Fresh(r) => /\ Homes(r) = {one.loc} /\ one.man = Content(one.loc) /\ one.man # Refused
                    /\ r.own = Real(r.caller.loc) /\ r.own # None
    BY <1>1, <1>5, <2>1, FoundOnce DEF OwnKnown
  <2> HIDE DEF one
  <2>3. CASE one.loc # r.own
    <3>1. Matched(r) = Fails(r, "authorization-required")
      BY <1>5, <2>3 DEF Matched, one
    <3>2. Fresh(r) => ~Routable(r)
      BY <2>2, <2>3 DEF Routable
    <3>3. Fresh(r) => Deserved(r, "authorization-required")
      BY <3>2 DEF Deserved
    <3>4. QED
      BY <3>1, <3>3, FailsHolds
  <2>4. Fresh(r) /\ one.loc = r.own /\ Routable(r) =>
          \E i \in DOMAIN one.man.members :
            one.man.members[i].name = n /\ (r.caller.kind = "member" => n # r.caller.name)
    BY <2>2 DEF Routable, Targeted
  <2>5. CASE one.loc = r.own /\ n \notin NamesOf(one.man.members)
    <3>1. Matched(r) = Fails(r, "unknown-member")
      BY <1>5, <2>5 DEF Matched, one
    <3>2. Fresh(r) => ~Routable(r)
      BY <2>4, <2>5 DEF NamesOf
    <3>3. Fresh(r) => Deserved(r, "unknown-member")
      BY <3>2 DEF Deserved
    <3>4. QED
      BY <3>1, <3>3, FailsHolds
  <2>6. CASE /\ one.loc = r.own /\ n \in NamesOf(one.man.members)
             /\ r.caller.kind = "member" /\ n = r.caller.name
    <3>1. Matched(r) = Fails(r, "self-target")
      BY <1>5, <2>6 DEF Matched, one
    <3>2. Fresh(r) => ~Routable(r)
      BY <2>4, <2>6
    <3>3. Fresh(r) => Deserved(r, "self-target")
      BY <3>2 DEF Deserved
    <3>4. QED
      BY <3>1, <3>3, FailsHolds
  <2>7. CASE /\ one.loc = r.own /\ n \in NamesOf(one.man.members)
             /\ ~(r.caller.kind = "member" /\ n = r.caller.name)
    <3> DEFINE s == [r EXCEPT !.pc = "probe", !.at = one.loc, !.member = n,
                              !.socket = SocketOf(one.man, n)]
    <3>1. Matched(r) = s
      BY <1>5, <2>7 DEF Matched, one
    <3>2. /\ DOMAIN s = Variables /\ s.pc = "probe" /\ s.at = one.loc /\ s.member = n
          /\ s.socket = SocketOf(one.man, n) /\ s.kind = r.kind /\ s.caller = r.caller
          /\ s.target = r.target /\ s.given = r.given /\ s.home = r.home /\ s.since = r.since
          /\ s.by = r.by /\ s.from = r.from
      BY DEF Routed, Variables
    <3> HIDE DEF s
    <3>3. Homes(s) = Homes(r) /\ (Entitled(s) <=> Entitled(r)) /\ (Placed(s) <=> Placed(r))
      BY <3>2, SameQuestion
    <3>4. Admitted(s) /\ Routed(s) /\ (Fresh(s) <=> Fresh(r))
      BY <3>2, <3>3 DEF Admitted, Routed, Fresh
    <3>5. Fresh(s) => Found(s)
      BY <2>2, <2>7, <3>2, <3>3, <3>4 DEF Found, Targeted
    <3>6. Holds(s)
      BY <3>2, <3>4, <3>5, GoesOn DEF Searching, Probing, Working
    <3>7. QED
      BY <3>1, <3>6
  <2>8. QED
    BY <2>3, <2>5, <2>6, <2>7
<1>6. QED
  BY <1>3, <1>4, <1>5

LEMMA LookedHolds ==
  ASSUME NEW r, Routed(r), Admitted(r), Fresh(r) => OwnKnown(r) /\ Collected(r, {})
  PROVE  Holds(Looked(r))
<1>1. CASE r.todo = {}
  BY <1>1, MatchedHolds DEF Looked
<1>2. CASE r.todo # {}
  <2> DEFINE s == [r EXCEPT !.pc = "real"]
  <2>1. Looked(r) = s
    BY <1>2 DEF Looked
  <2>2. /\ DOMAIN s = Variables /\ s.pc = "real" /\ s.kind = r.kind /\ s.caller = r.caller
        /\ s.target = r.target /\ s.given = r.given /\ s.home = r.home /\ s.since = r.since
        /\ s.by = r.by /\ s.from = r.from /\ s.own = r.own
        /\ s.todo = r.todo /\ s.seen = r.seen /\ s.found = r.found /\ s.bad = r.bad
    BY DEF Routed, Variables
  <2> HIDE DEF s
  <2>3. Places(s) = Places(r) /\ (Entitled(s) <=> Entitled(r)) /\ (Placed(s) <=> Placed(r))
    BY <2>2, SameQuestion
  <2>4. Admitted(s) /\ Routed(s) /\ (Fresh(s) <=> Fresh(r))
    BY <2>2, <2>3 DEF Admitted, Routed, Fresh
  <2>5. Fresh(r) => OwnKnown(s) /\ Collected(s, {})
    BY <2>2, <2>3 DEF OwnKnown, Collected, HomesAmong
  <2>6. Holds(s)
    BY <1>2, <2>2, <2>4, <2>5, GoesOn DEF Searching, Probing, Working
  <2>7. QED
    BY <2>1, <2>6
<1>3. QED
  BY <1>1, <1>2

\* Nothing of the project is read before a command is entitled to it.
LEMMA CheckedHolds ==
  ASSUME NEW r, Routed(r), r.given \in Layouts \cup {None, "outside", r.caller.loc},
         r.kind = "ask" /\ r.by \in Sources => r.from = r.by,
         r.seen = {}, r.found = {}, r.bad = FALSE
  PROVE  Holds(Checked(r))
<1>1. CASE r.target.sel \notin Selectors
  <2>1. Checked(r) = Fails(r, "unknown-crew") /\ Deserved(r, "unknown-crew")
    BY <1>1 DEF Checked, Deserved, Routable
  <2>2. QED
    BY <2>1, FailsHolds
<1>2. CASE r.target.sel \in Selectors /\ (~Entitled(r) \/ ~Placed(r))
  <2>1. Checked(r) = Fails(r, "authorization-required") /\ Deserved(r, "authorization-required")
    BY <1>2 DEF Checked, Deserved, Routable
  <2>2. QED
    BY <2>1, FailsHolds
<1>3. CASE r.target.sel \in Selectors /\ Entitled(r) /\ Placed(r)
  <2> DEFINE s == [r EXCEPT !.pc = "own"]
  <2>1. Checked(r) = s
    BY <1>3 DEF Checked
  <2>2. /\ DOMAIN s = Variables /\ s.pc = "own" /\ s.kind = r.kind /\ s.caller = r.caller
        /\ s.target = r.target /\ s.given = r.given /\ s.home = r.home /\ s.since = r.since
        /\ s.by = r.by /\ s.from = r.from
        /\ s.seen = {} /\ s.found = {} /\ s.bad = FALSE
    BY DEF Routed, Variables
  <2> HIDE DEF s
  <2>3. (Entitled(s) <=> Entitled(r)) /\ (Placed(s) <=> Placed(r))
    BY <2>2, SameQuestion
  <2>4. Admitted(s) /\ Routed(s)
    BY <1>3, <2>2, <2>3 DEF Admitted, Routed, Placed
  <2>5. Holds(s)
    BY <2>2, <2>4, GoesOn DEF Searching, Probing, Working
  <2>6. QED
    BY <2>1, <2>5
<1>4. QED
  BY <1>1, <1>2, <1>3

LEMMA Beginning ==
  ASSUME IInv, NEW p \in Procs, Kind(p) \in {"resolve", "ask"}, At(p, "start")
  PROVE  Routed(proc[p]) /\ proc[p] = Begin(Kind(p))
  BY DEF IInv, Holds, Formed, At, Kind, Routed

LEMMA ResolveKeeps ==
  ASSUME IInv, NEW p \in Procs, Resolve(p) PROVE IInv'
<1>1. PICK c \in Callers, t \in Targets, g \in Layouts \cup {None, "outside"}, h \in BOOLEAN :
        Become(p, Checked([proc[p] EXCEPT !.caller = c, !.target = t, !.given = g, !.home = h,
                                          !.since = changes]))
  BY DEF Resolve
<1> DEFINE r == [proc[p] EXCEPT !.caller = c, !.target = t, !.given = g, !.home = h,
                                !.since = changes]
<1>2. Routed(proc[p]) /\ proc[p] = Begin("resolve")
  BY Beginning DEF Resolve
<1>3. /\ DOMAIN r = Variables /\ r.kind = "resolve" /\ r.since = changes
      /\ r.given = g /\ r.seen = {} /\ r.found = {} /\ r.bad = FALSE
  BY <1>2 DEF Routed, Variables, Begin
<1> HIDE DEF r
<1>4. Routed(r)
  BY <1>3 DEF Routed, IInv, Shapes
<1>5. Holds(Checked(r))
  BY <1>3, <1>4, CheckedHolds
<1>6. Become(p, Checked(r))
  BY <1>1 DEF r
<1>7. QED
  BY <1>5, <1>6, StepKeeps DEF Resolve, Reads, Same

LEMMA AskKeeps ==
  ASSUME IInv, NEW p \in Procs, Ask(p) PROVE IInv'
<1>1. Routed(proc[p]) /\ proc[p] = Begin("ask")
  BY Beginning DEF Ask
<1>2. PICK t \in Targets, by \in Sources \cup {"alias"}, h \in BOOLEAN :
        LET s == Reached(by)
            r == [proc[p] EXCEPT !.target = t, !.by = by, !.home = h, !.from = s, !.since = changes]
        IN Become(p, IF s = None THEN Fails(r, "offline")
                     ELSE IF src[s].as = "none" THEN Fails(r, "not-joined")
                     ELSE IF src[s].id = None THEN Fails(r, "authorization-required")
                     ELSE Checked([r EXCEPT !.caller = CallerOf(s), !.given = src[s].loc]))
  BY DEF Ask
<1> DEFINE s == Reached(by)
           r == [proc[p] EXCEPT !.target = t, !.by = by, !.home = h, !.from = s, !.since = changes]
           e == [r EXCEPT !.caller = CallerOf(s), !.given = src[s].loc]
<1>3. /\ DOMAIN r = Variables /\ r.kind = "ask" /\ r.since = changes
      /\ r.by = by /\ r.from = s /\ r.caller = NoCaller /\ r.seen = {} /\ r.found = {}
      /\ r.bad = FALSE
  BY <1>1 DEF Routed, Variables, Begin
<1> HIDE DEF r
<1>4. Routed(r)
  BY <1>3 DEF Routed, IInv, Shapes
<1>5. ~Routable(r)
  BY <1>3 DEF Routable, Entitled, NoCaller
<1>6. \A out \in {"offline", "not-joined", "authorization-required"} : Holds(Fails(r, out))
  BY <1>4, <1>5, FailsHolds DEF Deserved
<1>7. ASSUME s # None PROVE Holds(Checked(e))
  <2>1. /\ DOMAIN e = Variables /\ e.kind = "ask" /\ e.since = changes
        /\ e.by = by /\ e.from = s /\ e.caller = CallerOf(s) /\ e.given = src[s].loc
        /\ e.seen = {} /\ e.found = {} /\ e.bad = FALSE
    BY <1>3 DEF Variables
  <2>2. Routed(e)
    BY <2>1 DEF Routed, IInv, Shapes
  <2>3. (by \in Sources => s = by) /\ e.given = e.caller.loc
    BY <1>7, <2>1 DEF Reached, CallerOf
  <2> HIDE DEF e
  <2>4. QED
    BY <2>1, <2>2, <2>3, CheckedHolds
<1>8. QED
  <2>1. CASE s = None
    BY <1>2, <1>6, <2>1, StepKeeps DEF Ask, Reads, Same, r
  <2>2. CASE s # None /\ src[s].as = "none"
    BY <1>2, <1>6, <2>2, StepKeeps DEF Ask, Reads, Same, r
  <2>3. CASE s # None /\ src[s].as # "none" /\ src[s].id = None
    BY <1>2, <1>6, <2>3, StepKeeps DEF Ask, Reads, Same, r
  <2>4. CASE s # None /\ src[s].as # "none" /\ src[s].id # None
    BY <1>2, <1>7, <2>4, StepKeeps DEF Ask, Reads, Same, r
  <2>5. QED
    BY <2>1, <2>2, <2>3, <2>4

LEMMA OnRoute ==
  ASSUME IInv, NEW p \in Procs, Routes(p), proc[p].pc \in Working
  PROVE  /\ Routed(proc[p]) /\ Admitted(proc[p])
         /\ Fresh(proc[p]) => Searching(proc[p]) /\ Probing(proc[p])
<1>1. Holds(proc[p])
  BY DEF IInv
<1>2. Routing(proc[p]) /\ proc[p].pc # "done"
  BY DEF Routes, Routing, Kind, Working
<1>3. QED
  BY <1>1, <1>2, RouteIsRouted DEF Holds, RouteInv

LEMMA FindOwnKeeps ==
  ASSUME IInv, NEW p \in Procs, FindOwn(p) PROVE IInv'
<1> DEFINE r  == proc[p]
           at == Real(r.caller.loc)
           s  == [r EXCEPT !.pc = "real", !.own = at,
                           !.todo = IF r.given # None THEN {r.given} ELSE Layouts]
<1>1. /\ Routed(r) /\ Admitted(r)
      /\ Fresh(r) => Searching(r)
      /\ r.pc = "own"
  BY OnRoute DEF FindOwn, At, Working
<1>2. Become(p, IF at = None THEN Fails(r, "authorization-required") ELSE s)
  BY DEF FindOwn
<1>3. CASE at = None
  <2>1. ~Routable(r)
    BY <1>3, NoneIsNone DEF Routable, Homes
  <2>2. Holds(Fails(r, "authorization-required"))
    BY <1>1, <2>1, FailsHolds DEF Deserved
  <2>3. QED
    BY <1>2, <1>3, <2>2, StepKeeps DEF FindOwn, Reads, Same
<1>4. CASE at # None
  <2>1. /\ DOMAIN s = Variables /\ s.pc = "real" /\ s.kind = r.kind /\ s.caller = r.caller
        /\ s.target = r.target /\ s.given = r.given /\ s.home = r.home /\ s.since = r.since
        /\ s.by = r.by /\ s.from = r.from /\ s.own = at
        /\ s.todo = Places(r) /\ s.seen = r.seen /\ s.found = r.found /\ s.bad = r.bad
    BY <1>1 DEF Routed, Variables, Places
  <2> HIDE DEF s
  <2>2. Places(s) = Places(r) /\ (Entitled(s) <=> Entitled(r)) /\ (Placed(s) <=> Placed(r))
    BY <2>1, SameQuestion
  <2>3. Admitted(s) /\ Routed(s) /\ (Fresh(s) <=> Fresh(r))
    BY <1>1, <2>1, <2>2 DEF Admitted, Routed, Fresh
  <2>4. Fresh(r) => s.seen = {} /\ s.found = {} /\ s.bad = FALSE
    BY <1>1, <2>1 DEF Searching
  <2>5. Fresh(r) => Collected(s, {})
    BY <2>1, <2>2, <2>4 DEF Collected, Reals, HomesAmong
  <2>6. Fresh(r) => OwnKnown(s)
    BY <1>4, <2>1 DEF OwnKnown
  <2>7. s.todo # {}
    BY <2>1 DEF Places, Layouts
  <2>8. Holds(s)
    BY <2>1, <2>3, <2>5, <2>6, <2>7, GoesOn DEF Searching, Probing, Working
  <2>9. QED
    BY <1>2, <1>4, <2>8, StepKeeps DEF FindOwn, Reads, Same
<1>5. QED
  BY <1>3, <1>4

LEMMA FirstIsOne ==
  ASSUME NEW places, places \subseteq Layouts, places # {}
  PROVE  First(places) \in places
  BY DEF First, Layouts, Bebop

LEMMA FindRealKeeps ==
  ASSUME IInv, NEW p \in Procs, FindReal(p) PROVE IInv'
<1> DEFINE r0 == proc[p]
           l  == First(r0.todo)
           at == Real(l)
           r  == [r0 EXCEPT !.todo = @ \ {l}, !.seen = @ \cup {at}]
           e  == [r EXCEPT !.escaped = TRUE]
           s  == [r EXCEPT !.pc = "read", !.at = at]
<1>1. Become(p, IF at = None \/ at \in r0.seen THEN Looked(r)
                ELSE IF at \notin Layouts THEN Looked(e) ELSE s)
  BY DEF FindReal
<1>2. /\ Routed(r0) /\ Admitted(r0) /\ r0.pc = "real"
      /\ Fresh(r0) => OwnKnown(r0) /\ Collected(r0, {}) /\ r0.todo # {}
  BY OnRoute DEF FindReal, At, Working, Searching
<1> DEFINE Alike(x) == /\ DOMAIN x = Variables /\ x.kind = r0.kind /\ x.caller = r0.caller
                       /\ x.target = r0.target /\ x.given = r0.given /\ x.home = r0.home
                       /\ x.since = r0.since /\ x.by = r0.by
                       /\ x.from = r0.from /\ x.own = r0.own /\ x.found = r0.found
                       /\ x.bad = r0.bad /\ x.todo = r0.todo \ {l}
                       /\ x.seen = r0.seen \cup {at}
<1>3. Alike(r) /\ Alike(e)
  BY <1>2 DEF Routed, Variables
<1>4. Alike(s) /\ s.pc = "read" /\ s.at = at
  BY <1>2 DEF Routed, Variables
<1> HIDE DEF r, e, s
<1>5. ASSUME NEW x, Alike(x)
      PROVE  /\ Admitted(x) /\ Routed(x) /\ (Fresh(x) <=> Fresh(r0))
             /\ Fresh(r0) => OwnKnown(x) /\ Collected(x, {at})
             /\ (Fresh(r0) /\ (at = None \/ at \in r0.seen \/ at \notin Layouts)) => Collected(x, {})
  <2>1. /\ Places(x) = Places(r0) /\ (Entitled(x) <=> Entitled(r0)) /\ (Placed(x) <=> Placed(r0))
    BY <1>5, SameQuestion
  <2>2. Admitted(x) /\ Routed(x) /\ (Fresh(x) <=> Fresh(r0))
    BY <1>2, <1>5, <2>1 DEF Admitted, Routed, Fresh
  <2>3. ASSUME Fresh(r0)
        PROVE  /\ OwnKnown(x) /\ Collected(x, {at})
               /\ (at = None \/ at \in r0.seen \/ at \notin Layouts) => Collected(x, {})
    <3>1. l \in r0.todo /\ r0.todo \subseteq Places(r0)
      <4>1. r0.todo \subseteq Places(r0) /\ r0.todo # {}
        BY <1>2, <2>3 DEF Collected
      <4>2. Places(r0) \subseteq Layouts
        BY <1>2 DEF Admitted, Places
      <4>3. QED
        BY <4>1, <4>2, FirstIsOne
    <3>2. x.seen = Reals(Places(x) \ x.todo) /\ x.todo \subseteq Places(x)
      <4>1. Places(r0) \ (r0.todo \ {l}) = (Places(r0) \ r0.todo) \cup {l}
        BY <3>1
      <4>2. Reals((Places(r0) \ r0.todo) \cup {l}) = Reals(Places(r0) \ r0.todo) \cup {at}
        BY DEF Reals
      <4>3. r0.seen = Reals(Places(r0) \ r0.todo)
        BY <1>2, <2>3 DEF Collected
      <4>4. QED
        BY <1>5, <2>1, <3>1, <4>1, <4>2, <4>3
    <3>3. HomesAmong(x, x.seen) = HomesAmong(r0, r0.seen) \cup HomesAmong(r0, {at})
      BY <1>5 DEF HomesAmong
    <3>4. HomesAmong(r0, {at}) \subseteq {at} \cap Layouts
      BY DEF HomesAmong
    <3>5. (at = None \/ at \in r0.seen \/ at \notin Layouts) =>
             HomesAmong(x, x.seen) = HomesAmong(r0, r0.seen)
      BY <1>5, <3>3, <3>4, NoneIsNone DEF HomesAmong
    <3>6. /\ \A f \in r0.found : /\ f = [loc |-> f.loc, man |-> Content(f.loc)]
                                 /\ f.loc \in HomesAmong(r0, r0.seen)
          /\ \A a \in HomesAmong(r0, r0.seen) : \E f \in r0.found : f.loc = a
          /\ r0.bad = TRUE => \E k \in Places(r0) : Real(k) # None /\ Content(Real(k)) = Refused
      BY <1>2, <2>3 DEF Collected
    <3>7. Collected(x, {at})
      BY <1>5, <2>1, <3>2, <3>3, <3>4, <3>6 DEF Collected
    <3>8. (at = None \/ at \in r0.seen \/ at \notin Layouts) => Collected(x, {})
      BY <1>5, <2>1, <3>2, <3>5, <3>6 DEF Collected
    <3>9. OwnKnown(x)
      BY <1>2, <1>5, <2>3 DEF OwnKnown
    <3>10. QED
      BY <3>7, <3>8, <3>9
  <2>4. QED
    BY <2>2, <2>3
<1>6. CASE at = None \/ at \in r0.seen
  BY <1>1, <1>3, <1>5, <1>6, LookedHolds, StepKeeps DEF FindReal, Reads, Same
<1>7. CASE ~(at = None \/ at \in r0.seen) /\ at \notin Layouts
  BY <1>1, <1>3, <1>5, <1>7, LookedHolds, StepKeeps DEF FindReal, Reads, Same
<1>8. CASE ~(at = None \/ at \in r0.seen) /\ at \in Layouts
  <2>1. s.at \in s.seen \cap Layouts
    BY <1>4, <1>8
  <2>2. Holds(s)
    BY <1>4, <1>5, <2>1, GoesOn DEF Searching, Probing, Working
  <2>3. QED
    BY <1>1, <1>8, <2>2, StepKeeps DEF FindReal, Reads, Same
<1>9. QED
  BY <1>6, <1>7, <1>8

LEMMA ReadCandidateKeeps ==
  ASSUME IInv, NEW p \in Procs, ReadCandidate(p) PROVE IInv'
<1> DEFINE r   == proc[p]
           man == Content(r.at)
           bad == [r EXCEPT !.bad = TRUE]
           hit == [r EXCEPT !.found = @ \cup {[loc |-> r.at, man |-> man]}]
<1>1. Become(p, Looked(IF man = Refused THEN bad
                       ELSE IF man.crew = r.target.sel THEN hit ELSE r))
  BY DEF ReadCandidate
<1>2. /\ Routed(r) /\ Admitted(r)
      /\ Fresh(r) => OwnKnown(r) /\ Collected(r, {r.at}) /\ r.at \in r.seen \cap Layouts
  BY OnRoute DEF ReadCandidate, At, Working, Searching
<1> DEFINE Alike(x) == /\ DOMAIN x = Variables /\ x.kind = r.kind /\ x.caller = r.caller
                       /\ x.target = r.target /\ x.given = r.given /\ x.home = r.home
                       /\ x.since = r.since /\ x.by = r.by
                       /\ x.from = r.from /\ x.own = r.own /\ x.todo = r.todo
                       /\ x.seen = r.seen
<1>3. Alike(bad) /\ bad.found = r.found /\ bad.bad = TRUE
  BY <1>2 DEF Routed, Variables
<1>4. Alike(hit) /\ hit.found = r.found \cup {[loc |-> r.at, man |-> man]} /\ hit.bad = r.bad
  BY <1>2 DEF Routed, Variables
<1>5. Alike(r)
  BY <1>2 DEF Routed
<1> HIDE DEF bad, hit
<1>6. ASSUME NEW x, Alike(x), Fresh(r) => Collected(x, {})
      PROVE  Holds(Looked(x))
  <2>1. (Entitled(x) <=> Entitled(r)) /\ (Placed(x) <=> Placed(r))
    BY <1>6, SameQuestion
  <2>2. Admitted(x) /\ Routed(x) /\ (Fresh(x) <=> Fresh(r))
    BY <1>2, <1>6, <2>1 DEF Admitted, Routed, Fresh
  <2>3. Fresh(r) => OwnKnown(x)
    BY <1>2, <1>6 DEF OwnKnown
  <2>4. QED
    BY <1>6, <2>2, <2>3, LookedHolds
<1>7. ASSUME Fresh(r)
      PROVE  /\ r.todo \subseteq Places(r) /\ r.seen = Reals(Places(r) \ r.todo)
             /\ \A f \in r.found : /\ f = [loc |-> f.loc, man |-> Content(f.loc)]
                                   /\ f.loc \in HomesAmong(r, r.seen)
             /\ \A a \in HomesAmong(r, r.seen) \ {r.at} : \E f \in r.found : f.loc = a
             /\ r.bad = TRUE => \E k \in Places(r) : Real(k) # None /\ Content(Real(k)) = Refused
             /\ r.at \in r.seen \cap Layouts
  BY <1>2, <1>7 DEF Collected
<1>8. ASSUME NEW x, Alike(x)
      PROVE  Places(x) = Places(r) /\ HomesAmong(x, x.seen) = HomesAmong(r, r.seen)
  BY <1>8 DEF Places, HomesAmong
<1>9. CASE man = Refused
  <2>1. ASSUME Fresh(r) PROVE Collected(bad, {})
    <3>1. r.at \notin HomesAmong(r, r.seen)
      BY <1>9 DEF HomesAmong
    <3>2. \E k \in Places(r) : Real(k) # None /\ Content(Real(k)) = Refused
      <4>1. PICK k \in Places(r) : Real(k) = r.at
        BY <1>7, <2>1 DEF Reals
      <4>2. QED
        BY <1>7, <1>9, <2>1, <4>1, NoneIsNone
    <3>3. Places(bad) = Places(r) /\ HomesAmong(bad, bad.seen) = HomesAmong(r, r.seen)
      BY <1>3, <1>8
    <3>4. QED
      BY <1>3, <1>7, <2>1, <3>1, <3>2, <3>3 DEF Collected
  <2>2. Holds(Looked(bad))
    BY <1>3, <1>6, <2>1
  <2>3. QED
    BY <1>1, <1>9, <2>2, StepKeeps DEF ReadCandidate, Reads, Same
<1>10. CASE man # Refused /\ man.crew = r.target.sel
  <2>1. ASSUME Fresh(r) PROVE Collected(hit, {})
    <3>1. r.at \in HomesAmong(r, r.seen)
      BY <1>7, <1>10, <2>1 DEF HomesAmong
    <3>2. Places(hit) = Places(r) /\ HomesAmong(hit, hit.seen) = HomesAmong(r, r.seen)
      BY <1>4, <1>8
    <3>3. \A f \in hit.found : /\ f = [loc |-> f.loc, man |-> Content(f.loc)]
                               /\ f.loc \in HomesAmong(r, r.seen)
      BY <1>4, <1>7, <2>1, <3>1
    <3>4. ASSUME NEW a \in HomesAmong(r, r.seen) PROVE \E f \in hit.found : f.loc = a
      <4>1. CASE a # r.at
        BY <1>4, <1>7, <2>1, <4>1
      <4>2. CASE a = r.at
        <5>1. [loc |-> r.at, man |-> man].loc = r.at
          OBVIOUS
        <5>2. QED
          BY <1>4, <4>2, <5>1
      <4>3. QED
        BY <4>1, <4>2
    <3>5. QED
      BY <1>4, <1>7, <2>1, <3>2, <3>3, <3>4 DEF Collected
  <2>2. Holds(Looked(hit))
    BY <1>4, <1>6, <2>1
  <2>3. QED
    BY <1>1, <1>10, <2>2, StepKeeps DEF ReadCandidate, Reads, Same
<1>11. CASE man # Refused /\ man.crew # r.target.sel
  <2>1. ASSUME Fresh(r) PROVE Collected(r, {})
    <3>1. r.at \notin HomesAmong(r, r.seen)
      BY <1>11 DEF HomesAmong
    <3>2. QED
      BY <1>7, <2>1, <3>1 DEF Collected
  <2>2. Holds(Looked(r))
    BY <1>5, <1>6, <2>1
  <2>3. QED
    BY <1>1, <1>11, <2>2, StepKeeps DEF ReadCandidate, Reads, Same
<1>12. QED
  BY <1>9, <1>10, <1>11

\* The probe resolves a target exactly when it is routable; its socket is one Member's.
LEMMA ProbeIsRight ==
  ASSUME NEW r, Admitted(r), Found(r)
  PROVE  /\ Owned(answers[r.at][r.socket], r.at) = "resolved" => Routable(r)
         /\ Routable(r) => Owned(answers[r.at][r.socket], r.at) \in {"resolved", "offline-member"}
         /\ Cardinality(BySocket(Content(r.at), r.socket)) = 1
<1> DEFINE man == Content(r.at)
           a   == answers[r.at][r.socket]
<1>1. /\ r.at = Real(r.caller.loc) /\ Homes(r) = {r.at} /\ r.member = Targeted(r, man)
      /\ r.member \in NamesOf(man.members)
      /\ ~(r.caller.kind = "member" /\ r.member = r.caller.name)
      /\ r.socket = SocketOf(man, r.member)
  BY DEF Found
<1>2. r.at \in Layouts /\ man # Refused
  BY <1>1 DEF Homes
<1>3. Real(r.at) = r.at
  BY <1>1, <1>2, RealIsReal
<1>4. PICK i \in DOMAIN man.members :
        /\ man.members[i].name = r.member /\ r.socket = man.members[i].socket
        /\ \A j \in DOMAIN man.members : man.members[j].name = r.member => j = i
        /\ BySocket(man, r.socket) = {i}
  BY <1>1, <1>2, OneMember
<1>5. Cardinality(BySocket(man, r.socket)) = 1
  BY <1>4, FS_Singleton
<1>6. ASSUME Owned(a, r.at) = "resolved" PROVE Routable(r)
  <2>1. Reported(a) /\ SamePlace(a, r.at)
    BY <1>6 DEF Owned
  <2>2. a \in Layouts /\ Real(a) = r.at
    BY <1>2, <1>3, <2>1 DEF Reported, SamePlace, RealOf
  <2>3. QED
    BY <1>1, <1>4, <2>2 DEF Routable, Admitted, Targeted
<1>7. ASSUME Routable(r) PROVE Owned(a, r.at) \in {"resolved", "offline-member"}
  <2>1. PICK j \in DOMAIN man.members :
          /\ man.members[j].name = Targeted(r, man)
          /\ answers[r.at][man.members[j].socket] \in {l \in Layouts : Real(l) = r.at}
    BY <1>1, <1>7 DEF Routable, Targeted
  <2>2. a \in Layouts /\ Real(a) = r.at
    BY <1>1, <1>4, <2>1
  <2>3. Reported(a) /\ SamePlace(a, r.at)
    BY <1>2, <1>3, <2>2, NoneIsNone DEF Reported, SamePlace, RealOf
  <2>4. QED
    BY <2>2, <2>3 DEF Owned, Layouts
<1>8. QED
  BY <1>5, <1>6, <1>7

LEMMA OwnedAnswers ==
  \A a, at : Owned(a, at) \in {"offline-member", "malformed-response", "resolved", "route-conflict"}
  BY DEF Owned

LEMMA ProbeKeeps ==
  ASSUME IInv, NEW p \in Procs, Probe(p) PROVE IInv'
<1> DEFINE r   == proc[p]
           out == Owned(answers[r.at][r.socket], r.at)
           s   == [r EXCEPT !.pc = "send"]
<1>1. Become(p, IF out = "resolved" /\ r.kind = "ask" THEN s ELSE Fails(r, out))
  BY DEF Probe
<1>2. Routed(r) /\ Admitted(r) /\ (Fresh(r) => Found(r))
  BY OnRoute DEF Probe, At, Working, Probing
<1>3. ASSUME Fresh(r)
      PROVE  /\ out = "resolved" => Routable(r)
             /\ Routable(r) => out \in {"resolved", "offline-member"}
             /\ Cardinality(BySocket(Content(r.at), r.socket)) = 1
  BY <1>2, <1>3, ProbeIsRight
<1>4. out \in {"offline-member", "malformed-response", "resolved", "route-conflict"}
  BY OwnedAnswers
<1> HIDE DEF out
<1>5. CASE out = "resolved" /\ r.kind = "ask"
  <2>1. /\ DOMAIN s = Variables /\ s.pc = "send" /\ s.kind = "ask" /\ s.caller = r.caller
        /\ s.target = r.target /\ s.given = r.given /\ s.home = r.home /\ s.since = r.since
        /\ s.by = r.by /\ s.from = r.from /\ s.at = r.at
        /\ s.member = r.member /\ s.socket = r.socket
    BY <1>2, <1>5 DEF Routed, Variables
  <2> HIDE DEF s
  <2>2. /\ Homes(s) = Homes(r) /\ (Entitled(s) <=> Entitled(r)) /\ (Placed(s) <=> Placed(r))
        /\ Routable(s) <=> Routable(r)
    BY <2>1, SameQuestion
  <2>3. Admitted(s) /\ Routed(s) /\ (Fresh(s) <=> Fresh(r))
    BY <1>2, <1>5, <2>1, <2>2 DEF Admitted, Routed, Fresh
  <2>4. Fresh(r) => Found(s)
    BY <1>2, <2>1, <2>2 DEF Found, Targeted
  <2>5. Holds(s)
    BY <1>3, <1>5, <2>1, <2>2, <2>3, <2>4, GoesOn DEF Searching, Probing, Working
  <2>6. QED
    BY <1>1, <1>5, <2>5, StepKeeps DEF Probe, Reads, Same
<1>6. CASE ~(out = "resolved" /\ r.kind = "ask")
  <2>1. Fresh(r) => r.at \in Homes(r)
    BY <1>2 DEF Found
  <2>2. Fresh(r) => Deserved(r, out)
    BY <1>3, <1>4, <2>1 DEF Deserved
  <2>3. Holds(Fails(r, out))
    BY <1>2, <2>2, FailsHolds
  <2>4. QED
    BY <1>1, <1>6, <2>3, StepKeeps DEF Probe, Reads, Same
<1>7. QED
  BY <1>5, <1>6

\* A deadline and a cancelled signal say nothing of the project.
LEMMA GivenUpKeeps ==
  ASSUME IInv, NEW p \in Procs, Expire(p) \/ Cancel(p) PROVE IInv'
<1> DEFINE r == proc[p]
<1>1. /\ r.pc \in Working /\ Routes(p)
      /\ \E out \in {"discovery-timeout", "offline-member", "cancelled"} : Settle(p, out)
      /\ Reads
  BY DEF Expire, Cancel, At, Working
<1>2. PICK out \in {"discovery-timeout", "offline-member", "cancelled"} : Settle(p, out)
  BY <1>1
<1>3. Become(p, Fails(r, out))
  BY <1>2 DEF Settle, Fails
<1>4. Routed(r) /\ Deserved(r, out)
  BY <1>1, OnRoute DEF Deserved
<1>5. Holds(Fails(r, out))
  BY <1>4, FailsHolds
<1>6. QED
  BY <1>1, <1>3, <1>5, StepKeeps DEF Reads, Same

LEMMA SendKeeps ==
  ASSUME IInv, NEW p \in Procs, Send(p) PROVE IInv'
<1> DEFINE r == proc[p]
           s == Reached(r.by)
           e == [r EXCEPT !.pc = "done", !.out = "resolved"]
<1>1. Become(p, IF s = None THEN Fails(r, "offline")
                ELSE IF ~Accepted(s, r) THEN Fails(r, "delivery-rejected") ELSE e)
  BY DEF Send
<1>2. r.pc = "send" /\ r.kind = "ask"
  BY DEF Send, At, IInv, Holds, Formed, Stages, Kinds, Working
<1>3. /\ Routed(r) /\ Admitted(r)
      /\ Fresh(r) => /\ Found(r) /\ Routable(r)
                     /\ Cardinality(BySocket(Content(r.at), r.socket)) = 1
  BY <1>2, OnRoute DEF Routes, Kind, Working, Probing
<1>4. Holds(Fails(r, "offline")) /\ Holds(Fails(r, "delivery-rejected"))
  BY <1>3, FailsHolds DEF Deserved
<1>5. Holds(e)
  <2>1. /\ DOMAIN e = Variables /\ e.pc = "done" /\ e.out = "resolved"
        /\ e.kind = "ask" /\ e.caller = r.caller /\ e.target = r.target /\ e.given = r.given
        /\ e.home = r.home /\ e.since = r.since /\ e.by = r.by /\ e.from = r.from
        /\ e.at = r.at /\ e.socket = r.socket
    BY <1>2, <1>3 DEF Routed, Variables
  <2> HIDE DEF e
  <2>2. Homes(e) = Homes(r) /\ (Routable(e) <=> Routable(r)) /\ Places(e) = Places(r)
    BY <2>1, SameQuestion
  <2>3. Fresh(e) => Deserved(e, "resolved")
    BY <1>3, <2>1, <2>2 DEF Deserved, Found, Fresh
  <2>4. RouteInv(e)
    BY <2>1, <2>3 DEF RouteInv, Searching, Probing, Working
  <2>5. Formed(e)
    BY <1>3, <2>1 DEF Formed, Routed, Kinds, Stages
  <2>6. QED
    BY <1>3, <2>1, <2>4, <2>5 DEF Holds, ListInv, Routed
<1>6. QED
  BY <1>1, <1>4, <1>5, StepKeeps DEF Send, Reads, Same

-----------------------------------------------------------------------------
(* select, list, init *)

\* A record of any command that has not sent anything, in the middle of its work.
Midway(r) ==
  /\ DOMAIN r = Variables /\ r.pc # "start" /\ r.pc \in Stages(r.kind)
  /\ r.since \in Nat

LEMMA Running ==
  ASSUME IInv, NEW p \in Procs, ~At(p, "done")
  PROVE  /\ DOMAIN proc[p] = Variables /\ proc[p].since \in Nat
         /\ Kind(p) \in Kinds /\ proc[p].pc \in Stages(Kind(p))
         /\ Kind(p) # "init" => proc[p].since <= changes
         /\ At(p, "start") => proc[p] = Begin(Kind(p))
  BY DEF IInv, Holds, Formed, At, Kind

LEMMA SelectKeeps ==
  ASSUME IInv, NEW p \in Procs, Select(p) \/ Query(p) \/ Use(p) PROVE IInv'
<1> DEFINE r == proc[p]
<1>1. /\ DOMAIN r = Variables /\ r.since \in Nat /\ r.since <= changes
      /\ r.kind = "select"
  BY Running DEF Select, Query, Use, At, Kind
<1>2. ASSUME NEW new, DOMAIN new = Variables, new.kind = "select",
             new.pc \in {"query", "use", "done"}, new.since \in Nat, new.since <= changes,
             Become(p, new), Reads
      PROVE  IInv'
  <2>1. Holds(new)
    BY <1>2 DEF Holds, Formed, Kinds, Stages, RouteInv, Routing, ListInv
  <2>2. QED
    BY <1>2, <2>1, StepKeeps DEF Reads, Same
<1>3. changes \in Nat
  BY DEF IInv, Shapes
<1>4. CASE Select(p)
  <2>1. PICK by \in Sources \cup {"alias"} :
          LET s == IF by \in Sources THEN by ELSE Reached(by) IN
          Become(p, IF s = None THEN Fails([proc[p] EXCEPT !.by = by, !.since = changes],
                                           "unknown-session")
                    ELSE [proc[p] EXCEPT !.pc = "query", !.by = by, !.from = s, !.since = changes])
    BY <1>4 DEF Select
  <2> DEFINE s == IF by \in Sources THEN by ELSE Reached(by)
             a == [proc[p] EXCEPT !.by = by, !.since = changes]
             b == [proc[p] EXCEPT !.pc = "query", !.by = by, !.from = s, !.since = changes]
  <2>2. /\ DOMAIN a = Variables /\ a.kind = "select" /\ a.since = changes
    BY <1>1 DEF Variables
  <2>3. /\ DOMAIN b = Variables /\ b.kind = "select" /\ b.since = changes
        /\ b.pc = "query"
    BY <1>1 DEF Variables
  <2>4. Reads
    BY <1>4 DEF Select
  <2>5. CASE s = None
    <3>1. Become(p, Fails(a, "unknown-session"))
      BY <2>1, <2>5
    <3> HIDE DEF a
    <3>2. /\ DOMAIN Fails(a, "unknown-session") = Variables
          /\ Fails(a, "unknown-session").pc = "done"
          /\ Fails(a, "unknown-session").kind = "select"
          /\ Fails(a, "unknown-session").since = changes
      BY <2>2, FailsFields
    <3> DEFINE n == Fails(a, "unknown-session")
    <3>3. Become(p, n) /\ DOMAIN n = Variables /\ n.pc = "done" /\ n.kind = "select"
          /\ n.since = changes
      BY <3>1, <3>2
    <3> HIDE DEF n
    <3>4. changes <= changes
      BY <1>3
    <3>5. QED
      BY <1>2, <1>3, <2>4, <3>3, <3>4
  <2>6. CASE s # None
    <3>1. Become(p, b)
      BY <2>1, <2>6
    <3> HIDE DEF b
    <3>2. changes <= changes
      BY <1>3
    <3>3. QED
      BY <1>2, <1>3, <2>3, <2>4, <3>1, <3>2
  <2>7. QED
    BY <2>5, <2>6
<1>5. ASSUME NEW out, Become(p, Fails(r, out)), Reads PROVE IInv'
  <2>1. /\ DOMAIN Fails(r, out) = Variables /\ Fails(r, out).pc = "done"
        /\ Fails(r, out).kind = "select" /\ Fails(r, out).since = r.since
    BY <1>1, FailsFields
  <2>2. QED
    BY <1>1, <1>2, <1>5, <2>1
<1>6. CASE Query(p)
  <2> DEFINE a == [r EXCEPT !.pc = "use"]
  <2>1. Become(p, Fails(r, "unknown-session")) \/ Become(p, Fails(r, "not-joined")) \/ Become(p, a)
    BY <1>6 DEF Query, Settle, Goto, Fails
  <2>2. /\ DOMAIN a = Variables /\ a.kind = "select" /\ a.since = r.since
        /\ a.pc = "use"
    BY <1>1 DEF Variables
  <2> HIDE DEF a
  <2>3. QED
    BY <1>1, <1>2, <1>5, <1>6, <2>1, <2>2 DEF Query
<1>7. CASE Use(p)
  <2>1. \E out : Settle(p, out)
    BY <1>7 DEF Use
  <2>2. \E out : Become(p, Fails(r, out))
    BY <2>1 DEF Settle, Fails
  <2>3. QED
    BY <1>5, <1>7, <2>2 DEF Use
<1>8. QED
  BY <1>4, <1>6, <1>7

InitRecord(r) == Midway(r) /\ r.kind = "init"

LEMMA InitRecordHolds ==
  ASSUME NEW r, InitRecord(r) PROVE Holds(r)
  BY DEF InitRecord, Midway, Holds, Formed, Kinds, RouteInv, Routing, ListInv

InitQuietly(p) ==
  \/ StartInit(p) \/ Classify(p) \/ Decide(p) \/ Stage(p) \/ Fill(p) \/ PublishRefused(p)
  \/ ClassifyAgain(p) \/ Reconcile(p) \/ InitFails(p) \/ Clean(p)

LEMMA InitGoes ==
  ASSUME IInv, NEW p \in Procs, InitQuietly(p) \/ Publish(p) \/ Crash(p)
  PROVE  \E new : Become(p, new) /\ InitRecord(new)
<1> DEFINE r == proc[p]
           Other == {"classify", "stage", "fill", "publish", "again", "clean", "done", "crashed"}
<1>1. ~At(p, "done") /\ Kind(p) = "init"
  <2>1. ~At(p, "done")
    BY DEF InitQuietly, StartInit, Classify, ClassifyAgain, Classifies, Decide, Stage, Fill, Publish,
           PublishRefused, Reconcile, InitFails, Clean, Crash, At
  <2>2. CASE Kind(p) = "init"
    BY <2>1, <2>2
  <2>3. CASE r.pc \in {"fill", "publish", "clean"}
    <3>1. Kind(p) \in Kinds /\ r.pc \in Stages(Kind(p))
      BY <2>1, Running
    <3>2. QED
      BY <2>1, <2>3, <3>1 DEF Stages, Kinds, Working
  <2>4. QED
    BY <2>2, <2>3 DEF InitQuietly, StartInit, Classify, ClassifyAgain, Classifies, Decide, Stage, Fill,
           Publish, PublishRefused, Reconcile, InitFails, Clean, Crash, At
<1>2. DOMAIN r = Variables /\ r.since \in Nat /\ r.kind = "init" /\ moves \in Nat
  BY <1>1, Running DEF Kind, IInv, Shapes
<1>3. ASSUME NEW new, Become(p, new), DOMAIN new = Variables, new.kind = "init",
             new.since \in Nat, new.pc \in Other
      PROVE  \E n : Become(p, n) /\ InitRecord(n)
  BY <1>3 DEF InitRecord, Midway, Stages
<1>4. ASSUME NEW pc \in Other
      PROVE  LET a == [r EXCEPT !.pc = pc] IN
             /\ DOMAIN a = Variables /\ a.kind = "init" /\ a.since \in Nat
             /\ a.pc \in Other
  BY <1>2 DEF Variables
<1>5. \A pc \in Other : Goto(p, pc) => \E n : Become(p, n) /\ InitRecord(n)
  BY <1>3, <1>4 DEF Goto
<1>6. ASSUME NEW pc \in Other, NEW out
      PROVE  LET a == [r EXCEPT !.pc = pc, !.out = out] IN
             /\ DOMAIN a = Variables /\ a.kind = "init" /\ a.since \in Nat
             /\ a.pc \in Other
  BY <1>2 DEF Variables
<1>7. \A pc \in Other : \A out :
        Become(p, [r EXCEPT !.pc = pc, !.out = out]) => \E n : Become(p, n) /\ InitRecord(n)
  BY <1>3, <1>6
<1>8. \A out : Settle(p, out) => \E n : Become(p, n) /\ InitRecord(n)
  BY <1>7 DEF Settle
<1>9. ASSUME StartInit(p) PROVE \E n : Become(p, n) /\ InitRecord(n)
  <2> DEFINE a == [r EXCEPT !.pc = "classify", !.todo = Managed, !.since = moves]
  <2>1. /\ DOMAIN a = Variables /\ a.kind = "init" /\ a.since \in Nat
        /\ a.pc = "classify"
    BY <1>2 DEF Variables
  <2>2. Become(p, a)
    BY <1>9 DEF StartInit
  <2> HIDE DEF a
  <2>3. QED
    BY <1>3, <2>1, <2>2
<1>10. ASSUME NEW pc \in {"classify", "again"}, Classifies(p, pc)
       PROVE  \E n : Become(p, n) /\ InitRecord(n)
  <2>1. PICK item \in r.todo :
          Become(p, IF root = "file" /\ item # "root"
                    THEN [r EXCEPT !.pc = "clean", !.out = "operational"]
                    ELSE [r EXCEPT !.todo = @ \ {item}, !.seen = @ \cup {<<item, Kindof(item)>>}])
    BY <1>10 DEF Classifies
  <2> DEFINE a == [r EXCEPT !.todo = @ \ {item}, !.seen = @ \cup {<<item, Kindof(item)>>}]
  <2>2. /\ DOMAIN a = Variables /\ a.kind = "init" /\ a.since \in Nat
        /\ a.pc = pc
    BY <1>2, <1>10 DEF Variables, Classifies, At
  <2> HIDE DEF a
  <2>3. CASE root = "file" /\ item # "root"
    BY <1>7, <2>1, <2>3
  <2>4. CASE ~(root = "file" /\ item # "root")
    BY <1>3, <2>1, <2>2, <2>4 DEF a
  <2>5. QED
    BY <2>3, <2>4
<1>11. ASSUME PublishRefused(p) PROVE \E n : Become(p, n) /\ InitRecord(n)
  <2> DEFINE a == [r EXCEPT !.pc = "again", !.todo = Managed, !.seen = {}]
  <2>1. /\ DOMAIN a = Variables /\ a.kind = "init" /\ a.since \in Nat
        /\ a.pc = "again"
    BY <1>2 DEF Variables
  <2>2. Become(p, a) \/ Become(p, [r EXCEPT !.pc = "clean", !.out = "publish-failed"])
    BY <1>11 DEF PublishRefused
  <2> HIDE DEF a
  <2>3. QED
    BY <1>3, <1>7, <2>1, <2>2
<1>12. ASSUME Reconcile(p) \/ InitFails(p) PROVE \E n : Become(p, n) /\ InitRecord(n)
  <2>1. \E out : Become(p, [r EXCEPT !.pc = "clean", !.out = out])
    BY <1>12 DEF Reconcile, InitFails
  <2>2. QED
    BY <1>7, <2>1
<1>13. ASSUME Decide(p) \/ Stage(p) \/ Fill(p) \/ Publish(p) \/ Clean(p) \/ Crash(p)
       PROVE  \E n : Become(p, n) /\ InitRecord(n)
  <2>1. \/ \E pc \in Other : Goto(p, pc)
        \/ \E out : Settle(p, out)
    BY <1>13 DEF Decide, Stage, Fill, Publish, Clean, Crash
  <2>2. QED
    BY <1>5, <1>8, <2>1
<1>14. QED
  BY <1>9, <1>10, <1>11, <1>12, <1>13 DEF InitQuietly, Classify, ClassifyAgain

LEMMA InitKeeps ==
  ASSUME IInv, NEW p \in Procs, InitQuietly(p) \/ Publish(p) \/ Crash(p) PROVE IInv'
<1>1. PICK new : Become(p, new) /\ InitRecord(new)
  BY InitGoes
<1>2. Holds(new)
  BY <1>1, InitRecordHolds
<1>3. CASE InitQuietly(p)
  <2>1. Same
    BY <1>3 DEF InitQuietly, StartInit, Classify, ClassifyAgain, Classifies, Decide, Stage, Fill,
                PublishRefused, Reconcile, InitFails, Clean, Reads, Same
  <2>2. QED
    BY <1>1, <1>2, <2>1, StepKeeps
<1>4. /\ DOMAIN proc' = Procs /\ proc'[p] = new
      /\ \A q \in Procs \ {p} : proc'[q] = proc[q]
  BY <1>1, Setting DEF IInv
<1>5. \A q \in Procs : proc'[q] = proc[q] \/ \E r : r = proc'[q] /\ Holds(r)
  BY <1>2, <1>4
<1>6. CASE Publish(p)
  <2>1. /\ changes' = changes + 1 /\ moves' = moves /\ root' = "dir"
        /\ disk' = [disk EXCEPT ![Bebop] = File(Template)]
    BY <1>6 DEF Publish
  <2>2. Shapes' /\ Rooted'
    BY <1>4, <2>1 DEF IInv, Shapes, Rooted
  <2>3. QED
    BY <1>5, <2>1, <2>2, ChangeKeeps
<1>7. CASE Crash(p)
  <2>1. changes' = changes + 1 /\ moves' = moves + 1 /\ UNCHANGED <<disk, root, guide>>
    BY <1>7 DEF Crash, Move
  <2>2. Shapes' /\ Rooted'
    BY <1>4, <2>1 DEF IInv, Shapes, Rooted
  <2>3. QED
    BY <1>5, <2>1, <2>2, ChangeKeeps
<1>8. QED
  BY <1>3, <1>6, <1>7

\* The record of a list that has begun.
ListRecord(r) == Midway(r) /\ r.kind = "list" /\ r.since <= changes

LEMMA ListRecordHolds ==
  ASSUME NEW r, ListRecord(r), Fresh(r) => Listing(r) PROVE Holds(r)
  BY DEF ListRecord, Midway, Holds, Formed, Kinds, RouteInv, Routing, ListInv

LEMMA OnList ==
  ASSUME IInv, NEW p \in Procs, Kind(p) = "list", proc[p].pc \in {"read", "count", "live", "reread"}
  PROVE  ListRecord(proc[p]) /\ (Fresh(proc[p]) => Listing(proc[p]))
<1>1. ~At(p, "done")
  BY DEF At
<1>2. ListRecord(proc[p])
  BY <1>1, Running DEF ListRecord, Midway, Kind
<1>3. QED
  BY <1>2 DEF IInv, Holds, ListInv, Kind

LEMMA ListKeeps ==
  ASSUME IInv, NEW p \in Procs, List(p) PROVE IInv'
<1> DEFINE s == [proc[p] EXCEPT !.todo = There, !.since = changes,
                                !.pc = IF There = {} THEN "live" ELSE "read"]
<1>1. Become(p, s) /\ Reads
  BY DEF List, There
<1>2. proc[p] = Begin("list") /\ DOMAIN proc[p] = Variables
  BY Running DEF List, At, Kind
<1>3. /\ DOMAIN s = Variables /\ s.kind = "list" /\ s.since = changes
      /\ s.pc = (IF There = {} THEN "live" ELSE "read") /\ s.todo = There /\ s.rows = {}
  BY <1>2 DEF Variables, Begin
<1> HIDE DEF s
<1>4. changes \in Nat /\ changes <= changes
  BY DEF IInv, Shapes
<1>5. ListRecord(s)
  BY <1>3, <1>4 DEF ListRecord, Midway, Stages
<1>6. Listing(s)
  BY <1>3 DEF Listing, RowsTrue, Rowed
<1>7. QED
  BY <1>1, <1>5, <1>6, ListRecordHolds, StepKeeps DEF Reads, Same

\* The next manifest: l is done with, and its row, if it has one, is among rows.
LEMMA OnwardHolds ==
  ASSUME NEW r, ListRecord(r),
         Fresh(r) => /\ r.todo # {} /\ r.todo \subseteq There
                     /\ RowsTrue(r.rows) /\ Rowed(r.rows, There \ r.todo)
                     /\ Rowed(r.rows, {First(r.todo)})
  PROVE  Holds(Onward(r))
<1> DEFINE l == First(r.todo)
           s == Onward(r)
<1>1. /\ DOMAIN s = Variables /\ s.kind = "list" /\ s.since = r.since
      /\ s.todo = r.todo \ {l} /\ s.rows = r.rows
      /\ s.pc = (IF r.todo \ {l} = {} THEN "live" ELSE "read")
  BY DEF Onward, ListRecord, Midway, Variables
<1> HIDE DEF s
<1>2. ListRecord(s)
  BY <1>1 DEF ListRecord, Midway, Stages
<1>3. ASSUME Fresh(s) PROVE Listing(s)
  <2>1. /\ r.todo \subseteq There /\ RowsTrue(r.rows) /\ Rowed(r.rows, There \ r.todo)
        /\ Rowed(r.rows, {l})
    BY <1>1, <1>3 DEF Fresh
  <2>2. Rowed(r.rows, There \ (r.todo \ {l}))
    BY <2>1 DEF Rowed
  <2>3. CASE r.todo \ {l} = {}
    <3>1. Rowed(r.rows, There)
      BY <2>2, <2>3 DEF Rowed
    <3>2. QED
      BY <1>1, <2>1, <2>3, <3>1 DEF Listing
  <2>4. CASE r.todo \ {l} # {}
    BY <1>1, <2>1, <2>2, <2>4 DEF Listing
  <2>5. QED
    BY <2>3, <2>4
<1>4. Holds(s)
  BY <1>2, <1>3, ListRecordHolds
<1>5. QED
  BY <1>4 DEF s

LEMMA ReadListedKeeps ==
  ASSUME IInv, NEW p \in Procs, ReadListed(p) PROVE IInv'
<1> DEFINE r   == proc[p]
           l   == First(r.todo)
           man == Listed(l)
           bad == [r EXCEPT !.bad = TRUE]
           s   == [r EXCEPT !.pc = "count", !.found = {man}]
<1>1. Become(p, IF man = Refused THEN Onward(bad) ELSE s) /\ Reads
  BY DEF ReadListed
<1>2. ListRecord(r) /\ (Fresh(r) => Listing(r)) /\ r.pc = "read"
  BY OnList DEF ReadListed, At
<1>3. CASE man = Refused
  <2>1. ListRecord(bad) /\ bad.todo = r.todo /\ bad.rows = r.rows /\ bad.since = r.since
    BY <1>2 DEF ListRecord, Midway, Variables, Stages
  <2> HIDE DEF bad
  <2>2. Fresh(bad) => /\ r.todo # {} /\ r.todo \subseteq There
                      /\ RowsTrue(r.rows) /\ Rowed(r.rows, There \ r.todo)
    BY <1>2, <2>1 DEF Listing, Fresh
  <2>3. Rowed(r.rows, {l})
    BY <1>3 DEF Rowed
  <2>4. Holds(Onward(bad))
    BY <2>1, <2>2, <2>3, OnwardHolds
  <2>5. QED
    BY <1>1, <1>3, <2>4, StepKeeps DEF Reads, Same
<1>4. CASE man # Refused
  <2>1. /\ DOMAIN s = Variables /\ s.kind = "list" /\ s.since = r.since
        /\ s.todo = r.todo /\ s.rows = r.rows /\ s.found = {man} /\ s.pc = "count"
    BY <1>2 DEF ListRecord, Midway, Variables
  <2> HIDE DEF s
  <2>2. ListRecord(s)
    BY <1>2, <2>1 DEF ListRecord, Midway, Stages
  <2>3. Fresh(s) => Listing(s)
    BY <1>2, <1>4, <2>1 DEF Listing, Fresh
  <2>4. QED
    BY <1>1, <1>4, <2>2, <2>3, ListRecordHolds, StepKeeps DEF Reads, Same
<1>5. QED
  BY <1>3, <1>4

LEMMA CountOnlineKeeps ==
  ASSUME IInv, NEW p \in Procs, CountOnline(p) PROVE IInv'
<1> DEFINE r   == proc[p]
           l   == First(r.todo)
           man == CHOOSE m \in r.found : TRUE
           row == RowOf(l, man, Availability(l, man))
           s   == [r EXCEPT !.rows = @ \cup {row}, !.found = {}]
<1>1. Become(p, Onward(s)) /\ Reads
  BY DEF CountOnline
<1>2. ListRecord(r) /\ (Fresh(r) => Listing(r)) /\ r.pc = "count"
  BY OnList DEF CountOnline, At
<1>3. row.loc = l /\ row.sel = man.crew
  BY DEF RowOf
<1> HIDE DEF row
<1>4. ListRecord(s) /\ s.todo = r.todo /\ s.rows = r.rows \cup {row} /\ s.since = r.since
  BY <1>2 DEF ListRecord, Midway, Variables, Stages
<1> HIDE DEF s
<1>5. ASSUME Fresh(s)
      PROVE  /\ s.todo # {} /\ s.todo \subseteq There
             /\ RowsTrue(s.rows) /\ Rowed(s.rows, There \ s.todo)
             /\ Rowed(s.rows, {First(s.todo)})
  <2>1. /\ r.todo # {} /\ r.todo \subseteq There /\ RowsTrue(r.rows)
        /\ Rowed(r.rows, There \ r.todo)
        /\ r.found = {Listed(l)} /\ Listed(l) # Refused
    BY <1>2, <1>4, <1>5 DEF Listing, Fresh
  <2>2. man = Listed(l)
    BY <2>1
  <2>3. l \in Layouts
    BY DEF First, Bebop, Layouts
  <2>4. RowsTrue(s.rows)
    BY <1>3, <1>4, <2>1, <2>2, <2>3 DEF RowsTrue
  <2>5. Rowed(s.rows, There \ s.todo) /\ Rowed(s.rows, {l})
    BY <1>3, <1>4, <2>1 DEF Rowed
  <2>6. QED
    BY <1>4, <2>1, <2>4, <2>5
<1>6. Holds(Onward(s))
  BY <1>4, <1>5, OnwardHolds
<1>7. QED
  BY <1>1, <1>6, StepKeeps DEF Reads, Same

LEMMA ListEnds ==
  ASSUME NEW r, ListRecord(r), NEW out,
         Fresh(r) => RowsTrue(r.rows) /\ (out = "listed" => Rowed(r.rows, There))
  PROVE  Holds(Fails(r, out))
<1> DEFINE s == Fails(r, out)
<1>1. /\ DOMAIN s = Variables /\ s.pc = "done" /\ s.out = out /\ s.kind = "list"
      /\ s.rows = r.rows /\ s.since = r.since
  BY FailsFields DEF ListRecord, Midway
<1> HIDE DEF s
<1>2. ListRecord(s)
  BY <1>1 DEF ListRecord, Midway, Stages
<1>3. Fresh(s) => Listing(s)
  BY <1>1 DEF Listing, Fresh
<1>4. Holds(s)
  BY <1>2, <1>3, ListRecordHolds
<1>5. QED
  BY <1>4 DEF s

LEMMA LiveKeeps ==
  ASSUME IInv, NEW p \in Procs, ReadLive(p) \/ Reread(p) PROVE IInv'
<1> DEFINE r == proc[p]
<1>1. /\ ListRecord(r) /\ r.pc \in {"live", "reread"} /\ Reads
      /\ Fresh(r) => RowsTrue(r.rows) /\ Rowed(r.rows, There)
  <2>1. Kind(p) = "list" /\ r.pc \in {"live", "reread"} /\ Reads
    BY DEF ReadLive, Reread, At
  <2>2. QED
    BY <2>1, OnList DEF Listing
<1>2. ASSUME NEW s, DOMAIN s = Variables, s.kind = "list", s.since = r.since,
             s.pc = "reread", Fresh(r) => RowsTrue(s.rows) /\ Rowed(s.rows, There)
      PROVE  ListRecord(s) /\ Holds(s)
  <2>1. ListRecord(s)
    BY <1>1, <1>2 DEF ListRecord, Midway, Stages
  <2>2. Fresh(s) => Listing(s)
    BY <1>2 DEF Listing, Fresh
  <2>3. QED
    BY <2>1, <2>2, ListRecordHolds
<1>3. CASE ReadLive(p)
  <2>1. \/ Become(p, Fails(r, "listed"))
        \/ \E more : Become(p, [r EXCEPT !.pc = "reread", !.todo = more])
    BY <1>3 DEF ReadLive
  <2>2. Holds(Fails(r, "listed"))
    BY <1>1, ListEnds
  <2>3. ASSUME NEW more PROVE Holds([r EXCEPT !.pc = "reread", !.todo = more])
    <3> DEFINE s == [r EXCEPT !.pc = "reread", !.todo = more]
    <3>1. /\ DOMAIN s = Variables /\ s.kind = "list" /\ s.since = r.since
          /\ s.pc = "reread" /\ s.rows = r.rows
      BY <1>1 DEF ListRecord, Midway, Variables
    <3> HIDE DEF s
    <3>2. Holds(s)
      BY <1>1, <1>2, <3>1
    <3>3. QED
      BY <3>2 DEF s
  <2>4. QED
    BY <1>1, <2>1, <2>2, <2>3, StepKeeps DEF Reads, Same
<1>4. CASE Reread(p)
  <2> DEFINE l    == First(r.todo)
             man  == Listed(l)
             rows == IF man = Refused \/ man.crew = None THEN r.rows
                     ELSE r.rows \cup {RowOf(l, man, "online")}
             s    == [r EXCEPT !.todo = @ \ {l}, !.bad = @ \/ man = Refused, !.rows = rows]
  <2>1. Become(p, IF s.todo = {} THEN Fails(s, "listed") ELSE s) /\ r.pc = "reread"
    BY <1>4 DEF Reread, At
  <2>2. /\ DOMAIN s = Variables /\ s.kind = "list" /\ s.since = r.since
        /\ s.pc = "reread" /\ s.rows = rows
    BY <1>1, <2>1 DEF ListRecord, Midway, Variables
  <2> HIDE DEF s
  <2>3. ASSUME Fresh(r) PROVE RowsTrue(rows) /\ Rowed(rows, There)
    <3>1. l \in Layouts
      BY DEF First, Bebop, Layouts
    <3>2. RowOf(l, man, "online").loc = l /\ RowOf(l, man, "online").sel = man.crew
      BY DEF RowOf
    <3>3. RowsTrue(rows)
      BY <1>1, <2>3, <3>1, <3>2 DEF RowsTrue
    <3>4. Rowed(rows, There)
      BY <1>1, <2>3 DEF Rowed
    <3>5. QED
      BY <3>3, <3>4
  <2> HIDE DEF rows
  <2>4. ListRecord(s) /\ Holds(s) /\ (Fresh(s) => RowsTrue(s.rows) /\ Rowed(s.rows, There))
    BY <1>2, <2>2, <2>3 DEF Fresh
  <2>5. Holds(Fails(s, "listed"))
    BY <2>4, ListEnds
  <2>6. QED
    BY <1>1, <2>1, <2>4, <2>5, StepKeeps DEF Reads, Same
<1>5. QED
  BY <1>3, <1>4

LEMMA CutShortKeeps ==
  ASSUME IInv, NEW p \in Procs, CutShort(p) PROVE IInv'
<1>1. ListRecord(proc[p]) /\ (Fresh(proc[p]) => Listing(proc[p]))
  BY OnList DEF CutShort
<1>2. Become(p, Fails(proc[p], "partial")) /\ Reads
  BY DEF CutShort, Settle, Fails
<1>3. Holds(Fails(proc[p], "partial"))
  BY <1>1, ListEnds DEF Listing
<1>4. QED
  BY <1>2, <1>3, StepKeeps DEF Reads, Same

-----------------------------------------------------------------------------
(* The invariant holds. *)

LEMMA InitIInv == Init => IInv
<1> SUFFICES ASSUME Init PROVE IInv
  OBVIOUS
<1>1. PICK w \in Scenes :
        /\ disk = w.disk /\ root = w.root /\ guide = w.guide /\ moves = MaxMoves - w.moves
        /\ proc = [p \in Procs |-> Begin(w.duty[p])]
  BY DEF Init
<1>2. changes = 0 /\ moves \in Nat
  BY <1>1, CrewProjectConstants DEF Init
<1>3. Shapes /\ Rooted
  BY <1>1, <1>2, ScenesAreSound DEF Shapes, Rooted
<1>4. ASSUME NEW p \in Procs PROVE Holds(proc[p])
  <2> DEFINE r == Begin(w.duty[p])
  <2>1. proc[p] = r /\ w.duty[p] \in Kinds
    BY <1>1, CrewProjectConstants DEF Kinds
  <2>2. /\ DOMAIN r = Variables /\ r.kind = w.duty[p] /\ r.pc = "start" /\ r.since = 0
        /\ r.rows = {}
    BY DEF Begin, Variables
  <2>3. r = Begin(r.kind)
    BY <2>2
  <2> HIDE DEF r
  <2>4. Formed(r)
    BY <2>1, <2>2, <2>3 DEF Formed, Stages, Kinds
  <2>5. RouteInv(r) /\ ListInv(r)
    BY <2>2 DEF RouteInv, Searching, Probing, Working, ListInv, Listing, RowsTrue
  <2>6. QED
    BY <1>2, <2>1, <2>2, <2>4, <2>5 DEF Holds
<1>5. QED
  BY <1>3, <1>4 DEF IInv

LEMMA CommandKeeps ==
  ASSUME IInv, NEW p \in Procs, Command(p) PROVE IInv'
<1>1. CASE \/ Resolve(p) \/ FindOwn(p) \/ FindReal(p) \/ ReadCandidate(p) \/ Probe(p)
           \/ Expire(p) \/ Cancel(p) \/ Ask(p) \/ Send(p)
  BY <1>1, ResolveKeeps, FindOwnKeeps, FindRealKeeps, ReadCandidateKeeps, ProbeKeeps,
     GivenUpKeeps, AskKeeps, SendKeeps
<1>2. CASE Select(p) \/ Query(p) \/ Use(p)
  BY <1>2, SelectKeeps
<1>3. CASE List(p) \/ ReadListed(p) \/ CountOnline(p) \/ ReadLive(p) \/ Reread(p) \/ CutShort(p)
  BY <1>3, ListKeeps, ReadListedKeeps, CountOnlineKeeps, LiveKeeps, CutShortKeeps
<1>4. CASE InitQuietly(p) \/ Publish(p) \/ Crash(p)
  BY <1>4, InitKeeps
<1>5. QED
  BY <1>1, <1>2, <1>3, <1>4 DEF Command, InitQuietly

LEMMA NextIInv == IInv /\ [Next]_vars => IInv'
<1> SUFFICES ASSUME IInv, [Next]_vars PROVE IInv'
  OBVIOUS
<1>1. CASE Surroundings
  BY <1>1, SurroundingsKeep
<1>2. CASE \E p \in Procs : Command(p)
  BY <1>2, CommandKeeps
<1>3. CASE UNCHANGED vars
  <2>1. UNCHANGED <<disk, root, guide, answers, proc, moves, changes>>
    BY <1>3 DEF vars
  <2>2. \A r : Holds(r) => Holds(r)'
    BY <2>1, HoldsStands
  <2>3. ASSUME NEW p \in Procs PROVE Holds(proc[p])'
    <3>1. PICK r : r = proc'[p]
      OBVIOUS
    <3>2. Holds(r)'
      BY <2>1, <2>2, <3>1 DEF IInv
    <3>3. QED
      BY <3>1, <3>2
  <2>4. QED
    BY <2>1, <2>3 DEF IInv, Shapes, Rooted
<1>4. QED
  BY <1>1, <1>2, <1>3 DEF Next

THEOREM IInvHolds == Spec => []IInv
  BY InitIInv, NextIInv, PTL DEF Spec

-----------------------------------------------------------------------------
(* The properties. *)

\* A verdict put together from files read one after the other is true of the project when
\* nothing changed meanwhile: a route exactly when there is one, for a socket that is one
\* Member's, and a refusal that names the state the Crews are in (resolveCrewTarget).
THEOREM VerdictIsTrueHolds == Spec => []VerdictIsTrue
<1>1. IInv => VerdictIsTrue
  <2> SUFFICES ASSUME IInv, NEW p \in Procs, Routes(p), At(p, "done"), Still(p)
               PROVE  Deserved(proc[p], proc[p].out)
    BY DEF VerdictIsTrue, Deserved
  <2>1. Routing(proc[p]) /\ Fresh(proc[p]) /\ proc[p].pc = "done"
    BY DEF Routes, Routing, Still, Fresh, At, Kind
  <2>2. QED
    BY <2>1 DEF IInv, Holds, RouteInv, Probing
<1>2. QED
  BY <1>1, IInvHolds, PTL

\* list and resolve, which read the same files by different paths, agree while nothing
\* changes (listCrews, resolveCrewTarget).
THEOREM ListAgreesHolds == Spec => []ListAgrees
<1>1. IInv => ListAgrees
  <2> SUFFICES ASSUME IInv, NEW p \in Procs, NEW q \in Procs,
                      Routes(p), At(p, "done"), Still(p),
                      Kind(q) = "list", At(q, "done"), proc[q].out = "listed", Still(q)
               PROVE  LET r == proc[p]  rows == proc[q].rows IN
                      /\ r.out = "resolved" => \E row \in rows : row.sel = r.target.sel /\ Real(row.loc) = r.at
                      /\ r.out = "ambiguous-crew" =>
                           \E row \in rows : row.sel = r.target.sel /\ ShowsLocator(rows, row)
                      /\ (r.out = "unknown-crew" /\ r.given = None /\ r.target.sel \in Selectors) =>
                           \A row \in rows : row.sel = r.target.sel => Real(row.loc) \notin Layouts
    BY DEF ListAgrees
  <2> DEFINE r == proc[p]
             rows == proc[q].rows
             sel == r.target.sel
  <2>1. Deserved(r, r.out)
    <3>1. Routing(r) /\ Fresh(r) /\ r.pc = "done"
      BY DEF Routes, Routing, Still, Fresh, At, Kind
    <3>2. QED
      BY <3>1 DEF IInv, Holds, RouteInv, Probing
  <2>2. RowsTrue(rows) /\ Rowed(rows, There)
    <3>1. Listing(proc[q])
      BY DEF IInv, Holds, ListInv, Fresh, Still, Kind
    <3>2. QED
      BY <3>1 DEF Listing, At
  <2>3. ASSUME NEW at \in Homes(r)
        PROVE  \E row \in rows : row.loc = at /\ row.sel = sel /\ Real(row.loc) = at
    <3>1. /\ at \in Layouts /\ Content(at) # Refused /\ Content(at).crew = sel
          /\ disk[at].is = "file" /\ Real(at) = at
      BY RealIsReal DEF Homes
    <3>2. at \in There
      BY <3>1 DEF There, Nothing
    <3>3. Listed(at) = Content(at)
      BY <3>1 DEF Listed, Layouts
    <3>4. PICK row \in rows : row.loc = at
      BY <2>2, <3>1, <3>2, <3>3 DEF Rowed
    <3>5. row.sel = sel
      BY <2>2, <3>1, <3>3, <3>4 DEF RowsTrue
    <3>6. QED
      BY <3>1, <3>4, <3>5
  <2>4. ASSUME r.out = "resolved"
        PROVE  \E row \in rows : row.sel = sel /\ Real(row.loc) = r.at
    BY <2>1, <2>3, <2>4 DEF Deserved
  <2>5. ASSUME r.out = "ambiguous-crew"
        PROVE  \E row \in rows : row.sel = sel /\ ShowsLocator(rows, row)
    <3>1. sel \in Selectors /\ Cardinality(Homes(r)) > 1
      BY <2>1, <2>5 DEF Deserved
    <3>2. sel # None
      BY <3>1, NoneIsNone, CrewProjectConstants
    <3>3. PICK a \in Homes(r) : TRUE
      <4>1. Homes(r) # {}
        BY <3>1, FS_EmptySet
      <4>2. QED
        BY <4>1
    <3>4. PICK b \in Homes(r) : b # a
      BY <3>1, <3>3, OneOrMany DEF Homes
    <3>5. PICK row \in rows : row.loc = a /\ row.sel = sel
      BY <2>3, <3>3
    <3>6. PICK other \in rows : other.loc = b /\ other.sel = sel
      BY <2>3, <3>4
    <3>7. other # row
      BY <3>4, <3>5, <3>6
    <3>8. QED
      BY <3>2, <3>5, <3>6, <3>7 DEF ShowsLocator
  <2>6. ASSUME r.out = "unknown-crew", sel \in Selectors, r.given = None,
               NEW row \in rows, row.sel = sel, Real(row.loc) \in Layouts
        PROVE  FALSE
    <3>1. Homes(r) = {}
      BY <2>1, <2>6 DEF Deserved
    <3>2. /\ row.loc \in Layouts /\ Listed(row.loc) # Refused /\ row.sel = Listed(row.loc).crew
      BY <2>2 DEF RowsTrue
    <3>3. Listed(row.loc) = Content(Real(row.loc))
      BY <2>6 DEF Listed, Layouts
    <3>4. Real(row.loc) \in Homes(r)
      BY <2>6, <3>2, <3>3 DEF Homes, Places
    <3>5. QED
      BY <3>1, <3>4
  <2>7. QED
    BY <2>4, <2>5, <2>6
<1>2. QED
  BY <1>1, IInvHolds, PTL

\* crew init never touches what exists (initializeCrew): steps that are not the users' leave
\* every file and directory that is there as it is.
THEOREM NothingOverwrittenHolds == Spec => NothingOverwritten
<1> DEFINE Kept == moves' = moves =>
                     /\ root # "missing" => root' = root
                     /\ guide # "missing" => guide' = guide
                     /\ \A l \in Layouts : disk[l] # Nothing => disk'[l] = disk[l]
<1>1. ASSUME IInv, Next PROVE Kept
  <2>1. moves \in Nat /\ DOMAIN disk = Layouts /\ Rooted
    BY <1>1 DEF IInv, Shapes
  <2>2. CASE Surroundings
    <3>1. Move
      BY <2>2, SurroundingsMove
    <3>2. QED
      BY <2>1, <3>1 DEF Move
  <2>3. CASE \E p \in Procs : Command(p)
    <3>1. PICK p \in Procs : Command(p)
      BY <2>3
    <3>2. CASE Publish(p)
      BY <2>1, <3>2 DEF Publish, Vacant, Rooted
    <3>3. CASE ~Publish(p)
      <4>1. UNCHANGED <<disk, root, guide>>
        <5>1. CASE InitQuietly(p) \/ Crash(p)
          BY <5>1 DEF InitQuietly, StartInit, Classify, ClassifyAgain, Classifies, Decide, Stage, Fill,
                      PublishRefused, Reconcile, InitFails, Clean, Crash, Reads
        <5>2. CASE ~(InitQuietly(p) \/ Crash(p))
          BY <3>1, <3>3, <5>2
             DEF Command, InitQuietly, Resolve, FindOwn, FindReal, ReadCandidate, Probe, Expire,
                 Cancel, Ask, Send, Select, Query, Use, List, ReadListed, CountOnline, ReadLive,
                 Reread, CutShort, Reads
        <5>3. QED
          BY <5>1, <5>2
      <4>2. QED
        BY <4>1
    <3>4. QED
      BY <3>2, <3>3
  <2>4. QED
    BY <1>1, <2>2, <2>3 DEF Next
<1>2. ASSUME IInv, [Next]_vars
      PROVE  [moves' = moves =>
                /\ root # "missing" => root' = root
                /\ guide # "missing" => guide' = guide
                /\ \A l \in Layouts : disk[l] # Nothing => disk'[l] = disk[l]]_vars
  BY <1>1, <1>2
<1>3. QED
  BY <1>2, IInvHolds, PTL DEF Spec, NothingOverwritten
=============================================================================
