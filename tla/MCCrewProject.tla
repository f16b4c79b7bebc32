--------------------------- MODULE MCCrewProject ---------------------------
(* Small instances of CrewProject. *)
EXTENDS CrewProject, TLC

Member(n, k) == [name |-> n, role |-> n, socket |-> k, sound |-> TRUE]
Ann == Member("ann", "a")
Bob == Member("bob", "b")

Sound == [json |-> TRUE, version |-> 1, common |-> "none", shape |-> TRUE,
          members |-> <<Ann, Bob>>, crew |-> "x", approvers |-> None, contact |-> "bob"]

\* The scaffold names no Crew; its contact is one of its Members.
Scaffold == [Sound EXCEPT !.version = 2, !.common = "inside", !.crew = None]
Other    == [Sound EXCEPT !.crew = "y", !.contact = None, !.members = <<Bob, Ann>>]
Spaced   == [Sound EXCEPT !.crew = "x y"]
Alone    == [Sound EXCEPT !.members = <<Bob>>, !.approvers = <<"bob">>]

\* Drafts a reader refuses, one for each reason.
Broken == { [Sound EXCEPT !.json = FALSE], [Sound EXCEPT !.version = 0],
            [Sound EXCEPT !.shape = FALSE],
            [Sound EXCEPT !.common = "inside"],
            [Sound EXCEPT !.version = 2, !.common = "outside"],
            [Sound EXCEPT !.members = <<Ann, Member("bob", "a")>>],
            [Sound EXCEPT !.members = <<Ann, Member("ann", "b")>>, !.contact = "ann"],
            [Sound EXCEPT !.members = <<Ann, [Bob EXCEPT !.socket = Bad]>>],
            [Sound EXCEPT !.crew = Bad],
            [Sound EXCEPT !.crew = None, !.approvers = <<"ann">>],
            [Sound EXCEPT !.approvers = <<"ann", "ann">>],
            [Sound EXCEPT !.members = <<Ann>>] }
AllDrafts == {Scaffold, Sound, Other, Alone, Spaced} \cup Broken

\* What users write while commands run.
Edits == {Scaffold, Other, [Sound EXCEPT !.json = FALSE]}

Disk(b, c) == [l \in Layouts |-> IF l = Bebop THEN b ELSE c]
Made(b, c) == [disk |-> Disk(b, c), root |-> "dir", guide |-> "exact"]

\* Each manifest in .pi/bebop; the old place with a Crew of its own, or a link.
Crews ==
  {Made(File(d), Nothing) : d \in AllDrafts}
  \cup {Made(File(Sound), c) : c \in {File(Sound), File(Other), LinkTo("bebop"), LinkTo("outside"),
                                      LinkTo("nested"), File([Sound EXCEPT !.json = FALSE])}}
  \cup {Made(c, File(Sound)) : c \in {Nothing, File([Sound EXCEPT !.version = 3])}}

\* No scaffold, an empty directory, part of a scaffold, one of the user's own.
Layings ==
  {[disk |-> Disk(Nothing, Nothing), root |-> r, guide |-> "missing"] : r \in {"missing", "dir"}}
  \cup {[disk |-> Disk(File(d), Nothing), root |-> "dir", guide |-> "missing"] : d \in {Scaffold, Sound}}

Route(kind, l, id, n) == [up |-> TRUE, as |-> kind, loc |-> l, id |-> id, name |-> n,
                          knows |-> {"ann", "bob"}]
Unjoined == [up |-> TRUE, as |-> "none", loc |-> None, id |-> None, name |-> None, knows |-> {}]

\* The first session is a Member of a Crew, an approved Guest, or neither; the second a Member.
AMember == Route("member", "bebop", "x", "ann")
AGuest  == Route("guest", "bebop", "x", "gus")
With(one) == [s \in {"s1", "s2"} |-> IF s = "s1" THEN one ELSE Route("member", "crew", "y", "ann")]

AsMember == [kind |-> "member", loc |-> "bebop", id |-> "x", name |-> "ann", ok |-> TRUE, can |-> FALSE]
AllCallers == {AsMember, [AsMember EXCEPT !.loc = "crew"], [AsMember EXCEPT !.ok = FALSE],
               [AsMember EXCEPT !.kind = "guest", !.name = "gus", !.can = TRUE],
               [AsMember EXCEPT !.kind = "guest", !.name = "gus"], NoCaller}
At2(s, m) == [sel |-> s, member |-> m]
AllTargets == {At2("x", None), At2("x", "bob"), At2("x", "ann"), At2("y", "bob"), At2("x y", "bob")}

Duty(k1, k2) == [p \in {"p", "q"} |-> IF p = "p" THEN k1 ELSE k2]
Scene(w, one, al, d, n) == [disk |-> w.disk, root |-> w.root, guide |-> w.guide,
                            src |-> With(one), alias |-> al, duty |-> d, moves |-> n]
Plain == {Made(File(Sound), c) : c \in {Nothing, LinkTo("bebop")}}
AllScenes ==
  {Scene(w, AMember, None, Duty("resolve", "list"), 0) : w \in Crews}
  \cup {Scene(w, AMember, None, Duty(k, "none"), 1) : w \in Plain, k \in {"resolve", "list"}}
  \cup {Scene(w, one, "s1", Duty("ask", "none"), 2) : w \in Plain, one \in {AMember, AGuest, Unjoined}}
  \cup {Scene(w, AMember, None, Duty("init", k), 1) : w \in Layings, k \in {"init", "list"}}
  \cup {Scene(Made(File(Sound), File(Other)), one, "s1", Duty("select", "none"), 2) :
          one \in {AMember, AGuest}}
=============================================================================
