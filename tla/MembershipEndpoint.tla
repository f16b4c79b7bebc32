-------------------------- MODULE MembershipEndpoint --------------------------
(***************************************************************************)
(* Who is which Member: sessions join, switch and leave roles by claiming  *)
(* and releasing endpoints, symbolic links from a role's path to a         *)
(* session's socket, under a lock file per endpoint.                       *)
(*                                                                         *)
(* A session's process runs one command at a time; its file operations,    *)
(* one action each, interleave with those of other sessions, and it may    *)
(* end between any two.  A session comes back with the same socket path.   *)
(* Other failures of the file system are left out.                         *)
(***************************************************************************)
EXTENDS Naturals, FiniteSets

CONSTANTS Sessions,    \* Pi sessions; each has one socket path
          Endpoints,   \* socket paths of the configured Members
          None,        \* no link, lock, membership or target
          MaxCrashes,  \* bound: ends of a process without a release
          MaxMissed    \* bound: probes whose timer fires before a live socket's answer

ASSUME EndpointAssumption ==
  /\ None \notin Sessions \cup Endpoints
  /\ MaxCrashes \in Nat /\ MaxMissed \in Nat

VARIABLES
  link,        \* the session each endpoint points to
  lock,        \* the session that created the endpoint's .claim file
  alive,       \* sessions whose process runs and listens on its socket
  membership,  \* the endpoint each process holds to be its own
  stage,       \* its operation: "claim", "release" or "rollback"
  at,          \* the file operation that comes next
  target,      \* the endpoint it joins, None when it leaves
  found,       \* the session the link pointed to when it was read
  usurped,     \* history: <<session, endpoint>> taken after a missed probe
  strays,      \* history: <<session, endpoint>> left by a crash or a failed rollback
  crashes, missed

files == <<link, lock>>
operation == <<stage, at, target, found>>
counters == <<crashes, missed>>
endpointVars == <<files, alive, membership, operation, usurped, strays, counters>>

Idle(p) == p \in alive /\ stage[p] = "none"

\* The endpoint of the running claim or release.
Subject(p) == IF stage[p] = "release" THEN membership[p] ELSE target[p]

EndpointInit ==
  /\ link = [e \in Endpoints |-> None]
  /\ lock = [e \in Endpoints |-> None]
  /\ alive = {}
  /\ membership = [p \in Sessions |-> None]
  /\ stage = [p \in Sessions |-> "none"] /\ at = [p \in Sessions |-> "none"]
  /\ target = [p \in Sessions |-> None] /\ found = [p \in Sessions |-> None]
  /\ usurped = {} /\ strays = {}
  /\ crashes = 0 /\ missed = 0

Goto(p, step) == at' = [at EXCEPT ![p] = step]
Begin(p, s, step) == stage' = [stage EXCEPT ![p] = s] /\ Goto(p, step)
End(p) ==
  /\ Begin(p, "none", "none")
  /\ target' = [target EXCEPT ![p] = None]
  /\ found' = [found EXCEPT ![p] = None]
Become(p, e) ==
  /\ membership' = [membership EXCEPT ![p] = e]
  /\ usurped' = IF membership[p] = e THEN usurped ELSE usurped \ {<<p, membership[p]>>}

SetLink(p, owner) == link' = [link EXCEPT ![Subject(p)] = owner]
SetLock(p, owner) == lock' = [lock EXCEPT ![Subject(p)] = owner]

-----------------------------------------------------------------------------
(* How a claim or release that has finished goes on.                        *)

\* Mutant of Fail: a switch that cannot release the old endpoint keeps both.
FailKeepingBoth(p) ==
  /\ End(p)
  /\ UNCHANGED <<membership, usurped, strays>>

\* The claim failed; or the release of a leave; or that of a switch, whose claim is
\* then rolled back; or the rollback, and the session stays published twice.
Fail(p) ==
  \/ /\ stage[p] = "claim" \/ (stage[p] = "release" /\ target[p] = None)
     /\ End(p)
     /\ UNCHANGED <<membership, usurped, strays>>
  \/ /\ stage[p] = "release" /\ target[p] # None
     /\ Begin(p, "rollback", "peek")
     /\ UNCHANGED <<membership, target, found, usurped, strays>>
  \/ /\ stage[p] = "rollback"
     /\ End(p)
     /\ strays' = strays \cup {<<p, target[p]>>}
     /\ UNCHANGED <<membership, usurped>>

\* A claim of the same or the first endpoint ends the join; a switch goes on to
\* release the old one.  A finished release ends a switch, a leave or a rollback.
Succeed(p) ==
  \/ /\ stage[p] = "claim" /\ membership[p] \in {None, target[p]}
     /\ Become(p, target[p])
     /\ strays' = strays \ {<<p, target[p]>>}
     /\ End(p)
  \/ /\ stage[p] = "claim" /\ membership[p] \notin {None, target[p]}
     /\ Begin(p, "release", "peek")
     /\ UNCHANGED <<membership, target, found, usurped, strays>>
  \/ /\ stage[p] = "release"
     /\ Become(p, target[p])
     /\ strays' = strays \ {<<p, membership[p]>>, <<p, target[p]>>}
     /\ End(p)
  \/ /\ stage[p] = "rollback"
     /\ End(p)
     /\ strays' = strays \ {<<p, target[p]>>}
     /\ UNCHANGED <<membership, usurped>>

Carry == UNCHANGED <<membership, stage, target, strays>>
Stay == Carry /\ UNCHANGED usurped

-----------------------------------------------------------------------------
(* Sessions.                                                                *)

\* The process starts and listens; it has no membership yet.
StartSession(p) ==
  /\ p \notin alive
  /\ alive' = alive \cup {p}
  /\ UNCHANGED <<files, membership, operation, usurped, strays, counters>>

\* /crew join, a startup role or socket, or the restored membership.
Join(p, e) ==
  /\ Idle(p)
  /\ Begin(p, "claim", "lock")
  /\ target' = [target EXCEPT ![p] = e]
  /\ UNCHANGED <<files, alive, membership, found, usurped, strays, counters>>

\* /crew leave, stop, or session_shutdown.
Leave(p) ==
  /\ Idle(p) /\ membership[p] # None
  /\ Begin(p, "release", "peek")
  /\ UNCHANGED <<files, alive, membership, target, found, usurped, strays, counters>>

\* The process ends, released or not: its links and lock files stay.
EndProcess(p) ==
  /\ p \in alive /\ crashes < MaxCrashes
  /\ crashes' = crashes + 1
  /\ alive' = alive \ {p}
  /\ membership' = [membership EXCEPT ![p] = None]
  /\ End(p)
  /\ usurped' = {u \in usurped : u[1] # p}
  /\ strays' = strays \cup {<<p, e>> : e \in {f \in Endpoints : link[f] = p}}
  /\ UNCHANGED <<files, missed>>

-----------------------------------------------------------------------------
(* claimMemberEndpoint and releaseMemberEndpoint, one file operation each.  *)

\* The .claim file is created, or exists: claim-conflict.
AcquireLock(p) ==
  /\ at[p] = "lock"
  /\ \/ lock[Subject(p)] = None /\ SetLock(p, p) /\ Goto(p, "read") /\ Stay
        /\ UNCHANGED found
     \/ lock[Subject(p)] # None /\ Fail(p) /\ UNCHANGED lock
  /\ UNCHANGED <<link, alive, counters>>

\* A claim finds no link, its own, or another session's.
ReadForClaim(p) ==
  /\ at[p] = "read" /\ stage[p] = "claim"
  /\ found' = [found EXCEPT ![p] = link[Subject(p)]]
  /\ Goto(p, IF found'[p] = None THEN "create" ELSE IF found'[p] = p THEN "done" ELSE "probe")
  /\ Stay
  /\ UNCHANGED <<files, alive, counters>>

\* isSocketAlive.  The prober's own event loop may be late, so that its timer fires
\* although the owner's socket has accepted.
Probe(p) ==
  /\ at[p] = "probe"
  /\ \/ found[p] \in alive /\ Goto(p, "failed") /\ UNCHANGED <<usurped, missed>>
     \/ found[p] \notin alive /\ Goto(p, "rename") /\ UNCHANGED <<usurped, missed>>
     \/ /\ found[p] \in alive /\ missed < MaxMissed
        /\ missed' = missed + 1
        /\ usurped' = usurped \cup {<<found[p], Subject(p)>>}
        /\ Goto(p, "rename")
  /\ Carry
  /\ UNCHANGED <<files, alive, found, crashes>>

\* The link is moved to a path of this session's own, where it is deleted afterwards.
MoveAway(p) ==
  /\ at[p] = "rename"
  /\ IF link[Subject(p)] = None THEN Goto(p, "create") ELSE Goto(p, "recreate")
  /\ SetLink(p, None)
  /\ strays' = strays \ {<<found[p], Subject(p)>>}
  /\ UNCHANGED <<lock, alive, membership, stage, target, found, usurped, counters>>

\* symlink succeeds only where nothing is.
Symlink(p) ==
  /\ at[p] \in {"create", "recreate"}
  /\ \/ /\ link[Subject(p)] = None /\ SetLink(p, p) /\ Goto(p, "done")
        /\ usurped' = usurped \ {<<p, Subject(p)>>}
     \/ link[Subject(p)] # None /\ Goto(p, "failed") /\ UNCHANGED <<link, usurped>>
  /\ Carry
  /\ UNCHANGED <<lock, found, alive, counters>>

\* `return createEndpoint(...)` is not awaited in the try block: the lock file may be
\* gone before the link is there.
UnlockBeforeSymlink(p) ==
  /\ at[p] = "create" /\ lock[Subject(p)] = p
  /\ SetLock(p, None)
  /\ UNCHANGED <<link, alive, membership, operation, usurped, strays, counters>>

\* Mutant of ReadForRelease: whose link it is is not looked at.
ReadForReleaseAny(p) ==
  /\ at[p] = "read" /\ stage[p] # "claim"
  /\ Goto(p, IF link[Subject(p)] # None THEN "unlink" ELSE "done")
  /\ Stay
  /\ UNCHANGED <<files, found, alive, counters>>

\* releaseMemberEndpoint looks before it takes the lock.
PeekForRelease(p) ==
  /\ at[p] = "peek"
  /\ \/ link[Subject(p)] = None /\ Succeed(p)
     \/ link[Subject(p)] # None /\ Goto(p, "lock") /\ Stay /\ UNCHANGED found
  /\ UNCHANGED <<files, alive, counters>>

\* Only its own link is removed; another's is none of its business.
ReadForRelease(p) ==
  /\ at[p] = "read" /\ stage[p] # "claim"
  /\ Goto(p, IF link[Subject(p)] = p THEN "unlink" ELSE "done")
  /\ Stay
  /\ UNCHANGED <<files, found, alive, counters>>

Unlink(p) ==
  /\ at[p] = "unlink"
  /\ SetLink(p, None)
  /\ Goto(p, "done")
  /\ Stay
  /\ UNCHANGED <<lock, found, alive, counters>>

\* The finally block; then the operation goes on.
ReleaseLock(p) ==
  /\ at[p] \in {"done", "failed"}
  /\ IF lock[Subject(p)] = p THEN SetLock(p, None) ELSE UNCHANGED lock
  /\ IF at[p] = "done" THEN Succeed(p) ELSE Fail(p)
  /\ UNCHANGED <<link, alive, counters>>

-----------------------------------------------------------------------------
EndpointNext ==
  \E p \in Sessions :
    \/ StartSession(p) \/ Leave(p) \/ EndProcess(p)
    \/ \E e \in Endpoints : Join(p, e)
    \/ AcquireLock(p) \/ ReadForClaim(p) \/ Probe(p) \/ MoveAway(p)
    \/ Symlink(p) \/ UnlockBeforeSymlink(p)
    \/ PeekForRelease(p) \/ ReadForRelease(p) \/ Unlink(p)
    \/ ReleaseLock(p)

EndpointSpec == EndpointInit /\ [][EndpointNext]_endpointVars

-----------------------------------------------------------------------------
FileSteps == {"none", "lock", "read", "probe", "rename", "create", "recreate",
              "peek", "unlink", "done", "failed"}

\* Types of all variables; an operation has a subject, and only a live process has one.
EndpointTypeOK ==
  /\ link \in [Endpoints -> Sessions \cup {None}]
  /\ lock \in [Endpoints -> Sessions \cup {None}]
  /\ alive \subseteq Sessions
  /\ membership \in [Sessions -> Endpoints \cup {None}]
  /\ stage \in [Sessions -> {"none", "claim", "release", "rollback"}]
  /\ at \in [Sessions -> FileSteps]
  /\ target \in [Sessions -> Endpoints \cup {None}]
  /\ found \in [Sessions -> Sessions \cup {None}]
  /\ usurped \subseteq Sessions \X Endpoints
  /\ strays \subseteq Sessions \X Endpoints
  /\ crashes \in Nat /\ missed \in Nat
  /\ \A p \in Sessions : stage[p] # "none" => p \in alive /\ Subject(p) \in Endpoints
  /\ \A p \in Sessions : membership[p] # None => p \in alive

\* A Member that is not leaving and whom no probe missed is the one session reachable
\* at its endpoint, whatever others claim, reclaim or release in the meantime.  So two
\* sessions never take themselves for the same Member unless a probe missed one.
MemberPublished ==
  \A p \in Sessions :
    membership[p] # None /\ stage[p] # "release" /\ <<p, membership[p]>> \notin usurped =>
      link[membership[p]] = p

\* What a claim or a release read is still so when it acts on it: the reclaim moves
\* the link it probed, the release removes its own, whoever else is at work.
CheckedLinkUnchanged ==
  \A p \in Sessions :
    /\ at[p] = "rename" => link[Subject(p)] = found[p]
    /\ at[p] = "unlink" => link[Subject(p)] = p

\* A failed switch leaves no second endpoint behind, unless its rollback failed too or
\* the process had ended before.
NoStrayEndpoint ==
  \A p \in Sessions, e \in Endpoints :
    Idle(p) /\ link[e] = p => membership[p] = e \/ <<p, e>> \in strays

=============================================================================
