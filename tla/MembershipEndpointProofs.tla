----------------------- MODULE MembershipEndpointProofs -----------------------
(***************************************************************************)
(* For any number of sessions and endpoints: what a claim or a release     *)
(* read is unchanged when it acts, a Member is published at its endpoint   *)
(* until it leaves or a probe misses it, and a process that is neither     *)
(* joined nor busy has left no endpoint behind.                            *)
(*                                                                         *)
(* The second needs more than memberships: a session holds an endpoint     *)
(* from the moment its claim has succeeded, before the join has finished   *)
(* and while a switch releases the old one (Holds).  A reclaimer that has  *)
(* probed a session holds the lock, so nobody becomes a holder under it.   *)
(* The third accounts for every endpoint that names a session: its         *)
(* membership, or the operation that will give it back (Accounted).        *)
(***************************************************************************)
EXTENDS MembershipEndpoint, TLAPS

Types ==
  /\ link \in [Endpoints -> Sessions \cup {None}]
  /\ lock \in [Endpoints -> Sessions \cup {None}]
  /\ membership \in [Sessions -> Endpoints \cup {None}]
  /\ stage \in [Sessions -> {"none", "claim", "release", "rollback"}]
  /\ at \in [Sessions -> FileSteps]
  /\ target \in [Sessions -> Endpoints \cup {None}]
  /\ found \in [Sessions -> Sessions \cup {None}]

ClaimSteps == {"lock", "read", "probe", "rename", "create", "recreate", "done", "failed"}
ReleaseSteps == {"peek", "lock", "read", "unlink", "done"}

\* Which operations and memberships go together.
Shape(p) ==
  /\ stage[p] = "none" => at[p] = "none" /\ target[p] = None
  /\ stage[p] = "claim" => at[p] \in ClaimSteps /\ target[p] \in Endpoints
  /\ stage[p] \in {"release", "rollback"} =>
       /\ at[p] \in ReleaseSteps
       /\ membership[p] \in Endpoints /\ membership[p] # target[p]
  /\ stage[p] = "rollback" => target[p] \in Endpoints
  /\ stage[p] # "none" => p \in alive
  /\ membership[p] # None => p \in alive

\* Who reads and writes a link has created the endpoint's lock file.
Locked(p) == at[p] \in {"read", "probe", "rename", "recreate", "unlink"} => lock[Subject(p)] = p

\* What was read is still there.
Checked(p) ==
  /\ at[p] \in {"probe", "rename"} =>
       link[Subject(p)] = found[p] /\ found[p] \in Sessions \ {p}
  /\ at[p] = "unlink" => link[Subject(p)] = p

\* p takes itself for the owner of e, or will when its operation has finished.
Holds(p, e) ==
  \/ membership[p] = e /\ (stage[p] = "release" => at[p] # "done")
  \/ target[p] = e /\ stage[p] = "claim" /\ at[p] = "done"
  \/ target[p] = e /\ stage[p] = "release"

Owned(p, e) == Holds(p, e) => link[e] = p \/ <<p, e>> \in usurped

\* Nobody whose link is about to be moved away holds the endpoint, or a probe missed it.
Doomed(p) ==
  at[p] = "rename" /\ Holds(found[p], Subject(p)) => <<found[p], Subject(p)>> \in usurped

IInv ==
  /\ Types
  /\ \A p \in Sessions : Shape(p) /\ Locked(p) /\ Checked(p) /\ Doomed(p)
  /\ \A p \in Sessions, e \in Endpoints : Owned(p, e)

-----------------------------------------------------------------------------
(* One lemma per action: each preserves the inductive invariant.             *)

\* A process that starts holds nothing and runs nothing (ensureControlServer).
LEMMA StartPreserves ==
  ASSUME IInv, NEW p \in Sessions, StartSession(p)
  PROVE  IInv'
<1>1. Types'
  BY EndpointAssumption DEF IInv, Types, FileSteps, StartSession, operation,
      files
<1>2. ASSUME NEW q \in Sessions PROVE Shape(q)'
  BY <1>1, EndpointAssumption DEF IInv, Types, Shape, ClaimSteps,
      ReleaseSteps, StartSession, operation, files
<1>3. ASSUME NEW q \in Sessions PROVE Locked(q)' /\ Checked(q)'
  BY <1>1, EndpointAssumption DEF IInv, Types, Shape, ClaimSteps,
      ReleaseSteps, Locked, Checked, Subject, StartSession, operation, files
<1>4. ASSUME NEW q \in Sessions PROVE Doomed(q)'
  BY <1>1, <1>2, <1>3, EndpointAssumption DEF IInv, Types, Shape, ClaimSteps,
      ReleaseSteps, Locked, Checked, Doomed, Holds, Owned, Subject,
      StartSession, operation, files
<1>5. ASSUME NEW q \in Sessions, NEW f \in Endpoints PROVE Owned(q, f)'
  BY <1>1, EndpointAssumption DEF IInv, Types, Shape, ClaimSteps,
      ReleaseSteps, Locked, Checked, Doomed, Holds, Owned, Subject,
      StartSession, operation, files
<1>6. QED
  BY <1>1, <1>2, <1>3, <1>4, <1>5 DEF IInv

\* A join (joinMember) makes nobody a holder before its claim has succeeded.
LEMMA JoinPreserves ==
  ASSUME IInv, NEW p \in Sessions, NEW e \in Endpoints, Join(p, e)
  PROVE  IInv'
<1>1. Types'
  BY EndpointAssumption DEF IInv, Types, FileSteps, Join, Idle, Begin, Goto,
      files
<1>2. ASSUME NEW q \in Sessions PROVE Shape(q)'
  BY <1>1, EndpointAssumption DEF IInv, Types, Shape, ClaimSteps,
      ReleaseSteps, Join, Idle, Begin, Goto, files
<1>3. ASSUME NEW q \in Sessions PROVE Locked(q)' /\ Checked(q)'
  BY <1>1, EndpointAssumption DEF IInv, Types, Shape, ClaimSteps,
      ReleaseSteps, Locked, Checked, Subject, Join, Idle, Begin, Goto, files
<1>4. ASSUME NEW q \in Sessions, NEW f \in Endpoints, Holds(q, f)' PROVE Holds(q, f)
  BY <1>4, EndpointAssumption DEF IInv, Types, Shape, Holds, Join, Idle,
      Begin, Goto, files
<1>5. ASSUME NEW q \in Sessions PROVE Doomed(q)'
  <2>1. SUFFICES ASSUME at'[q] = "rename", Holds(found[q], Subject(q))'
                 PROVE  (<<found[q], Subject(q)>> \in usurped)'
    BY DEF Doomed
  <2>2. /\ q # p /\ at[q] = "rename" /\ Subject(q) \in Endpoints
        /\ Subject(q)' = Subject(q) /\ found'[q] = found[q] /\ found[q] \in Sessions
    BY <2>1 DEF IInv, Types, Shape, ClaimSteps, ReleaseSteps, Checked, Subject,
        Join, Idle, Begin, Goto, files
  <2>3. Holds(found[q], Subject(q))
    BY <2>1, <2>2, EndpointAssumption DEF IInv, Types, Shape, Holds, Join, Idle,
        Begin, Goto, files
  <2>4. QED
    BY <2>2, <2>3 DEF IInv, Doomed, Join, Idle, Begin, Goto, files
<1>6. ASSUME NEW q \in Sessions, NEW f \in Endpoints PROVE Owned(q, f)'
  BY <1>4 DEF IInv, Owned, Join, Idle, Begin, Goto, files
<1>7. QED
  BY <1>1, <1>2, <1>3, <1>5, <1>6 DEF IInv

\* A leave (leaveMember) holds the endpoint until its link is removed.
LEMMA LeavePreserves ==
  ASSUME IInv, NEW p \in Sessions, Leave(p)
  PROVE  IInv'
<1>1. Types'
  BY EndpointAssumption DEF IInv, Types, FileSteps, Leave, Idle, Begin, Goto,
      files
<1>2. ASSUME NEW q \in Sessions PROVE Shape(q)'
  BY <1>1, EndpointAssumption DEF IInv, Types, Shape, ClaimSteps,
      ReleaseSteps, Leave, Idle, Begin, Goto, files
<1>3. ASSUME NEW q \in Sessions PROVE Locked(q)' /\ Checked(q)'
  BY <1>1, EndpointAssumption DEF IInv, Types, Shape, ClaimSteps,
      ReleaseSteps, Locked, Checked, Subject, Leave, Idle, Begin, Goto, files
<1>4. ASSUME NEW q \in Sessions, NEW f \in Endpoints, Holds(q, f)' PROVE Holds(q, f)
  BY <1>4, EndpointAssumption DEF IInv, Types, Shape, Holds, Leave, Idle,
      Begin, Goto, files
<1>5. ASSUME NEW q \in Sessions PROVE Doomed(q)'
  <2>1. SUFFICES ASSUME at'[q] = "rename", Holds(found[q], Subject(q))'
                 PROVE  (<<found[q], Subject(q)>> \in usurped)'
    BY DEF Doomed
  <2>2. /\ q # p /\ at[q] = "rename" /\ Subject(q) \in Endpoints
        /\ Subject(q)' = Subject(q) /\ found'[q] = found[q] /\ found[q] \in Sessions
    BY <2>1 DEF IInv, Types, Shape, ClaimSteps, ReleaseSteps, Checked, Subject,
        Leave, Idle, Begin, Goto, files
  <2>3. Holds(found[q], Subject(q))
    BY <2>1, <2>2, EndpointAssumption DEF IInv, Types, Shape, Holds, Leave,
        Idle, Begin, Goto, files
  <2>4. QED
    BY <2>2, <2>3 DEF IInv, Doomed, Leave, Idle, Begin, Goto, files
<1>6. ASSUME NEW q \in Sessions, NEW f \in Endpoints PROVE Owned(q, f)'
  BY <1>4 DEF IInv, Owned, Leave, Idle, Begin, Goto, files
<1>7. QED
  BY <1>1, <1>2, <1>3, <1>5, <1>6 DEF IInv

\* A process that ends holds nothing any more; its links and locks, which stay,
\* are nobody's concern.
LEMMA EndPreserves ==
  ASSUME IInv, NEW p \in Sessions, EndProcess(p)
  PROVE  IInv'
<1>1. Types'
  BY EndpointAssumption DEF IInv, Types, FileSteps, EndProcess, End, Begin,
      Goto, files
<1>2. ASSUME NEW q \in Sessions PROVE Shape(q)'
  BY <1>1, EndpointAssumption DEF IInv, Types, Shape, ClaimSteps,
      ReleaseSteps, EndProcess, End, Begin, Goto, files
<1>3. ASSUME NEW q \in Sessions PROVE Locked(q)' /\ Checked(q)'
  BY <1>1, EndpointAssumption DEF IInv, Types, Shape, ClaimSteps,
      ReleaseSteps, Locked, Checked, Subject, EndProcess, End, Begin, Goto,
      files
<1>4. ASSUME NEW q \in Sessions PROVE Doomed(q)'
  BY <1>1, <1>2, <1>3, EndpointAssumption DEF IInv, Types, Shape, ClaimSteps,
      ReleaseSteps, Locked, Checked, Doomed, Holds, Owned, Subject,
      EndProcess, End, Begin, Goto, files
<1>5. ASSUME NEW q \in Sessions, NEW f \in Endpoints PROVE Owned(q, f)'
  BY <1>1, EndpointAssumption DEF IInv, Types, Shape, ClaimSteps,
      ReleaseSteps, Locked, Checked, Doomed, Holds, Owned, Subject,
      EndProcess, End, Begin, Goto, files
<1>6. QED
  BY <1>1, <1>2, <1>3, <1>4, <1>5 DEF IInv

\* O_EXCL: nobody else may act on the endpoint (the .claim file).
LEMMA AcquirePreserves ==
  ASSUME IInv, NEW p \in Sessions, AcquireLock(p)
  PROVE  IInv'
<1>1. Types'
  BY EndpointAssumption DEF IInv, Types, FileSteps, Shape, Subject,
      AcquireLock, SetLock, Stay, Carry, Fail, End, Begin, Goto
<1>2. ASSUME NEW q \in Sessions PROVE Shape(q)'
  BY <1>1, EndpointAssumption DEF IInv, Types, Shape, ClaimSteps,
      ReleaseSteps, AcquireLock, SetLock, Stay, Carry, Fail, End, Begin, Goto
<1>3. ASSUME NEW q \in Sessions PROVE Locked(q)' /\ Checked(q)'
  BY <1>1, EndpointAssumption DEF IInv, Types, Shape, ClaimSteps,
      ReleaseSteps, Locked, Checked, Subject, AcquireLock, SetLock, Stay,
      Carry, Fail, End, Begin, Goto
<1>4. ASSUME NEW q \in Sessions PROVE Doomed(q)'
  BY <1>1, <1>2, <1>3, EndpointAssumption DEF IInv, Types, Shape, ClaimSteps,
      ReleaseSteps, Locked, Checked, Doomed, Holds, Owned, Subject,
      AcquireLock, SetLock, Stay, Carry, Fail, End, Begin, Goto
<1>5. ASSUME NEW q \in Sessions, NEW f \in Endpoints PROVE Owned(q, f)'
  BY <1>1, EndpointAssumption DEF IInv, Types, Shape, ClaimSteps,
      ReleaseSteps, Locked, Checked, Doomed, Holds, Owned, Subject,
      AcquireLock, SetLock, Stay, Carry, Fail, End, Begin, Goto
<1>6. QED
  BY <1>1, <1>2, <1>3, <1>4, <1>5 DEF IInv

\* A claim that finds its own link becomes a holder; nobody can be moving that
\* link away, for it has the lock.
LEMMA ReadForClaimPreserves ==
  ASSUME IInv, NEW p \in Sessions, ReadForClaim(p)
  PROVE  IInv'
<1>1. Types'
  BY EndpointAssumption DEF IInv, Types, FileSteps, Shape, Subject,
      ReadForClaim, Stay, Carry, Goto, files
<1>2. ASSUME NEW q \in Sessions PROVE Shape(q)'
  BY <1>1, EndpointAssumption DEF IInv, Types, Shape, ClaimSteps,
      ReleaseSteps, ReadForClaim, Stay, Carry, Goto, files
<1>3. ASSUME NEW q \in Sessions PROVE Locked(q)' /\ Checked(q)'
  BY <1>1, EndpointAssumption DEF IInv, Types, Shape, ClaimSteps,
      ReleaseSteps, Locked, Checked, Subject, ReadForClaim, Stay, Carry, Goto,
      files
<1>4. ASSUME NEW q \in Sessions PROVE Doomed(q)'
  <2>1. SUFFICES ASSUME at'[q] = "rename", Holds(found[q], Subject(q))'
                 PROVE  (<<found[q], Subject(q)>> \in usurped)'
    BY DEF Doomed
  <2>2. /\ q # p /\ at[q] = "rename" /\ Subject(q) \in Endpoints
        /\ Subject(q)' = Subject(q) /\ found'[q] = found[q] /\ found[q] \in Sessions
    BY <2>1 DEF IInv, Types, Shape, ClaimSteps, ReleaseSteps, Checked, Subject,
        ReadForClaim, Stay, Carry, Goto, files
  <2>3. Subject(q) # Subject(p)
    BY <2>2 DEF IInv, Locked, ReadForClaim
  <2>4. Holds(found[q], Subject(q))
    BY <2>1, <2>2, <2>3, EndpointAssumption DEF IInv, Types, Shape, Subject,
        Holds, ReadForClaim, Stay, Carry, Goto, files
  <2>5. QED
    BY <2>2, <2>4 DEF IInv, Doomed, ReadForClaim, Stay, Carry, Goto, files
<1>5. ASSUME NEW q \in Sessions, NEW f \in Endpoints PROVE Owned(q, f)'
  BY <1>1, EndpointAssumption DEF IInv, Types, Shape, ClaimSteps,
      ReleaseSteps, Locked, Checked, Doomed, Holds, Owned, Subject,
      ReadForClaim, Stay, Carry, Goto, files
<1>6. QED
  BY <1>1, <1>2, <1>3, <1>4, <1>5 DEF IInv

\* A probe (isSocketAlive) that lets the claim go on has found a session that
\* is not running, or is counted as missed.
LEMMA ProbePreserves ==
  ASSUME IInv, NEW p \in Sessions, Probe(p)
  PROVE  IInv'
<1>1. Types'
  BY EndpointAssumption DEF IInv, Types, FileSteps, Probe, Carry, Goto, files
<1>2. ASSUME NEW q \in Sessions PROVE Shape(q)'
  BY <1>1, EndpointAssumption DEF IInv, Types, Shape, ClaimSteps,
      ReleaseSteps, Probe, Carry, Goto, files
<1>3. ASSUME NEW q \in Sessions PROVE Locked(q)' /\ Checked(q)'
  BY <1>1, EndpointAssumption DEF IInv, Types, Shape, ClaimSteps,
      ReleaseSteps, Locked, Checked, Subject, Probe, Carry, Goto, files
<1>4. ASSUME NEW q \in Sessions PROVE Doomed(q)'
  BY <1>1, <1>2, <1>3, EndpointAssumption DEF IInv, Types, Shape, ClaimSteps,
      ReleaseSteps, Locked, Checked, Doomed, Holds, Owned, Subject, Probe,
      Carry, Goto, files
<1>5. ASSUME NEW q \in Sessions, NEW f \in Endpoints PROVE Owned(q, f)'
  BY <1>1, EndpointAssumption DEF IInv, Types, Shape, ClaimSteps,
      ReleaseSteps, Locked, Checked, Doomed, Holds, Owned, Subject, Probe,
      Carry, Goto, files
<1>6. QED
  BY <1>1, <1>2, <1>3, <1>4, <1>5 DEF IInv

\* The link that is moved away is the one probed, whose owner no longer holds
\* the endpoint, or was missed.
LEMMA MoveAwayPreserves ==
  ASSUME IInv, NEW p \in Sessions, MoveAway(p)
  PROVE  IInv'
<1>1. Types'
  BY EndpointAssumption DEF IInv, Types, FileSteps, Shape, Subject, MoveAway,
      SetLink, Goto
<1>2. ASSUME NEW q \in Sessions PROVE Shape(q)'
  BY <1>1, EndpointAssumption DEF IInv, Types, Shape, ClaimSteps,
      ReleaseSteps, MoveAway, SetLink, Goto
<1>3. ASSUME NEW q \in Sessions PROVE Locked(q)' /\ Checked(q)'
  BY <1>1, EndpointAssumption DEF IInv, Types, Shape, ClaimSteps,
      ReleaseSteps, Locked, Checked, Subject, MoveAway, SetLink, Goto
<1>4. ASSUME NEW q \in Sessions PROVE Doomed(q)'
  BY <1>1, <1>2, <1>3, EndpointAssumption DEF IInv, Types, Shape, ClaimSteps,
      ReleaseSteps, Locked, Checked, Doomed, Holds, Owned, Subject, MoveAway,
      SetLink, Goto
<1>5. ASSUME NEW q \in Sessions, NEW f \in Endpoints PROVE Owned(q, f)'
  <2>1. /\ stage[p] = "claim" /\ Subject(p) \in Endpoints
        /\ link[Subject(p)] = found[p] /\ found[p] \in Sessions
        /\ Holds(found[p], Subject(p)) => <<found[p], Subject(p)>> \in usurped
    BY DEF IInv, Types, Shape, ReleaseSteps, Checked, Doomed, Subject, MoveAway
  <2>2. Holds(q, f)' => Holds(q, f)
    BY <2>1 DEF IInv, Types, Holds, MoveAway, SetLink, Goto
  <2>3. f # Subject(p) => link'[f] = link[f]
    BY <2>1 DEF IInv, Types, MoveAway, SetLink, Goto
  <2>4. Holds(q, f) => link[f] = q \/ <<q, f>> \in usurped
    BY DEF IInv, Owned
  <2>5. Holds(q, f) => link'[f] = q \/ <<q, f>> \in usurped
    BY <2>1, <2>3, <2>4
  <2>6. QED
    BY <2>2, <2>5 DEF Owned, MoveAway
<1>6. QED
  BY <1>1, <1>2, <1>3, <1>4, <1>5 DEF IInv

\* A link is created only where nothing is, so that nobody else's is
\* overwritten.
LEMMA SymlinkPreserves ==
  ASSUME IInv, NEW p \in Sessions, Symlink(p)
  PROVE  IInv'
<1>1. Types'
  BY EndpointAssumption DEF IInv, Types, FileSteps, Shape, Subject, Symlink,
      SetLink, Carry, Goto
<1>2. ASSUME NEW q \in Sessions PROVE Shape(q)'
  BY <1>1, EndpointAssumption DEF IInv, Types, Shape, ClaimSteps,
      ReleaseSteps, Symlink, SetLink, Carry, Goto
<1>3. ASSUME NEW q \in Sessions PROVE Locked(q)' /\ Checked(q)'
  BY <1>1, EndpointAssumption DEF IInv, Types, Shape, ClaimSteps,
      ReleaseSteps, Locked, Checked, Subject, Symlink, SetLink, Carry, Goto
<1>4. ASSUME NEW q \in Sessions PROVE Doomed(q)'
  BY <1>1, <1>2, <1>3, EndpointAssumption DEF IInv, Types, Shape, ClaimSteps,
      ReleaseSteps, Locked, Checked, Doomed, Holds, Owned, Subject, Symlink,
      SetLink, Carry, Goto
<1>5. ASSUME NEW q \in Sessions, NEW f \in Endpoints PROVE Owned(q, f)'
  BY <1>1, EndpointAssumption DEF IInv, Types, Shape, ClaimSteps,
      ReleaseSteps, Locked, Checked, Doomed, Holds, Owned, Subject, Symlink,
      SetLink, Carry, Goto
<1>6. QED
  BY <1>1, <1>2, <1>3, <1>4, <1>5 DEF IInv

\* The lock that goes before the symlink is created guards nothing that step
\* reads.
LEMMA EarlyUnlockPreserves ==
  ASSUME IInv, NEW p \in Sessions, UnlockBeforeSymlink(p)
  PROVE  IInv'
<1>1. Types'
  BY EndpointAssumption DEF IInv, Types, FileSteps, Shape, Subject,
      UnlockBeforeSymlink, SetLock, operation
<1>2. ASSUME NEW q \in Sessions PROVE Shape(q)'
  BY <1>1, EndpointAssumption DEF IInv, Types, Shape, ClaimSteps,
      ReleaseSteps, UnlockBeforeSymlink, SetLock, operation
<1>3. ASSUME NEW q \in Sessions PROVE Locked(q)' /\ Checked(q)'
  BY <1>1, EndpointAssumption DEF IInv, Types, Shape, ClaimSteps,
      ReleaseSteps, Locked, Checked, Subject, UnlockBeforeSymlink, SetLock,
      operation
<1>4. ASSUME NEW q \in Sessions PROVE Doomed(q)'
  BY <1>1, <1>2, <1>3, EndpointAssumption DEF IInv, Types, Shape, ClaimSteps,
      ReleaseSteps, Locked, Checked, Doomed, Holds, Owned, Subject,
      UnlockBeforeSymlink, SetLock, operation
<1>5. ASSUME NEW q \in Sessions, NEW f \in Endpoints PROVE Owned(q, f)'
  BY <1>1, EndpointAssumption DEF IInv, Types, Shape, ClaimSteps,
      ReleaseSteps, Locked, Checked, Doomed, Holds, Owned, Subject,
      UnlockBeforeSymlink, SetLock, operation
<1>6. QED
  BY <1>1, <1>2, <1>3, <1>4, <1>5 DEF IInv

\* A release that finds no link ends; the session no longer holds what it gives
\* up (releaseMemberEndpoint).
LEMMA PeekPreserves ==
  ASSUME IInv, NEW p \in Sessions, PeekForRelease(p)
  PROVE  IInv'
<1>1. Types'
  BY EndpointAssumption DEF IInv, Types, FileSteps, PeekForRelease, Succeed,
      Become, Stay, Carry, End, Begin, Goto, files
<1>2. ASSUME NEW q \in Sessions PROVE Shape(q)'
  BY <1>1, EndpointAssumption DEF IInv, Types, Shape, ClaimSteps,
      ReleaseSteps, PeekForRelease, Succeed, Become, Stay, Carry, End, Begin,
      Goto, files
<1>3. ASSUME NEW q \in Sessions PROVE Locked(q)' /\ Checked(q)'
  BY <1>1, EndpointAssumption DEF IInv, Types, Shape, ClaimSteps,
      ReleaseSteps, Locked, Checked, Subject, PeekForRelease, Succeed, Become,
      Stay, Carry, End, Begin, Goto, files
<1>4. ASSUME NEW q \in Sessions PROVE Doomed(q)'
  BY <1>1, <1>2, <1>3, EndpointAssumption DEF IInv, Types, Shape, ClaimSteps,
      ReleaseSteps, Locked, Checked, Doomed, Holds, Owned, Subject,
      PeekForRelease, Succeed, Become, Stay, Carry, End, Begin, Goto, files
<1>5. ASSUME NEW q \in Sessions, NEW f \in Endpoints PROVE Owned(q, f)'
  <2>1. stage[p] \in {"release", "rollback"} /\ membership[p] \in Endpoints
    BY DEF IInv, Types, Shape, ClaimSteps, PeekForRelease
  <2>2. Holds(q, f)' => Holds(q, f)
    BY <2>1, EndpointAssumption DEF IInv, Types, Shape, Holds, PeekForRelease,
        Succeed, Become, Stay, Carry, End, Begin, Goto, files
  <2>3. Holds(q, f)' /\ <<q, f>> \in usurped => <<q, f>> \in usurped'
    BY <2>1, EndpointAssumption DEF IInv, Types, Shape, Holds, PeekForRelease,
        Succeed, Become, Stay, Carry, End, Begin, Goto, files
  <2>4. QED
    BY <2>2, <2>3 DEF IInv, Owned, PeekForRelease, files
<1>6. QED
  BY <1>1, <1>2, <1>3, <1>4, <1>5 DEF IInv

\* A release that finds another's link gives the endpoint up and removes
\* nothing.
LEMMA ReadForReleasePreserves ==
  ASSUME IInv, NEW p \in Sessions, ReadForRelease(p)
  PROVE  IInv'
<1>1. Types'
  BY EndpointAssumption DEF IInv, Types, FileSteps, ReadForRelease, Stay,
      Carry, Goto, files
<1>2. ASSUME NEW q \in Sessions PROVE Shape(q)'
  BY <1>1, EndpointAssumption DEF IInv, Types, Shape, ClaimSteps,
      ReleaseSteps, ReadForRelease, Stay, Carry, Goto, files
<1>3. ASSUME NEW q \in Sessions PROVE Locked(q)' /\ Checked(q)'
  BY <1>1, EndpointAssumption DEF IInv, Types, Shape, ClaimSteps,
      ReleaseSteps, Locked, Checked, Subject, ReadForRelease, Stay, Carry,
      Goto, files
<1>4. ASSUME NEW q \in Sessions PROVE Doomed(q)'
  BY <1>1, <1>2, <1>3, EndpointAssumption DEF IInv, Types, Shape, ClaimSteps,
      ReleaseSteps, Locked, Checked, Doomed, Holds, Owned, Subject,
      ReadForRelease, Stay, Carry, Goto, files
<1>5. ASSUME NEW q \in Sessions, NEW f \in Endpoints PROVE Owned(q, f)'
  BY <1>1, EndpointAssumption DEF IInv, Types, Shape, ClaimSteps,
      ReleaseSteps, Locked, Checked, Doomed, Holds, Owned, Subject,
      ReadForRelease, Stay, Carry, Goto, files
<1>6. QED
  BY <1>1, <1>2, <1>3, <1>4, <1>5 DEF IInv

\* A release removes its own link, and nobody else's membership with it.
LEMMA UnlinkPreserves ==
  ASSUME IInv, NEW p \in Sessions, Unlink(p)
  PROVE  IInv'
<1>1. Types'
  BY EndpointAssumption DEF IInv, Types, FileSteps, Shape, Subject, Unlink,
      SetLink, Stay, Carry, Goto
<1>2. ASSUME NEW q \in Sessions PROVE Shape(q)'
  BY <1>1, EndpointAssumption DEF IInv, Types, Shape, ClaimSteps,
      ReleaseSteps, Unlink, SetLink, Stay, Carry, Goto
<1>3. ASSUME NEW q \in Sessions PROVE Locked(q)' /\ Checked(q)'
  BY <1>1, EndpointAssumption DEF IInv, Types, Shape, ClaimSteps,
      ReleaseSteps, Locked, Checked, Subject, Unlink, SetLink, Stay, Carry,
      Goto
<1>4. ASSUME NEW q \in Sessions PROVE Doomed(q)'
  BY <1>1, <1>2, <1>3, EndpointAssumption DEF IInv, Types, Shape, ClaimSteps,
      ReleaseSteps, Locked, Checked, Doomed, Holds, Owned, Subject, Unlink,
      SetLink, Stay, Carry, Goto
<1>5. ASSUME NEW q \in Sessions, NEW f \in Endpoints PROVE Owned(q, f)'
  <2>1. Subject(p) \in Endpoints /\ link[Subject(p)] = p /\ stage[p] \in {"release", "rollback"}
    BY EndpointAssumption DEF IInv, Types, Shape, ClaimSteps, Checked, Subject,
        Unlink
  <2>2. Holds(q, f)' => Holds(q, f)
    BY <2>1 DEF IInv, Types, Holds, Unlink, SetLink, Stay, Carry, Goto
  <2>3. f # Subject(p) => link'[f] = link[f]
    BY <2>1 DEF IInv, Types, Unlink, SetLink, Stay, Carry, Goto
  <2>4. Holds(q, f)' => link'[f] = q \/ <<q, f>> \in usurped
    <3>1. CASE f # Subject(p)
      BY <2>2, <2>3, <3>1 DEF IInv, Owned
    <3>2. CASE f = Subject(p) /\ q # p
      BY <2>1, <2>2, <3>2 DEF IInv, Owned
    <3>3. CASE f = Subject(p) /\ q = p
        BY <2>1, <3>3, EndpointAssumption DEF IInv, Types, Shape, Subject, Holds,
            Unlink, SetLink, Stay, Carry, Goto
    <3>4. QED
      BY <3>1, <3>2, <3>3
  <2>5. QED
    BY <2>4 DEF Owned, Unlink, Stay
<1>6. QED
  BY <1>1, <1>2, <1>3, <1>4, <1>5 DEF IInv

\* The finally block, and how the join, switch, leave or rollback goes on:
\* whoever becomes a Member held the endpoint before.
LEMMA UnlockPreserves ==
  ASSUME IInv, NEW p \in Sessions, ReleaseLock(p)
  PROVE  IInv'
<1>1. Types'
  BY EndpointAssumption DEF IInv, Types, FileSteps, Shape, Subject,
      ReleaseLock, SetLock, Succeed, Become, Fail, End, Begin, Goto
<1>2. ASSUME NEW q \in Sessions PROVE Shape(q)'
  BY <1>1, EndpointAssumption DEF IInv, Types, Shape, ClaimSteps,
      ReleaseSteps, ReleaseLock, SetLock, Succeed, Become, Fail, End, Begin,
      Goto
<1>3. ASSUME NEW q \in Sessions PROVE Locked(q)' /\ Checked(q)'
  BY <1>1, EndpointAssumption DEF IInv, Types, Shape, ClaimSteps,
      ReleaseSteps, Locked, Checked, Subject, ReleaseLock, SetLock, Succeed,
      Become, Fail, End, Begin, Goto
<1>4. ASSUME NEW q \in Sessions PROVE Doomed(q)'
  BY <1>1, <1>2, <1>3, EndpointAssumption DEF IInv, Types, Shape, ClaimSteps,
      ReleaseSteps, Locked, Checked, Doomed, Holds, Owned, Subject,
      ReleaseLock, SetLock, Succeed, Become, Fail, End, Begin, Goto
<1>5. ASSUME NEW q \in Sessions, NEW f \in Endpoints PROVE Owned(q, f)'
  BY <1>1, EndpointAssumption DEF IInv, Types, Shape, ClaimSteps,
      ReleaseSteps, Locked, Checked, Doomed, Holds, Owned, Subject,
      ReleaseLock, SetLock, Succeed, Become, Fail, End, Begin, Goto
<1>6. QED
  BY <1>1, <1>2, <1>3, <1>4, <1>5 DEF IInv

-----------------------------------------------------------------------------
(* The invariant, and what follows from it.                                 *)

\* Before any session starts, nobody holds anything.
LEMMA InitIInv == EndpointInit => IInv
<1>1. SUFFICES ASSUME EndpointInit PROVE IInv
  OBVIOUS
<1>2. Types
  BY <1>1 DEF EndpointInit, Types, FileSteps
<1>3. ASSUME NEW p \in Sessions PROVE Shape(p) /\ Locked(p) /\ Checked(p) /\ Doomed(p)
  BY <1>1 DEF EndpointInit, Shape, Locked, Checked, Doomed
<1>4. ASSUME NEW p \in Sessions, NEW e \in Endpoints PROVE Owned(p, e)
  BY <1>1, EndpointAssumption DEF EndpointInit, Owned, Holds
<1>5. QED
  BY <1>2, <1>3, <1>4 DEF IInv

\* Every step of any session preserves the invariant.
LEMMA NextIInv == IInv /\ [EndpointNext]_endpointVars => IInv'
<1>1. SUFFICES ASSUME IInv, [EndpointNext]_endpointVars PROVE IInv'
  OBVIOUS
<1>2. CASE UNCHANGED endpointVars
  BY <1>1, <1>2 DEF IInv, Types, Shape, Locked, Checked, Doomed, Owned, Holds, Subject,
     endpointVars, files, operation, counters
<1>3. CASE EndpointNext
  <2>1. PICK p \in Sessions :
          \/ StartSession(p) \/ Leave(p) \/ EndProcess(p)
          \/ \E e \in Endpoints : Join(p, e)
          \/ AcquireLock(p) \/ ReadForClaim(p) \/ Probe(p) \/ MoveAway(p)
          \/ Symlink(p) \/ UnlockBeforeSymlink(p)
          \/ PeekForRelease(p) \/ ReadForRelease(p) \/ Unlink(p)
          \/ ReleaseLock(p)
    BY <1>3 DEF EndpointNext
  <2>2. CASE StartSession(p) \/ Leave(p) \/ EndProcess(p) \/ \E e \in Endpoints : Join(p, e)
    BY <1>1, <2>2, StartPreserves, LeavePreserves, EndPreserves, JoinPreserves
  <2>3. CASE AcquireLock(p) \/ ReadForClaim(p) \/ Probe(p) \/ MoveAway(p)
    BY <1>1, <2>3, AcquirePreserves, ReadForClaimPreserves, ProbePreserves, MoveAwayPreserves
  <2>4. CASE Symlink(p) \/ UnlockBeforeSymlink(p)
    BY <1>1, <2>4, SymlinkPreserves, EarlyUnlockPreserves
  <2>5. CASE PeekForRelease(p) \/ ReadForRelease(p) \/ Unlink(p) \/ ReleaseLock(p)
    BY <1>1, <2>5, PeekPreserves, ReadForReleasePreserves, UnlinkPreserves, UnlockPreserves
  <2>6. QED
    BY <2>1, <2>2, <2>3, <2>4, <2>5
<1>4. QED
  BY <1>1, <1>2, <1>3

\* The invariant holds of every behaviour of the endpoints.
THEOREM EndpointIInv == EndpointSpec => []IInv
<1>1. QED
  BY InitIInv, NextIInv, PTL DEF EndpointSpec

\* What a claim or a release read is still so when it acts on it: claimMemberEndpoint
\* moves away the link it probed, releaseMemberEndpoint removes its own, whatever the
\* other sessions do in the meantime.
THEOREM CheckedLinkUnchangedHolds == EndpointSpec => []CheckedLinkUnchanged
<1>1. IInv => CheckedLinkUnchanged
  BY DEF IInv, Checked, CheckedLinkUnchanged
<1>2. QED
  BY <1>1, EndpointIInv, PTL

\* A Member that is not leaving and whom no probe missed is the session its endpoint
\* points to, so that no second session takes itself for the same Member.
THEOREM MemberPublishedHolds == EndpointSpec => []MemberPublished
<1>1. IInv => MemberPublished
  <2>1. SUFFICES ASSUME IInv, NEW p \in Sessions, membership[p] # None,
                        stage[p] # "release", <<p, membership[p]>> \notin usurped
                 PROVE  link[membership[p]] = p
    BY DEF MemberPublished
  <2>2. membership[p] \in Endpoints /\ Holds(p, membership[p])
    BY <2>1 DEF IInv, Types, Holds
  <2>3. QED
    BY <2>1, <2>2 DEF IInv, Owned
<1>2. QED
  BY <1>1, EndpointIInv, PTL

-----------------------------------------------------------------------------
(* Links that nobody uses.                                                  *)

\* Why a session's link is where it is: it is a Member there, the link is a known stray,
\* or the running operation will see to it.
Accounted(p, e) ==
  link[e] = p =>
    \/ membership[p] = e \/ <<p, e>> \in strays
    \/ target[p] = e /\ stage[p] \in {"release", "rollback"}
    \/ target[p] = e /\ stage[p] = "claim" /\ at[p] = "done"

\* A release or rollback that has done its work has left no link of its own.
Released(p) ==
  stage[p] \in {"release", "rollback"} /\ at[p] = "done" => link[Subject(p)] # p

StrayInv == \A p \in Sessions : Released(p) /\ \A e \in Endpoints : Accounted(p, e)

\* A process that ends leaves its links as strays.
LEMMA EndKeepsStrays ==
  ASSUME IInv, StrayInv, NEW p \in Sessions, EndProcess(p)
  PROVE  StrayInv'
  BY EndpointAssumption DEF IInv, Types, Shape, StrayInv, Released, Accounted, Subject, EndProcess,
     End, Begin, Goto, files

\* The steps that begin an operation, and those that only look.
LEMMA LookingKeepsStrays ==
  ASSUME IInv, StrayInv, NEW p \in Sessions,
         \/ StartSession(p) \/ Leave(p) \/ \E e \in Endpoints : Join(p, e)
         \/ ReadForClaim(p) \/ Probe(p) \/ UnlockBeforeSymlink(p) \/ ReadForRelease(p)
  PROVE  StrayInv'
<1> USE EndpointAssumption DEF IInv, Types, Shape, StrayInv, Released, Accounted, Subject
<1>1. CASE StartSession(p) \/ UnlockBeforeSymlink(p)
  BY <1>1 DEF StartSession, UnlockBeforeSymlink, files, operation
<1>2. CASE Leave(p)
  BY <1>2 DEF Leave, Idle, Begin, Goto, files
<1>3. ASSUME NEW e \in Endpoints, Join(p, e) PROVE StrayInv'
  BY <1>3 DEF Join, Idle, Begin, Goto, files
<1>4. CASE ReadForClaim(p)
  BY <1>4 DEF ReadForClaim, Goto, Stay, Carry, files
<1>5. CASE Probe(p)
  BY <1>5 DEF Probe, ClaimSteps, ReleaseSteps, Goto, Carry, files
<1>6. CASE ReadForRelease(p)
  BY <1>6 DEF ReadForRelease, Goto, Stay, Carry, files
<1>7. QED
  BY <1>1, <1>2, <1>3, <1>4, <1>5, <1>6

\* The steps that move, create or remove a link.
LEMMA WritingKeepsStrays ==
  ASSUME IInv, StrayInv, NEW p \in Sessions, MoveAway(p) \/ Symlink(p) \/ Unlink(p)
  PROVE  StrayInv'
<1> USE EndpointAssumption DEF IInv, Types, Shape, ClaimSteps, ReleaseSteps, StrayInv, Released,
                               Accounted, Subject
<1>1. CASE MoveAway(p)
  BY <1>1 DEF MoveAway, SetLink, Goto
<1>2. CASE Symlink(p)
  BY <1>2 DEF Symlink, SetLink, Goto, Carry
<1>3. CASE Unlink(p)
  BY <1>3 DEF Unlink, SetLink, Goto, Stay, Carry
<1>4. QED
  BY <1>1, <1>2, <1>3

\* How an operation goes on: a switch that cannot release the old endpoint rolls its
\* claim back, and a rollback that fails leaves a stray (Fail, Succeed).
LEMMA GoingOnKeepsStrays ==
  ASSUME IInv, StrayInv, NEW p \in Sessions, AcquireLock(p) \/ PeekForRelease(p) \/ ReleaseLock(p)
  PROVE  StrayInv'
<1> USE EndpointAssumption DEF IInv, Types, Shape, ClaimSteps, ReleaseSteps, StrayInv, Released,
                               Accounted, Subject
<1>1. CASE AcquireLock(p)
  BY <1>1 DEF AcquireLock, SetLock, Goto, Stay, Carry, Fail, End, Begin
<1>2. CASE PeekForRelease(p)
  BY <1>2 DEF PeekForRelease, Goto, Stay, Carry, Succeed, Become, End, Begin, files
<1>3. CASE ReleaseLock(p)
  BY <1>3 DEF ReleaseLock, SetLock, Succeed, Become, Fail, End, Begin, Goto
<1>4. QED
  BY <1>1, <1>2, <1>3

\* A switch that fails leaves no second endpoint behind unless its rollback failed too,
\* and a session that came back after a crash knows of what it finds (joinMember).
THEOREM NoStrayEndpointHolds == EndpointSpec => []NoStrayEndpoint
<1>1. EndpointInit => StrayInv
  BY EndpointAssumption DEF EndpointInit, StrayInv, Released, Accounted
<1>2. IInv /\ StrayInv /\ [EndpointNext]_endpointVars => StrayInv'
  <2>1. SUFFICES ASSUME IInv, StrayInv, [EndpointNext]_endpointVars PROVE StrayInv'
    OBVIOUS
  <2>2. CASE UNCHANGED endpointVars
    BY <2>1, <2>2 DEF StrayInv, Released, Accounted, Subject, endpointVars, files, operation
  <2>3. CASE EndpointNext
    BY <2>1, <2>3, EndKeepsStrays, LookingKeepsStrays, WritingKeepsStrays, GoingOnKeepsStrays
       DEF EndpointNext
  <2>4. QED
    BY <2>1, <2>2, <2>3
<1>3. IInv /\ StrayInv => NoStrayEndpoint
  BY DEF IInv, Types, Shape, StrayInv, Accounted, NoStrayEndpoint, Idle
<1>4. QED
  BY <1>1, <1>2, <1>3, EndpointIInv, PTL DEF EndpointSpec
=============================================================================
