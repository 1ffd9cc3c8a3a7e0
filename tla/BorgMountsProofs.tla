------------------------- MODULE BorgMountsProofs -------------------------
(***************************************************************************)
(* The two invariants of BorgMounts for any number of requests, points,    *)
(* polls and restarts.  Both rest on one fact: a request that is mounting, *)
(* failing or tracked has its point to itself and keeps its directory, so  *)
(* that no other request is given the point and no other unmount detaches  *)
(* it.                                                                     *)
(*                                                                         *)
(* The theorems assume that no caller names a point where another request  *)
(* is still mounting and that a mount meets one unmount call at a time:    *)
(* both invariants fail without these.                                     *)
(***************************************************************************)
EXTENDS BorgMounts, TLAPS

OneCall == \A k, l \in Callers : k = l

------------------------------------------------------------------------------
(* The inductive invariant. *)

Holds(r) == pc[r] \in {"wait", "failing", "up"}

\* A request that has not been taken up has nothing.
Fresh ==
    \A r \in Reqs : pc[r] = "new" =>
        /\ proc[r] = "none" /\ r \notin temp /\ r \notin cut
        /\ \A k \in Callers : un[r][k] = "idle"

\* The records, their file and the answered requests are the same.
Recorded == saved = active /\ active = {r \in Reqs : pc[r] = "up"}

\* An unmount call is about a tracked mount, whose process it has stopped
\* before it detaches anything.
Calls ==
    \A r \in Reqs, k \in Callers :
        /\ un[r][k] # "idle" => pc[r] = "up"
        /\ un[r][k] = "umount" => ~Running(r)

\* A request's point is the base name or its own sibling, and nobody else's
\* while it holds it; its directory is there.
Places ==
    /\ \A r \in Reqs : pt[r] \in {Base(r), Sibling(r)}
    /\ \A r, q \in Reqs : Holds(r) /\ Holds(q) /\ pt[r] = pt[q] => r = q
    /\ \A r \in Reqs : Holds(r) => pt[r] \in dirs

IInv == TypeOK /\ Fresh /\ Recorded /\ Calls /\ Places /\ OwnMount /\ NothingLeft

------------------------------------------------------------------------------
(* Facts about sequences and points. *)

\* What Last and Front are of a stack of mounts.
LEMMA Stack ==
    ASSUME NEW S, NEW s \in Seq(S)
    PROVE  /\ s # << >> => Last(s) \in S /\ Front(s) \in Seq(S)
           /\ \A e \in S : /\ Append(s, e) \in Seq(S) /\ Append(s, e) # << >>
                           /\ Last(Append(s, e)) = e
  <1>1. ASSUME s # << >> PROVE Last(s) \in S /\ Front(s) \in Seq(S)
    <2>1. Len(s) \in Nat /\ Len(s) > 0
      BY <1>1
    <2>2. SubSeq(s, 1, Len(s) - 1) \in Seq(S)
      BY <2>1
    <2>3. QED
      BY <2>1, <2>2 DEF Last, Front
  <1>2. ASSUME NEW e \in S
        PROVE  Append(s, e) \in Seq(S) /\ Append(s, e) # << >> /\ Last(Append(s, e)) = e
    <2>1. /\ Append(s, e) \in Seq(S) /\ Len(Append(s, e)) = Len(s) + 1
          /\ Append(s, e)[Len(s) + 1] = e
      OBVIOUS
    <2>2. QED
      BY <2>1 DEF Last
  <1>3. QED
    BY <1>1, <1>2

\* A sibling is the point of the request it is named for and of no other.
LEMMA SiblingOwn ==
    ASSUME NEW r \in Reqs, NEW q \in Reqs, NEW p \in {Base(q), Sibling(q)}, p = Sibling(r)
    PROVE  q = r
  BY ReqsAssumption DEF Base, Sibling

\* The points of a request.
LEMMA PointsOf ==
    ASSUME NEW r \in Reqs
    PROVE  Base(r) \in Points /\ Sibling(r) \in Points /\ Target(r) \in {Base(r), Sibling(r)}
  BY DEF Points, Target

\* Detaching keeps the table a table, and touches only its point.
LEMMA DetachedType ==
    ASSUME table \in [Points -> Seq(Reqs)], NEW p \in Points
    PROVE  /\ Detached(p) \in [Points -> Seq(Reqs)]
           /\ \A o \in Points : o # p => Detached(p)[o] = table[o]
  <1>1. table[p] # << >> => Front(table[p]) \in Seq(Reqs)
    BY Stack
  <1>2. QED
    BY <1>1 DEF Detached

------------------------------------------------------------------------------
(* Types. *)

\* Nothing is mounted, recorded or asked for at first.
LEMMA InitIInv == Init => IInv
  <1> SUFFICES ASSUME Init PROVE IInv
    OBVIOUS
  <1>1. TypeOK
    BY PointsOf, BoundsAssumption DEF Init, TypeOK
  <1>2. Fresh /\ Recorded /\ Calls /\ Places /\ OwnMount /\ NothingLeft
    BY DEF Init, Fresh, Recorded, Calls, Places, OwnMount, NothingLeft, Holds, Running
  <1>3. QED
    BY <1>1, <1>2 DEF IInv

\* A step keeps every variable in its type.
LEMMA TypeStep == TypeOK /\ [Next]_vars => TypeOK'
  <1> SUFFICES ASSUME TypeOK, [Next]_vars PROVE TypeOK'
    OBVIOUS
  <1> USE DEF TypeOK
  <1>1. ASSUME NEW r \in Reqs, MountBorgArchive(r) PROVE TypeOK'
    <2>1. Target(r) \in Points
      BY PointsOf
    <2>2. /\ pc' \in [Reqs -> {"new", "wait", "failing", "up", "over"}]
          /\ pt' \in [Reqs -> Points] /\ dirs' \subseteq Points /\ temp' \subseteq Reqs
          /\ proc' \in [Reqs -> {"none", "starting", "serving", "dead"}]
      <3>1. CASE Dead(Base(r)) /\ pc' = [pc EXCEPT ![r] = "over"] /\ UNCHANGED <<pt, proc, dirs, temp>>
        BY <3>1
      <3>2. CASE /\ pc' = [pc EXCEPT ![r] = "wait"]
                 /\ pt' = [pt EXCEPT ![r] = Target(r)] /\ dirs' = dirs \cup {Target(r)}
                 /\ temp' = temp \cup {r}
                 /\ proc' = [proc EXCEPT ![r] = "starting"]
        BY <2>1, <3>2
      <3>3. QED
        BY <1>1, <3>1, <3>2 DEF MountBorgArchive
    <2>3. QED
      BY <1>1, <2>2 DEF MountBorgArchive
  <1>2. ASSUME NEW r \in Reqs, Poll(r) PROVE TypeOK'
    <2>1. /\ pc' \in [Reqs -> {"new", "wait", "failing", "up", "over"}]
          /\ proc' \in [Reqs -> {"none", "starting", "serving", "dead"}]
      BY <1>2 DEF Poll, Fails, Killed
    <2>2. active' \subseteq Reqs /\ saved' \subseteq Reqs
      BY <1>2 DEF Poll, Fails, Tracked, SaveState
    <2>3. polls' \in [Reqs -> 0 .. MaxPolls]
      <3>1. polls[r] \in 0 .. MaxPolls /\ MaxPolls \in Nat
        BY BoundsAssumption
      <3>2. polls[r] > 1 => polls[r] - 1 \in 0 .. MaxPolls
        BY <3>1
      <3>3. CASE polls[r] > 1 /\ polls' = [polls EXCEPT ![r] = @ - 1]
        BY <3>2, <3>3
      <3>4. QED
        BY <1>2, <3>3 DEF Poll, Fails
    <2>4. QED
      BY <1>2, <2>1, <2>2, <2>3 DEF Poll
  <1>3. ASSUME NEW r \in Reqs, Interrupted(r) PROVE TypeOK'
    BY <1>3 DEF Interrupted, Fails, Killed
  <1>4. ASSUME NEW r \in Reqs, CleanUp(r) PROVE TypeOK'
    BY <1>4 DEF CleanUp, CleanupTempFiles, WithoutEmpty
  <1>5. ASSUME NEW r \in Reqs, NEW k \in Callers, SignalTerm(r, k) PROVE TypeOK'
    BY <1>5 DEF SignalTerm, request, service
  <1>6. ASSUME NEW r \in Reqs, NEW k \in Callers, StopProcess(r, k) PROVE TypeOK'
    BY <1>6 DEF StopProcess, request, service
  <1>7. ASSUME NEW r \in Reqs, NEW k \in Callers, FinishUnmount(r, k) PROVE TypeOK'
    <2>1. table' \in [Points -> Seq(Reqs)]
      BY <1>7, DetachedType DEF FinishUnmount, UnmountBorg
    <2>2. QED
      BY <1>7, <2>1 DEF FinishUnmount, CleanupTempFiles, SaveState
  <1>8. ASSUME NEW r \in Reqs, ProcMounts(r) PROVE TypeOK'
    <2>1. Append(table[pt[r]], r) \in Seq(Reqs)
      BY Stack
    <2>2. QED
      BY <1>8, <2>1 DEF ProcMounts, request, service
  <1>9. ASSUME NEW r \in Reqs, ProcEnds(r) PROVE TypeOK'
    BY <1>9, DetachedType DEF ProcEnds, request, service
  <1>10. ASSUME Restart PROVE TypeOK'
    <2>1. dirs' \subseteq Points
      BY <1>10 DEF Restart, OrphansRemoved
    <2>2. table' \in [Points -> Seq(Reqs)]
      <3>1. << >> \in Seq(Reqs)
        OBVIOUS
      <3>2. CASE UNCHANGED table
        BY <3>2
      <3>3. CASE table' = [p \in Points |-> << >>]
        BY <3>1, <3>3
      <3>4. QED
        BY <1>10, <3>2, <3>3 DEF Restart
    <2>3. QED
      BY <1>10, <2>1, <2>2, BoundsAssumption DEF Restart, Reloaded, SaveState
  <1>11. CASE UNCHANGED vars
    BY <1>11 DEF vars
  <1>12. QED
    BY <1>1, <1>2, <1>3, <1>4, <1>5, <1>6, <1>7, <1>8, <1>9, <1>10, <1>11 DEF Next

------------------------------------------------------------------------------
(* What a step may change. *)

\* Only a request that is taken up gets a point, and only then does its point
\* change; what outlived the server stays where it is.
LEMMA Outliving ==
    ASSUME TypeOK, Fresh, [Next]_vars
    PROVE  /\ \A r \in Reqs : pc[r] # "new" => pt'[r] = pt[r]
           /\ cut \subseteq cut'
           /\ \A r \in Reqs : MountBorgArchive(r) => \A q \in Reqs : q # r => pt'[q] = pt[q]
           /\ (\A r \in Reqs : ~MountBorgArchive(r)) => pt' = pt
           /\ ~Restart => cut' = cut
  <1>1. ASSUME NEW r \in Reqs, MountBorgArchive(r)
        PROVE  cut' = cut /\ pc[r] = "new" /\ \A q \in Reqs : q # r => pt'[q] = pt[q]
    BY <1>1 DEF MountBorgArchive, TypeOK
  <1>2. ASSUME \A r \in Reqs : ~MountBorgArchive(r) PROVE pt' = pt
    BY <1>2 DEF Next, vars, Poll, Interrupted, CleanUp, SignalTerm, StopProcess,
                FinishUnmount, ProcMounts, ProcEnds, Restart, request
  <1>3. ~Restart => cut' = cut
    BY <1>1 DEF Next, vars, Poll, Interrupted, CleanUp, SignalTerm, StopProcess,
                FinishUnmount, ProcMounts, ProcEnds, service
  <1>4. Restart => cut \subseteq cut'
    BY DEF Restart
  <1>5. \A r \in Reqs : pc[r] # "new" => pt'[r] = pt[r]
    BY <1>1, <1>2
  <1>6. QED
    BY <1>1, <1>2, <1>3, <1>4, <1>5

------------------------------------------------------------------------------
(* The parts of the invariant, one by one. *)

\* What has not been taken up stays without anything.
LEMMA FreshStep ==
    ASSUME TypeOK, Fresh, Recorded, [Next]_vars
    PROVE  Fresh'
  <1> USE DEF Fresh, TypeOK
  <1>q. ASSUME UNCHANGED <<pc, proc, temp, cut, un>> PROVE Fresh'
    BY <1>q
  <1>1. ASSUME NEW r \in Reqs, MountBorgArchive(r) PROVE Fresh'
    <2>1. \A q \in Reqs : q # r =>
            pc'[q] = pc[q] /\ proc'[q] = proc[q] /\ (q \in temp' <=> q \in temp)
      BY <1>1 DEF MountBorgArchive
    <2>2. pc'[r] # "new" /\ UNCHANGED <<un, cut>>
      BY <1>1 DEF MountBorgArchive
    <2>3. QED
      BY <2>1, <2>2
  <1>2. ASSUME NEW r \in Reqs, Poll(r) \/ Interrupted(r) PROVE Fresh'
    BY <1>2 DEF Poll, Interrupted, Fails, Killed
  <1>3. ASSUME NEW r \in Reqs, CleanUp(r) PROVE Fresh'
    BY <1>3 DEF CleanUp, CleanupTempFiles
  <1>4. ASSUME NEW r \in Reqs, NEW k \in Callers,
               SignalTerm(r, k) \/ StopProcess(r, k)
        PROVE  Fresh'
    <2>1. /\ UNCHANGED <<pc, temp, cut>> /\ pc[r] # "new"
          /\ \A q \in Reqs : q # r => proc'[q] = proc[q] /\ un'[q] = un[q]
      BY <1>4 DEF SignalTerm, StopProcess, request, service, Recorded
    <2>2. ASSUME NEW q \in Reqs, pc'[q] = "new"
          PROVE  /\ proc'[q] = "none" /\ q \notin temp' /\ q \notin cut'
                 /\ \A l \in Callers : un'[q][l] = "idle"
      <3>1. q # r /\ pc[q] = "new"
        BY <2>1, <2>2
      <3>2. QED
        BY <2>1, <3>1
    <2>3. QED
      BY <2>2
  <1>5. ASSUME NEW r \in Reqs, NEW k \in Callers, FinishUnmount(r, k) PROVE Fresh'
    BY <1>5 DEF FinishUnmount, CleanupTempFiles
  <1>6. ASSUME NEW r \in Reqs, ProcMounts(r) \/ ProcEnds(r) PROVE Fresh'
    BY <1>6 DEF ProcMounts, ProcEnds, Running, request, service
  <1>7. ASSUME Restart PROVE Fresh'
    BY <1>7 DEF Restart, Running
  <1>8. CASE UNCHANGED vars
    BY <1>8, <1>q DEF vars
  <1>9. QED
    BY <1>1, <1>2, <1>3, <1>4, <1>5, <1>6, <1>7, <1>8 DEF Next

\* Memory and file are written together.
LEMMA RecordedStep ==
    ASSUME TypeOK, Recorded, [Next]_vars
    PROVE  Recorded'
  <1> USE DEF Recorded, TypeOK
  <1>q. ASSUME UNCHANGED <<pc, active, saved>> PROVE Recorded'
    BY <1>q
  <1>1. ASSUME NEW r \in Reqs, MountBorgArchive(r) PROVE Recorded'
    BY <1>1 DEF MountBorgArchive
  <1>2. ASSUME NEW r \in Reqs, Poll(r) \/ Interrupted(r) PROVE Recorded'
    <2>1. CASE UNCHANGED <<pc, active, saved>>
      BY <2>1, <1>q
    <2>2. CASE pc[r] = "wait" /\ pc' = [pc EXCEPT ![r] = "failing"] /\ UNCHANGED <<active, saved>>
      BY <2>2
    <2>3. CASE pc' = [pc EXCEPT ![r] = "up"] /\ active' = active \cup {r} /\ saved' = active'
      BY <2>3
    <2>4. QED
      BY <1>2, <2>1, <2>2, <2>3 DEF Poll, Interrupted, Fails, Tracked, SaveState
  <1>3. ASSUME NEW r \in Reqs, CleanUp(r) PROVE Recorded'
    BY <1>3 DEF CleanUp
  <1>4. ASSUME NEW r \in Reqs, NEW k \in Callers,
               SignalTerm(r, k) \/ StopProcess(r, k)
        PROVE  Recorded'
    BY <1>4, <1>q DEF SignalTerm, StopProcess, request, service
  <1>5. ASSUME NEW r \in Reqs, NEW k \in Callers, FinishUnmount(r, k) PROVE Recorded'
    <2>1. CASE UNCHANGED <<pc, active, saved>>
      BY <2>1, <1>q
    <2>2. CASE /\ active' = active \ {r} /\ pc' = [pc EXCEPT ![r] = "over"]
               /\ saved' = IF r \in active THEN active' ELSE saved
      BY <2>2
    <2>3. QED
      BY <1>5, <2>1, <2>2 DEF FinishUnmount, SaveState
  <1>6. ASSUME NEW r \in Reqs, ProcMounts(r) \/ ProcEnds(r) PROVE Recorded'
    BY <1>6, <1>q DEF ProcMounts, ProcEnds, request, service
  <1>7. ASSUME Restart PROVE Recorded'
    BY <1>7 DEF Restart, Reloaded, SaveState
  <1>8. CASE UNCHANGED vars
    BY <1>8, <1>q DEF vars
  <1>9. QED
    BY <1>1, <1>2, <1>3, <1>4, <1>5, <1>6, <1>7, <1>8 DEF Next

\* With one call per mount the record stays until its call is over.
LEMMA CallsStep ==
    ASSUME TypeOK, Fresh, Recorded, Calls, [Next]_vars, OneCall
    PROVE  Calls'
  <1> USE DEF Calls, TypeOK, Running
  <1>q. ASSUME UNCHANGED <<pc, proc, un>> PROVE Calls'
    BY <1>q
  <1>1. ASSUME NEW r \in Reqs, MountBorgArchive(r) PROVE Calls'
    BY <1>1 DEF MountBorgArchive
  <1>2. ASSUME NEW r \in Reqs, Poll(r) \/ Interrupted(r) PROVE Calls'
    BY <1>2 DEF Poll, Interrupted, Fails, Killed
  <1>3. ASSUME NEW r \in Reqs, CleanUp(r) PROVE Calls'
    BY <1>3 DEF CleanUp
  <1>4. ASSUME NEW r \in Reqs, NEW k \in Callers, SignalTerm(r, k) PROVE Calls'
    BY <1>4 DEF SignalTerm, request, service, Recorded
  <1>5. ASSUME NEW r \in Reqs, NEW k \in Callers, StopProcess(r, k) PROVE Calls'
    BY <1>5 DEF StopProcess, request, service
  <1>6. ASSUME NEW r \in Reqs, NEW k \in Callers, FinishUnmount(r, k) PROVE Calls'
    <2>1. /\ un' = [un EXCEPT ![r][k] = "idle"] /\ UNCHANGED proc
          /\ \A q \in Reqs : q # r => pc'[q] = pc[q]
      BY <1>6 DEF FinishUnmount
    <2>2. \A l \in Callers : un'[r][l] = "idle"
      BY <2>1 DEF OneCall
    <2>3. \A q \in Reqs : q # r => un'[q] = un[q]
      BY <2>1
    <2>4. QED
      BY <2>1, <2>2, <2>3
  <1>7. ASSUME NEW r \in Reqs, ProcMounts(r) \/ ProcEnds(r) PROVE Calls'
    BY <1>7 DEF ProcMounts, ProcEnds, request, service
  <1>8. ASSUME Restart PROVE Calls'
    BY <1>8 DEF Restart
  <1>9. CASE UNCHANGED vars
    BY <1>9, <1>q DEF vars
  <1>10. QED
    BY <1>1, <1>2, <1>3, <1>4, <1>5, <1>6, <1>7, <1>8, <1>9 DEF Next

\* A point is given to one request at a time.  A base name is taken when its
\* directory is not there, so nobody holds it, or when it is empty, not tracked
\* and no request is mounting at it.
LEMMA PlacesStep ==
    ASSUME TypeOK, Fresh, Recorded, Calls, Places, [Next]_vars, OneCall, ~Overlap
    PROVE  Places'
  <1> USE DEF Places, TypeOK, Holds
  <1>q. ASSUME UNCHANGED pt,
               \A r \in Reqs : Holds(r)' => Holds(r) /\ pt[r] \in dirs'
        PROVE  Places'
    BY <1>q
  <1>1. ASSUME NEW r \in Reqs, MountBorgArchive(r) PROVE Places'
    <2>1. CASE pc' = [pc EXCEPT ![r] = "over"] /\ UNCHANGED <<pt, proc, dirs, temp>>
      BY <2>1, <1>q
    <2>2. CASE /\ ~Dead(Base(r)) /\ pc' = [pc EXCEPT ![r] = "wait"]
               /\ pt' = [pt EXCEPT ![r] = Target(r)] /\ dirs' = dirs \cup {Target(r)}
      <3>1. ASSUME NEW q \in Reqs, q # r, Holds(q) PROVE pt[q] # Target(r)
        <4>1. CASE Target(r) = Sibling(r)
          BY <3>1, <4>1, SiblingOwn
        <4>2. CASE Target(r) = Base(r) /\ Base(r) \notin dirs
          BY <3>1, <4>2
        <4>3. CASE r \in Explicit /\ ~Occupied(Base(r)) /\ Target(r) = Base(r)
          <5>1. CASE pc[q] = "up"
            BY <4>3, <5>1 DEF Occupied, Recorded
          <5>2. CASE pc[q] \in {"wait", "failing"}
            BY <1>1, <4>3, <5>2 DEF MountBorgArchive
          <5>3. QED
            BY <3>1, <5>1, <5>2
        <4>4. QED
          BY <2>2, <4>1, <4>2, <4>3 DEF Target, Exists
      <3>2. Target(r) \in {Base(r), Sibling(r)}
        BY PointsOf
      <3>3. /\ \A q \in Reqs : q # r => pt'[q] = pt[q] /\ pc'[q] = pc[q]
            /\ pt'[r] = Target(r)
        BY <2>2
      <3>4. \A q \in Reqs : pt'[q] \in {Base(q), Sibling(q)}
        BY <3>2, <3>3
      <3>5. \A o, q \in Reqs : Holds(o)' /\ Holds(q)' /\ pt'[o] = pt'[q] => o = q
        <4>1. ASSUME NEW q \in Reqs, q # r, Holds(q)' PROVE pt'[q] # pt'[r]
          BY <3>1, <3>3, <4>1
        <4>2. \A o, q \in Reqs : o # r /\ q # r /\ Holds(o)' /\ Holds(q)' /\ pt'[o] = pt'[q] => o = q
          BY <3>3
        <4>3. QED
          BY <4>1, <4>2
      <3>6. \A q \in Reqs : Holds(q)' => pt'[q] \in dirs'
        BY <2>2, <3>3
      <3>7. QED
        BY <3>4, <3>5, <3>6
    <2>3. QED
      BY <1>1, <2>1, <2>2 DEF MountBorgArchive
  <1>2. ASSUME NEW r \in Reqs, Poll(r) \/ Interrupted(r) PROVE Places'
    <2>1. UNCHANGED <<pt, dirs>> /\ pc[r] = "wait"
      BY <1>2 DEF Poll, Interrupted
    <2>2. \A q \in Reqs : q # r => pc'[q] = pc[q]
      BY <1>2 DEF Poll, Interrupted, Fails
    <2>3. QED
      BY <2>1, <2>2, <1>q
  <1>3. ASSUME NEW r \in Reqs, CleanUp(r) PROVE Places'
    <2>1. /\ UNCHANGED pt /\ pc[r] = "failing" /\ dirs \ {pt[r]} \subseteq dirs'
          /\ pc' = [pc EXCEPT ![r] = "over"]
      BY <1>3 DEF CleanUp, WithoutEmpty
    <2>2. QED
      BY <2>1, <1>q
  <1>4. ASSUME NEW r \in Reqs, NEW k \in Callers,
               SignalTerm(r, k) \/ StopProcess(r, k)
        PROVE  Places'
    BY <1>4, <1>q DEF SignalTerm, StopProcess, request, service
  <1>5. ASSUME NEW r \in Reqs, NEW k \in Callers, FinishUnmount(r, k) PROVE Places'
    <2>1. pc[r] = "up" /\ UNCHANGED pt
      BY <1>5 DEF FinishUnmount, Calls
    <2>2. CASE UNCHANGED <<pc, dirs>>
      BY <2>1, <2>2, <1>q
    <2>3. CASE dirs \ {pt[r]} \subseteq dirs' /\ pc' = [pc EXCEPT ![r] = "over"]
      BY <2>1, <2>3, <1>q
    <2>4. QED
      BY <1>5, <2>2, <2>3 DEF FinishUnmount
  <1>6. ASSUME NEW r \in Reqs, ProcMounts(r) \/ ProcEnds(r) PROVE Places'
    BY <1>6, <1>q DEF ProcMounts, ProcEnds, request, service
  <1>7. ASSUME Restart PROVE Places'
    <2>1. \A r \in Reqs : Holds(r)' => r \in saved /\ table'[pt[r]] # << >>
      BY <1>7 DEF Restart, Reloaded
    <2>2. {p \in Points : table'[p] # << >>} \subseteq dirs'
      BY <1>7 DEF Restart, OrphansRemoved
    <2>3. QED
      BY <1>7, <1>q, <2>1, <2>2 DEF Restart, Recorded
  <1>8. CASE UNCHANGED vars
    BY <1>8, <1>q DEF vars
  <1>9. QED
    BY <1>1, <1>2, <1>3, <1>4, <1>5, <1>6, <1>7, <1>8 DEF Next

\* A process that runs outside of what outlived the server is that of a request
\* that holds its point, so it is alone there.
LEMMA AloneAtPoint ==
    ASSUME Recorded, Places, NothingLeft, NEW r \in Reqs, NEW q \in Reqs,
           Running(r), Running(q) \/ Holds(q), pt[r] = pt[q], ~Outlived(pt[r])
    PROVE  r = q
  BY DEF Recorded, Places, NothingLeft, Holds

\* A mount is detached by its own process, when that ends, or by its own
\* unmount, when its process has been stopped.
LEMMA OwnMountStep ==
    ASSUME IInv, [Next]_vars, OneCall
    PROVE  OwnMount'
  <1> USE DEF IInv, TypeOK
  <1>o. ASSUME NEW r \in Reqs, pc[r] # "new", ~Outlived(pt[r])'
        PROVE  pt'[r] = pt[r] /\ ~Outlived(pt[r])
    <2>1. pt'[r] = pt[r] /\ cut \subseteq cut' /\ \A q \in cut : pt'[q] = pt[q]
      BY <1>o, Outliving DEF Fresh
    <2>2. QED
      BY <1>o, <2>1 DEF Outlived
  <1>r. \A r \in Reqs : Running(r) => pc[r] # "new"
    BY DEF Fresh, Running
  <1>q. ASSUME \A r \in Reqs : proc'[r] = "serving" =>
                    proc[r] = "serving" /\ (~Outlived(pt[r]) => table'[pt[r]] = table[pt[r]])
        PROVE  OwnMount'
    <2>1. ASSUME NEW r \in Reqs, proc'[r] = "serving", ~Outlived(pt[r])'
          PROVE  table'[pt'[r]] # << >> /\ Last(table'[pt'[r]]) = r
      <3>1. proc[r] = "serving" /\ pc[r] # "new"
        BY <1>q, <1>r, <2>1 DEF Running
      <3>2. pt'[r] = pt[r] /\ ~Outlived(pt[r])
        BY <1>o, <2>1, <3>1
      <3>3. QED
        BY <1>q, <2>1, <3>1, <3>2 DEF OwnMount, Mounted
    <2>2. QED
      BY <2>1 DEF OwnMount, Mounted
  <1>1. ASSUME NEW r \in Reqs, MountBorgArchive(r) PROVE OwnMount'
    BY <1>1, <1>q DEF MountBorgArchive
  <1>2. ASSUME NEW r \in Reqs, Poll(r) \/ Interrupted(r) \/ CleanUp(r) PROVE OwnMount'
    BY <1>2, <1>q DEF Poll, Interrupted, CleanUp, Fails, Killed
  <1>3. ASSUME NEW r \in Reqs, NEW k \in Callers,
               SignalTerm(r, k) \/ StopProcess(r, k)
        PROVE  OwnMount'
    BY <1>3, <1>q DEF SignalTerm, StopProcess, request, service
  <1>4. ASSUME NEW r \in Reqs, NEW k \in Callers, FinishUnmount(r, k) PROVE OwnMount'
    <2>1. pc[r] = "up" /\ ~Running(r) /\ UNCHANGED <<pt, proc>>
      BY <1>4 DEF FinishUnmount, Calls
    <2>2. \A p \in Points : p # pt[r] => table'[p] = table[p]
      BY <1>4, DetachedType DEF FinishUnmount, UnmountBorg
    <2>3. ASSUME NEW q \in Reqs, proc[q] = "serving", ~Outlived(pt[q]) PROVE pt[q] # pt[r]
      BY <2>1, <2>3, AloneAtPoint DEF Running, Holds
    <2>4. QED
      BY <2>1, <2>2, <2>3, <1>q
  <1>5. ASSUME NEW r \in Reqs, ProcMounts(r) PROVE OwnMount'
    <2>1. UNCHANGED <<pt, cut>> /\ Running(r)
      BY <1>5 DEF ProcMounts, Running, request, service
    <2>2. ASSUME NEW q \in Reqs, proc'[q] = "serving", ~Outlived(pt[q])
          PROVE  table'[pt[q]] # << >> /\ Last(table'[pt[q]]) = q
      <3>1. CASE q = r
        <4>1. table'[pt[r]] = Append(table[pt[r]], r)
          BY <1>5 DEF ProcMounts
        <4>2. QED
          <5>1. table[pt[r]] \in Seq(Reqs)
            OBVIOUS
          <5>2. Append(table[pt[r]], r) # << >> /\ Last(Append(table[pt[r]], r)) = r
            BY <5>1, Stack, Zenon
          <5>3. QED
            BY <3>1, <4>1, <5>2, Zenon
      <3>2. CASE q # r
        <4>1. proc[q] = "serving"
          BY <1>5, <2>2, <3>2 DEF ProcMounts
        <4>2. pt[q] # pt[r]
          BY <2>1, <2>2, <3>2, <4>1, AloneAtPoint DEF Running
        <4>3. table'[pt[q]] = table[pt[q]]
          BY <1>5, <4>2 DEF ProcMounts
        <4>4. QED
          BY <2>2, <4>1, <4>3 DEF OwnMount, Mounted
      <3>3. QED
        BY <3>1, <3>2
    <2>3. QED
      BY <2>1, <2>2 DEF OwnMount, Mounted, Outlived
  <1>6. ASSUME NEW r \in Reqs, ProcEnds(r) PROVE OwnMount'
    <2>1. UNCHANGED pt /\ Running(r) /\ proc' = [proc EXCEPT ![r] = "dead"]
      BY <1>6 DEF ProcEnds, request
    <2>2. \A p \in Points : p # pt[r] => table'[p] = table[p]
      BY <1>6, DetachedType DEF ProcEnds
    <2>3. ASSUME NEW q \in Reqs, proc'[q] = "serving", ~Outlived(pt[q])
          PROVE  proc[q] = "serving" /\ pt[q] # pt[r]
      BY <2>1, <2>3, AloneAtPoint DEF Running
    <2>4. QED
      BY <2>1, <2>2, <2>3, <1>q
  <1>7. ASSUME Restart PROVE OwnMount'
    <2>1. CASE UNCHANGED <<proc, table>>
      BY <2>1, <1>q
    <2>2. CASE proc' = [r \in Reqs |-> IF Running(r) THEN "dead" ELSE proc[r]]
      BY <2>2, <1>q DEF Running
    <2>3. QED
      BY <1>7, <2>1, <2>2 DEF Restart
  <1>8. CASE UNCHANGED vars
    BY <1>8, <1>q DEF vars
  <1>9. QED
    BY <1>1, <1>2, <1>3, <1>4, <1>5, <1>6, <1>7, <1>8 DEF Next

\* A process and a temp root stay with their request until the request is
\* over or tracked; a restart drops a record only when nothing is mounted at
\* its point, so the process of the record does not serve.
LEMMA NothingLeftStep ==
    ASSUME IInv, [Next]_vars, OneCall
    PROVE  NothingLeft'
  <1> USE DEF IInv, TypeOK
  <1>o. ASSUME NEW r \in Reqs, pc[r] # "new", Outlived(pt[r])
        PROVE  Outlived(pt[r])'
    <2>1. pt'[r] = pt[r] /\ cut \subseteq cut' /\ \A q \in cut : pt'[q] = pt[q]
      BY <1>o, Outliving DEF Fresh
    <2>2. QED
      BY <1>o, <2>1 DEF Outlived
  <1>r. \A r \in Reqs : Running(r) => pc[r] # "new"
    BY DEF Fresh, Running
  <1>n. ASSUME \A r \in Reqs :
                  /\ Running(r)' => \/ pc'[r] = "wait"
                                    \/ r \in active'
                                    \/ pc[r] # "new" /\ Outlived(pt[r])
                  /\ r \in temp' => pc'[r] \in {"wait", "failing"} \/ r \in active'
        PROVE  NothingLeft'
    BY <1>n, <1>o DEF NothingLeft
  <1>q. ASSUME \A r \in Reqs : /\ Running(r)' => Running(r)
                               /\ r \in temp' => r \in temp,
               UNCHANGED <<pc, active>>
        PROVE  NothingLeft'
    BY <1>q, <1>n, <1>r DEF NothingLeft
  <1>1. ASSUME NEW r \in Reqs, MountBorgArchive(r) PROVE NothingLeft'
    <2>1. /\ \A q \in Reqs : q # r => /\ pc'[q] = pc[q] /\ proc'[q] = proc[q]
                                      /\ q \in temp' => q \in temp
          /\ UNCHANGED active
      BY <1>1 DEF MountBorgArchive
    <2>2. /\ Running(r)' => pc'[r] = "wait"
          /\ r \in temp' => pc'[r] = "wait"
      BY <1>1 DEF MountBorgArchive, Running, Fresh
    <2>3. ASSUME NEW q \in Reqs, q # r
          PROVE  /\ Running(q)' => \/ pc'[q] = "wait"
                                   \/ q \in active'
                                   \/ pc[q] # "new" /\ Outlived(pt[q])
                 /\ q \in temp' => pc'[q] \in {"wait", "failing"} \/ q \in active'
      BY <2>1, <2>3, <1>r DEF NothingLeft, Running
    <2>4. QED
      BY <2>2, <2>3, <1>n
  <1>2. ASSUME NEW r \in Reqs, Poll(r) \/ Interrupted(r) \/ CleanUp(r) PROVE NothingLeft'
    <2>1. /\ \A q \in Reqs : q # r => /\ pc'[q] = pc[q] /\ proc'[q] = proc[q]
                                      /\ q \in temp' => q \in temp
                                      /\ q \in active => q \in active'
      BY <1>2 DEF Poll, Interrupted, CleanUp, Fails, Killed, Tracked, CleanupTempFiles
    <2>2. /\ Running(r)' => \/ pc'[r] = "wait"
                            \/ r \in active'
                            \/ pc[r] # "new" /\ Outlived(pt[r])
          /\ r \in temp' => pc'[r] \in {"wait", "failing"} \/ r \in active'
      <3>1. CASE CleanUp(r)
        BY <3>1, <1>r DEF CleanUp, CleanupTempFiles, NothingLeft, Running, Recorded
      <3>2. CASE Interrupted(r)
        BY <3>2 DEF Interrupted, Fails, Killed, Running
      <3>3. CASE Poll(r)
        BY <3>3 DEF Poll, Fails, Killed, Running, Tracked
      <3>4. QED
        BY <1>2, <3>1, <3>2, <3>3
    <2>3. ASSUME NEW q \in Reqs, q # r
          PROVE  /\ Running(q)' => \/ pc'[q] = "wait"
                                   \/ q \in active'
                                   \/ pc[q] # "new" /\ Outlived(pt[q])
                 /\ q \in temp' => pc'[q] \in {"wait", "failing"} \/ q \in active'
      BY <2>1, <2>3, <1>r DEF NothingLeft, Running
    <2>4. QED
      BY <2>2, <2>3, <1>n
  <1>3. ASSUME NEW r \in Reqs, NEW k \in Callers,
               SignalTerm(r, k) \/ StopProcess(r, k)
        PROVE  NothingLeft'
    BY <1>3, <1>q DEF SignalTerm, StopProcess, Running, request, service
  <1>4. ASSUME NEW r \in Reqs, NEW k \in Callers, FinishUnmount(r, k) PROVE NothingLeft'
    <2>1. /\ ~Running(r) /\ UNCHANGED proc /\ temp' = temp \ {r}
          /\ \A q \in Reqs : q # r => pc'[q] = pc[q] /\ (q \in active' <=> q \in active)
      BY <1>4 DEF FinishUnmount, Calls, CleanupTempFiles
    <2>2. QED
      BY <2>1, <1>n, <1>r DEF NothingLeft, Running
  <1>5. ASSUME NEW r \in Reqs, ProcMounts(r) \/ ProcEnds(r) PROVE NothingLeft'
    BY <1>5, <1>q DEF ProcMounts, ProcEnds, Running, request, service
  <1>6. ASSUME Restart PROVE NothingLeft'
    <2>1. temp' \subseteq active' /\ UNCHANGED pt
      BY <1>6 DEF Restart
    <2>2. CASE UNCHANGED <<proc, table>>
      <3>1. ASSUME NEW r \in Reqs, Running(r)'
            PROVE  r \in active' \/ Outlived(pt[r])'
        <4>1. Running(r) /\ pc[r] # "new"
          BY <2>2, <3>1, <1>r DEF Running
        <4>2. CASE pc[r] = "wait" \/ proc[r] = "starting"
          BY <1>6, <3>1, <4>2 DEF Restart, Outlived, Running
        <4>3. CASE Outlived(pt[r])
          BY <1>o, <4>1, <4>3
        <4>4. CASE r \in active /\ proc[r] = "serving" /\ ~Outlived(pt[r])
          BY <1>6, <2>2, <4>4 DEF Restart, Reloaded, Recorded, OwnMount, Mounted
        <4>5. QED
          BY <4>1, <4>2, <4>3, <4>4 DEF NothingLeft, Running
      <3>2. QED
        BY <2>1, <3>1 DEF NothingLeft
    <2>3. CASE proc' = [r \in Reqs |-> IF Running(r) THEN "dead" ELSE proc[r]]
      BY <2>1, <2>3 DEF NothingLeft, Running
    <2>4. QED
      BY <1>6, <2>2, <2>3 DEF Restart
  <1>7. CASE UNCHANGED vars
    BY <1>7, <1>q DEF vars, Running
  <1>8. QED
    BY <1>1, <1>2, <1>3, <1>4, <1>5, <1>6, <1>7 DEF Next

------------------------------------------------------------------------------
(* The theorems. *)

\* Every step keeps the inductive invariant, when no two requests name one
\* point together and no two unmounts one mount.
LEMMA IInvStep ==
    ASSUME ~Overlap, OneCall
    PROVE  IInv /\ [Next]_vars => IInv'
  BY TypeStep, FreshStep, RecordedStep, CallsStep, PlacesStep, OwnMountStep, NothingLeftStep
     DEF IInv

\* A process that serves keeps its own mount on top, over any mixture of
\* mounts, failures, unmounts, process deaths and restarts
\* (mount_borg_archive, unmount, __init__).
THEOREM OwnMountAlways ==
    ASSUME ~Overlap, OneCall
    PROVE  Spec => []OwnMount
  <1>1. IInv => OwnMount
    BY DEF IInv
  <1>2. QED
    BY InitIInv, IInvStep, <1>1, PTL DEF Spec

\* No borg process and no temp root is left that no request and no record
\* accounts for (the handler of mount_borg_archive, unmount,
\* _cleanup_stale_mounts and _cleanup_orphaned_temp_dirs).
THEOREM NothingLeftAlways ==
    ASSUME ~Overlap, OneCall
    PROVE  Spec => []NothingLeft
  <1>1. IInv => NothingLeft
    BY DEF IInv
  <1>2. QED
    BY InitIInv, IInvStep, <1>1, PTL DEF Spec
=============================================================================
