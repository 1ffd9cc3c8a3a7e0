----------------------------- MODULE BorgMounts -----------------------------
(***************************************************************************)
(* Archives mounted for browsing (app/services/mount_service.py): a request *)
(* picks a mount point, starts a foreground `borg mount', polls the mount   *)
(* table until the mount shows and records it in memory and in a state      *)
(* file; an unmount stops the process, detaches the point and forgets it; a *)
(* start of the server reads the file back and clears what is left.  Next   *)
(* to them run the borg processes and the kernel's mount table.             *)
(***************************************************************************)
EXTENDS Naturals, SequencesExt

CONSTANTS
    Reqs,         \* the mount requests, numbered
    Name,         \* the name of a request's mount point under the mount base
    Explicit,     \* the requests whose caller names it, the others take the archive's name
    Callers,      \* unmount calls that one mount may meet at the same time
    Overlap,      \* a caller may name a point where another request is still mounting
    MaxPolls,     \* looks at the mount table before a request times out
    MaxRestarts

ASSUME ReqsAssumption == Reqs \subseteq Nat \ {0} /\ Explicit \subseteq Reqs
ASSUME BoundsAssumption == MaxPolls \in Nat \ {0} /\ MaxRestarts \in Nat /\ Overlap \in BOOLEAN

VARIABLES
    pc,           \* the request: new, wait (polls), failing, up (answered), over
    pt,           \* its mount point
    polls,        \* its looks left
    proc,         \* its borg process: none, starting, serving, dead
    table,        \* the mount table: per point the requests mounted there, the visible one last
    dirs,         \* the directories under the mount base
    temp,         \* the requests whose temp root exists
    active,       \* active_mounts
    saved,        \* the state file
    un,           \* the unmount calls of a request: idle, term (the second after SIGTERM), umount
    cut,          \* requests whose process outlived the server before it could be recorded
    restarts

vars == <<pc, pt, polls, proc, table, dirs, temp, active, saved, un, cut, restarts>>
request == <<pc, pt, polls>>
service == <<temp, active, saved, cut, restarts>>

\* A point is the name itself (0) or the sibling a request makes for itself.
Base(r) == <<Name[r], 0>>
Sibling(r) == <<Name[r], r>>
Points == {Base(r) : r \in Reqs} \cup {Sibling(r) : r \in Reqs}

TypeOK ==
    /\ pc \in [Reqs -> {"new", "wait", "failing", "up", "over"}]
    /\ pt \in [Reqs -> Points] /\ polls \in [Reqs -> 0 .. MaxPolls]
    /\ proc \in [Reqs -> {"none", "starting", "serving", "dead"}]
    /\ table \in [Points -> Seq(Reqs)] /\ dirs \subseteq Points
    /\ temp \subseteq Reqs /\ active \subseteq Reqs /\ saved \subseteq Reqs /\ cut \subseteq Reqs
    /\ un \in [Reqs -> [Callers -> {"idle", "term", "umount"}]]
    /\ restarts \in 0 .. MaxRestarts

Init ==
    /\ pc = [r \in Reqs |-> "new"] /\ pt = [r \in Reqs |-> Base(r)]
    /\ polls = [r \in Reqs |-> MaxPolls]
    /\ proc = [r \in Reqs |-> "none"] /\ table = [p \in Points |-> << >>]
    /\ dirs = {} /\ temp = {} /\ active = {} /\ saved = {} /\ cut = {}
    /\ un = [r \in Reqs |-> [k \in Callers |-> "idle"]]
    /\ restarts = 0

------------------------------------------------------------------------------
(* The file system as the service sees it. *)

Running(r) == proc[r] \in {"starting", "serving"}
Mounted(p) == table[p] # << >>
\* The process behind the visible mount is gone: every stat of the point fails.
Dead(p) == Mounted(p) /\ proc[Last(table[p])] # "serving"
Exists(p) == p \in dirs /\ ~Dead(p)
\* An archive is not empty; a directory without a mount is.
Empty(p) == p \in dirs /\ ~Mounted(p)
Detached(p) == [table EXCEPT ![p] = IF @ = << >> THEN @ ELSE Front(@)]

\* Mutant: only the mount table is asked.
OccupiedInTable(p) == Mounted(p)
\* _is_mount_point_occupied: the mount table, and the mounts the service tracks.
Occupied(p) == Mounted(p) \/ \E q \in active : pt[q] = p

\* `mount_point in mount_check.stdout': the path as a part of any listed path, so
\* a sibling's mount shows too.
InMountOutput(p) == \E q \in Points : Mounted(q) /\ (q = p \/ (p[2] = 0 /\ q[1] = p[1]))

\* _cleanup_managed_mount_dir.
WithoutEmpty(p) == IF Empty(p) THEN dirs \ {p} ELSE dirs

CleanupTempFiles(r) == temp' = temp \ {r}

------------------------------------------------------------------------------
(* mount_borg_archive. *)

\* An explicit empty directory is reused; anything else that exists gets a sibling.
Target(r) ==
    IF ~Exists(Base(r)) \/ (r \in Explicit /\ Empty(Base(r)) /\ ~Occupied(Base(r)))
    THEN Base(r) ELSE Sibling(r)

\* Nothing is awaited from the choice of the point to the start of the process.
\* Over a dead mount makedirs raises, before there is anything to clean up.
MountBorgArchive(r) ==
    /\ pc[r] = "new"
    /\ Overlap \/ r \notin Explicit \/ \A q \in Reqs : pc[q] \in {"wait", "failing"} => pt[q] # Base(r)
    /\ \/ /\ Dead(Base(r)) /\ pc' = [pc EXCEPT ![r] = "over"]
          /\ UNCHANGED <<pt, proc, dirs, temp>>
       \/ /\ ~Dead(Base(r)) /\ pc' = [pc EXCEPT ![r] = "wait"]
          /\ pt' = [pt EXCEPT ![r] = Target(r)] /\ dirs' = dirs \cup {Target(r)}
          /\ temp' = temp \cup {r}
          /\ proc' = [proc EXCEPT ![r] = "starting"]
    /\ UNCHANGED <<polls, table, active, saved, un, cut, restarts>>

\* The handler of BaseException kills first, and waits for the process.
Killed(r) == proc' = [proc EXCEPT ![r] = "dead"]

Fails(r) ==
    /\ pc' = [pc EXCEPT ![r] = "failing"] /\ Killed(r)
    /\ UNCHANGED <<polls, active, saved>>

\* _save_state, all of active_mounts.  It truncates the file in place and swallows
\* an error; the model assumes a data directory that takes the write.
SaveState == saved' = active'

\* Mutant: the state file is not written.
TrackedOnlyInMemory(r) == active' = active \cup {r} /\ saved' = saved
Tracked(r) == active' = active \cup {r} /\ SaveState

\* One look, after five seconds: the process has ended, the mount shows, or not yet.
Poll(r) ==
    /\ pc[r] = "wait"
    /\ \/ proc[r] = "dead" /\ Fails(r)
       \/ /\ proc[r] # "dead" /\ InMountOutput(pt[r])
          /\ pc' = [pc EXCEPT ![r] = "up"] /\ Tracked(r) /\ UNCHANGED <<polls, proc>>
       \/ /\ proc[r] # "dead" /\ ~InMountOutput(pt[r]) /\ polls[r] > 1
          /\ polls' = [polls EXCEPT ![r] = @ - 1] /\ UNCHANGED <<pc, proc, active, saved>>
       \/ proc[r] # "dead" /\ ~InMountOutput(pt[r]) /\ polls[r] = 1 /\ Fails(r)
    /\ UNCHANGED <<pt, table, dirs, temp, un, cut, restarts>>

\* The request is cancelled in its sleep, or the `mount' command fails.
Interrupted(r) ==
    /\ pc[r] = "wait" /\ Fails(r)
    /\ UNCHANGED <<pt, table, dirs, temp, un, cut, restarts>>

\* The rest of the handler, when the process has been waited for.  A dead mount
\* at the point is neither removed nor reported.
CleanUp(r) ==
    /\ pc[r] = "failing" /\ pc' = [pc EXCEPT ![r] = "over"]
    /\ CleanupTempFiles(r) /\ dirs' = WithoutEmpty(pt[r])
    /\ UNCHANGED <<pt, polls, proc, table, active, saved, un, cut, restarts>>

------------------------------------------------------------------------------
(* unmount. *)

SignalTerm(r, k) ==
    /\ r \in active /\ un[r][k] = "idle"
    /\ un' = [un EXCEPT ![r][k] = "term"]
    /\ UNCHANGED <<request, proc, table, dirs, service>>

\* _stop_persisted_borg_process, a second later: SIGKILL to what is still there.
StopProcess(r, k) ==
    /\ un[r][k] = "term"
    /\ un' = [un EXCEPT ![r][k] = "umount"]
    /\ proc' = [proc EXCEPT ![r] = IF Running(r) THEN "dead" ELSE @]
    /\ UNCHANGED <<request, table, dirs, service>>

\* _unmount_borg: what is visible at the point is detached, lazily in the end, or
\* every attempt times out.
UnmountBorg(p) == table' \in {table, Detached(p)}

\* What follows without an await.  The directory under a dead mount cannot be
\* looked at, and the error keeps the record; a second call that finds the record
\* gone ends in a KeyError.
FinishUnmount(r, k) ==
    /\ un[r][k] = "umount" /\ un' = [un EXCEPT ![r][k] = "idle"]
    /\ UnmountBorg(pt[r]) /\ CleanupTempFiles(r)
    /\ LET left == table'[pt[r]]
       IN  \/ /\ left # << >> /\ proc[Last(left)] # "serving"
              /\ UNCHANGED <<pc, dirs, active, saved>>
           \/ /\ left # << >> => proc[Last(left)] = "serving"
              /\ dirs' = IF left = << >> THEN dirs \ {pt[r]} ELSE dirs
              /\ active' = active \ {r}
              /\ IF r \in active THEN SaveState ELSE saved' = saved
              /\ pc' = [pc EXCEPT ![r] = "over"]
    /\ UNCHANGED <<pt, polls, proc, cut, restarts>>

------------------------------------------------------------------------------
(* The borg processes and the kernel. *)

\* borg mounts over a directory it can look at.
ProcMounts(r) ==
    /\ proc[r] = "starting" /\ Exists(pt[r])
    /\ proc' = [proc EXCEPT ![r] = "serving"]
    /\ table' = [table EXCEPT ![pt[r]] = Append(@, r)]
    /\ UNCHANGED <<request, dirs, un, service>>

\* It gives up, ends on a signal and detaches its path, or dies and leaves its
\* entry in the table.
ProcEnds(r) ==
    /\ Running(r) /\ proc' = [proc EXCEPT ![r] = "dead"]
    /\ table' \in IF proc[r] = "serving" THEN {table, Detached(pt[r])} ELSE {table}
    /\ UNCHANGED <<request, dirs, un, service>>

------------------------------------------------------------------------------
(* __init__ of a new server, in its old container or in a new one. *)

\* _load_state and _cleanup_stale_mounts: the saved mounts the table still has.
\* The table is /proc/self/mounts, assumed readable; where it is not, the code
\* keeps all records and removes no directory and no temp root.
Reloaded == {r \in saved : table'[pt[r]] # << >>}

\* _cleanup_orphaned_mount_dirs removes the directories without a mount; a dead
\* mount among them raises and ends the loop where it stands.
OrphansRemoved ==
    LET listed == {p \in Points : table'[p] # << >>}
        dead == \E p \in listed : proc'[Last(table'[p])] # "serving"
    IN  IF dead THEN \E left \in SUBSET (dirs \ (listed \cup {pt[r] : r \in saved})) :
                        dirs' = listed \cup left
                ELSE dirs' = listed

Restart ==
    /\ restarts < MaxRestarts /\ restarts' = restarts + 1
    /\ \/ UNCHANGED <<proc, table>>
       \/ /\ table' = [p \in Points |-> << >>]
          /\ proc' = [r \in Reqs |-> IF Running(r) THEN "dead" ELSE proc[r]]
    /\ active' = Reloaded /\ SaveState
    /\ temp' = temp \cap active'
    /\ OrphansRemoved
    /\ cut' = cut \cup {r \in Reqs : proc'[r] \in {"starting", "serving"} /\ (pc[r] = "wait" \/ proc[r] = "starting")}
    /\ pc' = [r \in Reqs |-> IF pc[r] = "new" THEN "new" ELSE IF r \in active' THEN "up" ELSE "over"]
    /\ un' = [r \in Reqs |-> [k \in Callers |-> "idle"]]
    /\ UNCHANGED <<pt, polls>>

Next ==
    \/ \E r \in Reqs :
        \/ MountBorgArchive(r) \/ Poll(r) \/ Interrupted(r) \/ CleanUp(r)
        \/ \E k \in Callers : SignalTerm(r, k) \/ StopProcess(r, k) \/ FinishUnmount(r, k)
        \/ ProcMounts(r) \/ ProcEnds(r)
    \/ Restart

Spec == Init /\ [][Next]_vars

------------------------------------------------------------------------------
(* Properties. *)

\* A process that outlived the server before it was recorded has the point.
Outlived(p) == \E q \in cut : pt[q] = p

\* A borg process that serves is the visible mount of its point: no request
\* mounts over it and no unmount of another detaches it ("never displace an
\* existing mount"), unless a process that outlived the server had the point.
OwnMount ==
    \A r \in Reqs :
        proc[r] = "serving" /\ ~Outlived(pt[r])
            => Mounted(pt[r]) /\ Last(table[pt[r]]) = r

\* A process that runs, and a temp root, belong to a request under way or to a
\* mount the service tracks, over failures, cancels and restarts: nothing is
\* left that no unmount can reach, but at the point of a process that outlived
\* the server (its end may detach a later mount, which the next restart then
\* forgets).
NothingLeft ==
    \A r \in Reqs :
        /\ Running(r) => pc[r] = "wait" \/ r \in active \/ Outlived(pt[r])
        /\ r \in temp => pc[r] \in {"wait", "failing"} \/ r \in active

\* An unmount that returns has taken the mount out of tracking, even when it
\* could not detach it.
Untracked ==
    [][\A r \in Reqs, k \in Callers :
          un[r][k] = "umount" /\ un'[r][k] = "idle" /\ restarts' = restarts => r \notin active']_vars
=============================================================================
