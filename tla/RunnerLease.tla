---------------------------- MODULE RunnerLease ----------------------------
(***************************************************************************)
(* The lease that decides which server process runs the operations runner, *)
(* while a replacement process overlaps the one it replaces                *)
(* (app/services/operations/runner.py, app/main.py).                       *)
(*                                                                         *)
(* A process runs `start()`: an iteration renews the lease, recovers once, *)
(* and ticks; a tick claims queued rows and starts a task for each.  Its   *)
(* shutdown stops the loop, drains the tasks and exits.  Time is counted   *)
(* in units of which the lease lasts Lease; timers count from the last     *)
(* renewal and from the stop, so a behaviour has no last moment.           *)
(***************************************************************************)
EXTENDS Integers, FiniteSets

CONSTANTS
    Procs,      \* server processes, each with a lease holder id of its own
    Ops,        \* operations rows
    IndexOps,   \* the rows of an index kind, which recovery queues again
    Lease,      \* LEASE_SECONDS
    Gap,        \* the longest a loop goes between two renewals
    DrainAfter, \* the timeout of the drain
    KillAfter,  \* the graceful window of a stopped process
    None

\* The comment at LEASE_SECONDS: the lease outlasts the tick before `stop()`
\* and the drain after it.
ASSUME LeaseAssumption ==
    /\ IndexOps \subseteq Ops
    /\ {Lease, Gap, DrainAfter, KillAfter} \subseteq Nat
    /\ Gap + KillAfter <= Lease
    /\ None \notin Procs

VARIABLES
    holder,     \* OperationsRunnerLease.holder
    left,       \* what is left until expires_at < now
    phase,      \* off, wait (between iterations), tick, exited, gone
    held,       \* _holds_lease
    recovered,  \* the loop's local flag
    pend,       \* the row a tick has claimed and has no task for yet
    tasks,      \* running_tasks
    owed,       \* unrecorded_outcomes
    shut,       \* up, drain, drained
    snap,       \* the tasks drain() gathers
    timedout,   \* _drain_timed_out
    age,        \* time since the last renewal
    sage,       \* time since stop()
    row,        \* Operation.status
    child       \* rows whose recorded process is alive

vars == <<holder, left, phase, held, recovered, pend, tasks, owed, shut, snap, timedout, age, sage, row, child>>
lease == <<holder, left>>
loop == <<phase, held, recovered, pend>>
work == <<tasks, owed>>
shutdown == <<shut, snap, timedout, sage>>
rows == <<row, child>>

Alive(p) == phase[p] \notin {"off", "gone"}

TypeOK ==
    /\ holder \in Procs \cup {None}
    /\ left \in 0 .. Lease + 1
    /\ phase \in [Procs -> {"off", "wait", "tick", "exited", "gone"}]
    /\ held \in [Procs -> BOOLEAN]
    /\ recovered \in [Procs -> BOOLEAN]
    /\ pend \in [Procs -> SUBSET Ops]
    /\ tasks \in [Procs -> SUBSET Ops]
    /\ owed \in [Procs -> SUBSET Ops]
    /\ shut \in [Procs -> {"up", "drain", "drained"}]
    /\ snap \in [Procs -> SUBSET Ops]
    /\ timedout \in [Procs -> BOOLEAN]
    /\ age \in [Procs -> 0 .. Gap]
    /\ sage \in [Procs -> 0 .. KillAfter]
    /\ row \in [Ops -> {"queued", "running", "final"}]
    /\ child \in SUBSET Ops

Init ==
    /\ holder = None /\ left = 0
    /\ phase = [p \in Procs |-> "off"]
    /\ held = [p \in Procs |-> FALSE]
    /\ recovered = [p \in Procs |-> FALSE]
    /\ pend = [p \in Procs |-> {}]
    /\ tasks = [p \in Procs |-> {}]
    /\ owed = [p \in Procs |-> {}]
    /\ shut = [p \in Procs |-> "up"]
    /\ snap = [p \in Procs |-> {}]
    /\ timedout = [p \in Procs |-> FALSE]
    /\ age = [p \in Procs |-> 0]
    /\ sage = [p \in Procs |-> 0]
    /\ row = [o \in Ops |-> "queued"]
    /\ child = {}

----------------------------------------------------------------------------
(* The loop. *)

Start(p) ==
    /\ phase[p] = "off"
    /\ phase' = [phase EXCEPT ![p] = "wait"]
    /\ UNCHANGED <<lease, held, recovered, pend, work, shutdown, age, rows>>

\* Mutants of CanAcquire: no look at the expiry, and nothing looked at.
CanAcquireNoExpiry(p) == holder \in {p, None}
CanAcquireAlways(p) == TRUE

\* acquire_lease: the row is this runner's, nobody's, or expired.
CanAcquire(p) == holder \in {p, None} \/ left = 0

\* recover_on_startup over the rows that read running.
Recovered(o) ==
    IF row[o] # "running" THEN row[o]
    ELSE IF o \in IndexOps THEN "queued"
    ELSE IF o \in child THEN "running" ELSE "final"

\* Mutant of Expiry: the new term is added to what is left of the old one.
ExpiryStacked == left + Lease + 1

Expiry == Lease + 1

\* An iteration that gets the lease: recovery, once, and the tick's reads
\* follow without an await.
Renew(p) ==
    /\ phase[p] = "wait" /\ shut[p] = "up"
    /\ CanAcquire(p)
    /\ holder' = p /\ left' = Expiry
    /\ age' = [age EXCEPT ![p] = 0]
    /\ held' = [held EXCEPT ![p] = TRUE]
    /\ recovered' = [recovered EXCEPT ![p] = TRUE]
    /\ row' = IF recovered[p] THEN row ELSE [o \in Ops |-> Recovered(o)]
    /\ phase' = [phase EXCEPT ![p] = "tick"]
    /\ UNCHANGED <<pend, work, shutdown, child>>

\* An iteration that finds the lease with another runner: no tick.
Refused(p) ==
    /\ phase[p] = "wait" /\ shut[p] = "up"
    /\ ~CanAcquire(p)
    /\ held' = [held EXCEPT ![p] = FALSE]
    /\ UNCHANGED <<lease, phase, recovered, pend, work, shutdown, age, rows>>

\* The conditional claim and its commit; the broadcast after it awaits.
Claim(p, o) ==
    /\ phase[p] = "tick" /\ pend[p] = {} /\ shut[p] = "up"
    /\ row[o] = "queued" /\ o \notin tasks[p]
    /\ row' = [row EXCEPT ![o] = "running"]
    /\ pend' = [pend EXCEPT ![p] = {o}]
    /\ UNCHANGED <<lease, phase, held, recovered, work, shutdown, age, child>>

StartTask(p) ==
    /\ phase[p] = "tick" /\ pend[p] # {}
    /\ tasks' = [tasks EXCEPT ![p] = @ \cup pend[p]]
    /\ pend' = [pend EXCEPT ![p] = {}]
    /\ UNCHANGED <<lease, phase, held, recovered, owed, shutdown, age, rows>>

\* record_unrecorded_outcomes: an outcome of a task of this runner goes to
\* its row, unless a new task has it or another process settled it.
Record(p, o) ==
    /\ phase[p] = "tick" /\ pend[p] = {} /\ o \in owed[p]
    /\ owed' = [owed EXCEPT ![p] = @ \ {o}]
    /\ row' = IF o \in tasks[p] \/ row[o] # "running" THEN row ELSE [row EXCEPT ![o] = "final"]
    /\ UNCHANGED <<lease, loop, tasks, shutdown, age, child>>

\* requeue_abandoned_index_rows: a running index row without a task here, up
\* to its last requeue.
Sweep(p, o) ==
    /\ phase[p] = "tick" /\ pend[p] = {}
    /\ row[o] = "running" /\ o \in IndexOps \ tasks[p]
    /\ row' \in {[row EXCEPT ![o] = "queued"], [row EXCEPT ![o] = "final"]}
    /\ UNCHANGED <<lease, loop, work, shutdown, age, child>>

\* The tick returns, or raises after a claim: the loop goes on.
TickEnds(p) ==
    /\ phase[p] = "tick"
    /\ phase' = [phase EXCEPT ![p] = "wait"]
    /\ pend' = [pend EXCEPT ![p] = {}]
    /\ UNCHANGED <<lease, held, recovered, work, shutdown, age, rows>>

----------------------------------------------------------------------------
(* The tasks of this process. *)

\* A task of an exclusive kind records the process it runs.
Spawn(p, o) ==
    /\ Alive(p) /\ o \in tasks[p] \ (IndexOps \cup child)
    /\ child' = child \cup {o}
    /\ UNCHANGED <<lease, loop, work, shutdown, age, row>>

\* run_operation ends with its verdict, puts a refused row on the queue, or
\* cannot write: then an index row is left to the sweep and another is owed.
\* A cancelled task of a drain that timed out may leave its process behind.
\* The verdict's commit and the end of the task, with a broadcast awaited between
\* them, are one step: a final row is nobody's to recover or to sweep.
TaskEnds(p, o) ==
    /\ Alive(p) /\ o \in tasks[p]
    /\ tasks' = [tasks EXCEPT ![p] = @ \ {o}]
    /\ \/ /\ row' \in {[row EXCEPT ![o] = "final"], [row EXCEPT ![o] = "queued"]}
          /\ UNCHANGED owed
       \/ /\ owed' = [owed EXCEPT ![p] = @ \cup ({o} \ IndexOps)]
          /\ UNCHANGED row
    /\ child' \in IF timedout[p] THEN {child, child \ {o}} ELSE {child \ {o}}
    /\ UNCHANGED <<lease, loop, shutdown, age>>

ChildEnds(o) ==
    /\ o \in child /\ \A p \in Procs : o \notin tasks[p]
    /\ child' = child \ {o}
    /\ UNCHANGED <<lease, loop, work, shutdown, age, row>>

----------------------------------------------------------------------------
(* Shutdown. *)

\* Mutants of Idle: only the tasks, or only the loop, looked at.
IdleTasksOnly(exited, ts, late) == ts = {} /\ ~late
IdleLoopOnly(exited, ts, late) == exited /\ ~late

\* _release_lease_if_idle, with the loop's and the tasks' state of the step.
Idle(exited, ts, late) == exited /\ ts = {} /\ ~late

ReleaseIf(p, idle) ==
    /\ holder' = IF idle /\ holder = p THEN None ELSE holder
    /\ left' = IF idle /\ holder = p THEN 0 ELSE left
    /\ held' = [held EXCEPT ![p] = @ /\ ~idle]

\* shutdown_event: stop(), wake() and drain(), whose first look decides
\* whether it waits at all.
Stop(p) ==
    /\ Alive(p) /\ shut[p] = "up"
    /\ shut' = [shut EXCEPT ![p] = IF tasks[p] = {} THEN "drained" ELSE "drain"]
    /\ snap' = [snap EXCEPT ![p] = tasks[p]]
    /\ ReleaseIf(p, Idle(phase[p] = "exited", tasks[p], FALSE))
    /\ UNCHANGED <<phase, recovered, pend, work, timedout, age, sage, rows>>

DrainEnds(p) ==
    /\ Alive(p) /\ shut[p] = "drain" /\ snap[p] \cap tasks[p] = {}
    /\ shut' = [shut EXCEPT ![p] = "drained"]
    /\ ReleaseIf(p, Idle(phase[p] = "exited", tasks[p], timedout[p]))
    /\ UNCHANGED <<phase, recovered, pend, work, snap, timedout, age, sage, rows>>

DrainTimesOut(p) ==
    /\ Alive(p) /\ shut[p] = "drain" /\ snap[p] \cap tasks[p] # {}
    /\ sage[p] >= DrainAfter
    /\ shut' = [shut EXCEPT ![p] = "drained"]
    /\ timedout' = [timedout EXCEPT ![p] = TRUE]
    /\ UNCHANGED <<lease, loop, work, snap, sage, age, rows>>

\* The loop sees the stop, or shutdown cancels it at an await after the
\* drain, a claimed row without a task included.
LoopExits(p) ==
    /\ \/ phase[p] = "wait" /\ shut[p] # "up"
       \/ phase[p] = "tick" /\ shut[p] = "drained"
    /\ phase' = [phase EXCEPT ![p] = "exited"]
    /\ pend' = [pend EXCEPT ![p] = {}]
    /\ ReleaseIf(p, Idle(TRUE, tasks[p], timedout[p]))
    /\ UNCHANGED <<recovered, work, shutdown, age, rows>>

\* The process ends: after its shutdown, killed in it, or by a crash. What
\* its tasks started may outlive it.
Gone(p) ==
    /\ Alive(p)
    /\ phase' = [phase EXCEPT ![p] = "gone"]
    /\ pend' = [pend EXCEPT ![p] = {}]
    /\ tasks' = [tasks EXCEPT ![p] = {}]
    /\ owed' = [owed EXCEPT ![p] = {}]
    /\ age' = [age EXCEPT ![p] = 0]
    /\ child' \in {child, child \ tasks[p]}
    /\ UNCHANGED <<lease, held, recovered, shutdown, row>>

----------------------------------------------------------------------------
(* Time. *)

\* A holder's loop renews within Gap of its last renewal, and a stopped
\* process is gone within its graceful window.
InTime(p) ==
    /\ Alive(p) /\ shut[p] = "up" /\ held[p] => age[p] < Gap
    /\ Alive(p) /\ shut[p] # "up" => sage[p] < KillAfter

Advance ==
    /\ \A p \in Procs : InTime(p)
    /\ left' = IF left = 0 THEN 0 ELSE left - 1
    /\ age' = [p \in Procs |-> IF Alive(p) /\ shut[p] = "up" /\ held[p] THEN age[p] + 1 ELSE age[p]]
    /\ sage' = [p \in Procs |-> IF Alive(p) /\ shut[p] # "up" THEN sage[p] + 1 ELSE sage[p]]
    /\ UNCHANGED <<holder, loop, work, shut, snap, timedout, rows>>

\* Time passes while a loop stands still: a synchronous call in the loop's
\* thread, or renewals that fail on a locked database.
Stall ==
    /\ left' = IF left = 0 THEN 0 ELSE left - 1
    /\ UNCHANGED <<holder, loop, work, shutdown, age, rows>>

ProcStep(p) ==
    \/ Start(p) \/ Renew(p) \/ Refused(p) \/ StartTask(p) \/ TickEnds(p)
    \/ Stop(p) \/ DrainEnds(p) \/ DrainTimesOut(p) \/ LoopExits(p) \/ Gone(p)
    \/ \E o \in Ops : Claim(p, o) \/ Record(p, o) \/ Sweep(p, o) \/ Spawn(p, o) \/ TaskEnds(p, o)

Next ==
    \/ \E p \in Procs : ProcStep(p)
    \/ \E o \in Ops : ChildEnds(o)
    \/ Advance

Spec == Init /\ [][Next]_vars

\* The same processes on a host where a loop may stand still for longer.
StallSpec == Init /\ [][Next \/ Stall]_vars

\* Time passes; a loop whose renewal is due takes its next step, and a
\* stopped process is killed.
Fairness ==
    /\ WF_vars(Advance)
    /\ \A p \in Procs :
        /\ WF_vars(Renew(p)) /\ WF_vars(TickEnds(p))
        /\ WF_vars(shut[p] # "up" /\ Gone(p))

FairSpec == Spec /\ Fairness

----------------------------------------------------------------------------
(* Properties. *)

\* A process that recovers, sweeps, claims or runs.
Working(p) == Alive(p) /\ (phase[p] = "tick" \/ tasks[p] # {})

\* At most one process works on the rows, over stops, drains that time out,
\* crashes and replacements that start early: the lease is never free, taken
\* over or handed on under work (runner.py acquire_lease,
\* _release_lease_if_idle).
OneRunner == \A p, q \in Procs : Working(p) /\ Working(q) => p = q

\* Recovery and the claims of one process never take a row another process
\* still has a task for: a task's row reads running until the task ends.
TasksKeepRows == \A p \in Procs : \A o \in tasks[p] : row[o] = "running"

\* No two processes run the same operation (database/models.py
\* OperationsRunnerLease).
NeverShared == \A p, q \in Procs : p # q => tasks[p] \cap tasks[q] = {}

\* A lease left behind by a crash, a kill or a timed-out drain does not stay
\* in the way: the only process that is up gets to recover and tick.
LeaseReturns ==
    \A p \in Procs :
        phase[p] = "wait" /\ shut[p] = "up"
        ~> (recovered[p] \/ shut[p] # "up" \/ ~Alive(p) \/ \E q \in Procs \ {p} : Alive(q))

=============================================================================
