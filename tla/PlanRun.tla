------------------------------- MODULE PlanRun -------------------------------
(***************************************************************************)
(* The runs of one backup plan (backup_plan_execution_service.py): how     *)
(* they start, the task that drives each (hooks, repositories in series or *)
(* in parallel, verdict), the cancel route, and what a restart makes of    *)
(* them (process_utils.cleanup_orphaned_jobs).                             *)
(*                                                                         *)
(* A coroutine runs alone between two awaits, so an action is the code     *)
(* between two awaits.  The run, its repository rows ("children"), their   *)
(* backup operations and the script executions are rows and survive a      *)
(* restart; tasks, workers and the cancel in flight do not.                *)
(***************************************************************************)
EXTENDS Naturals, FiniteSets

CONSTANTS
    Repos,         \* the enabled repositories, numbered in execution_order
    AgentRepos,    \* those backed up by a managed agent
    Stop,          \* those with failure_behavior "stop"
    Parallel,      \* repository_run_mode = "parallel"
    MaxParallel,   \* max_parallel_repositories
    Availability,  \* schedule_mode = "availability"
    PreHooks,      \* the plan or a source has a pre-backup script
    RunOn,         \* run_on of its post-backup script: always, success, warning, failure, or never
    Faults,        \* a read of the run's status may raise
    MaxRuns, MaxRestarts, MaxCancels  \* bounds

ASSUME PlanAssumption ==
    /\ Repos \subseteq Nat /\ IsFiniteSet(Repos) /\ Repos # {}
    /\ AgentRepos \subseteq Repos /\ Stop \subseteq Repos
    /\ {Parallel, Availability, PreHooks, Faults} \subseteq BOOLEAN
    /\ RunOn \in {"always", "success", "warning", "failure", "never"}
    /\ {MaxParallel, MaxRuns, MaxRestarts, MaxCancels} \subseteq Nat /\ MaxParallel > 0

Runs == 1 .. MaxRuns

VARIABLES
    run,       \* BackupPlanRun.status, "none" before the row exists
    child,     \* BackupPlanRunRepository.status, "none" for a repository the run has not
    op,        \* the status of the child's linked backup operation, "none" when it has none
    flagged,   \* the operations the runner was asked to cancel
    marker,    \* the line on the run saying its post-backup scripts are still to run
    pre,       \* its pre-backup scripts: none, ran, skipped (ran and skipped the run)
    posts,     \* how often its post-backup scripts started
    pc,        \* where the run's task is
    worker,    \* where the coroutine of each of its repositories is
    stopped,   \* a repository with "stop" failed
    live,      \* live_run_ids
    cancel,    \* the cancel waiting in request_cancel: run, the children it will close
    probe,     \* the dispatcher waits for the source's availability
    swept,     \* the startup sweep of this process is done
    restarts, cancels  \* how many, for the bounds

rows == <<run, child, op, flagged, marker, pre, posts>>
vars == <<rows, pc, worker, stopped, live, cancel, probe, swept, restarts, cancels>>

RunActive == {"pending", "running"}
RunTerminal == {"completed", "completed_with_warnings", "partial", "failed", "cancelled"}
ChildTerminal == {"completed", "completed_with_warnings", "failed", "cancelled"}
Success == {"completed", "completed_with_warnings"}
Warning == {"completed_with_warnings", "skipped"}
IsFailure(s) == s \notin Success \cup Warning
OpActive == {"queued", "running"}
Working == {"enter", "admit", "wait", "maintain"}
Hooking == {"post", "failpost", "leftpost"}
NoCancel == [run |-> 0, open |-> {}, marks |-> FALSE]

TypeOK ==
    /\ run \in [Runs -> RunActive \cup RunTerminal \cup {"none", "skipped"}]
    /\ child \in [Runs -> [Repos -> {"none", "pending", "running", "skipped"} \cup ChildTerminal]]
    /\ op \in [Runs -> [Repos -> {"none", "skipped"} \cup OpActive \cup ChildTerminal]]
    /\ flagged \subseteq Runs \X Repos
    /\ marker \in [Runs -> {"none", "cancel", "restart"}]
    /\ pre \in [Runs -> {"none", "ran", "skipped"}]
    /\ posts \in [Runs -> 0 .. 2]
    /\ pc \in [Runs -> {"idle", "begin", "agents", "pre", "repos", "except", "left"} \cup Hooking]
    /\ worker \in [Runs -> [Repos -> {"none", "ready", "slot", "done"} \cup Working]]
    /\ stopped \in [Runs -> BOOLEAN]
    /\ live \subseteq Runs
    /\ cancel \in [run : 0 .. MaxRuns, open : SUBSET Repos, marks : BOOLEAN]
    /\ probe \in BOOLEAN /\ swept \in BOOLEAN
    /\ restarts \in 0 .. MaxRestarts /\ cancels \in 0 .. MaxCancels

Init ==
    /\ run = [r \in Runs |-> "none"]
    /\ child = [r \in Runs |-> [c \in Repos |-> "none"]]
    /\ op = [r \in Runs |-> [c \in Repos |-> "none"]]
    /\ flagged = {}
    /\ marker = [r \in Runs |-> "none"]
    /\ pre = [r \in Runs |-> "none"]
    /\ posts = [r \in Runs |-> 0]
    /\ pc = [r \in Runs |-> "idle"]
    /\ worker = [r \in Runs |-> [c \in Repos |-> "none"]]
    /\ stopped = [r \in Runs |-> FALSE]
    /\ live = {} /\ cancel = NoCancel /\ probe = FALSE /\ swept = TRUE
    /\ restarts = 0 /\ cancels = 0

------------------------------------------------------------------------------
(* Reads and writes the operations share. *)

Ready(r) == {c \in Repos : worker[r][c] = "ready"}
Kids(r) == {c \in Repos : child[r][c] # "none"}
Cancelled(r) == run[r] = "cancelled"
Next1(r) == run[r] = "none" /\ \A q \in Runs : q < r => run[q] # "none"

\* One conditional UPDATE: the children of S still in `from' move to s.
UpdateChildren(r, S, from, s) ==
    [child EXCEPT ![r] = [c \in Repos |-> IF c \in S /\ @[c] \in from THEN s ELSE @[c]]]

ActiveRun(r) == run[r] \in RunActive \/ r \in live
\* Mutant: a cancelled run still in its hooks is not seen.
HasActiveRunByStatus == \E r \in Runs : run[r] \in RunActive
HasActiveRun == \E r \in Runs : ActiveRun(r)

\* Mutants: only a failed repository counts against a run; a run completes with its hooks' word.
VerdictOfFailed(ch, kids, warn) ==
    LET st == {ch[c] : c \in kids}
    IN  IF "failed" \in st THEN IF st \cap Success # {} THEN "partial" ELSE "failed"
        ELSE IF warn \/ st \cap Warning # {} THEN "completed_with_warnings" ELSE "completed"
VerdictHookWord(ch, kids, warn) ==
    IF \A c \in kids : ch[c] = "completed" THEN "success" ELSE "failed"
\* The verdict of a run whose children ended as ch: the first line that applies.
Verdict(ch, kids, warn) ==
    LET st == {ch[c] : c \in kids}
        ok == st \cap Success # {}
        failed == \E s \in st : IsFailure(s)
    IN  IF "cancelled" \in st /\ ~ok THEN "cancelled"
        ELSE IF failed THEN IF ok THEN "partial" ELSE "failed"
        ELSE IF warn \/ st \cap Warning # {} THEN "completed_with_warnings" ELSE "completed"
AllSkippedForOfflineAgents(r, ch) ==
    Kids(r) # {} /\ \A c \in Kids(r) : ch[c] = "skipped" /\ op[r][c] = "skipped"

\* A cancelled run keeps its status.
FinalizeRun(r, ch, warn) ==
    run' = [run EXCEPT ![r] = IF Cancelled(r) THEN @
                              ELSE IF AllSkippedForOfflineAgents(r, ch) THEN "skipped"
                              ELSE Verdict(ch, Kids(r), warn)]
MarkRunFailed(r) == run' = [run EXCEPT ![r] = IF Cancelled(r) THEN @ ELSE "failed"]

EndTask(r) == pc' = [pc EXCEPT ![r] = "idle"] /\ live' = live \ {r}
Goto(r, l) == pc' = [pc EXCEPT ![r] = l] /\ UNCHANGED live

HookRuns(result) == RunOn \in {"always", result}
PlanBackupResult(r) ==
    CASE \E c \in Kids(r) : IsFailure(child[r][c]) -> "failure"
      [] \A c \in Kids(r) : child[r][c] = "completed" -> "success"
      [] OTHER -> "warning"

------------------------------------------------------------------------------
(* Starting a run. *)

Insert(r, S) ==
    /\ Next1(r)
    /\ run' = [run EXCEPT ![r] = "pending"]
    /\ child' = [child EXCEPT ![r] = [c \in Repos |-> IF c \in S THEN "pending" ELSE "none"]]
    /\ pc' = [pc EXCEPT ![r] = "begin"]
    /\ live' = live \cup {r}
    /\ UNCHANGED <<op, flagged, marker, pre, posts, worker, stopped, cancel, swept, restarts, cancels>>

\* The run route.
RunPlan(r) == ~HasActiveRun /\ Insert(r, Repos) /\ UNCHANGED probe

\* The retry route: the failed repositories of a failed run.
RetryFailedRun(r) ==
    /\ ~HasActiveRun
    /\ \E s \in Runs :
        LET failed == {c \in Kids(s) : "failed" \in {child[s][c], op[s][c]}}
        IN  run[s] = "failed" /\ failed # {} /\ Insert(r, failed)
    /\ UNCHANGED probe

\* A row of the history for a poll that starts nothing: the source is away, the last
\* success is too recent or the licence lacks the feature ("skipped", with its
\* repositories), or start_run refused the plan ("failed", with none).
RecordRefusal(r, s) ==
    /\ Next1(r)
    /\ run' = [run EXCEPT ![r] = s]
    /\ child' = [child EXCEPT ![r] = [c \in Repos |-> IF s = "skipped" THEN s ELSE "none"]]
    /\ UNCHANGED <<op, flagged, marker, pre, posts, pc, worker, stopped, live, cancel, swept,
                   restarts, cancels>>

\* The scheduler's pass over a due plan.  In cron mode nothing is awaited between the look for an
\* active run and the insert; in availability mode the source is probed in between.
DispatchDue(r) ==
    /\ swept /\ ~probe /\ ~HasActiveRun
    /\ \/ ~Availability /\ Insert(r, Repos) /\ UNCHANGED probe
       \/ \E s \in {"skipped", "failed"} : RecordRefusal(r, s) /\ UNCHANGED probe
       \/ /\ Availability /\ Next1(r) /\ probe' = TRUE
          /\ UNCHANGED <<rows, pc, worker, stopped, live, cancel, swept, restarts, cancels>>

DispatchProbed(r) ==
    /\ probe /\ probe' = FALSE
    /\ Insert(r, Repos) \/ RecordRefusal(r, "skipped")

------------------------------------------------------------------------------
(* execute_run, up to the repositories. *)

\* The children of S are skipped with a skipped operation, if they are still pending.
SkipIfAgentOffline(r, S) ==
    /\ child' = UpdateChildren(r, S, {"pending"}, "skipped")
    /\ op' = [op EXCEPT ![r] = [c \in Repos |->
                IF c \in S /\ child[r][c] = "pending" THEN "skipped" ELSE @[c]]]

PreStarts(r) == pre' = [pre EXCEPT ![r] = IF PreHooks THEN "ran" ELSE "none"]

\* The run is running, and its pre-backup scripts start, each recorded before it starts.  In
\* between the task awaits only the broadcast of a repository skipped because its agent is away,
\* or the hooks a restart left to an earlier backup of a repository.  Nothing can cancel the run
\* before this step: its task is the next thing the loop runs.
PrepareRun(r) ==
    /\ pc[r] = "begin"
    /\ \/ /\ run' = [run EXCEPT ![r] = "running"]
          /\ \E S \in SUBSET (AgentRepos \cap Kids(r)), waits \in BOOLEAN :
                /\ SkipIfAgentOffline(r, S)
                /\ worker' = [worker EXCEPT ![r] = [c \in Repos |->
                                IF c \in Kids(r) THEN IF c \in S THEN "done" ELSE "ready" ELSE "none"]]
                /\ \/ S = {} /\ ~waits /\ PreStarts(r) /\ Goto(r, "pre")
                   \/ (S # {} \/ (waits /\ restarts > 0)) /\ Goto(r, "agents") /\ UNCHANGED pre
       \/ /\ MarkRunFailed(r) /\ EndTask(r)  \* the plan is gone, disabled or has no repository left
          /\ UNCHANGED <<child, op, pre, worker>>
    /\ UNCHANGED <<flagged, marker, posts, stopped, cancel, probe, swept, restarts, cancels>>

\* A run with nothing left to back up ends without its hooks.
StartPreHooks(r) ==
    /\ pc[r] = "agents"
    /\ \/ Ready(r) = {} /\ FinalizeRun(r, child[r], FALSE) /\ EndTask(r) /\ UNCHANGED pre
       \/ Ready(r) # {} /\ PreStarts(r) /\ Goto(r, "pre") /\ UNCHANGED run
    /\ UNCHANGED <<child, op, flagged, marker, posts, worker, stopped, cancel, probe, swept,
                   restarts, cancels>>

\* A child that fails without an operation gets a failed one, unless the run is cancelled.
FailRepositories(r, S, from) ==
    /\ child' = UpdateChildren(r, S, from, "failed")
    /\ op' = [op EXCEPT ![r] = [c \in Repos |->
                IF c \in S /\ child[r][c] \in from /\ @[c] = "none" /\ ~Cancelled(r)
                THEN "failed" ELSE @[c]]]

\* The pre-backup scripts ended: go on, skip the run, or fail it.
EndPreHooks(r) ==
    /\ pc[r] = "pre"
    /\ \/ Goto(r, "repos") /\ UNCHANGED <<run, child, op, pre>>
       \/ /\ PreHooks
          /\ child' = UpdateChildren(r, Repos, {"pending"}, "skipped")
          /\ FinalizeRun(r, child'[r], TRUE) /\ EndTask(r)
          /\ pre' = [pre EXCEPT ![r] = "skipped"] /\ UNCHANGED op
       \/ /\ PreHooks
          /\ FailRepositories(r, Repos, {"pending"})
          /\ Goto(r, "except") /\ UNCHANGED <<run, pre>>
    /\ UNCHANGED <<flagged, marker, posts, worker, stopped, cancel, probe, swept, restarts, cancels>>

------------------------------------------------------------------------------
(* The repositories. *)

Busy(r) == {c \in Repos : worker[r][c] \in Working}
Others == <<marker, pre, posts, live, cancel, probe, swept, restarts, cancels>>

\* A repository is not started any more: the run was cancelled, or a "stop" repository failed.
Dropped(r) == Cancelled(r) \/ stopped[r]
DropReady(r, S) ==
    /\ child' = UpdateChildren(r, S, {"pending"}, IF Cancelled(r) THEN "cancelled" ELSE "skipped")
    /\ worker' = [worker EXCEPT ![r] = [c \in Repos |-> IF c \in S THEN "done" ELSE @[c]]]

\* _execute_series, between two repositories.
SeriesStep(r) ==
    /\ ~Parallel /\ pc[r] = "repos" /\ Ready(r) # {} /\ Busy(r) = {}
    /\ \/ Dropped(r) /\ DropReady(r, Ready(r)) /\ UNCHANGED pc
       \/ /\ ~Dropped(r)
          /\ \E c \in Ready(r) : /\ \A d \in Ready(r) : c <= d
                                 /\ worker' = [worker EXCEPT ![r][c] = "enter"]
          /\ UNCHANGED <<child, pc>>
       \/ /\ Faults /\ pc' = [pc EXCEPT ![r] = "except"]
          /\ worker' = [worker EXCEPT ![r] = [c \in Repos |-> IF c \in Ready(r) THEN "done" ELSE @[c]]]
          /\ UNCHANGED child
    /\ UNCHANGED <<run, op, flagged, stopped, Others>>

\* A worker of _execute_parallel, before and after it got its slot.  An exception of one worker
\* leaves gather at once; the others go on.
ParallelStep(r, c) ==
    /\ Parallel
    /\ \/ worker[r][c] = "ready" /\ pc[r] = "repos"
       \/ worker[r][c] = "slot" /\ Cardinality(Busy(r)) < MaxParallel
    /\ \/ Dropped(r) /\ DropReady(r, {c}) /\ UNCHANGED pc
       \/ /\ ~Dropped(r)
          /\ worker' = [worker EXCEPT ![r][c] = IF @ = "ready" THEN "slot" ELSE "enter"]
          /\ UNCHANGED <<child, pc>>
       \/ /\ Faults /\ worker' = [worker EXCEPT ![r][c] = "done"]
          /\ pc' = [pc EXCEPT ![r] = IF @ = "repos" THEN "except" ELSE @]
          /\ UNCHANGED child
    /\ UNCHANGED <<run, op, flagged, stopped, Others>>

\* _execute_repository returns s for repository c.
Returns(r, c, s) ==
    /\ worker' = [worker EXCEPT ![r][c] = "done"]
    /\ stopped' = [stopped EXCEPT ![r] = @ \/ (c \in Stop /\ IsFailure(s))]
CloseChild(r, c, s) ==
    child' = [child EXCEPT ![r][c] = s] /\ Returns(r, c, s) /\ UNCHANGED op
Fails(r, c) ==
    FailRepositories(r, {c}, {"pending", "running"}) /\ Returns(r, c, "failed")

\* _execute_repository looks at the agent and the route, then asks for admission.
Enter(r, c) ==
    /\ worker[r][c] = "enter"
    /\ \/ /\ c \in AgentRepos /\ child[r][c] = "pending"
          /\ SkipIfAgentOffline(r, {c}) /\ Returns(r, c, "skipped")
       \/ Fails(r, c)
       \/ worker' = [worker EXCEPT ![r][c] = "admit"] /\ UNCHANGED <<child, op, stopped>>
    /\ UNCHANGED <<run, flagged, pc, Others>>

\* Mutant: the child is claimed whatever it reads.
ClaimableAlways(r, c) == TRUE
\* The claim re-checks the child: one `cancel_run' closed takes the operation back with it.
Claimable(r, c) == child[r][c] \notin ChildTerminal

\* Admitted: the operation is created and the child claimed in one transaction.
Claim(r, c) ==
    \/ /\ Claimable(r, c)
       /\ child' = [child EXCEPT ![r][c] = "running"]
       /\ op' = [op EXCEPT ![r][c] = "queued"]
       /\ worker' = [worker EXCEPT ![r][c] = "wait"] /\ UNCHANGED stopped
    \/ ~Claimable(r, c) /\ Returns(r, c, "cancelled") /\ UNCHANGED <<child, op>>

Admit(r, c) ==
    /\ worker[r][c] = "admit"
    /\ \/ Claim(r, c)
       \/ Cancelled(r) /\ CloseChild(r, c, "cancelled")  \* the wait saw the cancel
       \/ Fails(r, c)                                     \* refused past its budget
    /\ UNCHANGED <<run, flagged, pc, Others>>

\* A poll of the wait that sees the run cancelled asks the runner once.
PollSeesCancel(r, c) ==
    /\ worker[r][c] = "wait" /\ op[r][c] \in OpActive /\ Cancelled(r) /\ <<r, c>> \notin flagged
    /\ op' = [op EXCEPT ![r][c] = IF @ = "queued" THEN "cancelled" ELSE @]
    /\ flagged' = flagged \cup {<<r, c>>}
    /\ UNCHANGED <<run, child, worker, stopped, pc, Others>>

\* Mutant: the wait ends with the run's cancel, not with the backup.
WaitedUntilCancel(r, c) ==
    /\ worker[r][c] = "wait" /\ (op[r][c] \notin OpActive \/ Cancelled(r))
    /\ CloseChild(r, c, IF op[r][c] \in OpActive THEN "cancelled" ELSE op[r][c])
    /\ UNCHANGED <<run, flagged, pc, Others>>
\* The backup is over.
Waited(r, c) ==
    /\ worker[r][c] = "wait" /\ op[r][c] \notin OpActive
    /\ \/ op[r][c] \notin Success /\ CloseChild(r, c, op[r][c])
       \/ op[r][c] \in Success /\ Cancelled(r) /\ CloseChild(r, c, "cancelled")
       \/ /\ op[r][c] \in Success /\ ~Cancelled(r)
          /\ worker' = [worker EXCEPT ![r][c] = "maintain"] /\ UNCHANGED <<child, op, stopped>>
       \/ Faults /\ Fails(r, c)
    /\ UNCHANGED <<run, flagged, pc, Others>>

\* prune, compact, check and restore check ended: clean, with a warning, stopped by the cancel,
\* or raised.
Maintained(r, c) ==
    /\ worker[r][c] = "maintain"
    /\ \/ CloseChild(r, c, op[r][c])
       \/ CloseChild(r, c, "completed_with_warnings")
       \/ Cancelled(r) /\ CloseChild(r, c, "cancelled")
       \/ Fails(r, c)
    /\ UNCHANGED <<run, flagged, pc, Others>>

\* The runner (external to this module): it starts queued operations once its process has swept,
\* and ends them; a flagged one may end cancelled, an agent's that was away is skipped.
OpStarts(r, c) ==
    /\ swept /\ op[r][c] = "queued"
    /\ op' = [op EXCEPT ![r][c] = "running"]
    /\ UNCHANGED <<run, child, flagged, worker, stopped, pc, Others>>
OpEnds(r, c) ==
    /\ swept
    /\ \/ op[r][c] = "running" /\ \E s \in Success \cup {"failed"} : op' = [op EXCEPT ![r][c] = s]
       \/ op[r][c] = "running" /\ <<r, c>> \in flagged /\ op' = [op EXCEPT ![r][c] = "cancelled"]
       \/ op[r][c] \in OpActive /\ c \in AgentRepos /\ op' = [op EXCEPT ![r][c] = "skipped"]
    /\ UNCHANGED <<run, child, flagged, worker, stopped, pc, Others>>

------------------------------------------------------------------------------
(* The post-backup scripts and the verdict. *)

StartScripts(r, result, l) ==
    /\ posts' = [posts EXCEPT ![r] = IF HookRuns(result) THEN @ + 1 ELSE @]
    /\ Goto(r, l)
    /\ UNCHANGED <<run, child, op, flagged, marker, pre, worker, stopped, cancel, probe, swept,
                   restarts, cancels>>

\* Every repository returned.
StartPostHooks(r) ==
    /\ pc[r] = "repos" /\ \A c \in Repos : worker[r][c] \in {"none", "done"}
    /\ StartScripts(r, IF Cancelled(r) THEN "failure" ELSE PlanBackupResult(r), "post")

\* The way out of an exception: the scripts run on it too, once a pre-backup script ran.
RunRaised(r) ==
    /\ pc[r] = "except"
    /\ \/ pre[r] # "none" /\ StartScripts(r, "failure", "failpost")
       \/ /\ pre[r] = "none" /\ MarkRunFailed(r) /\ EndTask(r)
          /\ UNCHANGED <<child, op, flagged, marker, pre, posts, worker, stopped, cancel, probe,
                         swept, restarts, cancels>>

\* The scripts ended: a cancelled run loses its line when they left no warning and keeps it
\* otherwise; the others get their verdict.
EndPostHooks(r) ==
    /\ pc[r] \in {"post", "failpost"}
    /\ \E clean, warned \in BOOLEAN :
        /\ marker' = [marker EXCEPT ![r] = IF ~Cancelled(r) THEN @ ELSE IF clean THEN "none" ELSE "cancel"]
        /\ IF pc[r] = "failpost" THEN MarkRunFailed(r) ELSE FinalizeRun(r, child[r], ~clean \/ warned)
    /\ EndTask(r)
    /\ UNCHANGED <<child, op, flagged, pre, posts, worker, stopped, cancel, probe, swept, restarts,
                   cancels>>

------------------------------------------------------------------------------
(* The cancel route. *)

\* Mutant: the line is left only once a post-backup script started.
CancelReadsLate(r) ==
    [run |-> r, open |-> {c \in Kids(r) : child[r][c] \notin ChildTerminal}, marks |-> posts[r] > 0]
\* What it reads first: the children it will close and whether to leave the line.
OpenChildren(r) == {c \in Kids(r) : child[r][c] \notin ChildTerminal}
CancelReads(r) == [run |-> r, open |-> OpenChildren(r), marks |-> pre[r] # "none"]

CanCancel(r) ==
    /\ run[r] \notin RunTerminal \cup {"none"} /\ pc[r] # "begin"
    /\ cancel = NoCancel /\ cancels < MaxCancels

Linked(r) == {c \in OpenChildren(r) : op[r][c] \in OpActive}
RequestCancel(r) ==
    /\ op' = [op EXCEPT ![r] = [c \in Repos |-> IF c \in Linked(r) /\ @[c] = "queued" THEN "cancelled" ELSE @[c]]]
    /\ flagged' = flagged \cup {<<r, c>> : c \in Linked(r)}

CloseRun(k) ==
    /\ run' = [run EXCEPT ![k.run] = "cancelled"]
    /\ child' = [child EXCEPT ![k.run] = [c \in Repos |-> IF c \in k.open THEN "cancelled" ELSE @[c]]]
    /\ marker' = [marker EXCEPT ![k.run] = IF k.marks THEN "cancel" ELSE "none"]

\* Nothing is awaited unless an operation was still queued, whose cancel is broadcast.
\* The awaits of several such operations are one, after the last flag is raised.
CancelRun(r) ==
    /\ CanCancel(r) /\ RequestCancel(r)
    /\ \/ /\ \A c \in Linked(r) : op[r][c] # "queued"
          /\ CloseRun(CancelReads(r)) /\ UNCHANGED cancel
       \/ /\ \E c \in Linked(r) : op[r][c] = "queued"
          /\ cancel' = CancelReads(r) /\ UNCHANGED <<run, child, marker>>
    /\ cancels' = cancels + 1
    /\ UNCHANGED <<pre, posts, pc, worker, stopped, live, probe, swept, restarts>>

\* Its commit closes what it read, whatever happened since.
CancelCommits ==
    /\ cancel # NoCancel /\ cancel' = NoCancel
    /\ CloseRun(cancel)
    /\ UNCHANGED <<op, flagged, pre, posts, pc, worker, stopped, live, probe, swept, restarts, cancels>>

------------------------------------------------------------------------------
(* A restart. *)

\* The process dies; scripts and tasks with it.
Crash ==
    /\ restarts < MaxRestarts /\ restarts' = restarts + 1
    /\ pc' = [r \in Runs |-> "idle"]
    /\ worker' = [r \in Runs |-> [c \in Repos |-> "none"]]
    /\ stopped' = [r \in Runs |-> FALSE]
    /\ live' = {} /\ flagged' = {} /\ cancel' = NoCancel /\ probe' = FALSE /\ swept' = FALSE
    /\ UNCHANGED <<run, child, op, marker, pre, posts, cancels>>

\* Mutant: only the pre-backup executions are looked at.
PostScriptsIgnoringPosts(r) == IF pre[r] # "none" THEN "pending" ELSE "none"
\* What the restart left of the run's post-backup scripts.
PostScriptsAfterRestart(r) ==
    IF posts[r] > 0 THEN "interrupted" ELSE IF pre[r] # "none" THEN "pending" ELSE "none"

\* Mutant: a run that was inserted and never prepared is not taken for interrupted.
InterruptedRunning == {r \in Runs : run[r] = "running" /\ r \notin live}
Interrupted == {r \in Runs : run[r] \in RunActive /\ r \notin live}
\* Finished runs that still carry the line, none of whose post-backup scripts started.
StillPending ==
    {r \in Runs \ live : /\ run[r] \notin RunActive /\ marker[r] # "none"
                         /\ PostScriptsAfterRestart(r) = "pending"}

\* An interrupted run: its open children fail, and its verdict follows.
InterruptedChild(r) == [c \in Repos |-> IF child[r][c] \in RunActive THEN "failed" ELSE child[r][c]]
InterruptedVerdict(r) ==
    LET v == IF Kids(r) = {} THEN "failed" ELSE Verdict(InterruptedChild(r), Kids(r), FALSE)
    IN  IF v = "completed" /\ PostScriptsAfterRestart(r) # "none" THEN "completed_with_warnings" ELSE v

\* Each interrupted run is closed with its children, told of its scripts, and its queued operations
\* are cancelled; the runner's recovery right after fails the ones left running.
NormalizeInterruptedRuns ==
    /\ child' = [r \in Runs |-> IF r \in Interrupted THEN InterruptedChild(r) ELSE child[r]]
    /\ run' = [r \in Runs |-> IF r \in Interrupted THEN InterruptedVerdict(r) ELSE run[r]]
    /\ marker' = [r \in Runs |-> IF r \in Interrupted /\ PostScriptsAfterRestart(r) # "none"
                                 THEN "restart" ELSE marker[r]]
    /\ op' = [r \in Runs |-> [c \in Repos |->
                IF op[r][c] = "running" THEN "failed"
                ELSE IF op[r][c] = "queued" /\ r \in Interrupted THEN "cancelled" ELSE op[r][c]]]

\* The startup sweep, once the runner holds its lease.  A run this process started by hand since is
\* live, so not interrupted.  The runs that still owe their scripts get a task for them.
Sweep ==
    LET left == StillPending \cup {r \in Interrupted : PostScriptsAfterRestart(r) = "pending"}
    IN  /\ ~swept /\ swept' = TRUE
        /\ NormalizeInterruptedRuns
        /\ live' = live \cup left
        /\ pc' = [r \in Runs |-> IF r \in left THEN "left" ELSE pc[r]]
        /\ UNCHANGED <<flagged, pre, posts, worker, stopped, cancel, probe, restarts, cancels>>

\* Mutant: they run at once.
StartLeftHooksAtOnce(r) == pc[r] = "left" /\ StartScripts(r, "failure", "leftpost")
\* The scripts run once the run's operations are over.  A task created before this one began first.
\* An agent's job that outlives its operation, which is waited out too, and the scripts of a
\* repository's own that run here, are not in the model.
StartLeftHooks(r) ==
    /\ pc[r] = "left" /\ \A c \in Repos : op[r][c] \notin OpActive
    /\ \A q \in Runs : pc[q] # "begin"
    /\ StartScripts(r, "failure", "leftpost")

SettleLeftHooks(r) ==
    /\ pc[r] = "leftpost"
    /\ \E m \in {"none", "restart"} : marker' = [marker EXCEPT ![r] = m]
    /\ EndTask(r)
    /\ UNCHANGED <<run, child, op, flagged, pre, posts, worker, stopped, cancel, probe, swept,
                   restarts, cancels>>

------------------------------------------------------------------------------
TaskStep(r) ==
    \/ PrepareRun(r) \/ StartPreHooks(r) \/ EndPreHooks(r) \/ SeriesStep(r) \/ StartPostHooks(r)
    \/ RunRaised(r) \/ EndPostHooks(r) \/ StartLeftHooks(r) \/ SettleLeftHooks(r)
WorkerStep(r, c) ==
    \/ ParallelStep(r, c) \/ Enter(r, c) \/ Admit(r, c)
    \/ PollSeesCancel(r, c) \/ Waited(r, c) \/ Maintained(r, c)
RunnerStep(r, c) == OpStarts(r, c) \/ OpEnds(r, c)

Next ==
    \/ \E r \in Runs : \/ RunPlan(r) \/ RetryFailedRun(r) \/ DispatchDue(r) \/ DispatchProbed(r)
                       \/ CancelRun(r) \/ TaskStep(r)
                       \/ \E c \in Repos : WorkerStep(r, c) \/ RunnerStep(r, c)
    \/ CancelCommits \/ Crash \/ Sweep

Spec == Init /\ [][Next]_vars

\* The event loop runs every ready coroutine, the runner starts and ends what it is given, a
\* restarted process gets its lease.
FairSpec ==
    /\ Spec
    /\ \A r \in Runs : WF_vars(TaskStep(r))
    /\ \A r \in Runs : \A c \in Repos : WF_vars(WorkerStep(r, c)) /\ WF_vars(RunnerStep(r, c))
    /\ WF_vars(CancelCommits) /\ WF_vars(Sweep)

------------------------------------------------------------------------------
(* Properties. *)

\* Over crashes, cancels and errors, the post-backup scripts of a run start at most once
\* (cleanup_orphaned_jobs does not give back a run one of whose scripts started).
HooksOnce == \A r \in Runs : posts[r] <= 1

\* A run that is over, whose pre-backup scripts ran and did not skip it, ran its post-backup
\* scripts or carries the line that says they are still to run, so that the next start finds them:
\* on every way out, cancelled, raised or interrupted.
HooksAccounted ==
    \A r \in Runs :
        (swept /\ run[r] \notin RunActive /\ pre[r] = "ran" /\ r \notin live /\ cancel.run # r)
            => posts[r] > 0 \/ marker[r] # "none"

\* The post-backup scripts of a run, in its task or after a restart, never run under one of its
\* backups: "its follow-up work never runs under a live backup" (wait_out_backup_operation).
PostAfterBackups ==
    \A r \in Runs : pc[r] \in Hooking => \A c \in Repos : op[r][c] \notin OpActive

\* Two runs of the plan are never at work together: the scripts of one would undo what those of
\* the other did (has_active_run). The scripts a restart left over are the exception: they run
\* beside a run that was started before the sweep gave them back.
AtWork(r) == r \in live /\ pc[r] \notin {"left", "leftpost"}
RunsAlone ==
    \A r, q \in Runs : r # q => ~(AtWork(r) /\ (AtWork(q) \/ Busy(q) # {}))

\* A pre-backup script of a run never starts while another run's post-backup scripts run.
PreNotUnderPost ==
    [][\A r, q \in Runs : pc[r] # "pre" /\ pc'[r] = "pre" /\ PreHooks => pc[q] \notin Hooking]_vars

\* A run that is over reads what its repositories read: completed only when each completed, never
\* a success next to a failed, cancelled or open one.  Cancels that close rows late, workers and
\* the restart sweep write the two apart.
VerdictHolds ==
    \A r \in Runs : run[r] \in Success /\ r \notin live /\ cancel.run # r =>
        /\ \A c \in Kids(r) : ~IsFailure(child[r][c])
        /\ run[r] = "completed" => \A c \in Kids(r) : child[r][c] = "completed"

\* A cancel is final: a cancelled run keeps its status and gets no new backup, even where the
\* cancel committed while a repository's backup was being prepared (_execute_repository's claim).
CancelFinal ==
    [][\A r \in Runs : Cancelled(r) =>
        /\ run'[r] = "cancelled"
        /\ \A c \in Repos : op[r][c] = "none" => op'[r][c] # "queued"]_vars

\* A backup of a cancelled run always has someone to stop it: the runner was asked, or the wait
\* that asks it at its next poll is there. A restart ends that: it forgets both, and the sweep
\* cancels queued backups of interrupted runs only.
CancelledStoppable ==
    \A r \in Runs : \A c \in Repos :
        restarts = 0 /\ Cancelled(r) /\ op[r][c] \in OpActive => <<r, c>> \in flagged \/ worker[r][c] = "wait"

\* Every run ends, whatever is cancelled and restarted, and its task with it.
RunsEnd == \A r \in Runs : ActiveRun(r) ~> ~ActiveRun(r)
==============================================================================
