---------------------------- MODULE PlanRunProofs ----------------------------
(***************************************************************************)
(* The invariants of PlanRun, and that a cancel is final, for any number   *)
(* of repositories, runs, cancels and restarts.                            *)
(*                                                                         *)
(* The inductive invariant has one part per run and one per repository of  *)
(* a run, so a step is split once into the run it is about and the others, *)
(* which it leaves alone (Elsewhere).                                      *)
(***************************************************************************)
EXTENDS PlanRun, TLAPS

------------------------------------------------------------------------------
(* The inductive invariant. *)

Driving == {"agents", "pre", "repos", "except", "post", "failpost"}
Before == {"begin", "agents", "pre", "repos", "except", "left"}
Moving == Working \cup {"slot"}

\* Where a run's task is, what the run's row says then, and how often its
\* post-backup scripts have started.
Task(r) ==
    /\ r \in live <=> pc[r] # "idle"
    /\ run[r] = "none" => pc[r] = "idle" /\ posts[r] = 0 /\ pre[r] = "none" /\ cancel.run # r
    /\ pc[r] = "begin" => run[r] = "pending" /\ cancel.run # r
    /\ pc[r] \in Driving => run[r] \in {"running", "cancelled"}
    /\ pc[r] \in {"left", "leftpost"} => run[r] \notin RunActive \cup {"none"}
    /\ pc[r] \in Before => posts[r] = 0
    /\ posts[r] <= 1
Tasks == \A r \in Runs : Task(r)

\* Where the coroutine of a repository is, given where its run is.
Place(r, c) ==
    /\ worker[r][c] \in Moving =>
          pc[r] \notin {"begin", "agents", "pre", "post"} /\ run[r] \in {"running", "failed", "cancelled"}
    /\ run[r] = "none" \/ pc[r] = "begin" => worker[r][c] = "none" /\ op[r][c] = "none"
    /\ pc[r] = "idle" /\ run[r] \in RunActive => worker[r][c] = "none"
    /\ pc[r] = "post" => worker[r][c] # "ready"
    /\ worker[r][c] \in Moving \cup {"ready"} => child[r][c] # "none"
    /\ worker[r][c] = "maintain" => op[r][c] \notin OpActive
    /\ worker[r][c] \in {"wait", "maintain"} => op[r][c] # "none"
    /\ op[r][c] \in OpActive =>
          worker[r][c] = "wait" \/ (restarts > 0 /\ pc[r] \in {"idle", "left"})
Places == \A r \in Runs : \A c \in Repos : Place(r, c)

\* A repository that may still claim a backup is closed once its run is
\* cancelled, and is in the list of a cancel that is under way.
ToClaim(r, c) ==
    worker[r][c] \in {"slot", "enter", "admit"} \/ (worker[r][c] = "ready" /\ pc[r] \in Driving)
Closing(r, c) ==
    ToClaim(r, c) /\ child[r][c] \notin ChildTerminal =>
        /\ run[r] # "cancelled"
        /\ cancel.run = r => c \in cancel.open
Closings == \A r \in Runs : \A c \in Repos : Closing(r, c)

\* A run that reads as a success has no repository that reads otherwise.
Sound(r) ==
    run[r] \in Success =>
        /\ \A c \in Kids(r) : ~IsFailure(child[r][c])
        /\ run[r] = "completed" => \A c \in Kids(r) : child[r][c] = "completed"
Sounds == \A r \in Runs : Sound(r)

IInv == TypeOK /\ Tasks /\ Places /\ Closings /\ Sounds

\* No run has been started at first.
LEMMA InitIInv == Init => IInv
  <1> SUFFICES ASSUME Init PROVE IInv
    OBVIOUS
  <1>1. TypeOK
    <2>1. [c \in Repos |-> "none"] \in [Repos -> {"none"}]
      OBVIOUS
    <2>2. cancel \in [run : 0 .. MaxRuns, open : SUBSET Repos, marks : BOOLEAN]
      BY PlanAssumption DEF Init, NoCancel
    <2>3. /\ child \in [Runs -> [Repos -> {"none", "pending", "running", "skipped"} \cup ChildTerminal]]
          /\ op \in [Runs -> [Repos -> {"none", "skipped"} \cup OpActive \cup ChildTerminal]]
          /\ worker \in [Runs -> [Repos -> {"none", "ready", "slot", "done"} \cup Working]]
      BY <2>1 DEF Init
    <2>4. restarts \in 0 .. MaxRestarts /\ cancels \in 0 .. MaxCancels
      BY PlanAssumption DEF Init
    <2>5. /\ run \in [Runs -> RunActive \cup RunTerminal \cup {"none", "skipped"}]
          /\ marker \in [Runs -> {"none", "cancel", "restart"}]
          /\ pre \in [Runs -> {"none", "ran", "skipped"}]
          /\ pc \in [Runs -> {"idle", "begin", "agents", "pre", "repos", "except", "left"} \cup Hooking]
      BY DEF Init
    <2>6. posts \in [Runs -> 0 .. 2] /\ stopped \in [Runs -> BOOLEAN]
      BY DEF Init
    <2>7. flagged \subseteq Runs \X Repos /\ live \subseteq Runs /\ probe \in BOOLEAN /\ swept \in BOOLEAN
      BY DEF Init
    <2>8. QED
      BY <2>2, <2>3, <2>4, <2>5, <2>6, <2>7 DEF TypeOK
  <1>2. Tasks
    BY DEF Init, Tasks, Task, NoCancel, Driving, Before, Runs
  <1>3. Places /\ Closings
    BY DEF Init, Places, Place, Closings, Closing, ToClaim, Driving, Moving, Working, OpActive, RunActive
  <1>4. Sounds
    BY DEF Init, Sounds, Sound, Success
  <1>5. QED
    BY <1>1, <1>2, <1>3, <1>4 DEF IInv

------------------------------------------------------------------------------
(* A step is about one run. *)

RunStep(r) ==
    \/ RunPlan(r) \/ RetryFailedRun(r) \/ DispatchDue(r) \/ DispatchProbed(r)
    \/ CancelRun(r) \/ TaskStep(r)
    \/ \E c \in Repos : WorkerStep(r, c) \/ RunnerStep(r, c)

\* A step leaves run q alone.
Elsewhere(q) ==
    /\ run'[q] = run[q] /\ child'[q] = child[q] /\ op'[q] = op[q] /\ worker'[q] = worker[q]
    /\ pc'[q] = pc[q] /\ posts'[q] = posts[q] /\ pre'[q] = pre[q]
    /\ q \in live' <=> q \in live
    /\ restarts' = restarts
    /\ cancel'.run = q \/ cancel.run = q => cancel' = cancel
    /\ marker'[q] = marker[q]

\* What a step leaves alone keeps its part of the invariant.
LEMMA ElsewhereKeeps ==
    ASSUME NEW q \in Runs, Elsewhere(q), Task(q), Sound(q),
           \A c \in Repos : Place(q, c) /\ Closing(q, c)
    PROVE  Task(q)' /\ Sound(q)' /\ \A c \in Repos : Place(q, c)' /\ Closing(q, c)'
  <1>1. Task(q)'
    BY DEF Elsewhere, Task
  <1>2. Sound(q)'
    BY DEF Elsewhere, Sound, Kids
  <1>3. ASSUME NEW c \in Repos PROVE Place(q, c)' /\ Closing(q, c)'
    BY DEF Elsewhere, Place, Closing, ToClaim, Driving
  <1>4. QED
    BY <1>1, <1>2, <1>3

\* The routes and the scheduler.
LEMMA StartElsewhere ==
    ASSUME TypeOK, NEW r \in Runs, NEW q \in Runs, q # r,
           RunPlan(r) \/ RetryFailedRun(r) \/ DispatchDue(r) \/ DispatchProbed(r)
    PROVE  Elsewhere(q)
  <1>1. ASSUME NEW S, Insert(r, S) PROVE Elsewhere(q)
    BY <1>1 DEF Insert, Elsewhere, TypeOK
  <1>2. ASSUME NEW s, RecordRefusal(r, s) PROVE Elsewhere(q)
    BY <1>2 DEF RecordRefusal, Elsewhere, TypeOK
  <1>3. CASE RunPlan(r)
    BY <1>1, <1>3 DEF RunPlan
  <1>4. CASE RetryFailedRun(r)
    BY <1>1, <1>4 DEF RetryFailedRun
  <1>5. CASE DispatchDue(r)
    <2>1. CASE UNCHANGED <<rows, pc, worker, stopped, live, cancel, swept, restarts, cancels>>
      BY <2>1 DEF Elsewhere, rows
    <2>2. QED
      BY <1>1, <1>2, <1>5, <2>1 DEF DispatchDue
  <1>6. CASE DispatchProbed(r)
    BY <1>1, <1>2, <1>6 DEF DispatchProbed
  <1>7. QED
    BY <1>3, <1>4, <1>5, <1>6

\* The run's own task.
LEMMA TaskElsewhere ==
    ASSUME TypeOK, NEW r \in Runs, NEW q \in Runs, q # r, TaskStep(r)
    PROVE  Elsewhere(q)
  <1> USE DEF Elsewhere, TypeOK, EndTask, Goto
  <1>1. CASE PrepareRun(r)
    BY <1>1 DEF PrepareRun, SkipIfAgentOffline, UpdateChildren, MarkRunFailed, PreStarts
  <1>2. CASE StartPreHooks(r)
    BY <1>2 DEF StartPreHooks, FinalizeRun, PreStarts
  <1>3. CASE EndPreHooks(r)
    BY <1>3 DEF EndPreHooks, FinalizeRun, FailRepositories, UpdateChildren
  <1>4. CASE SeriesStep(r)
    BY <1>4 DEF SeriesStep, DropReady, UpdateChildren, Others
  <1>5. CASE StartPostHooks(r)
    BY <1>5 DEF StartPostHooks, StartScripts
  <1>6. CASE RunRaised(r)
    BY <1>6 DEF RunRaised, StartScripts, MarkRunFailed
  <1>7. CASE EndPostHooks(r)
    BY <1>7 DEF EndPostHooks, FinalizeRun, MarkRunFailed
  <1>8. CASE StartLeftHooks(r)
    BY <1>8 DEF StartLeftHooks, StartScripts
  <1>9. CASE SettleLeftHooks(r)
    BY <1>9 DEF SettleLeftHooks
  <1>10. QED
    BY <1>1, <1>2, <1>3, <1>4, <1>5, <1>6, <1>7, <1>8, <1>9 DEF TaskStep

\* Its repositories, the runner and the cancel route.
LEMMA WorkerElsewhere ==
    ASSUME TypeOK, NEW r \in Runs, NEW q \in Runs, q # r, NEW c \in Repos,
           WorkerStep(r, c) \/ RunnerStep(r, c)
    PROVE  Elsewhere(q)
  <1> USE DEF Elsewhere, TypeOK, Others, CloseChild, Fails, FailRepositories, UpdateChildren, Returns
  <1>1. CASE ParallelStep(r, c)
    BY <1>1 DEF ParallelStep, DropReady
  <1>2. CASE Enter(r, c)
    BY <1>2 DEF Enter, SkipIfAgentOffline
  <1>3. CASE Admit(r, c)
    BY <1>3 DEF Admit, Claim
  <1>4. CASE PollSeesCancel(r, c)
    BY <1>4 DEF PollSeesCancel
  <1>5. CASE Waited(r, c)
    BY <1>5 DEF Waited
  <1>6. CASE Maintained(r, c)
    BY <1>6 DEF Maintained
  <1>7. CASE OpStarts(r, c) \/ OpEnds(r, c)
    BY <1>7 DEF OpStarts, OpEnds
  <1>8. QED
    BY <1>1, <1>2, <1>3, <1>4, <1>5, <1>6, <1>7 DEF WorkerStep, RunnerStep

\* A step of one run leaves every other run alone.
LEMMA RunElsewhere ==
    ASSUME TypeOK, NEW r \in Runs, NEW q \in Runs, q # r, RunStep(r)
    PROVE  Elsewhere(q)
  <1>1. CASE CancelRun(r)
    <2>1. cancel.run # q /\ (cancel' = cancel \/ cancel'.run = r)
      BY <1>1 DEF CancelRun, CanCancel, NoCancel, CancelReads, Runs
    <2>2. run'[q] = run[q] /\ child'[q] = child[q] /\ marker'[q] = marker[q]
      BY <1>1 DEF CancelRun, CloseRun, CancelReads, TypeOK
    <2>3. /\ op'[q] = op[q]
          /\ UNCHANGED <<pre, posts, pc, worker, live, restarts>>
      BY <1>1 DEF CancelRun, RequestCancel, TypeOK
    <2>4. QED
      BY <2>1, <2>2, <2>3 DEF Elsewhere
  <1>2. QED
    BY <1>1, StartElsewhere, TaskElsewhere, WorkerElsewhere DEF RunStep

------------------------------------------------------------------------------
(* The repositories of a run. *)

\* What becomes of one repository in a step of its coroutine, of the task that
\* drops it, or of the runner.
Stays(r, d) ==
    worker'[r][d] = worker[r][d] /\ child'[r][d] = child[r][d] /\ op'[r][d] = op[r][d]
Runner(r, d) ==
    /\ worker'[r][d] = worker[r][d] /\ child'[r][d] = child[r][d]
    /\ op[r][d] \in OpActive /\ op'[r][d] # "none"
    /\ op'[r][d] = "queued" => op[r][d] = "queued"
Moves(r, d) ==
    /\ worker[r][d] \in Moving \/ (worker[r][d] = "ready" /\ pc[r] = "repos")
    /\ worker'[r][d] \in Moving \cup {"done"}
    /\ worker'[r][d] = "slot" => Parallel
    /\ child[r][d] # "none" => child'[r][d] # "none"
    /\ op'[r][d] \in OpActive => worker'[r][d] = "wait" \/ (op'[r][d] = op[r][d] /\ worker[r][d] # "wait")
    /\ op'[r][d] = "queued" =>
          op[r][d] = "queued" \/ (worker[r][d] = "admit" /\ child[r][d] \notin ChildTerminal)
    /\ worker'[r][d] = "maintain" => op'[r][d] \notin OpActive
    /\ worker'[r][d] \in {"wait", "maintain"} => op'[r][d] # "none"
    /\ worker'[r][d] \in {"slot", "enter", "admit"} =>
          /\ child'[r][d] = child[r][d]
          /\ worker[r][d] \in {"slot", "enter"} \/ (worker[r][d] = "ready" /\ pc[r] = "repos")

\* The task's own state stays, or an error takes it out of its repositories.
WorkersMove(r) ==
    /\ UNCHANGED <<run, posts, pre, live, cancel, restarts>>
    /\ pc'[r] = pc[r] \/ (pc[r] = "repos" /\ pc'[r] = "except")
    /\ \A d \in Repos : Stays(r, d) \/ Runner(r, d) \/ Moves(r, d)

\* A coroutine that ends, with what Fails and CloseChild do.
LEMMA ReturnMoves ==
    ASSUME TypeOK, Places, NEW r \in Runs, NEW c \in Repos, worker[r][c] \in Moving,
           worker[r][c] = "wait" => op[r][c] \notin OpActive,
           \/ Fails(r, c)
           \/ \E t : /\ t # "none" /\ child' = [child EXCEPT ![r][c] = t] /\ UNCHANGED op
                     /\ worker' = [worker EXCEPT ![r][c] = "done"]
    PROVE  \A d \in Repos : Stays(r, d) \/ Moves(r, d)
  <1>1. worker' = [worker EXCEPT ![r][c] = "done"]
    BY DEF Fails, Returns
  <1>2. \A d \in Repos : d # c => Stays(r, d)
    BY <1>1 DEF Fails, FailRepositories, UpdateChildren, Stays, TypeOK
  <1>3. worker'[r][c] = "done"
    BY <1>1 DEF TypeOK
  <1>4. child[r][c] # "none" => child'[r][c] # "none"
    BY DEF Fails, FailRepositories, UpdateChildren, TypeOK
  <1>5. op'[r][c] = op[r][c] \/ op'[r][c] = "failed"
    BY DEF Fails, FailRepositories, UpdateChildren, TypeOK
  <1>6. QED
    BY <1>2, <1>3, <1>4, <1>5 DEF Moves, Moving, OpActive, Working

\* Every step of a coroutine or of the runner moves repositories and nothing else.
LEMMA StepMoves ==
    ASSUME TypeOK, Places, NEW r \in Runs, NEW c \in Repos, WorkerStep(r, c) \/ RunnerStep(r, c)
    PROVE  WorkersMove(r)
  <1>k. ASSUME \A d \in Repos : Stays(r, d) \/ Moves(r, d), UNCHANGED <<run, pc, Others>>
        PROVE  WorkersMove(r)
    BY <1>k DEF WorkersMove, Others
  <1>p. Place(r, c)
    BY DEF Places
  <1>c. ASSUME NEW t, CloseChild(r, c, t), t # "none",
               worker[r][c] \in Moving, worker[r][c] = "wait" => op[r][c] \notin OpActive
        PROVE  \A d \in Repos : Stays(r, d) \/ Moves(r, d)
    BY <1>c, ReturnMoves DEF CloseChild, Returns
  <1>1. CASE ParallelStep(r, c)
    <2>1. CASE DropReady(r, {c}) /\ UNCHANGED pc
      <3>1. \A d \in Repos : d # c => Stays(r, d)
        BY <1>1, <2>1 DEF ParallelStep, DropReady, UpdateChildren, Stays, TypeOK
      <3>2. /\ worker'[r][c] = "done" /\ op'[r][c] = op[r][c]
            /\ child[r][c] # "none" => child'[r][c] # "none"
        BY <1>1, <2>1 DEF ParallelStep, DropReady, UpdateChildren, TypeOK
      <3>3. Moves(r, c)
        BY <1>1, <3>2 DEF ParallelStep, Moves, Moving, Working
      <3>4. QED
        BY <1>1, <2>1, <3>1, <3>3, <1>k DEF ParallelStep
    <2>2. CASE /\ worker' = [worker EXCEPT ![r][c] = IF @ = "ready" THEN "slot" ELSE "enter"]
               /\ UNCHANGED <<child, pc>>
      <3>1. \A d \in Repos : d # c => Stays(r, d)
        BY <1>1, <2>2 DEF ParallelStep, Stays, TypeOK
      <3>2. /\ worker'[r][c] \in {"slot", "enter"} /\ UNCHANGED <<op, child>>
        BY <1>1, <2>2 DEF ParallelStep, TypeOK
      <3>3. Moves(r, c)
        BY <1>1, <3>2 DEF ParallelStep, Moves, Moving, Working
      <3>4. QED
        BY <1>1, <2>2, <3>1, <3>3, <1>k DEF ParallelStep
    <2>3. CASE /\ Faults /\ worker' = [worker EXCEPT ![r][c] = "done"]
               /\ pc' = [pc EXCEPT ![r] = IF @ = "repos" THEN "except" ELSE @]
               /\ UNCHANGED child
      <3>1. \A d \in Repos : d # c => Stays(r, d)
        BY <1>1, <2>3 DEF ParallelStep, Stays, TypeOK
      <3>2. /\ worker'[r][c] = "done" /\ UNCHANGED <<op, child>>
            /\ pc'[r] = pc[r] \/ (pc[r] = "repos" /\ pc'[r] = "except")
        BY <1>1, <2>3 DEF ParallelStep, TypeOK
      <3>3. Moves(r, c)
        BY <1>1, <3>2 DEF ParallelStep, Moves, Moving, Working
      <3>4. QED
        BY <1>1, <3>1, <3>2, <3>3 DEF ParallelStep, WorkersMove, Others
    <2>4. QED
      BY <1>1, <2>1, <2>2, <2>3 DEF ParallelStep
  <1>2. CASE Enter(r, c)
    <2>1. CASE Fails(r, c)
      BY <1>2, <2>1, <1>k, ReturnMoves DEF Enter, Moving, Working
    <2>2. CASE SkipIfAgentOffline(r, {c}) /\ Returns(r, c, "skipped")
      <3>1. \A d \in Repos : d # c => Stays(r, d)
        BY <2>2 DEF SkipIfAgentOffline, Returns, UpdateChildren, Stays, TypeOK
      <3>2. /\ worker'[r][c] = "done" /\ op'[r][c] \in {op[r][c], "skipped"}
            /\ child[r][c] # "none" => child'[r][c] # "none"
        BY <2>2 DEF SkipIfAgentOffline, Returns, UpdateChildren, TypeOK
      <3>3. Moves(r, c)
        BY <1>2, <3>2 DEF Enter, Moves, Moving, Working, OpActive
      <3>4. QED
        BY <1>2, <3>1, <3>3, <1>k DEF Enter
    <2>3. CASE worker' = [worker EXCEPT ![r][c] = "admit"] /\ UNCHANGED <<child, op, stopped>>
      <3>1. \A d \in Repos : d # c => Stays(r, d)
        BY <2>3 DEF Stays, TypeOK
      <3>2. worker'[r][c] = "admit"
        BY <2>3 DEF TypeOK
      <3>3. Moves(r, c)
        BY <1>2, <2>3, <3>2 DEF Enter, Moves, Moving, Working
      <3>4. QED
        BY <1>2, <3>1, <3>3, <1>k DEF Enter
    <2>4. QED
      BY <1>2, <2>1, <2>2, <2>3 DEF Enter
  <1>3. CASE Admit(r, c)
    <2>1. CASE Fails(r, c)
      BY <1>3, <2>1, <1>k, ReturnMoves DEF Admit, Moving, Working
    <2>2. CASE CloseChild(r, c, "cancelled")
      BY <1>3, <2>2, <1>k, <1>c DEF Admit, Moving, Working
    <2>3. CASE ~Claimable(r, c) /\ Returns(r, c, "cancelled") /\ UNCHANGED <<child, op>>
      <3>1. \A d \in Repos : d # c => Stays(r, d)
        BY <2>3 DEF Stays, Returns, TypeOK
      <3>2. worker'[r][c] = "done"
        BY <2>3 DEF Returns, TypeOK
      <3>3. Moves(r, c)
        BY <1>3, <2>3, <3>2 DEF Admit, Moves, Moving, Working
      <3>4. QED
        BY <1>3, <3>1, <3>3, <1>k DEF Admit
    <2>4. CASE /\ Claimable(r, c)
               /\ child' = [child EXCEPT ![r][c] = "running"]
               /\ op' = [op EXCEPT ![r][c] = "queued"]
               /\ worker' = [worker EXCEPT ![r][c] = "wait"]
      <3>1. \A d \in Repos : d # c => Stays(r, d)
        BY <2>4 DEF Stays, TypeOK
      <3>2. worker'[r][c] = "wait" /\ op'[r][c] = "queued" /\ child'[r][c] = "running"
        BY <2>4 DEF TypeOK
      <3>3. Moves(r, c)
        BY <1>3, <2>4, <3>2 DEF Admit, Moves, Moving, Working, Claimable
      <3>4. QED
        BY <1>3, <3>1, <3>3, <1>k DEF Admit
    <2>5. QED
      BY <1>3, <2>1, <2>2, <2>3, <2>4 DEF Admit, Claim
  <1>4. CASE PollSeesCancel(r, c) \/ OpStarts(r, c) \/ OpEnds(r, c)
    <2>1. \A d \in Repos : d # c => Stays(r, d)
      BY <1>4 DEF PollSeesCancel, OpStarts, OpEnds, Stays, TypeOK
    <2>2. /\ op[r][c] \in OpActive /\ op'[r][c] # "none"
          /\ op'[r][c] = "queued" => op[r][c] = "queued"
      BY <1>4 DEF PollSeesCancel, OpStarts, OpEnds, TypeOK, OpActive, Success
    <2>3. UNCHANGED <<run, child, worker, pc, Others>>
      BY <1>4 DEF PollSeesCancel, OpStarts, OpEnds
    <2>4. QED
      BY <2>1, <2>2, <2>3 DEF WorkersMove, Runner, Others
  <1>5. CASE Waited(r, c)
    <2>1. CASE Fails(r, c)
      BY <1>5, <2>1, <1>k, ReturnMoves DEF Waited, Moving, Working
    <2>2. CASE CloseChild(r, c, op[r][c]) \/ CloseChild(r, c, "cancelled")
      BY <1>5, <2>2, <1>k, <1>c, <1>p DEF Waited, Moving, Working, Place
    <2>3. CASE op[r][c] \in Success /\ worker' = [worker EXCEPT ![r][c] = "maintain"] /\ UNCHANGED <<child, op>>
      <3>1. \A d \in Repos : d # c => Stays(r, d)
        BY <2>3 DEF Stays, TypeOK
      <3>2. worker'[r][c] = "maintain" /\ op[r][c] \notin OpActive /\ op[r][c] # "none"
        BY <2>3 DEF TypeOK, Success, OpActive
      <3>3. Moves(r, c)
        BY <1>5, <2>3, <3>2 DEF Waited, Moves, Moving, Working
      <3>4. QED
        BY <1>5, <3>1, <3>3, <1>k DEF Waited
    <2>4. QED
      BY <1>5, <2>1, <2>2, <2>3 DEF Waited
  <1>6. CASE Maintained(r, c)
    <2>1. CASE Fails(r, c)
      BY <1>6, <2>1, <1>k, ReturnMoves DEF Maintained, Moving, Working
    <2>2. CASE \/ CloseChild(r, c, op[r][c]) \/ CloseChild(r, c, "cancelled")
               \/ CloseChild(r, c, "completed_with_warnings")
      BY <1>6, <2>2, <1>k, <1>c, <1>p DEF Maintained, Moving, Working, Place
    <2>3. QED
      BY <1>6, <2>1, <2>2 DEF Maintained
  <1>7. QED
    BY <1>1, <1>2, <1>3, <1>4, <1>5, <1>6 DEF WorkerStep, RunnerStep

\* _execute_series between two repositories.
LEMMA SeriesMoves ==
    ASSUME TypeOK, NEW r \in Runs, SeriesStep(r)
    PROVE  WorkersMove(r)
  <1>1. pc[r] = "repos" /\ UNCHANGED <<run, op, posts, pre, live, cancel, restarts>>
    BY DEF SeriesStep, Others
  <1>2. \A d \in Repos : Stays(r, d) \/
            /\ worker[r][d] = "ready" /\ op'[r][d] = op[r][d]
            /\ worker'[r][d] \in {"done", "enter"}
            /\ worker'[r][d] = "enter" => child'[r][d] = child[r][d]
            /\ child[r][d] # "none" => child'[r][d] # "none"
    <2>1. CASE DropReady(r, Ready(r))
      BY <1>1, <2>1 DEF DropReady, UpdateChildren, Ready, Stays, TypeOK
    <2>2. CASE /\ \E c \in Ready(r) : worker' = [worker EXCEPT ![r][c] = "enter"]
               /\ UNCHANGED <<child, pc>>
      BY <1>1, <2>2 DEF Ready, Stays, TypeOK
    <2>3. CASE /\ worker' = [worker EXCEPT ![r] = [c \in Repos |-> IF c \in Ready(r) THEN "done" ELSE @[c]]]
               /\ UNCHANGED child
      BY <1>1, <2>3 DEF Ready, Stays, TypeOK
    <2>4. QED
      BY <2>1, <2>2, <2>3 DEF SeriesStep
  <1>3. ASSUME NEW d \in Repos PROVE Stays(r, d) \/ Moves(r, d)
    BY <1>1, <1>2 DEF Moves, Moving, Working
  <1>4. pc'[r] = pc[r] \/ (pc[r] = "repos" /\ pc'[r] = "except")
    BY <1>1 DEF SeriesStep, TypeOK
  <1>5. QED
    BY <1>1, <1>3, <1>4 DEF WorkersMove

\* Repositories that move keep the run's part of the invariant.
LEMMA MovesKeep ==
    ASSUME NEW r \in Runs, Task(r), Sound(r), \A c \in Repos : Place(r, c) /\ Closing(r, c),
           WorkersMove(r)
    PROVE  Task(r)' /\ Sound(r)' /\ \A c \in Repos : Place(r, c)' /\ Closing(r, c)'
  <1>1. Task(r)'
    BY DEF WorkersMove, Task, Driving, Before
  <1>2. ASSUME NEW c \in Repos PROVE Place(r, c)'
    <2>1. CASE Stays(r, c)
      BY <2>1 DEF WorkersMove, Stays, Place
    <2>2. CASE Runner(r, c)
      BY <2>2 DEF WorkersMove, Runner, Place, Moving, Working, OpActive
    <2>3. CASE Moves(r, c)
      <3>1. run[r] \in {"running", "failed", "cancelled"} /\ pc[r] \notin {"begin", "agents", "pre", "post"}
        BY <2>3 DEF Moves, Place, Task, Driving
      <3>2. pc[r] = "idle" => run[r] \notin RunActive
        BY <2>3 DEF Moves, Place, Moving, Working
      <3>3. child[r][c] # "none"
        BY <2>3 DEF Moves, Place
      <3>4. QED
        BY <2>3, <3>1, <3>2, <3>3 DEF WorkersMove, Moves, Place, Moving, Working, RunActive
    <2>4. QED
      BY <2>1, <2>2, <2>3 DEF WorkersMove
  <1>3. ASSUME NEW c \in Repos PROVE Closing(r, c)'
    <2>1. CASE Stays(r, c)
      BY <2>1 DEF WorkersMove, Stays, Closing, ToClaim, Driving
    <2>2. CASE Runner(r, c)
      BY <2>2 DEF WorkersMove, Runner, Closing, ToClaim, Driving
    <2>3. CASE Moves(r, c)
      BY <2>3 DEF WorkersMove, Moves, Closing, ToClaim, Driving, Moving, Working
    <2>4. QED
      BY <2>1, <2>2, <2>3 DEF WorkersMove
  <1>4. Sound(r)'
    <2>1. ASSUME run[r] \in Success, NEW c \in Repos PROVE child'[r][c] = child[r][c]
      <3>1. ~Moves(r, c)
        BY <2>1 DEF Moves, Place, Task, Driving, Success
      <3>2. QED
        BY <3>1 DEF WorkersMove, Stays, Runner
    <2>2. QED
      BY <2>1 DEF WorkersMove, Sound, Kids
  <1>5. QED
    BY <1>1, <1>2, <1>3, <1>4

------------------------------------------------------------------------------
(* The run's row and its task. *)

\* A verdict that reads as a success is one.
LEMMA VerdictSound ==
    ASSUME NEW ch, NEW kids, NEW warn
    PROVE  /\ Verdict(ch, kids, warn) \in RunTerminal
           /\ Verdict(ch, kids, warn) \in Success => \A c \in kids : ~IsFailure(ch[c])
           /\ Verdict(ch, kids, warn) = "completed" => \A c \in kids : ch[c] = "completed"
           /\ Verdict(ch, kids, warn) \in Success \cup {"partial", "failed", "cancelled"}
  <1>1. ASSUME NEW c \in kids PROVE ch[c] \in {ch[d] : d \in kids}
    OBVIOUS
  <1>2. Verdict(ch, kids, warn) \in Success \cup {"partial", "failed", "cancelled"}
    BY DEF Verdict, Success
  <1>3. Verdict(ch, kids, warn) \in Success => \A c \in kids : ~IsFailure(ch[c])
    BY <1>1 DEF Verdict, Success
  <1>4. Verdict(ch, kids, warn) = "completed" => \A c \in kids : ch[c] = "completed"
    BY <1>1, <1>3 DEF Verdict, Success, Warning, IsFailure
  <1>5. QED
    BY <1>2, <1>3, <1>4 DEF RunTerminal, Success

\* What finalising a run leaves in its row, when its children end as they do.
LEMMA FinalizeSound ==
    ASSUME TypeOK, NEW r \in Runs, NEW warn, FinalizeRun(r, child'[r], warn),
           \A c \in Repos : child'[r][c] = "none" <=> child[r][c] = "none"
    PROVE  /\ run'[r] \in RunTerminal \cup {"skipped"}
           /\ run[r] = "cancelled" => run'[r] = "cancelled"
           /\ Sound(r)'
  <1> DEFINE v == IF Cancelled(r) THEN run[r]
                  ELSE IF AllSkippedForOfflineAgents(r, child'[r]) THEN "skipped"
                  ELSE Verdict(child'[r], Kids(r), warn)
  <1>1. run'[r] = v
    BY DEF FinalizeRun, TypeOK
  <1>2. Kids(r)' = Kids(r)
    BY DEF Kids
  <1>3. v = "cancelled" \/ v = "skipped" \/ v = Verdict(child'[r], Kids(r), warn)
    BY DEF Cancelled
  <1>4. v \in RunTerminal \cup {"skipped"}
    BY <1>3, VerdictSound DEF RunTerminal
  <1>5. Sound(r)'
    BY <1>1, <1>2, <1>3, VerdictSound DEF Sound, Success
  <1>6. QED
    BY <1>1, <1>4, <1>5 DEF Cancelled

\* A run row is inserted: fresh, with its task about to begin.
LEMMA InsertKeeps ==
    ASSUME TypeOK, NEW r \in Runs, Task(r), Sound(r), \A c \in Repos : Place(r, c) /\ Closing(r, c),
           NEW S, Insert(r, S)
    PROVE  Task(r)' /\ Sound(r)' /\ \A c \in Repos : Place(r, c)' /\ Closing(r, c)'
  <1>1. /\ run[r] = "none" /\ run'[r] = "pending" /\ pc'[r] = "begin" /\ r \in live'
        /\ UNCHANGED <<op, posts, pre, worker, cancel, restarts>>
    BY DEF Insert, Next1, TypeOK
  <1>2. Task(r)' /\ Sound(r)'
    BY <1>1 DEF Task, Sound, Driving, Success
  <1>3. ASSUME NEW c \in Repos PROVE Place(r, c)' /\ Closing(r, c)'
    BY <1>1 DEF Place, Closing, ToClaim, Driving, Moving, Working, OpActive
  <1>4. QED
    BY <1>2, <1>3

\* A row of the history starts no task.
LEMMA RefusalKeeps ==
    ASSUME TypeOK, NEW r \in Runs, Task(r), Sound(r), \A c \in Repos : Place(r, c) /\ Closing(r, c),
           NEW t \in {"skipped", "failed"}, RecordRefusal(r, t)
    PROVE  Task(r)' /\ Sound(r)' /\ \A c \in Repos : Place(r, c)' /\ Closing(r, c)'
  <1>1. /\ run[r] = "none" /\ run'[r] = t
        /\ UNCHANGED <<op, posts, pre, pc, live, worker, cancel, restarts>>
    BY DEF RecordRefusal, Next1, TypeOK
  <1>2. Task(r)' /\ Sound(r)'
    BY <1>1 DEF Task, Sound, Driving, Success, Before
  <1>3. ASSUME NEW c \in Repos PROVE Place(r, c)' /\ Closing(r, c)'
    BY <1>1 DEF Place, Closing, ToClaim, Driving, Moving, Working, OpActive, RunActive
  <1>4. QED
    BY <1>2, <1>3

\* The routes and the scheduler's pass.
LEMMA StartKeeps ==
    ASSUME TypeOK, NEW r \in Runs, Task(r), Sound(r), \A c \in Repos : Place(r, c) /\ Closing(r, c),
           RunPlan(r) \/ RetryFailedRun(r) \/ DispatchDue(r) \/ DispatchProbed(r)
    PROVE  Task(r)' /\ Sound(r)' /\ \A c \in Repos : Place(r, c)' /\ Closing(r, c)'
  <1>1. CASE \E S : Insert(r, S)
    BY <1>1, InsertKeeps
  <1>2. CASE \E t \in {"skipped", "failed"} : RecordRefusal(r, t)
    BY <1>2, RefusalKeeps
  <1>3. CASE UNCHANGED <<rows, pc, worker, stopped, live, cancel, swept, restarts, cancels>>
    <2>1. Elsewhere(r)
      BY <1>3 DEF Elsewhere, rows
    <2>2. QED
      BY <2>1, ElsewhereKeeps
  <1>4. QED
    BY <1>1, <1>2, <1>3 DEF RunPlan, RetryFailedRun, DispatchDue, DispatchProbed

\* A task that ends, or moves on without touching its repositories: the run's
\* row stays or is closed, and no repository is moving at its hooks.
LEMMA TaskMovesOn ==
    ASSUME TypeOK, NEW r \in Runs, Task(r), Sound(r), \A c \in Repos : Place(r, c) /\ Closing(r, c),
           NEW l, pc'[r] = l, r \in live' <=> l # "idle",
           UNCHANGED <<cancel, restarts>>,
           child'[r] = child[r], op'[r] = op[r], worker'[r] = worker[r],
           pc[r] \in Driving \cup {"begin", "left", "leftpost"},
           run[r] = "cancelled" => run'[r] = "cancelled",
           \/ run'[r] = run[r]
           \/ /\ l = "idle" /\ run'[r] \in RunTerminal \cup {"skipped"} /\ Sound(r)'
              /\ \A c \in Repos : worker[r][c] \notin Moving \/ run'[r] \in {"failed", "cancelled"}
              /\ \A c \in Repos : op[r][c] \notin OpActive \/ worker[r][c] = "wait",
           \/ l = "idle" /\ run'[r] \notin RunActive
           \/ l \in Driving \cap Before /\ pc[r] \in Driving /\ posts'[r] = 0
           \/ l \in {"post", "failpost"} /\ pc[r] \in Driving
           \/ l = "leftpost" /\ pc[r] = "left" /\ \A c \in Repos : op[r][c] \notin OpActive,
           l \in {"agents", "pre", "post"} => \A c \in Repos : worker[r][c] \notin Moving,
           l = "post" => \A c \in Repos : worker[r][c] # "ready",
           posts'[r] <= 1,
           l = "idle" /\ run'[r] = "cancelled" /\ run[r] # "cancelled" =>
               \A c \in Repos : worker[r][c] \notin Moving
    PROVE  Task(r)' /\ Sound(r)' /\ \A c \in Repos : Place(r, c)' /\ Closing(r, c)'
  <1>1. run[r] # "none" /\ pc[r] # "idle"
    BY DEF Task, Driving
  <1>2. Task(r)'
    BY <1>1 DEF Task, Driving, Before, RunActive, RunTerminal
  <1>3. Sound(r)'
    BY DEF Sound, Kids
  <1>4. ASSUME NEW c \in Repos PROVE Place(r, c)'
    BY <1>1 DEF Place, Driving, Before, RunActive, RunTerminal, Moving, Working
  <1>5. ASSUME NEW c \in Repos PROVE Closing(r, c)'
    BY <1>1 DEF Closing, ToClaim, Driving, Before, Moving, Working, RunTerminal, RunActive
  <1>6. QED
    BY <1>2, <1>3, <1>4, <1>5

\* Marking a run failed leaves a cancelled one cancelled.
LEMMA MarkFailed ==
    ASSUME TypeOK, NEW r \in Runs, MarkRunFailed(r)
    PROVE  /\ run'[r] \in {"failed", "cancelled"}
           /\ run'[r] = "cancelled" <=> run[r] = "cancelled"
           /\ run'[r] \in RunTerminal /\ Sound(r)'
  <1>1. run'[r] = IF run[r] = "cancelled" THEN "cancelled" ELSE "failed"
    BY DEF MarkRunFailed, Cancelled, TypeOK
  <1>2. QED
    BY <1>1 DEF Sound, Success, RunTerminal

\* Where a task goes, and whether it is live.
LEMMA TaskGoes ==
    ASSUME TypeOK, NEW r \in Runs, Task(r), pc[r] # "idle"
    PROVE  /\ EndTask(r) => pc'[r] = "idle" /\ r \notin live'
           /\ \A l : Goto(r, l) => pc'[r] = l /\ r \in live'
  BY DEF TypeOK, Task, EndTask, Goto

\* Scripts start: once more than before, or not at all.
LEMMA ScriptsStart ==
    ASSUME TypeOK, NEW r \in Runs, Task(r), NEW result, NEW l, StartScripts(r, result, l), pc[r] \in Before
    PROVE  /\ pc'[r] = l /\ r \in live' /\ posts'[r] <= 1
           /\ UNCHANGED <<run, child, op, worker, cancel, restarts>>
  <1>1. posts[r] = 0 /\ pc[r] # "idle"
    BY DEF Task, Before
  <1>2. posts'[r] \in {0, 1}
    BY <1>1 DEF StartScripts, TypeOK
  <1>3. QED
    BY <1>1, <1>2, TaskGoes DEF StartScripts

\* The agents have answered: the pre-backup scripts start.
LEMMA StartPreHooksKeeps ==
    ASSUME TypeOK, NEW r \in Runs, Task(r), Sound(r), \A c \in Repos : Place(r, c) /\ Closing(r, c),
           StartPreHooks(r)
    PROVE  Task(r)' /\ Sound(r)' /\ \A c \in Repos : Place(r, c)' /\ Closing(r, c)'
  <1>1. /\ pc[r] = "agents" /\ posts'[r] = 0
        /\ UNCHANGED <<child, op, worker, cancel, restarts>>
    BY DEF StartPreHooks, Task, Before
  <1>2. \A c \in Repos : worker[r][c] \notin Moving /\ op[r][c] \notin OpActive
    BY <1>1 DEF Place, Moving, Working
  <1>3. CASE FinalizeRun(r, child[r], FALSE) /\ EndTask(r)
    <2>1. /\ run'[r] \in RunTerminal \cup {"skipped"} /\ Sound(r)'
          /\ run[r] = "cancelled" => run'[r] = "cancelled"
      BY <1>1, <1>3, FinalizeSound
    <2>2. pc'[r] = "idle" /\ r \notin live'
      BY <1>1, <1>3, TaskGoes
    <2>3. QED
      BY <1>1, <1>2, <2>1, <2>2, TaskMovesOn DEF Driving, RunActive, RunTerminal
  <1>4. CASE Goto(r, "pre") /\ UNCHANGED run
    <2>1. pc'[r] = "pre" /\ r \in live'
      BY <1>1, <1>4, TaskGoes
    <2>2. QED
      BY <1>1, <1>2, <1>4, <2>1, TaskMovesOn DEF Driving, Before
  <1>5. QED
    BY <1>3, <1>4 DEF StartPreHooks

\* Every repository is done: the post-backup scripts start.
LEMMA StartPostHooksKeeps ==
    ASSUME TypeOK, NEW r \in Runs, Task(r), Sound(r), \A c \in Repos : Place(r, c) /\ Closing(r, c),
           StartPostHooks(r)
    PROVE  Task(r)' /\ Sound(r)' /\ \A c \in Repos : Place(r, c)' /\ Closing(r, c)'
  <1>1. /\ pc[r] = "repos" /\ \A c \in Repos : worker[r][c] \in {"none", "done"}
        /\ \E result : StartScripts(r, result, "post")
    BY DEF StartPostHooks
  <1>2. /\ pc'[r] = "post" /\ r \in live' /\ posts'[r] <= 1
        /\ UNCHANGED <<run, child, op, worker, cancel, restarts>>
    BY <1>1, ScriptsStart DEF Before
  <1>3. QED
    BY <1>1, <1>2, TaskMovesOn DEF Driving, Moving, Working

\* The handler of a run that raised.
LEMMA RunRaisedKeeps ==
    ASSUME TypeOK, NEW r \in Runs, Task(r), Sound(r), \A c \in Repos : Place(r, c) /\ Closing(r, c),
           RunRaised(r)
    PROVE  Task(r)' /\ Sound(r)' /\ \A c \in Repos : Place(r, c)' /\ Closing(r, c)'
  <1>1. pc[r] = "except" /\ posts[r] = 0
    BY DEF RunRaised, Task, Before
  <1>2. CASE StartScripts(r, "failure", "failpost")
    <2>1. /\ pc'[r] = "failpost" /\ r \in live' /\ posts'[r] <= 1
          /\ UNCHANGED <<run, child, op, worker, cancel, restarts>>
      BY <1>1, <1>2, ScriptsStart DEF Before
    <2>2. QED
      BY <1>1, <2>1, TaskMovesOn DEF Driving
  <1>3. CASE MarkRunFailed(r) /\ EndTask(r) /\ UNCHANGED <<child, op, posts, worker, cancel, restarts>>
    <2>1. pc'[r] = "idle" /\ r \notin live'
      BY <1>1, <1>3, TaskGoes
    <2>2. \A c \in Repos : op[r][c] \notin OpActive \/ worker[r][c] = "wait"
      BY <1>1 DEF Place
    <2>3. QED
      BY <1>1, <1>3, <2>1, <2>2, MarkFailed, TaskMovesOn DEF Driving, RunActive
  <1>4. QED
    BY <1>2, <1>3 DEF RunRaised

\* The post-backup scripts end, and the task with them.
LEMMA EndPostHooksKeeps ==
    ASSUME TypeOK, NEW r \in Runs, Task(r), Sound(r), \A c \in Repos : Place(r, c) /\ Closing(r, c),
           EndPostHooks(r)
    PROVE  Task(r)' /\ Sound(r)' /\ \A c \in Repos : Place(r, c)' /\ Closing(r, c)'
  <1>1. /\ pc[r] \in {"post", "failpost"} /\ EndTask(r)
        /\ UNCHANGED <<child, op, posts, worker, cancel, restarts>>
    BY DEF EndPostHooks
  <1>2. /\ pc'[r] = "idle" /\ r \notin live' /\ posts'[r] <= 1
        /\ \A c \in Repos : op[r][c] \notin OpActive \/ worker[r][c] = "wait"
    BY <1>1, TaskGoes DEF Place, Task
  <1>3. CASE pc[r] = "failpost"
    <2>1. MarkRunFailed(r)
      BY <1>3 DEF EndPostHooks
    <2>2. QED
      BY <1>1, <1>2, <2>1, MarkFailed, TaskMovesOn DEF Driving, RunActive
  <1>4. CASE pc[r] = "post"
    <2>1. PICK warn : FinalizeRun(r, child[r], warn)
      BY <1>4 DEF EndPostHooks
    <2>2. /\ run'[r] \in RunTerminal \cup {"skipped"} /\ Sound(r)'
          /\ run[r] = "cancelled" => run'[r] = "cancelled"
      BY <1>1, <2>1, FinalizeSound
    <2>3. \A c \in Repos : worker[r][c] \notin Moving
      BY <1>4 DEF Place
    <2>4. QED
      BY <1>1, <1>2, <2>2, <2>3, TaskMovesOn DEF Driving, RunActive, RunTerminal
  <1>5. QED
    BY <1>1, <1>3, <1>4

\* The scripts a restart left are started or written off.
LEMMA LeftHooksKeeps ==
    ASSUME TypeOK, NEW r \in Runs, Task(r), Sound(r), \A c \in Repos : Place(r, c) /\ Closing(r, c),
           StartLeftHooks(r) \/ SettleLeftHooks(r)
    PROVE  Task(r)' /\ Sound(r)' /\ \A c \in Repos : Place(r, c)' /\ Closing(r, c)'
  <1>1. CASE StartLeftHooks(r)
    <2>1. /\ pc[r] = "left" /\ \A c \in Repos : op[r][c] \notin OpActive
          /\ StartScripts(r, "failure", "leftpost")
      BY <1>1 DEF StartLeftHooks
    <2>2. /\ pc'[r] = "leftpost" /\ r \in live' /\ posts'[r] <= 1
          /\ UNCHANGED <<run, child, op, worker, cancel, restarts>>
      BY <2>1, ScriptsStart DEF Before
    <2>3. QED
      BY <2>1, <2>2, TaskMovesOn
  <1>2. CASE SettleLeftHooks(r)
    <2>1. /\ pc[r] = "leftpost" /\ EndTask(r) /\ posts[r] <= 1 /\ run[r] \notin RunActive
          /\ UNCHANGED <<run, child, op, posts, worker, cancel, restarts>>
      BY <1>2 DEF SettleLeftHooks, Task
    <2>2. pc'[r] = "idle" /\ r \notin live'
      BY <2>1, TaskGoes
    <2>3. QED
      BY <2>1, <2>2, TaskMovesOn
  <1>3. QED
    BY <1>1, <1>2

\* The task of a new run reads its plan and marks the run running.
LEMMA PrepareRunKeeps ==
    ASSUME TypeOK, NEW r \in Runs, Task(r), Sound(r), \A c \in Repos : Place(r, c) /\ Closing(r, c),
           PrepareRun(r)
    PROVE  Task(r)' /\ Sound(r)' /\ \A c \in Repos : Place(r, c)' /\ Closing(r, c)'
  <1>1. /\ pc[r] = "begin" /\ posts'[r] = 0 /\ run[r] = "pending" /\ cancel.run # r
        /\ UNCHANGED <<cancel, restarts>>
        /\ \A c \in Repos : worker[r][c] = "none" /\ op[r][c] = "none"
    BY DEF PrepareRun, Task, Before, Place
  <1>2. CASE MarkRunFailed(r) /\ EndTask(r) /\ UNCHANGED <<child, op, pre, worker>>
    <2>1. pc'[r] = "idle" /\ r \notin live'
      BY <1>1, <1>2, TaskGoes
    <2>2. QED
      BY <1>1, <1>2, <2>1, MarkFailed, TaskMovesOn DEF RunActive, Moving, Working, OpActive
  <1>3. ASSUME NEW S \in SUBSET (AgentRepos \cap Kids(r)), SkipIfAgentOffline(r, S),
               run' = [run EXCEPT ![r] = "running"],
               worker' = [worker EXCEPT ![r] = [c \in Repos |->
                             IF c \in Kids(r) THEN IF c \in S THEN "done" ELSE "ready" ELSE "none"]],
               Goto(r, "pre") \/ Goto(r, "agents")
        PROVE  Task(r)' /\ Sound(r)' /\ \A c \in Repos : Place(r, c)' /\ Closing(r, c)'
    <2>1. run'[r] = "running" /\ pc'[r] \in {"pre", "agents"} /\ r \in live'
      BY <1>1, <1>3, TaskGoes DEF TypeOK
    <2>2. \A c \in Repos : /\ worker'[r][c] \in {"none", "done", "ready"}
                           /\ op'[r][c] \in {"none", "skipped"}
                           /\ worker'[r][c] = "ready" => child[r][c] # "none"
                           /\ child[r][c] # "none" => child'[r][c] # "none"
      BY <1>1, <1>3 DEF SkipIfAgentOffline, UpdateChildren, TypeOK, Kids
    <2>3. Task(r)' /\ Sound(r)'
      BY <1>1, <2>1 DEF Task, Sound, Driving, Success
    <2>4. ASSUME NEW c \in Repos PROVE Place(r, c)'
      BY <1>1, <2>1, <2>2 DEF Place, Moving, Working, OpActive
    <2>5. ASSUME NEW c \in Repos PROVE Closing(r, c)'
      BY <1>1, <2>1, <2>2 DEF Closing
    <2>6. QED
      BY <2>3, <2>4, <2>5
  <1>4. QED
    BY <1>2, <1>3 DEF PrepareRun

\* The pre-backup scripts end: the repositories follow, or the run fails.
LEMMA EndPreHooksKeeps ==
    ASSUME TypeOK, NEW r \in Runs, Task(r), Sound(r), \A c \in Repos : Place(r, c) /\ Closing(r, c),
           EndPreHooks(r)
    PROVE  Task(r)' /\ Sound(r)' /\ \A c \in Repos : Place(r, c)' /\ Closing(r, c)'
  <1>1. /\ pc[r] = "pre" /\ posts'[r] = 0 /\ run[r] \in {"running", "cancelled"}
        /\ UNCHANGED <<worker, cancel, restarts>>
    BY DEF EndPreHooks, Task, Before, Driving
  <1>2. \A c \in Repos : worker[r][c] \notin Moving /\ op[r][c] \notin OpActive
    BY <1>1 DEF Place, Moving, Working
  <1>3. CASE Goto(r, "repos") /\ UNCHANGED <<run, child, op, pre>>
    <2>1. pc'[r] = "repos" /\ r \in live'
      BY <1>1, <1>3, TaskGoes
    <2>2. QED
      BY <1>1, <1>2, <1>3, <2>1, TaskMovesOn DEF Driving, Before
  <1>4. CASE /\ child' = UpdateChildren(r, Repos, {"pending"}, "skipped")
             /\ FinalizeRun(r, child'[r], TRUE) /\ EndTask(r) /\ UNCHANGED op
    <2>1. pc'[r] = "idle" /\ r \notin live'
      BY <1>1, <1>4, TaskGoes
    <2>2. \A c \in Repos : child'[r][c] = "none" <=> child[r][c] = "none"
      BY <1>4 DEF UpdateChildren, TypeOK
    <2>3. /\ run'[r] \in RunTerminal \cup {"skipped"} /\ Sound(r)'
      BY <1>4, <2>2, FinalizeSound
    <2>4. Task(r)'
      BY <1>1, <2>1, <2>3 DEF Task, Driving, Before, RunTerminal
    <2>5. ASSUME NEW c \in Repos PROVE Place(r, c)'
      BY <1>1, <1>2, <1>4, <2>1, <2>2, <2>3 DEF Place, RunTerminal, RunActive, Moving, Working
    <2>6. ASSUME NEW c \in Repos PROVE Closing(r, c)'
      BY <1>1, <1>2, <2>1 DEF Closing, ToClaim, Driving, Moving, Working
    <2>7. QED
      BY <2>3, <2>4, <2>5, <2>6
  <1>5. CASE FailRepositories(r, Repos, {"pending"}) /\ Goto(r, "except") /\ UNCHANGED <<run, pre>>
    <2>1. pc'[r] = "except" /\ r \in live'
      BY <1>1, <1>5, TaskGoes
    <2>2. \A c \in Repos : /\ child'[r][c] \in {child[r][c], "failed"}
                           /\ op'[r][c] \in {op[r][c], "failed"}
      BY <1>5 DEF FailRepositories, UpdateChildren, TypeOK
    <2>3. Task(r)' /\ Sound(r)'
      BY <1>1, <1>5, <2>1 DEF Task, Driving, Before, Sound, Success
    <2>4. ASSUME NEW c \in Repos PROVE Place(r, c)'
      BY <1>1, <1>2, <1>5, <2>1, <2>2 DEF Place, OpActive, Moving, Working
    <2>5. ASSUME NEW c \in Repos PROVE Closing(r, c)'
      BY <1>1, <1>2, <1>5, <2>1, <2>2 DEF Closing, ToClaim, Driving, Moving, Working, ChildTerminal
    <2>6. QED
      BY <2>3, <2>4, <2>5
  <1>6. QED
    BY <1>3, <1>4, <1>5 DEF EndPreHooks

\* The run's task, whatever it does.
LEMMA TaskKeeps ==
    ASSUME TypeOK, NEW r \in Runs, Task(r), Sound(r), \A c \in Repos : Place(r, c) /\ Closing(r, c),
           Places, TaskStep(r)
    PROVE  Task(r)' /\ Sound(r)' /\ \A c \in Repos : Place(r, c)' /\ Closing(r, c)'
  <1>1. CASE SeriesStep(r)
    BY <1>1, SeriesMoves, MovesKeep
  <1>2. QED
    BY <1>1, PrepareRunKeeps, StartPreHooksKeeps, EndPreHooksKeeps, StartPostHooksKeeps,
       RunRaisedKeeps, EndPostHooksKeeps, LeftHooksKeeps DEF TaskStep

------------------------------------------------------------------------------
(* The cancel route and a restart. *)

\* The cancel route: it closes what is open, or reads it for its commit.
LEMMA CancelRunKeeps ==
    ASSUME TypeOK, NEW r \in Runs, Task(r), Sound(r), \A c \in Repos : Place(r, c) /\ Closing(r, c),
           CancelRun(r)
    PROVE  Task(r)' /\ Sound(r)' /\ \A c \in Repos : Place(r, c)' /\ Closing(r, c)'
  <1>1. /\ run[r] \notin RunTerminal \cup {"none"} /\ pc[r] # "begin" /\ cancel = NoCancel
        /\ UNCHANGED <<pre, posts, pc, worker, live, restarts>>
    BY DEF CancelRun, CanCancel
  <1>2. \A c \in Repos : op'[r][c] \in {op[r][c], "cancelled"}
    BY DEF CancelRun, RequestCancel, TypeOK
  <1>3. cancel.run # r
    BY <1>1 DEF NoCancel, Runs
  <1>4. CASE CloseRun(CancelReads(r)) /\ UNCHANGED cancel
    <2>1. run'[r] = "cancelled"
      BY <1>4 DEF CloseRun, CancelReads, TypeOK
    <2>2. \A c \in Repos : IF child[r][c] # "none" /\ child[r][c] \notin ChildTerminal
                           THEN child'[r][c] = "cancelled" ELSE child'[r][c] = child[r][c]
      BY <1>4 DEF CloseRun, CancelReads, OpenChildren, Kids, TypeOK
    <2>3. Task(r)' /\ Sound(r)'
      BY <1>1, <1>3, <1>4, <2>1 DEF Task, Sound, Success, RunActive
    <2>4. ASSUME NEW c \in Repos PROVE Place(r, c)'
      BY <1>1, <1>2, <2>1, <2>2 DEF Place, OpActive, RunActive
    <2>5. ASSUME NEW c \in Repos PROVE Closing(r, c)'
      <3>1. ToClaim(r, c) => child[r][c] # "none"
        BY DEF ToClaim, Place, Moving, Working
      <3>2. QED
        BY <1>1, <2>2, <3>1 DEF Closing, ToClaim, ChildTerminal
    <2>6. QED
      BY <2>3, <2>4, <2>5
  <1>5. CASE cancel' = CancelReads(r) /\ UNCHANGED <<run, child>>
    <2>1. cancel'.run = r /\ cancel'.open = OpenChildren(r)
      BY <1>5 DEF CancelReads
    <2>2. Task(r)' /\ Sound(r)'
      BY <1>1, <1>5, <2>1 DEF Task, Sound, Kids
    <2>3. ASSUME NEW c \in Repos PROVE Place(r, c)'
      BY <1>1, <1>2, <1>5 DEF Place, OpActive
    <2>4. ASSUME NEW c \in Repos PROVE Closing(r, c)'
      <3>1. ToClaim(r, c) => child[r][c] # "none"
        BY DEF ToClaim, Place, Moving, Working
      <3>2. QED
        BY <1>1, <1>5, <2>1, <3>1 DEF Closing, ToClaim, OpenChildren, Kids, RunTerminal
    <2>5. QED
      BY <2>2, <2>3, <2>4
  <1>6. QED
    BY <1>4, <1>5 DEF CancelRun

\* Its commit closes what it read, which is all that may still claim a backup.
LEMMA CommitKeeps ==
    ASSUME TypeOK, NEW q \in Runs, Task(q), Sound(q), \A c \in Repos : Place(q, c) /\ Closing(q, c),
           CancelCommits
    PROVE  Task(q)' /\ Sound(q)' /\ \A c \in Repos : Place(q, c)' /\ Closing(q, c)'
  <1>1. cancel'.run = 0 /\ UNCHANGED <<op, pre, posts, pc, worker, live, restarts>>
    BY DEF CancelCommits, NoCancel
  <1>2. cancel'.run # q
    BY <1>1 DEF Runs
  <1>3. CASE cancel.run # q
    <2>1. run'[q] = run[q] /\ child'[q] = child[q] /\ marker'[q] = marker[q]
      BY <1>3 DEF CancelCommits, CloseRun, TypeOK
    <2>2. Elsewhere(q)
      BY <1>1, <1>2, <1>3, <2>1 DEF Elsewhere
    <2>3. QED
      BY <2>2, ElsewhereKeeps
  <1>4. CASE cancel.run = q
    <2>1. run'[q] = "cancelled" /\ run[q] # "none" /\ pc[q] # "begin"
      BY <1>4 DEF CancelCommits, CloseRun, TypeOK, Task
    <2>2. \A c \in Repos : IF c \in cancel.open THEN child'[q][c] = "cancelled"
                           ELSE child'[q][c] = child[q][c]
      BY <1>4 DEF CancelCommits, CloseRun, TypeOK
    <2>3. Task(q)' /\ Sound(q)'
      BY <1>1, <1>2, <2>1 DEF Task, Sound, Success, RunActive
    <2>4. ASSUME NEW c \in Repos PROVE Place(q, c)'
      BY <1>1, <2>1, <2>2 DEF Place, RunActive
    <2>5. ASSUME NEW c \in Repos PROVE Closing(q, c)'
      BY <1>1, <1>4, <2>2 DEF Closing, ToClaim, ChildTerminal
    <2>6. QED
      BY <2>3, <2>4, <2>5
  <1>5. QED
    BY <1>3, <1>4

\* A restart leaves the rows and no task.
LEMMA CrashKeeps ==
    ASSUME TypeOK, NEW q \in Runs, Task(q), Sound(q), \A c \in Repos : Place(q, c) /\ Closing(q, c),
           Crash
    PROVE  Task(q)' /\ Sound(q)' /\ \A c \in Repos : Place(q, c)' /\ Closing(q, c)'
  <1>1. /\ pc'[q] = "idle" /\ q \notin live' /\ cancel'.run = 0 /\ restarts' = restarts + 1
        /\ UNCHANGED <<run, child, op, pre, posts>>
        /\ \A c \in Repos : worker'[q][c] = "none"
    BY DEF Crash, NoCancel
  <1>2. restarts' > 0 /\ cancel'.run # q
    BY <1>1, PlanAssumption DEF TypeOK, Runs
  <1>3. Task(q)' /\ Sound(q)'
    BY <1>1, <1>2 DEF Task, Sound, Kids, Driving, Before
  <1>4. ASSUME NEW c \in Repos PROVE Place(q, c)' /\ Closing(q, c)'
    BY <1>1, <1>2 DEF Place, Closing, ToClaim, Moving, Working
  <1>5. QED
    BY <1>3, <1>4

\* The verdict of an interrupted run is sound, and never an open status.
LEMMA InterruptedSound ==
    ASSUME NEW r \in Runs
    PROVE  /\ InterruptedVerdict(r) \in RunTerminal
           /\ InterruptedVerdict(r) \in Success => \A c \in Kids(r) : ~IsFailure(InterruptedChild(r)[c])
           /\ InterruptedVerdict(r) = "completed" =>
                 \A c \in Kids(r) : InterruptedChild(r)[c] = "completed"
  <1> DEFINE v == Verdict(InterruptedChild(r), Kids(r), FALSE)
  <1>1. /\ v \in RunTerminal
        /\ v \in Success => \A c \in Kids(r) : ~IsFailure(InterruptedChild(r)[c])
        /\ v = "completed" => \A c \in Kids(r) : InterruptedChild(r)[c] = "completed"
    BY VerdictSound
  <1>2. \/ InterruptedVerdict(r) = v
        \/ InterruptedVerdict(r) = "failed"
        \/ v = "completed" /\ InterruptedVerdict(r) = "completed_with_warnings"
    BY DEF InterruptedVerdict
  <1> HIDE DEF v
  <1>3. QED
    BY <1>1, <1>2 DEF RunTerminal, Success

\* The sweep closes the interrupted runs and starts the scripts that are owed.
LEMMA SweepKeeps ==
    ASSUME TypeOK, NEW q \in Runs, Task(q), Sound(q), \A c \in Repos : Place(q, c) /\ Closing(q, c),
           Sweep
    PROVE  Task(q)' /\ Sound(q)' /\ \A c \in Repos : Place(q, c)' /\ Closing(q, c)'
  <1> DEFINE left == StillPending \cup {r \in Interrupted : PostScriptsAfterRestart(r) = "pending"}
  <1>1. /\ live' = live \cup left /\ pc'[q] = (IF q \in left THEN "left" ELSE pc[q])
        /\ UNCHANGED <<pre, posts, worker, cancel, restarts>>
    BY DEF Sweep
  <1>2. /\ run'[q] = IF q \in Interrupted THEN InterruptedVerdict(q) ELSE run[q]
        /\ child'[q] = IF q \in Interrupted THEN InterruptedChild(q) ELSE child[q]
        /\ \A c \in Repos : op'[q][c] \in {op[q][c], "failed", "cancelled"}
        /\ \A c \in Repos : op'[q][c] \in OpActive => q \notin Interrupted /\ op[q][c] \in OpActive
        /\ \A c \in Repos : op[q][c] = "none" => op'[q][c] = "none"
    BY DEF Sweep, NormalizeInterruptedRuns, OpActive
  <1>3. q \in left =>
          /\ q \notin live /\ pc[q] = "idle" /\ posts[q] = 0 /\ pre[q] # "none"
          /\ q \in Interrupted \/ run[q] \notin RunActive
    <2>1. PostScriptsAfterRestart(q) = "pending" => ~(posts[q] > 0) /\ pre[q] # "none"
      BY DEF PostScriptsAfterRestart
    <2>2. posts[q] \in 0 .. 2
      BY DEF TypeOK
    <2>3. QED
      BY <2>1, <2>2 DEF StillPending, Interrupted, Task
  <1>4. q \in Interrupted => /\ pc[q] = "idle" /\ run[q] \in RunActive
                             /\ \A c \in Repos : worker[q][c] = "none"
    BY DEF Interrupted, Task, Place
  <1>5. InterruptedVerdict(q) \in RunTerminal
    BY InterruptedSound
  <1>n. q \in left => run[q] # "none"
    BY <1>3 DEF Task
  <1> HIDE DEF left
  <1>6. Task(q)'
    BY <1>1, <1>2, <1>3, <1>4, <1>5, <1>n DEF Task, Driving, Before, RunTerminal, RunActive
  <1>7. Sound(q)'
    <2>1. CASE q \in Interrupted
      <3>1. Kids(q)' = Kids(q)
        BY <1>2, <2>1 DEF Kids, InterruptedChild, RunActive
      <3>2. QED
        BY <1>2, <2>1, <3>1, InterruptedSound DEF Sound
    <2>2. CASE q \notin Interrupted
      BY <1>2, <2>2 DEF Sound, Kids
    <2>3. QED
      BY <2>1, <2>2
  <1>8. ASSUME NEW c \in Repos PROVE Place(q, c)'
    <2>1. CASE q \in Interrupted
      BY <1>1, <1>2, <1>3, <1>4, <1>5, <2>1 DEF Place, Moving, Working, RunTerminal, RunActive
    <2>2. CASE q \notin Interrupted
      BY <1>1, <1>2, <1>3, <2>2 DEF Place, Moving, Working, OpActive
    <2>3. QED
      BY <2>1, <2>2
  <1>9. ASSUME NEW c \in Repos PROVE Closing(q, c)'
    BY <1>1, <1>2, <1>3, <1>4 DEF Closing, ToClaim, Driving
  <1>10. QED
    BY <1>6, <1>7, <1>8, <1>9

\* Every step keeps every run's part of the invariant.
LEMMA PartsStep ==
    ASSUME IInv, [Next]_vars
    PROVE  Tasks' /\ Places' /\ Closings' /\ Sounds'
  <1>0. TypeOK /\ Places
    BY DEF IInv
  <1>1. ASSUME NEW q \in Runs
        PROVE  Task(q)' /\ Sound(q)' /\ \A c \in Repos : Place(q, c)' /\ Closing(q, c)'
    <2>1. Task(q) /\ Sound(q) /\ \A c \in Repos : Place(q, c) /\ Closing(q, c)
      BY DEF IInv, Tasks, Sounds, Places, Closings
    <2>2. ASSUME RunStep(q) PROVE Task(q)' /\ Sound(q)' /\ \A c \in Repos : Place(q, c)' /\ Closing(q, c)'
      <3>1. CASE TaskStep(q)
        BY <1>0, <2>1, <3>1, TaskKeeps
      <3>2. CASE CancelRun(q)
        BY <1>0, <2>1, <3>2, CancelRunKeeps
      <3>3. CASE \E c \in Repos : WorkerStep(q, c) \/ RunnerStep(q, c)
        <4>1. WorkersMove(q)
          BY <1>0, <3>3, StepMoves
        <4>2. QED
          BY <2>1, <4>1, MovesKeep
      <3>4. QED
        BY <1>0, <2>1, <2>2, <3>1, <3>2, <3>3, StartKeeps DEF RunStep
    <2>3. ASSUME NEW r \in Runs, RunStep(r)
          PROVE  Task(q)' /\ Sound(q)' /\ \A c \in Repos : Place(q, c)' /\ Closing(q, c)'
      <3>1. CASE q = r
        BY <2>2, <2>3, <3>1
      <3>2. CASE q # r
        <4>1. Elsewhere(q)
          BY <1>0, <2>3, <3>2, RunElsewhere
        <4>2. QED
          BY <2>1, <4>1, ElsewhereKeeps
      <3>3. QED
        BY <3>1, <3>2
    <2>4. CASE CancelCommits
      BY <1>0, <2>1, <2>4, CommitKeeps
    <2>5. CASE Crash
      BY <1>0, <2>1, <2>5, CrashKeeps
    <2>6. CASE Sweep
      BY <1>0, <2>1, <2>6, SweepKeeps
    <2>7. CASE UNCHANGED vars
      <3>1. Elsewhere(q)
        BY <2>7 DEF vars, rows, Elsewhere
      <3>2. QED
        BY <2>1, <3>1, ElsewhereKeeps
    <2>8. QED
      BY <2>3, <2>4, <2>5, <2>6, <2>7 DEF Next, RunStep
  <1>2. QED
    BY <1>1 DEF Tasks, Sounds, Places, Closings

------------------------------------------------------------------------------
(* Types. *)

RunT == RunActive \cup RunTerminal \cup {"none", "skipped"}
ChildT == {"none", "pending", "running", "skipped"} \cup ChildTerminal
OpT == {"none", "skipped"} \cup OpActive \cup ChildTerminal
PcT == {"idle", "begin", "agents", "pre", "repos", "except", "left"} \cup Hooking
WorkerT == {"none", "ready", "slot", "done"} \cup Working

\* The type invariant in three parts: the rows, the task and its coroutines, the rest.
RowsTyped ==
    /\ run \in [Runs -> RunT] /\ child \in [Runs -> [Repos -> ChildT]]
    /\ op \in [Runs -> [Repos -> OpT]] /\ flagged \subseteq Runs \X Repos
    /\ marker \in [Runs -> {"none", "cancel", "restart"}]
    /\ pre \in [Runs -> {"none", "ran", "skipped"}] /\ posts \in [Runs -> 0 .. 2]
TasksTyped ==
    /\ pc \in [Runs -> PcT] /\ worker \in [Runs -> [Repos -> WorkerT]]
    /\ stopped \in [Runs -> BOOLEAN] /\ live \subseteq Runs
RestTyped ==
    /\ cancel \in [run : 0 .. MaxRuns, open : SUBSET Repos, marks : BOOLEAN]
    /\ probe \in BOOLEAN /\ swept \in BOOLEAN
    /\ restarts \in 0 .. MaxRestarts /\ cancels \in 0 .. MaxCancels

\* They are the type invariant, before and after a step.
LEMMA Typed ==
    /\ TypeOK <=> RowsTyped /\ TasksTyped /\ RestTyped
    /\ TypeOK' <=> RowsTyped' /\ TasksTyped' /\ RestTyped'
  BY DEF TypeOK, RowsTyped, TasksTyped, RestTyped, RunT, ChildT, OpT, PcT, WorkerT

\* A conditional UPDATE writes a status.
LEMMA UpdateTyped ==
    ASSUME RowsTyped, NEW r \in Runs, NEW S, NEW from, NEW t \in ChildT
    PROVE  UpdateChildren(r, S, from, t) \in [Runs -> [Repos -> ChildT]]
  BY DEF RowsTyped, UpdateChildren

\* Finalising a run writes a status.
LEMMA FinalizeTyped ==
    ASSUME RowsTyped, NEW r \in Runs, NEW ch, NEW warn, FinalizeRun(r, ch, warn)
    PROVE  run' \in [Runs -> RunT]
  <1>1. Verdict(ch, Kids(r), warn) \in RunT
    BY VerdictSound DEF RunT
  <1>2. "skipped" \in RunT
    BY DEF RunT
  <1>3. QED
    BY <1>1, <1>2 DEF FinalizeRun, RowsTyped

\* A coroutine that returns is done, and may stop the run.
LEMMA ReturnsTyped ==
    ASSUME TasksTyped, NEW r \in Runs, NEW c \in Repos, NEW t, Returns(r, c, t)
    PROVE  worker' \in [Runs -> [Repos -> WorkerT]] /\ stopped' \in [Runs -> BOOLEAN]
  <1>1. worker' \in [Runs -> [Repos -> WorkerT]]
    BY DEF TasksTyped, Returns, WorkerT
  <1>2. stopped' \in [Runs -> BOOLEAN]
    BY DEF TasksTyped, Returns
  <1>3. QED
    BY <1>1, <1>2

\* A failed child, and its failed operation.
LEMMA FailTyped ==
    ASSUME RowsTyped, NEW r \in Runs, NEW S, NEW from, FailRepositories(r, S, from)
    PROVE  child' \in [Runs -> [Repos -> ChildT]] /\ op' \in [Runs -> [Repos -> OpT]]
  <1>1. "failed" \in ChildT /\ "failed" \in OpT
    BY DEF ChildT, OpT, ChildTerminal
  <1>2. child' \in [Runs -> [Repos -> ChildT]]
    BY <1>1, UpdateTyped DEF FailRepositories
  <1>3. op' \in [Runs -> [Repos -> OpT]]
    BY <1>1 DEF FailRepositories, RowsTyped
  <1>4. QED
    BY <1>2, <1>3

\* Agents that are away.
LEMMA SkipTyped ==
    ASSUME RowsTyped, NEW r \in Runs, NEW S, SkipIfAgentOffline(r, S)
    PROVE  child' \in [Runs -> [Repos -> ChildT]] /\ op' \in [Runs -> [Repos -> OpT]]
  <1>1. "skipped" \in ChildT /\ "skipped" \in OpT
    BY DEF ChildT, OpT
  <1>2. child' \in [Runs -> [Repos -> ChildT]]
    BY <1>1, UpdateTyped DEF SkipIfAgentOffline
  <1>3. op' \in [Runs -> [Repos -> OpT]]
    BY <1>1 DEF SkipIfAgentOffline, RowsTyped
  <1>4. QED
    BY <1>2, <1>3

\* Where a task goes.
LEMMA GoTyped ==
    ASSUME TasksTyped, NEW r \in Runs
    PROVE  /\ EndTask(r) => pc' \in [Runs -> PcT] /\ live' \subseteq Runs
           /\ \A l \in PcT : Goto(r, l) => pc' \in [Runs -> PcT] /\ live' \subseteq Runs
  BY DEF TasksTyped, EndTask, Goto, PcT

\* Scripts that start.
LEMMA ScriptsTyped ==
    ASSUME RowsTyped, TasksTyped, RestTyped, NEW r \in Runs, posts[r] <= 1, NEW result, NEW l \in PcT,
           StartScripts(r, result, l)
    PROVE  RowsTyped' /\ TasksTyped' /\ RestTyped'
  <1>1. posts' \in [Runs -> 0 .. 2]
    <2>1. posts[r] + 1 \in 0 .. 2
      BY DEF RowsTyped
    <2>2. QED
      BY <2>1 DEF StartScripts, RowsTyped
  <1>2. RowsTyped'
    BY <1>1 DEF StartScripts, RowsTyped
  <1>3. pc' \in [Runs -> PcT] /\ live' \subseteq Runs /\ UNCHANGED <<worker, stopped>>
    BY GoTyped DEF StartScripts
  <1>4. TasksTyped' /\ RestTyped'
    BY <1>3 DEF TasksTyped, RestTyped, StartScripts
  <1>5. QED
    BY <1>2, <1>4

\* The routes and the scheduler.
LEMMA StartTyped ==
    ASSUME TypeOK, NEW r \in Runs,
           RunPlan(r) \/ RetryFailedRun(r) \/ DispatchDue(r) \/ DispatchProbed(r)
    PROVE  TypeOK'
  <1>0. RowsTyped /\ TasksTyped /\ RestTyped
    BY Typed
  <1>1. ASSUME NEW S, Insert(r, S), probe' \in BOOLEAN PROVE TypeOK'
    <2>1. RowsTyped'
      BY <1>0, <1>1 DEF RowsTyped, Insert, RunT, ChildT, RunActive
    <2>2. TasksTyped' /\ RestTyped'
      BY <1>0, <1>1 DEF TasksTyped, RestTyped, Insert, PcT
    <2>3. QED
      BY <2>1, <2>2, Typed
  <1>2. ASSUME NEW t \in {"skipped", "failed"}, RecordRefusal(r, t), probe' \in BOOLEAN PROVE TypeOK'
    <2>1. RowsTyped'
      BY <1>0, <1>2 DEF RowsTyped, RecordRefusal, RunT, ChildT, RunTerminal
    <2>2. TasksTyped' /\ RestTyped'
      BY <1>0, <1>2 DEF TasksTyped, RestTyped, RecordRefusal
    <2>3. QED
      BY <2>1, <2>2, Typed
  <1>3. CASE UNCHANGED <<rows, pc, worker, stopped, live, cancel, swept, restarts, cancels>> /\ probe' = TRUE
    BY <1>3 DEF TypeOK, rows
  <1>4. probe \in BOOLEAN
    BY <1>0 DEF RestTyped
  <1>5. QED
    BY <1>1, <1>2, <1>3, <1>4 DEF RunPlan, RetryFailedRun, DispatchDue, DispatchProbed

\* The run's task, but for its repositories.
LEMMA TaskTyped ==
    ASSUME TypeOK, NEW r \in Runs, Task(r), TaskStep(r), ~SeriesStep(r)
    PROVE  TypeOK'
  <1>0. RowsTyped /\ TasksTyped /\ RestTyped
    BY Typed
  <1>f. MarkRunFailed(r) => run' \in [Runs -> RunT]
    BY <1>0 DEF MarkRunFailed, RowsTyped, RunT, RunTerminal
  <1>p. PreStarts(r) => pre' \in [Runs -> {"none", "ran", "skipped"}]
    BY <1>0 DEF PreStarts, RowsTyped
  <1>l. {"pre", "agents", "repos", "except", "post", "failpost", "leftpost"} \subseteq PcT
    BY DEF PcT, Hooking
  <1>s. posts[r] <= 1
    BY DEF Task
  <1>1. CASE PrepareRun(r)
    <2>1. UNCHANGED <<flagged, marker, posts, stopped, cancel, probe, swept, restarts, cancels>>
      BY <1>1 DEF PrepareRun
    <2>2. /\ run' \in [Runs -> RunT] /\ child' \in [Runs -> [Repos -> ChildT]]
          /\ op' \in [Runs -> [Repos -> OpT]] /\ pre' \in [Runs -> {"none", "ran", "skipped"}]
          /\ pc' \in [Runs -> PcT] /\ live' \subseteq Runs /\ worker' \in [Runs -> [Repos -> WorkerT]]
      <3>1. CASE MarkRunFailed(r) /\ EndTask(r) /\ UNCHANGED <<child, op, pre, worker>>
        BY <1>0, <1>f, <3>1, GoTyped DEF RowsTyped, TasksTyped
      <3>2. CASE /\ run' = [run EXCEPT ![r] = "running"]
                 /\ \E S \in SUBSET (AgentRepos \cap Kids(r)), waits \in BOOLEAN :
                      /\ SkipIfAgentOffline(r, S)
                      /\ worker' = [worker EXCEPT ![r] = [c \in Repos |->
                            IF c \in Kids(r) THEN IF c \in S THEN "done" ELSE "ready" ELSE "none"]]
                      /\ \/ S = {} /\ ~waits /\ PreStarts(r) /\ Goto(r, "pre")
                         \/ (S # {} \/ (waits /\ restarts > 0)) /\ Goto(r, "agents") /\ UNCHANGED pre
        <4>1. run' \in [Runs -> RunT]
          BY <1>0, <3>2 DEF RowsTyped, RunT, RunActive
        <4>2. child' \in [Runs -> [Repos -> ChildT]] /\ op' \in [Runs -> [Repos -> OpT]]
          BY <1>0, <3>2, SkipTyped
        <4>3. worker' \in [Runs -> [Repos -> WorkerT]]
          BY <1>0, <3>2 DEF TasksTyped, WorkerT
        <4>4. pc' \in [Runs -> PcT] /\ live' \subseteq Runs
          BY <1>0, <1>l, <3>2, GoTyped
        <4>5. pre' \in [Runs -> {"none", "ran", "skipped"}]
          BY <1>0, <1>p, <3>2 DEF RowsTyped
        <4>6. QED
          BY <4>1, <4>2, <4>3, <4>4, <4>5
      <3>3. QED
        BY <1>1, <3>1, <3>2 DEF PrepareRun
    <2>3. QED
      BY <1>0, <2>1, <2>2, Typed DEF RowsTyped, TasksTyped, RestTyped
  <1>2. CASE StartPreHooks(r)
    <2>1. UNCHANGED <<child, op, flagged, marker, posts, worker, stopped, cancel, probe, swept, restarts,
                      cancels>>
      BY <1>2 DEF StartPreHooks
    <2>2. /\ run' \in [Runs -> RunT] /\ pre' \in [Runs -> {"none", "ran", "skipped"}]
          /\ pc' \in [Runs -> PcT] /\ live' \subseteq Runs
      <3>1. CASE FinalizeRun(r, child[r], FALSE) /\ EndTask(r) /\ UNCHANGED pre
        BY <1>0, <3>1, FinalizeTyped, GoTyped DEF RowsTyped
      <3>2. CASE PreStarts(r) /\ Goto(r, "pre") /\ UNCHANGED run
        BY <1>0, <1>p, <1>l, <3>2, GoTyped DEF RowsTyped
      <3>3. QED
        BY <1>2, <3>1, <3>2 DEF StartPreHooks
    <2>3. QED
      BY <1>0, <2>1, <2>2, Typed DEF RowsTyped, TasksTyped, RestTyped
  <1>3. CASE EndPreHooks(r)
    <2>1. UNCHANGED <<flagged, marker, posts, worker, stopped, cancel, probe, swept, restarts, cancels>>
      BY <1>3 DEF EndPreHooks
    <2>2. /\ run' \in [Runs -> RunT] /\ child' \in [Runs -> [Repos -> ChildT]]
          /\ op' \in [Runs -> [Repos -> OpT]] /\ pre' \in [Runs -> {"none", "ran", "skipped"}]
          /\ pc' \in [Runs -> PcT] /\ live' \subseteq Runs
      <3>1. CASE Goto(r, "repos") /\ UNCHANGED <<run, child, op, pre>>
        BY <1>0, <1>l, <3>1, GoTyped DEF RowsTyped
      <3>2. CASE /\ child' = UpdateChildren(r, Repos, {"pending"}, "skipped")
                 /\ FinalizeRun(r, child'[r], TRUE) /\ EndTask(r)
                 /\ pre' = [pre EXCEPT ![r] = "skipped"] /\ UNCHANGED op
        <4>1. child' \in [Runs -> [Repos -> ChildT]]
          BY <1>0, <3>2, UpdateTyped DEF ChildT
        <4>2. pre' \in [Runs -> {"none", "ran", "skipped"}]
          BY <1>0, <3>2 DEF RowsTyped
        <4>3. QED
          BY <1>0, <3>2, <4>1, <4>2, FinalizeTyped, GoTyped DEF RowsTyped
      <3>3. CASE FailRepositories(r, Repos, {"pending"}) /\ Goto(r, "except") /\ UNCHANGED <<run, pre>>
        BY <1>0, <1>l, <3>3, FailTyped, GoTyped DEF RowsTyped
      <3>4. QED
        BY <1>3, <3>1, <3>2, <3>3 DEF EndPreHooks
    <2>3. QED
      BY <1>0, <2>1, <2>2, Typed DEF RowsTyped, TasksTyped, RestTyped
  <1>4. CASE \E result : \E l \in PcT : StartScripts(r, result, l)
    BY <1>0, <1>s, <1>4, ScriptsTyped, Typed
  <1>5. CASE StartPostHooks(r) \/ StartLeftHooks(r)
    BY <1>4, <1>5, <1>l DEF StartPostHooks, StartLeftHooks
  <1>6. CASE RunRaised(r)
    <2>1. CASE /\ MarkRunFailed(r) /\ EndTask(r)
               /\ UNCHANGED <<child, op, flagged, marker, pre, posts, worker, stopped, cancel, probe, swept,
                              restarts, cancels>>
      <3>1. run' \in [Runs -> RunT] /\ pc' \in [Runs -> PcT] /\ live' \subseteq Runs
        BY <1>0, <1>f, <2>1, GoTyped
      <3>2. QED
        BY <1>0, <2>1, <3>1, Typed DEF RowsTyped, TasksTyped, RestTyped
    <2>2. QED
      BY <1>4, <1>6, <1>l, <2>1 DEF RunRaised
  <1>7. CASE EndPostHooks(r)
    <2>1. UNCHANGED <<child, op, flagged, pre, posts, worker, stopped, cancel, probe, swept, restarts, cancels>>
      BY <1>7 DEF EndPostHooks
    <2>2. pc' \in [Runs -> PcT] /\ live' \subseteq Runs
      BY <1>0, <1>7, GoTyped DEF EndPostHooks
    <2>3. marker' \in [Runs -> {"none", "cancel", "restart"}]
      BY <1>0, <1>7 DEF EndPostHooks, RowsTyped
    <2>4. run' \in [Runs -> RunT]
      BY <1>0, <1>f, <1>7, FinalizeTyped DEF EndPostHooks
    <2>5. QED
      BY <1>0, <2>1, <2>2, <2>3, <2>4, Typed DEF RowsTyped, TasksTyped, RestTyped
  <1>8. CASE SettleLeftHooks(r)
    <2>1. UNCHANGED <<run, child, op, flagged, pre, posts, worker, stopped, cancel, probe, swept, restarts,
                      cancels>>
      BY <1>8 DEF SettleLeftHooks
    <2>2. pc' \in [Runs -> PcT] /\ live' \subseteq Runs
      BY <1>0, <1>8, GoTyped DEF SettleLeftHooks
    <2>3. marker' \in [Runs -> {"none", "cancel", "restart"}]
      BY <1>0, <1>8 DEF SettleLeftHooks, RowsTyped
    <2>4. QED
      BY <1>0, <2>1, <2>2, <2>3, Typed DEF RowsTyped, TasksTyped, RestTyped
  <1>9. QED
    BY <1>1, <1>2, <1>3, <1>5, <1>6, <1>7, <1>8 DEF TaskStep

\* The coroutines of the repositories, and the task between two of them.
LEMMA WorkerTyped ==
    ASSUME TypeOK, Places, NEW r \in Runs,
           SeriesStep(r) \/ \E c \in Repos : WorkerStep(r, c) \/ RunnerStep(r, c)
    PROVE  TypeOK'
  <1>0. RowsTyped /\ TasksTyped /\ RestTyped
    BY Typed
  <1>r. RestTyped' /\ UNCHANGED <<run, marker, pre, posts, live>>
    <2>1. CASE SeriesStep(r)
      BY <1>0, <2>1 DEF SeriesStep, Others, RestTyped
    <2>2. CASE \E c \in Repos : WorkerStep(r, c) \/ RunnerStep(r, c)
      BY <1>0, <2>2 DEF WorkerStep, RunnerStep, ParallelStep, Enter, Admit, PollSeesCancel, Waited,
         Maintained, OpStarts, OpEnds, Others, RestTyped
    <2>3. QED
      BY <2>1, <2>2
  <1>k. ASSUME child' \in [Runs -> [Repos -> ChildT]], op' \in [Runs -> [Repos -> OpT]],
               flagged' \subseteq Runs \X Repos, pc' \in [Runs -> PcT],
               worker' \in [Runs -> [Repos -> WorkerT]], stopped' \in [Runs -> BOOLEAN]
        PROVE  TypeOK'
    BY <1>0, <1>r, <1>k, Typed DEF RowsTyped, TasksTyped
  <1>u. /\ child \in [Runs -> [Repos -> ChildT]] /\ op \in [Runs -> [Repos -> OpT]]
        /\ flagged \subseteq Runs \X Repos /\ pc \in [Runs -> PcT]
        /\ worker \in [Runs -> [Repos -> WorkerT]] /\ stopped \in [Runs -> BOOLEAN]
    BY <1>0 DEF RowsTyped, TasksTyped
  <1>w. {"done", "slot", "enter", "admit", "wait", "maintain"} \subseteq WorkerT /\ "except" \in PcT
    BY DEF WorkerT, Working, PcT
  <1>d. ASSUME NEW S, DropReady(r, S)
        PROVE  child' \in [Runs -> [Repos -> ChildT]] /\ worker' \in [Runs -> [Repos -> WorkerT]]
    <2>1. {"cancelled", "skipped"} \subseteq ChildT
      BY DEF ChildT, ChildTerminal
    <2>2. child' \in [Runs -> [Repos -> ChildT]]
      BY <1>0, <1>d, <2>1, UpdateTyped DEF DropReady
    <2>3. worker' \in [Runs -> [Repos -> WorkerT]]
      BY <1>u, <1>d, <1>w DEF DropReady
    <2>4. QED
      BY <2>2, <2>3
  <1>1. CASE SeriesStep(r)
    <2>1. UNCHANGED <<op, flagged, stopped>>
      BY <1>1 DEF SeriesStep
    <2>2. pc' \in [Runs -> PcT]
      BY <1>u, <1>w, <1>1 DEF SeriesStep
    <2>3. child' \in [Runs -> [Repos -> ChildT]] /\ worker' \in [Runs -> [Repos -> WorkerT]]
      <3>1. CASE DropReady(r, Ready(r))
        BY <1>d, <3>1
      <3>2. CASE UNCHANGED child /\ \E c \in Repos : worker' = [worker EXCEPT ![r][c] = "enter"]
        BY <1>u, <1>w, <3>2
      <3>3. CASE /\ UNCHANGED child
                 /\ worker' = [worker EXCEPT ![r] = [c \in Repos |-> IF c \in Ready(r) THEN "done" ELSE @[c]]]
        BY <1>u, <1>w, <3>3
      <3>4. QED
        BY <1>1, <3>1, <3>2, <3>3 DEF SeriesStep, Ready
    <2>4. QED
      BY <1>u, <1>k, <2>1, <2>2, <2>3
  <1>2. ASSUME NEW c \in Repos, WorkerStep(r, c) \/ RunnerStep(r, c) PROVE TypeOK'
    <2>p. Place(r, c) /\ op[r][c] \in OpT
      BY <1>u DEF Places
    <2>c. ASSUME NEW t \in ChildT, CloseChild(r, c, t), UNCHANGED <<flagged, pc>> PROVE TypeOK'
      <3>1. child' \in [Runs -> [Repos -> ChildT]] /\ UNCHANGED op
        BY <1>u, <2>c DEF CloseChild
      <3>2. worker' \in [Runs -> [Repos -> WorkerT]] /\ stopped' \in [Runs -> BOOLEAN]
        BY <1>0, <2>c, ReturnsTyped DEF CloseChild
      <3>3. QED
        BY <1>u, <1>k, <2>c, <3>1, <3>2
    <2>f. ASSUME Fails(r, c), UNCHANGED <<flagged, pc>> PROVE TypeOK'
      <3>1. child' \in [Runs -> [Repos -> ChildT]] /\ op' \in [Runs -> [Repos -> OpT]]
        BY <1>0, <2>f, FailTyped DEF Fails
      <3>2. worker' \in [Runs -> [Repos -> WorkerT]] /\ stopped' \in [Runs -> BOOLEAN]
        BY <1>0, <2>f, ReturnsTyped DEF Fails
      <3>3. QED
        BY <1>u, <1>k, <2>f, <3>1, <3>2
    <2>w. ASSUME NEW l \in WorkerT, worker' = [worker EXCEPT ![r][c] = l],
                 UNCHANGED <<child, op, stopped, flagged, pc>> PROVE TypeOK'
      BY <1>u, <1>k, <2>w
    <2>o. ASSUME NEW t \in OpT, op' = [op EXCEPT ![r][c] = t], flagged' \subseteq Runs \X Repos,
                 UNCHANGED <<child, worker, stopped, pc>> PROVE TypeOK'
      BY <1>u, <1>k, <2>o
    <2>t. /\ {"cancelled", "completed_with_warnings"} \subseteq ChildT
          /\ Success \cup {"failed", "cancelled", "skipped", "running"} \subseteq OpT
          /\ op[r][c] \notin OpActive => op[r][c] \in ChildT
      BY <2>p DEF ChildT, ChildTerminal, OpT, OpActive, Success
    <2>1. CASE ParallelStep(r, c)
      <3>1. UNCHANGED <<op, flagged, stopped>>
        BY <2>1 DEF ParallelStep
      <3>2. pc' \in [Runs -> PcT]
        BY <1>u, <1>w, <2>1 DEF ParallelStep
      <3>3. child' \in [Runs -> [Repos -> ChildT]] /\ worker' \in [Runs -> [Repos -> WorkerT]]
        <4>1. CASE DropReady(r, {c})
          BY <1>d, <4>1
        <4>2. CASE UNCHANGED child /\ \E l \in {"done", "slot", "enter"} : worker' = [worker EXCEPT ![r][c] = l]
          BY <1>u, <1>w, <4>2
        <4>3. CASE UNCHANGED child /\ worker' = [worker EXCEPT ![r][c] = IF @ = "ready" THEN "slot" ELSE "enter"]
          BY <1>u, <1>w, <4>3
        <4>4. QED
          BY <2>1, <4>1, <4>2, <4>3 DEF ParallelStep
      <3>4. QED
        BY <1>u, <1>k, <3>1, <3>2, <3>3
    <2>2. CASE Enter(r, c)
      <3>1. CASE SkipIfAgentOffline(r, {c}) /\ Returns(r, c, "skipped")
        <4>1. child' \in [Runs -> [Repos -> ChildT]] /\ op' \in [Runs -> [Repos -> OpT]]
          BY <1>0, <3>1, SkipTyped
        <4>2. worker' \in [Runs -> [Repos -> WorkerT]] /\ stopped' \in [Runs -> BOOLEAN]
          BY <1>0, <3>1, ReturnsTyped
        <4>3. QED
          BY <1>u, <1>k, <2>2, <4>1, <4>2 DEF Enter
      <3>2. QED
        BY <1>w, <2>2, <2>f, <2>w, <3>1 DEF Enter
    <2>3. CASE Admit(r, c)
      <3>1. CASE Claim(r, c)
        <4>1. /\ child' \in [Runs -> [Repos -> ChildT]] /\ op' \in [Runs -> [Repos -> OpT]]
              /\ worker' \in [Runs -> [Repos -> WorkerT]] /\ stopped' \in [Runs -> BOOLEAN]
          <5>1. CASE Returns(r, c, "cancelled") /\ UNCHANGED <<child, op>>
            BY <1>0, <1>u, <5>1, ReturnsTyped
          <5>2. CASE /\ child' = [child EXCEPT ![r][c] = "running"]
                     /\ op' = [op EXCEPT ![r][c] = "queued"]
                     /\ worker' = [worker EXCEPT ![r][c] = "wait"] /\ UNCHANGED stopped
            BY <1>u, <1>w, <5>2 DEF ChildT, OpT, OpActive
          <5>3. QED
            BY <3>1, <5>1, <5>2 DEF Claim
        <4>2. QED
          BY <1>u, <1>k, <2>3, <4>1 DEF Admit
      <3>2. QED
        BY <2>3, <2>c, <2>f, <2>t, <3>1 DEF Admit
    <2>4. CASE PollSeesCancel(r, c)
      <3>1. /\ flagged' \subseteq Runs \X Repos /\ UNCHANGED <<child, worker, stopped, pc>>
            /\ op' = [op EXCEPT ![r][c] = IF op[r][c] = "queued" THEN "cancelled" ELSE op[r][c]]
        BY <1>u, <2>4 DEF PollSeesCancel
      <3>2. (IF op[r][c] = "queued" THEN "cancelled" ELSE op[r][c]) \in OpT
        BY <2>p, <2>t
      <3>3. QED
        BY <2>o, <3>1, <3>2
    <2>5. CASE Waited(r, c)
      BY <1>w, <2>5, <2>c, <2>f, <2>w, <2>t DEF Waited
    <2>6. CASE Maintained(r, c)
      <3>1. op[r][c] \notin OpActive
        BY <2>6, <2>p DEF Maintained, Place
      <3>2. QED
        BY <2>6, <2>c, <2>f, <2>t, <3>1 DEF Maintained
    <2>7. CASE OpStarts(r, c)
      BY <1>u, <2>7, <2>o, <2>t DEF OpStarts
    <2>8. CASE OpEnds(r, c)
      BY <1>u, <2>8, <2>o, <2>t DEF OpEnds
    <2>9. QED
      BY <1>2, <2>1, <2>2, <2>3, <2>4, <2>5, <2>6, <2>7, <2>8 DEF WorkerStep, RunnerStep
  <1>3. QED
    BY <1>1, <1>2

\* The cancel route.
LEMMA CancelTyped ==
    ASSUME TypeOK, NEW r \in Runs, CancelRun(r)
    PROVE  TypeOK'
  <1>0. RowsTyped /\ TasksTyped /\ RestTyped
    BY Typed
  <1>1. op' \in [Runs -> [Repos -> OpT]]
    BY <1>0 DEF CancelRun, RequestCancel, RowsTyped, OpT, ChildTerminal
  <1>2. flagged' \subseteq Runs \X Repos
    BY <1>0 DEF CancelRun, RequestCancel, RowsTyped, Linked, OpenChildren, Kids
  <1>3. /\ cancels' \in 0 .. MaxCancels
        /\ UNCHANGED <<pre, posts, pc, worker, stopped, live, probe, swept, restarts>>
    BY <1>0, PlanAssumption DEF CancelRun, CanCancel, RestTyped
  <1>4. CancelReads(r) \in [run : 0 .. MaxRuns, open : SUBSET Repos, marks : BOOLEAN]
    <2>1. r \in 0 .. MaxRuns /\ OpenChildren(r) \in SUBSET Repos /\ (pre[r] # "none") \in BOOLEAN
      BY PlanAssumption DEF Runs, OpenChildren, Kids
    <2>2. QED
      BY <2>1 DEF CancelReads
  <1>5. /\ cancel' \in [run : 0 .. MaxRuns, open : SUBSET Repos, marks : BOOLEAN]
        /\ run' \in [Runs -> RunT] /\ child' \in [Runs -> [Repos -> ChildT]]
        /\ marker' \in [Runs -> {"none", "cancel", "restart"}]
    <2>1. CASE cancel' = CancelReads(r) /\ UNCHANGED <<run, child, marker>>
      BY <1>0, <1>4, <2>1 DEF RowsTyped
    <2>2. CASE CloseRun(CancelReads(r)) /\ UNCHANGED cancel
      <3>1. "cancelled" \in RunT /\ "cancelled" \in ChildT
        BY DEF RunT, RunTerminal, ChildT, ChildTerminal
      <3>2. run' \in [Runs -> RunT] /\ child' \in [Runs -> [Repos -> ChildT]]
        BY <1>0, <2>2, <3>1 DEF CloseRun, RowsTyped
      <3>3. marker' \in [Runs -> {"none", "cancel", "restart"}]
        BY <1>0, <2>2 DEF CloseRun, RowsTyped
      <3>4. QED
        BY <1>0, <2>2, <3>2, <3>3 DEF RestTyped
    <2>3. QED
      BY <2>1, <2>2 DEF CancelRun
  <1>6. QED
    BY <1>0, <1>1, <1>2, <1>3, <1>5, Typed DEF RowsTyped, TasksTyped, RestTyped

\* What a commit, a restart and the sweep write.
LEMMA RestartTyped ==
    ASSUME TypeOK, CancelCommits \/ Crash \/ Sweep
    PROVE  TypeOK'
  <1>0. RowsTyped /\ TasksTyped /\ RestTyped
    BY Typed
  <1>n. NoCancel \in [run : 0 .. MaxRuns, open : SUBSET Repos, marks : BOOLEAN]
    BY PlanAssumption DEF NoCancel
  <1>1. CASE CancelCommits
    <2>1. "cancelled" \in RunT /\ "cancelled" \in ChildT
      BY DEF RunT, RunTerminal, ChildT, ChildTerminal
    <2>2. RowsTyped'
      BY <1>0, <1>1, <2>1 DEF CancelCommits, CloseRun, RowsTyped
    <2>3. TasksTyped' /\ RestTyped'
      BY <1>0, <1>1, <1>n DEF CancelCommits, TasksTyped, RestTyped
    <2>4. QED
      BY <2>2, <2>3, Typed
  <1>2. CASE Crash
    <2>1. RowsTyped'
      BY <1>0, <1>2 DEF Crash, RowsTyped
    <2>2. "idle" \in PcT /\ "none" \in WorkerT
      BY DEF PcT, WorkerT
    <2>3. TasksTyped'
      BY <1>2, <2>2 DEF Crash, TasksTyped
    <2>4. restarts' \in 0 .. MaxRestarts
      BY <1>0, <1>2, PlanAssumption DEF Crash, RestTyped
    <2>5. RestTyped'
      BY <1>0, <1>2, <1>n, <2>4 DEF Crash, RestTyped
    <2>6. QED
      BY <2>1, <2>3, <2>5, Typed
  <1>3. CASE Sweep
    <2>1. \A r \in Runs : InterruptedVerdict(r) \in RunT
      BY InterruptedSound DEF RunT
    <2>2. \A r \in Runs : InterruptedChild(r) \in [Repos -> ChildT]
      BY <1>0 DEF RowsTyped, InterruptedChild, ChildT, ChildTerminal
    <2>3. run' \in [Runs -> RunT] /\ child' \in [Runs -> [Repos -> ChildT]]
      BY <1>0, <1>3, <2>1, <2>2 DEF Sweep, NormalizeInterruptedRuns, RowsTyped
    <2>4. op' \in [Runs -> [Repos -> OpT]]
      <3>1. "failed" \in OpT /\ "cancelled" \in OpT
        BY DEF OpT, ChildTerminal
      <3>2. QED
        BY <1>0, <1>3, <3>1 DEF Sweep, NormalizeInterruptedRuns, RowsTyped
    <2>5. marker' \in [Runs -> {"none", "cancel", "restart"}]
      BY <1>0, <1>3 DEF Sweep, NormalizeInterruptedRuns, RowsTyped
    <2>6. pc' \in [Runs -> PcT] /\ live' \subseteq Runs
      <3>1. "left" \in PcT /\ StillPending \subseteq Runs /\ Interrupted \subseteq Runs
        BY DEF PcT, StillPending, Interrupted
      <3>2. QED
        BY <1>0, <1>3, <3>1 DEF Sweep, TasksTyped
    <2>7. /\ UNCHANGED <<flagged, pre, posts, worker, stopped, cancel, probe, restarts, cancels>>
          /\ swept' = TRUE
      BY <1>3 DEF Sweep
    <2>8. QED
      BY <1>0, <2>3, <2>4, <2>5, <2>6, <2>7, Typed DEF RowsTyped, TasksTyped, RestTyped
  <1>4. QED
    BY <1>1, <1>2, <1>3

\* Every step keeps the invariant.
LEMMA IInvStep == IInv /\ [Next]_vars => IInv'
  <1> SUFFICES ASSUME IInv, [Next]_vars PROVE IInv'
    OBVIOUS
  <1>1. Tasks' /\ Places' /\ Closings' /\ Sounds'
    BY PartsStep
  <1>2. TypeOK'
    <2>1. TypeOK /\ Places /\ Tasks
      BY DEF IInv
    <2>2. ASSUME NEW r \in Runs, RunStep(r) PROVE TypeOK'
      <3>1. Task(r)
        BY <2>1 DEF Tasks
      <3>2. CASE SeriesStep(r) \/ \E c \in Repos : WorkerStep(r, c) \/ RunnerStep(r, c)
        BY <2>1, <3>2, WorkerTyped
      <3>3. CASE TaskStep(r) /\ ~SeriesStep(r)
        BY <2>1, <3>1, <3>3, TaskTyped
      <3>4. CASE CancelRun(r)
        BY <2>1, <3>4, CancelTyped
      <3>5. QED
        BY <2>1, <2>2, <3>2, <3>3, <3>4, StartTyped DEF RunStep
    <2>3. CASE UNCHANGED vars
      BY <2>1, <2>3 DEF TypeOK, vars, rows
    <2>4. QED
      BY <2>1, <2>2, <2>3, RestartTyped DEF Next, RunStep
  <1>3. QED
    BY <1>1, <1>2 DEF IInv

\* The inductive invariant holds throughout.
LEMMA IInvAlways == Spec => []IInv
  BY InitIInv, IInvStep, PTL DEF Spec

------------------------------------------------------------------------------
(* What follows from it. *)

\* The post-backup scripts of a run start at most once, over any number of crashes, cancels and
\* errors: every place a task starts them from is one where none started (Task), and the sweep
\* gives back only runs whose scripts never started (PostScriptsAfterRestart).
THEOREM HooksOnceAlways == Spec => []HooksOnce
  <1>1. IInv => HooksOnce
    BY DEF IInv, Tasks, Task, HooksOnce
  <1>2. QED
    BY <1>1, IInvAlways, PTL

\* A run that reads as a success has no failed, cancelled or open repository, and a completed one
\* only completed ones, whoever wrote the two last: the task, its coroutines, the cancel's commit
\* or the sweep after a restart.
THEOREM VerdictHoldsAlways == Spec => []VerdictHolds
  <1>1. IInv => VerdictHolds
    BY DEF IInv, Sounds, Sound, VerdictHolds
  <1>2. QED
    BY <1>1, IInvAlways, PTL

\* Until a restart, the backup of a cancelled run has the wait that asks the runner to stop it
\* (_execute_repository keeps its coroutine as long as its operation is active).
THEOREM CancelledStoppableAlways == Spec => []CancelledStoppable
  <1>1. IInv => CancelledStoppable
    <2>1. ASSUME IInv, NEW r \in Runs, NEW c \in Repos, restarts = 0, op[r][c] \in OpActive
          PROVE  worker[r][c] = "wait"
      BY <2>1 DEF IInv, Places, Place
    <2>2. QED
      BY <2>1 DEF CancelledStoppable
  <1>2. QED
    BY <1>1, IInvAlways, PTL

\* The run's task leaves a cancelled run cancelled and starts no backup.
LEMMA TaskFinal ==
    ASSUME TypeOK, NEW r \in Runs, Task(r), Cancelled(r), TaskStep(r), ~SeriesStep(r)
    PROVE  run'[r] = "cancelled" /\ \A c \in Repos : op[r][c] = "none" => op'[r][c] # "queued"
  <1>f. MarkRunFailed(r) => run'[r] = "cancelled"
    BY DEF MarkRunFailed, Cancelled, TypeOK
  <1>v. \A ch, warn : FinalizeRun(r, ch, warn) => run'[r] = "cancelled"
    BY DEF FinalizeRun, Cancelled, TypeOK
  <1>s. \A result, l : StartScripts(r, result, l) => UNCHANGED <<run, op>>
    BY DEF StartScripts
  <1>0. run[r] = "cancelled" /\ pc[r] # "begin"
    BY DEF Cancelled, Task
  <1>1. ~PrepareRun(r)
    BY <1>0 DEF PrepareRun
  <1>2. CASE StartPreHooks(r)
    BY <1>0, <1>v, <1>2 DEF StartPreHooks
  <1>3. CASE EndPreHooks(r)
    <2>1. run'[r] = "cancelled"
      BY <1>0, <1>v, <1>3 DEF EndPreHooks
    <2>2. UNCHANGED op \/ FailRepositories(r, Repos, {"pending"})
      BY <1>3 DEF EndPreHooks
    <2>3. \A c \in Repos : op'[r][c] \in {op[r][c], "failed"}
      BY <2>2 DEF FailRepositories, TypeOK
    <2>4. QED
      BY <2>1, <2>3
  <1>4. CASE StartPostHooks(r) \/ StartLeftHooks(r)
    BY <1>0, <1>s, <1>4 DEF StartPostHooks, StartLeftHooks
  <1>5. CASE RunRaised(r)
    BY <1>0, <1>s, <1>f, <1>5 DEF RunRaised
  <1>6. CASE EndPostHooks(r)
    BY <1>f, <1>v, <1>6 DEF EndPostHooks
  <1>7. CASE SettleLeftHooks(r)
    BY <1>0, <1>7 DEF SettleLeftHooks
  <1>8. QED
    BY <1>1, <1>2, <1>3, <1>4, <1>5, <1>6, <1>7 DEF TaskStep

\* A step keeps a cancelled run cancelled and gives it no backup.
LEMMA CancelledStays ==
    ASSUME IInv, [Next]_vars, NEW q \in Runs, Cancelled(q)
    PROVE  run'[q] = "cancelled" /\ \A c \in Repos : op[q][c] = "none" => op'[q][c] # "queued"
  <1>0. /\ TypeOK /\ Places /\ Task(q) /\ run[q] = "cancelled"
        /\ \A c \in Repos : Closing(q, c)
    BY DEF IInv, Tasks, Closings, Cancelled
  <1>m. CASE WorkersMove(q)
    <2>1. ASSUME NEW c \in Repos, op[q][c] = "none" PROVE op'[q][c] # "queued"
      BY <1>0, <1>m, <2>1 DEF WorkersMove, Stays, Runner, Moves, Closing, ToClaim
    <2>2. QED
      BY <1>0, <1>m, <2>1 DEF WorkersMove
  <1>1. CASE RunStep(q)
    <2>1. CASE RunPlan(q) \/ RetryFailedRun(q) \/ DispatchDue(q) \/ DispatchProbed(q)
      BY <1>0, <2>1 DEF RunPlan, RetryFailedRun, DispatchDue, DispatchProbed, Insert, RecordRefusal, Next1,
         rows
    <2>2. CASE CancelRun(q)
      BY <1>0, <2>2 DEF CancelRun, CanCancel, RunTerminal
    <2>3. CASE SeriesStep(q)
      BY <1>0, <1>m, <2>3, SeriesMoves
    <2>4. CASE TaskStep(q) /\ ~SeriesStep(q)
      BY <1>0, <2>4, TaskFinal
    <2>5. CASE \E c \in Repos : WorkerStep(q, c) \/ RunnerStep(q, c)
      BY <1>0, <1>m, <2>5, StepMoves
    <2>6. QED
      BY <1>1, <2>1, <2>2, <2>3, <2>4, <2>5 DEF RunStep
  <1>2. ASSUME NEW r \in Runs, r # q, RunStep(r)
        PROVE  run'[q] = "cancelled" /\ \A c \in Repos : op[q][c] = "none" => op'[q][c] # "queued"
    <2>1. Elsewhere(q)
      BY <1>0, <1>2, RunElsewhere
    <2>2. QED
      BY <1>0, <2>1 DEF Elsewhere
  <1>3. CASE CancelCommits
    BY <1>0, <1>3 DEF CancelCommits, CloseRun, TypeOK
  <1>4. CASE Crash
    BY <1>0, <1>4 DEF Crash
  <1>5. CASE Sweep
    BY <1>0, <1>5 DEF Sweep, NormalizeInterruptedRuns, Interrupted, RunActive
  <1>6. CASE UNCHANGED vars
    BY <1>0, <1>6 DEF vars, rows
  <1>7. QED
    BY <1>1, <1>2, <1>3, <1>4, <1>5, <1>6 DEF Next, RunStep

\* A cancel is final: no step moves a cancelled run, nor gives one of its repositories a backup.
\* What may still claim one was closed with the run (Closings), even where the cancel committed
\* long after it read what to close, and the claim re-checks the row.
THEOREM CancelFinalAlways == Spec => CancelFinal
  <1>1. IInv /\ [Next]_vars =>
            [\A r \in Runs : Cancelled(r) =>
                /\ run'[r] = "cancelled"
                /\ \A c \in Repos : op[r][c] = "none" => op'[r][c] # "queued"]_vars
    BY CancelledStays
  <1>2. QED
    BY <1>1, IInvAlways, PTL DEF Spec, CancelFinal

------------------------------------------------------------------------------
(* Scripts, backups and runs, when no worker outlives the task that gathers *)
(* it: in series, or while no read of the run's status raises.               *)

\* A coroutine is under way only while its run's task waits for it.
Calm(r) ==
    \A c \in Repos : /\ worker[r][c] \in Moving => pc[r] = "repos"
                     /\ worker[r][c] = "slot" => Parallel
Calms == \A r \in Runs : Calm(r)

\* The repositories of a run.
LEMMA MovesCalm ==
    ASSUME NEW r \in Runs, Calm(r), WorkersMove(r), pc'[r] = pc[r]
    PROVE  Calm(r)'
  <1>1. ASSUME NEW c \in Repos
        PROVE  /\ worker'[r][c] \in Moving => pc[r] = "repos"
               /\ worker'[r][c] = "slot" => Parallel
    BY <1>1 DEF Calm, WorkersMove, Stays, Runner, Moves
  <1>2. QED
    BY <1>1 DEF Calm

\* The run's own task moves no repository but between two of a series.
LEMMA TaskCalm ==
    ASSUME TypeOK, NEW r \in Runs, Calm(r), TaskStep(r)
    PROVE  Calm(r)'
  <1>1. CASE SeriesStep(r)
    <2>1. CASE pc'[r] = pc[r]
      BY <1>1, <2>1, SeriesMoves, MovesCalm
    <2>2. CASE pc'[r] # pc[r]
      <3>1. \A c \in Repos : worker[r][c] \notin Moving
        BY <1>1 DEF SeriesStep, Busy, Calm, Moving
      <3>2. worker' = [worker EXCEPT ![r] = [c \in Repos |-> IF c \in Ready(r) THEN "done" ELSE @[c]]]
        BY <1>1, <2>2 DEF SeriesStep
      <3>3. \A c \in Repos : worker'[r][c] \in {worker[r][c], "done"}
        BY <3>2 DEF TypeOK
      <3>4. QED
        BY <3>1, <3>3 DEF Calm, Moving, Working
    <2>3. QED
      BY <2>1, <2>2
  <1>2. CASE PrepareRun(r)
    <2>1. UNCHANGED worker \/ \A c \in Repos : worker'[r][c] \in {"none", "done", "ready"}
      BY <1>2 DEF PrepareRun, TypeOK
    <2>2. \A c \in Repos : worker[r][c] \notin Moving
      BY <1>2 DEF PrepareRun, Calm
    <2>3. QED
      BY <2>1, <2>2 DEF Calm, Moving, Working
  <1>3. CASE TaskStep(r) /\ ~SeriesStep(r) /\ ~PrepareRun(r)
    <2>1. UNCHANGED worker
      BY <1>3 DEF TaskStep, StartPreHooks, EndPreHooks, StartPostHooks, RunRaised, EndPostHooks,
         StartLeftHooks, SettleLeftHooks, StartScripts
    <2>2. \A c \in Repos : worker[r][c] \notin Moving
      <3>1. CASE StartPostHooks(r)
        BY <3>1 DEF StartPostHooks, Moving, Working
      <3>2. CASE pc[r] # "repos"
        BY <3>2 DEF Calm
      <3>3. QED
        BY <1>3, <3>1, <3>2 DEF TaskStep, StartPreHooks, EndPreHooks, RunRaised, EndPostHooks,
           StartLeftHooks, SettleLeftHooks
    <2>3. QED
      BY <2>1, <2>2 DEF Calm, Moving
  <1>4. QED
    BY <1>1, <1>2, <1>3

\* No step leaves a coroutine behind.
LEMMA CalmStep ==
    ASSUME ~(Parallel /\ Faults), IInv, Calms, [Next]_vars
    PROVE  Calms'
  <1>0. TypeOK /\ Places
    BY DEF IInv
  <1>1. ASSUME NEW q \in Runs PROVE Calm(q)'
    <2>0. Calm(q) /\ Task(q) /\ \A c \in Repos : Place(q, c)
      BY DEF Calms, IInv, Tasks, Places
    <2>u. ASSUME worker'[q] = worker[q], pc'[q] = pc[q] PROVE Calm(q)'
      BY <2>0, <2>u DEF Calm
    <2>1. CASE RunStep(q)
      <3>1. CASE RunPlan(q) \/ RetryFailedRun(q) \/ DispatchDue(q) \/ DispatchProbed(q)
        <4>1. UNCHANGED worker /\ (run[q] = "none" \/ UNCHANGED pc)
          BY <3>1 DEF RunPlan, RetryFailedRun, DispatchDue, DispatchProbed, Insert, RecordRefusal, Next1
        <4>2. run[q] = "none" => \A c \in Repos : worker[q][c] = "none"
          BY <2>0 DEF Place
        <4>3. QED
          BY <2>u, <4>1, <4>2 DEF Calm, Moving, Working
      <3>2. CASE CancelRun(q)
        BY <2>u, <3>2 DEF CancelRun
      <3>3. CASE TaskStep(q)
        BY <1>0, <2>0, <3>3, TaskCalm
      <3>4. ASSUME NEW c \in Repos, WorkerStep(q, c) \/ RunnerStep(q, c) PROVE Calm(q)'
        <4>1. UNCHANGED pc
          BY <3>4 DEF WorkerStep, RunnerStep, ParallelStep, Enter, Admit, PollSeesCancel, Waited,
             Maintained, OpStarts, OpEnds
        <4>2. QED
          BY <1>0, <2>0, <3>4, <4>1, StepMoves, MovesCalm
      <3>5. QED
        BY <2>1, <3>1, <3>2, <3>3, <3>4 DEF RunStep
    <2>2. ASSUME NEW r \in Runs, r # q, RunStep(r) PROVE Calm(q)'
      <3>1. Elsewhere(q)
        BY <1>0, <2>2, RunElsewhere
      <3>2. QED
        BY <2>u, <3>1 DEF Elsewhere
    <2>3. CASE CancelCommits \/ UNCHANGED vars
      BY <2>u, <2>3 DEF CancelCommits, vars
    <2>4. CASE Crash
      BY <2>4 DEF Crash, Calm, Moving, Working
    <2>5. CASE Sweep
      <3>1. UNCHANGED worker /\ (pc'[q] = pc[q] \/ q \notin live)
        BY <2>5 DEF Sweep, StillPending, Interrupted
      <3>2. q \notin live => \A c \in Repos : worker[q][c] \notin Moving
        BY <2>0 DEF Task, Calm
      <3>3. QED
        BY <2>0, <2>u, <3>1, <3>2 DEF Calm, Moving
    <2>6. QED
      BY <2>1, <2>2, <2>3, <2>4, <2>5 DEF Next, RunStep
  <1>2. QED
    BY <1>1 DEF Calms

\* It holds throughout.
LEMMA CalmAlways ==
    ASSUME ~(Parallel /\ Faults)
    PROVE  Spec => []Calms
  <1>1. Init => Calms
    BY DEF Init, Calms, Calm, Moving, Working
  <1>2. IInv /\ Calms /\ [Next]_vars => Calms'
    BY CalmStep
  <1>3. QED
    BY <1>1, <1>2, IInvAlways, PTL DEF Spec

\* No backup of a run is queued or running under its post-backup scripts, in its task or after a
\* restart (StartPostHooks waits for every repository, StartLeftHooks for every operation).  With
\* parallel repositories and a read that raises, gather abandons the other workers: the hypothesis
\* leaves that out, and the property does not hold there.
THEOREM PostAfterBackupsAlways ==
    ASSUME ~(Parallel /\ Faults)
    PROVE  Spec => []PostAfterBackups
  <1>1. IInv /\ Calms => PostAfterBackups
    <2> SUFFICES ASSUME IInv, Calms, NEW r \in Runs, pc[r] \in Hooking, NEW c \in Repos
                 PROVE  op[r][c] \notin OpActive
      BY DEF PostAfterBackups
    <2>1. Place(r, c) /\ Calm(r)
      BY DEF IInv, Places, Calms
    <2>2. QED
      BY <2>1 DEF Place, Calm, Hooking, Moving, Working
  <1>2. QED
    BY <1>1, IInvAlways, CalmAlways, PTL

\* At most one run is at work, and no probe is under way that might start another.
Alone == ~probe /\ \A r, q \in Runs : r # q => ~(AtWork(r) /\ AtWork(q))

\* A task that is not of the left-over scripts was at work before.
LEMMA TaskAtWork ==
    ASSUME TypeOK, NEW r \in Runs, Task(r), TaskStep(r), AtWork(r)'
    PROVE  AtWork(r)
  <1>1. pc[r] # "idle"
    BY DEF TaskStep, PrepareRun, StartPreHooks, EndPreHooks, SeriesStep, StartPostHooks, RunRaised,
       EndPostHooks, StartLeftHooks, SettleLeftHooks
  <1>2. r \in live
    BY <1>1 DEF Task
  <1>3. CASE StartLeftHooks(r)
    BY <1>3 DEF StartLeftHooks, StartScripts, Goto, AtWork, TypeOK
  <1>4. CASE SettleLeftHooks(r)
    BY <1>4 DEF SettleLeftHooks, EndTask, AtWork
  <1>5. CASE pc[r] \notin {"left", "leftpost"}
    BY <1>2, <1>5 DEF AtWork
  <1>6. QED
    BY <1>3, <1>4, <1>5 DEF TaskStep, PrepareRun, StartPreHooks, EndPreHooks, SeriesStep, StartPostHooks,
       RunRaised, EndPostHooks

\* A run starts alone, and no other step puts one to work.
LEMMA AloneStep ==
    ASSUME ~Availability, IInv, Alone, [Next]_vars
    PROVE  Alone'
  <1>0. TypeOK /\ Tasks
    BY DEF IInv
  <1>1. ~probe'
    <2>1. ASSUME NEW r \in Runs, RunStep(r) PROVE ~probe'
      BY <2>1 DEF Alone, RunStep, RunPlan, RetryFailedRun, DispatchDue, DispatchProbed, CancelRun, TaskStep,
         PrepareRun, StartPreHooks, EndPreHooks, SeriesStep, StartPostHooks, RunRaised, EndPostHooks,
         StartLeftHooks, SettleLeftHooks, StartScripts, WorkerStep, RunnerStep, ParallelStep, Enter, Admit,
         PollSeesCancel, Waited, Maintained, OpStarts, OpEnds, Others
    <2>2. QED
      BY <2>1 DEF Alone, Next, RunStep, CancelCommits, Crash, Sweep, vars
  <1>k. ASSUME \A q \in Runs : AtWork(q)' => AtWork(q) PROVE Alone'
    BY <1>k, <1>1 DEF Alone
  <1>2. ASSUME NEW r \in Runs, RunStep(r) PROVE Alone'
    <2>1. \A q \in Runs : q # r => (AtWork(q)' => AtWork(q))
      <3>1. ASSUME NEW q \in Runs, q # r PROVE Elsewhere(q)
        BY <1>0, <1>2, <3>1, RunElsewhere
      <3>2. QED
        BY <3>1 DEF Elsewhere, AtWork
    <2>2. CASE AtWork(r)' => AtWork(r)
      BY <1>k, <2>1, <2>2
    <2>3. CASE RunPlan(r) \/ RetryFailedRun(r) \/ DispatchDue(r) \/ DispatchProbed(r)
      <3>1. ~HasActiveRun
        BY <2>3 DEF RunPlan, RetryFailedRun, DispatchDue, DispatchProbed, Alone
      <3>2. \A q \in Runs : ~AtWork(q)
        BY <3>1 DEF HasActiveRun, ActiveRun, AtWork
      <3>3. QED
        BY <1>1, <2>1, <3>2 DEF Alone
    <2>4. CASE TaskStep(r)
      BY <1>0, <2>2, <2>4, TaskAtWork DEF Tasks
    <2>5. CASE CancelRun(r)
      BY <2>2, <2>5 DEF CancelRun, AtWork
    <2>6. CASE \E c \in Repos : WorkerStep(r, c) \/ RunnerStep(r, c)
      <3>1. WorkersMove(r)
        BY <1>0, <2>6, StepMoves DEF IInv
      <3>2. QED
        BY <2>2, <3>1 DEF WorkersMove, AtWork
    <2>7. QED
      BY <1>2, <2>3, <2>4, <2>5, <2>6 DEF RunStep
  <1>3. CASE CancelCommits \/ UNCHANGED vars
    BY <1>k, <1>3 DEF CancelCommits, vars, AtWork
  <1>4. CASE Crash
    BY <1>k, <1>4 DEF Crash, AtWork
  <1>5. CASE Sweep
    BY <1>k, <1>5 DEF Sweep, AtWork
  <1>6. QED
    BY <1>2, <1>3, <1>4, <1>5 DEF Next, RunStep

\* Two runs of the plan are never at work together, whoever starts them and whatever a restart
\* left: the routes and the scheduler look for an active run in the step that inserts theirs.  In
\* availability mode the probe is awaited in between, and with parallel repositories a read that
\* raises leaves workers behind; the hypotheses leave both out, and the property fails there.
THEOREM RunsAloneAlways ==
    ASSUME ~Availability, ~(Parallel /\ Faults)
    PROVE  Spec => []RunsAlone
  <1>1. Init => Alone
    BY DEF Init, Alone, AtWork
  <1>2. IInv /\ Alone /\ [Next]_vars => Alone'
    BY AloneStep
  <1>3. IInv /\ Calms /\ Alone => RunsAlone
    <2> SUFFICES ASSUME IInv, Calms, Alone, NEW r \in Runs, NEW q \in Runs, r # q, AtWork(r)
                 PROVE  ~(AtWork(q) \/ Busy(q) # {})
      BY DEF RunsAlone
    <2>1. ~AtWork(q)
      BY DEF Alone
    <2>2. Busy(q) = {}
      <3>1. Calm(q) /\ Task(q)
        BY DEF Calms, IInv, Tasks
      <3>2. pc[q] # "repos"
        BY <2>1, <3>1 DEF Task, AtWork
      <3>3. QED
        BY <3>1, <3>2 DEF Calm, Busy, Moving
    <2>3. QED
      BY <2>1, <2>2
  <1>4. QED
    BY <1>1, <1>2, <1>3, IInvAlways, CalmAlways, PTL DEF Spec

------------------------------------------------------------------------------
(* The scripts a run owes. *)

\* A run that is over owes nothing: its post-backup scripts started, or it
\* carries the line.  Once restarted the line may be missing while its task
\* is there, and a cancel under way may have read that no script ran yet.
Accounted(r) ==
    /\ pc[r] \in {"begin", "agents"} => pre[r] = "none"
    /\ pc[r] = "agents" => restarts > 0
    /\ pc[r] \in Hooking => posts[r] > 0
    /\ pre[r] = "ran" /\ run[r] \notin RunActive =>
          posts[r] > 0 \/ marker[r] # "none" \/ (restarts > 0 /\ (r \in live \/ cancel.run = r))
    /\ cancel.run = r /\ pre[r] = "ran" /\ ~cancel.marks =>
          posts[r] > 0 \/ (restarts > 0 /\ r \in live)
AllAccounted == \A r \in Runs : Accounted(r)

\* A run a step leaves alone.
LEMMA ElsewhereAccounted ==
    ASSUME NEW q \in Runs, Elsewhere(q), Accounted(q)
    PROVE  Accounted(q)'
  BY DEF Elsewhere, Accounted

\* Scripts that always run have run once they started.
LEMMA ScriptsAccounted ==
    ASSUME RunOn = "always", TypeOK, NEW r \in Runs, Task(r), Accounted(r), NEW result, NEW l \in Hooking,
           StartScripts(r, result, l)
    PROVE  Accounted(r)'
  <1>1. posts[r] \in 0 .. 2 /\ posts'[r] = posts[r] + 1
    BY DEF StartScripts, HookRuns, TypeOK
  <1>2. posts'[r] > 0
    BY <1>1
  <1>3. pc'[r] = l
    BY DEF StartScripts, Goto, TypeOK
  <1>4. QED
    BY <1>2, <1>3 DEF Accounted, Hooking

\* A task that ends with its scripts started, or owing none.
LEMMA EndAccounted ==
    ASSUME TypeOK, NEW r \in Runs, Accounted(r), EndTask(r), posts[r] > 0 \/ pre'[r] # "ran",
           UNCHANGED <<posts, cancel, restarts>>
    PROVE  Accounted(r)'
  <1>1. pc'[r] = "idle" /\ r \notin live'
    BY DEF EndTask, TypeOK
  <1>2. QED
    BY <1>1 DEF Accounted, Hooking

\* The run's own task.
LEMMA TaskAccounted ==
    ASSUME RunOn = "always", AgentRepos = {}, TypeOK, NEW r \in Runs, Task(r), Accounted(r), TaskStep(r)
    PROVE  Accounted(r)'
  <1>g. \A l : Goto(r, l) => pc'[r] = l /\ UNCHANGED live
    BY DEF Goto, TypeOK
  <1>1. CASE PrepareRun(r)
    <2>1. /\ pc[r] = "begin" /\ pre[r] = "none" /\ r \in live /\ cancel.run # r
          /\ UNCHANGED <<marker, posts, cancel, restarts>>
      BY <1>1 DEF PrepareRun, Accounted, Task
    <2>2. CASE EndTask(r) /\ UNCHANGED pre
      BY <2>1, <2>2, EndAccounted
    <2>3. CASE run' = [run EXCEPT ![r] = "running"] /\ Goto(r, "pre")
      <3>1. run'[r] = "running" /\ pc'[r] = "pre"
        BY <1>g, <2>3 DEF TypeOK
      <3>2. QED
        BY <2>1, <3>1 DEF Accounted, Hooking, RunActive
    <2>4. CASE run' = [run EXCEPT ![r] = "running"] /\ Goto(r, "agents") /\ UNCHANGED pre /\ restarts > 0
      <3>1. run'[r] = "running" /\ pc'[r] = "agents" /\ pre'[r] = "none"
        BY <1>g, <2>1, <2>4 DEF TypeOK
      <3>2. QED
        BY <2>1, <2>4, <3>1 DEF Accounted, Hooking
    <2>5. QED
      BY <1>1, <2>2, <2>3, <2>4 DEF PrepareRun
  <1>2. CASE StartPreHooks(r)
    <2>1. /\ pc[r] = "agents" /\ pre[r] = "none" /\ restarts > 0 /\ r \in live
          /\ UNCHANGED <<marker, posts, cancel, restarts>>
      BY <1>2 DEF StartPreHooks, Accounted, Task
    <2>2. CASE EndTask(r) /\ UNCHANGED pre
      BY <2>1, <2>2, EndAccounted
    <2>3. CASE Goto(r, "pre")
      BY <1>g, <2>1, <2>3 DEF Accounted, Hooking
    <2>4. QED
      BY <1>2, <2>2, <2>3 DEF StartPreHooks
  <1>3. CASE EndPreHooks(r)
    <2>1. pc[r] = "pre" /\ UNCHANGED <<marker, posts, cancel, restarts>>
      BY <1>3 DEF EndPreHooks
    <2>2. CASE EndTask(r) /\ pre' = [pre EXCEPT ![r] = "skipped"]
      <3>1. pre'[r] # "ran"
        BY <2>2 DEF TypeOK
      <3>2. QED
        BY <2>1, <2>2, <3>1, EndAccounted
    <2>3. CASE \E l \in {"repos", "except"} : Goto(r, l) /\ UNCHANGED <<run, pre>>
      BY <1>g, <2>1, <2>3 DEF Accounted, Hooking
    <2>4. QED
      BY <1>3, <2>2, <2>3 DEF EndPreHooks
  <1>4. CASE SeriesStep(r)
    <2>1. /\ pc[r] = "repos" /\ pc'[r] \in {"repos", "except"}
          /\ UNCHANGED <<run, marker, pre, posts, live, cancel, restarts>>
      BY <1>4 DEF SeriesStep, Others, TypeOK
    <2>2. QED
      BY <2>1 DEF Accounted, Hooking
  <1>5. CASE StartPostHooks(r) \/ StartLeftHooks(r)
    BY <1>5, ScriptsAccounted DEF StartPostHooks, StartLeftHooks, Hooking
  <1>6. CASE RunRaised(r)
    <2>1. CASE pre[r] = "none" /\ EndTask(r) /\ UNCHANGED <<pre, posts, cancel, restarts>>
      BY <2>1, EndAccounted
    <2>2. QED
      BY <1>6, <2>1, ScriptsAccounted DEF RunRaised, Hooking
  <1>7. CASE EndPostHooks(r) \/ SettleLeftHooks(r)
    <2>1. posts[r] > 0 /\ EndTask(r) /\ UNCHANGED <<pre, posts, cancel, restarts>>
      BY <1>7 DEF EndPostHooks, SettleLeftHooks, Accounted, Hooking
    <2>2. QED
      BY <2>1, EndAccounted
  <1>8. QED
    BY <1>1, <1>2, <1>3, <1>4, <1>5, <1>6, <1>7 DEF TaskStep

\* A cancel leaves the line of the scripts that ran when it read the run.
LEMMA CancelAccounted ==
    ASSUME TypeOK, NEW q \in Runs, Accounted(q), CancelRun(q) \/ CancelCommits
    PROVE  Accounted(q)'
  <1>1. UNCHANGED <<pre, posts, pc, live, restarts>>
    BY DEF CancelRun, CancelCommits
  <1>2. CASE CancelRun(q)
    <2>1. CASE CloseRun(CancelReads(q)) /\ UNCHANGED cancel
      <3>1. pre[q] # "none" => marker'[q] = "cancel"
        BY <2>1 DEF CloseRun, CancelReads, TypeOK
      <3>2. QED
        BY <1>1, <2>1, <3>1 DEF Accounted
    <2>2. CASE cancel' = CancelReads(q) /\ UNCHANGED <<run, marker>>
      <3>1. pre[q] # "none" => cancel'.marks
        BY <2>2 DEF CancelReads
      <3>2. cancel.run # q
        BY <1>2 DEF CancelRun, CanCancel, NoCancel, Runs
      <3>3. QED
        BY <1>1, <2>2, <3>1, <3>2 DEF Accounted
    <2>3. QED
      BY <1>2, <2>1, <2>2 DEF CancelRun
  <1>3. CASE CancelCommits
    <2>1. cancel'.run # q
      BY <1>3 DEF CancelCommits, NoCancel, Runs
    <2>2. CASE cancel.run = q
      <3>1. marker'[q] = IF cancel.marks THEN "cancel" ELSE "none"
        BY <1>3, <2>2 DEF CancelCommits, CloseRun, TypeOK
      <3>2. QED
        BY <1>1, <2>1, <2>2, <3>1 DEF Accounted
    <2>3. CASE cancel.run # q
      <3>1. marker'[q] = marker[q] /\ run'[q] = run[q]
        BY <1>3, <2>3 DEF CancelCommits, CloseRun, TypeOK
      <3>2. QED
        BY <1>1, <2>1, <2>3, <3>1 DEF Accounted
    <2>4. QED
      BY <2>2, <2>3
  <1>4. QED
    BY <1>2, <1>3

\* The sweep writes the line of an interrupted run.
LEMMA SweepAccounted ==
    ASSUME TypeOK, NEW q \in Runs, Task(q), Accounted(q), Sweep
    PROVE  Accounted(q)'
  <1>1. /\ UNCHANGED <<pre, posts, cancel, restarts>> /\ live \subseteq live'
        /\ pc'[q] \in {pc[q], "left"}
    BY DEF Sweep
  <1>2. CASE q \in Interrupted
    <2>1. pre[q] = "ran" => PostScriptsAfterRestart(q) # "none"
      BY DEF PostScriptsAfterRestart
    <2>2. pre[q] = "ran" => marker'[q] = "restart"
      BY <1>2, <2>1 DEF Sweep, NormalizeInterruptedRuns
    <2>3. QED
      BY <1>1, <2>2 DEF Accounted, Hooking
  <1>3. CASE q \notin Interrupted
    <2>1. run'[q] = run[q] /\ marker'[q] = marker[q]
      BY <1>3 DEF Sweep, NormalizeInterruptedRuns
    <2>2. QED
      BY <1>1, <2>1 DEF Accounted, Hooking
  <1>4. QED
    BY <1>2, <1>3

\* Every step keeps the account, over one restart.
LEMMA AccountedStep ==
    ASSUME RunOn = "always", AgentRepos = {}, MaxRestarts <= 1, IInv, AllAccounted, [Next]_vars
    PROVE  AllAccounted'
  <1>0. TypeOK /\ Places
    BY DEF IInv
  <1>1. ASSUME NEW q \in Runs PROVE Accounted(q)'
    <2>0. Accounted(q) /\ Task(q)
      BY DEF AllAccounted, IInv, Tasks
    <2>1. CASE RunStep(q)
      <3>1. CASE RunPlan(q) \/ RetryFailedRun(q) \/ DispatchDue(q) \/ DispatchProbed(q)
        <4>1. CASE Next1(q) /\ pc'[q] \in {pc[q], "begin"} /\ UNCHANGED <<pre, posts, cancel, restarts>>
          BY <2>0, <4>1 DEF Next1, Task, Accounted, Hooking
        <4>2. CASE \E S : Insert(q, S)
          BY <4>1, <4>2, <1>0 DEF Insert, TypeOK
        <4>3. CASE \E t : RecordRefusal(q, t)
          BY <4>1, <4>3 DEF RecordRefusal
        <4>4. CASE Next1(q) /\ UNCHANGED <<rows, pc, worker, stopped, live, cancel, swept, restarts, cancels>>
          BY <4>1, <4>4 DEF rows
        <4>5. QED
          BY <3>1, <4>2, <4>3, <4>4 DEF RunPlan, RetryFailedRun, DispatchDue, DispatchProbed
      <3>2. CASE \E c \in Repos : WorkerStep(q, c) \/ RunnerStep(q, c)
        <4>1. UNCHANGED marker
          BY <3>2 DEF WorkerStep, RunnerStep, ParallelStep, Enter, Admit, PollSeesCancel, Waited,
             Maintained, OpStarts, OpEnds, Others
        <4>2. WorkersMove(q)
          BY <1>0, <3>2, StepMoves
        <4>3. QED
          BY <2>0, <4>1, <4>2 DEF WorkersMove, Accounted, Hooking
      <3>3. CASE TaskStep(q)
        BY <1>0, <2>0, <3>3, TaskAccounted
      <3>4. CASE CancelRun(q)
        BY <1>0, <2>0, <3>4, CancelAccounted
      <3>5. QED
        BY <2>1, <3>1, <3>2, <3>3, <3>4 DEF RunStep
    <2>2. ASSUME NEW r \in Runs, r # q, RunStep(r) PROVE Accounted(q)'
      <3>1. Elsewhere(q)
        BY <1>0, <2>2, RunElsewhere
      <3>2. QED
        BY <2>0, <3>1, ElsewhereAccounted
    <2>3. CASE CancelCommits
      BY <1>0, <2>0, <2>3, CancelAccounted
    <2>4. CASE Crash
      <3>1. /\ pc'[q] = "idle" /\ cancel'.run # q /\ UNCHANGED <<run, marker, pre, posts>>
        BY <2>4 DEF Crash, NoCancel, Runs
      <3>2. restarts = 0
        <4>1. MaxRestarts \in Nat /\ restarts \in 0 .. MaxRestarts /\ restarts < MaxRestarts
          BY <1>0, <2>4, PlanAssumption DEF Crash, TypeOK
        <4>2. QED
          BY <4>1
      <3>3. QED
        BY <2>0, <3>1, <3>2 DEF Accounted, Hooking
    <2>5. CASE Sweep
      BY <1>0, <2>0, <2>5, SweepAccounted
    <2>6. CASE UNCHANGED vars
      BY <2>0, <2>6 DEF vars, rows, Accounted
    <2>7. QED
      BY <2>1, <2>2, <2>3, <2>4, <2>5, <2>6 DEF Next, RunStep
  <1>2. QED
    BY <1>1 DEF AllAccounted

\* A run that is over and whose pre-backup scripts ran has started its post-backup scripts or
\* carries the line the next start looks for: on every way out, and across a restart.  The
\* hypotheses leave out scripts that run on some outcomes only (the run may owe none), and the two
\* ways a cancel reads the run before its pre-backup scripts start and the process dies later: with
\* an agent that is away, and with hooks an earlier restart left, the property does not hold.
THEOREM HooksAccountedAlways ==
    ASSUME RunOn = "always", AgentRepos = {}, MaxRestarts <= 1
    PROVE  Spec => []HooksAccounted
  <1>1. Init => AllAccounted
    BY DEF Init, AllAccounted, Accounted, Hooking
  <1>2. IInv /\ AllAccounted /\ [Next]_vars => AllAccounted'
    BY AccountedStep
  <1>3. AllAccounted => HooksAccounted
    BY DEF AllAccounted, Accounted, HooksAccounted
  <1>4. QED
    BY <1>1, <1>2, <1>3, IInvAlways, PTL DEF Spec
===============================================================================
