# Verification of the Borg UI job system

TLA+ models of the part of Borg UI that decides which work runs on which
repository, where and when: the operations runner (`app/services/operations/`)
with its lanes and chains, the lease between server processes, admission, backup
plan runs, managed agents with their jobs, outcomes and upgrades, and archive
mounts. TLC checks the models on small instances, TLAPS proves most of their safety
properties for every size.

## The system

Borg UI is a FastAPI server around the Borg backup tool. Every piece of work is
a row of the `operations` table. One asyncio process runs HTTP routes,
schedulers, the operations runner and its tasks; Borg runs in child processes
or on managed agents.

| Component | State | Operations | Talks to |
|---|---|---|---|
| Operations runner (`runner.py`) | `running_tasks`, `cancel_requested`, `unrecorded_outcomes`, the lease | tick, `run_operation`, `request_cancel`, drain, recovery | rows, executors, lanes, follow-ups |
| Lanes (`lanes.py`) | none: reads rows | `can_start` | runner |
| Enqueueing (`enqueue.py`, `followups.py`, `index_mode.py`) | rows | `enqueue`, `enqueue_chain`, `enqueue_followups`, `record_import_connect` | routes, runner, inline maintenance |
| Inline maintenance (`maintenance_start.py`) | rows created `running` | start, finish, fail | plan runs |
| Backup plan execution | run and child rows | wait for the backup, the steps after it, `cancel_run` | runner (`request_cancel`), inline maintenance |
| Reconcile (`reconcile.py`) | the clock | `enqueue_reconcile_run` | rows |
| Executors (`executors/`) | rows, through services of their own session | `run_backup`, `_run`, index executors | services, admission, agents |
| Job admission (`job_admission.py`) | reads rows and agent jobs | admit or 409 | executors, routes |
| Agent jobs (dispatcher, reaper, connection manager, `api/agents.py`) | `agent_jobs`, sessions | claim and send, report, cancel, reap | executors, rows |
| Lease (`runner.py`) | one row | acquire, renew, release | two processes at a restart |
| History index (`history_fold.py`, executors) | change rows | fold deltas | archive_sync, history_index |
| Agent upgrades (`agent_upgrades.py`, reaper, hello) | upgrade columns, waves, the endpoint's claim | request, release a wave, resolve, time out | agent sessions |
| Agent program (`agent/borg_ui_agent/session.py`, `outcomes.py`) | running jobs, kept outcomes | run, report, keep, redeliver, cancel | server reports |
| Archive mounts (`mount_service.py`) | `active_mounts`, state file, the mount table | mount, unmount, start-up cleanup | borg processes, kernel |
| Wipe, restore, rclone, packages | their own rows and files | | executors |
| Schedulers, notifications, MQTT, auth, licensing, migrations, frontend | | | not modelled |

What is hard: the event loop switches at every `await`, so the state a tick, a
route or a plan read before one is old after it; a service commits a verdict in
its own session long before its task is over; any commit may fail, and the
outcome then lives in memory until a later tick; cancels arrive at any point;
the process dies between two commits while Borg lives on; rows depend on rows
that are deferred, requeued, re-hung or turned failed later. Two server processes
overlap at a restart. Agents lose sessions, answers and processes at any point,
and a report may arrive after the server gave its job up. `PROJECT.json` lists
these hazards at their lines.

What makes it correct: one exclusive operation per repository lane; index
workers and listings within their limits; a chain runs only on the success it
hangs on; no row stays `running` with nobody to end it; an accepted cancel is
kept; every queued row ends; a changed repository is listed afterwards; a plan's
steps wait for the whole backup; one process works on the rows; writers are
alone on a repository; a plan's scripts run once, in order; an agent job runs once
at a time, its outcome arrives and its row agrees with it; the upgrade cap holds;
a mount stays its owner's.

## Modules

* `OperationsVocab`: the tables of `vocab.py`, `followups.py` and
  `index_mode.py`.
* `OperationRunner`: the rows, the runner, the plan runs of a backup and the
  process they live in.
* `RunnerLease`, `JobAdmission`, `PlanRun`, `AgentJobs` (with its contract
  `AgentJobContract`), `AgentOutcomes`, `AgentUpgrades`, `BorgMounts`: the other
  components, one module each.

A component `X` has a module `MCX` with the constants of its runs and a module
`XProofs` with its theorems.

### OperationRunner

One action is one stretch of code between two awaits, or between two commits of
which the second may fail. Rows (`count`, `status`, `op`, `dep`, ...) survive a
crash; `task`, `cancelReq`, `unrec` and the tick's variables do not.

| Code | Actions |
|---|---|
| `start`, `tick` | `TickStart`, `RecordOutcome`/`RecordFails` per lost outcome, `Sweep`, `Load`, then `Skip` or `Claim` + `Dispatch` per candidate, `TickEnd`; `TickFails`, `ClaimLost` |
| `run_operation` | `Begin`/`BeginFails`, `Finish`/`FinishFails`, `Defer`/`DeferFails`/`DeferDone`, `Close`/`CloseFails` |
| executors and services | `ServiceWrites` (a verdict written under the task), `Verdicts`, `FinishAfterCreate`, `Refused` |
| routes | `Submit`, `ImportConnect`, `Reconcile`, `RequestCancel`, `CancelRouteAsks` + `CancelRouteWrites` |
| plan run | `InlineStart`, `InlineVerdict`, `InlineFinish`/`InlineFinishFails`, `InlineRaises`, `PlanEnds`, `CancelRun`, `WaiterAsks` |
| process | `Stop`, `Drain`, `DrainTimeout`, `Crash`, `Restart`, `SurvivorExits`, `Elapse` |

The walk of the candidate loop over rows it only passes is part of the action at
which it stops: nothing is awaited in between. `lanesHeld` is the set the tick
takes from the tasks once and extends as it dispatches.

Abstractions. Times are booleans: `notBefore` says a backoff has not passed, and
`Elapse` ends it. A verdict is one of `Words`. Whether an error message names a
hook (which decides `FinishAfterCreate`), whether an archive listing found
changes (`changed`) and whether admission refuses (`Refused`, under the
environment token `busy`) are choices. Priority follows the trigger; the one
route that asks for another priority (the history rebuild) is not a submission.
A plan run is one repository's part of it (`PlanRun` has the whole). An agent's
own report on a row belongs to `AgentJobs`. `unlisted` is a history variable: repositories whose archives
changed and that no `archive_sync` has begun to list since. The backup limits count
backups that wait for an away agent, which `running_backup_count` subtracts
(`lanes.py:151`; `JobAdmission` has them). `DrainTimeout` ends every task, also one that
the tick under way dispatched after the drain had gathered its tasks (`runner.py:345`),
which in the code runs on until the process is killed.

`Env` names what the environment does in an instance: `cancel`,
`cancel_route`, `plan_cancel`, `busy`, `import`, `reconcile`, `db_error` (a
transient error), `db_broken` (a lasting one), `claim_lost`, `crash`, `stop`.

### RunnerLease

The lease row, and per process the loop, the tick in outline, the tasks and the
shutdown. `Renew` is an iteration that gets the lease, with recovery at its first;
`Claim`/`StartTask` have the await between the claim and its task; `Stop`,
`DrainEnds`, `DrainTimesOut`, `LoopExits` are `stop()`, `drain()` and the end of
`start()`, each with `_release_lease_if_idle`; `Gone` is the end of a process.
`TaskEnds` has the verdict's commit and the task's end in one step; the broadcast awaited
between them leaves a final row that no recovery or sweep takes.
Timers are relative (`left`, `age`, `sage`), so no clock is bounded. The timing
assumption is the comment at `LEASE_SECONDS`: a loop renews at least every `Gap`,
a stopped process is killed after `KillAfter`, and `Gap + KillAfter <= Lease`.
`StallSpec` drops it.

### JobAdmission

Requests in sessions of their own: the capacity scope, the repository row lock
(`LockScope`), the read of the active work (`ActiveWork`, `Conflicts`), the
insert in the same transaction, `_refuse` with its rollback, the waits for read
work, deferrals and retries, the two admissions of a backup around its pre-backup
hooks (`AdmitHooks`, then `Admit`), agent claims and jobs that end. The conflict rules
are the code's table by kind and class. Agents come and go (`AgentLeaves`,
`AgentReturns`): a manual backup that waits for an agent that is away holds no
capacity and counts again once the agent is back, so the limit may then be exceeded
by design (`test_offline_agent_backup_slot.py`). `waited` remembers such backups;
`WithinLimit` is about the others.

### PlanRun

All runs of a plan with their repositories: the run and retry routes, the
scheduler's pass (`DispatchDue`, with the awaited probe `DispatchProbed`), the
task of a run (`PrepareRun`, `StartPreHooks`, `SeriesStep` or `ParallelStep`,
`StartPostHooks`, `RunRaised`, ...), per repository `Enter`, `Admit`, `Waited`,
`Maintained`, the runner's side (`OpStarts`, `OpEnds`), `CancelRun` +
`CancelCommits`, `Crash` (with `cleanup_orphaned_jobs`) and `Sweep` of the hooks a
restart left. `cancel_run` asks child by child, with an await per operation that was
still queued; the model raises all flags and has one await after the last. Before the
hooks a restart left, the code also waits for an agent's job that outlived its operation
and for the repositories' own post-backup hooks; neither is in the model.

### AgentJobs and AgentJobContract

One agent: rows of `agent_jobs` and their operations, WebSocket sessions with
frames on the wire, the dispatcher (`dispatch_claim`, `SendOk`, `SendFails`),
hello and heartbeat (read and settled in two steps, as the code does), reports
(`Deliver`, `Refused`), waiters, the three ways to cancel, the reaper (read, then
guarded write), crashes of either side, revocation.
A requeue clears the stored log but for the lines in which a prune names an archive it
removed (`KeptLines`, for the jobs in `Prunes`). A maintenance job that fails on the
repository's lock leaves its row open (`LeftOpen`); the waiter then defers the row to the
queue and another job carries it on (`Closings`, `RunAgain`).
`AgentJobContract` is the promise of a job; `KeepsContract` is the refinement
(`INSTANCE` with `phase` and `verdict` read off the status).

Two looks are merged with the write that follows them without an await: the attempt of
a log line sent over HTTP (`api/agents.py:2326`, a route in a thread) and the status at
an acknowledgement (`:1200`). A write of another thread in those gaps, a requeue in the
first and a reaper's or a cancel's in the second, is not explored.

### AgentOutcomes

The threads in the agent process: worker, cancel command, hello and delivery
loop, over the registry, the kept outcomes and the HTTP lock; answers may be
lost, retried or refused, and a report may have been taken although its answer asks for
a retry. The delivery loop looks at the store, waits for its wake, clears it and takes
its list in steps of their own. A job that meets an upgrade's claim leaves the registry
before its failure is kept (`WorkerTurnsAway`); `turned` remembers it. What a delivery has listed is a set of jobs with their
outcomes, sent in the order of the job ids (`OutcomeStore.pending`).

### AgentUpgrades

The route, the waves of route and reaper (a wave is the set of its rows that are left,
lowest id first) with the rows as their sessions loaded them, command and answer,
timeout, hello (of a session that comes back, or that replaces a registered one), and the
endpoint's claim against the jobs that arrive. The calls of the route are `Routes`, each
naming the agents `Asks` gives it. `overtaken` remembers the rows a hello resolved while
they waited in a wave behind another; `CapHolds` and `SlotsTimed` are about the rest.
The REST heartbeat also resolves an upgrade (`api/agents.py:2049`), but only the polling
runtime sends it, which has no session an upgrade could be sent to.

### BorgMounts

`MountBorgArchive` (choice of the point and start of the process), `Poll`,
`Interrupted`, `CleanUp`; `SignalTerm`, `StopProcess`, `FinishUnmount`; `Restart`
of the server (borg processes live on under gunicorn's new worker) or of the
container (nothing does). The processes and the mount table are external: a mount
table is a stack per point, a killed process leaves a dead entry, and a dead entry
makes `os.path.exists` false, `makedirs` and `Path.exists` raise. Only points under
the mount base are modelled. The model assumes that the state file can be written
(`_save_state` truncates it in place and swallows errors, and `_load_state` starts with no
mounts after a torn write) and that `/proc/self/mounts` can be read (where it cannot, a
start keeps all records and cleans nothing up).

## Runs

Every passing run explores its instance completely. `CHECK_DEADLOCK FALSE` is set
where an instance ends (all requests served, row table full).

| Run | Instance | Checks |
|---|---|---|
| `runner_chains` | a plan backup with its index chain, an imported repository, reconciles; a repository that is busy, database errors, cancels | `TypeOK`, `RunningHasOwner`, `RanAfterDependency`, `CancelHonoured` |
| `runner_faults` | one repository: a plan backup with its inline compact, a check; a crash, a drain, lost claims, lasting errors, cancelled runs | `LaneExclusion`, `StepAfterBackup` |
| `runner_liveness` | a plan backup, its inline prune and its chain, an import, reconciles, a repository that is busy | `IndexSerial`, `QueuedEnds`, `ChangesGetListed` |
| `lease` | two processes, an index row and another, lease 3, gap 1, graceful window 2 | `OneRunner`, `TasksKeepRows`, `LeaseReturns` |
| `admission` | a manual backup, a plan, a prune and a listing on one repository, a retry on another, agents that come and go, limit 1 | `WritersAlone`, `WithinLimit`, `ScopesGivenBack` |
| `plan_faults` | two runs in series, an agent repository, read errors, a cancel, two restarts | `HooksOnce`, `PostAfterBackups`, `VerdictHolds`, `RunsAlone` |
| `plan_parallel` | three repositories, two at a time, one that stops the run on failure; two cancels, a restart | `HooksAccounted`, `CancelledStoppable`, `CancelFinal`, `RunsEnd` |
| `agent_safety` | a backup or a prune, three attempts, two sessions, two faults, lock failures, every cancel | `OneRunPerJob`, `OutcomeNotRepeated`, `LogOfOneRun`, `VerdictsAgree`, `ChainOnce`, `KeepsContract` |
| `agent_liveness` | the same with one fault, an agent that goes silent or is revoked | `JobEnds` |
| `outcome` | one job with its cancel and an upgrade that may turn it away, three lost, retried or refused answers | `Listed`, `RealOutcome`, `OutcomeArrives`, `CancelEnds` |
| `upgrade` | two calls over three endpoints, cap 2; two endpoints hang, the third is current, is sent jobs and reconnects; one fault | `CapHolds`, `SlotsTimed`, `ClaimAlone`, `UpgradeEnds` |
| `mounts` | three requests for one point, two of them naming it, two polls, two restarts | `OwnMount`, `NothingLeft` |

Bounds. `MaxDeferrals` and `MaxRequeues` stand for 20 and 3 and are 1, so that both
the retry and its exhaustion happen; `MaxOps` holds a backup, its step, its whole
chain and one more; where a row table runs full the enqueueing action is disabled
and no follow-up is lost silently. Lease 3 with gap 1 and window 2 is the tightest
timing the assumption allows. Three attempts over two sessions let a job be handed
out, taken back, handed out in the same session and again in the next. Two faults
are the least for a fault during the recovery from another. Two runs and two
restarts let a run's left hooks meet a new run and a second crash. A limit of one
with two manual requests makes the limit bind. In `upgrade` the code's cap of 5 is 2, the
least at which a row waits behind another in its wave: waves of two, a hand-back of an
aborted one, a row in two waves, rows overtaken by a hello and a third row that waits for
a slot are all reached (each was checked as a violation of its negation).

Fairness, all of it weak unless said:

* runner: the loop ticks at least every poll interval, the event loop resumes every
  task and every plan run, a backoff passes. Fairness of a task also says that its
  executor ends, which the code has for Borg's commands by timeout or cancel.
* lease: time passes, a loop that may renew does, a stopped process is killed after
  its graceful window.
* plan: the event loop runs every ready coroutine, the runner starts and ends what
  it is given, the sweep follows a restart.
* agent jobs: the server's loop and the reaper's thread keep serving; strong where a
  session may close and reopen in between (the next session's frames are read too).
  The agent reconnects, delivers what it keeps, and its processes end. A maintenance row
  that was deferred is taken up by the runner.
* outcomes: threads that can go on do; strong for the threads that wait for the HTTP
  lock, which Python's lock hands on; a handler ends once its cancel event is set.
  No hello is assumed.
* upgrades: waves, answers, the reaper and time go on, and an endpoint that has taken its
  claim for a command goes on to answer it; nothing else is assumed of an endpoint, and
  those outside of `Alive` never take up a command.

Users, faults and inputs are never assumed to happen.

`TypeOK` of every module was checked with its instances; only the runner's is a
property of a kept run, because it bounds the requeue and deferral budgets.

## Proofs

A theorem holds for every value of the constants that satisfies the assumptions its
module names (bounds and limits are naturals, settings have their types, and the
timing of the lease) and the hypotheses it states. A hypothesis is there where the
property fails without it; the failing case is then under Divergences. Every
inductive invariant was checked with TLC, on the instances of the runs or on
variants of them, before it was proved.

### OperationRunnerProofs

* `TypeCorrect`: `Spec => []TypeOK`. `TypeOK` bounds the deferral and requeue
  counters and is not inductive alone: `TypeInv` adds that the tick's claim is a
  row exactly in the claim phase (`ClaimInv`) and that an entry being recorded
  holds a verdict (`EntriesInv`), so what `RecordOutcome` writes is a status.
* `LaneExclusive`: `Spec => []LaneExclusion`. `LaneInv` adds that ids not handed
  out are idle, that `lanesHeld` covers every live exclusive task while the tick
  dispatches, and that the claimed row's lane is not in it. Nearly every action
  is `Quiet`: it starts no row, creates no task, and keeps the tick's claim and
  lanes or leaves the dispatch; one lemma (`QuietLane`) says a quiet step keeps
  `LaneInv`. `InlineStart`, `Load`, `Claim` and `Dispatch` have proofs of their
  own. The theorem covers what the model calls holding the lane: a dispatched
  task, a claim or a `running` row, inline rows excepted (see Divergences).
* `CancelHonouredAlways`, `IndexSerialAlways`, `StepAfterBackupAlways`: without
  hypotheses, over crashes and lasting errors too. They share `RowInv`, which says of
  each row what its status, its task, its cancel flag, its kept outcome, the tick's
  list and claim, and the plan that owns it allow of each other, and of a process
  that is down that it remembers nothing (`Down`). For instance: a flagged row is
  neither queued nor past the point where its task stops looking at the flag, and an
  outcome kept for it is cancelled or failed; a candidate of the tick is queued or
  was cancelled since, and has no task. `Good(k)` is what a step may do to row `k`;
  `RowElsewhere` proves it for the rows a step leaves alone, and one lemma per action
  for the others. Each theorem is read off `Good`: an index row gets busy by a `Claim`
  only, whose `can_start` looked at every other busy row; a backup that is `Over` stays
  so, and `StepInv` says that a step's backup is over.
* `RunningHasOwnerAlways`: as long as nothing crashes, no claim is lost, no database
  stays broken, and no plan runs steps on an agent. Each of the four leaves a row
  running until the next start.
* `RanAfterDependencyAlways`: without the backup cancel route
  (`"cancel_route" \notin Env`), over everything else the environment does. The look at
  the dependency is made once, at the claim, so the invariant must say that what was
  seen stays: a row that satisfies its dependents is `Settled` when no claim, task or
  kept outcome is left to write it, and no step unsettles it. `HangInv`: a row hangs on
  an index row or on a settled one, and has begun (`Begun`) on a settled one only. An
  index row that satisfies is settled (`IndexSettled`, from `RowInv`: whatever is busy
  with an index row reads running), and the head of a follow-up chain hangs on the row
  that just succeeded. `Lives(k)` is what a step may do to row `k` and `Hung(k)` what it
  may hang it on; both are proved per action. It uses `ChainsAssumption`: a
  submission of several kinds is one of index kinds, as in every caller of
  `enqueue_chain`.

### RunnerLeaseProofs

For any number of processes and rows and any timing with
`Gap + KillAfter <= Lease` (`LeaseAssumption`).

* `OneRunnerAlways`: `Spec => []OneRunner`. A step must know that a working
  process's lease has time left, so the invariant `Covered(p)` ties the lease to the
  timers: a working process is the holder and `left + age + sage >= Lease + 1`. With
  `age <= Gap` and `sage <= KillAfter` from the types, `left > 0`, so no other process
  can acquire.
* `TasksKeepRowsAlways`: no step of one process takes a row from under a task of
  another. `RowsHeld(p)` adds that a row with a task or a claim reads running and is
  in one of the two places; recovery and the sweep of another process would need the
  lease, which `Covered` excludes.

### JobAdmissionProofs

`WritersAloneAlways`, `WithinLimitAlways`, `ScopesGivenBackAlways`, without hypotheses.
An insert is safe because of what its session read some steps earlier. `Scoped` says
the row lock and the capacity scope are held exactly from that reading to the insert;
`Cleared` and `Counted` say that what was read still holds meanwhile, since whoever
could make it false needs the same scope; `Placed` ties rows and jobs to the places of
their requests. An agent that comes back makes backups count that did not when another
session counted, so `Counted` leaves out the ones that have waited (`Standing`), which
`WithinLimit` excepts; it is about a cardinality and cites `FiniteSetTheorems`.

### PlanRunProofs

`IInv` has, per run, where its task is, what its row says then and how often its
post-backup scripts started (`Task`), and per repository of a run where its coroutine
and its operation are (`Place`), that a repository which may still claim a backup is
open or in the list of the cancel under way (`Closing`), and the agreement of run and
repositories (`Sound`). A step is about one run; `Elsewhere` covers the others.

* `HooksOnceAlways`, `VerdictHoldsAlways`, `CancelledStoppableAlways`,
  `CancelFinalAlways` (an action property) follow from `IInv`, without hypotheses.
* `PostAfterBackupsAlways` adds `Calms`: a coroutine moves only while its run is at its
  repositories. Hypothesis: not both parallel repositories and reads that raise.
* `RunsAloneAlways` adds `Alone`. Hypotheses: that one, and no awaited probe.
* `HooksAccountedAlways` adds `AllAccounted`. Hypotheses: scripts that always run (others
  may owe none), no agent repository, at most one restart.

### AgentJobsProofs

* `ContractKept`: `Spec => KeepsContract`, the refinement of `AgentJobContract`. Each
  action changes the status of one job by a move the contract has (`OneMoves`) or
  settles several (`ManySettle`: hello, heartbeat, reaper). `Named` says that a frame,
  a worker, a kept outcome or a reading names no job that was never queued, `Wired`
  gives the types of what is under way.
* `VerdictsAgreeAlways`, `ChainOnceAlways`: `Verdict` is what a job's row, its
  operation, its waiter and its chain say of each other, a row left open by a lock failure,
  deferred or carried on by another job included. No hypotheses.
* `OneRunPerJobAlways`, `OutcomeNotRepeatedAlways`: `Tokens`. The dispatch of a job is in
  one place: waiting to be sent on the open socket, on the wire, at work, or done
  (`OnePlace`). A queued job is in none (`Waits`), which needs that a hello and a
  heartbeat that are not settled yet list all work the agent has (`HelloCovers`,
  `BeatCovers`), and those that a hello is first on its socket and an unregistered
  socket was given nothing.
* `LogOfOneRunAlways`: `LogInv` adds that attempts are numbered by their claims, that an
  attempt not sent yet left no trace, and that the log is that of the standing claim but
  for the kept lines of a prune.

The last three assume that the error of a failed send is not late
(`"late_send_error" \notin Env`).

### AgentOutcomesProofs

`ListedAlways`, `RealOutcomeAlways`, without hypotheses. `Workers` and `Stored`: what a
worker kept leaves the store only when the server recorded the job's end or refused it
for good. `Cancels`: a `cancel` report of a job that reports its cancel itself came from
its worker, wherever it is now (store, snapshot, lock), or the verdict was there before.

### AgentUpgradesProofs

* `ClaimAloneAlways`, without hypotheses: claim and job of an endpoint are taken under
  one lock (`ClaimInv`).
* `CapHoldsAlways`, `SlotsTimedAlways`: for any fleet, cap, calls of the route and number
  of faults, without hypotheses. `SlotInv` says of every row that was not overtaken: one
  that was sent to was requested when it was loaded and has a job, which keeps the route
  from taking it (`SentInv`); one that waits for its command is requested and not timed
  out (`WaitsInv`); it is in one wave and not queued (`OneWave`). So only a release makes
  it requested and no error clears its stamp. Overtaken rows may break all of this, also
  when they are queued again and claimed by another wave, and are left out for as long as
  a wave or a slot has them (`Recalls`). That a release fits into the free slots is a fact
  about cardinalities (`LowestFit`): the number of lower ids maps the claimed rows one to
  one into `0..free-1`. `FirstIn` takes the lowest id of a wave from the well-foundedness
  of the naturals.

### BorgMountsProofs

`OwnMountAlways`, `NothingLeftAlways`, if no caller names a point where another request
is still mounting (`~Overlap`) and a mount meets one unmount at a time (`OneCall`). A
request that is mounting, failing or tracked has its point to itself and its directory
stays (`Places`); the records, their file and the answered requests are the same
(`Recorded`); an unmount is about a tracked mount whose process it has stopped (`Calls`).
The proof of `NothingLeft` first failed, and TLC found the case with three requests and
two restarts: a process that outlived the server before it was recorded ends and detaches
a later mount of its point, which the next restart then forgets. The property excepts that
point (`Outlived`), and the run has two restarts.

### Only model-checked

* Every liveness property (`QueuedEnds`, `ChangesGetListed`, `LeaseReturns`, `RunsEnd`,
  `JobEnds`, `OutcomeArrives`, `CancelEnds`, `UpgradeEnds`): fairness is out of the
  prover's reach.

Every safety property a run checks is also the statement of a theorem, some under
hypotheses.

## Divergences

Properties that state what a comment or document says and that do not hold. They are
defined in their modules; the instance that refutes each is named.

* `OneExclusivePerRepository` (`Submissions` a plan backup and a check of one
  repository): `start_inline_maintenance` (`maintenance_start.py:144`) creates its row
  running without asking the lane. `docs/architecture/job-system.md:322`: "One
  exclusive operation per repository at a time (the repository lane)."
* `ChangesGetListed` with a settings refresh beside a backup: a queued `archive_sync`
  accepted as cover (`followups.py:138`) is skipped when its own dependency fails.
  `followups.py:122`: "it sees everything the caller's operation just did". It also
  fails with `db_error`: a chain lost between the verdict's commit and its enqueue is
  repaired by reconcile only.
* `RanAfterDependency` with `cancel_route`: the route asks for the cancel of a backup that
  is claimed and has no task yet, so no flag is kept; the backup runs, succeeds and
  enqueues its chain, the `archive_sync` starts, and only then the route writes
  `cancelled` (`backup.py:742`), whatever the row says. `job-system.md:363`: "A failed or
  cancelled operation skips everything that depends on it".
* `RunningHasOwner` with `claim_lost`, `db_broken` or `crash`: a non-index row whose claim
  was lost, whose outcome could not be written for good, or that recovery kept for a live
  process, reads running until the next start. So does a plan's step on an agent
  repository whose run went on without it.
* `MaintenanceIsUnderWay` with `plan_cancel`: `backup_plan_execution_service.py:2851`
  returns before the backup leaves its maintenance phase, and listings of the repository
  wait for a phase that is over. `lanes.py:52` says "queued or running".
* `OneRunPerJob` with `late_send_error` and `drop`: the error branch at
  `agent_job_dispatcher.py:109` withdraws whichever claim the job has; `:69` says "a job
  is sent once, by the pass that moves it off the queue".
* `ReaperLosesRace`: a heartbeat moves only `updated_at`, which the reaper's write
  (`agent_job_reaper.py:360`) does not look at; `:355` says the reaper loses that race.
* `NeverShared` under `StallSpec`: a loop that stands still longer than the lease keeps
  its tasks while another process recovers their rows; `models.py:1832`: "the two never
  run the same operation".
* `RunsAlone` with `Availability = TRUE`: the probe is awaited between the look for an
  active run and the insert (`backup_plan_execution_service.py:734`); the scheduling
  specification asks for an atomic claim. With `Parallel` and `Faults` it fails by the
  workers `gather` abandons (below): they are still at work when the next run starts.
* `PreNotUnderPost` (two runs, a restart, a cancel): before the sweep a cancelled run
  with hooks left is not seen as active; `:970`: "a new run's pre-backup hooks must not
  start under them". `RunsAlone` excepts it.
* `HooksAccounted` with an agent repository, two restarts and a cancel: a run cancelled
  before its pre-backup scripts runs them without the line that `:1006` speaks of.
* `PostAfterBackups` with `Parallel` and `Faults`: `gather` (`:1841`) ends with the first
  worker that raises; `:1004` says the scripts run "once its backups ended".
* `CancelledStoppable` after a restart: a queued backup of a cancelled run is run when
  the process is back. The property is stated for runs without a restart.
* `InFlightWithinCap` (the constants of `upgrade`): a wave sends to a row that was resolved
  while it waited (`agent_upgrades.py:154`), whose slot was given away meanwhile; the
  specification says "no more than the cap are in flight at once". `CapHolds` and
  `SlotsTimed` except such rows.
* `QueuedKept` (two endpoints, cap 1, three versions, a call for the second endpoint and one
  for both): a hello resolves the upgrade on the row it loaded earlier
  (`api/agents.py:2117`) and drops a newer one.
* `ClaimOutlastsRequest` (the constants of `upgrade`): the endpoint's claim starts before the server's timer;
  `session.py:38` says it ends "no earlier".
* `KeptNotReplaced` for a job that does not report its own cancel: the look and the keep
  of the cancel thread (`session.py:928`) are two steps.
* `OwnMount` with `Overlap = TRUE`: two requests that name one point reuse the empty
  directory while neither is mounted and mount over each other;
  `mount_service.py:1089`: "never displace an existing mount". With `Callers = {1, 2}`:
  the second of two unmounts of one mount detaches whatever was mounted there since.
* `NothingLeft` without its exception: a borg process that outlives the server between its
  start and its record (`mount_service.py:1302`) is in no record, and no unmount reaches it.
* `Untracked`: when every attempt to detach times out, `Path.exists` raises on the dead
  mount and the record stays; `mount_service.py:1489`: "Even if unmount failed, remove
  from tracking to prevent retry loops".
* A mount request is confirmed when its path is part of any listed path
  (`mount_service.py:1270`), a sibling's included, and a request that times out just as
  its mount appears leaves a dead mount that makes the next request for the name fail.

## Plan

1. Done: runner, lease, admission, plan runs, agent jobs with their contract, outcomes,
   upgrades, archive mounts; all 32 safety properties (the contract is one) proved,
   some under the hypotheses above.
2. Next: `HistoryFold` (`fold_pair`, `fold_sequence` against the difference of the end
   states), repository wipe (preview, fingerprint, partial deletion), SSHFS mounts with
   shared temp roots.

## Not modelled

The models follow the code that decides, about a twentieth of the repository's lines.
The rest is, by size: CRUD and read-only routes (`api/`: repositories, SSH keys,
rclone, discovery, schedules, settings), which keep no state between two requests
beyond the rows they write in one transaction; Borg, SSH and rclone process I/O,
parsing and formatting (`backup_service.py`, `restore_service.py`,
`rclone_repository_service.py`), whose effect on the job system is the verdict the
models take as a choice; migrations, authentication, licensing, notifications, MQTT,
metrics and the frontend, on which no decision modelled here depends. `PROJECT.json`
gives the reason for each component. Data of single rows (names, logs, sizes, reports)
is abstracted throughout.
