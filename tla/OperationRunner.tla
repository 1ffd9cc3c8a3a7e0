-------------------------- MODULE OperationRunner --------------------------
(***************************************************************************)
(* The operations runner: one asyncio loop over the `operations` table.    *)
(* Every tick records outcomes whose terminal commit had failed, sweeps    *)
(* index rows a dead task left running, and walks the queued rows in       *)
(* priority order, claiming what its dependency, the lanes and the global  *)
(* limits let start.  A claimed row gets a task; the task runs the kind's  *)
(* executor, writes the row's verdict and enqueues the follow-up chain.    *)
(*   src/app/services/operations/{runner,lanes,enqueue,followups,          *)
(*                                maintenance_start}.py                    *)
(*                                                                         *)
(* One action is one stretch of code between two awaits (or between two    *)
(* database commits that may fail apart): the event loop runs nothing else *)
(* inside it.  Rows survive a crash; tasks, flags and the tick do not.     *)
(***************************************************************************)
EXTENDS OperationsVocab, FiniteSets

CONSTANTS
    MaxOps,              \* bound: rows of the operations table
    MaxSubmits,          \* bound: rows asked for by users and schedules
    MaxFaults,           \* bound: database errors
    MaxCrashes,          \* bound: process deaths
    Repos,               \* repositories
    NoRepo,              \* repository_id NULL
    AgentRepos,          \* repositories executed by a managed agent
    Submissions,         \* what may be asked for: [kinds, repo, trigger]
    Available,           \* kinds with a registered executor
    IndexMode,           \* [Repos -> INDEX_MODES]
    NoHistory,           \* agent repositories whose agent lists no changes
    Bypass,              \* repositories whose listings may pass the lane
    PausedStages,        \* SystemSettings.paused_stages
    AutoPreview,         \* automatic prune previews are on
    MaxBackups, MaxScheduledBackups, MaxScheduledChecks, IndexWorkers,
    MaxDeferrals, MaxRequeues,
    InlineKinds,         \* maintenance a plan runs inline after its backup
    Words,               \* verdicts executors and services reach
    Env                  \* what the environment does in this instance

EnvChoices == {"cancel", "cancel_route", "busy", "db_error", "db_broken",
               "claim_lost", "crash", "stop", "import", "reconcile",
               "plan_cancel"}

ASSUME BoundsAssumption ==
    /\ MaxOps \in Nat \ {0}
    /\ MaxSubmits \in Nat /\ MaxFaults \in Nat /\ MaxCrashes \in Nat
    /\ MaxDeferrals \in Nat /\ MaxRequeues \in Nat

ASSUME LimitsAssumption ==
    /\ MaxBackups \in Nat /\ MaxScheduledBackups \in Nat
    /\ MaxScheduledChecks \in Nat /\ IndexWorkers \in Nat

ASSUME SettingsAssumption ==
    /\ NoRepo \notin Repos
    /\ AgentRepos \subseteq Repos /\ Bypass \subseteq Repos
    /\ Submissions \subseteq [kinds : Seq(KINDS), repo : Repos \cup {NoRepo},
                              trigger : TRIGGERS]
    /\ \A s \in Submissions : s.kinds # << >>
    /\ Available \subseteq KINDS
    /\ IndexMode \in [Repos -> INDEX_MODES] /\ NoHistory \subseteq AgentRepos
    /\ PausedStages \subseteq STAGES
    /\ AutoPreview \in BOOLEAN
    /\ InlineKinds \subseteq MAINTENANCE_KINDS \ {"delete_archive"}
    /\ Words \subseteq OUTCOME_STATUSES
    /\ Env \subseteq EnvChoices

\* enqueue_chain is called for the stages of the index only; anything else is
\* enqueued alone.
ASSUME ChainsAssumption ==
    \A s \in Submissions : Len(s.kinds) > 1 =>
        \A n \in 1..Len(s.kinds) : s.kinds[n] \in INDEX_KINDS

Ids == 1..MaxOps

VARIABLES
    \* the operations table
    count,        \* rows inserted so far; row ids are 1..count
    status,       \* Operation.status, "absent" for an id not handed out
    op,           \* what a row never changes: kind, repo, trigger, run
    dep,          \* depends_on_id, 0 for NULL
    inherited,    \* rows skipped with skip_reason = dependency_failed
    deferrals,    \* params["deferrals"]
    requeues,     \* params["requeues"]
    notBefore,    \* params["deferred_until"] lies in the future
    maint,        \* backups whose maintenance_status is running_prune/compact
    \* the runner's memory
    task,         \* running_tasks, by how far run_operation got
    cancelReq,    \* cancel_requested
    unrec,        \* unrecorded_outcomes
    phase,        \* where the loop stands
    recording,    \* entries this tick has still to record
    todo,         \* candidates this tick has still to visit
    lanesHeld,    \* repositories whose lane a live task holds
    claim,        \* the row claimed and not dispatched yet, 0 for none
    shutdown,     \* stop() and drain()
    \* the rest of the process
    routes,       \* backup cancel routes between request_cancel and the write
    plan,         \* per backup: whether a live plan run owns it, or a cancelled one
    inline,       \* rows start_inline_maintenance created
    steps,        \* those a plan run is executing
    survivors,    \* rows whose Borg process outlived a crash
    \* bounds and history
    submits, faults, crashes,
    unlisted      \* history: repositories changed and not listed since

rowVars  == <<count, status, op, dep, inherited, deferrals, requeues,
              notBefore, maint>>
taskVars == <<task, cancelReq, unrec>>
tickVars == <<phase, recording, todo, lanesHeld, claim>>
procVars == <<shutdown, routes, plan, inline, steps, survivors>>
ghosts   == <<submits, faults, crashes, unlisted>>
vars     == <<rowVars, taskVars, tickVars, procVars, ghosts>>

TaskStates == {"none",
               "created",    \* create_task done, run_operation not begun
               "executing",  \* the executor runs
               "succeeded",  \* a success is committed, the chain is owed
               "closing",    \* another verdict is committed
               "deferring"}  \* put back to queued, the task not gone yet

\* A plan run as its waiting part sees it.
PlanStates == {"none", "live",
               "cancelled",  \* cancel_run was called
               "asked"}      \* ... and the waiter asked the runner too

RowStatus == STATUSES \cup {"absent"}

OpType == [kind : KINDS, repo : Repos \cup {NoRepo}, trigger : TRIGGERS, run : Nat]

EntryType == [status : TERMINAL_STATUSES \cup {"none"},
              fallback : BOOLEAN, retried : BOOLEAN]

NoEntry == [status |-> "none", fallback |-> FALSE, retried |-> FALSE]

NoOp == [kind |-> "stats", repo |-> NoRepo, trigger |-> "manual", run |-> 0]

TypeOK ==
    /\ count \in 0..MaxOps
    /\ status \in [Ids -> RowStatus]
    /\ op \in [Ids -> OpType]
    /\ dep \in [Ids -> 0..MaxOps]
    /\ inherited \subseteq Ids
    /\ deferrals \in [Ids -> 0..MaxDeferrals]
    /\ requeues \in [Ids -> 0..MaxRequeues]
    /\ notBefore \in [Ids -> BOOLEAN]
    /\ maint \subseteq Ids
    /\ task \in [Ids -> TaskStates]
    /\ cancelReq \subseteq Ids
    /\ unrec \in [Ids -> EntryType]
    /\ phase \in {"down", "idle", "record", "load", "scan", "claim"}
    /\ recording \subseteq Ids /\ todo \subseteq Ids
    /\ lanesHeld \subseteq Repos
    /\ claim \in 0..MaxOps
    /\ shutdown \in {"no", "stopped", "draining", "timed_out"}
    /\ routes \subseteq Ids
    /\ plan \in [Ids -> PlanStates]
    /\ inline \subseteq Ids /\ steps \subseteq inline /\ survivors \subseteq Ids
    /\ submits \in 0..MaxSubmits /\ faults \in 0..MaxFaults
    /\ crashes \in 0..MaxCrashes
    /\ unlisted \subseteq Repos

Init ==
    /\ count = 0
    /\ status = [i \in Ids |-> "absent"]
    /\ op = [i \in Ids |-> NoOp]
    /\ dep = [i \in Ids |-> 0]
    /\ inherited = {} /\ maint = {}
    /\ deferrals = [i \in Ids |-> 0]
    /\ requeues = [i \in Ids |-> 0]
    /\ notBefore = [i \in Ids |-> FALSE]
    /\ task = [i \in Ids |-> "none"]
    /\ cancelReq = {}
    /\ unrec = [i \in Ids |-> NoEntry]
    /\ phase = "idle"
    /\ recording = {} /\ todo = {} /\ lanesHeld = {} /\ claim = 0
    /\ shutdown = "no"
    /\ plan = [i \in Ids |-> "none"]
    /\ routes = {} /\ inline = {} /\ steps = {} /\ survivors = {}
    /\ submits = 0 /\ faults = 0 /\ crashes = 0
    /\ unlisted = {}

-----------------------------------------------------------------------------
(* Reading the rows. *)

Exclusive(i) == op[i].kind \in EXCLUSIVE_KINDS
IsIndex(i)   == op[i].kind \in INDEX_KINDS
Live(i)      == task[i] # "none"

RunningOn(repo, kinds) ==
    {i \in Ids : status[i] = "running" /\ op[i].repo = repo /\ op[i].kind \in kinds}

\* lane_free(exclude_id = i)
LaneFree(repo, i) == RunningOn(repo, EXCLUSIVE_KINDS) \subseteq {i}

\* running_index_operation
IndexRunning(repo) == RunningOn(repo, SHARED_INDEX_KINDS) # {}

\* write_maintenance_running: pending maintenance counts as well.
WriteMaintenanceRunning(repo) ==
    \/ \E i \in Ids : /\ status[i] \in {"queued", "running"}
                      /\ op[i].repo = repo
                      /\ op[i].kind \in WRITE_MAINTENANCE_KINDS
    \/ \E i \in maint : op[i].repo = repo

\* Backups that wait for an agent that is away are counted too, where the code
\* subtracts them (JobAdmission has the presence of agents): the model claims
\* less than the code would, and no property is about the backup limits.
RunningCount(kinds, triggers) ==
    Cardinality({i \in Ids : /\ status[i] = "running"
                             /\ op[i].kind \in kinds
                             /\ op[i].trigger \in triggers})

\* Mutant: the index limit off by one.
SlotOneTooMany(i) == IsIndex(i) => RunningCount(INDEX_KINDS, TRIGGERS) <= IndexWorkers

GlobalSlotAvailable(i) ==
    /\ op[i].kind = "backup" /\ op[i].trigger = "schedule" =>
          RunningCount({"backup"}, {"schedule"}) < MaxScheduledBackups
    /\ op[i].kind = "backup" /\ op[i].trigger # "schedule" =>
          RunningCount({"backup"}, TRIGGERS \ {"schedule", "preview"}) < MaxBackups
    /\ op[i].kind = "check" /\ op[i].trigger = "schedule" =>
          RunningCount({"check"}, {"schedule"}) < MaxScheduledChecks
    /\ IsIndex(i) => RunningCount(INDEX_KINDS, TRIGGERS) < IndexWorkers

StagePaused(i) == /\ StageForKind(op[i].kind) \in PausedStages
                  /\ op[i].trigger \in {"followup", "reconcile"}

\* Mutant: the check for another index operation of the repository is lost.
CanStartBesideIndex(i) ==
    /\ ~StagePaused(i)
    /\ GlobalSlotAvailable(i)
    /\ op[i].repo # NoRepo /\ Exclusive(i) => LaneFree(op[i].repo, i)

\* lanes.can_start
CanStart(i) ==
    /\ ~StagePaused(i)
    /\ GlobalSlotAvailable(i)
    /\ op[i].repo # NoRepo =>
          /\ IsIndex(i) => ~IndexRunning(op[i].repo)
          /\ Exclusive(i) => LaneFree(op[i].repo, i)
          /\ IsIndex(i) /\ ~Exclusive(i) =>
                /\ ~WriteMaintenanceRunning(op[i].repo)
                /\ LaneFree(op[i].repo, i) \/ op[i].repo \in Bypass

\* Mutant: a failed dependency is neither failed nor satisfied.
FailedIsPending(st, d) ==
    st[d] \in {"absent", "cancelled"} \/ (st[d] = "skipped" /\ d \in inherited)

\* What the tick makes of a dependency: a missing, failed or cancelled row,
\* or one that inherited a failure, fails it; any other skip satisfies it.
DependencyFailed(st, d) ==
    \/ st[d] \in {"absent", "failed", "cancelled"}
    \/ st[d] = "skipped" /\ d \in inherited

DependencySatisfied(st, d) ==
    st[d] \in SUCCESS_STATUSES \cup {"skipped"} /\ ~DependencyFailed(st, d)

-----------------------------------------------------------------------------
(* Enqueueing. *)

\* The rows after enqueueing `kinds` on `repo`, the first hung on d0 and each
\* other one on the row before it.
EnqueueChain(st, kinds, repo, trigger, run, d0) ==
    /\ count + Len(kinds) <= MaxOps
    /\ count' = count + Len(kinds)
    /\ status' = [i \in Ids |-> IF i \in (count + 1)..(count + Len(kinds))
                                THEN "queued" ELSE st[i]]
    /\ op' = [i \in Ids |-> IF i \in (count + 1)..(count + Len(kinds))
                            THEN [kind |-> kinds[i - count], repo |-> repo,
                                  trigger |-> trigger, run |-> run]
                            ELSE op[i]]
    /\ dep' = [i \in Ids |-> IF i \in (count + 1)..(count + Len(kinds))
                             THEN IF i = count + 1 THEN d0 ELSE i - 1
                             ELSE dep[i]]

\* What a finished operation may have found: whether archives changed matters
\* to automatic previews only.
Changes == IF AutoPreview THEN BOOLEAN ELSE {FALSE}

\* chain_for_repository and followup_wanted for the follow-up kind k.
FollowupWanted(k, repo, changed) ==
    /\ k \in Available
    /\ Allows(IF repo \in Repos THEN IndexMode[repo] ELSE "full", k)
    /\ k \in PLAN_GATED_KINDS => repo \notin NoHistory
    /\ k = "prune_compare" => AutoPreview /\ changed

Kept(chain, n, repo, changed) ==
    IF n \in 1..Len(chain) /\ FollowupWanted(chain[n], repo, changed)
    THEN <<chain[n]>> ELSE << >>

\* `chain` without the kinds this repository does not get, in order.
Filtered(chain, repo, changed) ==
    Kept(chain, 1, repo, changed) \o Kept(chain, 2, repo, changed)
        \o Kept(chain, 3, repo, changed)

\* chain_for_repository: the chain of a finished `kind`.
ChainFor(kind, repo, changed) == Filtered(FOLLOWUPS[kind], repo, changed)

\* reconcile_kinds
ReconcileKinds(repo) == Filtered(RECONCILE_CHAIN, repo, FALSE)

\* The walk of will_run from row i over the rows in `waiting` it depends on,
\* until one that is not among them, which must satisfy.  A walk longer than
\* the table has met a cycle.
Walk(st, waiting) ==
    LET walk[n \in 0..MaxOps, i \in Ids] ==
            IF dep[i] = 0 THEN TRUE
            ELSE IF dep[i] \notin waiting THEN DependencySatisfied(st, dep[i])
            ELSE n > 0 /\ walk[n - 1, dep[i]]
    IN  walk

\* will_run for every row queued on repo.
WillRun(st, repo) ==
    LET waiting == {i \in Ids : st[i] = "queued" /\ op[i].repo = repo}
    IN  {i \in waiting : Walk(st, waiting)[MaxOps, i]}

\* Mutant: a refresh that is already running counts as covering.
CoveredByActive(st, repo, kinds) ==
    \A n \in 1..Len(kinds) : \E j \in Ids :
        st[j] \in {"queued", "running"} /\ op[j].repo = repo /\ op[j].kind = kinds[n]

\* queued_chain_covering: every kind is already waiting and will run.
Covered(st, repo, kinds) ==
    \A n \in 1..Len(kinds) : \E j \in WillRun(st, repo) : op[j].kind = kinds[n]

\* enqueue_followups(operation = i, depends_on_id = d0) on the rows `st`: no
\* new chain when one is waiting; its heads of the same run move under d0.
EnqueueFollowups(st, i, d0, changed) ==
    LET repo  == op[i].repo
        kinds == ChainFor(op[i].kind, repo, changed)
        heads == {j \in WillRun(st, repo) : /\ d0 # 0 /\ dep[j] # d0
                                            /\ op[j].run = op[i].run
                                            /\ dep[j] \notin WillRun(st, repo)}
    IN  \/ /\ kinds = << >>
           /\ status' = st
           /\ UNCHANGED <<count, op, dep>>
        \/ /\ kinds # << >> /\ Covered(st, repo, kinds)
           /\ status' = st
           /\ dep' = [j \in Ids |-> IF j \in heads THEN d0 ELSE dep[j]]
           /\ UNCHANGED <<count, op>>
        \/ /\ kinds # << >> /\ ~Covered(st, repo, kinds)
           /\ EnqueueChain(st, kinds, repo, "followup", op[i].run, d0)

\* History: a success of this kind leaves the repository to be listed again.
Unlisted(kind, repo, s) ==
    IF /\ s \in SUCCESS_STATUSES /\ repo \in Repos
       /\ FollowupWanted("archive_sync", repo, FALSE)
       /\ \E n \in 1..Len(FOLLOWUPS[kind]) : FOLLOWUPS[kind][n] = "archive_sync"
    THEN unlisted \cup {repo} ELSE unlisted

\* enqueue and enqueue_chain: a user, a schedule or a plan asks for an
\* operation or a chain of index kinds.  A second active maintenance of one
\* kind on a repository is refused.
Submit(s) ==
    /\ phase # "down" /\ submits < MaxSubmits
    /\ s.kinds[1] \in MAINTENANCE_KINDS =>
          ~ \E i \in Ids : /\ status[i] \in {"queued", "running"}
                           /\ op[i].kind = s.kinds[1] /\ op[i].repo = s.repo
    /\ EnqueueChain(status, s.kinds, s.repo, s.trigger, count + 1, 0)
    /\ submits' = submits + 1
    /\ plan' = IF s.kinds[1] = "backup" /\ s.trigger = "plan"
               THEN [plan EXCEPT ![count + 1] = "live"] ELSE plan
    /\ UNCHANGED <<inherited, deferrals, requeues, notBefore, maint, taskVars,
                   tickVars, shutdown, routes, inline, steps, survivors, faults,
                   crashes, unlisted>>

\* has_active_index_work: a running stats, history or merge does not count.
ActiveIndexWork(repo) ==
    \E i \in Ids : /\ op[i].repo = repo
                   /\ \/ status[i] = "queued" /\ IsIndex(i)
                      \/ status[i] = "running" /\ op[i].kind = "archive_sync"

\* enqueue_reconcile_run: the periodic listing of a repository.  Whether the
\* cooldown after failed listings has passed is the clock's choice.
Reconcile(repo) ==
    LET kinds == ReconcileKinds(repo)
    IN  /\ "reconcile" \in Env /\ phase # "down" /\ submits < MaxSubmits
        /\ kinds # << >> /\ ~ActiveIndexWork(repo)
        /\ EnqueueChain(status, kinds, repo, "reconcile", count + 1, 0)
        /\ submits' = submits + 1
        /\ UNCHANGED <<inherited, deferrals, requeues, notBefore, maint, taskVars,
                       tickVars, procVars, faults, crashes, unlisted>>

\* record_import_connect: the connect step is recorded completed and its
\* chain queued in one commit; no waiting chain is looked for.
ImportConnect(repo) ==
    LET kinds == <<"import_connect">> \o ChainFor("import_connect", repo, FALSE)
        new   == (count + 1)..(count + Len(kinds))
    IN  /\ "import" \in Env /\ phase # "down" /\ submits < MaxSubmits
        /\ count + Len(kinds) <= MaxOps
        /\ count' = count + Len(kinds)
        /\ status' = [i \in Ids |-> IF i = count + 1 THEN "completed"
                                    ELSE IF i \in new THEN "queued" ELSE status[i]]
        /\ op' = [i \in Ids |->
                     IF i \in new
                     THEN [kind |-> kinds[i - count], repo |-> repo,
                           trigger |-> IF i = count + 1 THEN "import" ELSE "followup",
                           run |-> count + 1]
                     ELSE op[i]]
        /\ dep' = [i \in Ids |-> IF i \in new THEN IF i = count + 1 THEN 0 ELSE i - 1
                                 ELSE dep[i]]
        /\ submits' = submits + 1
        /\ UNCHANGED <<inherited, deferrals, requeues, notBefore, maint, taskVars,
                       tickVars, procVars, faults, crashes, unlisted>>

-----------------------------------------------------------------------------
(* The tick. *)

\* One database error out of the budget.
Fault(kind) == kind \in Env /\ faults < MaxFaults /\ faults' = faults + 1

\* start(): a tick begins, with the entries to record as they are now.
TickStart ==
    /\ phase = "idle" /\ shutdown = "no"
    /\ phase' = "record"
    /\ recording' = {i \in Ids : unrec[i] # NoEntry}
    /\ UNCHANGED <<rowVars, taskVars, todo, lanesHeld, claim, procVars, ghosts>>

\* The rows an unrecorded outcome is written over.
Recordable(i) == IF unrec[i].fallback THEN {"running"}
                 ELSE {"running", "skipped"} \cup SUCCESS_STATUSES

Recorded(i) == IF status[i] \in Recordable(i)
               THEN [status EXCEPT ![i] = unrec[i].status] ELSE status

ChainOwed(st, i) ==
    /\ st[i] \in SUCCESS_STATUSES
    /\ ~ \E j \in Ids : dep[j] = i /\ op[j].trigger = "followup" /\ st[j] # "absent"

\* record_unrecorded_outcomes, one entry: write the row, enqueue the chain it
\* owes, forget the entry.  An entry whose row has a task again is dropped.
RecordOutcome(i, changed) ==
    /\ phase = "record" /\ i \in recording
    /\ recording' = recording \ {i}
    /\ unrec' = [unrec EXCEPT ![i] = NoEntry]
    /\ \/ /\ Live(i)
          /\ UNCHANGED <<count, status, op, dep, cancelReq, unlisted>>
       \/ /\ ~Live(i)
          /\ cancelReq' = cancelReq \ {i}
          /\ \/ /\ ChainOwed(Recorded(i), i)
                /\ EnqueueFollowups(Recorded(i), i, i, changed)
                /\ unlisted' = Unlisted(op[i].kind, op[i].repo, Recorded(i)[i])
             \/ /\ ~ChainOwed(Recorded(i), i)
                /\ status' = Recorded(i)
                /\ UNCHANGED <<count, op, dep, unlisted>>
    /\ UNCHANGED <<inherited, deferrals, requeues, notBefore, maint, task, phase,
                   todo, lanesHeld, claim, procVars, submits, faults, crashes>>

\* The same entry meeting an error, before its row's commit or after it.  A
\* transient one keeps the entry; any other is tried once more, then dropped.
RecordFails(i, committed) ==
    /\ phase = "record" /\ i \in recording /\ ~Live(i)
    /\ recording' = recording \ {i}
    /\ status' = IF committed THEN Recorded(i) ELSE status
    /\ \/ Fault("db_error") /\ UNCHANGED unrec
       \/ /\ Fault("db_broken")
          /\ unrec' = [unrec EXCEPT ![i] = IF @.retried THEN NoEntry
                                           ELSE [@ EXCEPT !.retried = TRUE]]
    /\ UNCHANGED <<count, op, dep, inherited, deferrals, requeues, notBefore, maint,
                   task, cancelReq, phase, todo, lanesHeld, claim, procVars,
                   submits, crashes, unlisted>>

\* Mutant: one requeue too many.
RequeueableOnceMore(i) == requeues[i] <= MaxRequeues

Requeueable(i) == requeues[i] < MaxRequeues

\* _recover_index_row on every row of `lost`: back to queued after a backoff,
\* or failed once the budget is spent; rows in `dropped` are cancelled.
RecoverIndexRows(st, lost, dropped) ==
    /\ status' = [i \in Ids |-> IF i \in dropped THEN "cancelled"
                                ELSE IF i \notin lost THEN st[i]
                                ELSE IF Requeueable(i) THEN "queued" ELSE "failed"]
    /\ requeues' = [i \in Ids |-> IF i \in lost \ dropped /\ Requeueable(i)
                                  THEN requeues[i] + 1 ELSE requeues[i]]
    /\ notBefore' = [i \in Ids |-> (i \in lost \ dropped /\ Requeueable(i))
                                   \/ notBefore[i]]

AbandonedIndexRows ==
    {i \in Ids : status[i] = "running" /\ IsIndex(i) /\ ~Live(i)}

\* requeue_abandoned_index_rows, or its failure, which costs the tick nothing.
Sweep ==
    /\ phase = "record" /\ recording = {}
    /\ phase' = "load"
    /\ \/ /\ RecoverIndexRows(status, AbandonedIndexRows,
                              AbandonedIndexRows \cap cancelReq)
          /\ cancelReq' = cancelReq \ AbandonedIndexRows
          /\ UNCHANGED faults
       \/ /\ AbandonedIndexRows # {} /\ Fault("db_error")
          /\ UNCHANGED <<status, requeues, notBefore, cancelReq>>
    /\ UNCHANGED <<count, op, dep, inherited, deferrals, maint, task, unrec,
                   recording, todo, lanesHeld, claim, procVars, submits, crashes,
                   unlisted>>

\* _lanes_held: by task, whatever the row says.
LanesHeld == {op[i].repo : i \in {j \in Ids : Live(j) /\ Exclusive(j)}} \ {NoRepo}

\* The candidates, without the rows whose backoff has not passed.
Load ==
    /\ phase = "load"
    /\ phase' = "scan"
    /\ todo' = {i \in Ids : status[i] = "queued" /\ ~notBefore[i]}
    /\ lanesHeld' = LanesHeld
    /\ UNCHANGED <<rowVars, taskVars, recording, claim, procVars, ghosts>>

\* ORDER BY priority, created_at, id
Before(i, j) ==
    LET p == PriorityForTrigger(op[i].trigger)
        q == PriorityForTrigger(op[j].trigger)
    IN  p < q \/ (p = q /\ i < j)

DependencyLost(i) == dep[i] # 0 /\ DependencyFailed(status, dep[i])

\* Mutant: a dependency put back to the queue does not hold its dependent back.
PendingOnlyRunning(i) == dep[i] # 0 /\ status[dep[i]] = "running"

DependencyPending(i) == dep[i] # 0 /\ ~DependencyLost(i)
                                   /\ ~DependencySatisfied(status, dep[i])

ToSkip(i) == \/ DependencyLost(i)
             \/ ~DependencyPending(i) /\ op[i].kind \notin Available

\* Mutant: the lanes are read from the rows only.
StartableByRows(i) == CanStart(i) /\ status[i] = "queued"

\* A row that would start: the lanes held by tasks, can_start, and the
\* conditional UPDATE, which takes only a row that is still queued.
Startable(i) ==
    /\ Exclusive(i) => op[i].repo \notin lanesHeld
    /\ CanStart(i)
    /\ status[i] = "queued"

\* The loop body leaves the candidate to a later tick.
Passed(i) ==
    Live(i) \/ (~ToSkip(i) /\ (DependencyPending(i) \/ ~Startable(i)))

\* The next candidate the loop stops at; the rows before it are passed over
\* without an await.
NextCandidate(i) ==
    /\ phase = "scan" /\ shutdown = "no"
    /\ i \in todo /\ ~Passed(i)
    /\ \A j \in todo : Before(j, i) => Passed(j)

\* _skip: the row is written skipped, whatever it says by now.
Skip(i) ==
    /\ NextCandidate(i) /\ ToSkip(i)
    /\ status' = [status EXCEPT ![i] = "skipped"]
    /\ inherited' = IF DependencyLost(i) THEN inherited \cup {i} ELSE inherited \ {i}
    /\ todo' = {j \in todo : Before(i, j)}
    /\ UNCHANGED <<count, op, dep, deferrals, requeues, notBefore, maint, taskVars,
                   phase, recording, lanesHeld, claim, procVars, ghosts>>

\* The conditional claim; the broadcast after it is awaited.
Claim(i) ==
    /\ NextCandidate(i) /\ ~ToSkip(i)
    /\ status' = [status EXCEPT ![i] = "running"]
    /\ todo' = {j \in todo : Before(i, j)}
    /\ phase' = "claim" /\ claim' = i
    /\ UNCHANGED <<count, op, dep, inherited, deferrals, requeues, notBefore, maint,
                   taskVars, recording, lanesHeld, procVars, ghosts>>

\* create_task, and the lane noted for the rest of this tick.
Dispatch ==
    /\ phase = "claim"
    /\ task' = [task EXCEPT ![claim] = "created"]
    /\ lanesHeld' = IF Exclusive(claim) /\ op[claim].repo # NoRepo
                    THEN lanesHeld \cup {op[claim].repo} ELSE lanesHeld
    /\ phase' = "scan" /\ claim' = 0
    /\ UNCHANGED <<rowVars, cancelReq, unrec, recording, todo, procVars, ghosts>>

\* The refresh or the broadcast's read raises after the claim's commit: the
\* tick ends and the claimed row is running with no task.
ClaimLost ==
    /\ phase = "claim" /\ Fault("claim_lost")
    /\ phase' = "idle" /\ claim' = 0 /\ todo' = {} /\ lanesHeld' = {}
    /\ UNCHANGED <<rowVars, taskVars, recording, procVars, submits, crashes, unlisted>>

\* A read or a commit of the dispatch pass raises: start() logs it.
TickFails ==
    /\ phase \in {"load", "scan"} /\ Fault("db_error")
    /\ phase' = "idle" /\ todo' = {} /\ lanesHeld' = {}
    /\ UNCHANGED <<rowVars, taskVars, recording, claim, procVars, submits, crashes,
                   unlisted>>

\* No candidate is left, or stop() broke the loop.
TickEnd ==
    /\ phase = "scan"
    /\ shutdown # "no" \/ \A i \in todo : Passed(i)
    /\ phase' = "idle" /\ todo' = {} /\ lanesHeld' = {}
    /\ UNCHANGED <<rowVars, taskVars, recording, claim, procVars, ghosts>>

-----------------------------------------------------------------------------
(* run_operation: one task. *)

\* The task reads its row: a row that is not running is not its row, and the
\* task ends with nothing to record (its cancel flag, if any, stays).
Begin(i) ==
    /\ task[i] = "created" /\ shutdown # "timed_out"
    /\ task' = [task EXCEPT ![i] = IF status[i] = "running" THEN "executing"
                                   ELSE "none"]
    /\ unlisted' = IF status[i] = "running" /\ op[i].kind = "archive_sync"
                   THEN unlisted \ {op[i].repo} ELSE unlisted
    /\ UNCHANGED <<rowVars, cancelReq, unrec, tickVars, procVars, submits, faults,
                   crashes>>

\* Mutant: the outcome of a failed terminal commit is forgotten.
OutcomeForgotten(i, verdict, fallback) == unrec' = unrec

\* What `finally` files for the tick when no verdict reached the row; index
\* rows are left to the sweep.
Unrecorded(i, verdict, fallback) ==
    unrec' = IF IsIndex(i) THEN unrec
             ELSE [unrec EXCEPT ![i] = [status |-> verdict, fallback |-> fallback,
                                        retried |-> FALSE]]

\* The first read fails: the outcome is a failure nobody has written.
BeginFails(i) ==
    /\ task[i] = "created" /\ shutdown # "timed_out" /\ Fault("db_error")
    /\ task' = [task EXCEPT ![i] = "none"]
    /\ Unrecorded(i, "failed", TRUE)
    /\ UNCHANGED <<rowVars, cancelReq, tickVars, procVars, submits, crashes, unlisted>>

\* The service that does the work writes its verdict on the row, in its own
\* session; the executor has more to do after it (hooks, mirror, statistics),
\* and a hook that fails turns a success into a failure.
ServiceWrites(i, w) ==
    /\ task[i] = "executing" /\ op[i].kind \in SERVICE_KINDS
    /\ status[i] = "running" \/ (status[i] \in SUCCESS_STATUSES /\ w = "failed")
    /\ status' = [status EXCEPT ![i] = w]
    /\ UNCHANGED <<count, op, dep, inherited, deferrals, requeues, notBefore, maint,
                   taskVars, tickVars, procVars, ghosts>>

\* Mutant: the flag is not asked once the service has a verdict.
VerdictBeatsCancel(i) ==
    IF op[i].kind \in SERVICE_KINDS
    THEN {"failed", IF status[i] = "running" THEN "failed" ELSE status[i]}
    ELSE Words

\* What the terminal write can say.  The executor of a service kind reads the
\* row back (no verdict there is a failure) or raises; the others return a
\* verdict of their own.  An accepted cancel beats everything but a failure.
Verdicts(i) ==
    IF op[i].kind \in SERVICE_KINDS
    THEN {"failed",
          IF i \in cancelReq \/ status[i] = "cancelled" THEN "cancelled"
          ELSE IF status[i] = "running" THEN "failed" ELSE status[i]}
    ELSE {IF i \in cancelReq /\ w # "failed" THEN "cancelled" ELSE w : w \in Words}

\* The terminal commit; the broadcast after it is awaited.
TerminalWrite(i, v) ==
    /\ status' = [status EXCEPT ![i] = v]
    /\ task' = [task EXCEPT ![i] = IF v \in SUCCESS_STATUSES THEN "succeeded"
                                   ELSE "closing"]
    /\ unlisted' = Unlisted(op[i].kind, op[i].repo, v)
    /\ UNCHANGED <<count, op, dep, inherited, deferrals, requeues, notBefore, maint,
                   cancelReq, unrec, tickVars, procVars, submits, crashes>>

Finish(i, v) ==
    /\ task[i] = "executing" /\ v \in Verdicts(i)
    /\ TerminalWrite(i, v)
    /\ UNCHANGED faults

\* A backup that failed after its archive was made (its message names a hook):
\* the executor enqueues the chain under no row, then the verdict is written,
\* or not.
FinishAfterCreate(i, changed) ==
    /\ task[i] = "executing" /\ op[i].kind = "backup"
    /\ status[i] = "failed" /\ i \notin cancelReq
    /\ EnqueueFollowups(status, i, 0, changed)
    /\ unlisted' = Unlisted("backup", op[i].repo, "completed")
    /\ \/ /\ task' = [task EXCEPT ![i] = "closing"]
          /\ UNCHANGED <<unrec, faults>>
       \/ /\ Fault("db_error")
          /\ task' = [task EXCEPT ![i] = "none"]
          /\ Unrecorded(i, "failed", FALSE)
    /\ UNCHANGED <<inherited, deferrals, requeues, notBefore, maint, cancelReq,
                   tickVars, procVars, submits, crashes>>

\* The terminal commit fails: the task is gone, the row as it was, the cancel
\* flag kept for whoever finishes the row.
FinishFails(i, v) ==
    /\ task[i] = "executing" /\ v \in Verdicts(i) /\ Fault("db_error")
    /\ task' = [task EXCEPT ![i] = "none"]
    /\ Unrecorded(i, v, FALSE)
    /\ UNCHANGED <<rowVars, cancelReq, tickVars, procVars, submits, crashes, unlisted>>

\* repository_busy: the admission's 409 or a lock held by somebody else.
Refused(i) ==
    /\ task[i] = "executing" /\ "busy" \in Env /\ i \notin cancelReq
    /\ \/ op[i].kind \in {"stats", "archive_sync", "history_index"}
       \/ /\ op[i].repo \in AgentRepos
          /\ op[i].kind \in {"backup"} \cup (MAINTENANCE_KINDS \ {"restore_check"})

\* A refused operation goes back to the queue with a backoff; the broadcast
\* is awaited with the task still listed.
Defer(i) ==
    /\ Refused(i) /\ deferrals[i] < MaxDeferrals
    /\ status' = [status EXCEPT ![i] = "queued"]
    /\ deferrals' = [deferrals EXCEPT ![i] = @ + 1]
    /\ notBefore' = [notBefore EXCEPT ![i] = TRUE]
    /\ task' = [task EXCEPT ![i] = "deferring"]
    /\ UNCHANGED <<count, op, dep, inherited, requeues, maint, cancelReq, unrec,
                   tickVars, procVars, ghosts>>

\* Out of deferrals, or the requeue does not commit: the operation fails.
DeferFails(i) ==
    /\ Refused(i)
    /\ \/ deferrals[i] = MaxDeferrals /\ UNCHANGED faults
       \/ deferrals[i] < MaxDeferrals /\ Fault("db_error")
    /\ TerminalWrite(i, "failed")

DeferDone(i) ==
    /\ task[i] = "deferring"
    /\ task' = [task EXCEPT ![i] = "none"]
    /\ UNCHANGED <<rowVars, cancelReq, unrec, tickVars, procVars, ghosts>>

\* The verdict is in: a success enqueues its follow-ups, the task leaves and
\* takes its cancel flag along.
Close(i, changed) ==
    /\ task[i] \in {"succeeded", "closing"}
    /\ \/ task[i] = "succeeded" /\ EnqueueFollowups(status, i, i, changed)
       \/ task[i] = "closing" /\ UNCHANGED <<count, status, op, dep>>
    /\ task' = [task EXCEPT ![i] = "none"]
    /\ cancelReq' = cancelReq \ {i}
    /\ UNCHANGED <<inherited, deferrals, requeues, notBefore, maint, unrec, tickVars,
                   procVars, ghosts>>

\* The broadcast's read or the chain's commit raises after the verdict: the
\* task leaves all the same and nobody enqueues the chain.
CloseFails(i) ==
    /\ task[i] = "succeeded" /\ Fault("db_error")
    /\ task' = [task EXCEPT ![i] = "none"]
    /\ cancelReq' = cancelReq \ {i}
    /\ UNCHANGED <<rowVars, unrec, tickVars, procVars, submits, crashes, unlisted>>

\* deferred_until passes.
Elapse(i) ==
    /\ notBefore[i]
    /\ notBefore' = [notBefore EXCEPT ![i] = FALSE]
    /\ UNCHANGED <<count, status, op, dep, inherited, deferrals, requeues, maint,
                   taskVars, tickVars, procVars, ghosts>>

-----------------------------------------------------------------------------
(* Cancelling. *)

\* request_cancel: a queued row is cancelled, a running one with a task here
\* is flagged, anything else is refused.
CancelEffect(i) ==
    /\ status' = [status EXCEPT ![i] = IF @ = "queued" THEN "cancelled" ELSE @]
    /\ cancelReq' = IF status[i] = "running" /\ Live(i) THEN cancelReq \cup {i}
                    ELSE cancelReq

\* The cancel routes: a queued row, or a running one of the kinds whose
\* executor watches the flag.
RequestCancel(i) ==
    /\ "cancel" \in Env /\ phase # "down"
    /\ \/ status[i] = "queued"
       \/ /\ status[i] = "running" /\ op[i].kind \in CANCELLABLE_WHILE_RUNNING
          /\ Live(i) /\ i \notin cancelReq
    /\ CancelEffect(i)
    /\ UNCHANGED <<count, op, dep, inherited, deferrals, requeues, notBefore, maint,
                   task, unrec, tickVars, procVars, ghosts>>

\* The backup cancel route on a running server backup: request_cancel first
\* (its answer is ignored), then an awaited kill ...
CancelRouteAsks(i) ==
    /\ "cancel_route" \in Env /\ phase # "down"
    /\ op[i].kind = "backup" /\ op[i].repo \notin AgentRepos
    /\ status[i] = "running" /\ i \notin routes
    /\ routes' = routes \cup {i}
    /\ cancelReq' = IF Live(i) THEN cancelReq \cup {i} ELSE cancelReq
    /\ UNCHANGED <<rowVars, task, unrec, tickVars, shutdown, plan, inline, steps, survivors,
                   ghosts>>

\* ... then `cancelled` on the row, whatever it says by now.
CancelRouteWrites(i) ==
    /\ i \in routes
    /\ routes' = routes \ {i}
    /\ status' = [status EXCEPT ![i] = "cancelled"]
    /\ UNCHANGED <<count, op, dep, inherited, deferrals, requeues, notBefore, maint,
                   taskVars, tickVars, shutdown, plan, inline, steps, survivors, ghosts>>

-----------------------------------------------------------------------------
(* Inline maintenance: a plan run, having seen its backup end (terminal and  *)
(* no longer in running_tasks), runs prune, compact, check and restore check *)
(* itself, one after the other.                                              *)

StepsOf(b) == {j \in inline : dep[j] = b}

\* The step _run_maintenance takes next for the backup b.  A failed step does
\* not stop the later ones, except that a failed check drops the restore check.
NextInline(b, k) ==
    LET done == {op[j].kind : j \in StepsOf(b)}
    IN  /\ k \in InlineKinds \ done
        /\ \A k2 \in InlineKinds \ done : StepRank(k) <= StepRank(k2)
        /\ status[b] \in SUCCESS_STATUSES \/ done # {}
        /\ k = "restore_check" =>
              \A j \in StepsOf(b) : op[j].kind = "check" => status[j] = "completed"

\* Mutant: the first terminal word on the row ends the wait.
WaitsForTheRow(b) == plan[b] # "none" /\ StepsOf(b) \cap steps = {}
                                      /\ status[b] \in TERMINAL_STATUSES

\* The plan run is between two steps, its backup over.
Waiting(b) == plan[b] # "none" /\ StepsOf(b) \cap steps = {}
                               /\ status[b] \in TERMINAL_STATUSES /\ ~Live(b)

\* start_inline_maintenance: the row is created running; no lane is asked.
InlineStart(b, k) ==
    /\ Waiting(b) /\ plan[b] = "live" /\ NextInline(b, k)
    /\ count < MaxOps
    /\ count' = count + 1
    /\ status' = [status EXCEPT ![count + 1] = "running"]
    /\ op' = [op EXCEPT ![count + 1] =
                 [kind |-> k, repo |-> op[b].repo, trigger |-> op[b].trigger,
                  run |-> op[b].run]]
    /\ dep' = [dep EXCEPT ![count + 1] = b]
    /\ inline' = inline \cup {count + 1} /\ steps' = steps \cup {count + 1}
    /\ maint' = IF k \in {"prune", "compact"} THEN maint \cup {b} ELSE maint \ {b}
    /\ UNCHANGED <<inherited, deferrals, requeues, notBefore, taskVars, tickVars,
                   shutdown, routes, plan, survivors, ghosts>>

\* The service the plan calls writes the verdict.
InlineVerdict(j, w) ==
    /\ j \in steps /\ status[j] = "running"
    /\ status' = [status EXCEPT ![j] = w]
    /\ unlisted' = Unlisted(op[j].kind, op[j].repo, w)
    /\ UNCHANGED <<count, op, dep, inherited, deferrals, requeues, notBefore, maint,
                   taskVars, tickVars, procVars, submits, faults, crashes>>

\* record_step, which a cancelled run does not reach.
AfterStep(j) == IF plan[dep[j]] = "live" THEN maint \ {dep[j]} ELSE maint

\* The step returned: finish_inline_maintenance enqueues the chain of a
\* success and closes a row without a verdict; record_step then takes the
\* backup out of its maintenance state, unless the run was cancelled meanwhile.
InlineFinish(j) ==
    /\ j \in steps
    /\ steps' = steps \ {j}
    /\ \/ /\ status[j] \in SUCCESS_STATUSES
          /\ EnqueueFollowups(status, j, j, FALSE)
       \/ /\ status[j] \notin SUCCESS_STATUSES
          /\ status' = [status EXCEPT ![j] = IF @ = "running" THEN "failed" ELSE @]
          /\ UNCHANGED <<count, op, dep>>
    /\ maint' = AfterStep(j)
    /\ UNCHANGED <<inherited, deferrals, requeues, notBefore, taskVars, tickVars,
                   shutdown, routes, plan, inline, survivors, ghosts>>

\* Its commit fails.  A verdict is there: the error ends the run failed, the
\* chain is not enqueued and the backup keeps its maintenance state.  None is:
\* the row stays running and the run goes on.
InlineFinishFails(j) ==
    /\ j \in steps /\ Fault("db_broken")
    /\ steps' = steps \ {j}
    /\ \/ /\ status[j] # "running"
          /\ plan' = [plan EXCEPT ![dep[j]] = "none"]
          /\ UNCHANGED maint
       \/ /\ status[j] = "running"
          /\ maint' = AfterStep(j)
          /\ UNCHANGED plan
    /\ UNCHANGED <<count, status, op, dep, inherited, deferrals, requeues, notBefore,
                   taskVars, tickVars, shutdown, routes, inline, survivors, submits,
                   crashes, unlisted>>

\* The step raised: fail_inline_maintenance closes a running row, unless an
\* agent still works on it or the database refuses this write and the next;
\* the repository's part of the run ends failed.
InlineRaises(j) ==
    /\ j \in steps /\ status[j] \notin SUCCESS_STATUSES
    /\ \/ /\ status' = [status EXCEPT ![j] = IF @ = "running" THEN "failed" ELSE @]
          /\ maint' = maint \ {dep[j]}
          /\ UNCHANGED faults
       \/ /\ op[j].repo \in AgentRepos
          /\ maint' = maint \ {dep[j]}
          /\ UNCHANGED <<status, faults>>
       \/ /\ Fault("db_broken")
          /\ UNCHANGED <<status, maint>>
    /\ steps' = steps \ {j}
    /\ plan' = [plan EXCEPT ![dep[j]] = "none"]
    /\ UNCHANGED <<count, op, dep, inherited, deferrals, requeues, notBefore, taskVars,
                   tickVars, shutdown, routes, inline, survivors, submits, crashes,
                   unlisted>>

\* The run is over for this backup: cancelled, or no step is left.
PlanEnds(b) ==
    /\ Waiting(b)
    /\ plan[b] # "live" \/ ~ \E k \in InlineKinds : NextInline(b, k)
    /\ plan' = [plan EXCEPT ![b] = "none"]
    /\ UNCHANGED <<rowVars, taskVars, tickVars, shutdown, routes, inline, steps,
                   survivors, ghosts>>

\* cancel_run: the run reads cancelled from now on, and request_cancel is
\* called for a backup that has not ended.
CancelRun(b) ==
    /\ "plan_cancel" \in Env /\ plan[b] = "live"
    /\ plan' = [plan EXCEPT ![b] = "cancelled"]
    /\ CancelEffect(b)
    /\ UNCHANGED <<count, op, dep, inherited, deferrals, requeues, notBefore, maint,
                   task, unrec, tickVars, shutdown, routes, inline, steps, survivors,
                   ghosts>>

\* wait_for_backup_operation learns of it on its next poll and asks once more:
\* cancel_run may have met the row between its claim and its task.
WaiterAsks(b) ==
    /\ plan[b] = "cancelled"
    /\ status[b] \notin TERMINAL_STATUSES \/ Live(b)
    /\ plan' = [plan EXCEPT ![b] = "asked"]
    /\ CancelEffect(b)
    /\ UNCHANGED <<count, op, dep, inherited, deferrals, requeues, notBefore, maint,
                   task, unrec, tickVars, shutdown, routes, inline, steps, survivors,
                   ghosts>>

-----------------------------------------------------------------------------
(* Shutdown, death and restart. *)

Stop ==
    /\ "stop" \in Env /\ phase # "down" /\ shutdown = "no"
    /\ shutdown' = "stopped"
    /\ UNCHANGED <<rowVars, taskVars, tickVars, routes, plan, inline, steps, survivors, ghosts>>

\* drain(): request_cancel for every task listed now.
Drain ==
    /\ shutdown = "stopped"
    /\ shutdown' = "draining"
    /\ status' = [i \in Ids |-> IF Live(i) /\ status[i] = "queued" THEN "cancelled"
                                ELSE status[i]]
    /\ cancelReq' = cancelReq \cup {i \in Ids : Live(i) /\ status[i] = "running"}
    /\ UNCHANGED <<count, op, dep, inherited, deferrals, requeues, notBefore, maint,
                   task, unrec, tickVars, routes, plan, inline, steps, survivors, ghosts>>

\* The drain's timeout cancels what it gathered: an executing operation is
\* written cancelled, one past its verdict just ends, and a task that had not
\* begun never will (its entry and its running row stay). A task that the tick
\* under way dispatched after the drain had gathered is ended with the others;
\* in the code it runs on until the process is killed, as at Crash.
DrainTimeout ==
    /\ shutdown = "draining" /\ \E i \in Ids : Live(i)
    /\ shutdown' = "timed_out"
    /\ status' = [i \in Ids |-> IF task[i] = "executing" THEN "cancelled" ELSE status[i]]
    /\ task' = [i \in Ids |-> IF task[i] = "created" THEN "created" ELSE "none"]
    /\ cancelReq' = {i \in cancelReq : task[i] \in {"none", "created", "deferring"}}
    /\ UNCHANGED <<count, op, dep, inherited, deferrals, requeues, notBefore, maint,
                   unrec, tickVars, routes, plan, inline, steps, survivors, ghosts>>

\* The process ends, killed or at the end of its shutdown.  The Borg process
\* of an executing or inline operation may live on.
Crash(alive) ==
    /\ phase # "down" /\ crashes < MaxCrashes
    /\ "crash" \in Env \/ shutdown \in {"draining", "timed_out"}
    /\ crashes' = crashes + 1
    /\ phase' = "down"
    /\ alive \subseteq {i \in Ids : /\ status[i] = "running" /\ ~IsIndex(i)
                                    /\ task[i] = "executing" \/ i \in inline}
    /\ survivors' = survivors \cup alive
    /\ task' = [i \in Ids |-> "none"]
    /\ unrec' = [i \in Ids |-> NoEntry]
    /\ cancelReq' = {} /\ recording' = {} /\ todo' = {} /\ lanesHeld' = {}
    /\ claim' = 0 /\ shutdown' = "no" /\ routes' = {} /\ steps' = {}
    /\ plan' = [i \in Ids |-> "none"]
    /\ UNCHANGED <<rowVars, inline, submits, faults, unlisted>>

\* A new process: the startup sweeps close the backups' maintenance state,
\* then recover_on_startup requeues index rows, keeps the rows whose process
\* is alive and fails the other running ones.
Restart ==
    LET running == {i \in Ids : status[i] = "running"}
        index   == {i \in running : IsIndex(i)}
        broken  == running \ (index \cup survivors)
    IN  /\ phase = "down"
        /\ phase' = "idle"
        /\ RecoverIndexRows([i \in Ids |-> IF i \in broken THEN "failed" ELSE status[i]],
                            index, {})
        /\ maint' = {}
        /\ UNCHANGED <<count, op, dep, inherited, deferrals, taskVars, recording, todo,
                       lanesHeld, claim, procVars, ghosts>>

SurvivorExits(i) ==
    /\ i \in survivors
    /\ survivors' = survivors \ {i}
    /\ UNCHANGED <<rowVars, taskVars, tickVars, shutdown, routes, plan, inline, steps, ghosts>>

-----------------------------------------------------------------------------
TickStep ==
    \/ TickStart \/ Sweep \/ Load \/ Dispatch \/ TickEnd
    \/ \E i \in Ids : \/ \E changed \in Changes : RecordOutcome(i, changed)
                      \/ Skip(i) \/ Claim(i)

TaskStep(i) ==
    \/ Begin(i) \/ Defer(i) \/ DeferDone(i) \/ DeferFails(i)
    \/ \E v \in TERMINAL_STATUSES : Finish(i, v)
    \/ \E changed \in Changes : Close(i, changed) \/ FinishAfterCreate(i, changed)

PlanStep ==
    \/ \E b \in Ids : PlanEnds(b) \/ WaiterAsks(b) \/ \E k \in InlineKinds : InlineStart(b, k)
    \/ \E j \in steps : \/ \E w \in Words : InlineVerdict(j, w)
                        \/ InlineFinish(j) \/ InlineRaises(j)

FaultStep ==
    \/ ClaimLost \/ TickFails
    \/ \E i \in Ids : \/ \E committed \in BOOLEAN : RecordFails(i, committed)
                      \/ BeginFails(i) \/ CloseFails(i) \/ InlineFinishFails(i)
                      \/ \E v \in TERMINAL_STATUSES : FinishFails(i, v)

RequestStep ==
    \/ \E s \in Submissions : Submit(s)
    \/ \E r \in Repos : ImportConnect(r) \/ Reconcile(r)
    \/ \E i \in Ids : \/ RequestCancel(i) \/ CancelRun(i)
                      \/ CancelRouteAsks(i) \/ CancelRouteWrites(i)

ProcessStep ==
    \/ Stop \/ Drain \/ DrainTimeout \/ Restart
    \/ \E alive \in SUBSET Ids : Crash(alive)
    \/ \E i \in Ids : SurvivorExits(i)

Next ==
    \/ TickStep \/ PlanStep \/ FaultStep \/ RequestStep \/ ProcessStep
    \/ \E i \in Ids : TaskStep(i) \/ Elapse(i) \/ \E w \in Words : ServiceWrites(i, w)

Spec == Init /\ [][Next]_vars

\* What the code's scheduling guarantees: the loop ticks every poll interval,
\* the event loop resumes every task and every plan run, time passes.
Fairness ==
    /\ WF_vars(TickStep)
    /\ \A i \in Ids : WF_vars(TaskStep(i)) /\ WF_vars(Elapse(i))
    /\ WF_vars(PlanStep)

FairSpec == Spec /\ Fairness

-----------------------------------------------------------------------------
(* Properties. *)

\* A row that holds its repository's lane through this runner: its task is
\* listed, the tick has claimed it, or it reads running without being a step
\* a plan runs itself.
HoldsLane(i) ==
    /\ Exclusive(i) /\ op[i].repo # NoRepo
    /\ \/ Live(i)
       \/ claim = i
       \/ status[i] = "running" /\ i \notin inline

\* No two exclusive operations the runner dispatched hold one repository's
\* lane, even when a service or a cancel route has already written a terminal
\* word on the row of a task that is still working (tick, _lanes_held,
\* can_start).
LaneExclusion ==
    \A i, j \in Ids : (i # j /\ HoldsLane(i) /\ HoldsLane(j)) => op[i].repo # op[j].repo

IndexBusy(i) == IsIndex(i) /\ (task[i] \in {"created", "executing"} \/ claim = i)

\* What makes type correctness inductive: the tick's claim is a row, and an
\* entry being recorded holds a verdict.
ClaimInv == IF phase = "claim" THEN claim \in Ids ELSE claim = 0

EntriesInv ==
    \A i \in Ids : /\ unrec[i].status = "none" => unrec[i] = NoEntry
                   /\ i \in recording => unrec[i].status # "none"

TypeInv == TypeOK /\ ClaimInv /\ EntriesInv

\* What makes LaneExclusion inductive: ids not handed out are idle, the tick's
\* lanesHeld covers every live exclusive task while it dispatches, and the
\* claimed row's lane is not among them.
LaneInv ==
    /\ \A i \in Ids : i > count =>
          status[i] \notin {"queued", "running"} /\ task[i] = "none" /\ claim # i
    /\ phase \in {"scan", "claim"} =>
          \A i \in Ids : (Live(i) /\ Exclusive(i) /\ op[i].repo # NoRepo)
                          => op[i].repo \in lanesHeld
    /\ phase = "claim" /\ Exclusive(claim) => op[claim].repo \notin lanesHeld
    /\ LaneExclusion

\* The documented lane rule, rows a plan runs inline included: never two
\* exclusive operations running on one repository (docs/architecture/
\* job-system.md, "One exclusive operation per repository at a time").
OneExclusivePerRepository ==
    \A r \in Repos : Cardinality(RunningOn(r, EXCLUSIVE_KINDS)) <= 1

\* The lane rule's other half: a listing is held back for a backup's
\* maintenance phase only while that phase is under way (lanes.py,
\* write_maintenance_running: "True while prune, compact, delete or wipe is
\* queued or running on the repository, as an operation or as a backup in its
\* maintenance phase").
MaintenanceIsUnderWay ==
    \A b \in maint : phase # "down" => StepsOf(b) \cap steps # {}

\* No two of the shared index kinds work on one repository at a time, through
\* requeues, deferrals and lost commits (can_start,
\* requeue_abandoned_index_rows).  Rows without a repository share none.
IndexSerial ==
    \A i, j \in Ids :
        (/\ i # j /\ IndexBusy(i) /\ IndexBusy(j) /\ op[i].repo # NoRepo
         /\ op[i].kind \in SHARED_INDEX_KINDS /\ op[j].kind \in SHARED_INDEX_KINDS)
        => op[i].repo # op[j].repo

\* The index tasks alive never exceed index_workers, though the limit is
\* counted over rows and a row can leave `running` in four ways.
IndexWorkersBound == Cardinality({i \in Ids : IndexBusy(i)}) <= IndexWorkers

\* A plan's maintenance never runs beside the backup it follows, or beside
\* another step of the same run, although the backup's row reads completed
\* long before its task is over (wait_for_backup_operation, _run_maintenance).
StepAfterBackup ==
    \A j \in steps : /\ status[dep[j]] \in TERMINAL_STATUSES /\ ~Live(dep[j])
                     /\ \A k \in steps : dep[k] = dep[j] => k = j

\* A row that reads running has something that will end it: a task, the
\* tick's claim, an outcome to record, a plan run that owns it, a Borg process
\* that recovery kept, or the sweep of index rows.  Otherwise it would hold
\* its lane and its slot until a restart.
RunningHasOwner ==
    \A i \in Ids : (status[i] = "running" /\ phase # "down") =>
        \/ Live(i) \/ claim = i \/ unrec[i] # NoEntry \/ IsIndex(i)
        \/ i \in steps
        \/ i \in survivors

\* A row the runner ran or runs was started on a satisfied dependency and that
\* dependency still reads so; a chain never outlives the success it hangs on
\* (tick's dependency check, enqueue_followups' re-hanging).
RanAfterDependency ==
    \A i \in Ids :
        (status[i] \in {"running", "completed", "completed_with_warnings", "failed"}
            /\ dep[i] # 0 /\ i \notin inline)
        => DependencySatisfied(status, dep[i])

\* An accepted cancel ends in a cancelled or failed row: the flag is consumed
\* by nothing else while the process lives, and a flagged row never goes back
\* to the queue (run_operation, the sweep, record_unrecorded_outcomes).
CancelHonoured ==
    [][phase' # "down" =>
        \A i \in cancelReq :
            /\ i \notin cancelReq' => status'[i] \in {"cancelled", "failed"}
            /\ status'[i] = "queued" => status[i] = "queued"]_vars

\* Every queued row ends: dependencies that failed, busy repositories, lost
\* index rows and full lanes never leave one waiting for good.
QueuedEnds == \A i \in Ids : status[i] = "queued" ~> status[i] \in TERMINAL_STATUSES

\* A repository an operation changed is listed by an archive_sync that starts
\* afterwards: the chain the success owes, or the waiting one it is folded
\* into (enqueue_followups).
ChangesGetListed == \A r \in Repos : r \in unlisted ~> r \notin unlisted
=============================================================================
