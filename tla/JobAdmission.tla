---------------------------- MODULE JobAdmission ----------------------------
(***************************************************************************)
(* Admission of repository work (app/services/job_admission.py) and its    *)
(* callers: a request reads the active work of its repository under a row  *)
(* lock and inserts its own row in the same transaction; a refusal rolls   *)
(* back.  Requests run in sessions of their own, against managed-agent     *)
(* repositories, so the work that counts is operation rows and agent jobs. *)
(*                                                                         *)
(* A request r of Kind[r]: a backup from a route, its retry, a plan's      *)
(* backup, a plan's inline prune, a dry-run prune of the runner, an index  *)
(* listing or diff, or break-lock.  The repository's agent comes and goes; *)
(* a manual backup that waits for an agent that is away holds no capacity. *)
(***************************************************************************)
EXTENDS Naturals, FiniteSets

CONSTANTS
    Reqs, Repos,
    Kind,          \* [Reqs -> Kinds]
    Repo,          \* [Reqs -> Repos]
    Roaming,       \* repositories whose agent leaves and returns
    Limit,         \* max_concurrent_backups
    MaxDeferrals,  \* MAX_DEFERRALS
    MaxPolls,      \* the budget of a wait, in polls
    None

Kinds == {"backup", "retry", "plan", "prune", "dry", "list", "diff", "break_lock"}

ASSUME AdmissionAssumption ==
    /\ Kind \in [Reqs -> Kinds] /\ Repo \in [Reqs -> Repos] /\ Roaming \subseteq Repos
    /\ {Limit, MaxDeferrals, MaxPolls} \subseteq Nat /\ None \notin Reqs

VARIABLES
    pc,       \* where the request is
    row,      \* its operation row: none, queued, running, over
    job,      \* its agent job: none, queued, claimed, over
    lock,     \* [Repos -> the request whose transaction locks the repository]
    cap,      \* the request whose transaction holds the capacity scope
    defers,   \* deferrals of its row
    polls,    \* polls of its wait
    away,     \* repositories whose agent is away
    waited    \* history: manual backups that have waited for such an agent

vars == <<pc, row, job, lock, cap, defers, polls, away, waited>>

Steps == {"new", "cap", "admitted", "row", "exec", "hooks", "hooked", "cleared", "jobadm", "work",
          "wait", "over"}

TypeOK ==
    /\ pc \in [Reqs -> Steps]
    /\ row \in [Reqs -> {"none", "queued", "running", "over"}]
    /\ job \in [Reqs -> {"none", "queued", "claimed", "over"}]
    /\ lock \in [Repos -> Reqs \cup {None}]
    /\ cap \in Reqs \cup {None}
    /\ defers \in [Reqs -> 0 .. MaxDeferrals]
    /\ polls \in [Reqs -> 0 .. MaxPolls]
    /\ away \subseteq Roaming /\ waited \subseteq Reqs

Init ==
    /\ pc = [r \in Reqs |-> "new"]
    /\ row = [r \in Reqs |-> "none"]
    /\ job = [r \in Reqs |-> "none"]
    /\ lock = [p \in Repos |-> None]
    /\ cap = None
    /\ defers = [r \in Reqs |-> 0]
    /\ polls = [r \in Reqs |-> 0]
    /\ away \in SUBSET Roaming /\ waited = {}

----------------------------------------------------------------------------
(* What admission sees and decides. *)

Backups == {"backup", "retry", "plan"}

\* The admission operation of a kind, and its class.
Operation(k) == IF k \in Backups THEN "backup" ELSE k
Class(k) == IF k \in {"list", "diff"} THEN "read" ELSE "write"
Transient(k) == k = "list"

\* Rows of index kinds are not looked at; their agent jobs are.
RowSeen(q, runningOnly) ==
    /\ Kind[q] \notin {"list", "diff", "break_lock"}
    /\ row[q] \in IF runningOnly THEN {"running"} ELSE {"queued", "running"}
JobSeen(q) == job[q] \in {"queued", "claimed"}

\* list_active_repository_work, without the row the request ignores.
ActiveWork(r, runningOnly) ==
    {q \in Reqs \ {r} : Repo[q] = Repo[r] /\ (RowSeen(q, runningOnly) \/ JobSeen(q))}

\* ensure_repository_admission for one active work: a duplicate, or a write
\* beside anything, except a backup beside a dry run.
Conflicts(k, active) ==
    \/ Operation(k) = Operation(active)
    \/ /\ ~(k \in Backups /\ active = "dry")
       /\ Class(k) = "write" \/ Class(active) = "write"

Blockers(r) == {q \in ActiveWork(r, Kind[r] = "dry") : Conflicts(Kind[r], Kind[q])}

\* refused_by_read_work: the refusal names the first blocker, a duplicate
\* before any other. A plan's backup waits for any read work, its prune for
\* transient read work.
Duplicates(r) == {q \in Blockers(r) : Operation(Kind[q]) = Operation(Kind[r])}
WaitsFor(r, q) ==
    /\ Class(Kind[q]) = "read"
    /\ \/ Kind[r] = "plan"
       \/ Kind[r] = "prune" /\ Transient(Kind[q])
RefusedByReadWork(r) == Duplicates(r) = {} /\ \E q \in Blockers(r) : WaitsFor(r, q)
RefusedOutright(r) ==
    Duplicates(r) # {} \/ \E q \in Blockers(r) : ~WaitsFor(r, q)

----------------------------------------------------------------------------
(* Sessions: the row lock is held until the transaction ends. *)

Free(r) == lock[Repo[r]] \in {None, r}

\* Mutants: the read is not locked; a refusal keeps its transaction open.
NoLock(r) == lock' = lock
KeptLock(r) == lock' = [lock EXCEPT ![Repo[r]] = r]

\* _lock_repository_scope.
LockScope(r) == lock' = [lock EXCEPT ![Repo[r]] = r]

\* _refuse: the rollback gives the scope back before the 409.
RolledBack(r) == lock' = [p \in Repos |-> IF lock[p] = r THEN None ELSE lock[p]]

\* A commit, or a session that ends.
Unlocked(r) == lock' = [p \in Repos |-> IF lock[p] = r THEN None ELSE lock[p]]

Uncapped(r) == cap' = IF cap = r THEN None ELSE cap

At(r, s) == pc' = [pc EXCEPT ![r] = s]

\* backups_waiting_for_offline_agent: no agent has the job and the agent is
\* away; such a backup holds no capacity until its agent is back.
ActiveManual(q) == Kind[q] \in {"backup", "retry"} /\ row[q] \in {"queued", "running"}
WaitsForAgent(q) == ActiveManual(q) /\ Repo[q] \in away /\ job[q] # "claimed"
HoldsCapacity(q) == ActiveManual(q) /\ ~WaitsForAgent(q)
Used == Cardinality({q \in Reqs : HoldsCapacity(q)})

----------------------------------------------------------------------------
(* Routes and plans that create an operation row. *)

\* Mutant of CapacityTaken: counted before the scope is locked.
CapacityUnlocked(r) ==
    /\ Used < Limit
    /\ UNCHANGED cap

CapacityTaken(r) == cap = None /\ Used < Limit /\ cap' = r

\* ensure_manual_backup_capacity, first in both manual routes.
EnsureCapacity(r) ==
    /\ pc[r] = "new" /\ Kind[r] \in {"backup", "retry"}
    /\ CapacityTaken(r) /\ At(r, "cap")
    /\ UNCHANGED <<row, job, lock, defers, polls>>

CapacityRefused(r) ==
    /\ pc[r] = "new" /\ Kind[r] \in {"backup", "retry"}
    /\ cap = None /\ Used >= Limit
    /\ At(r, "over")
    /\ UNCHANGED <<row, job, lock, cap, defers, polls>>

\* Where a request asks admission for its row: the route after the capacity,
\* a plan on its own. The retry route of an agent repository does not ask.
AsksForRow(r) ==
    \/ Kind[r] = "backup" /\ pc[r] = "cap"
    \/ Kind[r] = "plan" /\ row[r] = "none" /\ pc[r] \in {"new", "cleared"}

\* Where a request asks admission for its agent job: a backup after its
\* pre-backup hooks, or at once when it skips them.
AsksForJob(r) ==
    \/ Kind[r] \in {"list", "diff", "break_lock"} /\ pc[r] = "new"
    \/ row[r] = "running" /\ pc[r] \in {"exec", "hooked", "cleared"}

Asks(r) == AsksForRow(r) \/ AsksForJob(r)

Admit(r) ==
    /\ Asks(r)
    /\ Free(r) /\ Blockers(r) = {}
    /\ LockScope(r)
    /\ At(r, IF AsksForRow(r) THEN "admitted" ELSE "jobadm")
    /\ UNCHANGED <<row, job, cap, defers, polls>>

\* A backup with hooks of its repository asks before the first of them: a
\* busy repository defers it before any hook ran. Its refusal is Refuse's.
AdmitHooks(r) ==
    /\ Kind[r] \in Backups /\ row[r] = "running" /\ pc[r] = "exec"
    /\ Free(r) /\ Blockers(r) = {}
    /\ LockScope(r) /\ At(r, "hooks")
    /\ UNCHANGED <<row, job, cap, defers, polls>>

\* run_agent_repository_hooks: the first hook's commit gives the scope back,
\* so the repository is asked for again; without hooks the session keeps it.
HooksRun(r) ==
    /\ pc[r] = "hooks"
    /\ At(r, "hooked") /\ (Unlocked(r) \/ UNCHANGED lock)
    /\ UNCHANGED <<row, job, cap, defers, polls>>

\* create_backup_operation and its commit.
InsertRow(r) ==
    /\ pc[r] = "admitted" \/ (Kind[r] = "retry" /\ pc[r] = "cap")
    /\ row' = [row EXCEPT ![r] = "queued"]
    /\ At(r, "row") /\ Unlocked(r) /\ Uncapped(r)
    /\ UNCHANGED <<job, defers, polls>>

\* A dry run is enqueued for the runner; start_inline_maintenance creates
\* its row running, whatever else is active.
InsertUnasked(r) ==
    /\ pc[r] = "new" /\ Kind[r] \in {"dry", "prune"}
    /\ row' = [row EXCEPT ![r] = IF Kind[r] = "dry" THEN "queued" ELSE "running"]
    /\ At(r, IF Kind[r] = "dry" THEN "row" ELSE "exec")
    /\ UNCHANGED <<job, lock, cap, defers, polls>>

\* The runner's lane: one exclusive row of a repository runs.
RunnerStarts(r) ==
    /\ pc[r] = "row"
    /\ ~ \E q \in Reqs : Repo[q] = Repo[r] /\ RowSeen(q, TRUE)
    /\ row' = [row EXCEPT ![r] = "running"] /\ At(r, "exec")
    /\ UNCHANGED <<job, lock, cap, defers, polls>>

\* queue_agent_backup_job, queue_agent_repository_operation_job: the job is
\* inserted in the transaction that passed admission.
InsertJob(r) ==
    /\ pc[r] = "jobadm"
    /\ job' = [job EXCEPT ![r] = "queued"]
    /\ At(r, "work") /\ Unlocked(r)
    /\ UNCHANGED <<row, cap, defers, polls>>

\* A request whose transaction fails between the admission and the insert,
\* or whose pre-backup hooks fail.
InsertFails(r) ==
    /\ pc[r] \in {"admitted", "jobadm", "hooks", "hooked"}
    /\ row' = [row EXCEPT ![r] = "over"]
    /\ At(r, "over") /\ Unlocked(r) /\ Uncapped(r)
    /\ UNCHANGED <<job, defers, polls>>

----------------------------------------------------------------------------
(* Refusals. *)

\* Mutant of MayDefer: one deferral too many.
MayDeferLate(r) == defers[r] <= MaxDeferrals

MayDefer(r) == defers[r] < MaxDeferrals

\* Who waits for read work instead of taking the refusal: a plan before its
\* row, an inline prune before its job. A plan's backup that meets read work
\* when it asks for its job is deferred like any other row.
MayWait(r) == AsksForRow(r) \/ (AsksForJob(r) /\ Kind[r] = "prune")

\* The runner's rows and index listings go back to the queue, up to
\* MAX_DEFERRALS; a route and break-lock answer 409; an inline prune fails
\* its row.
Refuse(r) ==
    /\ Asks(r) /\ Free(r)
    /\ RefusedOutright(r) \/ (RefusedByReadWork(r) /\ ~MayWait(r))
    /\ IF AsksForJob(r) /\ Kind[r] \notin {"prune", "break_lock"} /\ MayDefer(r)
       THEN /\ defers' = [defers EXCEPT ![r] = @ + 1]
            /\ row' = [row EXCEPT ![r] = IF @ = "running" THEN "queued" ELSE @]
            /\ At(r, IF row[r] = "running" THEN "row" ELSE "new")
       ELSE /\ row' = [row EXCEPT ![r] = "over"]
            /\ At(r, "over")
            /\ UNCHANGED defers
    /\ RolledBack(r) /\ Uncapped(r)
    /\ UNCHANGED <<job, polls>>

\* admit_repository_with_read_work_wait, _queue_agent_maintenance_job: the
\* refusal is waited out.
RefuseAndWait(r) ==
    /\ MayWait(r)
    /\ Free(r) /\ RefusedByReadWork(r) /\ polls[r] < MaxPolls
    /\ At(r, "wait") /\ RolledBack(r)
    /\ UNCHANGED <<row, job, cap, defers, polls>>

\* A poll of wait_for_read_work_to_clear, which looks at read work only.
ReadWork(r) == {q \in ActiveWork(r, FALSE) : Class(Kind[q]) = "read"}

PollClears(r) ==
    /\ pc[r] = "wait" /\ ReadWork(r) = {}
    /\ At(r, "cleared")
    /\ UNCHANGED <<row, job, lock, cap, defers, polls>>

Poll(r) ==
    /\ pc[r] = "wait" /\ ReadWork(r) # {} /\ polls[r] < MaxPolls
    /\ polls' = [polls EXCEPT ![r] = @ + 1]
    /\ UNCHANGED <<pc, row, job, lock, cap, defers>>

\* The wait is over without an admission: the budget, the grace of jobs no
\* agent claims, read work that does not clear on its own, or a cancel.
GivesUp(r) ==
    /\ \/ /\ pc[r] = "wait"
          /\ ReadWork(r) # {}
       \/ MayWait(r) /\ Free(r) /\ RefusedByReadWork(r) /\ polls[r] = MaxPolls
    /\ row' = [row EXCEPT ![r] = "over"] /\ At(r, "over")
    /\ UNCHANGED <<job, lock, cap, defers, polls>>

----------------------------------------------------------------------------
(* The agent. *)

\* agent_is_offline: no session, and silent for AGENT_OFFLINE_GRACE; an agent
\* that connects is back at once.
AgentLeaves(p) ==
    /\ p \in Roaming \ away
    /\ away' = away \cup {p}
    /\ UNCHANGED <<pc, row, job, lock, cap, defers, polls>>

AgentReturns(p) ==
    /\ p \in away
    /\ away' = away \ {p}
    /\ UNCHANGED <<pc, row, job, lock, cap, defers, polls>>

AgentClaims(r) ==
    /\ job[r] = "queued" /\ Repo[r] \notin away
    /\ job' = [job EXCEPT ![r] = "claimed"]
    /\ UNCHANGED <<pc, row, lock, cap, defers, polls>>

\* A claimed job its agent no longer has goes back to the queue.
JobRequeued(r) ==
    /\ job[r] = "claimed"
    /\ job' = [job EXCEPT ![r] = "queued"]
    /\ UNCHANGED <<pc, row, lock, cap, defers, polls>>

\* The agent reports, or the reaper ends the job.
JobEnds(r) ==
    /\ job[r] \in {"queued", "claimed"}
    /\ job' = [job EXCEPT ![r] = "over"]
    /\ row' = [row EXCEPT ![r] = "over"]
    /\ At(r, "over")
    /\ UNCHANGED <<lock, cap, defers, polls>>

\* A restart, or an executor that failed, closes the row; the agent goes on.
RowCloses(r) ==
    /\ pc[r] = "work" /\ row[r] = "running"
    /\ row' = [row EXCEPT ![r] = "over"]
    /\ UNCHANGED <<pc, job, lock, cap, defers, polls>>

Request(r) ==
    \/ EnsureCapacity(r) \/ CapacityRefused(r) \/ Admit(r) \/ InsertRow(r) \/ InsertUnasked(r)
    \/ RunnerStarts(r) \/ AdmitHooks(r) \/ HooksRun(r) \/ InsertJob(r) \/ Refuse(r)
    \/ RefuseAndWait(r) \/ PollClears(r) \/ Poll(r)

Session(r) ==
    \/ Request(r) \/ InsertFails(r) \/ GivesUp(r)
    \/ AgentClaims(r) \/ JobRequeued(r) \/ JobEnds(r) \/ RowCloses(r)

\* The history: every manual backup that waits for an away agent after the
\* step.
Remembers == waited' = waited \cup {q \in Reqs : WaitsForAgent(q)'}

Next ==
    /\ \/ \E r \in Reqs : Session(r) /\ UNCHANGED away
       \/ \E p \in Repos : AgentLeaves(p) \/ AgentReturns(p)
    /\ Remembers

Spec == Init /\ [][Next]_vars

----------------------------------------------------------------------------
(* Properties. *)

\* No agent job of a write is queued or running beside another job of its
\* repository, whatever became of the rows: two requests cannot both pass
\* (job_admission.py ensure_repository_admission). A backup may join a dry
\* run, which yields to it.
WritersAlone ==
    \A r, q \in Reqs :
        /\ r # q /\ Repo[r] = Repo[q] /\ JobSeen(r) /\ JobSeen(q)
        /\ Class(Kind[r]) = "write"
        => {Operation(Kind[r]), Operation(Kind[q])} = {"backup", "dry"}

\* Manual backups exceed the limit only by those that have waited for an
\* agent that was away, whose capacity others were given meanwhile: the ones
\* that never waited stay within it, counted and inserted by different
\* sessions while agents come and go (ensure_manual_backup_capacity,
\* lock_backup_capacity_scope, backups_waiting_for_offline_agent).
WithinLimit == Cardinality({q \in Reqs : HoldsCapacity(q) /\ q \notin waited}) <= Limit

\* No session that was refused, waits or has ended keeps a scope the next
\* request needs: only one between its admission and its insert holds the
\* repository (a backup whose hooks do not run from its first admission on),
\* and only a counted manual backup the capacity (_refuse,
\* lock_backup_capacity_scope).
ScopesGivenBack ==
    /\ \A p \in Repos : lock[p] # None => pc[lock[p]] \in {"admitted", "jobadm", "hooks", "hooked"}
    /\ cap # None => pc[cap] \in {"cap", "admitted"}

=============================================================================
