------------------------- MODULE JobAdmissionProofs -------------------------
(***************************************************************************)
(* Admission keeps writers alone, the manual backups that never waited for *)
(* an agent within their limit and the scopes free, for every set of       *)
(* requests and repositories and whichever agents come and go.             *)
(*                                                                         *)
(* None of the three is inductive.  An insert is safe because of what its  *)
(* session read some steps before, so the invariant says what stays true   *)
(* of that reading while the session holds its scope: Cleared for the      *)
(* repository, Counted for the capacity.  Scoped ties the scopes to the    *)
(* places of their sessions.                                               *)
(***************************************************************************)
EXTENDS JobAdmission, FiniteSetTheorems, TLAPS

Manual(r) == Kind[r] \in {"backup", "retry"}
Actives == {q \in Reqs : ActiveManual(q)}
Holders == {q \in Reqs : HoldsCapacity(q)}
Standing == {q \in Reqs : HoldsCapacity(q) /\ q \notin waited}

\* A scope is held by the session between its reading and its insert, and
\* by nobody else.
Scoped ==
    /\ \A p \in Repos : lock[p] # None => Repo[lock[p]] = p /\ pc[lock[p]] \in {"admitted", "jobadm", "hooks", "hooked"}
    /\ \A r \in Reqs : pc[r] \in {"admitted", "jobadm", "hooks"} => lock[Repo[r]] = r
    /\ cap # None => Manual(cap) /\ pc[cap] \in {"cap", "admitted"}
    /\ \A r \in Reqs : pc[r] = "cap" \/ (pc[r] = "admitted" /\ Manual(r)) => cap = r

\* Where a request's row and job are.
Placed ==
    \A r \in Reqs :
        /\ pc[r] = "row" => row[r] = "queued"
        /\ pc[r] \in {"hooks", "hooked"} => row[r] = "running" /\ Kind[r] \in Backups
        /\ JobSeen(r) => pc[r] = "work"

\* What a session read of the jobs beside it still holds at its insert.
Cleared ==
    \A r, q \in Reqs :
        pc[r] = "jobadm" /\ q # r /\ Repo[q] = Repo[r] /\ JobSeen(q) => ~Conflicts(Kind[r], Kind[q])

\* The history has every manual backup that waits for its agent now.
Remembered == \A q \in Reqs : WaitsForAgent(q) => q \in waited

\* The count a manual backup passed still holds at its insert, of the
\* backups that never waited: an agent that returns meanwhile adds others.
Counted ==
    /\ IsFiniteSet(Actives) /\ Cardinality(Standing) <= Limit
    /\ cap # None => Cardinality(Standing) < Limit

IInv == TypeOK /\ Scoped /\ Placed /\ Cleared /\ WritersAlone /\ Remembered /\ Counted

\* The steps of one request, the agent's and the reaper's for it included,
\* and the steps of presence.
Step(r) == Session(r) /\ UNCHANGED away /\ Remembers
Presence == (\E p \in Repos : AgentLeaves(p) \/ AgentReturns(p)) /\ Remembers

\* The types survive every step of a request.
LEMMA StepType ==
    ASSUME TypeOK, NEW r \in Reqs, Step(r)
    PROVE  TypeOK'
<1>0. away' \subseteq Roaming /\ waited' \subseteq Reqs BY DEF TypeOK, Step, Remembers
<1> USE AdmissionAssumption, <1>0 DEF TypeOK, Steps, At, Unlocked, Uncapped, LockScope, RolledBack
<1>1. CASE EnsureCapacity(r) BY <1>1 DEF EnsureCapacity, CapacityTaken
<1>2. CASE CapacityRefused(r) BY <1>2 DEF CapacityRefused
<1>3. CASE Admit(r) BY <1>3 DEF Admit
<1>4. CASE InsertRow(r) BY <1>4 DEF InsertRow
<1>5. CASE InsertUnasked(r) BY <1>5 DEF InsertUnasked
<1>6. CASE RunnerStarts(r) BY <1>6 DEF RunnerStarts
<1>7. CASE InsertJob(r) BY <1>7 DEF InsertJob
<1>8. CASE Refuse(r) BY <1>8 DEF Refuse, MayDefer
<1>9. CASE RefuseAndWait(r) BY <1>9 DEF RefuseAndWait
<1>10. CASE PollClears(r) BY <1>10 DEF PollClears
<1>11. CASE Poll(r) BY <1>11 DEF Poll
<1>12. CASE InsertFails(r) BY <1>12 DEF InsertFails
<1>13. CASE GivesUp(r) BY <1>13 DEF GivesUp
<1>14. CASE AgentClaims(r) BY <1>14 DEF AgentClaims
<1>15. CASE JobEnds(r) BY <1>15 DEF JobEnds
<1>16. CASE RowCloses(r) BY <1>16 DEF RowCloses
<1>17. CASE AdmitHooks(r) BY <1>17 DEF AdmitHooks, Free
<1>18. CASE HooksRun(r) BY <1>18 DEF HooksRun
<1>19. CASE JobRequeued(r) BY <1>19 DEF JobRequeued
<1>20. QED
  BY <1>1, <1>2, <1>3, <1>4, <1>5, <1>6, <1>7, <1>8, <1>9, <1>10, <1>11, <1>12, <1>13, <1>14, <1>15, <1>16, <1>17, <1>18,
     <1>19
  DEF Step, Session, Request

\* A request that asks admission has not passed it yet, and one that asks for
\* a row after a count is a manual backup.
LEMMA Asking ==
    ASSUME TypeOK, NEW r \in Reqs, Asks(r)
    PROVE  /\ pc[r] \notin {"admitted", "jobadm", "hooks", "row", "work"}
           /\ AsksForRow(r) => pc[r] # "hooked"
           /\ MayWait(r) /\ Kind[r] \in Backups => pc[r] # "hooked"
           /\ AsksForRow(r) /\ Manual(r) <=> pc[r] = "cap" /\ Kind[r] = "backup"
           /\ pc[r] = "cap" => AsksForRow(r) /\ ~AsksForJob(r)
BY DEF Asks, AsksForRow, AsksForJob, MayWait, Manual, Backups

\* Whoever waits for read work asks, and is a plan or an inline prune.
LEMMA Waiting ==
    ASSUME NEW r \in Reqs, MayWait(r), RefusedByReadWork(r)
    PROVE  Asks(r) /\ ~Manual(r)
BY DEF MayWait, Asks, RefusedByReadWork, WaitsFor, Manual

\* Scopes are taken by an admission and given back with the session's place.
LEMMA StepScoped ==
    ASSUME TypeOK, Scoped, Placed, NEW r \in Reqs, Step(r)
    PROVE  Scoped'
<1> USE AdmissionAssumption DEF TypeOK, Scoped, Placed, Manual, At, Unlocked, Uncapped, LockScope, RolledBack
<1>1. CASE EnsureCapacity(r) BY <1>1 DEF EnsureCapacity, CapacityTaken
<1>2. CASE CapacityRefused(r) BY <1>2 DEF CapacityRefused
<1>3. CASE Admit(r)
  <2>1. Asks(r) /\ Free(r) BY <1>3 DEF Admit
  <2>2. CASE AsksForRow(r) BY <1>3, <2>1, <2>2, Asking DEF Admit, Free, AsksForRow
  <2>3. CASE ~AsksForRow(r) BY <1>3, <2>1, <2>3, Asking DEF Admit, Free
  <2>4. QED BY <2>2, <2>3
<1>4. CASE InsertRow(r) BY <1>4 DEF InsertRow
<1>5. CASE InsertUnasked(r) BY <1>5 DEF InsertUnasked
<1>6. CASE RunnerStarts(r) BY <1>6 DEF RunnerStarts
<1>7. CASE InsertJob(r) BY <1>7 DEF InsertJob
<1>8. CASE Refuse(r) BY <1>8, Asking DEF Refuse
<1>9. CASE RefuseAndWait(r)
  <2>1. MayWait(r) /\ RefusedByReadWork(r) BY <1>9 DEF RefuseAndWait
  <2>2. QED BY <1>9, <2>1, Waiting, Asking DEF RefuseAndWait
<1>10. CASE PollClears(r) BY <1>10 DEF PollClears
<1>11. CASE Poll(r) BY <1>11 DEF Poll
<1>12. CASE InsertFails(r) BY <1>12 DEF InsertFails
<1>13. CASE GivesUp(r)
  <2>1. CASE MayWait(r) /\ RefusedByReadWork(r) BY <1>13, <2>1, Waiting, Asking DEF GivesUp
  <2>2. CASE pc[r] = "wait" BY <1>13, <2>2 DEF GivesUp
  <2>3. QED BY <1>13, <2>1, <2>2 DEF GivesUp
<1>14. CASE AgentClaims(r) BY <1>14 DEF AgentClaims
<1>15. CASE JobEnds(r) BY <1>15 DEF JobEnds, JobSeen
<1>16. CASE RowCloses(r) BY <1>16 DEF RowCloses
<1>17. CASE AdmitHooks(r) BY <1>17 DEF AdmitHooks, Free
<1>18. CASE HooksRun(r) BY <1>18 DEF HooksRun
<1>19. CASE JobRequeued(r) BY <1>19 DEF JobRequeued
<1>20. QED
  BY <1>1, <1>2, <1>3, <1>4, <1>5, <1>6, <1>7, <1>8, <1>9, <1>10, <1>11, <1>12, <1>13, <1>14, <1>15, <1>16, <1>17, <1>18,
     <1>19
  DEF Step, Session, Request

\* A row waits for the runner only when it is queued, a job is followed from
\* one place, and a repository whose agent is away has no claimed job.
LEMMA StepPlaced ==
    ASSUME TypeOK, Placed, NEW r \in Reqs, Step(r)
    PROVE  Placed'
<1> USE AdmissionAssumption DEF TypeOK, At, Unlocked, Uncapped, LockScope, RolledBack, Placed, JobSeen
<1>1. CASE EnsureCapacity(r) BY <1>1 DEF EnsureCapacity, CapacityTaken
<1>2. CASE CapacityRefused(r) BY <1>2 DEF CapacityRefused
<1>3. CASE Admit(r) BY <1>3, Asking DEF Admit
<1>4. CASE InsertRow(r) BY <1>4 DEF InsertRow
<1>5. CASE InsertUnasked(r) BY <1>5 DEF InsertUnasked
<1>6. CASE RunnerStarts(r) BY <1>6 DEF RunnerStarts
<1>7. CASE InsertJob(r) BY <1>7 DEF InsertJob
<1>8. CASE Refuse(r) BY <1>8, Asking DEF Refuse
<1>9. CASE RefuseAndWait(r)
  <2>1. MayWait(r) /\ RefusedByReadWork(r) BY <1>9 DEF RefuseAndWait
  <2>2. QED BY <1>9, <2>1, Waiting, Asking DEF RefuseAndWait
<1>10. CASE PollClears(r) BY <1>10 DEF PollClears
<1>11. CASE Poll(r) BY <1>11 DEF Poll
<1>12. CASE InsertFails(r) BY <1>12 DEF InsertFails
<1>13. CASE GivesUp(r)
  <2>1. CASE MayWait(r) /\ RefusedByReadWork(r) BY <1>13, <2>1, Waiting, Asking DEF GivesUp
  <2>2. CASE pc[r] = "wait" BY <1>13, <2>2 DEF GivesUp
  <2>3. QED BY <1>13, <2>1, <2>2 DEF GivesUp
<1>14. CASE AgentClaims(r) BY <1>14 DEF AgentClaims
<1>15. CASE JobEnds(r) BY <1>15 DEF JobEnds
<1>16. CASE RowCloses(r) BY <1>16 DEF RowCloses
<1>17. CASE AdmitHooks(r) BY <1>17 DEF AdmitHooks, Free
<1>18. CASE HooksRun(r) BY <1>18 DEF HooksRun
<1>19. CASE JobRequeued(r) BY <1>19 DEF JobRequeued
<1>20. QED
  BY <1>1, <1>2, <1>3, <1>4, <1>5, <1>6, <1>7, <1>8, <1>9, <1>10, <1>11, <1>12, <1>13, <1>14, <1>15, <1>16, <1>17, <1>18,
     <1>19
  DEF Step, Session, Request

\* No job appears beside a session that has passed admission: the job would
\* have to be inserted under the same lock.
LEMMA StepCleared ==
    ASSUME TypeOK, Scoped, Placed, Cleared, NEW r \in Reqs, Step(r)
    PROVE  Cleared'
<1> USE AdmissionAssumption DEF TypeOK, At, Unlocked, Uncapped, LockScope, RolledBack, Scoped, Cleared, JobSeen
<1>1. CASE EnsureCapacity(r) BY <1>1 DEF EnsureCapacity, CapacityTaken
<1>2. CASE CapacityRefused(r) BY <1>2 DEF CapacityRefused
<1>3. CASE Admit(r)
  <2>1. \A q \in Reqs \ {r} : Repo[q] = Repo[r] /\ JobSeen(q) => ~Conflicts(Kind[r], Kind[q])
    BY <1>3 DEF Admit, Blockers, ActiveWork
  <2>2. QED BY <1>3, <2>1 DEF Admit
<1>4. CASE InsertRow(r) BY <1>4 DEF InsertRow
<1>5. CASE InsertUnasked(r) BY <1>5 DEF InsertUnasked
<1>6. CASE RunnerStarts(r) BY <1>6 DEF RunnerStarts
<1>7. CASE InsertJob(r) BY <1>7 DEF InsertJob
<1>8. CASE Refuse(r) BY <1>8, Asking DEF Refuse
<1>9. CASE RefuseAndWait(r) BY <1>9 DEF RefuseAndWait
<1>10. CASE PollClears(r) BY <1>10 DEF PollClears
<1>11. CASE Poll(r) BY <1>11 DEF Poll
<1>12. CASE InsertFails(r) BY <1>12 DEF InsertFails
<1>13. CASE GivesUp(r) BY <1>13 DEF GivesUp
<1>14. CASE AgentClaims(r) BY <1>14 DEF AgentClaims
<1>15. CASE JobEnds(r) BY <1>15 DEF JobEnds
<1>16. CASE RowCloses(r) BY <1>16 DEF RowCloses
<1>17. CASE AdmitHooks(r) BY <1>17 DEF AdmitHooks, Free
<1>18. CASE HooksRun(r) BY <1>18 DEF HooksRun
<1>19. CASE JobRequeued(r) BY <1>19 DEF JobRequeued
<1>20. QED
  BY <1>1, <1>2, <1>3, <1>4, <1>5, <1>6, <1>7, <1>8, <1>9, <1>10, <1>11, <1>12, <1>13, <1>14, <1>15, <1>16, <1>17, <1>18,
     <1>19
  DEF Step, Session, Request

\* Two classes that do not conflict, one of them a write, are a backup and a
\* dry run.
LEMMA NoConflict ==
    ASSUME NEW k \in Kinds, NEW a \in Kinds, ~Conflicts(k, a), Class(k) = "write" \/ Class(a) = "write"
    PROVE  {Operation(k), Operation(a)} = {"backup", "dry"} /\ {Operation(a), Operation(k)} = {"backup", "dry"}
BY DEF Conflicts, Operation, Class, Backups, Kinds

\* A job is inserted beside jobs its session found no conflict with.
LEMMA StepAlone ==
    ASSUME TypeOK, Cleared, WritersAlone, NEW r \in Reqs, Step(r)
    PROVE  WritersAlone'
<1> USE AdmissionAssumption DEF TypeOK, At, Unlocked, Uncapped, LockScope, RolledBack, WritersAlone, JobSeen
<1>1. CASE EnsureCapacity(r) BY <1>1 DEF EnsureCapacity, CapacityTaken
<1>2. CASE CapacityRefused(r) BY <1>2 DEF CapacityRefused
<1>3. CASE Admit(r) BY <1>3 DEF Admit
<1>4. CASE InsertRow(r) BY <1>4 DEF InsertRow
<1>5. CASE InsertUnasked(r) BY <1>5 DEF InsertUnasked
<1>6. CASE RunnerStarts(r) BY <1>6 DEF RunnerStarts
<1>7. CASE InsertJob(r)
  <2> SUFFICES ASSUME NEW x \in Reqs, NEW y \in Reqs, x # y, Repo[x] = Repo[y],
                      JobSeen(x)', JobSeen(y)', Class(Kind[x]) = "write"
               PROVE  {Operation(Kind[x]), Operation(Kind[y])} = {"backup", "dry"}
    OBVIOUS
  <2>1. \A q \in Reqs : q # r => job'[q] = job[q] BY <1>7 DEF InsertJob
  <2>2. CASE x = r
    <3>1. ~Conflicts(Kind[x], Kind[y]) BY <1>7, <2>1, <2>2 DEF InsertJob, Cleared
    <3>2. QED BY <3>1, NoConflict
  <2>3. CASE y = r
    <3>1. ~Conflicts(Kind[y], Kind[x]) BY <1>7, <2>1, <2>3 DEF InsertJob, Cleared
    <3>2. QED BY <3>1, NoConflict
  <2>4. CASE x # r /\ y # r BY <2>1, <2>4
  <2>5. QED BY <2>2, <2>3, <2>4
<1>8. CASE Refuse(r) BY <1>8 DEF Refuse
<1>9. CASE RefuseAndWait(r) BY <1>9 DEF RefuseAndWait
<1>10. CASE PollClears(r) BY <1>10 DEF PollClears
<1>11. CASE Poll(r) BY <1>11 DEF Poll
<1>12. CASE InsertFails(r) BY <1>12 DEF InsertFails
<1>13. CASE GivesUp(r) BY <1>13 DEF GivesUp
<1>14. CASE AgentClaims(r) BY <1>14 DEF AgentClaims
<1>15. CASE JobEnds(r) BY <1>15 DEF JobEnds
<1>16. CASE RowCloses(r) BY <1>16 DEF RowCloses
<1>17. CASE AdmitHooks(r) BY <1>17 DEF AdmitHooks, Free
<1>18. CASE HooksRun(r) BY <1>18 DEF HooksRun
<1>19. CASE JobRequeued(r) BY <1>19 DEF JobRequeued
<1>20. QED
  BY <1>1, <1>2, <1>3, <1>4, <1>5, <1>6, <1>7, <1>8, <1>9, <1>10, <1>11, <1>12, <1>13, <1>14, <1>15, <1>16, <1>17, <1>18,
     <1>19
  DEF Step, Session, Request

\* Only the row of a manual backup takes capacity, and its session holds the
\* capacity scope up to that commit.
LEMMA OneMoreActive ==
    ASSUME TypeOK, Scoped, Placed, NEW r \in Reqs, Step(r)
    PROVE  \/ Actives' \subseteq Actives
           \/ Actives' \subseteq Actives \cup {r} /\ cap = r /\ cap' = None
<1> USE AdmissionAssumption DEF TypeOK, At, Scoped, Placed, Manual, Actives, ActiveManual
<1>1. CASE EnsureCapacity(r) BY <1>1 DEF EnsureCapacity
<1>2. CASE CapacityRefused(r) BY <1>2 DEF CapacityRefused
<1>3. CASE Admit(r) BY <1>3 DEF Admit
<1>4. CASE InsertRow(r) BY <1>4 DEF InsertRow, Uncapped
<1>5. CASE InsertUnasked(r) BY <1>5 DEF InsertUnasked
<1>6. CASE RunnerStarts(r) BY <1>6 DEF RunnerStarts
<1>7. CASE InsertJob(r) BY <1>7 DEF InsertJob
<1>8. CASE Refuse(r) BY <1>8 DEF Refuse
<1>9. CASE RefuseAndWait(r) BY <1>9 DEF RefuseAndWait
<1>10. CASE PollClears(r) BY <1>10 DEF PollClears
<1>11. CASE Poll(r) BY <1>11 DEF Poll
<1>12. CASE InsertFails(r) BY <1>12 DEF InsertFails
<1>13. CASE GivesUp(r) BY <1>13 DEF GivesUp
<1>14. CASE AgentClaims(r) BY <1>14 DEF AgentClaims
<1>15. CASE JobEnds(r) BY <1>15 DEF JobEnds
<1>16. CASE RowCloses(r) BY <1>16 DEF RowCloses
<1>17. CASE AdmitHooks(r) BY <1>17 DEF AdmitHooks, Free
<1>18. CASE HooksRun(r) BY <1>18 DEF HooksRun
<1>19. CASE JobRequeued(r) BY <1>19 DEF JobRequeued
<1>20. QED
  BY <1>1, <1>2, <1>3, <1>4, <1>5, <1>6, <1>7, <1>8, <1>9, <1>10, <1>11, <1>12, <1>13, <1>14, <1>15, <1>16, <1>17, <1>18,
     <1>19
  DEF Step, Session, Request

\* The capacity scope is taken after a count below the limit.
LEMMA CapacityScope ==
    ASSUME NEW r \in Reqs, Step(r)
    PROVE  \/ cap' \in {cap, None}
           \/ Used < Limit /\ Actives' = Actives /\ Holders' = Holders
<1> USE DEF Uncapped
<1>1. CASE EnsureCapacity(r) BY <1>1 DEF EnsureCapacity, CapacityTaken, Actives, Holders, HoldsCapacity, ActiveManual, WaitsForAgent, Step
<1>2. CASE CapacityRefused(r) BY <1>2 DEF CapacityRefused
<1>3. CASE Admit(r) BY <1>3 DEF Admit
<1>4. CASE InsertRow(r) BY <1>4 DEF InsertRow
<1>5. CASE InsertUnasked(r) BY <1>5 DEF InsertUnasked
<1>6. CASE RunnerStarts(r) BY <1>6 DEF RunnerStarts
<1>7. CASE InsertJob(r) BY <1>7 DEF InsertJob
<1>8. CASE Refuse(r) BY <1>8 DEF Refuse
<1>9. CASE RefuseAndWait(r) BY <1>9 DEF RefuseAndWait
<1>10. CASE PollClears(r) BY <1>10 DEF PollClears
<1>11. CASE Poll(r) BY <1>11 DEF Poll
<1>12. CASE InsertFails(r) BY <1>12 DEF InsertFails
<1>13. CASE GivesUp(r) BY <1>13 DEF GivesUp
<1>14. CASE AgentClaims(r) BY <1>14 DEF AgentClaims
<1>15. CASE JobEnds(r) BY <1>15 DEF JobEnds
<1>16. CASE RowCloses(r) BY <1>16 DEF RowCloses
<1>17. CASE AdmitHooks(r) BY <1>17 DEF AdmitHooks, Free
<1>18. CASE HooksRun(r) BY <1>18 DEF HooksRun
<1>19. CASE JobRequeued(r) BY <1>19 DEF JobRequeued
<1>20. QED
  BY <1>1, <1>2, <1>3, <1>4, <1>5, <1>6, <1>7, <1>8, <1>9, <1>10, <1>11, <1>12, <1>13, <1>14, <1>15, <1>16, <1>17, <1>18,
     <1>19
  DEF Step, Session, Request

\* The history keeps up with every step.
LEMMA StepRemembered ==
    ASSUME Remembers
    PROVE  Remembered'
BY DEF Remembers, Remembered

\* A backup that counts and never waited counted before the step, or became
\* active in it.
LEMMA StandingBefore ==
    ASSUME Remembered, Remembers, NEW q \in Reqs, q \in Standing', q \in Actives
    PROVE  q \in Standing
BY DEF Remembered, Remembers, Standing, Actives, HoldsCapacity

\* Whoever counts is active, and the backups that never waited are among
\* the counted.
LEMMA Sets == Standing \subseteq Holders /\ Holders \subseteq Actives
BY DEF Standing, Holders, Actives, HoldsCapacity

\* Without a new active backup the count of those that never waited does not
\* grow.
LEMMA NoMoreStanding ==
    ASSUME Remembered, Remembers, Counted, Actives' \subseteq Actives
    PROVE  /\ IsFiniteSet(Actives') /\ IsFiniteSet(Standing)
           /\ Cardinality(Standing) \in Nat /\ Cardinality(Standing') \in Nat
           /\ Cardinality(Standing') <= Cardinality(Standing)
<1>1. Standing' \subseteq Actives' BY DEF Standing, Actives, HoldsCapacity
<1>2. Standing' \subseteq Standing
  <2> SUFFICES ASSUME NEW q \in Standing' PROVE q \in Standing OBVIOUS
  <2>1. q \in Reqs BY DEF Standing
  <2>2. QED BY <1>1, <2>1, StandingBefore
<1>3. IsFiniteSet(Actives') /\ IsFiniteSet(Standing) BY Sets, FS_Subset DEF Counted
<1>4. IsFiniteSet(Standing') /\ Cardinality(Standing') <= Cardinality(Standing) BY <1>2, <1>3, FS_Subset
<1>5. QED BY <1>3, <1>4, FS_CardinalityType

\* Agents that come and go leave the count of those that never waited.
LEMMA PresenceCounted ==
    ASSUME Remembered, Counted, Presence
    PROVE  Counted'
<1> USE AdmissionAssumption
<1>1. Actives' = Actives /\ cap' = cap
  BY DEF Presence, AgentLeaves, AgentReturns, Actives, ActiveManual
<1>2. Remembers BY DEF Presence
<1>3. /\ IsFiniteSet(Actives') /\ IsFiniteSet(Standing)
      /\ Cardinality(Standing) \in Nat /\ Cardinality(Standing') \in Nat
      /\ Cardinality(Standing') <= Cardinality(Standing)
  BY <1>1, <1>2, NoMoreStanding
<1>4. QED BY <1>1, <1>3 DEF Counted

\* The count holds up to the insert it allowed, and the insert adds one.
LEMMA StepCounted ==
    ASSUME TypeOK, Scoped, Placed, Remembered, Counted, NEW r \in Reqs, Step(r)
    PROVE  Counted'
<1> USE AdmissionAssumption
<1>1. Remembers BY DEF Step
<1>2. IsFiniteSet(Standing) /\ IsFiniteSet(Holders) BY Sets, FS_Subset DEF Counted
<1>3. Cardinality(Standing) \in Nat /\ Used \in Nat /\ Cardinality(Standing) <= Used
  <2>1. Used = Cardinality(Holders) BY DEF Used, Holders
  <2>2. QED BY <1>2, <2>1, Sets, FS_Subset, FS_CardinalityType
<1>4. CASE Actives' \subseteq Actives
  <2>1. /\ IsFiniteSet(Actives') /\ Cardinality(Standing') \in Nat
        /\ Cardinality(Standing') <= Cardinality(Standing)
    BY <1>1, <1>4, NoMoreStanding
  <2>2. Cardinality(Standing') <= Limit BY <1>3, <2>1 DEF Counted
  <2>3. cap' # None => Cardinality(Standing') < Limit BY <1>3, <2>1, CapacityScope DEF Counted
  <2>4. QED BY <2>1, <2>2, <2>3 DEF Counted
<1>5. CASE Actives' \subseteq Actives \cup {r} /\ cap = r /\ cap' = None
  <2>1. Cardinality(Standing) < Limit BY <1>5 DEF Counted
  <2>2. Standing' \subseteq Standing \cup {r}
    <3> SUFFICES ASSUME NEW q \in Standing', q # r PROVE q \in Standing OBVIOUS
    <3>1. q \in Reqs /\ q \in Actives' BY DEF Standing, Actives, HoldsCapacity
    <3>2. QED BY <1>1, <1>5, <3>1, StandingBefore
  <2>3. IsFiniteSet(Standing \cup {r})
    BY <1>2, FS_AddElement, Zenon
  <2>4. Cardinality(Standing \cup {r}) = IF r \in Standing THEN Cardinality(Standing) ELSE Cardinality(Standing) + 1
    BY <1>2, FS_AddElement, Zenon
  <2>5. Cardinality(Standing \cup {r}) <= Limit /\ Cardinality(Standing \cup {r}) \in Nat
    BY <1>3, <2>1, <2>4
  <2>6. IsFiniteSet(Standing') /\ Cardinality(Standing') <= Cardinality(Standing \cup {r})
    BY <2>2, <2>3, FS_Subset
  <2>7. Cardinality(Standing') \in Nat BY <2>6, FS_CardinalityType
  <2>8. Cardinality(Standing') <= Limit BY <2>5, <2>6, <2>7
  <2>9. IsFiniteSet(Actives')
    <3>1. IsFiniteSet(Actives \cup {r}) BY FS_AddElement, Zenon DEF Counted
    <3>2. QED BY <1>5, <3>1, FS_Subset
  <2>10. QED BY <1>5, <2>8, <2>9 DEF Counted
<1>6. QED BY <1>4, <1>5, OneMoreActive

\* Presence changes nothing else the invariant speaks of.
LEMMA PresenceInv ==
    ASSUME IInv, Presence
    PROVE  IInv'
<1>1. UNCHANGED <<pc, row, job, lock, cap, defers, polls>> BY DEF Presence, AgentLeaves, AgentReturns
<1>2. TypeOK'
  BY <1>1, AdmissionAssumption DEF IInv, TypeOK, Presence, AgentLeaves, AgentReturns, Remembers
<1>3. Scoped' BY <1>1 DEF IInv, Scoped
<1>4. Placed' BY <1>1 DEF IInv, Placed, JobSeen
<1>5. Cleared' BY <1>1 DEF IInv, Cleared, JobSeen
<1>6. WritersAlone' BY <1>1 DEF IInv, WritersAlone, JobSeen
<1>7. Remembered' BY StepRemembered DEF Presence
<1>8. Counted' BY PresenceCounted DEF IInv
<1>9. QED BY <1>2, <1>3, <1>4, <1>5, <1>6, <1>7, <1>8 DEF IInv

\* The program starts without work and with every scope free.
LEMMA InitInv == Init => IInv
<1> SUFFICES ASSUME Init PROVE IInv OBVIOUS
<1> USE AdmissionAssumption DEF Init
<1>1. TypeOK BY DEF TypeOK, Steps
<1>2. Scoped /\ Placed /\ Cleared /\ WritersAlone
  BY DEF Scoped, Placed, Cleared, WritersAlone, JobSeen
<1>3. Actives = {} /\ Standing = {} /\ Remembered
  BY DEF Actives, Standing, HoldsCapacity, ActiveManual, Remembered, WaitsForAgent
<1>4. Counted BY <1>3, FS_EmptySet DEF Counted
<1>5. QED BY <1>1, <1>2, <1>3, <1>4 DEF IInv

\* Every step keeps the invariant.
LEMMA StepInv == IInv /\ [Next]_vars => IInv'
<1> SUFFICES ASSUME IInv, [Next]_vars PROVE IInv' OBVIOUS
<1>1. ASSUME NEW r \in Reqs, Step(r) PROVE IInv'
  <2>1. Remembered' BY <1>1, StepRemembered DEF Step
  <2>2. QED
    BY <1>1, <2>1, StepType, StepScoped, StepPlaced, StepCleared, StepAlone, StepCounted DEF IInv
<1>2. CASE Presence BY <1>2, PresenceInv
<1>3. CASE UNCHANGED vars
  <2>1. TypeOK' /\ Scoped' /\ Placed' BY <1>3 DEF IInv, vars, TypeOK, Scoped, Placed, JobSeen
  <2>2. Cleared' /\ WritersAlone' BY <1>3 DEF IInv, vars, Cleared, WritersAlone, JobSeen
  <2>3. Actives' = Actives /\ Standing' = Standing /\ Remembered' /\ cap' = cap
    BY <1>3 DEF IInv, vars, Actives, Standing, HoldsCapacity, ActiveManual, Remembered, WaitsForAgent
  <2>4. Counted' BY <2>3 DEF IInv, Counted
  <2>5. QED BY <2>1, <2>2, <2>3, <2>4 DEF IInv
<1>4. QED BY <1>1, <1>2, <1>3 DEF Next, Step, Presence

\* The invariant holds in every reachable state.
LEMMA AlwaysInv == Spec => []IInv
BY InitInv, StepInv, PTL DEF Spec

\* Two requests never both pass: no agent job of a write is in flight beside
\* another job of its repository, except a backup beside a dry run.
THEOREM WritersAloneAlways == Spec => []WritersAlone
<1>1. IInv => WritersAlone BY DEF IInv
<1>2. QED BY AlwaysInv, <1>1, PTL

\* Manual backups that never waited for an away agent do not exceed
\* max_concurrent_backups, whichever sessions count and insert at the same
\* time and whichever agents leave or return in between.
THEOREM WithinLimitAlways == Spec => []WithinLimit
<1>1. IInv => WithinLimit BY DEF IInv, Counted, WithinLimit, Standing
<1>2. QED BY AlwaysInv, <1>1, PTL

\* A session that was refused, waits or has ended holds no scope.
THEOREM ScopesGivenBackAlways == Spec => []ScopesGivenBack
<1>1. IInv => ScopesGivenBack BY DEF IInv, Scoped, ScopesGivenBack
<1>2. QED BY AlwaysInv, <1>1, PTL

=============================================================================
