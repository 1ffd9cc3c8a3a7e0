------------------------- MODULE RunnerLeaseProofs -------------------------
(***************************************************************************)
(* The runner lease keeps the processes apart, for every number of         *)
(* processes and rows and every lease that outlasts the gap between two    *)
(* renewals and the graceful window.                                       *)
(*                                                                         *)
(* OneRunner is not inductive: a step must know that the lease of a        *)
(* working process has time left.  Covered ties the time that is left to   *)
(* the two timers, which LeaseAssumption and the types bound, and says who *)
(* counts which timer.                                                     *)
(***************************************************************************)
EXTENDS RunnerLease, TLAPS

\* What holds of one process: its lease covers its work, it still believes
\* to hold it while it is not stopped, and it has work only after recovery.
Covered(p) ==
    /\ Working(p) => holder = p /\ left + age[p] + sage[p] >= Lease + 1
    /\ Working(p) /\ shut[p] = "up" => held[p]
    /\ shut[p] = "up" => sage[p] = 0
    /\ ~Alive(p) => tasks[p] = {}
    /\ phase[p] # "tick" => pend[p] = {}
    /\ ~recovered[p] => tasks[p] = {} /\ phase[p] # "tick"

\* A row with a task, or claimed for one, reads running and is in one of the
\* two places.
RowsHeld(p) ==
    /\ \A o \in tasks[p] \cup pend[p] : row[o] = "running"
    /\ pend[p] \cap tasks[p] = {}

IInv == TypeOK /\ (\A p \in Procs : Covered(p)) /\ (\A p \in Procs : RowsHeld(p))

\* Init establishes the types of the lease, the loops and the rows.
LEMMA InitType == Init => TypeOK
BY LeaseAssumption DEF Init, TypeOK

\* The types survive every step of a process.
LEMMA ProcType ==
    ASSUME TypeOK, NEW p \in Procs, ProcStep(p)
    PROVE  TypeOK'
<1> USE LeaseAssumption DEF TypeOK, lease, loop, work, shutdown, rows
<1>1. CASE Start(p) BY <1>1 DEF Start
<1>2. CASE Renew(p)
  <2>1. row' \in [Ops -> {"queued", "running", "final"}]
    BY <1>2 DEF Renew, Recovered
  <2>2. QED BY <1>2, <2>1 DEF Renew, Expiry
<1>3. CASE Refused(p) BY <1>3 DEF Refused
<1>4. CASE StartTask(p) BY <1>4 DEF StartTask
<1>5. CASE TickEnds(p) BY <1>5 DEF TickEnds
<1>6. CASE Stop(p) BY <1>6 DEF Stop, ReleaseIf, Idle
<1>7. CASE DrainEnds(p) BY <1>7 DEF DrainEnds, ReleaseIf, Idle
<1>8. CASE DrainTimesOut(p) BY <1>8 DEF DrainTimesOut
<1>9. CASE LoopExits(p) BY <1>9 DEF LoopExits, ReleaseIf, Idle
<1>10. CASE Gone(p) BY <1>10 DEF Gone
<1>11. ASSUME NEW o \in Ops, Claim(p, o) PROVE TypeOK' BY <1>11 DEF Claim
<1>12. ASSUME NEW o \in Ops, Record(p, o) PROVE TypeOK' BY <1>12 DEF Record
<1>13. ASSUME NEW o \in Ops, Sweep(p, o) PROVE TypeOK' BY <1>13 DEF Sweep
<1>14. ASSUME NEW o \in Ops, Spawn(p, o) PROVE TypeOK' BY <1>14 DEF Spawn
<1>15. ASSUME NEW o \in Ops, TaskEnds(p, o) PROVE TypeOK' BY <1>15 DEF TaskEnds
<1>16. QED
  BY <1>1, <1>2, <1>3, <1>4, <1>5, <1>6, <1>7, <1>8, <1>9, <1>10, <1>11, <1>12, <1>13, <1>14, <1>15
  DEF ProcStep

\* The types survive the passing of time and the end of a child process.
LEMMA OtherType ==
    ASSUME TypeOK, Advance \/ \E o \in Ops : ChildEnds(o)
    PROVE  TypeOK'
<1> USE LeaseAssumption DEF TypeOK, lease, loop, work, shutdown, rows
<1>1. CASE Advance
  <2>1. age' \in [Procs -> 0 .. Gap] /\ sage' \in [Procs -> 0 .. KillAfter]
    BY <1>1 DEF Advance, InTime
  <2>2. QED BY <1>1, <2>1 DEF Advance
<1>2. ASSUME NEW o \in Ops, ChildEnds(o) PROVE TypeOK' BY <1>2 DEF ChildEnds
<1>3. QED BY <1>1, <1>2

\* A process that works has time left on the lease, so nobody else can take
\* it: this is where the lease has to outlast the gap and the window.
LEMMA CannotTakeOver ==
    ASSUME IInv, NEW p \in Procs, NEW q \in Procs, p # q, Working(q)
    PROVE  ~CanAcquire(p)
BY LeaseAssumption DEF IInv, Covered, CanAcquire, TypeOK

\* Only one process works.
LEMMA OneWorks ==
    ASSUME IInv, NEW p \in Procs, NEW q \in Procs, Working(p), Working(q)
    PROVE  p = q
BY DEF IInv, Covered

\* A step of p leaves what covers another process alone.
LEMMA OthersCovered ==
    ASSUME IInv, NEW p \in Procs, ProcStep(p), NEW q \in Procs, p # q
    PROVE  Covered(q)'
<1> USE LeaseAssumption DEF IInv, TypeOK, Covered, Working, Alive, lease, loop, work, shutdown, rows
<1>1. CASE Start(p) BY <1>1 DEF Start
<1>2. CASE Renew(p)
  <2>1. ~Working(q) BY <1>2, CannotTakeOver DEF Renew
  <2>2. QED BY <1>2, <2>1 DEF Renew
<1>3. CASE Refused(p) BY <1>3 DEF Refused
<1>4. CASE StartTask(p) BY <1>4 DEF StartTask
<1>5. CASE TickEnds(p) BY <1>5 DEF TickEnds
<1>6. CASE Stop(p) BY <1>6 DEF Stop, ReleaseIf, Idle
<1>7. CASE DrainEnds(p) BY <1>7 DEF DrainEnds, ReleaseIf, Idle
<1>8. CASE DrainTimesOut(p) BY <1>8 DEF DrainTimesOut
<1>9. CASE LoopExits(p) BY <1>9 DEF LoopExits, ReleaseIf, Idle
<1>10. CASE Gone(p) BY <1>10 DEF Gone
<1>11. ASSUME NEW o \in Ops, Claim(p, o) PROVE Covered(q)' BY <1>11 DEF Claim
<1>12. ASSUME NEW o \in Ops, Record(p, o) PROVE Covered(q)' BY <1>12 DEF Record
<1>13. ASSUME NEW o \in Ops, Sweep(p, o) PROVE Covered(q)' BY <1>13 DEF Sweep
<1>14. ASSUME NEW o \in Ops, Spawn(p, o) PROVE Covered(q)' BY <1>14 DEF Spawn
<1>15. ASSUME NEW o \in Ops, TaskEnds(p, o) PROVE Covered(q)' BY <1>15 DEF TaskEnds
<1>16. QED
  BY <1>1, <1>2, <1>3, <1>4, <1>5, <1>6, <1>7, <1>8, <1>9, <1>10, <1>11, <1>12, <1>13, <1>14, <1>15
  DEF ProcStep

\* A step of p keeps p covered: it renews before it works, and gives the
\* lease up only when its loop and its tasks have ended.
LEMMA SelfCovered ==
    ASSUME IInv, NEW p \in Procs, ProcStep(p)
    PROVE  Covered(p)'
<1> USE LeaseAssumption DEF IInv, TypeOK, Covered, Working, Alive, lease, loop, work, shutdown, rows
<1>1. CASE Start(p) BY <1>1 DEF Start
<1>2. CASE Renew(p) BY <1>2 DEF Renew, Expiry
<1>3. CASE Refused(p) BY <1>3 DEF Refused, CanAcquire
<1>4. CASE StartTask(p) BY <1>4 DEF StartTask
<1>5. CASE TickEnds(p) BY <1>5 DEF TickEnds
<1>6. CASE Stop(p) BY <1>6 DEF Stop, ReleaseIf, Idle
<1>7. CASE DrainEnds(p) BY <1>7 DEF DrainEnds, ReleaseIf, Idle
<1>8. CASE DrainTimesOut(p) BY <1>8 DEF DrainTimesOut
<1>9. CASE LoopExits(p) BY <1>9 DEF LoopExits, ReleaseIf, Idle
<1>10. CASE Gone(p) BY <1>10 DEF Gone
<1>11. ASSUME NEW o \in Ops, Claim(p, o) PROVE Covered(p)' BY <1>11 DEF Claim
<1>12. ASSUME NEW o \in Ops, Record(p, o) PROVE Covered(p)' BY <1>12 DEF Record
<1>13. ASSUME NEW o \in Ops, Sweep(p, o) PROVE Covered(p)' BY <1>13 DEF Sweep
<1>14. ASSUME NEW o \in Ops, Spawn(p, o) PROVE Covered(p)' BY <1>14 DEF Spawn
<1>15. ASSUME NEW o \in Ops, TaskEnds(p, o) PROVE Covered(p)' BY <1>15 DEF TaskEnds
<1>16. QED
  BY <1>1, <1>2, <1>3, <1>4, <1>5, <1>6, <1>7, <1>8, <1>9, <1>10, <1>11, <1>12, <1>13, <1>14, <1>15
  DEF ProcStep

\* A process that recovers, records or sweeps finds no row in another's
\* hands.
LEMMA OthersIdle ==
    ASSUME IInv, NEW p \in Procs, NEW q \in Procs, p # q,
           Working(p) \/ Renew(p)
    PROVE  tasks[q] = {} /\ pend[q] = {}
<1>1. ~Working(q) BY OneWorks, CannotTakeOver DEF Renew
<1>2. QED BY <1>1 DEF IInv, Covered, Working, Alive

\* A step of p leaves the rows in every process's hands running.
LEMMA StepRows ==
    ASSUME IInv, NEW p \in Procs, ProcStep(p), NEW q \in Procs
    PROVE  RowsHeld(q)'
<1> USE DEF IInv, TypeOK, RowsHeld, lease, loop, work, shutdown, rows
<1>1. CASE Start(p) BY <1>1 DEF Start
<1>2. CASE Renew(p)
  <2>1. p # q => tasks[q] = {} /\ pend[q] = {} BY <1>2, OthersIdle
  <2>2. ~recovered[p] => tasks[p] = {} /\ pend[p] = {}
    BY <1>2 DEF Renew, Covered
  <2>3. recovered[p] => row' = row BY <1>2 DEF Renew
  <2>4. tasks' = tasks /\ pend' = pend BY <1>2 DEF Renew
  <2>5. QED BY <2>1, <2>2, <2>3, <2>4
<1>3. CASE Refused(p) BY <1>3 DEF Refused
<1>4. CASE StartTask(p) BY <1>4 DEF StartTask
<1>5. CASE TickEnds(p) BY <1>5 DEF TickEnds
<1>6. CASE Stop(p) BY <1>6 DEF Stop
<1>7. CASE DrainEnds(p) BY <1>7 DEF DrainEnds
<1>8. CASE DrainTimesOut(p) BY <1>8 DEF DrainTimesOut
<1>9. CASE LoopExits(p) BY <1>9 DEF LoopExits
<1>10. CASE Gone(p) BY <1>10 DEF Gone
<1>11. ASSUME NEW o \in Ops, Claim(p, o) PROVE RowsHeld(q)'
  <2>1. p # q => tasks[q] = {} /\ pend[q] = {}
    BY <1>11, OthersIdle DEF Claim, Working, Alive
  <2>2. QED BY <1>11, <2>1 DEF Claim
<1>12. ASSUME NEW o \in Ops, Record(p, o) PROVE RowsHeld(q)'
  <2>1. p # q => tasks[q] = {} /\ pend[q] = {}
    BY <1>12, OthersIdle DEF Record, Working, Alive
  <2>2. QED BY <1>12, <2>1 DEF Record
<1>13. ASSUME NEW o \in Ops, Sweep(p, o) PROVE RowsHeld(q)'
  <2>1. p # q => tasks[q] = {} /\ pend[q] = {}
    BY <1>13, OthersIdle DEF Sweep, Working, Alive
  <2>2. QED BY <1>13, <2>1 DEF Sweep
<1>14. ASSUME NEW o \in Ops, Spawn(p, o) PROVE RowsHeld(q)' BY <1>14 DEF Spawn
<1>15. ASSUME NEW o \in Ops, TaskEnds(p, o) PROVE RowsHeld(q)'
  <2>1. p # q => tasks[q] = {} /\ pend[q] = {}
    BY <1>15, OthersIdle DEF TaskEnds, Working
  <2>2. QED BY <1>15, <2>1 DEF TaskEnds
<1>16. QED
  BY <1>1, <1>2, <1>3, <1>4, <1>5, <1>6, <1>7, <1>8, <1>9, <1>10, <1>11, <1>12, <1>13, <1>14, <1>15
  DEF ProcStep

\* The initial state has no work anywhere.
LEMMA InitInv == Init => IInv
BY InitType DEF Init, IInv, Covered, RowsHeld, Working, Alive

\* IInv is preserved by every step: by a process's own and the others', and
\* by time, which takes from the lease what it adds to a timer.
LEMMA StepInv == IInv /\ [Next]_vars => IInv'
<1> SUFFICES ASSUME IInv, [Next]_vars PROVE IInv' OBVIOUS
<1>1. ASSUME NEW p \in Procs, ProcStep(p) PROVE IInv'
  <2>1. TypeOK' BY <1>1, ProcType DEF IInv
  <2>2. \A q \in Procs : Covered(q)' BY <1>1, OthersCovered, SelfCovered
  <2>3. \A q \in Procs : RowsHeld(q)' BY <1>1, StepRows
  <2>4. QED BY <2>1, <2>2, <2>3 DEF IInv
<1>2. CASE Advance
  <2>1. TypeOK' BY <1>2, OtherType DEF IInv
  <2>2. ASSUME NEW q \in Procs PROVE Covered(q)'
    BY <1>2, LeaseAssumption DEF IInv, TypeOK, Covered, Working, Alive, Advance, loop, work
  <2>3. ASSUME NEW q \in Procs PROVE RowsHeld(q)'
    BY <1>2 DEF IInv, RowsHeld, Advance, loop, work, rows
  <2>4. QED BY <2>1, <2>2, <2>3 DEF IInv
<1>3. ASSUME NEW o \in Ops, ChildEnds(o) PROVE IInv'
  <2>1. TypeOK' BY <1>3, OtherType DEF IInv
  <2>2. \A q \in Procs : Covered(q)' /\ RowsHeld(q)'
    BY <1>3 DEF IInv, Covered, RowsHeld, Working, Alive, ChildEnds, lease, loop, work, shutdown
  <2>3. QED BY <2>1, <2>2 DEF IInv
<1>4. CASE UNCHANGED vars
  BY <1>4 DEF IInv, TypeOK, Covered, RowsHeld, Working, Alive, vars
<1>5. QED BY <1>1, <1>2, <1>3, <1>4 DEF Next

\* At most one process recovers, sweeps, claims or runs, over every
\* interleaving of stops, drains, kills, crashes and early replacements.
THEOREM OneRunnerAlways == Spec => []OneRunner
<1>1. IInv => OneRunner BY OneWorks DEF OneRunner
<1>2. QED BY InitInv, StepInv, <1>1, PTL DEF Spec

\* No process's recovery, sweep or claim takes a row from under a task.
THEOREM TasksKeepRowsAlways == Spec => []TasksKeepRows
<1>1. IInv => TasksKeepRows BY DEF IInv, RowsHeld, TasksKeepRows
<1>2. QED BY InitInv, StepInv, <1>1, PTL DEF Spec

=============================================================================
