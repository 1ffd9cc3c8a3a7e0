------------------------ MODULE AgentOutcomesProofs ------------------------
(***************************************************************************)
(* The two invariants of AgentOutcomes for any set of jobs, any number of  *)
(* faults and any retry limit.  The first rests on what may take an        *)
(* outcome out of the store: an answer that the server took it, or a       *)
(* refusal for good.  The second follows a cancelled report back to the    *)
(* thread that made it, through the store, the snapshots and the lock: for *)
(* a job that reports its cancel itself it comes from the worker, or the   *)
(* server had its verdict before.                                          *)
(***************************************************************************)
EXTENDS AgentOutcomes, TLAPS

------------------------------------------------------------------------------
(* The inductive invariant. *)

Answers == {"delivered", "unanswered", "retry", "refused"}
Verdicts == {"completed", "failed", "canceled"}
Entries == Jobs \X Kinds

Types ==
    /\ registry \subseteq Jobs /\ dropped \subseteq Jobs
    /\ work \in [Jobs -> {None, "run", "ended", "send", "leave", "gone"}]
    /\ canceller \in [Jobs -> {None, "look", "keep", "send", "done"}]
    /\ outcome \in [Jobs -> Kinds \cup {None}] /\ kept \in [Jobs -> Kinds \cup {None}]
    /\ recorded \in [Jobs -> Verdicts \cup {None}]
    /\ queue \in [Deliverers -> SUBSET Entries]
    /\ \/ http = Free
       \/ http \in [by : Deliverers \cup {"worker", "cancel"}, job : Jobs, kind : Kinds,
                    answer : Answers]

\* The server has a verdict of the job, or would never take one.
Known(j) == recorded[j] # None \/ j \in dropped

\* A worker is registered until it leaves or is turned away, and has an outcome once its handler
\* has ended; a report that was delivered is recorded.
Workers ==
    /\ \A j \in Jobs :
          work[j] \in {"run", "ended", "send", "leave"} /\ j \notin turned => j \in registry
    /\ \A j \in Jobs : work[j] \in {None, "run"} <=> outcome[j] = None
    /\ \A j \in Jobs : j \in turned => outcome[j] # None
    /\ http # Free /\ http.answer = "delivered" => recorded[http.job] # None
    /\ http # Free /\ http.by = "worker" => work[http.job] = "send"

\* What a worker kept leaves the store only when the job's end is known.
Stored == \A j \in Jobs : work[j] \in {"send", "leave", "gone"} => j \in Kept \/ Known(j)

\* The cancel of a job that reports it itself, and that did not come early:
\* it was the worker's, or it changes nothing any more.
Own(j) == j \in SelfCancelling \ (early \cup turned)
Genuine(j) == outcome[j] = "cancel" \/ Known(j)
Cancels ==
    \A j \in Jobs : Own(j) =>
        /\ canceller[j] = "look" => work[j] = "gone"
        /\ canceller[j] \in {"keep", "send"} => Known(j)
        /\ kept[j] = "cancel" => Genuine(j)
        /\ http # Free /\ http.job = j /\ http.kind = "cancel" => Genuine(j)
        /\ \A d \in Deliverers : <<j, "cancel">> \in queue[d] => Genuine(j)
        /\ recorded[j] = "canceled" => outcome[j] = "cancel" \/ j \in dropped

IInv == Types /\ Workers /\ Stored /\ Cancels

------------------------------------------------------------------------------
(* Types. *)

\* A report under the lock is not the free lock.
LEMMA Busy ==
    ASSUME NEW by, NEW j, NEW kind \in Kinds, NEW answer
    PROVE  [by |-> by, job |-> j, kind |-> kind, answer |-> answer] # Free
  BY DEF Free, Kinds, None

\* The agent starts with no job, no worker and nothing kept.
LEMMA InitIInv == Init => IInv
  BY DEF Init, IInv, Types, Workers, Stored, Cancels, Kept, None, Known, Entries

\* What a report does, by whichever thread.
LEMMA SendStep ==
    ASSUME Types, NEW by \in Deliverers \cup {"worker", "cancel"}, NEW j \in Jobs,
           NEW kind \in Kinds, Send(by, j, kind)
    PROVE  /\ UNCHANGED <<registry, event, pendingCancels, early, turned, work, canceller, outcome,
                          kept, retries, queue, dropped>>
           /\ http = Free /\ http' # Free /\ http'.job = j /\ http'.kind = kind /\ http'.by = by
           /\ http'.answer \in Answers
           /\ http' \in [by : Deliverers \cup {"worker", "cancel"}, job : Jobs, kind : Kinds,
                         answer : Answers]
           /\ recorded' \in [Jobs -> Verdicts \cup {None}]
           /\ \A i \in Jobs : recorded[i] # None \/ i # j => recorded'[i] = recorded[i]
           /\ http'.answer = "delivered" => recorded'[j] # None
           /\ recorded'[j] \in {recorded[j], Verdict[kind]}
  <1>1. PICK answer \in Answers, taken \in BOOLEAN :
          /\ answer = "delivered" => taken
          /\ recorded' = [recorded EXCEPT ![j] =
                 IF taken /\ @ = None THEN Verdict[kind] ELSE @]
          /\ http' = [by |-> by, job |-> j, kind |-> kind, answer |-> answer]
    BY DEF Send, Answers
  <1>2. Verdict[kind] \in Verdicts /\ None \notin Verdicts
    BY DEF Verdict, Verdicts, Kinds, None
  <1>3. /\ http' # Free /\ http'.job = j /\ http'.kind = kind /\ http'.by = by
        /\ http'.answer = answer
        /\ http' \in [by : Deliverers \cup {"worker", "cancel"}, job : Jobs, kind : Kinds,
                      answer : Answers]
    BY <1>1, Busy
  <1>4. /\ recorded' \in [Jobs -> Verdicts \cup {None}]
        /\ \A i \in Jobs : recorded[i] # None \/ i # j => recorded'[i] = recorded[i]
        /\ recorded'[j] \in {recorded[j], Verdict[kind]}
        /\ answer = "delivered" => recorded'[j] # None
    BY <1>1, <1>2 DEF Types
  <1>5. QED
    BY <1>1, <1>3, <1>4 DEF Send, threads, store

\* What settling a report does: an outcome leaves the store only with the job
\* recorded or dropped, and what comes in is a plain failure.
LEMMA SettleStep ==
    ASSUME Types, Workers, Settle
    PROVE  /\ UNCHANGED <<registry, early, turned, outcome, recorded>> /\ http' = Free
           /\ kept' \in [Jobs -> Kinds \cup {None}]
           /\ \A i \in Jobs : kept'[i] \in {kept[i], "refused", None}
           /\ \A i \in Jobs : kept'[i] = None => kept[i] = None \/ Known(i)'
           /\ dropped \subseteq dropped' /\ dropped' \subseteq Jobs
           /\ work' \in [Jobs -> {None, "run", "ended", "send", "leave", "gone"}]
           /\ \A i \in Jobs :
                 work'[i] = work[i] \/ (work'[i] \in {"leave", "gone"} /\ http.by = "worker" /\ i = http.job)
           /\ canceller' \in [Jobs -> {None, "look", "keep", "send", "done"}]
           /\ \A i \in Jobs : canceller'[i] \in {canceller[i], "done"}
           /\ queue' \in [Deliverers -> SUBSET Entries]
           /\ \A d \in Deliverers : queue'[d] \subseteq queue[d]
  <1> DEFINE j == http.job
  <1>1. /\ http \in [by : Deliverers \cup {"worker", "cancel"}, job : Jobs, kind : Kinds,
                     answer : Answers]
        /\ j \in Jobs /\ http # Free
    BY DEF Settle, Types
  <1>2. UNCHANGED <<registry, early, turned, outcome, recorded>> /\ http' = Free /\ Settled
    BY DEF Settle
  <1>3. Answer \in Answers /\ (Answer = "delivered" => recorded[j] # None)
    BY <1>1 DEF Answer, Answers, Workers
  <1>4. /\ kept' \in [Jobs -> Kinds \cup {None}]
        /\ \A i \in Jobs : kept'[i] \in {kept[i], "refused", None}
        /\ \A i \in Jobs : kept'[i] = None => kept[i] = None \/ Known(i)'
        /\ dropped \subseteq dropped' /\ dropped' \subseteq Jobs
    <2>1. CASE Answer = "unanswered" \/ Answer = "retry"
      <3>1. UNCHANGED <<kept, dropped>>
        BY <1>2, <2>1 DEF Settled, store
      <3>2. QED
        BY <3>1 DEF Types
    <2>2. CASE Answer = "refused" /\ http.kind \in {"complete", "fail"}
      <3>1. kept' = [kept EXCEPT ![j] = "refused"] /\ UNCHANGED dropped
        BY <1>2, <2>2 DEF Settled, Keep
      <3>2. QED
        BY <1>1, <3>1 DEF Types, Kinds, None
    <2>3. CASE Answer = "delivered" \/ (Answer = "refused" /\ http.kind \notin {"complete", "fail"})
      <3>1. /\ kept' = [kept EXCEPT ![j] = None]
            /\ dropped' = IF Answer = "refused" THEN dropped \cup {j} ELSE dropped
        BY <1>2, <2>3 DEF Settled
      <3>2. recorded'[j] # None \/ j \in dropped'
        BY <1>2, <1>3, <2>3, <3>1
      <3>3. QED
        BY <1>1, <3>1, <3>2 DEF Types, Known
    <2>4. QED
      BY <1>3, <2>1, <2>2, <2>3 DEF Answers
  <1>5. CASE http.by = "worker"
    <2>1. /\ \E place \in {"leave", "gone"} : work' = [work EXCEPT ![j] = place]
          /\ UNCHANGED <<canceller, queue>>
      BY <1>5 DEF Settle
    <2>2. QED
      BY <1>1, <1>2, <1>4, <1>5, <2>1 DEF Types
  <1>6. CASE http.by = "cancel"
    <2>1. canceller' = [canceller EXCEPT ![j] = "done"] /\ UNCHANGED <<work, queue>>
      BY <1>6 DEF Settle
    <2>2. QED
      BY <1>1, <1>2, <1>4, <2>1 DEF Types
  <1>7. CASE http.by \in Deliverers
    <2>1. /\ UNCHANGED <<work, canceller>>
          /\ queue' = [queue EXCEPT ![http.by] = IF Answer = "unanswered" THEN {}
                          ELSE queue[http.by] \ {<<http.job, http.kind>>}]
      BY <1>7 DEF Settle, Deliverers
    <2>2. queue' \in [Deliverers -> SUBSET Entries] /\ \A d \in Deliverers : queue'[d] \subseteq queue[d]
      BY <1>7, <2>1 DEF Types
    <2>3. QED
      BY <1>1, <1>2, <1>4, <2>1, <2>2 DEF Types
  <1>8. QED
    BY <1>1, <1>5, <1>6, <1>7

\* The entry a deliverer sends is one of a job and a kind.
LEMMA DeliversStep ==
    ASSUME Types, NEW d \in Deliverers, Delivers(d)
    PROVE  \E j \in Jobs, kind \in Kinds : <<j, kind>> \in queue[d] /\ Send(d, j, kind)
  <1>1. PICK e \in queue[d] : Send(d, e[1], e[2])
    BY DEF Delivers
  <1>2. e \in Jobs \X Kinds
    BY DEF Types, Entries
  <1>3. e = <<e[1], e[2]>> /\ e[1] \in Jobs /\ e[2] \in Kinds
    BY <1>2
  <1>4. QED
    BY <1>1, <1>3

\* The steps that send a report, taken together.
Report ==
    \/ \E j \in Jobs : WorkerSends(j) \/ CancelSends(j)
    \/ \E d \in Deliverers : Delivers(d)

\* Every report is that of a thread that is at its sending point, or an entry
\* of a snapshot.
LEMMA Reports ==
    ASSUME Types, Workers, Report
    PROVE  \E by \in Deliverers \cup {"worker", "cancel"}, j \in Jobs, kind \in Kinds :
             /\ Send(by, j, kind)
             /\ \/ by = "worker" /\ work[j] = "send" /\ kind = outcome[j]
                \/ by = "cancel" /\ canceller[j] = "send" /\ kind = "cancel"
                \/ by \in Deliverers /\ <<j, kind>> \in queue[by]
  <1>1. CASE \E j \in Jobs : WorkerSends(j)
    <2>1. PICK j \in Jobs : work[j] = "send" /\ Send("worker", j, outcome[j])
      BY <1>1 DEF WorkerSends
    <2>2. outcome[j] \in Kinds
      BY <2>1 DEF Types, Workers, None
    <2>3. QED
      BY <2>1, <2>2
  <1>2. CASE \E j \in Jobs : CancelSends(j)
    BY <1>2 DEF CancelSends, Kinds
  <1>3. CASE \E d \in Deliverers : Delivers(d)
    BY <1>3, DeliversStep
  <1>4. QED
    BY <1>1, <1>2, <1>3 DEF Report

\* The other steps of a job.
Quiet(j) ==
    JobArrives(j) \/ HandlerEnds(j) \/ WorkerTurnsAway(j) \/ WorkerKeeps(j) \/ WorkerLeaves(j)
    \/ SignalCancel(j) \/ CancelLooks(j) \/ CancelKeeps(j)

\* A snapshot holds what is kept.
LEMMA SnapshotType ==
    ASSUME Types
    PROVE  Snapshot \subseteq Entries /\ \A j \in Jobs : \A kind : <<j, kind>> \in Snapshot => kept[j] = kind
  BY DEF Snapshot, Kept, Types, Entries

\* A step of the delivery loop or of a hello changes at most the list of its
\* deliverer, to a snapshot.
LEMMA SnapshotStep ==
    ASSUME Types, HelloStarts \/ LoopStep
    PROVE  /\ UNCHANGED <<registry, early, turned, work, canceller, outcome, kept, http, recorded, dropped>>
           /\ queue' \in [Deliverers -> SUBSET Entries]
           /\ \A d \in Deliverers : queue'[d] \in {queue[d], Snapshot}
  <1>1. \/ UNCHANGED queue
        \/ \E d \in Deliverers : queue' = [queue EXCEPT ![d] = Snapshot]
    BY DEF HelloStarts, LoopStep, LoopLooks, LoopClears, LoopTakes, Deliverers
  <1>2. /\ queue' \in [Deliverers -> SUBSET Entries]
        /\ \A e \in Deliverers : queue'[e] \in {queue[e], Snapshot}
    BY <1>1, SnapshotType DEF Types
  <1>3. QED
    BY <1>2 DEF HelloStarts, LoopStep, LoopLooks, LoopClears, LoopTakes, LoopMoves, threads, store

\* Types are kept by every step.
LEMMA TypesStep == Types /\ Workers /\ [Next]_vars => Types'
  <1> SUFFICES ASSUME Types, Workers, [Next]_vars PROVE Types'
    OBVIOUS
  <1>1. ASSUME NEW j \in Jobs, Quiet(j) PROVE Types'
    <2> USE DEF Types, threads, store, delivery, Keep
    <2>1. CASE JobArrives(j)
      BY <2>1 DEF JobArrives
    <2>2. CASE HandlerEnds(j)
      BY <2>2 DEF HandlerEnds, Kinds
    <2>2a. CASE WorkerTurnsAway(j)
      BY <2>2a DEF WorkerTurnsAway, Kinds
    <2>3. CASE WorkerKeeps(j)
      BY <2>3 DEF WorkerKeeps, KeepOutcome
    <2>4. CASE WorkerLeaves(j)
      BY <2>4 DEF WorkerLeaves
    <2>5. CASE SignalCancel(j)
      BY <2>5 DEF SignalCancel
    <2>6. CASE CancelLooks(j)
      BY <2>6 DEF CancelLooks
    <2>7. CASE CancelKeeps(j)
      BY <2>7 DEF CancelKeeps, Kinds
    <2>8. QED
      BY <1>1, <2>1, <2>2, <2>2a, <2>3, <2>4, <2>5, <2>6, <2>7 DEF Quiet
  <1>2. CASE Report
    <2>1. PICK by \in Deliverers \cup {"worker", "cancel"}, j \in Jobs, kind \in Kinds : Send(by, j, kind)
      BY <1>2, Reports
    <2>2. QED
      BY <2>1, SendStep DEF Types
  <1>3. CASE Settle
    BY <1>3, SettleStep DEF Types
  <1>4. CASE HelloStarts \/ LoopStep
    BY <1>4, SnapshotStep DEF Types
  <1>5. CASE UNCHANGED vars
    BY <1>5 DEF Types, vars, threads, store, delivery
  <1>6. QED
    BY <1>1, <1>2, <1>3, <1>4, <1>5 DEF Next, WorkerStep, CancelStep, Quiet, Report

------------------------------------------------------------------------------
(* The parts of the invariant. *)

\* Where a worker is and what the registry says of it is kept by every step.
LEMMA WorkersStep == Types /\ Workers /\ [Next]_vars => Workers'
  <1> SUFFICES ASSUME Types, Workers, [Next]_vars PROVE Workers'
    OBVIOUS
  <1>1. ASSUME NEW j \in Jobs, Quiet(j) PROVE Workers'
    <2>j. http # Free => http.job \in Jobs
      BY DEF Types
    <2> USE <2>j DEF Types, Workers, threads, store, delivery
    <2>1. CASE JobArrives(j)
      <3>1. /\ \A i \in Jobs : i # j => work'[i] = work[i] /\ (i \in registry => i \in registry')
            /\ work[j] = None /\ work'[j] = "run" /\ j \in registry'
            /\ UNCHANGED <<turned, outcome, http, recorded>>
        BY <2>1 DEF JobArrives
      <3>2. QED
        BY <3>1 DEF None
    <2>2. CASE HandlerEnds(j)
      BY <2>2 DEF HandlerEnds, None
    <2>2a. CASE WorkerTurnsAway(j)
      BY <2>2a DEF WorkerTurnsAway, None
    <2>3. CASE WorkerKeeps(j)
      BY <2>3 DEF WorkerKeeps, KeepOutcome, None
    <2>4. CASE WorkerLeaves(j)
      BY <2>4 DEF WorkerLeaves, None
    <2>5. CASE SignalCancel(j)
      BY <2>5 DEF SignalCancel
    <2>6. CASE CancelLooks(j) \/ CancelKeeps(j)
      BY <2>6 DEF CancelLooks, CancelKeeps
    <2>7. QED
      BY <1>1, <2>1, <2>2, <2>2a, <2>3, <2>4, <2>5, <2>6 DEF Quiet
  <1>2. CASE Report
    <2>1. PICK by \in Deliverers \cup {"worker", "cancel"}, j \in Jobs, kind \in Kinds :
             Send(by, j, kind) /\ (by = "worker" => work[j] = "send")
      BY <1>2, Reports DEF Deliverers
    <2>2. QED
      BY <2>1, SendStep DEF Workers
  <1>3. CASE Settle
    <2>1. \A i \in Jobs : work'[i] = work[i] \/ (work'[i] \in {"leave", "gone"} /\ work[i] = "send")
      <3>1. ASSUME http.by = "worker" PROVE work[http.job] = "send"
        BY <1>3, <3>1 DEF Workers, Settle, Types, Free
      <3>2. QED
        BY <1>3, <3>1, SettleStep
    <2>2. QED
      BY <1>3, <2>1, SettleStep DEF Workers, None
  <1>4. CASE HelloStarts \/ LoopStep
    BY <1>4, SnapshotStep DEF Workers
  <1>5. CASE UNCHANGED vars
    BY <1>5 DEF Workers, vars, threads, store, delivery
  <1>6. QED
    BY <1>1, <1>2, <1>3, <1>4, <1>5 DEF Next, WorkerStep, CancelStep, Quiet, Report

\* What is kept for delivery agrees with its worker after every step.
LEMMA StoredStep == Types /\ Workers /\ Stored /\ [Next]_vars => Stored'
  <1> SUFFICES ASSUME Types, Workers, Stored, [Next]_vars PROVE Stored'
    OBVIOUS
  <1>1. ASSUME NEW j \in Jobs, Quiet(j) PROVE Stored'
    <2> USE DEF Types, Workers, Stored, Kept, Known, Keep, threads, store, delivery
    <2>1. CASE JobArrives(j)
      BY <2>1 DEF JobArrives
    <2>2. CASE HandlerEnds(j)
      BY <2>2 DEF HandlerEnds
    <2>2a. CASE WorkerTurnsAway(j)
      BY <2>2a DEF WorkerTurnsAway
    <2>3. CASE WorkerKeeps(j)
      BY <2>3 DEF WorkerKeeps, KeepOutcome, None
    <2>4. CASE WorkerLeaves(j)
      BY <2>4 DEF WorkerLeaves
    <2>5. CASE SignalCancel(j)
      BY <2>5 DEF SignalCancel
    <2>6. CASE CancelLooks(j)
      BY <2>6 DEF CancelLooks
    <2>7. CASE CancelKeeps(j)
      BY <2>7 DEF CancelKeeps, None
    <2>8. QED
      BY <1>1, <2>1, <2>2, <2>2a, <2>3, <2>4, <2>5, <2>6, <2>7 DEF Quiet
  <1>2. CASE Report
    <2>1. PICK by \in Deliverers \cup {"worker", "cancel"}, j \in Jobs, kind \in Kinds : Send(by, j, kind)
      BY <1>2, Reports
    <2>2. QED
      BY <2>1, SendStep DEF Stored, Kept, Known
  <1>3. CASE Settle
    <2>1. ASSUME NEW i \in Jobs, work'[i] \in {"send", "leave", "gone"}
          PROVE  kept'[i] # None \/ Known(i)'
      <3>1. work[i] \in {"send", "leave", "gone"}
        <4>1. CASE work'[i] = work[i]
          BY <2>1, <4>1
        <4>2. CASE http.by = "worker" /\ i = http.job
          BY <1>3, <4>2 DEF Workers, Settle
        <4>3. QED
          BY <1>3, <4>1, <4>2, SettleStep
      <3>3. i \in Kept \/ Known(i)
        BY <3>1 DEF Stored
      <3>2. QED
        BY <1>3, <3>3, SettleStep DEF Kept, Known
    <2>2. QED
      BY <2>1 DEF Stored, Kept
  <1>4. CASE HelloStarts \/ LoopStep
    BY <1>4, SnapshotStep DEF Stored, Kept, Known
  <1>5. CASE UNCHANGED vars
    BY <1>5 DEF Stored, Kept, Known, vars, threads, store, delivery
  <1>6. QED
    BY <1>1, <1>2, <1>3, <1>4, <1>5 DEF Next, WorkerStep, CancelStep, Quiet, Report

\* An end that is known stays known, and a job that was early stays early.
LEMMA KnownStays ==
    ASSUME Types, Workers, [Next]_vars
    PROVE  /\ \A j \in Jobs : Known(j) => Known(j)'
           /\ \A j \in Jobs : Own(j)' => Own(j)
           /\ \A j \in Jobs : outcome[j] # None => outcome'[j] = outcome[j]
  <1>1. ASSUME NEW j \in Jobs, Quiet(j)
        PROVE  /\ UNCHANGED <<recorded, dropped>> /\ early \subseteq early' /\ turned \subseteq turned'
               /\ \A i \in Jobs : outcome[i] # None => outcome'[i] = outcome[i]
    <2>1. UNCHANGED <<recorded, dropped>> /\ early \subseteq early' /\ turned \subseteq turned'
      BY <1>1 DEF Quiet, JobArrives, HandlerEnds, WorkerTurnsAway, WorkerKeeps, WorkerLeaves, SignalCancel,
                  CancelLooks, CancelKeeps
    <2>2. \A i \in Jobs : outcome[i] # None => outcome'[i] = outcome[i]
      <3>1. CASE HandlerEnds(j) \/ WorkerTurnsAway(j)
        BY <3>1 DEF HandlerEnds, WorkerTurnsAway, Workers, Types
      <3>2. CASE ~HandlerEnds(j) /\ ~WorkerTurnsAway(j)
        BY <1>1, <3>2 DEF Quiet, JobArrives, WorkerKeeps, WorkerLeaves, SignalCancel,
                          CancelLooks, CancelKeeps, threads
      <3>3. QED
        BY <3>1, <3>2
    <2>3. QED
      BY <2>1, <2>2
  <1>2. CASE Report
    <2>1. PICK by \in Deliverers \cup {"worker", "cancel"}, j \in Jobs, kind \in Kinds : Send(by, j, kind)
      BY <1>2, Reports
    <2>2. QED
      BY <2>1, SendStep DEF Known, Own
  <1>3. CASE Settle
    BY <1>3, SettleStep DEF Known, Own
  <1>4. CASE HelloStarts \/ LoopStep
    BY <1>4, SnapshotStep DEF Known, Own
  <1>5. CASE UNCHANGED vars
    BY <1>5 DEF Known, Own, vars, threads
  <1>6. QED
    BY <1>1, <1>2, <1>3, <1>4, <1>5 DEF Next, WorkerStep, CancelStep, Quiet, Report, Known, Own

\* A cancelled report of a job that reports its own cancel is its worker's:
\* the cancel command of a registered job does nothing more, and for a job whose
\* worker has gone it finds the outcome in the store or the end known.
LEMMA CancelsStep == Types /\ Workers /\ Stored /\ Cancels /\ [Next]_vars => Cancels'
  <1> SUFFICES ASSUME Types, Workers, Stored, Cancels, [Next]_vars, NEW i \in Jobs, Own(i)'
               PROVE  /\ canceller'[i] = "look" => work'[i] = "gone"
                      /\ canceller'[i] \in {"keep", "send"} => Known(i)'
                      /\ kept'[i] = "cancel" => Genuine(i)'
                      /\ http' # Free /\ http'.job = i /\ http'.kind = "cancel" => Genuine(i)'
                      /\ \A d \in Deliverers : <<i, "cancel">> \in queue'[d] => Genuine(i)'
                      /\ recorded'[i] = "canceled" => outcome'[i] = "cancel" \/ i \in dropped'
    BY DEF Cancels
  <1>o. /\ Own(i) /\ (Known(i) => Known(i)') /\ (Genuine(i) => Genuine(i)')
        /\ outcome[i] = "cancel" => outcome'[i] = "cancel"
    BY KnownStays DEF Genuine, None
  <1>c. /\ canceller[i] = "look" => work[i] = "gone"
        /\ canceller[i] \in {"keep", "send"} => Known(i)
        /\ kept[i] = "cancel" => Genuine(i)
        /\ http # Free /\ http.job = i /\ http.kind = "cancel" => Genuine(i)
        /\ \A d \in Deliverers : <<i, "cancel">> \in queue[d] => Genuine(i)
        /\ recorded[i] = "canceled" => outcome[i] = "cancel" \/ i \in dropped
    BY <1>o DEF Cancels
  <1>1. ASSUME NEW j \in Jobs, Quiet(j)
        PROVE  /\ canceller'[i] = "look" => work'[i] = "gone"
               /\ canceller'[i] \in {"keep", "send"} => Known(i)'
               /\ kept'[i] = "cancel" => Genuine(i)'
    <2>1. CASE JobArrives(j)
      BY <2>1, <1>o, <1>c DEF JobArrives, Types, store, None
    <2>2. CASE HandlerEnds(j)
      BY <2>2, <1>o, <1>c DEF HandlerEnds, Types, store
    <2>2a. CASE WorkerTurnsAway(j)
      BY <2>2a, <1>o, <1>c DEF WorkerTurnsAway, Types, store
    <2>3. CASE WorkerKeeps(j)
      <3>1. kept' = [kept EXCEPT ![j] = outcome[j]] /\ UNCHANGED <<canceller, outcome>>
        BY <2>3 DEF WorkerKeeps, KeepOutcome, Keep
      <3>2. work[i] # "gone" \/ work'[i] = "gone"
        BY <2>3 DEF WorkerKeeps, KeepOutcome, Types
      <3>3. i = j => kept'[i] = outcome'[i]
        BY <3>1 DEF Types
      <3>4. i # j => kept'[i] = kept[i]
        BY <3>1 DEF Types
      <3>5. work[i] = "gone" => work'[i] = "gone"
        BY <3>2
      <3>6. QED
        BY <3>1, <3>3, <3>4, <3>5, <1>o, <1>c DEF Genuine
    <2>4. CASE WorkerLeaves(j)
      BY <2>4, <1>o, <1>c DEF WorkerLeaves, Types, store
    <2>5. CASE SignalCancel(j)
      <3>1. CASE i # j
        <4>1. canceller'[i] = canceller[i] /\ UNCHANGED <<work, kept>>
          BY <2>5, <3>1 DEF SignalCancel, Types, store
        <4>2. QED
          BY <4>1, <1>o, <1>c
      <3>2. CASE i = j
        <4>1. UNCHANGED <<work, kept>> /\ canceller'[i] \in {"done", "look"}
          BY <2>5, <3>2 DEF SignalCancel, Types, store
        <4>2. ASSUME canceller'[i] = "look" PROVE work'[i] = "gone"
          <5>1. i \notin registry
            BY <2>5, <3>2, <4>2, <1>o DEF SignalCancel, Types, Own
          <5>2. work[i] # None
            BY <2>5, <3>2 DEF SignalCancel, Own
          <5>3. QED
            BY <4>1, <5>1, <5>2, <1>o DEF Workers, Types, Own
        <4>3. QED
          BY <4>1, <4>2, <1>o, <1>c
      <3>3. QED
        BY <3>1, <3>2
    <2>6. CASE CancelLooks(j)
      <3>1. UNCHANGED <<work, kept>>
        BY <2>6 DEF CancelLooks, store
      <3>2. CASE i # j
        BY <2>6, <3>1, <3>2, <1>o, <1>c DEF CancelLooks, Types
      <3>3. CASE i = j
        <4>1. work[i] = "gone" /\ canceller'[i] \in {"keep", "done"}
              /\ (canceller'[i] = "keep" => kept[i] = None)
          BY <2>6, <3>3, <1>c DEF CancelLooks, ReportsCancel, Types
        <4>2. kept[i] = None => Known(i)
          BY <4>1 DEF Stored, Kept
        <4>3. QED
          BY <3>1, <4>1, <4>2, <1>o, <1>c
      <3>4. QED
        BY <3>2, <3>3
    <2>7. CASE CancelKeeps(j)
      <3>1. /\ canceller[j] = "keep" /\ canceller' = [canceller EXCEPT ![j] = "send"]
            /\ kept' = [kept EXCEPT ![j] = "cancel"] /\ UNCHANGED work
        BY <2>7 DEF CancelKeeps, Keep
      <3>2. i = j => Known(i)
        BY <3>1, <1>c
      <3>3. i # j => kept'[i] = kept[i] /\ canceller'[i] = canceller[i]
        BY <3>1 DEF Types
      <3>4. QED
        BY <3>1, <3>2, <3>3, <1>o, <1>c DEF Genuine, Types
    <2>8. QED
      BY <1>1, <2>1, <2>2, <2>2a, <2>3, <2>4, <2>5, <2>6, <2>7 DEF Quiet
  <1>2. ASSUME NEW j \in Jobs, Quiet(j)
        PROVE  UNCHANGED <<http, queue, recorded, dropped>>
    BY <1>2 DEF Quiet, JobArrives, HandlerEnds, WorkerTurnsAway, WorkerKeeps, WorkerLeaves, SignalCancel,
                CancelLooks, CancelKeeps, delivery
  <1>3. CASE \E j \in Jobs : Quiet(j)
    BY <1>1, <1>2, <1>3, <1>o, <1>c
  <1>4. CASE Report
    <2>1. PICK by \in Deliverers \cup {"worker", "cancel"}, j \in Jobs, kind \in Kinds :
             /\ Send(by, j, kind)
             /\ \/ by = "worker" /\ work[j] = "send" /\ kind = outcome[j]
                \/ by = "cancel" /\ canceller[j] = "send" /\ kind = "cancel"
                \/ by \in Deliverers /\ <<j, kind>> \in queue[by]
      BY <1>4, Reports
    <2>2. ASSUME j = i, kind = "cancel" PROVE Genuine(i)
      BY <2>1, <2>2, <1>c DEF Genuine
    <2>3. kind # "cancel" => Verdict[kind] # "canceled"
      BY DEF Verdict, Kinds
    <2>4. ASSUME recorded'[i] = "canceled" PROVE outcome'[i] = "cancel" \/ i \in dropped'
      <3>1. CASE recorded'[i] = recorded[i]
        BY <2>1, <2>4, <3>1, <1>o, <1>c, SendStep
      <3>2. CASE recorded'[i] # recorded[i]
        <4>1. i = j /\ recorded[i] = None /\ recorded'[i] = Verdict[kind]
          BY <2>1, <3>2, SendStep
        <4>2. Genuine(i)
          BY <2>2, <2>3, <2>4, <4>1
        <4>3. QED
          BY <2>1, <4>1, <4>2, SendStep DEF Genuine, Known
      <3>3. QED
        BY <3>1, <3>2
    <2>5. http'.job = i /\ http'.kind = "cancel" => Genuine(i)
      BY <2>1, <2>2, SendStep
    <2>6. UNCHANGED <<work, canceller, kept, queue>>
      BY <2>1, SendStep
    <2>7. QED
      BY <2>4, <2>5, <2>6, <1>o, <1>c
  <1>5. CASE Settle
    <2>1. /\ UNCHANGED <<outcome, recorded>> /\ http' = Free
          /\ kept'[i] \in {kept[i], "refused", None}
          /\ canceller'[i] \in {canceller[i], "done"}
          /\ \A d \in Deliverers : queue'[d] \subseteq queue[d]
          /\ dropped \subseteq dropped'
      BY <1>5, SettleStep
    <2>2. work[i] = "gone" => work'[i] = "gone"
      BY <1>5, SettleStep DEF Workers, Settle
    <2>3. QED
      BY <2>1, <2>2, <1>o, <1>c DEF None
  <1>6. CASE HelloStarts \/ LoopStep
    <2>1. /\ UNCHANGED <<registry, early, turned, work, canceller, outcome, kept, http, recorded, dropped>>
          /\ \A d \in Deliverers : queue'[d] \in {queue[d], Snapshot}
      BY <1>6, SnapshotStep
    <2>2. <<i, "cancel">> \in Snapshot => kept[i] = "cancel"
      BY SnapshotType
    <2>3. QED
      BY <2>1, <2>2, <1>o, <1>c
  <1>7. CASE UNCHANGED vars
    BY <1>7, <1>o, <1>c DEF vars, threads, store, delivery
  <1>8. QED
    BY <1>3, <1>4, <1>5, <1>6, <1>7 DEF Next, WorkerStep, CancelStep, Quiet, Report

------------------------------------------------------------------------------
(* The theorems. *)

\* The inductive invariant holds in every reachable state.
LEMMA IInvAlways == Spec => []IInv
  <1>1. IInv /\ [Next]_vars => IInv'
    BY TypesStep, WorkersStep, StoredStep, CancelsStep DEF IInv
  <1>2. QED
    BY InitIInv, <1>1, PTL DEF Spec

\* Between the start of a job and the server's verdict there is no moment in
\* which the agent would leave the job out of its list (_running_job_ids,
\* _deliver_terminal, _deliver_kept_outcome).
THEOREM ListedAlways == Spec => []Listed
  <1>1. IInv => Listed
    <2> SUFFICES ASSUME IInv, NEW j \in Jobs, work[j] # None, ~Known(j),
                        j \in turned => work[j] # "ended"
                 PROVE  j \in registry \cup Kept
      BY DEF Listed, Known
    <2>1. CASE work[j] \in {"send", "leave", "gone"}
      BY <2>1 DEF IInv, Stored
    <2>2. CASE work[j] \in {"run", "ended"}
      BY <2>2 DEF IInv, Workers
    <2>3. QED
      BY <2>1, <2>2 DEF IInv, Types
  <1>2. QED
    BY IInvAlways, <1>1, PTL

\* A job that reports its cancel itself is never recorded as cancelled with
\* another outcome of its handler, whatever threads, retries and snapshots
\* carry its reports (_signal_cancel, _handle_cancel).
THEOREM RealOutcomeAlways == Spec => []RealOutcome
  <1>1. IInv => RealOutcome
    BY OutcomeAssumption DEF IInv, Cancels, RealOutcome, Own
  <1>2. QED
    BY IInvAlways, <1>1, PTL
=============================================================================
