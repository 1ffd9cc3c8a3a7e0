--------------------------- MODULE AgentOutcomes ---------------------------
(***************************************************************************)
(* Inside the agent process: a job's worker, the thread of a cancel        *)
(* command, the session thread before a hello and the delivery thread      *)
(* share the registry of running jobs and the store of outcomes the server *)
(* has not answered.  Reports go out one at a time under the HTTP lock;    *)
(* the store is written outside of it.                                     *)
(*                                                                         *)
(* The server is reduced to the verdict it has recorded per job: the first *)
(* report it takes wins, later ones are no-ops.                            *)
(***************************************************************************)
EXTENDS Integers

CONSTANTS
    Jobs,            \* job ids, in the order pending() lists them
    SelfCancelling,  \* jobs of SELF_CANCELLING_JOB_KINDS
    Cancelled,       \* jobs the server sends a cancel for
    Colliding,       \* jobs that may find the process claimed for an upgrade
    RetryLimit,      \* OUTCOME_RETRY_LIMIT_SECONDS, as RETRY answers taken
    MaxFaults        \* answers lost, retried or refused

ASSUME OutcomeAssumption ==
    /\ Jobs \subseteq Nat /\ SelfCancelling \subseteq Jobs
    /\ Cancelled \subseteq Jobs /\ Colliding \subseteq Jobs
    /\ RetryLimit \in Nat \ {0} /\ MaxFaults \in Nat

VARIABLES
    registry,   \* _cancel_events: the registered jobs
    event,      \* jobs whose cancel event is set
    pendingCancels,
    work,       \* per job: stage of its worker
    canceller,  \* per job: stage of the cancel command's thread
    outcome,    \* per job: what its handler came to
    kept,       \* KeptOutcomes: kind per job, "none" without one
    retries,    \* per job: RETRY answers since retrying_since was set
    http,       \* the report under _http_lock
    queue,      \* per deliverer: what is left to send of its snapshot of pending()
    wake,       \* _outcome_wake
    loop,       \* the delivery thread's place in its loop, None before it is started
    recorded,   \* server: verdict per job
    early,      \* history: jobs whose cancel was taken before they arrived
    turned,     \* jobs whose worker was turned away by an upgrade's claim
    dropped,    \* jobs whose outcome the server would never take
    faults

store == <<kept, retries>>
threads == <<work, canceller, outcome>>
delivery == <<http, queue, wake, loop>>
vars == <<registry, event, pendingCancels, early, turned, threads, store, delivery, recorded, dropped, faults>>

None == "none"
Kinds == {"complete", "fail", "cancel", "refused"}
Deliverers == {"hello", "loop"}
Free == [by |-> None, job |-> 0, kind |-> None, answer |-> None]

Init ==
    /\ registry = {} /\ event = {} /\ pendingCancels = {} /\ early = {} /\ turned = {}
    /\ work = [j \in Jobs |-> None] /\ canceller = [j \in Jobs |-> None]
    /\ outcome = [j \in Jobs |-> None]
    /\ kept = [j \in Jobs |-> None] /\ retries = [j \in Jobs |-> 0]
    /\ http = Free /\ queue = [d \in Deliverers |-> {}]
    /\ wake = FALSE /\ loop = None
    /\ recorded = [j \in Jobs |-> None] /\ dropped = {} /\ faults = 0

Kept == {j \in Jobs : kept[j] # None}
Keep(j, kind) ==
    /\ kept' = [kept EXCEPT ![j] = kind]
    /\ retries' = [retries EXCEPT ![j] = 0]

-----------------------------------------------------------------------------
\* The worker of a job.

\* The session loop registers a job before its worker exists, with the event
\* already set when its cancel came first.
JobArrives(j) ==
    /\ work[j] = None
    /\ registry' = registry \cup {j}
    /\ event' = IF j \in pendingCancels THEN event \cup {j} ELSE event
    /\ pendingCancels' = pendingCancels \ {j}
    /\ work' = [work EXCEPT ![j] = "run"]
    /\ UNCHANGED <<early, turned, canceller, outcome, store, delivery, recorded, dropped, faults>>

\* The handler ends; only a worker whose event is set ends cancelled.
HandlerEnds(j) ==
    /\ work[j] = "run"
    /\ \E kind \in {"complete", "fail", "cancel"} :
          /\ kind = "cancel" => j \in event
          /\ outcome' = [outcome EXCEPT ![j] = kind]
    /\ work' = [work EXCEPT ![j] = "ended"]
    /\ UNCHANGED <<registry, event, pendingCancels, early, turned, canceller, store, delivery,
                   recorded, dropped, faults>>

\* Under an upgrade's claim the worker leaves the registry first, and fails the
\* job it has not started.
WorkerTurnsAway(j) ==
    /\ work[j] = "run" /\ j \in Colliding
    /\ registry' = registry \ {j}
    /\ event' = event \ {j} /\ pendingCancels' = pendingCancels \ {j}
    /\ turned' = turned \cup {j}
    /\ outcome' = [outcome EXCEPT ![j] = "fail"]
    /\ work' = [work EXCEPT ![j] = "ended"]
    /\ UNCHANGED <<early, canceller, store, delivery, recorded, dropped, faults>>

\* _deliver_terminal keeps the outcome before it is sent.
\* Mutant: the outcome is sent without being kept.
KeepOutcomeNot(j) == work' = [work EXCEPT ![j] = "send"] /\ UNCHANGED store
KeepOutcome(j) == work' = [work EXCEPT ![j] = "send"] /\ Keep(j, outcome[j])

WorkerKeeps(j) ==
    /\ work[j] = "ended" /\ KeepOutcome(j)
    /\ UNCHANGED <<registry, event, pendingCancels, early, turned, canceller, outcome, delivery,
                   recorded, dropped, faults>>

\* The finally of _handle_command.
WorkerLeaves(j) ==
    /\ work[j] = "leave"
    /\ registry' = registry \ {j}
    /\ event' = event \ {j} /\ pendingCancels' = pendingCancels \ {j}
    /\ work' = [work EXCEPT ![j] = "gone"]
    /\ UNCHANGED <<early, turned, canceller, outcome, store, delivery, recorded, dropped, faults>>

-----------------------------------------------------------------------------
\* The thread of a cancel command.

\* _signal_cancel: a registered worker's event is set and, when it reports its
\* cancel itself, nothing is left to do; a job that is not registered is
\* remembered.  The server sends one cancel per job.
\* Mutant: a worker that reports its own cancel is not signalled.
SignalCancelSilently(j) ==
    /\ j \in Cancelled /\ canceller[j] = None /\ recorded[j] = None
    /\ pendingCancels' = pendingCancels \cup {j}
    /\ canceller' = [canceller EXCEPT ![j] =
           IF j \in registry \cap SelfCancelling THEN "done" ELSE "look"]
    /\ early' = IF work[j] = None THEN early \cup {j} ELSE early
    /\ UNCHANGED <<registry, event, turned, work, outcome, store, delivery, recorded, dropped, faults>>
SignalCancel(j) ==
    /\ j \in Cancelled /\ canceller[j] = None /\ recorded[j] = None
    /\ IF j \in registry
       THEN event' = event \cup {j} /\ UNCHANGED pendingCancels
       ELSE pendingCancels' = pendingCancels \cup {j} /\ UNCHANGED event
    /\ canceller' = [canceller EXCEPT ![j] =
           IF j \in registry \cap SelfCancelling THEN "done" ELSE "look"]
    /\ early' = IF work[j] = None THEN early \cup {j} ELSE early
    /\ UNCHANGED <<registry, turned, work, outcome, store, delivery, recorded, dropped, faults>>

\* A job whose outcome is kept has finished and is not reported cancelled.
\* Mutant: the cancel is reported whatever is kept.
ReportsCancelAlways(j) == TRUE
ReportsCancel(j) == kept[j] = None

CancelLooks(j) ==
    /\ canceller[j] = "look"
    /\ canceller' = [canceller EXCEPT ![j] = IF ReportsCancel(j) THEN "keep" ELSE "done"]
    /\ UNCHANGED <<registry, event, pendingCancels, early, turned, work, outcome, store, delivery,
                   recorded, dropped, faults>>

CancelKeeps(j) ==
    /\ canceller[j] = "keep" /\ Keep(j, "cancel")
    /\ canceller' = [canceller EXCEPT ![j] = "send"]
    /\ UNCHANGED <<registry, event, pendingCancels, early, turned, work, outcome, delivery,
                   recorded, dropped, faults>>

-----------------------------------------------------------------------------
\* Reports.

Verdict == [complete |-> "completed", fail |-> "failed", cancel |-> "canceled",
            refused |-> "failed"]

\* One report under the lock.  The server takes it (a job that is final answers
\* 409, which settles it too), or an answer is lost after or before that, or it
\* or a proxy answers with an error that may pass, or one refuses the report.
Send(by, j, kind) ==
    /\ http = Free
    /\ \E answer \in {"delivered", "unanswered", "retry", "refused"}, taken \in BOOLEAN :
          /\ answer = "delivered" => taken
          /\ answer = "refused" => ~taken
          /\ IF answer = "delivered" THEN UNCHANGED faults
             ELSE faults < MaxFaults /\ faults' = faults + 1
          /\ recorded' = [recorded EXCEPT ![j] =
                 IF taken /\ @ = None THEN Verdict[kind] ELSE @]
          /\ http' = [by |-> by, job |-> j, kind |-> kind, answer |-> answer]
    /\ UNCHANGED <<registry, event, pendingCancels, early, turned, threads, store, queue, wake, loop, dropped>>

WorkerSends(j) == work[j] = "send" /\ Send("worker", j, outcome[j])
CancelSends(j) == canceller[j] = "send" /\ Send("cancel", j, "cancel")
\* The snapshot is sent in the order of the job ids.
Delivers(d) ==
    \E e \in queue[d] : (\A f \in queue[d] : e[1] <= f[1]) /\ Send(d, e[1], e[2])

\* What the answer comes to: an error that lasted too long is a refusal.
Answer ==
    IF http.answer = "retry" /\ retries[http.job] >= RetryLimit THEN "refused" ELSE http.answer

\* _deliver_kept_outcome settles the store by the answer; the return value is
\* DELIVERED or the answer.
Settled ==
    LET j == http.job
    IN  CASE Answer = "unanswered" -> UNCHANGED <<store, dropped>>
          [] Answer = "retry" ->
                /\ retries' = [retries EXCEPT ![j] = IF kept[j] # None THEN @ + 1 ELSE @]
                /\ UNCHANGED <<kept, dropped>>
          [] Answer = "refused" /\ http.kind \in {"complete", "fail"} ->
                Keep(j, "refused") /\ UNCHANGED dropped
          [] OTHER ->
                /\ kept' = [kept EXCEPT ![j] = None] /\ retries' = [retries EXCEPT ![j] = 0]
                /\ dropped' = IF Answer = "refused" THEN dropped \cup {j} ELSE dropped

Delivered == Answer = "delivered" \/ (Answer = "refused" /\ http.kind \notin {"complete", "fail"})

\* on_outcome_pending after a report of a worker or a canceller that did not
\* settle: the delivery thread is started, or woken.
\* Mutant: the delivery thread is left to the next hello.
WakesNot == FALSE
Wakes == ~Delivered

\* _wake_outcome_delivery, when b: a thread that was never started begins.
Woken(b) ==
    /\ wake' = (wake \/ b)
    /\ loop' = IF b /\ loop = None THEN "look" ELSE loop

\* The report is settled and its thread goes on.  A deliverer stops when the
\* server does not answer at all; before a hello it wakes the delivery thread
\* when something is left (the thread itself looks at the store again).
Settle ==
    /\ http # Free /\ http' = Free /\ Settled
    /\ CASE http.by = "worker" ->
              /\ work' = [work EXCEPT ![http.job] = IF http.job \in turned THEN "gone" ELSE "leave"]
              /\ Woken(Wakes)
              /\ UNCHANGED <<canceller, queue>>
         [] http.by = "cancel" ->
              /\ canceller' = [canceller EXCEPT ![http.job] = "done"]
              /\ Woken(Wakes)
              /\ UNCHANGED <<work, queue>>
         [] OTHER ->
              LET rest == IF Answer = "unanswered" THEN {}
                          ELSE queue[http.by] \ {<<http.job, http.kind>>}
                  more == http.by = "hello" /\ rest = {} /\ \E j \in Jobs : kept'[j] # None
              IN  /\ queue' = [queue EXCEPT ![http.by] = rest]
                  /\ Woken(more)
                  /\ UNCHANGED <<work, canceller>>
    /\ UNCHANGED <<registry, event, pendingCancels, early, turned, outcome, recorded, faults>>

Snapshot == {<<j, kept[j]>> : j \in Kept}

\* _prepare_hello, whenever the session reconnects.
HelloStarts ==
    /\ queue["hello"] = {} /\ Kept # {}
    /\ queue' = [queue EXCEPT !["hello"] = Snapshot]
    /\ UNCHANGED <<registry, event, pendingCancels, early, turned, threads, store, http, wake, loop,
                   recorded, dropped, faults>>

\* _outcome_delivery_loop: a look at the store, a wait for a wake when nothing
\* is kept, the clearing of the wake, the pause and the snapshot.
LoopMoves(from, to) ==
    /\ loop = from /\ queue["loop"] = {} /\ loop' = to
    /\ UNCHANGED <<registry, event, pendingCancels, early, turned, threads, store, http,
                   recorded, dropped, faults>>

LoopLooks == LoopMoves("look", IF Kept = {} THEN "wait" ELSE "clear") /\ UNCHANGED <<wake, queue>>
LoopClears ==
    /\ LoopMoves("clear", "take") \/ (wake /\ LoopMoves("wait", "take"))
    /\ wake' = FALSE /\ UNCHANGED queue
LoopTakes ==
    /\ LoopMoves("take", "look") /\ UNCHANGED wake
    /\ queue' = [queue EXCEPT !["loop"] = Snapshot]

LoopStep == LoopLooks \/ LoopClears \/ LoopTakes

-----------------------------------------------------------------------------
WorkerStep(j) ==
    \/ JobArrives(j) \/ HandlerEnds(j) \/ WorkerTurnsAway(j)
    \/ WorkerKeeps(j) \/ WorkerSends(j) \/ WorkerLeaves(j)
CancelStep(j) == SignalCancel(j) \/ CancelLooks(j) \/ CancelKeeps(j) \/ CancelSends(j)

Next ==
    \/ \E j \in Jobs : WorkerStep(j) \/ CancelStep(j)
    \/ \E d \in Deliverers : Delivers(d)
    \/ Settle \/ HelloStarts \/ LoopStep

Spec == Init /\ [][Next]_vars

\* Threads that can go on do, and one that waits for the lock gets it; a
\* handler ends once its event is set, nothing is assumed of one whose event is
\* not.  No hello is assumed: the session may stay down.
Fairness ==
    /\ \A j \in Jobs :
          /\ WF_vars(WorkerKeeps(j) \/ WorkerLeaves(j)) /\ SF_vars(WorkerSends(j))
          /\ WF_vars(j \in event /\ HandlerEnds(j))
          /\ WF_vars(CancelLooks(j) \/ CancelKeeps(j)) /\ SF_vars(CancelSends(j))
    /\ WF_vars(Settle) /\ WF_vars(LoopStep) /\ SF_vars(Delivers("loop"))
FairSpec == Spec /\ Fairness

-----------------------------------------------------------------------------
\* Every variable holds a value of its kind; a report under the lock is a
\* thread's, which is at the point of sending it.
TypeOK ==
    /\ registry \subseteq Jobs /\ event \subseteq registry /\ pendingCancels \subseteq Jobs
    /\ work \in [Jobs -> {None, "run", "ended", "send", "leave", "gone"}]
    /\ canceller \in [Jobs -> {None, "look", "keep", "send", "done"}]
    /\ outcome \in [Jobs -> Kinds \cup {None}] /\ kept \in [Jobs -> Kinds \cup {None}]
    /\ retries \in [Jobs -> Nat]
    /\ http = Free \/ (http.job \in Jobs /\ http.kind \in Kinds)
    /\ http.by = "worker" => work[http.job] = "send"
    /\ http.by = "cancel" => canceller[http.job] = "send"
    /\ wake \in BOOLEAN /\ loop \in {None, "look", "wait", "clear", "take"}
    /\ recorded \in [Jobs -> {None, "completed", "failed", "canceled"}]
    /\ turned \subseteq Jobs /\ dropped \subseteq Jobs /\ faults \in 0..MaxFaults

\* A job that was started and whose verdict the server does not have, and one
\* that was turned away and whose failure is kept, is in the list a hello or a
\* heartbeat would send now (_running_job_ids), so the server does not run it
\* again: no order of keeping, sending, settling and leaving, by whichever
\* thread, opens a gap.
Listed ==
    \A j \in Jobs :
        /\ work[j] # None /\ recorded[j] = None /\ j \notin dropped
        /\ j \in turned => work[j] # "ended"
        => j \in registry \cup Kept

\* A job that reports its cancel itself is recorded as cancelled only when its
\* handler ended that way, unless the cancel came before the job, the job was
\* turned away or the server refused its outcome for good: a cancel that
\* crosses an outcome does not take its place.
RealOutcome ==
    \A j \in SelfCancelling \ (early \cup turned \cup dropped) :
        recorded[j] = "canceled" => outcome[j] \in {None, "cancel"}

\* The outcome of a finished job that is kept for redelivery is not replaced by
\* a cancelled report.
KeptNotReplaced ==
    [][\A j \in Jobs : kept[j] \in {"complete", "fail"} => kept'[j] # "cancel"]_vars

\* What a handler came to reaches the server, or the server has refused even
\* the plain failure, without the session's help.
OutcomeArrives ==
    \A j \in Jobs : outcome[j] # None ~> recorded[j] # None \/ j \in dropped

\* A job whose cancel was taken ends at the server, whatever else the handler
\* would have waited for: the cancel is not lost between two threads.
CancelEnds ==
    \A j \in Jobs : canceller[j] # None ~> recorded[j] # None \/ j \in dropped
=============================================================================
