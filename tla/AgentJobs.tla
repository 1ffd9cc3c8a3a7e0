------------------------------ MODULE AgentJobs ------------------------------
(***************************************************************************)
(* One managed agent and the jobs the server keeps for it: the rows of     *)
(* agent_jobs and of the operations they carry, the agent's WebSocket      *)
(* sessions, the dispatcher, the reaper's thread, the cancel routes, and   *)
(* the agent program with its workers and the outcomes it keeps until the  *)
(* server has taken them.                                                  *)
(*                                                                         *)
(* One action is one transaction of the server or one step of one of the   *)
(* agent's threads.  Times are the two windows the code compares with:     *)
(* age[j] = 1 is STALE_AGENT_JOB_REQUEUE_AFTER, 2 is AGENT_JOB_REAP_AFTER. *)
(* A frame is not on the wire for as long as the first window, a live      *)
(* session's heartbeats keep the listed jobs young, and a hello is read    *)
(* before the agent has opened its next socket.                            *)
(***************************************************************************)
EXTENDS Integers, Sequences, FiniteSets

CONSTANTS
    Jobs,            \* agent_jobs rows
    Kind,            \* Kind[j]: "backup", "maintenance" or "request"
    Prunes,          \* the maintenance jobs that prune
    SelfCancelling,  \* kinds whose worker reports its own cancel
    MaxQueued,       \* jobs the server takes, of whichever kinds
    MaxAttempts,     \* claims per job
    MaxSessions,     \* sessions the agent opens
    MaxFaults,       \* faults of the instance
    MaxFrames,       \* frames on a wire at once
    Env              \* what the environment does in this instance

Kinds == {"backup", "maintenance", "request"}
Faults == {"drop", "agent_crash", "server_crash", "answer_lost", "refused", "late_send_error"}
Inputs == {"cancel", "admin_cancel", "op_cancel", "revoke", "silent", "heartbeat",
           "progress", "log", "lock"}

ASSUME KindAssumption ==
    Kind \in [Jobs -> Kinds] /\ Prunes \subseteq {j \in Jobs : Kind[j] = "maintenance"}
ASSUME BoundsAssumption ==
    /\ MaxQueued \in Nat \ {0} /\ MaxAttempts \in Nat \ {0} /\ MaxSessions \in Nat \ {0}
    /\ MaxFaults \in Nat /\ MaxFrames \in Nat
ASSUME EnvAssumption == Env \subseteq Faults \cup Inputs /\ SelfCancelling \subseteq Kinds

VARIABLES
    \* rows
    status, started, claimed, age,
    logs,       \* stored lines: their attempt, and whether they name a removed archive
    op,         \* the operation's row while the job carries it: "left" is running,
                \* open for another attempt; "passed" is carried by a later job
    claims,     \* claim times used so far; a claim time names an attempt
    silent,     \* the agent has not reported for the offline limits
    gone,       \* the agent is revoked, disabled or deleted
    \* the server process
    conn,       \* the registered session, 0 for none
    open,       \* sessions whose handler still runs
    due,        \* jobs a dispatch pass has on its list
    sends,      \* dispatches between their claim and the end of their send
    pass,       \* a hello or heartbeat between its read and its writes
    reap,       \* a reaper pass between its read and its writes
    waiter,     \* the executor that waits for the job
    chain,      \* follow-up chains enqueued for the job's backup
    \* wires: frames to the agent, frames to the server per session
    down, up,
    \* the agent process
    sess,       \* its open socket, 0 for none
    sessions,   \* sockets opened so far
    run,        \* its workers
    event,      \* _cancel_events: "none", "clear" or "set"
    pend,       \* _pending_cancels
    kept,       \* KeptOutcomes
    \* history
    done,       \* jobs a worker has finished and whose outcome is not lost
    faults

rows == <<status, started, claimed, age, logs, op, claims>>
presence == <<silent, gone>>
server == <<conn, open, due, sends, pass, reap, waiter, chain>>
wires == <<down, up>>
agent == <<sess, sessions, run, event, pend, kept>>
vars == <<rows, presence, server, wires, agent, done, faults>>

InFlight == {"claimed", "running", "cancel_requested"}
FINAL_AGENT_JOB_STATUSES == {"completed", "failed", "canceled"}
OpTerminal == {"completed", "failed", "cancelled", "skipped"}
TerminalBackup == OpTerminal \ {"skipped"}
Idle == [kind |-> "none"]
Sids == 1..MaxSessions
Unsent == MaxAttempts + 1   \* a claim time no dispatch wrote

Init ==
    /\ status = [j \in Jobs |-> "absent"] /\ started = [j \in Jobs |-> FALSE]
    /\ claimed = [j \in Jobs |-> 0] /\ age = [j \in Jobs |-> 0]
    /\ logs = [j \in Jobs |-> {}] /\ op = [j \in Jobs |-> "running"]
    /\ claims = [j \in Jobs |-> 0] /\ silent = FALSE /\ gone = FALSE
    /\ conn = 0 /\ open = {} /\ due = {} /\ sends = {} /\ pass = Idle /\ reap = Idle
    /\ waiter = [j \in Jobs |-> FALSE] /\ chain = [j \in Jobs |-> 0]
    /\ down = << >> /\ up = [s \in Sids |-> << >>]
    /\ sess = 0 /\ sessions = 0 /\ run = {} /\ event = [j \in Jobs |-> "none"]
    /\ pend = {} /\ kept = [j \in Jobs |-> "none"] /\ done = {} /\ faults = 0

Final(j) == status[j] \in FINAL_AGENT_JOB_STATUSES
Linked(j) == Kind[j] # "request"
Fault(f) == f \in Env /\ faults < MaxFaults /\ faults' = faults + 1

\* A handler on the event loop runs while no other one is between its read
\* and its writes; threads do not wait for it.
LoopFree == pass = Idle

------------------------------------------------------------------------------
(* Queueing and dispatch *)

Rows == {j \in Jobs : status[j] # "absent"}

queue_agent_job(j) ==
    /\ LoopFree /\ status[j] = "absent" /\ ~gone /\ Cardinality(Rows) < MaxQueued
    /\ status' = [status EXCEPT ![j] = "queued"]
    /\ waiter' = [waiter EXCEPT ![j] = Linked(j)]
    /\ due' = due \cup {j}
    /\ UNCHANGED <<started, claimed, age, logs, op, claims, presence, conn, open, sends, pass, reap,
                   chain, wires, agent, done, faults>>

\* A dispatch pass comes to job j: handed to the registered connection by
\* the pass whose conditional write moves it off the queue, left otherwise.
dispatch_claim(j) ==
    /\ LoopFree /\ j \in due /\ conn # 0 /\ status[j] = "queued" /\ claims[j] < MaxAttempts
    /\ status' = [status EXCEPT ![j] = "claimed"]
    /\ claims' = [claims EXCEPT ![j] = @ + 1]
    /\ claimed' = [claimed EXCEPT ![j] = claims[j] + 1]
    /\ age' = [age EXCEPT ![j] = 0]
    /\ due' = due \ {j}
    /\ sends' = sends \cup {[cmd |-> "run", job |-> j, att |-> claims[j] + 1, prev |-> claimed[j], conn |-> conn]}
    /\ UNCHANGED <<started, logs, op, presence, conn, open, pass, reap, waiter, chain, wires, agent,
                   done, faults>>

dispatch_skip(j) ==
    /\ LoopFree /\ j \in due /\ (conn = 0 \/ status[j] # "queued")
    /\ due' = due \ {j}
    /\ UNCHANGED <<rows, presence, conn, open, sends, pass, reap, waiter, chain, wires, agent, done, faults>>

\* A cancel command is sent to the registered connection, if there is one.
CancelSends(js, c) ==
    IF c = 0 THEN {} ELSE {[cmd |-> "cancel", job |-> j, att |-> 0, prev |-> 0, conn |-> c] : j \in js}

\* The frame is written; on a socket the agent has left it is lost.
SendOk(x) ==
    /\ LoopFree /\ x \in sends /\ Len(down) < MaxFrames
    /\ sends' = sends \ {x}
    /\ down' = IF x.conn = sess THEN Append(down, [cmd |-> x.cmd, job |-> x.job, att |-> x.att]) ELSE down
    /\ UNCHANGED <<rows, presence, conn, open, due, pass, reap, waiter, chain, up, agent, done, faults>>

\* A dispatch whose write raised: back on the queue, unless a cancel landed.
Requeued(x) ==
    IF x.cmd = "run" /\ status[x.job] = "claimed"
    THEN /\ status' = [status EXCEPT ![x.job] = "queued"]
         /\ claimed' = [claimed EXCEPT ![x.job] = x.prev]
         /\ age' = [age EXCEPT ![x.job] = 0]
    ELSE UNCHANGED <<status, claimed, age>>

\* The error normally reaches the sender before the job is claimed again.
SendFails(x) ==
    /\ LoopFree /\ x \in sends /\ x.conn # sess
    /\ \/ /\ x.cmd = "cancel" \/ claimed[x.job] = x.att \/ status[x.job] # "claimed"
          /\ UNCHANGED faults
       \/ /\ x.cmd = "run" /\ claimed[x.job] # x.att /\ status[x.job] = "claimed"
          /\ Fault("late_send_error")
    /\ sends' = sends \ {x}
    /\ Requeued(x)
    /\ UNCHANGED <<started, logs, op, claims, presence, conn, open, due, pass, reap, waiter, chain, wires,
                   agent, done>>

------------------------------------------------------------------------------
(* The verdict of a job and of the operation it carries *)

OpVerdict == [completed |-> "completed", failed |-> "failed", canceled |-> "cancelled"]

\* Mutant: the report enqueues the chain without asking who waits.
FinishedChains(j, v) ==
    IF Final(j) THEN UNCHANGED <<status, age, op, chain>>
    ELSE /\ status' = [status EXCEPT ![j] = v]
         /\ age' = [age EXCEPT ![j] = 0]
         /\ op' = IF Linked(j) THEN [op EXCEPT ![j] = OpVerdict[v]] ELSE op
         /\ chain' = IF Kind[j] = "backup" /\ v = "completed" THEN [chain EXCEPT ![j] = @ + 1] ELSE chain

\* _claim_terminal_transition and the linked rows: exactly one writer wins.
\* A completed backup whose executor waits gets its chain from the runner.
Finished(j, v) ==
    IF Final(j) THEN UNCHANGED <<status, age, op, chain>>
    ELSE /\ status' = [status EXCEPT ![j] = v]
         /\ age' = [age EXCEPT ![j] = 0]
         /\ op' = IF Linked(j) THEN [op EXCEPT ![j] = OpVerdict[v]] ELSE op
         /\ chain' = IF Kind[j] = "backup" /\ v = "completed" /\ ~waiter[j]
                     THEN [chain EXCEPT ![j] = @ + 1] ELSE chain

\* The failure of a maintenance job that lost the lock: its row stays open
\* for the next attempt.
LeftOpen(j) ==
    IF Final(j) THEN UNCHANGED <<status, age, op, chain>>
    ELSE /\ status' = [status EXCEPT ![j] = "failed"]
         /\ age' = [age EXCEPT ![j] = 0]
         /\ op' = [op EXCEPT ![j] = IF @ \in OpTerminal THEN @ ELSE "left"]
         /\ UNCHANGED chain

\* A report over REST. A lock failure leaves the row open unless the row's
\* deferral budget is spent.
Recorded(j, o) ==
    CASE o = "complete" -> Finished(j, "completed")
      [] o \in {"fail", "refused"} -> Finished(j, "failed")
      [] o = "lock" -> LeftOpen(j) \/ Finished(j, "failed")
      [] o = "cancel" -> Finished(j, "canceled")

\* The report is recorded in a thread of its own. The agent drops the outcome
\* when it has the answer.
Deliver(j) ==
    /\ kept[j] # "none" /\ ~gone
    /\ Recorded(j, kept[j])
    /\ \/ kept' = [kept EXCEPT ![j] = "none"] /\ UNCHANGED faults
       \/ Fault("answer_lost") /\ UNCHANGED kept
    /\ UNCHANGED <<started, claimed, logs, claims, presence, conn, open, due, sends, pass, reap, waiter, wires,
                   sess, sessions, run, event, pend, done>>

\* The server refuses the report, always that of a revoked agent, or answers
\* it with an error for too long: a plain failure takes its place, and is
\* dropped in its turn.
Refused(j) ==
    /\ kept[j] # "none"
    /\ IF gone THEN UNCHANGED faults ELSE Fault("refused")
    /\ kept' = [kept EXCEPT ![j] = IF @ \in {"complete", "fail", "lock"} THEN "refused" ELSE "none"]
    /\ done' = IF kept[j] \in {"complete", "fail", "lock"} THEN done ELSE done \ {j}
    /\ UNCHANGED <<rows, presence, server, wires, sess, sessions, run, event, pend>>

\* What the runner makes of a row its wait has ended for: a verdict stands,
\* one left open is deferred, unless a cancel came meanwhile or the write
\* failed, and any other row still open has failed.
Closings(j) ==
    CASE op[j] \in OpTerminal -> {op[j]}
      [] op[j] = "left" -> {"queued", "cancelled", "failed"}
      [] OTHER -> {"failed"}

\* The executor's wait ends on a final job. The runner then enqueues the
\* chain of a completed backup, and closes or defers a maintenance row still
\* open.
WaiterReturns(j) ==
    /\ LoopFree /\ waiter[j] /\ Final(j)
    /\ waiter' = [waiter EXCEPT ![j] = FALSE]
    /\ chain' = IF Kind[j] = "backup" /\ op[j] = "completed" THEN [chain EXCEPT ![j] = @ + 1] ELSE chain
    /\ \E v \in Closings(j) : op' = [op EXCEPT ![j] = v]
    /\ UNCHANGED <<status, started, claimed, age, logs, claims, presence, conn, open, due, sends, pass, reap,
                   wires, agent, done, faults>>

\* The runner claims a backup row a requeue put back on its queue after the
\* process restarted, and waits for the job that is live.
Rewait(j) ==
    /\ LoopFree /\ Kind[j] = "backup" /\ op[j] = "queued" /\ ~waiter[j]
    /\ status[j] \in InFlight \cup {"queued"}
    /\ waiter' = [waiter EXCEPT ![j] = TRUE]
    /\ op' = [op EXCEPT ![j] = "running"]
    /\ UNCHANGED <<status, started, claimed, age, logs, claims, presence, conn, open, due, sends, pass, reap,
                   chain, wires, agent, done, faults>>

\* The runner claims a maintenance row it had deferred: another job, with
\* rows of its own here, carries the operation on.
RunAgain(j) ==
    /\ LoopFree /\ Kind[j] = "maintenance" /\ op[j] = "queued"
    /\ op' = [op EXCEPT ![j] = "passed"]
    /\ UNCHANGED <<status, started, claimed, age, logs, claims, presence, server, wires, agent, done, faults>>

------------------------------------------------------------------------------
(* Cancels *)

\* cancel_agent_backup_job, _request_agent_cancel and
\* abandon_agent_repository_operation_job: conditional on the status read.
CancelJob(j) ==
    /\ "cancel" \in Env
    /\ status[j] \in {"queued", "claimed", "running"}
    /\ status' = [status EXCEPT ![j] = IF @ = "queued" THEN "canceled" ELSE "cancel_requested"]
    /\ age' = [age EXCEPT ![j] = 0]
    /\ op' = IF Kind[j] # "backup" THEN op
             ELSE [op EXCEPT ![j] = IF status[j] = "queued" THEN "cancelled" ELSE "running"]
    /\ sends' = IF status[j] = "queued" THEN sends ELSE sends \cup CancelSends({j}, conn)
    /\ UNCHANGED <<started, claimed, logs, claims, presence, conn, open, due, pass, reap, waiter, chain, wires,
                   agent, done, faults>>

\* The administrator's cancel, also of a job that is still queued.
request_agent_job_cancel(j) ==
    /\ "admin_cancel" \in Env /\ LoopFree
    /\ status[j] \in {"queued", "claimed", "running"}
    /\ status' = [status EXCEPT ![j] = "cancel_requested"]
    /\ age' = [age EXCEPT ![j] = 0]
    /\ sends' = sends \cup CancelSends({j}, conn)
    /\ UNCHANGED <<started, claimed, logs, op, claims, presence, conn, open, due, pass, reap, waiter, chain, wires,
                   agent, done, faults>>

\* The runner's request_cancel meets a row a requeue or a deferral put back
\* to queued.
CancelQueuedRow(j) ==
    /\ "op_cancel" \in Env /\ LoopFree /\ op[j] = "queued"
    /\ op' = [op EXCEPT ![j] = "cancelled"]
    /\ UNCHANGED <<status, started, claimed, age, logs, claims, presence, server, wires, agent, done, faults>>

------------------------------------------------------------------------------
(* The server's side of a session *)

\* Mutant: an undelivered job is queued again without a look at the list.
SettledUnlisted(p, j) ==
    CASE p.kind = "hello" /\ p.read[j].status = "claimed" /\ status[j] = "claimed" -> "requeue"
      [] OTHER -> "keep"

\* What a hello or heartbeat that listed p.list decides of job j, from the
\* row it read and the row it finds.
Settled(p, j) ==
    LET read == p.read[j]
        skipAge == /\ p.kind = "hello"
                   /\ \/ p.complete
                      \/ (read.status = "claimed" /\ ~read.started)
                      \/ read.status = "cancel_requested"
        keep == \/ read.status \notin InFlight \/ j \in p.list \/ Final(j)
                \/ ~skipAge /\ read.age = 0
        stop == status[j] = "cancel_requested" /\ (p.kind = "hello" \/ age[j] > 0)
    IN IF keep THEN "keep"
       ELSE IF read.status = "cancel_requested" THEN "cancel"
       ELSE IF status[j] # read.status THEN (IF stop THEN "cancel" ELSE "keep")
       ELSE IF Kind[j] = "request" THEN "fail" ELSE "requeue"

\* _kept_prune_lines: what survives a requeue of the stored log.
KeptLines(j) == {l \in logs[j] : j \in Prunes /\ l.removed}

\* _requeue_stale_agent_jobs over all jobs; `fresh` are the ones whose
\* activity the pass refreshes as well.
Requeue(p, fresh) ==
    LET d == [j \in Jobs |-> Settled(p, j)]
        back(j) == d[j] = "requeue"
    IN /\ status' = [j \in Jobs |-> CASE d[j] = "cancel" -> "canceled"
                                      [] d[j] = "fail" -> "failed"
                                      [] back(j) -> "queued"
                                      [] OTHER -> status[j]]
       /\ op' = [j \in Jobs |-> CASE d[j] = "cancel" /\ Linked(j) -> "cancelled"
                                  [] back(j) /\ Kind[j] = "backup" /\ op[j] \notin TerminalBackup -> "queued"
                                  [] OTHER -> op[j]]
       /\ claimed' = [j \in Jobs |-> IF back(j) THEN 0 ELSE claimed[j]]
       /\ started' = [j \in Jobs |-> started[j] /\ ~back(j)]
       /\ logs' = [j \in Jobs |-> IF back(j) THEN KeptLines(j) ELSE logs[j]]
       /\ age' = [j \in Jobs |-> IF d[j] # "keep" \/ (j \in fresh /\ status[j] \in InFlight) THEN 0 ELSE age[j]]

Snapshot == [j \in Jobs |-> [status |-> status[j], started |-> started[j], age |-> age[j]]]

\* A session's first frame. A revoked agent is refused; otherwise the agent
\* is online and its jobs are read. Whether the list speaks for every process
\* depends on no session being registered.
HelloRead(s) ==
    /\ LoopFree /\ s = sessions /\ s \notin open /\ up[s] # << >> /\ Head(up[s]).type = "hello"
    /\ up' = [up EXCEPT ![s] = IF gone THEN << >> ELSE Tail(@)]
    /\ IF gone THEN UNCHANGED <<silent, pass>>
       ELSE /\ silent' = FALSE
            /\ pass' = [kind |-> "hello", sid |-> s, list |-> Head(up[s]).list,
                        complete |-> conn = 0, read |-> Snapshot]
    /\ sess' = IF gone /\ sess = s THEN 0 ELSE sess
    /\ UNCHANGED <<rows, gone, conn, open, due, sends, reap, waiter, chain, down, sessions, run, event, pend, kept,
                   done, faults>>

\* The writes of a hello, the registration, the cancels owed to the agent and
\* the pass over its queued jobs.
HelloSettle ==
    /\ pass.kind = "hello"
    /\ Requeue(pass, {})
    /\ conn' = pass.sid /\ open' = open \cup {pass.sid}
    /\ sends' = sends \cup CancelSends({j \in pass.list : status'[j] = "cancel_requested"}, pass.sid)
    /\ due' = due \cup {j \in Jobs : status'[j] = "queued"}
    /\ pass' = Idle
    /\ UNCHANGED <<claims, presence, reap, waiter, chain, wires, agent, done, faults>>

HeadIs(s, type) == LoopFree /\ s \in open /\ ~gone /\ up[s] # << >> /\ Head(up[s]).type = type
Taken(s) == up' = [up EXCEPT ![s] = Tail(@)]

\* A heartbeat of the current session; one of a replaced session only says
\* that the agent is there, and sends the queued jobs.
BeatRead(s) ==
    /\ HeadIs(s, "beat") /\ Taken(s)
    /\ silent' = FALSE
    /\ pass' = IF conn = s THEN [kind |-> "beat", sid |-> s, list |-> Head(up[s]).list,
                                 complete |-> FALSE, read |-> Snapshot]
               ELSE Idle
    /\ due' = IF conn = s THEN due ELSE due \cup {j \in Jobs : status[j] = "queued"}
    /\ UNCHANGED <<rows, gone, conn, open, sends, reap, waiter, chain, down, agent, done, faults>>

BeatSettle ==
    /\ pass.kind = "beat"
    /\ Requeue(pass, pass.list)
    /\ sends' = sends \cup CancelSends({j \in pass.list : status'[j] = "cancel_requested"}, pass.sid)
    /\ due' = due \cup {j \in Jobs : status'[j] = "queued"}
    /\ pass' = Idle
    /\ UNCHANGED <<claims, presence, conn, open, reap, waiter, chain, wires, agent, done, faults>>

\* The look and the unguarded write are one step: nothing is awaited in between,
\* and a write of another thread just there (reaper, route) is not in the model.
ReceiveAck(s) ==
    /\ HeadIs(s, "ack") /\ Taken(s)
    /\ LET j == Head(up[s]).job IN
         IF status[j] = "queued"
         THEN /\ status' = [status EXCEPT ![j] = "claimed"]
              /\ claimed' = [claimed EXCEPT ![j] = Unsent]
              /\ age' = [age EXCEPT ![j] = 0]
         ELSE UNCHANGED <<status, claimed, age>>
    /\ UNCHANGED <<started, logs, op, claims, presence, server, down, agent, done, faults>>

\* Mutant: a start report writes running over a cancel request.
StartedOverCancel(s) ==
    /\ HeadIs(s, "started") /\ Taken(s)
    /\ LET j == Head(up[s]).job IN
         IF Final(j) THEN UNCHANGED <<status, started, age>>
         ELSE /\ status' = [status EXCEPT ![j] = "running"]
              /\ started' = [started EXCEPT ![j] = TRUE]
              /\ age' = [age EXCEPT ![j] = 0]
    /\ UNCHANGED <<claimed, op, logs, claims, presence, server, down, agent, done, faults>>

\* A start report opens a backup's row whatever it reads; a maintenance row
\* keeps a verdict it has.
ReceiveStarted(s) ==
    /\ HeadIs(s, "started") /\ Taken(s)
    /\ LET j == Head(up[s]).job IN
         IF Final(j) THEN UNCHANGED <<status, started, claimed, age, op>>
         ELSE /\ status' = [status EXCEPT ![j] = IF @ = "cancel_requested" THEN @ ELSE "running"]
              /\ claimed' = [claimed EXCEPT ![j] = IF @ = 0 THEN Unsent ELSE @]
              /\ started' = [started EXCEPT ![j] = TRUE]
              /\ age' = [age EXCEPT ![j] = 0]
              /\ op' = IF Kind[j] = "backup" \/ (Linked(j) /\ op[j] \notin OpTerminal)
                       THEN [op EXCEPT ![j] = "running"] ELSE op
    /\ UNCHANGED <<logs, claims, presence, server, down, agent, done, faults>>

\* Mutant: a late progress report opens the row again (#1404).
ProgressReopens(j) ==
    /\ age' = [age EXCEPT ![j] = 0]
    /\ op' = IF Linked(j) THEN [op EXCEPT ![j] = "running"] ELSE op

\* Progress of an unfinished job; the operation keeps a verdict it has.
Progressed(j) ==
    IF Final(j) THEN UNCHANGED <<age, op>>
    ELSE /\ age' = [age EXCEPT ![j] = 0]
         /\ op' = IF Linked(j) /\ op[j] \notin OpTerminal THEN [op EXCEPT ![j] = "running"] ELSE op

\* Mutant: a line of a run that was given up is stored (#1383).
LoggedAny(j, att) ==
    /\ logs' = [logs EXCEPT ![j] = @ \cup {[att |-> att, removed |-> FALSE]}]
    /\ age' = [age EXCEPT ![j] = 0]

\* A log line, unless its attempt was given up. A prune's line may name an
\* archive it removed.
Logged(j, att) ==
    IF claimed[j] # att THEN UNCHANGED <<age, logs>>
    ELSE /\ \E removed \in IF j \in Prunes THEN BOOLEAN ELSE {FALSE} :
               logs' = [logs EXCEPT ![j] = @ \cup {[att |-> att, removed |-> removed]}]
         /\ age' = [age EXCEPT ![j] = 0]

ReceiveProgress(s) ==
    /\ HeadIs(s, "progress") /\ Taken(s)
    /\ Progressed(Head(up[s]).job)
    /\ UNCHANGED <<status, started, claimed, logs, claims, presence, server, down, agent, done, faults>>

ReceiveLog(s) ==
    /\ HeadIs(s, "log") /\ Taken(s)
    /\ Logged(Head(up[s]).job, Head(up[s]).att)
    /\ UNCHANGED <<status, started, claimed, op, claims, presence, server, down, agent, done, faults>>

\* Mutant: a late disconnect takes out the session that replaced it.
ClosesAny(s) ==
    /\ LoopFree /\ s \in open /\ s # sess
    /\ open' = open \ {s} /\ conn' = 0
    /\ up' = [up EXCEPT ![s] = << >>]
    /\ UNCHANGED <<rows, presence, due, sends, pass, reap, waiter, chain, down, agent, done, faults>>

\* The handler ends: the agent left the socket, or is revoked and sent a
\* frame. Only the connection that is registered is taken out.
ServerClose(s) ==
    /\ LoopFree /\ s \in open
    /\ s # sess \/ (gone /\ up[s] # << >>)
    /\ open' = open \ {s}
    /\ conn' = IF conn = s THEN 0 ELSE conn
    /\ up' = [up EXCEPT ![s] = << >>]
    /\ sess' = IF sess = s THEN 0 ELSE sess
    /\ down' = IF sess = s THEN << >> ELSE down
    /\ UNCHANGED <<rows, presence, due, sends, pass, reap, waiter, chain, sessions, run, event, pend, kept, done,
                   faults>>

------------------------------------------------------------------------------
(* The agent program *)

\* Mutant: an outcome that is kept is not listed (#1377).
WorkersOnly == {j \in Jobs : event[j] # "none"}

\* The jobs the agent must not be asked to run again.
running_job_ids == {j \in Jobs : event[j] # "none" \/ kept[j] # "none"}

\* A new socket, with the hello as its first frame.
AgentConnect ==
    /\ sess = 0 /\ sessions < MaxSessions
    /\ sess' = sessions + 1 /\ sessions' = sessions + 1
    /\ up' = [s \in Sids |-> CASE s = sessions + 1 -> <<[type |-> "hello", list |-> running_job_ids]>>
                               [] s = sessions /\ s \notin open -> << >>
                               [] OTHER -> up[s]]
    /\ UNCHANGED <<rows, presence, server, down, run, event, pend, kept, done, faults>>

\* A frame of a worker, which belongs to the session it was received on; once
\* that has closed, or its outbox is full, the frame is not queued.
Framed(r, type) ==
    up' = IF r.sid = sess /\ Len(up[sess]) < MaxFrames
          THEN [up EXCEPT ![sess] = Append(@, [type |-> type, job |-> r.job, att |-> r.att])] ELSE up

\* A run command: the job is registered before its worker exists, with a
\* cancel that came first already set, and acknowledged.
ReceiveRun ==
    /\ sess # 0 /\ down # << >> /\ Head(down).cmd = "run"
    /\ LET f == Head(down)
           r == [job |-> f.job, att |-> f.att, sid |-> sess, stage |-> "got"]
       IN /\ run' = run \cup {r}
          /\ event' = [event EXCEPT ![f.job] = IF f.job \in pend THEN "set" ELSE "clear"]
          /\ pend' = pend \ {f.job}
          /\ Framed(r, "ack")
    /\ down' = Tail(down)
    /\ UNCHANGED <<rows, presence, server, sess, sessions, kept, done, faults>>

\* A cancel command: signal the worker, or remember the cancel. Unless the
\* worker reports it, it is reported here; not over an outcome still kept.
ReceiveCancel ==
    /\ sess # 0 /\ down # << >> /\ Head(down).cmd = "cancel"
    /\ LET j == Head(down).job
           registered == event[j] # "none"
       IN /\ event' = IF registered THEN [event EXCEPT ![j] = "set"] ELSE event
          /\ pend' = IF registered THEN pend ELSE pend \cup {j}
          /\ kept' = IF (registered /\ Kind[j] \in SelfCancelling) \/ kept[j] # "none" THEN kept
                     ELSE [kept EXCEPT ![j] = "cancel"]
    /\ down' = Tail(down)
    /\ UNCHANGED <<rows, presence, server, up, sess, sessions, run, done, faults>>

Staged(r, stage) == run' = (run \ {r}) \cup {[r EXCEPT !.stage = stage]}

WorkerStart(r) ==
    /\ r \in run /\ r.stage = "got"
    /\ Staged(r, "started") /\ Framed(r, "started")
    /\ UNCHANGED <<rows, presence, server, down, sess, sessions, event, pend, kept, done, faults>>

\* Progress and log lines go over REST once the session has closed.
WorkerProgress(r) ==
    /\ "progress" \in Env /\ r \in run /\ r.stage = "started"
    /\ Framed(r, "progress")
    /\ IF r.sid = sess \/ gone THEN UNCHANGED <<age, op>> ELSE LoopFree /\ Progressed(r.job)
    /\ UNCHANGED <<status, started, claimed, logs, claims, presence, server, down, agent, done, faults>>

\* A line over HTTP is looked at and inserted in one step. The route's thread does
\* both without an await, but a requeue committed just in between, which would
\* leave a line of the attempt before, is not in the model.
WorkerLog(r) ==
    /\ "log" \in Env /\ r \in run /\ r.stage = "started"
    /\ Framed(r, "log")
    /\ IF r.sid = sess \/ gone THEN UNCHANGED <<age, logs>> ELSE LoopFree /\ Logged(r.job, r.att)
    /\ UNCHANGED <<status, started, claimed, op, claims, presence, server, down, agent, done, faults>>

\* The handler ends; its outcome is kept before the worker leaves the
\* registry, so that the job is always in one of the two lists.
WorkerEnd(r, o) ==
    /\ r \in run
    /\ \/ r.stage = "started" /\ o \in {"complete", "fail"}
       \/ r.stage = "started" /\ o = "lock" /\ "lock" \in Env /\ Kind[r.job] = "maintenance"
       \/ r.stage \in {"got", "started"} /\ o = "cancel" /\ event[r.job] = "set"
    /\ kept' = [kept EXCEPT ![r.job] = o]
    /\ Staged(r, "ending")
    /\ done' = IF o = "complete" THEN done \cup {r.job} ELSE done
    /\ UNCHANGED <<rows, presence, server, wires, sess, sessions, event, pend, faults>>

WorkerLeaves(r) ==
    /\ r \in run /\ r.stage = "ending"
    /\ run' = run \ {r}
    /\ event' = [event EXCEPT ![r.job] = "none"]
    /\ pend' = pend \ {r.job}
    /\ UNCHANGED <<rows, presence, server, wires, sess, sessions, kept, done, faults>>

\* Half a minute apart: the one before has been handled.
Heartbeat ==
    /\ "heartbeat" \in Env /\ LoopFree /\ sess # 0 /\ Len(up[sess]) < MaxFrames
    /\ \A i \in 1..Len(up[sess]) : up[sess][i].type # "beat"
    /\ up' = [up EXCEPT ![sess] = Append(@, [type |-> "beat", list |-> running_job_ids])]
    /\ UNCHANGED <<rows, presence, server, down, agent, done, faults>>

\* The socket breaks. The workers go on.
AgentDrop ==
    /\ Fault("drop") /\ sess # 0
    /\ sess' = 0 /\ down' = << >>
    /\ UNCHANGED <<rows, presence, server, up, sessions, run, event, pend, kept, done>>

\* The agent restarts; its first hello ends what the dead process left.
AgentCrash ==
    /\ Fault("agent_crash")
    /\ sess' = 0 /\ down' = << >> /\ run' = {} /\ pend' = {}
    /\ event' = [j \in Jobs |-> "none"] /\ kept' = [j \in Jobs |-> "none"]
    /\ done' = {j \in done : kept[j] = "none"}
    /\ UNCHANGED <<rows, presence, server, up, sessions>>

------------------------------------------------------------------------------
(* Time, the reaper and the restart of the server *)

\* A window passes without a sign of the job.
Age(j) ==
    /\ status[j] \in InFlight /\ age[j] < 2 /\ LoopFree /\ reap = Idle
    /\ ~\E x \in sends : x.job = j
    /\ ~\E i \in 1..Len(down) : down[i].job = j
    /\ \A s \in Sids : \A i \in 1..Len(up[s]) : up[s][i].type # "beat"
    /\ ~(sess # 0 /\ conn = sess /\ j \in running_job_ids)
    /\ age' = [age EXCEPT ![j] = @ + 1]
    /\ UNCHANGED <<status, started, claimed, logs, op, claims, presence, server, wires, agent, done, faults>>

AgentSilent ==
    /\ "silent" \in Env /\ sess = 0 /\ conn = 0 /\ LoopFree /\ reap = Idle /\ ~silent
    /\ silent' = TRUE
    /\ UNCHANGED <<rows, gone, server, wires, agent, done, faults>>

\* The agent is revoked, disabled or unregistered.
Revoke ==
    /\ "revoke" \in Env /\ LoopFree /\ ~gone
    /\ gone' = TRUE
    /\ UNCHANGED <<rows, silent, server, wires, agent, done, faults>>

\* The three passes of the reaper's thread: in flight without activity,
\* queued for a silent agent, and backups of an agent that is only away.
Reapable(k) ==
    CASE k = "stale"  -> {j \in Jobs : status[j] \in InFlight /\ age[j] = 2}
      [] k = "queued" -> {j \in Jobs : status[j] = "queued" /\ silent /\ (Kind[j] # "backup" \/ gone)}
      [] k = "skip"   -> {j \in Jobs : status[j] = "queued" /\ silent /\ Kind[j] = "backup" /\ ~gone}

ReapRead(k) ==
    /\ reap = Idle /\ Reapable(k) # {}
    /\ reap' = [kind |-> k, jobs |-> Reapable(k)]
    /\ UNCHANGED <<rows, presence, conn, open, due, sends, pass, waiter, chain, wires, agent, done, faults>>

\* A job that still has the status it was read with is ended, and its backup
\* with it; a maintenance row is left to its waiter.
ReapWrite ==
    /\ reap # Idle
    /\ LET hit == {j \in reap.jobs : IF reap.kind = "stale" THEN status[j] \in InFlight
                                     ELSE status[j] = "queued" /\ silent}
           skip == reap.kind = "skip"
       IN /\ status' = [j \in Jobs |-> IF j \in hit THEN (IF skip THEN "canceled" ELSE "failed") ELSE status[j]]
          /\ age' = [j \in Jobs |-> IF j \in hit THEN 0 ELSE age[j]]
          /\ op' = [j \in Jobs |-> IF j \in hit /\ Kind[j] = "backup" /\ op[j] \notin TerminalBackup
                                   THEN (IF skip THEN "skipped" ELSE "failed") ELSE op[j]]
    /\ reap' = Idle
    /\ UNCHANGED <<started, claimed, logs, claims, presence, conn, open, due, sends, pass, waiter, chain, wires,
                   agent, done, faults>>

\* The process dies and starts again: sessions, sends and tasks are gone and
\* recovery fails the operations that read running.
ServerCrash ==
    /\ Fault("server_crash")
    /\ conn' = 0 /\ open' = {} /\ due' = {} /\ sends' = {} /\ pass' = Idle /\ reap' = Idle
    /\ waiter' = [j \in Jobs |-> FALSE]
    /\ op' = [j \in Jobs |-> IF status[j] # "absent" /\ op[j] \in {"running", "left"}
                           THEN "failed" ELSE op[j]]
    /\ down' = << >> /\ up' = [s \in Sids |-> << >>] /\ sess' = 0
    /\ UNCHANGED <<status, started, claimed, age, logs, claims, presence, chain, sessions, run, event, pend,
                   kept, done>>

\* Nothing is left to do: the jobs have ended, or the agent is revoked or has
\* used up the sessions of the instance.
Rest ==
    /\ (Cardinality(Rows) = MaxQueued /\ \A j \in Rows : Final(j)) \/ gone \/ (sess = 0 /\ sessions = MaxSessions)
    /\ UNCHANGED vars

JobStep(j) ==
    \/ queue_agent_job(j) \/ dispatch_claim(j) \/ dispatch_skip(j)
    \/ Deliver(j) \/ Refused(j) \/ WaiterReturns(j) \/ Rewait(j) \/ RunAgain(j)
    \/ CancelJob(j) \/ request_agent_job_cancel(j) \/ CancelQueuedRow(j)
    \/ Age(j)

SessionStep(s) ==
    \/ HelloRead(s) \/ BeatRead(s) \/ ReceiveAck(s) \/ ReceiveStarted(s)
    \/ ReceiveProgress(s) \/ ReceiveLog(s) \/ ServerClose(s)

WorkerStep(r) ==
    \/ WorkerStart(r) \/ WorkerProgress(r) \/ WorkerLog(r) \/ WorkerLeaves(r)
    \/ \E o \in {"complete", "fail", "lock", "cancel"} : WorkerEnd(r, o)

Next ==
    \/ \E j \in Jobs : JobStep(j)
    \/ \E x \in sends : SendOk(x) \/ SendFails(x)
    \/ \E s \in Sids : SessionStep(s)
    \/ HelloSettle \/ BeatSettle
    \/ AgentConnect \/ ReceiveRun \/ ReceiveCancel \/ Heartbeat \/ AgentDrop \/ AgentCrash
    \/ \E r \in run : WorkerStep(r)
    \/ AgentSilent \/ Revoke \/ ServerCrash \/ ReapWrite
    \/ \E k \in {"stale", "queued", "skip"} : ReapRead(k)
    \/ Rest

Spec == Init /\ [][Next]_vars

------------------------------------------------------------------------------
(* Properties *)

\* The runner has the job's row back on its queue, or in a later job.
Deferred(j) == Kind[j] = "maintenance" /\ op[j] \in {"queued", "passed"}

TypeOK ==
    /\ status \in [Jobs -> InFlight \cup FINAL_AGENT_JOB_STATUSES \cup {"absent", "queued"}]
    /\ started \in [Jobs -> BOOLEAN] /\ waiter \in [Jobs -> BOOLEAN]
    /\ claimed \in [Jobs -> 0..Unsent] /\ claims \in [Jobs -> 0..MaxAttempts]
    /\ age \in [Jobs -> 0..2] /\ chain \in [Jobs -> Nat]
    /\ logs \in [Jobs -> SUBSET [att : 0..Unsent, removed : BOOLEAN]]
    /\ op \in [Jobs -> OpTerminal \cup {"queued", "running", "left", "passed"}]
    /\ silent \in BOOLEAN /\ gone \in BOOLEAN
    /\ conn \in 0..MaxSessions /\ open \subseteq Sids /\ due \subseteq Jobs
    /\ sess \in 0..MaxSessions /\ sessions \in 0..MaxSessions
    /\ event \in [Jobs -> {"none", "clear", "set"}] /\ pend \subseteq Jobs /\ done \subseteq Jobs
    /\ kept \in [Jobs -> {"none", "complete", "fail", "lock", "cancel", "refused"}]
    /\ faults \in 0..MaxFaults

\* No job has two workers on the agent at once, however sessions, dispatches
\* and requeues cross (session.py: double-running a durable operation).
OneRunPerJob ==
    \A r1, r2 \in run : r1.job = r2.job => r1 = r2

\* A job whose work is done is not run again while the agent still has, or
\* the server has taken, its outcome (outcomes.py, #1377).
OutcomeNotRepeated ==
    \A r \in run : r.job \in done => r.stage = "ending"

\* The operation an ended job carries reads completed exactly when the job
\* did, a backup's row has ended with it, and a row that waits for another
\* attempt, or has had one, is that of a maintenance job that failed,
\* whichever of the report, the reaper, a cancel of the job or of the row,
\* the waiter and a restart wrote last.
VerdictsAgree ==
    \A j \in Jobs : (Linked(j) /\ Final(j)) =>
        /\ Kind[j] = "backup" => op[j] \in OpTerminal
        /\ op[j] = "completed" <=> status[j] = "completed"
        /\ op[j] \in {"left", "queued", "passed"} => status[j] = "failed"

\* Every stored line of a job is of the run that stands, except the lines in
\* which an earlier run of a prune named an archive it had removed (#1378,
\* #1383, _kept_prune_lines).
LogOfOneRun ==
    \A j \in Jobs : \A l \in logs[j] : l.att = claimed[j] \/ (j \in Prunes /\ l.removed)

\* The index chain of a backup is enqueued once, by the runner or by the
\* report, across restarts and redelivered reports.
ChainOnce ==
    \A j \in Jobs : chain[j] <= 1

\* The reaper leaves a job alone that showed activity since it was read: the
\* write of the reaper "lose[s] that race" to a heartbeat
\* (agent_job_reaper.py, _fail_agent_job).
ReaperLosesRace ==
    [][\A j \in Jobs : (reap.kind = "stale" /\ reap' = Idle /\ status[j] \in InFlight /\ age[j] = 0)
                           => status'[j] # "failed"]_vars

\* What the server promises of its agent jobs.
Contract == INSTANCE AgentJobContract WITH
    phase <- [j \in Jobs |-> CASE status[j] = "absent" -> "none"
                              [] status[j] = "queued" -> "waiting"
                              [] status[j] \in {"claimed", "running"} -> "out"
                              [] status[j] = "cancel_requested" -> "stopping"
                              [] OTHER -> "ended"],
    verdict <- [j \in Jobs |-> IF Final(j) THEN status[j] ELSE "open"]

\* The detailed protocol implements the contract of a job: handed out from
\* the queue only, ended once, never handed out after a cancel was asked for.
KeepsContract == Contract!Spec

\* The event loop and the reaper's thread serve what is there whenever it is
\* there again, heartbeats do not stop, the agent reads its socket, comes back
\* within its sessions and delivers what it keeps, its processes end, and
\* time passes. Faults and inputs need not happen.
ServerWorks ==
    \/ \E j \in Jobs : \/ queue_agent_job(j) \/ dispatch_claim(j) \/ dispatch_skip(j) \/ WaiterReturns(j) \/ Rewait(j)
                       \/ RunAgain(j)
    \/ \E x \in sends : SendOk(x) \/ SendFails(x)
    \/ \E s \in Sids : \/ HelloRead(s) \/ ReceiveAck(s) \/ ReceiveStarted(s)
                       \/ ReceiveProgress(s) \/ ReceiveLog(s) \/ ServerClose(s)
    \/ HelloSettle \/ ReapWrite \/ \E k \in {"stale", "queued", "skip"} : ReapRead(k)

AgentWorks ==
    \/ \E r \in run : WorkerStart(r) \/ WorkerLeaves(r) \/ WorkerEnd(r, "complete")
    \/ \E j \in Jobs : Deliver(j) \/ (gone /\ Refused(j))

Fairness ==
    /\ SF_vars(ServerWorks)
    /\ SF_vars(\E s \in Sids : BeatRead(s)) /\ WF_vars(BeatSettle) /\ SF_vars(Heartbeat)
    /\ WF_vars(AgentConnect \/ ReceiveRun \/ ReceiveCancel) /\ WF_vars(AgentWorks)
    /\ SF_vars(AgentSilent \/ \E j \in Jobs : Age(j))

FairSpec == Spec /\ Fairness

\* Every job the server takes ends, and its operation with it or deferred to
\* another job: through the agent's report, a requeue and a second run, or
\* the reaper.
JobEnds ==
    \A j \in Jobs : (status[j] = "queued") ~>
        (Final(j) /\ (Kind[j] # "request" => op[j] \in OpTerminal \/ Deferred(j)))

====
