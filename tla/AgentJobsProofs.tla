--------------------------- MODULE AgentJobsProofs ---------------------------
(***************************************************************************)
(* The detailed protocol of agent jobs implements AgentJobContract, and    *)
(* what a job, its operation and its log promise holds, for every set of   *)
(* jobs, number of sessions, attempts and faults.                          *)
(*                                                                         *)
(* A step of the protocol changes the status of one job, or settles        *)
(* several (a hello, a heartbeat, the reaper). Both are steps of the       *)
(* contract as long as a frame, a worker, a kept outcome or a reading of   *)
(* the rows names only jobs that exist, which Named says; Wired gives the  *)
(* types of what is under way.                                             *)
(*                                                                         *)
(* Verdict ties a job's row to its operation's. That a job runs once at a  *)
(* time is a matter of places: Tokens says that the dispatch of a job is   *)
(* in one of the send buffer, the wire, a worker and the kept outcomes at  *)
(* a time, and that the sessions' lists cover what is at work. LogInv      *)
(* numbers the attempts, so that the lines in a log are those of the       *)
(* attempt the row names.                                                  *)
(***************************************************************************)
EXTENDS AgentJobs, FiniteSetTheorems, TLAPS

Listing == {"hello", "beat"}
Reports == {"ack", "started", "progress", "log"}
Attempts == 0..Unsent
Statuses == InFlight \cup FINAL_AGENT_JOB_STATUSES \cup {"absent", "queued"}

Sends == [cmd : {"run", "cancel"}, job : Jobs, att : Attempts, prev : Attempts, conn : Sids]
Commands == [cmd : {"run", "cancel"}, job : Jobs, att : Attempts]
Frames == [type : Listing, list : SUBSET Jobs] \cup [type : Reports, job : Jobs, att : Attempts]
Workers == [job : Jobs, att : Attempts, sid : Sids, stage : {"got", "started", "ending"}]
Readings == [Jobs -> [status : Statuses, started : BOOLEAN, age : 0..2]]
Passes == [kind : Listing, sid : Sids, list : SUBSET Jobs, complete : BOOLEAN, read : Readings]

\* The types of what is on a wire or between a read and its writes.
Wired ==
    /\ sends \subseteq Sends /\ down \in Seq(Commands) /\ up \in [Sids -> Seq(Frames)]
    /\ run \subseteq Workers
    /\ pass = Idle \/ pass \in Passes
    /\ reap = Idle \/ reap \in [kind : {"stale", "queued", "skip"}, jobs : SUBSET Jobs]

RowTypes ==
    /\ status \in [Jobs -> InFlight \cup FINAL_AGENT_JOB_STATUSES \cup {"absent", "queued"}]
    /\ started \in [Jobs -> BOOLEAN] /\ waiter \in [Jobs -> BOOLEAN]
    /\ claimed \in [Jobs -> 0..Unsent] /\ claims \in [Jobs -> 0..MaxAttempts]
    /\ age \in [Jobs -> 0..2] /\ chain \in [Jobs -> Nat]
    /\ logs \in [Jobs -> SUBSET [att : 0..Unsent, removed : BOOLEAN]]
    /\ op \in [Jobs -> OpTerminal \cup {"queued", "running", "left", "passed"}]

Types == TypeOK /\ Wired

\* The elements of a sequence.
Elems(q) == {q[i] : i \in 1..Len(q)}

\* Nothing that is under way names a job that was never queued.
Named ==
    /\ \A x \in sends : status[x.job] # "absent"
    /\ \A c \in Elems(down) : status[c.job] # "absent"
    /\ \A s \in Sids : \A m \in Elems(up[s]) : m.type \in Reports => status[m.job] # "absent"
    /\ \A r \in run : status[r.job] # "absent"
    /\ \A j \in Jobs : kept[j] # "none" => status[j] # "absent"
    /\ pass # Idle => \A j \in Jobs : pass.read[j].status # "absent" => status[j] # "absent"

\* What a queue keeps when its first element is taken or one is added.
LEMMA ElemsTail ==
    ASSUME NEW S, NEW q \in Seq(S), q # << >>
    PROVE  Elems(Tail(q)) \subseteq Elems(q) /\ Head(q) \in Elems(q)
<1>1. Len(q) \in Nat /\ Len(q) >= 1 /\ Head(q) = q[1] OBVIOUS
<1>2. Len(Tail(q)) = Len(q) - 1 /\ \A i \in 1..Len(Tail(q)) : Tail(q)[i] = q[i + 1] OBVIOUS
<1>3. ASSUME NEW m \in Elems(Tail(q)) PROVE m \in Elems(q)
  <2>1. PICK i \in 1..Len(Tail(q)) : m = Tail(q)[i] BY <1>3 DEF Elems
  <2>2. i + 1 \in 1..Len(q) /\ m = q[i + 1] BY <1>1, <1>2, <2>1
  <2>3. QED BY <2>2 DEF Elems
<1>4. 1 \in 1..Len(q) BY <1>1
<1>5. QED BY <1>1, <1>3, <1>4 DEF Elems

\* Appending adds one element.
LEMMA ElemsAppend ==
    ASSUME NEW S, NEW q \in Seq(S), NEW e \in S
    PROVE  Elems(Append(q, e)) = Elems(q) \cup {e}
<1>1. /\ Len(q) \in Nat /\ Len(Append(q, e)) = Len(q) + 1 /\ Append(q, e)[Len(q) + 1] = e
      /\ \A i \in 1..Len(q) : Append(q, e)[i] = q[i]
  OBVIOUS
<1>2. 1..(Len(q) + 1) = 1..Len(q) \cup {Len(q) + 1} BY <1>1
<1>3. QED BY <1>1, <1>2 DEF Elems

\* An empty wire carries nothing.
LEMMA ElemsEmpty == Elems(<< >>) = {}
BY DEF Elems

\* A wire of one frame carries that frame.
LEMMA ElemsOne == \A e : Elems(<<e>>) = {e}
BY DEF Elems

\* The program starts with nothing under way.
LEMMA InitTypes == Init => Types /\ Named
<1> SUFFICES ASSUME Init PROVE Types /\ Named OBVIOUS
<1> USE KindAssumption, BoundsAssumption DEF Init
<1>1. TypeOK
  <2>1. RowTypes BY DEF RowTypes, Unsent
  <2>2. conn \in 0..MaxSessions /\ sess \in 0..MaxSessions /\ sessions \in 0..MaxSessions /\ faults \in 0..MaxFaults
    OBVIOUS
  <2>3. event \in [Jobs -> {"none", "clear", "set"}]
        /\ kept \in [Jobs -> {"none", "complete", "fail", "lock", "cancel", "refused"}]
    OBVIOUS
  <2>4. open \subseteq Sids /\ due \subseteq Jobs /\ pend \subseteq Jobs /\ done \subseteq Jobs
        /\ silent \in BOOLEAN /\ gone \in BOOLEAN
    OBVIOUS
  <2>5. QED BY <2>1, <2>2, <2>3, <2>4 DEF RowTypes, TypeOK
<1>2. Wired BY DEF Wired, Sids
<1>3. Named BY ElemsEmpty DEF Named
<1>4. QED BY <1>1, <1>2, <1>3 DEF Types

\* The first frame of a session, and the first command to the agent.
LEMMA UpHead ==
    ASSUME Wired, NEW s \in Sids, up[s] # << >>
    PROVE  /\ Head(up[s]) \in Frames /\ Tail(up[s]) \in Seq(Frames)
           /\ Head(up[s]).type \in Listing => Head(up[s]).list \subseteq Jobs
           /\ Head(up[s]).type \in Reports => Head(up[s]).job \in Jobs /\ Head(up[s]).att \in Attempts
<1>1. up[s] \in Seq(Frames) BY DEF Wired
<1>2. Head(up[s]) \in Frames /\ Tail(up[s]) \in Seq(Frames) BY <1>1
<1>3. QED BY <1>2 DEF Frames, Listing, Reports

\* The next command of the server is well typed.
LEMMA DownHead ==
    ASSUME Wired, down # << >>
    PROVE  /\ Head(down) \in Commands /\ Tail(down) \in Seq(Commands)
           /\ Head(down).job \in Jobs /\ Head(down).att \in Attempts
<1>1. down \in Seq(Commands) BY DEF Wired
<1>2. Head(down) \in Commands /\ Tail(down) \in Seq(Commands) BY <1>1
<1>3. QED BY <1>2 DEF Commands

\* A settled pass writes rows of the same types.
LEMMA RequeueTypes ==
    ASSUME TypeOK, NEW p, NEW fresh, Requeue(p, fresh), UNCHANGED <<claims, waiter, chain>>
    PROVE  RowTypes'
<1> USE DEF TypeOK
<1>1. status' \in [Jobs -> InFlight \cup FINAL_AGENT_JOB_STATUSES \cup {"absent", "queued"}]
  BY DEF Requeue, FINAL_AGENT_JOB_STATUSES
<1>2. op' \in [Jobs -> OpTerminal \cup {"queued", "running", "left", "passed"}] BY DEF Requeue, OpTerminal
<1>3. claimed' \in [Jobs -> 0..Unsent] /\ age' \in [Jobs -> 0..2]
  BY BoundsAssumption DEF Requeue, Unsent
<1>4. started' \in [Jobs -> BOOLEAN] BY DEF Requeue
<1>5. logs' \in [Jobs -> SUBSET [att : 0..Unsent, removed : BOOLEAN]] BY DEF Requeue, KeptLines
<1>6. QED BY <1>1, <1>2, <1>3, <1>4, <1>5 DEF RowTypes

\* A report that is recorded ends the job unless it has ended, and its row
\* with it; the row of a lost lock may stay open.
LEMMA DeliverEffect ==
    ASSUME TypeOK, NEW j \in Jobs, Deliver(j)
    PROVE  \/ Final(j) /\ UNCHANGED <<status, age, op, chain>>
           \/ /\ ~Final(j) /\ age' = [age EXCEPT ![j] = 0]
              /\ \E v \in FINAL_AGENT_JOB_STATUSES :
                    /\ status' = [status EXCEPT ![j] = v]
                    /\ \/ op' = IF Linked(j) THEN [op EXCEPT ![j] = OpVerdict[v]] ELSE op
                       \/ /\ kept[j] = "lock" /\ v = "failed"
                          /\ op' = [op EXCEPT ![j] = IF @ \in OpTerminal THEN @ ELSE "left"]
                    /\ \/ chain' = chain
                       \/ /\ chain' = [chain EXCEPT ![j] = @ + 1]
                          /\ Kind[j] = "backup" /\ v = "completed" /\ ~waiter[j]
<1>1. Recorded(j, kept[j]) /\ kept[j] \in {"complete", "fail", "lock", "cancel", "refused"}
  BY DEF Deliver, TypeOK
<1>2. ASSUME NEW v \in FINAL_AGENT_JOB_STATUSES, Finished(j, v)
      PROVE  \/ Final(j) /\ UNCHANGED <<status, age, op, chain>>
             \/ /\ ~Final(j) /\ age' = [age EXCEPT ![j] = 0]
                /\ status' = [status EXCEPT ![j] = v]
                /\ op' = IF Linked(j) THEN [op EXCEPT ![j] = OpVerdict[v]] ELSE op
                /\ \/ chain' = chain
                   \/ /\ chain' = [chain EXCEPT ![j] = @ + 1]
                      /\ Kind[j] = "backup" /\ v = "completed" /\ ~waiter[j]
  BY <1>2, Zenon DEF Finished
<1>3. \/ \E v \in FINAL_AGENT_JOB_STATUSES : Finished(j, v)
      \/ kept[j] = "lock" /\ LeftOpen(j)
  BY <1>1 DEF Recorded, FINAL_AGENT_JOB_STATUSES
<1>4. CASE kept[j] = "lock" /\ LeftOpen(j) BY <1>4 DEF LeftOpen, FINAL_AGENT_JOB_STATUSES
<1>5. QED BY <1>2, <1>3, <1>4

\* A line is stored of the attempt the row names, or not at all.
LEMMA LoggedEffect ==
    ASSUME TypeOK, NEW j \in Jobs, NEW att \in 0..Unsent, Logged(j, att) \/ UNCHANGED <<age, logs>>
    PROVE  /\ logs' \in [Jobs -> SUBSET [att : 0..Unsent, removed : BOOLEAN]]
           /\ age' \in [Jobs -> 0..2] /\ \A k \in Jobs : age'[k] \in {0, age[k]}
           /\ \A k \in Jobs : logs'[k] = logs[k] \/ (k = j /\ claimed[j] = att)
           /\ \A l \in logs'[j] : l \in logs[j] \/ l.att = att
<1> USE DEF TypeOK
<1>1. CASE UNCHANGED <<age, logs>> BY <1>1
<1>2. ASSUME NEW b \in BOOLEAN, claimed[j] = att, age' = [age EXCEPT ![j] = 0],
             logs' = [logs EXCEPT ![j] = @ \cup {[att |-> att, removed |-> b]}]
      PROVE  /\ logs' \in [Jobs -> SUBSET [att : 0..Unsent, removed : BOOLEAN]]
             /\ age' \in [Jobs -> 0..2] /\ \A k \in Jobs : age'[k] \in {0, age[k]}
             /\ \A k \in Jobs : logs'[k] = logs[k] \/ (k = j /\ claimed[j] = att)
             /\ \A l \in logs'[j] : l \in logs[j] \/ l.att = att
  <2>1. PICK e \in [att : 0..Unsent, removed : BOOLEAN] : e = [att |-> att, removed |-> b] OBVIOUS
  <2>2. logs' = [logs EXCEPT ![j] = @ \cup {e}] /\ e.att = att BY <1>2, <2>1
  <2>3. QED BY <1>2, <2>2
<1>3. \/ UNCHANGED <<age, logs>>
      \/ /\ claimed[j] = att /\ age' = [age EXCEPT ![j] = 0]
         /\ \E b \in BOOLEAN : logs' = [logs EXCEPT ![j] = @ \cup {[att |-> att, removed |-> b]}]
  BY DEF Logged
<1>4. QED BY <1>1, <1>2, <1>3

\* The types of the rows and of the processes survive every step.
LEMMA StepTypeOK ==
    ASSUME Types, [Next]_vars
    PROVE  TypeOK'
<1> USE KindAssumption, BoundsAssumption DEF Types, TypeOK, rows, presence, server, wires, agent
<1>1. ASSUME NEW j \in Jobs, queue_agent_job(j) PROVE TypeOK'
  BY <1>1 DEF queue_agent_job, Linked
<1>2. ASSUME NEW j \in Jobs, dispatch_claim(j) PROVE TypeOK'
  BY <1>2 DEF dispatch_claim, InFlight, Unsent
<1>3. ASSUME NEW j \in Jobs, dispatch_skip(j) PROVE TypeOK'
  BY <1>3 DEF dispatch_skip
<1>4. ASSUME NEW j \in Jobs, Deliver(j) PROVE TypeOK'
  <2>1. \A v \in FINAL_AGENT_JOB_STATUSES : OpVerdict[v] \in OpTerminal
    BY DEF OpVerdict, OpTerminal, FINAL_AGENT_JOB_STATUSES
  <2>2. /\ status' \in [Jobs -> InFlight \cup FINAL_AGENT_JOB_STATUSES \cup {"absent", "queued"}]
        /\ age' \in [Jobs -> 0..2] /\ chain' \in [Jobs -> Nat]
    BY <1>4, DeliverEffect
  <2>3. op' \in [Jobs -> OpTerminal \cup {"queued", "running", "left", "passed"}]
    BY <1>4, <2>1, DeliverEffect
  <2>4. QED BY <1>4, <2>2, <2>3 DEF Deliver, Fault
<1>5. ASSUME NEW j \in Jobs, Refused(j) PROVE TypeOK'
  BY <1>5 DEF Refused, Fault
<1>6. ASSUME NEW j \in Jobs, WaiterReturns(j) PROVE TypeOK'
  <2>1. PICK v \in Closings(j) : op' = [op EXCEPT ![j] = v] BY <1>6 DEF WaiterReturns
  <2>2. v \in OpTerminal \cup {"queued", "running", "left", "passed"} BY <2>1 DEF Closings, OpTerminal
  <2>3. QED BY <1>6, <2>1, <2>2 DEF WaiterReturns
<1>7. ASSUME NEW j \in Jobs, Rewait(j) PROVE TypeOK'
  BY <1>7 DEF Rewait
<1>8. ASSUME NEW j \in Jobs, CancelJob(j) PROVE TypeOK'
  BY <1>8 DEF CancelJob, CancelSends, InFlight, FINAL_AGENT_JOB_STATUSES, OpTerminal
<1>9. ASSUME NEW j \in Jobs, request_agent_job_cancel(j) PROVE TypeOK'
  BY <1>9 DEF request_agent_job_cancel, CancelSends, InFlight
<1>10. ASSUME NEW j \in Jobs, CancelQueuedRow(j) PROVE TypeOK'
  BY <1>10 DEF CancelQueuedRow, OpTerminal
<1>10a. ASSUME NEW j \in Jobs, RunAgain(j) PROVE TypeOK'
  BY <1>10a DEF RunAgain, OpTerminal
<1>11. ASSUME NEW j \in Jobs, Age(j) PROVE TypeOK'
  <2>1. age[j] < 2 /\ age' = [age EXCEPT ![j] = @ + 1] BY <1>11 DEF Age
  <2>2. age' \in [Jobs -> 0..2] BY <2>1
  <2>3. QED BY <1>11, <2>2 DEF Age
<1>12. ASSUME NEW x \in sends, SendOk(x) PROVE TypeOK'
  BY <1>12 DEF SendOk
<1>13. ASSUME NEW x \in sends, SendFails(x) PROVE TypeOK'
  <2>1. x.prev \in 0..Unsent /\ x.job \in Jobs BY DEF Wired, Sends, Attempts
  <2>2. QED BY <1>13, <2>1 DEF SendFails, Requeued, Fault
<1>14. ASSUME NEW s \in Sids, HelloRead(s) PROVE TypeOK'
  <2>1. silent' \in BOOLEAN /\ sess' \in {0, sess} BY <1>14 DEF HelloRead
  <2>2. QED BY <1>14, <2>1 DEF HelloRead
<1>15. ASSUME NEW s \in Sids, BeatRead(s) PROVE TypeOK'
  BY <1>15 DEF BeatRead, HeadIs, Taken, Snapshot
<1>16. ASSUME NEW s \in Sids, ReceiveAck(s) PROVE TypeOK'
  <2>1. Head(up[s]).job \in Jobs /\ Head(up[s]).att \in 0..Unsent BY <1>16, UpHead DEF ReceiveAck, HeadIs, Reports, Attempts
  <2>2. QED BY <1>16, <2>1 DEF ReceiveAck, InFlight, Unsent
<1>17. ASSUME NEW s \in Sids, ReceiveStarted(s) PROVE TypeOK'
  <2>1. Head(up[s]).job \in Jobs BY <1>17, UpHead DEF ReceiveStarted, HeadIs, Reports
  <2>2. status' \in [Jobs -> InFlight \cup FINAL_AGENT_JOB_STATUSES \cup {"absent", "queued"}]
    BY <1>17, <2>1 DEF ReceiveStarted, InFlight
  <2>3. claimed' \in [Jobs -> 0..Unsent] /\ age' \in [Jobs -> 0..2] BY <1>17, <2>1 DEF ReceiveStarted, Unsent
  <2>4. started' \in [Jobs -> BOOLEAN] BY <1>17, <2>1 DEF ReceiveStarted
  <2>5. op' \in [Jobs -> OpTerminal \cup {"queued", "running", "left", "passed"}] BY <1>17, <2>1 DEF ReceiveStarted
  <2>6. QED BY <1>17, <2>2, <2>3, <2>4, <2>5 DEF ReceiveStarted
<1>18. ASSUME NEW s \in Sids, ReceiveProgress(s) PROVE TypeOK'
  <2>1. Head(up[s]).job \in Jobs /\ Head(up[s]).att \in 0..Unsent BY <1>18, UpHead DEF ReceiveProgress, HeadIs, Reports, Attempts
  <2>2. QED BY <1>18, <2>1 DEF ReceiveProgress, Progressed
<1>19. ASSUME NEW s \in Sids, ReceiveLog(s) PROVE TypeOK'
  <2>1. Head(up[s]).job \in Jobs /\ Head(up[s]).att \in 0..Unsent BY <1>19, UpHead DEF ReceiveLog, HeadIs, Reports, Attempts
  <2>2. logs' \in [Jobs -> SUBSET [att : 0..Unsent, removed : BOOLEAN]] /\ age' \in [Jobs -> 0..2]
    BY <1>19, <2>1, LoggedEffect DEF ReceiveLog
  <2>3. QED BY <1>19, <2>2 DEF ReceiveLog
<1>20. ASSUME NEW s \in Sids, ServerClose(s) PROVE TypeOK'
  BY <1>20 DEF ServerClose
<1>21. CASE HelloSettle
  <2>1. RowTypes' BY <1>21, RequeueTypes DEF HelloSettle
  <2>2. pass.sid \in Sids BY <1>21 DEF HelloSettle, Wired, Passes, Idle
  <2>3. conn' \in 0..MaxSessions /\ open' \subseteq Sids /\ due' \subseteq Jobs
    <3>1. conn' \in {conn, pass.sid} /\ open' \subseteq open \cup {pass.sid} BY <1>21 DEF HelloSettle
    <3>2. due' \subseteq Jobs BY <1>21 DEF HelloSettle
    <3>3. QED BY <2>2, <3>1, <3>2 DEF Sids
  <2>4. QED BY <1>21, <2>1, <2>3 DEF HelloSettle, RowTypes
<1>22. CASE BeatSettle
  <2>1. RowTypes' BY <1>22, RequeueTypes DEF BeatSettle
  <2>2. pass.sid \in Sids BY <1>22 DEF BeatSettle, Wired, Passes, Idle
  <2>3. conn' \in 0..MaxSessions /\ open' \subseteq Sids /\ due' \subseteq Jobs
    <3>1. conn' \in {conn, pass.sid} /\ open' \subseteq open \cup {pass.sid} BY <1>22 DEF BeatSettle
    <3>2. due' \subseteq Jobs BY <1>22 DEF BeatSettle
    <3>3. QED BY <2>2, <3>1, <3>2 DEF Sids
  <2>4. QED BY <1>22, <2>1, <2>3 DEF BeatSettle, RowTypes
<1>23. CASE AgentConnect
  BY <1>23 DEF AgentConnect, running_job_ids
<1>24. CASE ReceiveRun
  BY <1>24, DownHead DEF ReceiveRun, Framed
<1>25. CASE ReceiveCancel
  BY <1>25, DownHead DEF ReceiveCancel
<1>26. CASE Heartbeat
  BY <1>26 DEF Heartbeat, running_job_ids
<1>27. CASE AgentDrop
  BY <1>27 DEF AgentDrop, Fault
<1>28. CASE AgentCrash
  BY <1>28 DEF AgentCrash, Fault
<1>29. CASE AgentSilent
  BY <1>29 DEF AgentSilent
<1>30. CASE Revoke
  BY <1>30 DEF Revoke
<1>31. CASE ServerCrash
  BY <1>31 DEF ServerCrash, Fault, OpTerminal
<1>32. CASE ReapWrite
  BY <1>32 DEF ReapWrite, FINAL_AGENT_JOB_STATUSES, OpTerminal
<1>33. CASE Rest
  BY <1>33 DEF Rest, vars
<1>34. ASSUME NEW r \in run, WorkerStart(r) PROVE TypeOK'
  BY <1>34 DEF WorkerStart, Staged, Framed
<1>35. ASSUME NEW r \in run, WorkerProgress(r) PROVE TypeOK'
  <2>1. r.job \in Jobs /\ r.att \in 0..Unsent BY DEF Wired, Workers, Attempts
  <2>2. QED BY <1>35, <2>1 DEF WorkerProgress, Progressed
<1>36. ASSUME NEW r \in run, WorkerLog(r) PROVE TypeOK'
  <2>1. r.job \in Jobs /\ r.att \in 0..Unsent BY DEF Wired, Workers, Attempts
  <2>2. logs' \in [Jobs -> SUBSET [att : 0..Unsent, removed : BOOLEAN]] /\ age' \in [Jobs -> 0..2]
    BY <1>36, <2>1, LoggedEffect DEF WorkerLog
  <2>3. QED BY <1>36, <2>2 DEF WorkerLog
<1>37. ASSUME NEW r \in run, WorkerLeaves(r) PROVE TypeOK'
  BY <1>37 DEF WorkerLeaves, Wired, Workers, Attempts
<1>38. ASSUME NEW r \in run, NEW o \in {"complete", "fail", "lock", "cancel"}, WorkerEnd(r, o) PROVE TypeOK'
  BY <1>38 DEF WorkerEnd, Staged, Wired, Workers, Attempts
<1>39. ASSUME NEW k \in {"stale", "queued", "skip"}, ReapRead(k) PROVE TypeOK'
  BY <1>39 DEF ReapRead, Reapable
<1>40. CASE UNCHANGED vars
  BY <1>40 DEF vars
<1>41. QED
  BY <1>1, <1>2, <1>3, <1>4, <1>5, <1>6, <1>7, <1>8, <1>9, <1>10, <1>10a, <1>11, <1>12, <1>13, <1>14, <1>15,
     <1>16, <1>17, <1>18, <1>19, <1>20, <1>21, <1>22, <1>23, <1>24, <1>25, <1>26, <1>27, <1>28,
     <1>29, <1>30, <1>31, <1>32, <1>33, <1>34, <1>35, <1>36, <1>37, <1>38, <1>39, <1>40
  DEF Next, JobStep, SessionStep, WorkerStep

\* What is queued for the wires has the type of the wire.
LEMMA CancelSendsType ==
    ASSUME NEW js \in SUBSET Jobs, NEW c \in 0..MaxSessions
    PROVE  CancelSends(js, c) \subseteq Sends
BY BoundsAssumption DEF CancelSends, Sends, Attempts, Unsent, Sids

\* Taking a frame off a session keeps the type of the wires.
LEMMA TakenType ==
    ASSUME Wired, NEW s \in Sids, up[s] # << >>, Taken(s)
    PROVE  up' \in [Sids -> Seq(Frames)]
BY UpHead DEF Wired, Taken

\* A report put on its session keeps the type of the wires.
LEMMA FramedType ==
    ASSUME Types, NEW r \in Workers, NEW t \in Reports, Framed(r, t)
    PROVE  up' \in [Sids -> Seq(Frames)]
<1>1. [type |-> t, job |-> r.job, att |-> r.att] \in Frames BY DEF Frames, Workers
<1>2. QED BY <1>1 DEF Framed, Types, Wired, Workers

\* What a pass reads of the rows is a reading.
LEMMA SnapshotType ==
    ASSUME TypeOK
    PROVE  Snapshot \in Readings
BY DEF Snapshot, Readings, TypeOK, Statuses

\* The types of the wires and of the passes survive every step.
LEMMA StepWired ==
    ASSUME Types, [Next]_vars
    PROVE  Wired'
<1> USE KindAssumption, BoundsAssumption DEF Types, Wired, rows, presence, server, wires, agent
<1>1. ASSUME NEW j \in Jobs, queue_agent_job(j) PROVE Wired'
  BY <1>1 DEF queue_agent_job
<1>2. ASSUME NEW j \in Jobs, dispatch_claim(j) PROVE Wired'
  <2>1. [cmd |-> "run", job |-> j, att |-> claims[j] + 1, prev |-> claimed[j], conn |-> conn] \in Sends
    BY <1>2 DEF dispatch_claim, Sends, Attempts, Unsent, Sids, TypeOK
  <2>2. QED BY <1>2, <2>1 DEF dispatch_claim
<1>3. ASSUME NEW j \in Jobs, dispatch_skip(j) PROVE Wired'
  BY <1>3 DEF dispatch_skip
<1>4. ASSUME NEW j \in Jobs, Deliver(j) PROVE Wired'
  BY <1>4 DEF Deliver
<1>5. ASSUME NEW j \in Jobs, Refused(j) PROVE Wired'
  BY <1>5 DEF Refused
<1>6. ASSUME NEW j \in Jobs, WaiterReturns(j) PROVE Wired'
  BY <1>6 DEF WaiterReturns
<1>7. ASSUME NEW j \in Jobs, Rewait(j) PROVE Wired'
  BY <1>7 DEF Rewait
<1>8. ASSUME NEW j \in Jobs, CancelJob(j) PROVE Wired'
  <2>1. CancelSends({j}, conn) \subseteq Sends BY CancelSendsType DEF TypeOK
  <2>2. QED BY <1>8, <2>1 DEF CancelJob
<1>9. ASSUME NEW j \in Jobs, request_agent_job_cancel(j) PROVE Wired'
  <2>1. CancelSends({j}, conn) \subseteq Sends BY CancelSendsType DEF TypeOK
  <2>2. QED BY <1>9, <2>1 DEF request_agent_job_cancel
<1>10. ASSUME NEW j \in Jobs, CancelQueuedRow(j) PROVE Wired'
  BY <1>10 DEF CancelQueuedRow
<1>10a. ASSUME NEW j \in Jobs, RunAgain(j) PROVE Wired'
  BY <1>10a DEF RunAgain
<1>11. ASSUME NEW j \in Jobs, Age(j) PROVE Wired'
  BY <1>11 DEF Age
<1>12. ASSUME NEW x \in sends, SendOk(x) PROVE Wired'
  <2>1. [cmd |-> x.cmd, job |-> x.job, att |-> x.att] \in Commands BY DEF Sends, Commands
  <2>2. down' \in Seq(Commands) BY <1>12, <2>1 DEF SendOk
  <2>3. QED BY <1>12, <2>2 DEF SendOk
<1>13. ASSUME NEW x \in sends, SendFails(x) PROVE Wired'
  BY <1>13 DEF SendFails
<1>14. ASSUME NEW s \in Sids, HelloRead(s) PROVE Wired'
  <2>1. Snapshot \in Readings BY SnapshotType DEF Types
  <2>2. up' \in [Sids -> Seq(Frames)] BY <1>14, UpHead DEF HelloRead
  <2>3. Head(up[s]).list \subseteq Jobs BY <1>14, UpHead DEF HelloRead, Listing
  <2>4. pass' = Idle \/ pass' \in Passes
    <3>1. CASE gone BY <1>14, <3>1 DEF HelloRead, LoopFree
    <3>2. CASE ~gone
      <4>1. PICK c \in BOOLEAN : pass' = [kind |-> "hello", sid |-> s, list |-> Head(up[s]).list,
                                          complete |-> c, read |-> Snapshot]
        BY <1>14, <3>2, Zenon DEF HelloRead
      <4>2. QED BY <2>1, <2>3, <4>1 DEF Passes, Listing
    <3>3. QED BY <3>1, <3>2
  <2>5. QED BY <1>14, <2>2, <2>4 DEF HelloRead
<1>15. ASSUME NEW s \in Sids, BeatRead(s) PROVE Wired'
  <2>1. Snapshot \in Readings BY SnapshotType DEF Types
  <2>2. up' \in [Sids -> Seq(Frames)] BY <1>15, TakenType DEF BeatRead, HeadIs
  <2>3. Head(up[s]).list \subseteq Jobs BY <1>15, UpHead DEF BeatRead, HeadIs, Listing
  <2>4. pass' = Idle \/ pass' \in Passes BY <1>15, <2>1, <2>3 DEF BeatRead, Passes, Listing
  <2>5. QED BY <1>15, <2>2, <2>4 DEF BeatRead
<1>16. ASSUME NEW s \in Sids, ReceiveAck(s) PROVE Wired'
  <2>1. up' \in [Sids -> Seq(Frames)] BY <1>16, TakenType DEF ReceiveAck, HeadIs
  <2>2. QED BY <1>16, <2>1 DEF ReceiveAck
<1>17. ASSUME NEW s \in Sids, ReceiveStarted(s) PROVE Wired'
  <2>1. up' \in [Sids -> Seq(Frames)] BY <1>17, TakenType DEF ReceiveStarted, HeadIs
  <2>2. QED BY <1>17, <2>1 DEF ReceiveStarted
<1>18. ASSUME NEW s \in Sids, ReceiveProgress(s) PROVE Wired'
  <2>1. up' \in [Sids -> Seq(Frames)] BY <1>18, TakenType DEF ReceiveProgress, HeadIs
  <2>2. QED BY <1>18, <2>1 DEF ReceiveProgress
<1>19. ASSUME NEW s \in Sids, ReceiveLog(s) PROVE Wired'
  <2>1. up' \in [Sids -> Seq(Frames)] BY <1>19, TakenType DEF ReceiveLog, HeadIs
  <2>2. QED BY <1>19, <2>1 DEF ReceiveLog
<1>20. ASSUME NEW s \in Sids, ServerClose(s) PROVE Wired'
  <2>1. up' \in [Sids -> Seq(Frames)] /\ down' \in Seq(Commands) BY <1>20 DEF ServerClose
  <2>2. QED BY <1>20, <2>1 DEF ServerClose
<1>21. CASE HelloSettle
  <2>1. pass.list \subseteq Jobs /\ pass.sid \in 0..MaxSessions BY <1>21 DEF HelloSettle, Passes, Idle, Sids
  <2>2. CancelSends({j \in pass.list : status'[j] = "cancel_requested"}, pass.sid) \subseteq Sends
    BY <2>1, CancelSendsType
  <2>3. QED BY <1>21, <2>2 DEF HelloSettle
<1>22. CASE BeatSettle
  <2>1. pass.list \subseteq Jobs /\ pass.sid \in 0..MaxSessions BY <1>22 DEF BeatSettle, Passes, Idle, Sids
  <2>2. CancelSends({j \in pass.list : status'[j] = "cancel_requested"}, pass.sid) \subseteq Sends
    BY <2>1, CancelSendsType
  <2>3. QED BY <1>22, <2>2 DEF BeatSettle
<1>23. CASE AgentConnect
  <2>1. <<[type |-> "hello", list |-> running_job_ids]>> \in Seq(Frames)
    BY DEF Frames, Listing, running_job_ids
  <2>2. up' \in [Sids -> Seq(Frames)] BY <1>23, <2>1 DEF AgentConnect
  <2>3. QED BY <1>23, <2>2 DEF AgentConnect
<1>24. CASE ReceiveRun
  <2> DEFINE r == [job |-> Head(down).job, att |-> Head(down).att, sid |-> sess, stage |-> "got"]
  <2>1. r \in Workers BY <1>24, DownHead DEF ReceiveRun, Workers, TypeOK, Sids
  <2>2. up' \in [Sids -> Seq(Frames)] BY <1>24, <2>1, FramedType DEF ReceiveRun, Reports
  <2>3. down' \in Seq(Commands) BY <1>24, DownHead DEF ReceiveRun
  <2>4. run' \subseteq Workers BY <1>24, <2>1 DEF ReceiveRun
  <2>5. QED BY <1>24, <2>2, <2>3, <2>4 DEF ReceiveRun
<1>25. CASE ReceiveCancel
  <2>1. down' \in Seq(Commands) BY <1>25, DownHead DEF ReceiveCancel
  <2>2. QED BY <1>25, <2>1 DEF ReceiveCancel
<1>26. CASE Heartbeat
  <2>1. [type |-> "beat", list |-> running_job_ids] \in Frames
    BY DEF Frames, Listing, running_job_ids
  <2>2. sess \in Sids BY <1>26 DEF Heartbeat, TypeOK, Sids
  <2>3. up' \in [Sids -> Seq(Frames)] BY <1>26, <2>1, <2>2 DEF Heartbeat
  <2>4. QED BY <1>26, <2>3 DEF Heartbeat
<1>27. CASE AgentDrop
  BY <1>27 DEF AgentDrop
<1>28. CASE AgentCrash
  BY <1>28 DEF AgentCrash
<1>29. CASE AgentSilent
  BY <1>29 DEF AgentSilent
<1>30. CASE Revoke
  BY <1>30 DEF Revoke
<1>31. CASE ServerCrash
  BY <1>31 DEF ServerCrash
<1>32. CASE ReapWrite
  BY <1>32 DEF ReapWrite
<1>33. CASE Rest
  BY <1>33 DEF Rest, vars
<1>34. ASSUME NEW r \in run, WorkerStart(r) PROVE Wired'
  <2>1. up' \in [Sids -> Seq(Frames)] BY <1>34, FramedType DEF WorkerStart, Reports
  <2>2. run' \subseteq Workers BY <1>34 DEF WorkerStart, Staged, Workers
  <2>3. QED BY <1>34, <2>1, <2>2 DEF WorkerStart
<1>35. ASSUME NEW r \in run, WorkerProgress(r) PROVE Wired'
  <2>1. up' \in [Sids -> Seq(Frames)] BY <1>35, FramedType DEF WorkerProgress, Reports
  <2>2. QED BY <1>35, <2>1 DEF WorkerProgress
<1>36. ASSUME NEW r \in run, WorkerLog(r) PROVE Wired'
  <2>1. up' \in [Sids -> Seq(Frames)] BY <1>36, FramedType DEF WorkerLog, Reports
  <2>2. QED BY <1>36, <2>1 DEF WorkerLog
<1>37. ASSUME NEW r \in run, WorkerLeaves(r) PROVE Wired'
  BY <1>37 DEF WorkerLeaves
<1>38. ASSUME NEW r \in run, NEW o \in {"complete", "fail", "lock", "cancel"}, WorkerEnd(r, o) PROVE Wired'
  <2>1. run' \subseteq Workers BY <1>38 DEF WorkerEnd, Staged, Workers
  <2>2. QED BY <1>38, <2>1 DEF WorkerEnd
<1>39. ASSUME NEW k \in {"stale", "queued", "skip"}, ReapRead(k) PROVE Wired'
  <2>1. Reapable(k) \subseteq Jobs BY DEF Reapable
  <2>2. QED BY <1>39, <2>1 DEF ReapRead
<1>40. CASE UNCHANGED vars
  BY <1>40 DEF vars
<1>41. QED
  BY <1>1, <1>2, <1>3, <1>4, <1>5, <1>6, <1>7, <1>8, <1>9, <1>10, <1>10a, <1>11, <1>12, <1>13, <1>14, <1>15,
     <1>16, <1>17, <1>18, <1>19, <1>20, <1>21, <1>22, <1>23, <1>24, <1>25, <1>26, <1>27, <1>28,
     <1>29, <1>30, <1>31, <1>32, <1>33, <1>34, <1>35, <1>36, <1>37, <1>38, <1>39, <1>40
  DEF Next, JobStep, SessionStep, WorkerStep

------------------------------------------------------------------------------
(* The statuses: what one step may do to them. *)

\* One job moves: queued, handed out, asked to stop, taken back or ended.
MayMove(a, b) ==
    \/ a = "absent" /\ b = "queued"
    \/ a = "queued" /\ b \in InFlight \cup FINAL_AGENT_JOB_STATUSES
    \/ a \in {"claimed", "running"} /\ b \in Statuses \ {"absent"}
    \/ a = "cancel_requested" /\ b \in FINAL_AGENT_JOB_STATUSES
OneMoves == \E j \in Jobs, b \in Statuses : MayMove(status[j], b) /\ status' = [status EXCEPT ![j] = b]

\* Several jobs are settled: taken back, or ended.
Settles(a, b) ==
    \/ a \in {"claimed", "running"} /\ b = "queued"
    \/ a \in InFlight \cup {"queued"} /\ b \in FINAL_AGENT_JOB_STATUSES
ManySettle == \A j \in Jobs : status'[j] = status[j] \/ Settles(status[j], status'[j])

StatusStep == status' = status \/ OneMoves \/ ManySettle

\* The job of the first report of a session was queued once.
LEMMA UpNamed ==
    ASSUME Wired, Named, NEW s \in Sids, up[s] # << >>, Head(up[s]).type \in Reports
    PROVE  status[Head(up[s]).job] # "absent"
<1>1. up[s] \in Seq(Frames) BY DEF Wired
<1>2. QED BY <1>1, ElemsTail DEF Named

\* A settled pass takes back a job only from the status it was read with, and
\* ends one only while it is not final.
LEMMA RequeueSettles ==
    ASSUME Types, Named, pass # Idle, NEW fresh, Requeue(pass, fresh)
    PROVE  ManySettle
<1> SUFFICES ASSUME NEW j \in Jobs PROVE status'[j] = status[j] \/ Settles(status[j], status'[j])
    BY DEF ManySettle
<1> DEFINE d == Settled(pass, j)
<1>1. d \in {"keep", "cancel", "fail", "requeue"} BY DEF Settled
<1>2. status'[j] = CASE d = "cancel" -> "canceled" [] d = "fail" -> "failed"
                     [] d = "requeue" -> "queued" [] OTHER -> status[j]
  BY DEF Requeue
<1>3. d # "keep" => ~Final(j) /\ pass.read[j].status \in InFlight BY DEF Settled
<1>4. d \in {"fail", "requeue"} => status[j] = pass.read[j].status /\ status[j] # "cancel_requested"
  BY DEF Settled
<1>5. pass.read[j].status \in InFlight => status[j] # "absent" BY DEF Named, InFlight
<1>6. d # "keep" => status[j] \in InFlight \cup {"queued"}
  BY <1>3, <1>5 DEF Types, TypeOK, Final
<1>7. d \in {"fail", "requeue"} => status[j] \in {"claimed", "running"}
  BY <1>3, <1>4 DEF InFlight
<1> HIDE DEF d
<1>8. QED BY <1>1, <1>2, <1>6, <1>7 DEF Settles, FINAL_AGENT_JOB_STATUSES, InFlight

\* Every step is one of the three.
LEMMA StepStatus ==
    ASSUME Types, Named, [Next]_vars
    PROVE  StatusStep
<1> USE DEF StatusStep, Types, rows, presence, server, wires, agent, Statuses
<1>1. ASSUME NEW j \in Jobs, queue_agent_job(j) PROVE StatusStep
  BY <1>1 DEF queue_agent_job, OneMoves, MayMove, InFlight, FINAL_AGENT_JOB_STATUSES, TypeOK
<1>2. ASSUME NEW j \in Jobs, dispatch_claim(j) PROVE StatusStep
  BY <1>2 DEF dispatch_claim, OneMoves, MayMove, InFlight, FINAL_AGENT_JOB_STATUSES, TypeOK
<1>3. ASSUME NEW j \in Jobs, dispatch_skip(j) PROVE StatusStep
  BY <1>3 DEF dispatch_skip
<1>4. ASSUME NEW j \in Jobs, Deliver(j) PROVE StatusStep
  <2>1. status[j] # "absent" BY <1>4 DEF Deliver, Named
  <2>2. CASE UNCHANGED status BY <2>2
  <2>3. ASSUME ~Final(j), NEW v \in FINAL_AGENT_JOB_STATUSES, status' = [status EXCEPT ![j] = v] PROVE OneMoves
    BY <2>1, <2>3 DEF Final, OneMoves, MayMove, FINAL_AGENT_JOB_STATUSES, InFlight, TypeOK
  <2>4. QED BY <1>4, <2>2, <2>3, DeliverEffect
<1>5. ASSUME NEW j \in Jobs, Refused(j) PROVE StatusStep
  BY <1>5 DEF Refused
<1>6. ASSUME NEW j \in Jobs, WaiterReturns(j) PROVE StatusStep
  BY <1>6 DEF WaiterReturns
<1>7. ASSUME NEW j \in Jobs, Rewait(j) PROVE StatusStep
  BY <1>7 DEF Rewait
<1>8. ASSUME NEW j \in Jobs, CancelJob(j) PROVE StatusStep
  BY <1>8 DEF CancelJob, OneMoves, MayMove, InFlight, FINAL_AGENT_JOB_STATUSES, TypeOK
<1>9. ASSUME NEW j \in Jobs, request_agent_job_cancel(j) PROVE StatusStep
  BY <1>9 DEF request_agent_job_cancel, OneMoves, MayMove, InFlight, FINAL_AGENT_JOB_STATUSES, TypeOK
<1>10. ASSUME NEW j \in Jobs, CancelQueuedRow(j) PROVE StatusStep
  BY <1>10 DEF CancelQueuedRow
<1>10a. ASSUME NEW j \in Jobs, RunAgain(j) PROVE StatusStep
  BY <1>10a DEF RunAgain
<1>11. ASSUME NEW j \in Jobs, Age(j) PROVE StatusStep
  BY <1>11 DEF Age
<1>12. ASSUME NEW x \in sends, SendOk(x) PROVE StatusStep
  BY <1>12 DEF SendOk
<1>13. ASSUME NEW x \in sends, SendFails(x) PROVE StatusStep
  <2>1. x.job \in Jobs BY DEF Wired, Sends
  <2>2. QED BY <1>13, <2>1 DEF SendFails, Requeued, OneMoves, MayMove
<1>14. ASSUME NEW s \in Sids, HelloRead(s) PROVE StatusStep
  BY <1>14 DEF HelloRead
<1>15. ASSUME NEW s \in Sids, BeatRead(s) PROVE StatusStep
  BY <1>15 DEF BeatRead
<1>16. ASSUME NEW s \in Sids, ReceiveAck(s) PROVE StatusStep
  <2>1. Head(up[s]).job \in Jobs /\ status[Head(up[s]).job] # "absent"
    BY <1>16, UpHead, UpNamed DEF ReceiveAck, HeadIs, Reports
  <2>2. QED
    BY <1>16, <2>1 DEF ReceiveAck, Final, OneMoves, MayMove, FINAL_AGENT_JOB_STATUSES, InFlight, TypeOK
<1>17. ASSUME NEW s \in Sids, ReceiveStarted(s) PROVE StatusStep
  <2>1. Head(up[s]).job \in Jobs /\ status[Head(up[s]).job] # "absent"
    BY <1>17, UpHead, UpNamed DEF ReceiveStarted, HeadIs, Reports
  <2>2. QED
    BY <1>17, <2>1 DEF ReceiveStarted, Final, OneMoves, MayMove, FINAL_AGENT_JOB_STATUSES, InFlight, TypeOK
<1>18. ASSUME NEW s \in Sids, ReceiveProgress(s) PROVE StatusStep
  BY <1>18 DEF ReceiveProgress
<1>19. ASSUME NEW s \in Sids, ReceiveLog(s) PROVE StatusStep
  BY <1>19 DEF ReceiveLog
<1>20. ASSUME NEW s \in Sids, ServerClose(s) PROVE StatusStep
  BY <1>20 DEF ServerClose
<1>21. CASE HelloSettle
  <2>1. pass # Idle BY <1>21 DEF HelloSettle, Idle
  <2>2. ManySettle BY <1>21, <2>1, RequeueSettles DEF HelloSettle
  <2>3. QED BY <2>2
<1>22. CASE BeatSettle
  <2>1. pass # Idle BY <1>22 DEF BeatSettle, Idle
  <2>2. ManySettle BY <1>22, <2>1, RequeueSettles DEF BeatSettle
  <2>3. QED BY <2>2
<1>23. CASE AgentConnect
  BY <1>23 DEF AgentConnect
<1>24. CASE ReceiveRun
  BY <1>24 DEF ReceiveRun
<1>25. CASE ReceiveCancel
  BY <1>25 DEF ReceiveCancel
<1>26. CASE Heartbeat
  BY <1>26 DEF Heartbeat
<1>27. CASE AgentDrop
  BY <1>27 DEF AgentDrop
<1>28. CASE AgentCrash
  BY <1>28 DEF AgentCrash
<1>29. CASE AgentSilent
  BY <1>29 DEF AgentSilent
<1>30. CASE Revoke
  BY <1>30 DEF Revoke
<1>31. CASE ServerCrash
  BY <1>31 DEF ServerCrash
<1>32. CASE ReapWrite
  <2>1. \A j \in Jobs : status'[j] = status[j] \/ (status[j] \in InFlight \cup {"queued"} /\ status'[j] \in {"canceled", "failed"})
    BY <1>32 DEF ReapWrite
  <2>2. ManySettle BY <2>1 DEF ManySettle, Settles, FINAL_AGENT_JOB_STATUSES
  <2>3. QED BY <2>2
<1>33. CASE Rest
  BY <1>33 DEF Rest, vars
<1>34. ASSUME NEW r \in run, WorkerStart(r) PROVE StatusStep
  BY <1>34 DEF WorkerStart
<1>35. ASSUME NEW r \in run, WorkerProgress(r) PROVE StatusStep
  BY <1>35 DEF WorkerProgress
<1>36. ASSUME NEW r \in run, WorkerLog(r) PROVE StatusStep
  BY <1>36 DEF WorkerLog
<1>37. ASSUME NEW r \in run, WorkerLeaves(r) PROVE StatusStep
  BY <1>37 DEF WorkerLeaves
<1>38. ASSUME NEW r \in run, NEW o \in {"complete", "fail", "lock", "cancel"}, WorkerEnd(r, o) PROVE StatusStep
  BY <1>38 DEF WorkerEnd
<1>39. ASSUME NEW k \in {"stale", "queued", "skip"}, ReapRead(k) PROVE StatusStep
  BY <1>39 DEF ReapRead
<1>40. CASE UNCHANGED vars
  BY <1>40 DEF vars
<1>41. QED
  BY <1>1, <1>2, <1>3, <1>4, <1>5, <1>6, <1>7, <1>8, <1>9, <1>10, <1>10a, <1>11, <1>12, <1>13, <1>14, <1>15,
     <1>16, <1>17, <1>18, <1>19, <1>20, <1>21, <1>22, <1>23, <1>24, <1>25, <1>26, <1>27, <1>28,
     <1>29, <1>30, <1>31, <1>32, <1>33, <1>34, <1>35, <1>36, <1>37, <1>38, <1>39, <1>40
  DEF Next, JobStep, SessionStep, WorkerStep

\* A job that was queued once stays so.
LEMMA Stays ==
    ASSUME Types, Named, [Next]_vars, NEW j \in Jobs, status[j] # "absent"
    PROVE  status'[j] # "absent"
<1>1. StatusStep BY StepStatus
<1>2. CASE OneMoves
  BY <1>2 DEF OneMoves, MayMove, Types, TypeOK, InFlight, FINAL_AGENT_JOB_STATUSES
<1>3. CASE ManySettle BY <1>3 DEF ManySettle, Settles, FINAL_AGENT_JOB_STATUSES
<1>4. QED BY <1>1, <1>2, <1>3 DEF StatusStep

\* The frames after a step that takes one, and after one that adds one.
LEMMA TakenElems ==
    ASSUME Wired, NEW s \in Sids, up[s] # << >>, Taken(s)
    PROVE  \A q \in Sids : Elems(up'[q]) \subseteq Elems(up[q])
BY ElemsTail DEF Wired, Taken

\* A report adds at most itself to the wire of its own session.
LEMMA FramedElems ==
    ASSUME Types, NEW r \in Workers, NEW t \in Reports, Framed(r, t)
    PROVE  \A q \in Sids : \A m \in Elems(up'[q]) :
              \/ m \in Elems(up[q])
              \/ q = sess /\ r.sid = sess /\ m = [type |-> t, job |-> r.job, att |-> r.att]
<1>1. [type |-> t, job |-> r.job, att |-> r.att] \in Frames BY DEF Frames, Workers
<1>2. QED BY <1>1, ElemsAppend DEF Framed, Types, Wired, Workers

\* The jobs that something under way names exist.
LEMMA JobsNamed ==
    ASSUME Wired
    PROVE  /\ \A x \in sends : x.job \in Jobs
           /\ \A c \in Elems(down) : c.job \in Jobs
           /\ \A s \in Sids : \A m \in Elems(up[s]) : m.type \in Reports => m.job \in Jobs
           /\ \A r \in run : r.job \in Jobs
<1>1. Elems(down) \subseteq Commands BY DEF Wired, Elems
<1>2. \A s \in Sids : Elems(up[s]) \subseteq Frames BY DEF Wired, Elems
<1>3. QED BY <1>1, <1>2 DEF Wired, Sends, Commands, Frames, Workers, Listing, Reports

\* Nothing under way comes to name a job that was never queued.
LEMMA StepNamed ==
    ASSUME Types, Named, [Next]_vars
    PROVE  Named'
<1>a. \A j \in Jobs : status[j] # "absent" => status'[j] # "absent" BY Stays
<1> USE <1>a, JobsNamed DEF Types, Named, rows, presence, server, wires, agent
<1>1. ASSUME NEW j \in Jobs, queue_agent_job(j) PROVE Named'
  BY <1>1 DEF queue_agent_job
<1>2. ASSUME NEW j \in Jobs, dispatch_claim(j) PROVE Named'
  BY <1>2 DEF dispatch_claim
<1>3. ASSUME NEW j \in Jobs, dispatch_skip(j) PROVE Named'
  BY <1>3 DEF dispatch_skip
<1>4. ASSUME NEW j \in Jobs, Deliver(j) PROVE Named'
  BY <1>4 DEF Deliver, Types, TypeOK
<1>5. ASSUME NEW j \in Jobs, Refused(j) PROVE Named'
  BY <1>5 DEF Refused, Types, TypeOK
<1>6. ASSUME NEW j \in Jobs, WaiterReturns(j) PROVE Named'
  BY <1>6 DEF WaiterReturns
<1>7. ASSUME NEW j \in Jobs, Rewait(j) PROVE Named'
  BY <1>7 DEF Rewait
<1>8. ASSUME NEW j \in Jobs, CancelJob(j) PROVE Named'
  BY <1>8 DEF CancelJob, CancelSends
<1>9. ASSUME NEW j \in Jobs, request_agent_job_cancel(j) PROVE Named'
  BY <1>9 DEF request_agent_job_cancel, CancelSends
<1>10. ASSUME NEW j \in Jobs, CancelQueuedRow(j) PROVE Named'
  BY <1>10 DEF CancelQueuedRow
<1>10a. ASSUME NEW j \in Jobs, RunAgain(j) PROVE Named'
  BY <1>10a DEF RunAgain
<1>11. ASSUME NEW j \in Jobs, Age(j) PROVE Named'
  BY <1>11 DEF Age
<1>12. ASSUME NEW x \in sends, SendOk(x) PROVE Named'
  <2>1. [cmd |-> x.cmd, job |-> x.job, att |-> x.att] \in Commands BY DEF Types, Wired, Sends, Commands
  <2>2. \A c \in Elems(down') : c \in Elems(down) \/ c.job = x.job
    BY <1>12, <2>1, ElemsAppend DEF SendOk, Types, Wired
  <2>3. QED BY <1>12, <2>2 DEF SendOk
<1>13. ASSUME NEW x \in sends, SendFails(x) PROVE Named'
  BY <1>13 DEF SendFails
<1>14. ASSUME NEW s \in Sids, HelloRead(s) PROVE Named'
  <2>1. \A q \in Sids : Elems(up'[q]) \subseteq Elems(up[q])
    BY <1>14, TakenElems, ElemsEmpty DEF HelloRead, Taken, Types, Wired
  <2>2. pass' # Idle => \A j \in Jobs : pass'.read[j].status # "absent" => status[j] # "absent"
    BY <1>14 DEF HelloRead, Snapshot, LoopFree
  <2>3. QED BY <1>14, <2>1, <2>2 DEF HelloRead
<1>15. ASSUME NEW s \in Sids, BeatRead(s) PROVE Named'
  <2>1. \A q \in Sids : Elems(up'[q]) \subseteq Elems(up[q]) BY <1>15, TakenElems DEF BeatRead, HeadIs
  <2>2. pass' # Idle => \A j \in Jobs : pass'.read[j].status # "absent" => status[j] # "absent"
    BY <1>15 DEF BeatRead, Snapshot
  <2>3. QED BY <1>15, <2>1, <2>2 DEF BeatRead
<1>16. ASSUME NEW s \in Sids, ReceiveAck(s) PROVE Named'
  <2>1. \A q \in Sids : Elems(up'[q]) \subseteq Elems(up[q]) BY <1>16, TakenElems DEF ReceiveAck, HeadIs
  <2>2. QED BY <1>16, <2>1 DEF ReceiveAck
<1>17. ASSUME NEW s \in Sids, ReceiveStarted(s) PROVE Named'
  <2>1. \A q \in Sids : Elems(up'[q]) \subseteq Elems(up[q]) BY <1>17, TakenElems DEF ReceiveStarted, HeadIs
  <2>2. QED BY <1>17, <2>1 DEF ReceiveStarted
<1>18. ASSUME NEW s \in Sids, ReceiveProgress(s) PROVE Named'
  <2>1. \A q \in Sids : Elems(up'[q]) \subseteq Elems(up[q]) BY <1>18, TakenElems DEF ReceiveProgress, HeadIs
  <2>2. QED BY <1>18, <2>1 DEF ReceiveProgress
<1>19. ASSUME NEW s \in Sids, ReceiveLog(s) PROVE Named'
  <2>1. \A q \in Sids : Elems(up'[q]) \subseteq Elems(up[q]) BY <1>19, TakenElems DEF ReceiveLog, HeadIs
  <2>2. QED BY <1>19, <2>1 DEF ReceiveLog
<1>20. ASSUME NEW s \in Sids, ServerClose(s) PROVE Named'
  <2>1. /\ \A q \in Sids : Elems(up'[q]) \subseteq Elems(up[q])
        /\ Elems(down') \subseteq Elems(down)
    BY <1>20, ElemsEmpty DEF ServerClose, Types, Wired
  <2>2. QED BY <1>20, <2>1 DEF ServerClose
<1>21. CASE HelloSettle
  <2>1. \A y \in sends' : status'[y.job] # "absent" BY <1>21 DEF HelloSettle, CancelSends
  <2>2. QED BY <1>21, <2>1 DEF HelloSettle
<1>22. CASE BeatSettle
  <2>1. \A y \in sends' : status'[y.job] # "absent" BY <1>22 DEF BeatSettle, CancelSends
  <2>2. QED BY <1>22, <2>1 DEF BeatSettle
<1>23. CASE AgentConnect
  <2>1. \A q \in Sids : \A m \in Elems(up'[q]) : m \in Elems(up[q]) \/ m.type = "hello"
    BY <1>23, ElemsEmpty, ElemsOne DEF AgentConnect, Types, Wired
  <2>2. QED BY <1>23, <2>1 DEF AgentConnect, Reports
<1>24. CASE ReceiveRun
  <2> DEFINE r == [job |-> Head(down).job, att |-> Head(down).att, sid |-> sess, stage |-> "got"]
  <2>1. Elems(down') \subseteq Elems(down) /\ Head(down) \in Elems(down)
    BY <1>24, ElemsTail DEF ReceiveRun, Types, Wired
  <2>2. r \in Workers BY <1>24, DownHead DEF ReceiveRun, Workers, Types, TypeOK, Sids
  <2>3. \A q \in Sids : \A m \in Elems(up'[q]) : m \in Elems(up[q]) \/ m.job = Head(down).job
    BY <1>24, <2>2, FramedElems DEF ReceiveRun, Reports
  <2>4. QED BY <1>24, <2>1, <2>3 DEF ReceiveRun
<1>25. CASE ReceiveCancel
  <2>1. Elems(down') \subseteq Elems(down) /\ Head(down) \in Elems(down)
    BY <1>25, ElemsTail DEF ReceiveCancel, Types, Wired
  <2>2. \A j \in Jobs : kept'[j] # "none" => kept[j] # "none" \/ j = Head(down).job
    BY <1>25 DEF ReceiveCancel, Types, TypeOK
  <2>3. QED BY <1>25, <2>1, <2>2 DEF ReceiveCancel
<1>26. CASE Heartbeat
  <2>1. [type |-> "beat", list |-> running_job_ids] \in Frames BY DEF Frames, Listing, running_job_ids
  <2>2. \A q \in Sids : \A m \in Elems(up'[q]) : m \in Elems(up[q]) \/ m.type = "beat"
    BY <1>26, <2>1, ElemsAppend DEF Heartbeat, Types, Wired
  <2>3. QED BY <1>26, <2>2 DEF Heartbeat, Reports
<1>27. CASE AgentDrop
  BY <1>27, ElemsEmpty DEF AgentDrop
<1>28. CASE AgentCrash
  BY <1>28, ElemsEmpty DEF AgentCrash
<1>29. CASE AgentSilent
  BY <1>29 DEF AgentSilent
<1>30. CASE Revoke
  BY <1>30 DEF Revoke
<1>31. CASE ServerCrash
  BY <1>31, ElemsEmpty DEF ServerCrash
<1>32. CASE ReapWrite
  BY <1>32 DEF ReapWrite
<1>33. CASE Rest
  BY <1>33 DEF Rest, vars
<1>34. ASSUME NEW r \in run, WorkerStart(r) PROVE Named'
  <2>1. \A q \in Sids : \A m \in Elems(up'[q]) : m \in Elems(up[q]) \/ m.job = r.job
    BY <1>34, FramedElems DEF WorkerStart, Reports, Types, Wired
  <2>2. \A y \in run' : y.job = r.job \/ y \in run
    BY <1>34 DEF WorkerStart, Staged, Wired, Workers
  <2>3. QED BY <1>34, <2>1, <2>2 DEF WorkerStart
<1>35. ASSUME NEW r \in run, WorkerProgress(r) PROVE Named'
  <2>1. \A q \in Sids : \A m \in Elems(up'[q]) : m \in Elems(up[q]) \/ m.job = r.job
    BY <1>35, FramedElems DEF WorkerProgress, Reports, Types, Wired
  <2>2. QED BY <1>35, <2>1 DEF WorkerProgress, Staged
<1>36. ASSUME NEW r \in run, WorkerLog(r) PROVE Named'
  <2>1. \A q \in Sids : \A m \in Elems(up'[q]) : m \in Elems(up[q]) \/ m.job = r.job
    BY <1>36, FramedElems DEF WorkerLog, Reports, Types, Wired
  <2>2. QED BY <1>36, <2>1 DEF WorkerLog, Staged
<1>37. ASSUME NEW r \in run, WorkerLeaves(r) PROVE Named'
  BY <1>37 DEF WorkerLeaves
<1>38. ASSUME NEW r \in run, NEW o \in {"complete", "fail", "lock", "cancel"}, WorkerEnd(r, o) PROVE Named'
  <2>1. \A y \in run' : y.job = r.job \/ y \in run
    BY <1>38 DEF WorkerEnd, Staged, Wired, Workers
  <2>2. \A j \in Jobs : kept'[j] # "none" => kept[j] # "none" \/ j = r.job
    BY <1>38 DEF WorkerEnd, TypeOK
  <2>3. QED BY <1>38, <2>1, <2>2 DEF WorkerEnd
<1>39. ASSUME NEW k \in {"stale", "queued", "skip"}, ReapRead(k) PROVE Named'
  BY <1>39 DEF ReapRead
<1>40. CASE UNCHANGED vars
  BY <1>40 DEF vars
<1>41. QED
  BY <1>1, <1>2, <1>3, <1>4, <1>5, <1>6, <1>7, <1>8, <1>9, <1>10, <1>10a, <1>11, <1>12, <1>13, <1>14, <1>15,
     <1>16, <1>17, <1>18, <1>19, <1>20, <1>21, <1>22, <1>23, <1>24, <1>25, <1>26, <1>27, <1>28,
     <1>29, <1>30, <1>31, <1>32, <1>33, <1>34, <1>35, <1>36, <1>37, <1>38, <1>39, <1>40
  DEF Next, JobStep, SessionStep, WorkerStep

\* Every step keeps the types and the names.
LEMMA StepTypes ==
    ASSUME Types, Named, [Next]_vars
    PROVE  (Types /\ Named)'
BY StepTypeOK, StepWired, StepNamed DEF Types

\* The types hold of every reachable state, and what is under way names jobs
\* that exist.
LEMMA TypesAlways == Spec => [](Types /\ Named)
<1>1. Types /\ Named /\ [Next]_vars => (Types /\ Named)' BY StepTypes
<1>2. QED BY InitTypes, <1>1, PTL DEF Spec

------------------------------------------------------------------------------
(* The contract. *)

\* The statuses of the protocol seen as phases and verdicts of the contract.
PhaseOf(a) ==
    CASE a = "absent" -> "none"
      [] a = "queued" -> "waiting"
      [] a \in {"claimed", "running"} -> "out"
      [] a = "cancel_requested" -> "stopping"
      [] OTHER -> "ended"
VerdictOf(a) == IF a \in FINAL_AGENT_JOB_STATUSES THEN a ELSE "open"

\* The refinement mapping, status by status.
LEMMA PhaseFacts ==
    ASSUME NEW a \in Statuses
    PROVE  /\ PhaseOf(a) = "none" <=> a = "absent"
           /\ PhaseOf(a) = "waiting" <=> a = "queued"
           /\ PhaseOf(a) = "out" <=> a \in {"claimed", "running"}
           /\ PhaseOf(a) = "stopping" <=> a = "cancel_requested"
           /\ PhaseOf(a) = "ended" <=> a \in FINAL_AGENT_JOB_STATUSES
           /\ PhaseOf(a) \in {"none", "waiting", "out", "stopping", "ended"}
           /\ VerdictOf(a) \in Contract!Verdict \cup {"open"}
           /\ VerdictOf(a) = "open" <=> a \notin FINAL_AGENT_JOB_STATUSES
           /\ a \in FINAL_AGENT_JOB_STATUSES => VerdictOf(a) = a
BY DEF PhaseOf, VerdictOf, Statuses, InFlight, FINAL_AGENT_JOB_STATUSES, Contract!Verdict
\* A step of the protocol is a step of the contract, or leaves it alone.
LEMMA StepContract ==
    ASSUME TypeOK, TypeOK', StatusStep
    PROVE  [Contract!Next]_(Contract!vars)
<1> DEFINE ph == [j \in Jobs |-> PhaseOf(status[j])]
           ve == [j \in Jobs |-> VerdictOf(status[j])]
           ph2 == [j \in Jobs |-> PhaseOf(status'[j])]
           ve2 == [j \in Jobs |-> VerdictOf(status'[j])]
<1>1. status \in [Jobs -> Statuses] /\ status' \in [Jobs -> Statuses] BY DEF TypeOK, Statuses
<1>2. CASE status' = status BY <1>2 DEF Contract!vars, Final
<1>3. CASE OneMoves
  <2>1. PICK j \in Jobs, b \in Statuses : MayMove(status[j], b) /\ status' = [status EXCEPT ![j] = b]
    BY <1>3 DEF OneMoves
  <2>2. status'[j] = b /\ \A k \in Jobs : k # j => status'[k] = status[k] BY <1>1, <2>1
  <2>3. ph2 = [ph EXCEPT ![j] = PhaseOf(b)] /\ ve2 = [ve EXCEPT ![j] = VerdictOf(b)]
    BY <2>2
  <2>4. ph[j] = PhaseOf(status[j]) /\ ve[j] = VerdictOf(status[j]) OBVIOUS
  <2>5. \/ ph[j] = "none" /\ PhaseOf(b) = "waiting"
        \/ ph[j] = "waiting" /\ PhaseOf(b) \in {"out", "stopping"}
        \/ ph[j] = "out" /\ PhaseOf(b) \in {"out", "waiting", "stopping"}
        \/ ph[j] \in {"waiting", "out", "stopping"} /\ PhaseOf(b) = "ended"
    BY <1>1, <2>1, <2>4, PhaseFacts DEF MayMove, Statuses, InFlight
  <2>6. PhaseOf(b) # "ended" => VerdictOf(b) = "open" BY <2>1, PhaseFacts
  <2>7. PhaseOf(b) = "ended" => VerdictOf(b) \in Contract!Verdict
    BY <2>1, PhaseFacts DEF Contract!Verdict, FINAL_AGENT_JOB_STATUSES
  <2>8. ph[j] # "ended" => ve[j] = "open" BY <1>1, <2>4, PhaseFacts
  <2> HIDE DEF ph, ve, ph2, ve2
  <2>9. PhaseOf(b) # "ended" => ve2 = ve
    BY <2>3, <2>5, <2>6, <2>8 DEF ve
  <2>10. ph \in [Jobs -> {"none", "waiting", "out", "stopping", "ended"}] BY <1>1, PhaseFacts DEF ph
  <2>11. \/ ph2 = ph /\ ve2 = ve
         \/ ph[j] \in {"none"} /\ ph2 = [ph EXCEPT ![j] = "waiting"] /\ ve2 = ve
         \/ ph[j] \in {"waiting"} /\ ph2 = [ph EXCEPT ![j] = "out"] /\ ve2 = ve
         \/ ph[j] \in {"out"} /\ ph2 = [ph EXCEPT ![j] = "waiting"] /\ ve2 = ve
         \/ ph[j] \in {"waiting", "out"} /\ ph2 = [ph EXCEPT ![j] = "stopping"] /\ ve2 = ve
         \/ \E v \in Contract!Verdict : /\ ph[j] \in {"waiting", "out", "stopping"}
                                        /\ ph2 = [ph EXCEPT ![j] = "ended"] /\ ve2 = [ve EXCEPT ![j] = v]
    BY <2>3, <2>5, <2>7, <2>9, <2>10
  <2>12. QED
    BY <2>11 DEF Contract!Next, Contract!JobStep, Contract!Queue, Contract!HandOut, Contract!TakeBack,
                 Contract!AskToStop, Contract!End, Contract!Move, Contract!vars, Final, ph, ve, ph2, ve2,
                 PhaseOf, VerdictOf
<1>4. CASE ManySettle
  <2>0. PICK js \in SUBSET Jobs : js = {j \in Jobs : status'[j] # status[j]} OBVIOUS
  <2>1. \A j \in js : \/ ph[j] = "out" /\ ph2[j] = "waiting" /\ ve2[j] = ve[j]
                      \/ /\ ph[j] \in {"waiting", "out", "stopping"}
                         /\ ph2[j] = "ended" /\ ve2[j] \in Contract!Verdict
    BY <1>1, <1>4, <2>0, PhaseFacts DEF ManySettle, Settles, Contract!Verdict, FINAL_AGENT_JOB_STATUSES, InFlight, Statuses
  <2>2. \A j \in Jobs \ js : ph2[j] = ph[j] /\ ve2[j] = ve[j] BY <2>0
  <2>3. /\ ph2 \in [Jobs -> {"none", "waiting", "out", "stopping", "ended"}]
        /\ ve2 \in [Jobs -> Contract!Verdict \cup {"open"}]
    BY <1>1, PhaseFacts
  <2>4. Contract!Settle(js)
    BY <2>1, <2>2, <2>3 DEF Contract!Settle, Final, PhaseOf, VerdictOf
  <2>5. QED BY <2>4, Zenon DEF Contract!Next
<1>5. QED BY <1>2, <1>3, <1>4 DEF StatusStep

\* KeepsContract: the protocol of agent jobs implements the contract. A job
\* is handed out from the queue only, is never handed out after it was asked
\* to stop, and ends once, whatever sessions, reports, the reaper, cancels,
\* crashes and lost or late frames do (agent_job_reaper.py, sessions.py,
\* agents.py; here for every number of jobs, attempts, sessions and faults).
THEOREM ContractKept == Spec => KeepsContract
<1>1. Init => Contract!Init BY DEF Init, Contract!Init, Final, FINAL_AGENT_JOB_STATUSES
<1>2. Types /\ Named /\ (Types /\ Named)' /\ [Next]_vars => [Contract!Next]_(Contract!vars)
  BY StepStatus, StepContract DEF Types
<1>3. QED BY <1>1, <1>2, TypesAlways, PTL DEF Spec, KeepsContract, Contract!Spec
------------------------------------------------------------------------------
(* The verdict of a job and of the operation it carries. *)

\* What the two rows of a job say of each other. A job that is open has no
\* completed row and no chain yet; a chain comes after the wait, if there is
\* one; only a maintenance job reports a lock, and only its row waits for
\* another job when it has ended.
VerdictOfOne(j) ==
    /\ ~Final(j) => op[j] \notin {"completed", "left", "passed"} /\ chain[j] = 0
    /\ ~Final(j) /\ op[j] = "queued" => Kind[j] = "backup"
    /\ op[j] \in {"left", "passed"} => Kind[j] = "maintenance"
    /\ waiter[j] => chain[j] = 0
    /\ chain[j] <= 1
    /\ kept[j] = "lock" => Kind[j] = "maintenance"
    /\ (Linked(j) /\ Final(j)) => /\ Kind[j] = "backup" => op[j] \in OpTerminal
                                  /\ op[j] = "completed" <=> status[j] = "completed"
                                  /\ op[j] \in {"left", "queued", "passed"} => status[j] = "failed"
Verdict == \A j \in Jobs : VerdictOfOne(j)

\* A settled pass ends a job with its row, or takes back one that is open.
LEMMA RequeueVerdict ==
    ASSUME Types, Named, Verdict, NEW fresh, Requeue(pass, fresh), UNCHANGED <<chain, waiter, kept>>
    PROVE  Verdict'
<1> SUFFICES ASSUME NEW j \in Jobs PROVE VerdictOfOne(j)' BY DEF Verdict
<1> DEFINE d == Settled(pass, j)
<1>1. d \in {"keep", "cancel", "fail", "requeue"} BY DEF Settled
<1>2. status'[j] = CASE d = "cancel" -> "canceled" [] d = "fail" -> "failed"
                     [] d = "requeue" -> "queued" [] OTHER -> status[j]
  BY DEF Requeue
<1>3. op'[j] = CASE d = "cancel" /\ Linked(j) -> "cancelled"
                 [] d = "requeue" /\ Kind[j] = "backup" /\ op[j] \notin TerminalBackup -> "queued"
                 [] OTHER -> op[j]
  BY DEF Requeue
<1>4. d # "keep" => ~Final(j) BY DEF Settled
<1>5. d = "fail" => Kind[j] = "request" BY DEF Settled
<1> HIDE DEF d
<1>6. CASE d = "keep" BY <1>2, <1>3, <1>6 DEF Verdict, VerdictOfOne, Final, Linked
<1>7. CASE d = "cancel"
  BY <1>2, <1>3, <1>4, <1>7 DEF Verdict, VerdictOfOne, Final, Linked, FINAL_AGENT_JOB_STATUSES, OpTerminal
<1>8. CASE d = "fail"
  BY <1>2, <1>3, <1>4, <1>5, <1>8 DEF Verdict, VerdictOfOne, Final, Linked, FINAL_AGENT_JOB_STATUSES
<1>9. CASE d = "requeue"
  BY <1>2, <1>3, <1>4, <1>9 DEF Verdict, VerdictOfOne, Final, Linked, FINAL_AGENT_JOB_STATUSES
<1>10. QED BY <1>1, <1>6, <1>7, <1>8, <1>9

\* No step makes the rows of a job disagree.
LEMMA StepVerdict ==
    ASSUME Types, Named, Verdict, [Next]_vars
    PROVE  Verdict'
<1> USE KindAssumption DEF Types, TypeOK, rows, presence, server, wires, agent
<1>q. ASSUME UNCHANGED <<status, op, chain, waiter, kept>> PROVE Verdict'
  BY <1>q DEF Verdict, VerdictOfOne, Final, Linked
<1>1. ASSUME NEW j \in Jobs, queue_agent_job(j) PROVE Verdict'
  BY <1>1 DEF queue_agent_job, Verdict, VerdictOfOne, Linked, Final, FINAL_AGENT_JOB_STATUSES
<1>2. ASSUME NEW j \in Jobs, dispatch_claim(j) PROVE Verdict'
  BY <1>2 DEF dispatch_claim, Verdict, VerdictOfOne, Linked, Final, FINAL_AGENT_JOB_STATUSES
<1>3. ASSUME NEW j \in Jobs, dispatch_skip(j) PROVE Verdict'
  BY <1>3, <1>q DEF dispatch_skip
<1>4. ASSUME NEW j \in Jobs, Deliver(j) PROVE Verdict'
  <2>1. /\ kept[j] = "lock" => Kind[j] = "maintenance"
        /\ kept[j] \in {"complete", "fail", "lock", "cancel", "refused"}
        /\ \A k \in Jobs : kept'[k] \in {kept[k], "none"}
        /\ UNCHANGED waiter
    BY <1>4 DEF Deliver, Verdict, VerdictOfOne
  <2>2. CASE Final(j)
    <3>1. UNCHANGED <<status, op, chain>> BY <1>4, <2>2, DeliverEffect
    <3>2. QED BY <2>1, <3>1 DEF Verdict, VerdictOfOne, Final, Linked
  <2>3. CASE ~Final(j)
    <3>1. PICK v \in FINAL_AGENT_JOB_STATUSES :
                /\ status' = [status EXCEPT ![j] = v]
                /\ \/ op' = IF Linked(j) THEN [op EXCEPT ![j] = OpVerdict[v]] ELSE op
                   \/ /\ kept[j] = "lock" /\ v = "failed"
                      /\ op' = [op EXCEPT ![j] = IF @ \in OpTerminal THEN @ ELSE "left"]
                /\ \/ chain' = chain
                   \/ /\ chain' = [chain EXCEPT ![j] = @ + 1]
                      /\ Kind[j] = "backup" /\ v = "completed" /\ ~waiter[j]
      BY <1>4, <2>3, DeliverEffect
    <3>2. /\ OpVerdict[v] \in OpTerminal /\ (OpVerdict[v] = "completed" <=> v = "completed")
          /\ v = "failed" => OpVerdict[v] = "failed"
      BY DEF OpVerdict, OpTerminal, FINAL_AGENT_JOB_STATUSES
    <3>3. \A k \in Jobs : k # j => status'[k] = status[k] /\ op'[k] = op[k] /\ chain'[k] = chain[k]
      BY <3>1
    <3>4. status'[j] = v /\ VerdictOfOne(j) BY <3>1 DEF Verdict
    <3>5. \/ Linked(j) /\ op'[j] = OpVerdict[v]
          \/ ~Linked(j) /\ op'[j] = op[j]
          \/ /\ Kind[j] = "maintenance" /\ v = "failed"
             /\ op'[j] = "left" \/ (op[j] \in OpTerminal /\ op'[j] = op[j])
      BY <2>1, <3>1
    <3>6. chain[j] = 0 BY <2>3, <3>4 DEF VerdictOfOne
    <3>7. chain'[j] \in {0, 1} /\ (waiter[j] => chain'[j] = 0) BY <3>1, <3>6
    <3>8. VerdictOfOne(j)'
      BY <2>1, <2>3, <3>2, <3>4, <3>5, <3>7
      DEF VerdictOfOne, Final, FINAL_AGENT_JOB_STATUSES, Linked, OpTerminal
    <3>9. QED BY <2>1, <3>3, <3>8 DEF Verdict, VerdictOfOne, Final, Linked
  <2>4. QED BY <2>2, <2>3
<1>5. ASSUME NEW j \in Jobs, Refused(j) PROVE Verdict'
  BY <1>5 DEF Refused, Verdict, VerdictOfOne, Linked, Final
<1>6. ASSUME NEW j \in Jobs, WaiterReturns(j) PROVE Verdict'
  <2>1. PICK v \in Closings(j) : op' = [op EXCEPT ![j] = v] BY <1>6 DEF WaiterReturns
  <2>2. \/ op[j] \in OpTerminal /\ v = op[j]
        \/ op[j] = "left" /\ v \in {"queued", "cancelled", "failed"}
        \/ op[j] \notin OpTerminal /\ v = "failed"
    BY <2>1 DEF Closings
  <2>3. QED BY <1>6, <2>1, <2>2 DEF WaiterReturns, Verdict, VerdictOfOne, Linked, Final, OpTerminal, FINAL_AGENT_JOB_STATUSES
<1>7. ASSUME NEW j \in Jobs, Rewait(j) PROVE Verdict'
  BY <1>7 DEF Rewait, Verdict, VerdictOfOne, Linked, Final, FINAL_AGENT_JOB_STATUSES, InFlight
<1>8. ASSUME NEW j \in Jobs, CancelJob(j) PROVE Verdict'
  BY <1>8 DEF CancelJob, Verdict, VerdictOfOne, Linked, Final, FINAL_AGENT_JOB_STATUSES, OpTerminal
<1>9. ASSUME NEW j \in Jobs, request_agent_job_cancel(j) PROVE Verdict'
  BY <1>9 DEF request_agent_job_cancel, Verdict, VerdictOfOne, Linked, Final, FINAL_AGENT_JOB_STATUSES
<1>10. ASSUME NEW j \in Jobs, CancelQueuedRow(j) PROVE Verdict'
  BY <1>10 DEF CancelQueuedRow, Verdict, VerdictOfOne, Linked, Final, OpTerminal
<1>10a. ASSUME NEW j \in Jobs, RunAgain(j) PROVE Verdict'
  BY <1>10a DEF RunAgain, Verdict, VerdictOfOne, Linked, Final, OpTerminal
<1>11. ASSUME NEW j \in Jobs, Age(j) PROVE Verdict'
  BY <1>11, <1>q DEF Age
<1>12. ASSUME NEW x \in sends, SendOk(x) PROVE Verdict'
  BY <1>12, <1>q DEF SendOk
<1>13. ASSUME NEW x \in sends, SendFails(x) PROVE Verdict'
  <2>1. x.job \in Jobs BY JobsNamed
  <2>2. QED BY <1>13, <2>1 DEF SendFails, Requeued, Verdict, VerdictOfOne, Linked, Final, FINAL_AGENT_JOB_STATUSES
<1>14. ASSUME NEW s \in Sids, HelloRead(s) PROVE Verdict'
  BY <1>14, <1>q DEF HelloRead
<1>15. ASSUME NEW s \in Sids, BeatRead(s) PROVE Verdict'
  BY <1>15, <1>q DEF BeatRead
<1>16. ASSUME NEW s \in Sids, ReceiveAck(s) PROVE Verdict'
  <2>1. Head(up[s]).job \in Jobs BY <1>16, UpHead DEF ReceiveAck, HeadIs, Reports
  <2>2. QED BY <1>16, <2>1 DEF ReceiveAck, Verdict, VerdictOfOne, Linked, Final, FINAL_AGENT_JOB_STATUSES
<1>17. ASSUME NEW s \in Sids, ReceiveStarted(s) PROVE Verdict'
  <2>1. Head(up[s]).job \in Jobs BY <1>17, UpHead DEF ReceiveStarted, HeadIs, Reports
  <2>2. QED BY <1>17, <2>1 DEF ReceiveStarted, Verdict, VerdictOfOne, Linked, Final, OpTerminal, FINAL_AGENT_JOB_STATUSES
<1>18. ASSUME NEW s \in Sids, ReceiveProgress(s) PROVE Verdict'
  <2>1. Head(up[s]).job \in Jobs BY <1>18, UpHead DEF ReceiveProgress, HeadIs, Reports
  <2>2. QED BY <1>18, <2>1 DEF ReceiveProgress, Verdict, VerdictOfOne, Linked, Final, Progressed, OpTerminal
<1>19. ASSUME NEW s \in Sids, ReceiveLog(s) PROVE Verdict'
  BY <1>19, <1>q DEF ReceiveLog
<1>20. ASSUME NEW s \in Sids, ServerClose(s) PROVE Verdict'
  BY <1>20, <1>q DEF ServerClose
<1>21. CASE HelloSettle
  BY <1>21, RequeueVerdict DEF HelloSettle
<1>22. CASE BeatSettle
  BY <1>22, RequeueVerdict DEF BeatSettle
<1>23. CASE AgentConnect
  BY <1>23, <1>q DEF AgentConnect
<1>24. CASE ReceiveRun
  BY <1>24, <1>q DEF ReceiveRun
<1>25. CASE ReceiveCancel
  BY <1>25, DownHead DEF ReceiveCancel, Verdict, VerdictOfOne, Linked, Final
<1>26. CASE Heartbeat
  BY <1>26, <1>q DEF Heartbeat
<1>27. CASE AgentDrop
  BY <1>27, <1>q DEF AgentDrop
<1>28. CASE AgentCrash
  BY <1>28 DEF AgentCrash, Verdict, VerdictOfOne, Linked, Final
<1>29. CASE AgentSilent
  BY <1>29, <1>q DEF AgentSilent
<1>30. CASE Revoke
  BY <1>30, <1>q DEF Revoke
<1>31. CASE ServerCrash
  BY <1>31 DEF ServerCrash, Verdict, VerdictOfOne, Linked, Final, OpTerminal, FINAL_AGENT_JOB_STATUSES
<1>32. CASE ReapWrite
  BY <1>32 DEF ReapWrite, Verdict, VerdictOfOne, Linked, Final, FINAL_AGENT_JOB_STATUSES, OpTerminal, TerminalBackup, InFlight
<1>33. CASE Rest
  BY <1>33, <1>q DEF Rest, vars
<1>34. ASSUME NEW r \in run, WorkerStart(r) PROVE Verdict'
  BY <1>34, <1>q DEF WorkerStart
<1>35. ASSUME NEW r \in run, WorkerProgress(r) PROVE Verdict'
  <2>1. r.job \in Jobs BY JobsNamed
  <2>2. QED BY <1>35, <2>1 DEF WorkerProgress, Progressed, Verdict, VerdictOfOne, Linked, Final, OpTerminal
<1>36. ASSUME NEW r \in run, WorkerLog(r) PROVE Verdict'
  BY <1>36, <1>q DEF WorkerLog
<1>37. ASSUME NEW r \in run, WorkerLeaves(r) PROVE Verdict'
  BY <1>37, <1>q DEF WorkerLeaves
<1>38. ASSUME NEW r \in run, NEW o \in {"complete", "fail", "lock", "cancel"}, WorkerEnd(r, o) PROVE Verdict'
  BY <1>38, JobsNamed DEF WorkerEnd, Verdict, VerdictOfOne, Linked, Final
<1>39. ASSUME NEW k \in {"stale", "queued", "skip"}, ReapRead(k) PROVE Verdict'
  BY <1>39, <1>q DEF ReapRead
<1>40. CASE UNCHANGED vars
  BY <1>40, <1>q DEF vars
<1>41. QED
  BY <1>1, <1>2, <1>3, <1>4, <1>5, <1>6, <1>7, <1>8, <1>9, <1>10, <1>10a, <1>11, <1>12, <1>13, <1>14, <1>15,
     <1>16, <1>17, <1>18, <1>19, <1>20, <1>21, <1>22, <1>23, <1>24, <1>25, <1>26, <1>27, <1>28,
     <1>29, <1>30, <1>31, <1>32, <1>33, <1>34, <1>35, <1>36, <1>37, <1>38, <1>39, <1>40
  DEF Next, JobStep, SessionStep, WorkerStep

\* The rows of a job agree in every reachable state.
LEMMA VerdictAlways == Spec => []Verdict
<1>1. Init => Verdict BY KindAssumption DEF Init, Verdict, VerdictOfOne, Final, Linked, FINAL_AGENT_JOB_STATUSES
<1>2. Types /\ Named /\ Verdict /\ [Next]_vars => Verdict' BY StepVerdict
<1>3. QED BY TypesAlways, <1>1, <1>2, PTL DEF Spec

\* VerdictsAgree: the operation of an ended job reads completed exactly when
\* the job did, and a backup's row has ended with its job, whichever of the
\* report, the reaper, a cancel, the waiter and a restart wrote last.
THEOREM VerdictsAgreeAlways == Spec => []VerdictsAgree
<1>1. Verdict => VerdictsAgree BY DEF Verdict, VerdictOfOne, VerdictsAgree
<1>2. QED BY VerdictAlways, <1>1, PTL

\* ChainOnce: the follow-up chain of a backup is enqueued once, by the runner
\* after its wait or by the report that found no one waiting.
THEOREM ChainOnceAlways == Spec => []ChainOnce
<1>1. Verdict => ChainOnce BY DEF Verdict, VerdictOfOne, ChainOnce
<1>2. QED BY VerdictAlways, <1>1, PTL
------------------------------------------------------------------------------
(* What a step does to the way of a job to the agent. *)

\* The dispatch of job j, as it waits to be sent.
Dispatched(j) == [cmd |-> "run", job |-> j, att |-> claims[j] + 1, prev |-> claimed[j], conn |-> conn]

\* For every part of that way, the actions that can change it.
SendsStep ==
    \A x \in sends' :
        \/ x \in sends
        \/ x.cmd = "cancel" /\ ((x.conn = conn /\ conn # 0) \/ (pass # Idle /\ x.conn = pass.sid))
        \/ \E j \in Jobs : dispatch_claim(j) /\ x = Dispatched(j)
SessStep ==
    \/ AgentConnect
    \/ /\ sessions' = sessions
       /\ sess' = sess \/ (sess' = 0 /\ (down' = << >> \/ \E s \in Sids : HelloRead(s)))
ConnStep ==
    \/ conn' = conn /\ open' = open
    \/ HelloSettle
    \/ conn' = 0 /\ open' = {} /\ pass' = Idle /\ sess' = 0
    \/ \E s \in Sids : ServerClose(s)
PassStep == pass' # Idle => pass' = pass \/ \E s \in Sids : HelloRead(s) \/ BeatRead(s)
DownStep ==
    \/ down' = down
    \/ down' = << >>
    \/ ReceiveRun \/ ReceiveCancel
    \/ \E x \in sends : SendOk(x)
RunStep ==
    \/ run' \subseteq run
    \/ ReceiveRun
    \/ \E r \in run : WorkerStart(r)
    \/ \E r \in run, o \in {"complete", "fail", "lock", "cancel"} : WorkerEnd(r, o)
DoneStep ==
    \/ done' \subseteq done
    \/ \E r \in run, o \in {"complete", "fail", "lock", "cancel"} : WorkerEnd(r, o)
UpStep ==
    AgentConnect \/ \A s \in Sids :
        \/ up'[s] = up[s]
        \/ up'[s] = << >>
        \/ up[s] # << >> /\ up'[s] = Tail(up[s])
        \/ \E m \in Frames :
              /\ up'[s] = Append(up[s], m)
              /\ \/ m.type = "beat" /\ Heartbeat
                 \/ m.type \in Reports /\ \E r \in run' : m.job = r.job /\ m.att = r.att
AgeStep == \A j \in Jobs : age'[j] > 0 => age[j] > 0 \/ Age(j)
QueuedStep ==
    \A j \in Jobs : status'[j] \in {"absent", "queued"} =>
        \/ status[j] \in {"absent", "queued"}
        \/ pass # Idle /\ Settled(pass, j) = "requeue" /\ (HelloSettle \/ BeatSettle)
        \/ \E x \in sends : x.job = j /\ x.cmd = "run" /\ status[j] = "claimed" /\ SendFails(x)
ClaimedStep ==
    \A j \in Jobs : status'[j] = "claimed" /\ claimed'[j] \in 1..MaxAttempts =>
        \/ status[j] = "claimed" /\ claimed'[j] = claimed[j]
        \/ dispatch_claim(j)

ClaimsStep == \A j \in Jobs : claims'[j] \in {claims[j], claims[j] + 1}

Effects ==
    /\ SendsStep /\ SessStep /\ ConnStep /\ PassStep /\ DownStep /\ RunStep /\ DoneStep
    /\ UpStep /\ AgeStep /\ QueuedStep /\ ClaimedStep /\ ClaimsStep

\* A worker's frame is the last one of its session.
LEMMA FramedStep ==
    ASSUME Types, NEW r \in Workers, NEW t \in Reports, Framed(r, t),
           \E w \in run' : w.job = r.job /\ w.att = r.att
    PROVE  UpStep
<1>1. [type |-> t, job |-> r.job, att |-> r.att] \in Frames BY DEF Frames, Workers
<1>2. QED BY <1>1 DEF UpStep, Framed, Types, Wired, Workers

\* Nothing else does.
LEMMA StepEffects ==
    ASSUME Types, Named, [Next]_vars
    PROVE  Effects
<1> USE KindAssumption, BoundsAssumption DEF Types, rows, presence, server, wires, agent, Effects,
       SendsStep, SessStep, ConnStep, PassStep, DownStep, RunStep, DoneStep, AgeStep, QueuedStep, ClaimedStep, ClaimsStep
<1>u. up' = up => UpStep BY DEF UpStep
<1> USE <1>u
<1>1. ASSUME NEW j \in Jobs, queue_agent_job(j) PROVE Effects
  BY <1>1 DEF queue_agent_job, TypeOK
<1>2. ASSUME NEW j \in Jobs, dispatch_claim(j) PROVE Effects
  <2>1. /\ sends' = sends \cup {Dispatched(j)}
        /\ UNCHANGED <<sess, sessions, conn, open, pass, down, run, done, up>>
    BY <1>2 DEF dispatch_claim, Dispatched
  <2>2. \A k \in Jobs : /\ age'[k] \in {0, age[k]} /\ status'[k] \in {"claimed", status[k]}
                        /\ k # j => status'[k] = status[k] /\ claimed'[k] = claimed[k]
    BY <1>2 DEF dispatch_claim, TypeOK
  <2>3. SendsStep BY <1>2, <2>1
  <2>4. QueuedStep BY <2>2
  <2>5. ClaimedStep BY <1>2, <2>2
  <2>6. AgeStep BY <2>2
  <2>7. ClaimsStep BY <1>2 DEF dispatch_claim, TypeOK
  <2>8. QED BY <2>1, <2>3, <2>4, <2>5, <2>6, <2>7
<1>3. ASSUME NEW j \in Jobs, dispatch_skip(j) PROVE Effects
  BY <1>3 DEF dispatch_skip
<1>4. ASSUME NEW j \in Jobs, Deliver(j) PROVE Effects
  <2>1. \A k \in Jobs : /\ status'[k] = status[k] \/ status'[k] \in FINAL_AGENT_JOB_STATUSES
                        /\ age'[k] \in {0, age[k]}
    BY <1>4, DeliverEffect DEF TypeOK
  <2>2. QED BY <1>4, <2>1 DEF Deliver, FINAL_AGENT_JOB_STATUSES, TypeOK
<1>5. ASSUME NEW j \in Jobs, Refused(j) PROVE Effects
  BY <1>5 DEF Refused
<1>6. ASSUME NEW j \in Jobs, WaiterReturns(j) PROVE Effects
  BY <1>6 DEF WaiterReturns
<1>7. ASSUME NEW j \in Jobs, Rewait(j) PROVE Effects
  BY <1>7 DEF Rewait
<1>8. ASSUME NEW j \in Jobs, CancelJob(j) PROVE Effects
  <2>1. /\ \A x \in sends' : x \in sends \/ (x.cmd = "cancel" /\ x.conn = conn /\ conn # 0)
        /\ UNCHANGED <<sess, sessions, conn, open, pass, down, run, done, up, claimed, claims>>
    BY <1>8 DEF CancelJob, CancelSends
  <2>2. \A k \in Jobs : age'[k] \in {0, age[k]} /\ status'[k] \in {"cancel_requested", "canceled", status[k]}
    BY <1>8 DEF CancelJob, TypeOK
  <2>3. SendsStep BY <2>1
  <2>4. QueuedStep /\ ClaimedStep /\ AgeStep BY <2>1, <2>2
  <2>5. QED BY <2>1, <2>3, <2>4
<1>9. ASSUME NEW j \in Jobs, request_agent_job_cancel(j) PROVE Effects
  <2>1. /\ \A x \in sends' : x \in sends \/ (x.cmd = "cancel" /\ x.conn = conn /\ conn # 0)
        /\ UNCHANGED <<sess, sessions, conn, open, pass, down, run, done, up, claimed, claims>>
    BY <1>9 DEF request_agent_job_cancel, CancelSends
  <2>2. \A k \in Jobs : age'[k] \in {0, age[k]} /\ status'[k] \in {"cancel_requested", "canceled", status[k]}
    BY <1>9 DEF request_agent_job_cancel, TypeOK
  <2>3. SendsStep BY <2>1
  <2>4. QueuedStep /\ ClaimedStep /\ AgeStep BY <2>1, <2>2
  <2>5. QED BY <2>1, <2>3, <2>4
<1>10. ASSUME NEW j \in Jobs, CancelQueuedRow(j) PROVE Effects
  BY <1>10 DEF CancelQueuedRow
<1>10a. ASSUME NEW j \in Jobs, RunAgain(j) PROVE Effects
  BY <1>10a DEF RunAgain
<1>11. ASSUME NEW j \in Jobs, Age(j) PROVE Effects
  <2>1. \A k \in Jobs : k # j => age'[k] = age[k] BY <1>11 DEF Age, TypeOK
  <2>2. AgeStep BY <1>11, <2>1
  <2>3. QED BY <1>11, <2>2 DEF Age
<1>12. ASSUME NEW x \in sends, SendOk(x) PROVE Effects
  BY <1>12 DEF SendOk
<1>13. ASSUME NEW x \in sends, SendFails(x) PROVE Effects
  <2>1. sends' \subseteq sends /\ UNCHANGED <<sess, sessions, conn, open, pass, down, run, done, up, claims>>
    BY <1>13 DEF SendFails
  <2>2. \A k \in Jobs : /\ age'[k] \in {0, age[k]}
                        /\ \/ status'[k] = status[k] /\ claimed'[k] = claimed[k]
                           \/ status'[k] = "queued" /\ k = x.job /\ x.cmd = "run" /\ status[k] = "claimed"
    BY <1>13, JobsNamed DEF SendFails, Requeued, TypeOK
  <2>3. QueuedStep BY <1>13, <2>2
  <2>4. QED BY <2>1, <2>2, <2>3
<1>14. ASSUME NEW s \in Sids, HelloRead(s) PROVE Effects
  <2>1. UpStep BY <1>14 DEF HelloRead, Wired, UpStep
  <2>2. QED BY <1>14, <2>1 DEF HelloRead
<1>15. ASSUME NEW s \in Sids, BeatRead(s) PROVE Effects
  <2>1. UpStep BY <1>15 DEF BeatRead, HeadIs, Taken, Wired, UpStep
  <2>4. QED BY <1>15, <2>1 DEF BeatRead
<1>16. ASSUME NEW s \in Sids, ReceiveAck(s) PROVE Effects
  <2>1. UpStep BY <1>16 DEF ReceiveAck, HeadIs, Taken, Wired, UpStep
  <2>2. Head(up[s]).job \in Jobs BY <1>16, UpHead DEF ReceiveAck, HeadIs, Reports
  <2>4. QED BY <1>16, <2>1, <2>2 DEF ReceiveAck, TypeOK, Unsent
<1>17. ASSUME NEW s \in Sids, ReceiveStarted(s) PROVE Effects
  <2>1. UpStep BY <1>17 DEF ReceiveStarted, HeadIs, Taken, Wired, UpStep
  <2>2. Head(up[s]).job \in Jobs BY <1>17, UpHead DEF ReceiveStarted, HeadIs, Reports
  <2>4. QED BY <1>17, <2>1, <2>2 DEF ReceiveStarted, TypeOK, Unsent
<1>18. ASSUME NEW s \in Sids, ReceiveProgress(s) PROVE Effects
  <2>1. UpStep BY <1>18 DEF ReceiveProgress, HeadIs, Taken, Wired, UpStep
  <2>2. Head(up[s]).job \in Jobs BY <1>18, UpHead DEF ReceiveProgress, HeadIs, Reports
  <2>3. AgeStep
    <3>1. \A k \in Jobs : age'[k] \in {0, age[k]} BY <1>18, <2>2 DEF ReceiveProgress, Progressed, TypeOK
    <3>2. QED BY <3>1
  <2>4. QED BY <1>18, <2>1, <2>2, <2>3 DEF ReceiveProgress
<1>19. ASSUME NEW s \in Sids, ReceiveLog(s) PROVE Effects
  <2>1. UpStep BY <1>19 DEF ReceiveLog, HeadIs, Taken, Wired, UpStep
  <2>2. Head(up[s]).job \in Jobs /\ Head(up[s]).att \in 0..Unsent
    BY <1>19, UpHead DEF ReceiveLog, HeadIs, Reports, Attempts
  <2>3. AgeStep
    <3>1. \A k \in Jobs : age'[k] \in {0, age[k]} BY <1>19, <2>2, LoggedEffect DEF ReceiveLog
    <3>2. QED BY <3>1
  <2>4. QED BY <1>19, <2>1, <2>3 DEF ReceiveLog
<1>20. ASSUME NEW s \in Sids, ServerClose(s) PROVE Effects
  <2>1. UpStep BY <1>20 DEF ServerClose, Wired, UpStep
  <2>2. QED BY <1>20, <2>1 DEF ServerClose
<1>21. CASE HelloSettle
  <2>1. pass # Idle BY <1>21 DEF HelloSettle, Idle
  <2>2. /\ \A k \in Jobs : status'[k] \in {"absent", "queued"} => status[k] = status'[k] \/ Settled(pass, k) = "requeue"
        /\ \A k \in Jobs : status'[k] = "claimed" => status[k] = "claimed"
        /\ \A k \in Jobs : claimed'[k] \in {0, claimed[k]} /\ age'[k] \in {0, age[k]}
    BY <1>21 DEF HelloSettle, Requeue
  <2>3. \A x \in sends' : x \in sends \/ (x.cmd = "cancel" /\ x.conn = pass.sid)
    BY <1>21 DEF HelloSettle, CancelSends
  <2>4. QED BY <1>21, <2>1, <2>2, <2>3 DEF HelloSettle
<1>22. CASE BeatSettle
  <2>1. pass # Idle BY <1>22 DEF BeatSettle, Idle
  <2>2. /\ \A k \in Jobs : status'[k] \in {"absent", "queued"} => status[k] = status'[k] \/ Settled(pass, k) = "requeue"
        /\ \A k \in Jobs : status'[k] = "claimed" => status[k] = "claimed"
        /\ \A k \in Jobs : claimed'[k] \in {0, claimed[k]} /\ age'[k] \in {0, age[k]}
    BY <1>22 DEF BeatSettle, Requeue
  <2>3. \A x \in sends' : x \in sends \/ (x.cmd = "cancel" /\ x.conn = pass.sid)
    BY <1>22 DEF BeatSettle, CancelSends
  <2>4. QED BY <1>22, <2>1, <2>2, <2>3 DEF BeatSettle
<1>23. CASE AgentConnect
  <2>1. UpStep BY <1>23 DEF UpStep
  <2>2. QED BY <1>23, <2>1 DEF AgentConnect
<1>24. CASE ReceiveRun
  <2> DEFINE w == [job |-> Head(down).job, att |-> Head(down).att, sid |-> sess, stage |-> "got"]
  <2>1. w \in Workers /\ w \in run' BY <1>24, DownHead DEF ReceiveRun, Workers, TypeOK, Sids
  <2>2. Framed(w, "ack") BY <1>24 DEF ReceiveRun
  <2>3. UpStep BY <2>1, <2>2, FramedStep DEF Reports
  <2>4. QED BY <1>24, <2>3 DEF ReceiveRun
<1>25. CASE ReceiveCancel
  BY <1>25 DEF ReceiveCancel
<1>26. CASE Heartbeat
  <2>1. [type |-> "beat", list |-> running_job_ids] \in Frames BY DEF Frames, Listing, running_job_ids
  <2>2. UpStep BY <1>26, <2>1 DEF Heartbeat, Wired, UpStep
  <2>3. QED BY <1>26, <2>2 DEF Heartbeat
<1>27. CASE AgentDrop
  BY <1>27 DEF AgentDrop
<1>28. CASE AgentCrash
  BY <1>28 DEF AgentCrash
<1>29. CASE AgentSilent
  BY <1>29 DEF AgentSilent
<1>30. CASE Revoke
  BY <1>30 DEF Revoke
<1>31. CASE ServerCrash
  <2>1. UpStep BY <1>31 DEF ServerCrash, UpStep
  <2>2. QED BY <1>31, <2>1 DEF ServerCrash
<1>32. CASE ReapWrite
  BY <1>32 DEF ReapWrite, TypeOK
<1>33. CASE Rest
  BY <1>33 DEF Rest, vars
<1>34. ASSUME NEW r \in run, WorkerStart(r) PROVE Effects
  <2>1. r \in Workers /\ r.job \in Jobs BY JobsNamed DEF Wired
  <2>2. \E w \in run' : w.job = r.job /\ w.att = r.att
    <3>1. [r EXCEPT !.stage = "started"] \in run' BY <1>34 DEF WorkerStart, Staged
    <3>2. QED BY <2>1, <3>1 DEF Workers
  <2>3. Framed(r, "started") BY <1>34 DEF WorkerStart
  <2>4. UpStep BY <2>1, <2>2, <2>3, FramedStep DEF Reports
  <2>5. QED BY <1>34, <2>1, <2>4 DEF WorkerStart
<1>35. ASSUME NEW r \in run, WorkerProgress(r) PROVE Effects
  <2>1. r \in Workers /\ r.job \in Jobs BY JobsNamed DEF Wired
  <2>2. \E w \in run' : w.job = r.job /\ w.att = r.att BY <1>35, <2>1 DEF WorkerProgress
  <2>3. Framed(r, "progress") BY <1>35 DEF WorkerProgress
  <2>4. UpStep BY <2>1, <2>2, <2>3, FramedStep DEF Reports
  <2>5. QED BY <1>35, <2>1, <2>4 DEF WorkerProgress, Progressed, TypeOK
<1>36. ASSUME NEW r \in run, WorkerLog(r) PROVE Effects
  <2>1. r \in Workers /\ r.job \in Jobs BY JobsNamed DEF Wired
  <2>2. \E w \in run' : w.job = r.job /\ w.att = r.att BY <1>36, <2>1 DEF WorkerLog
  <2>3. Framed(r, "log") BY <1>36 DEF WorkerLog
  <2>4. UpStep BY <2>1, <2>2, <2>3, FramedStep DEF Reports
  <2>5. AgeStep
    <3>1. r.att \in 0..Unsent BY <2>1 DEF Workers, Attempts
    <3>2. \A k \in Jobs : age'[k] \in {0, age[k]} BY <1>36, <2>1, <3>1, LoggedEffect DEF WorkerLog
    <3>3. QED BY <3>2
  <2>6. QED BY <1>36, <2>4, <2>5 DEF WorkerLog
<1>37. ASSUME NEW r \in run, WorkerLeaves(r) PROVE Effects
  BY <1>37 DEF WorkerLeaves
<1>38. ASSUME NEW r \in run, NEW o \in {"complete", "fail", "lock", "cancel"}, WorkerEnd(r, o) PROVE Effects
  BY <1>38 DEF WorkerEnd
<1>39. ASSUME NEW k \in {"stale", "queued", "skip"}, ReapRead(k) PROVE Effects
  BY <1>39 DEF ReapRead
<1>40. CASE UNCHANGED vars
  BY <1>40 DEF vars
<1>41. QED
  BY <1>1, <1>2, <1>3, <1>4, <1>5, <1>6, <1>7, <1>8, <1>9, <1>10, <1>10a, <1>11, <1>12, <1>13, <1>14, <1>15,
     <1>16, <1>17, <1>18, <1>19, <1>20, <1>21, <1>22, <1>23, <1>24, <1>25, <1>26, <1>27, <1>28,
     <1>29, <1>30, <1>31, <1>32, <1>33, <1>34, <1>35, <1>36, <1>37, <1>38, <1>39, <1>40
  DEF Next, JobStep, SessionStep, WorkerStep
------------------------------------------------------------------------------
(* One run of a job at a time. *)

\* A dispatch that can still reach the agent: its socket is the open one.
Live(x) == x.cmd = "run" /\ x.conn = sess
RunFrame(c) == c.cmd = "run"

\* Where job j is on its way to the agent or at work there.
Sent(j) == \E x \in sends : Live(x) /\ x.job = j
OnWire(j) == \E c \in Elems(down) : RunFrame(c) /\ c.job = j
AtWork(j) == \E r \in run : r.job = j
Under(j) == Sent(j) \/ OnWire(j) \/ AtWork(j)

\* The sessions: the agent's socket is the newest one, the registered one has
\* a handler, and nothing is sent on a socket that is not there yet.
SessionsOK ==
    /\ sess \in {0, sessions}
    /\ open \subseteq 1..sessions
    /\ conn # 0 => conn \in open
    /\ \A x \in sends : x.conn <= sessions
    /\ pass # Idle => pass.sid <= sessions
    /\ pass # Idle => IF pass.kind = "hello" THEN sess = 0 \/ conn # sess ELSE pass.sid = conn

\* A socket that is not registered has been given nothing to run.
Unregistered ==
    conn # sess \/ sess = 0 => \A j \in Jobs : ~Sent(j) /\ ~OnWire(j)

\* A hello is the first frame of its session and is read once.
HelloFirst ==
    /\ \A s \in Sids : \A i \in 1..Len(up[s]) : up[s][i].type = "hello" => i = 1
    /\ \A s \in open : \A i \in 1..Len(up[s]) : up[s][i].type # "hello"
    /\ pass # Idle /\ pass.kind = "hello" => \A i \in 1..Len(up[pass.sid]) : up[pass.sid][i].type # "hello"

\* The work a listing must not leave out.
Busy(j) == AtWork(j) \/ (j \in done /\ ~Final(j))

\* A hello that is not settled yet lists everything the agent works on.
HelloCovers ==
    /\ \A s \in Sids : s = sessions =>
          \A m \in Elems(up[s]) : m.type = "hello" => \A j \in Jobs : Busy(j) => j \in m.list
    /\ pass # Idle /\ pass.kind = "hello" => \A j \in Jobs : Busy(j) => j \in pass.list

\* A job without activity for a window is not on its way to the agent, and a
\* beat that does not list it speaks for the agent.
BeatCovers ==
    /\ \A j \in Jobs : age[j] > 0 => ~OnWire(j) /\ \A x \in sends : x.cmd = "run" => x.job # j
    /\ \A s \in Sids : \A m \in Elems(up[s]) : m.type = "beat" =>
          \A j \in Jobs : age[j] > 0 /\ Busy(j) => j \in m.list
    /\ pass # Idle /\ pass.kind = "beat" =>
          \A j \in Jobs : pass.read[j].age > 0 /\ j \notin pass.list =>
             ~Busy(j) /\ ~OnWire(j) /\ \A x \in sends : x.cmd = "run" => x.job # j

\* The agent's registry, and an outcome that is kept until it is taken.
Registered ==
    /\ \A r \in run : event[r.job] # "none"
    /\ \A j \in done : kept[j] # "none" \/ Final(j)

\* A job that waits is nowhere, and a dispatch that has not been sent while
\* its claim stands is the only one.
Waits ==
    /\ \A j \in Jobs : status[j] \in {"absent", "queued"} => ~Under(j) /\ j \notin done
    /\ \A x \in sends : x.cmd = "run" /\ status[x.job] = "claimed" /\ claimed[x.job] = x.att =>
          /\ ~OnWire(x.job) /\ ~AtWork(x.job) /\ x.job \notin done
          /\ \A y \in sends : Live(y) /\ y.job = x.job => y = x
    /\ \A x \in sends : x.cmd = "run" => x.att \in 1..claims[x.job]

\* A job is in one place.
OnePlace ==
    /\ \A x, y \in sends : Live(x) /\ Live(y) /\ x.job = y.job => x = y
    /\ \A i, k \in 1..Len(down) : RunFrame(down[i]) /\ RunFrame(down[k]) /\ down[i].job = down[k].job => i = k
    /\ OneRunPerJob
    /\ \A j \in Jobs : ~(Sent(j) /\ OnWire(j)) /\ ~(Sent(j) /\ AtWork(j)) /\ ~(OnWire(j) /\ AtWork(j))
    /\ \A j \in done : ~Sent(j) /\ ~OnWire(j)
    /\ OutcomeNotRepeated

Tokens == /\ SessionsOK /\ Unregistered /\ HelloFirst /\ HelloCovers /\ BeatCovers
          /\ Registered /\ Waits /\ OnePlace

\* A final status is never left.
LEMMA StepFinal ==
    ASSUME Types, Named, [Next]_vars, NEW j \in Jobs, Final(j)
    PROVE  Final(j)'
<1>1. StatusStep BY StepStatus
<1>2. CASE OneMoves
  BY <1>2 DEF OneMoves, MayMove, Types, TypeOK, InFlight, FINAL_AGENT_JOB_STATUSES, Final
<1>3. CASE ManySettle BY <1>3 DEF ManySettle, Settles, FINAL_AGENT_JOB_STATUSES, InFlight, Final
<1>4. QED BY <1>1, <1>2, <1>3 DEF StatusStep, Final

\* How a job comes to each of the three places, and to done.
LEMMA Ways ==
    ASSUME Types, Named, SessionsOK, [Next]_vars
    PROVE  /\ \A x \in sends' : Live(x)' =>
                 (x \in sends /\ Live(x)) \/ \E j \in Jobs : dispatch_claim(j) /\ x = Dispatched(j)
           /\ \A j \in Jobs : OnWire(j)' => OnWire(j) \/ \E x \in sends : Live(x) /\ x.job = j /\ SendOk(x)
           /\ \A j \in Jobs : AtWork(j)' => AtWork(j) \/ (ReceiveRun /\ Head(down).job = j /\ OnWire(j))
           /\ \A j \in Jobs : j \in done' => j \in done \/ AtWork(j)
<1> USE DEF Types
<1>e. Effects BY StepEffects
<1>1. ASSUME NEW x \in sends', Live(x)'
      PROVE  (x \in sends /\ Live(x)) \/ \E j \in Jobs : dispatch_claim(j) /\ x = Dispatched(j)
  <2>1. SendsStep /\ SessStep BY <1>e DEF Effects
  <2>2. x \in sends => x.conn # 0 /\ x.conn \in Nat /\ x.conn <= sessions
    BY BoundsAssumption DEF Wired, Sends, Sids, SessionsOK
  <2>3. sess' = sess \/ sess' = 0 \/ (sess' = sessions + 1 /\ sessions \in Nat)
    BY <2>1 DEF SessStep, AgentConnect, TypeOK
  <2>4. x \in sends => Live(x) BY <1>1, <2>2, <2>3 DEF Live
  <2>5. x.cmd = "run" BY <1>1 DEF Live
  <2>6. QED BY <2>1, <2>4, <2>5 DEF SendsStep
<1>2. ASSUME NEW j \in Jobs, OnWire(j)'
      PROVE  OnWire(j) \/ \E x \in sends : Live(x) /\ x.job = j /\ SendOk(x)
  <2>1. DownStep BY <1>e DEF Effects
  <2>2. CASE down' = down BY <1>2, <2>2 DEF OnWire, RunFrame
  <2>3. CASE down' = << >> BY <1>2, <2>3, ElemsEmpty DEF OnWire
  <2>4. CASE ReceiveRun
    <3>1. Elems(down') \subseteq Elems(down) BY <2>4, ElemsTail DEF ReceiveRun, Wired
    <3>2. QED BY <1>2, <3>1 DEF OnWire, RunFrame
  <2>5. CASE ReceiveCancel
    <3>1. Elems(down') \subseteq Elems(down) BY <2>5, ElemsTail DEF ReceiveCancel, Wired
    <3>2. QED BY <1>2, <3>1 DEF OnWire, RunFrame
  <2>6. ASSUME NEW x \in sends, SendOk(x) PROVE OnWire(j) \/ (Live(x) /\ x.job = j)
    <3>1. [cmd |-> x.cmd, job |-> x.job, att |-> x.att] \in Commands BY DEF Wired, Sends, Commands
    <3>2. x.conn = sess => Elems(down') = Elems(down) \cup {[cmd |-> x.cmd, job |-> x.job, att |-> x.att]}
      BY <2>6, <3>1, ElemsAppend DEF SendOk, Wired
    <3>3. x.conn # sess => down' = down BY <2>6 DEF SendOk
    <3>4. QED BY <1>2, <3>2, <3>3 DEF OnWire, RunFrame, Live
  <2>7. QED BY <2>1, <2>2, <2>3, <2>4, <2>5, <2>6 DEF DownStep
<1>3. ASSUME NEW j \in Jobs, AtWork(j)'
      PROVE  AtWork(j) \/ (ReceiveRun /\ Head(down).job = j /\ OnWire(j))
  <2>1. RunStep BY <1>e DEF Effects
  <2>2. CASE run' \subseteq run BY <1>3, <2>2 DEF AtWork
  <2>3. CASE ReceiveRun
    <3>1. Head(down) \in Elems(down) /\ RunFrame(Head(down))
      BY <2>3, ElemsTail DEF ReceiveRun, Wired, RunFrame
    <3>2. \A r \in run' : r \in run \/ r.job = Head(down).job BY <2>3 DEF ReceiveRun
    <3>3. QED BY <1>3, <2>3, <3>1, <3>2 DEF AtWork, OnWire
  <2>4. ASSUME NEW r \in run, WorkerStart(r) PROVE AtWork(j)
    <3>1. \A y \in run' : y.job = r.job \/ y \in run BY <2>4 DEF WorkerStart, Staged, Wired, Workers
    <3>2. QED BY <1>3, <3>1 DEF AtWork
  <2>5. ASSUME NEW r \in run, NEW o \in {"complete", "fail", "lock", "cancel"}, WorkerEnd(r, o) PROVE AtWork(j)
    <3>1. \A y \in run' : y.job = r.job \/ y \in run BY <2>5 DEF WorkerEnd, Staged, Wired, Workers
    <3>2. QED BY <1>3, <3>1 DEF AtWork
  <2>6. QED BY <2>1, <2>2, <2>3, <2>4, <2>5 DEF RunStep
<1>4. ASSUME NEW j \in Jobs, j \in done' PROVE j \in done \/ AtWork(j)
  <2>1. DoneStep BY <1>e DEF Effects
  <2>2. ASSUME NEW r \in run, NEW o \in {"complete", "fail", "lock", "cancel"}, WorkerEnd(r, o)
        PROVE  j \in done \/ AtWork(j)
    BY <1>4, <2>2 DEF WorkerEnd, AtWork
  <2>3. QED BY <1>4, <2>1, <2>2 DEF DoneStep
<1>5. QED BY <1>1, <1>2, <1>3, <1>4

\* A job is busy only where it was busy or had reached the agent.
LEMMA StaysBusy ==
    ASSUME Types, Named, SessionsOK, [Next]_vars, NEW j \in Jobs, Busy(j)'
    PROVE  Busy(j) \/ OnWire(j)
BY Ways, StepFinal DEF Busy

\* The sessions stay in order.
LEMMA StepSessions ==
    ASSUME Types, Named, SessionsOK, [Next]_vars
    PROVE  SessionsOK'
<1> USE BoundsAssumption DEF Types
<1>e. SendsStep /\ SessStep /\ ConnStep /\ PassStep BY StepEffects DEF Effects
<1>n. sessions \in Nat /\ sess \in Nat /\ conn \in Nat BY DEF TypeOK
<1>s. sessions' \in Nat /\ sessions' >= sessions BY <1>e, <1>n DEF SessStep, AgentConnect
<1>1. (sess \in {0, sessions})' BY <1>e DEF SessStep, AgentConnect, SessionsOK
<1>p. pass # Idle => pass.sid \in Nat /\ pass.sid >= 1 /\ pass.sid <= sessions /\ pass.kind \in {"hello", "beat"}
  BY DEF Wired, Passes, Listing, Sids, SessionsOK
<1>h. HelloSettle \/ BeatSettle => pass # Idle BY DEF HelloSettle, BeatSettle, Idle
<1>2. (open \subseteq 1..sessions)' /\ (conn # 0 => conn \in open)'
  <2>1. CASE conn' = conn /\ open' = open BY <1>n, <1>s, <2>1 DEF SessionsOK
  <2>2. CASE HelloSettle
    <3>1. conn' = pass.sid /\ open' = open \cup {pass.sid} BY <2>2 DEF HelloSettle
    <3>2. open \subseteq 1..sessions /\ pass.sid \in 1..sessions' /\ 1..sessions \subseteq 1..sessions'
      BY <1>n, <1>s, <1>p, <1>h, <2>2 DEF SessionsOK
    <3>3. QED BY <3>1, <3>2
  <2>3. CASE conn' = 0 /\ open' = {} BY <2>3
  <2>4. ASSUME NEW s \in Sids, ServerClose(s) PROVE (open \subseteq 1..sessions)' /\ (conn # 0 => conn \in open)'
    <3>1. open' = open \ {s} /\ conn' = IF conn = s THEN 0 ELSE conn BY <2>4 DEF ServerClose
    <3>2. open \subseteq 1..sessions /\ (conn # 0 => conn \in open) /\ 1..sessions \subseteq 1..sessions'
      BY <1>n, <1>s DEF SessionsOK
    <3>3. QED BY <3>1, <3>2
  <2>5. QED BY <1>e, <2>1, <2>2, <2>3, <2>4 DEF ConnStep
<1>3. (\A x \in sends : x.conn <= sessions)'
  <2> SUFFICES ASSUME NEW x \in sends' PROVE x.conn <= sessions' OBVIOUS
  <2>1. CASE x \in sends
    <3>1. x.conn \in Nat /\ x.conn <= sessions BY <2>1 DEF SessionsOK, Wired, Sends, Sids
    <3>2. QED BY <1>n, <1>s, <3>1
  <2>2. CASE x.conn = conn /\ conn # 0 BY <1>n, <1>s, <2>2 DEF SessionsOK
  <2>3. CASE pass # Idle /\ x.conn = pass.sid BY <1>n, <1>s, <1>p, <2>3
  <2>4. ASSUME NEW j \in Jobs, dispatch_claim(j), x = Dispatched(j) PROVE x.conn <= sessions'
    <3>1. x.conn = conn /\ conn # 0 BY <2>4 DEF dispatch_claim, Dispatched
    <3>2. QED BY <1>n, <1>s, <3>1 DEF SessionsOK
  <2>5. QED BY <1>e, <2>1, <2>2, <2>3, <2>4 DEF SendsStep
<1>4. ASSUME pass' # Idle
      PROVE  /\ pass'.sid <= sessions'
             /\ IF pass'.kind = "hello" THEN sess' = 0 \/ conn' # sess' ELSE pass'.sid = conn'
  <2>1. CASE pass' = pass
    <3>1. conn' = conn
      BY <1>4, <1>e, <2>1 DEF ConnStep, HelloSettle, ServerClose, LoopFree
    <3>2. conn <= sessions BY <1>n DEF SessionsOK
    <3>3. sess' \in {0, sess, sessions + 1} BY <1>e DEF SessStep, AgentConnect
    <3>4. pass # Idle BY <1>4, <2>1
    <3>5. pass'.sid <= sessions' BY <1>n, <1>s, <1>p, <2>1, <3>4
    <3>6. IF pass.kind = "hello" THEN sess = 0 \/ conn # sess ELSE pass.sid = conn BY <3>4 DEF SessionsOK
    <3>7. QED BY <1>n, <2>1, <3>1, <3>2, <3>3, <3>5, <3>6
  <2>2. ASSUME NEW s \in Sids, HelloRead(s)
        PROVE  /\ pass'.sid <= sessions'
               /\ IF pass'.kind = "hello" THEN sess' = 0 \/ conn' # sess' ELSE pass'.sid = conn'
    <3>1. /\ s = sessions /\ s \notin open /\ pass'.sid = s /\ pass'.kind = "hello"
          /\ conn' = conn /\ sessions' = sessions /\ sess' \in {0, sess}
      BY <1>4, <2>2 DEF HelloRead, LoopFree
    <3>2. QED BY <1>n, <3>1 DEF SessionsOK
  <2>3. ASSUME NEW s \in Sids, BeatRead(s)
        PROVE  /\ pass'.sid <= sessions'
               /\ IF pass'.kind = "hello" THEN sess' = 0 \/ conn' # sess' ELSE pass'.sid = conn'
    <3>1. conn = s /\ pass'.sid = s /\ pass'.kind = "beat" /\ conn' = conn
      BY <1>4, <2>3 DEF BeatRead
    <3>2. conn # 0 BY <3>1 DEF Sids
    <3>3. QED BY <1>n, <1>s, <3>1, <3>2 DEF SessionsOK
  <2>4. QED BY <1>4, <1>e, <2>1, <2>2, <2>3 DEF PassStep
<1>5. QED BY <1>1, <1>2, <1>3, <1>4 DEF SessionsOK

\* A socket gets something to run only once it is registered.
LEMMA StepUnregistered ==
    ASSUME Types, Named, SessionsOK, Unregistered, [Next]_vars
    PROVE  Unregistered'
<1> USE DEF Types
<1> SUFFICES ASSUME (conn # sess \/ sess = 0)', NEW j \in Jobs PROVE ~Sent(j)' /\ ~OnWire(j)'
    BY DEF Unregistered
<1>e. SendsStep /\ SessStep /\ ConnStep /\ PassStep BY StepEffects DEF Effects
<1>1. CASE conn # sess \/ sess = 0
  <2>1. ~Sent(j) /\ ~OnWire(j) BY <1>1 DEF Unregistered
  <2>2. ~OnWire(j)' BY <2>1, Ways DEF Sent
  <2>4. ~Sent(j)'
    <3> SUFFICES ASSUME NEW x \in sends', Live(x)', x.job = j PROVE FALSE BY DEF Sent, Live
    <3>1. CASE x \in sends /\ Live(x) BY <2>1, <3>1 DEF Sent
    <3>2. ASSUME NEW k \in Jobs, dispatch_claim(k), x = Dispatched(k) PROVE FALSE
      BY <1>1, <3>2 DEF dispatch_claim, Dispatched, Live
    <3>3. QED BY <3>1, <3>2, Ways
  <2>5. QED BY <2>2, <2>4
<1>2. CASE conn = sess /\ sess # 0
  <2>1. conn \in open /\ sess = sessions BY <1>2 DEF SessionsOK
  <2>2. sess' # sess
    <3> SUFFICES ASSUME sess' = sess PROVE FALSE OBVIOUS
    <3>1. conn' # conn BY <1>2
    <3>2. ~HelloSettle BY <1>2 DEF HelloSettle, SessionsOK, Idle
    <3>3. PICK s \in Sids : ServerClose(s) BY <1>2, <1>e, <3>1, <3>2 DEF ConnStep
    <3>4. conn = s /\ sess = s /\ sess' = 0 BY <1>2, <3>1, <3>3 DEF ServerClose
    <3>5. QED BY <1>2, <3>4
  <2>3. ~AgentConnect BY <1>2 DEF AgentConnect
  <2>4. \A s \in Sids : ~HelloRead(s) BY <1>2, <2>1 DEF HelloRead
  <2>5. sess' = 0 /\ down' = << >> BY <1>e, <2>2, <2>3, <2>4 DEF SessStep
  <2>6. ~OnWire(j)' BY <2>5, ElemsEmpty DEF OnWire
  <2>7. \A x \in sends' : x.conn # 0
    <3>1. Wired' BY StepWired
    <3>2. QED BY <3>1 DEF Wired, Sends, Sids
  <2>8. ~Sent(j)' BY <2>5, <2>7 DEF Sent, Live
  <2>9. QED BY <2>6, <2>8
<1>3. QED BY <1>1, <1>2
\* A listing on the wire was there before the step, or the agent has just written it.
LEMMA Listings ==
    ASSUME Types, UpStep, ~AgentConnect, NEW s \in Sids, NEW m \in Elems(up'[s]), m.type \in Listing
    PROVE  m \in Elems(up[s]) \/ (Heartbeat /\ m.type = "beat")
<1>1. up[s] \in Seq(Frames) BY DEF Types, Wired
<1>2. CASE up'[s] = up[s] BY <1>2
<1>3. CASE up'[s] = << >> BY <1>3, ElemsEmpty
<1>4. CASE up[s] # << >> /\ up'[s] = Tail(up[s]) BY <1>1, <1>4, ElemsTail
<1>5. ASSUME NEW f \in Frames, up'[s] = Append(up[s], f), (f.type = "beat" /\ Heartbeat) \/ f.type \in Reports
      PROVE  m \in Elems(up[s]) \/ (Heartbeat /\ m.type = "beat")
  <2>1. Elems(up'[s]) = Elems(up[s]) \cup {f} BY <1>1, <1>5, ElemsAppend
  <2>2. QED BY <1>5, <2>1 DEF Listing, Reports
<1>6. QED BY <1>2, <1>3, <1>4, <1>5 DEF UpStep

\* The hello frame stays in front, and is gone once it was read.
LEMMA StepHelloFirst ==
    ASSUME Types, Named, SessionsOK, HelloFirst, [Next]_vars
    PROVE  HelloFirst'
<1> USE DEF Types
<1>e. UpStep /\ ConnStep /\ PassStep /\ SessStep BY StepEffects DEF Effects
<1> DEFINE Front(q) == \A i \in 1..Len(q) : q[i].type = "hello" => i = 1
           NoHello(q) == \A i \in 1..Len(q) : q[i].type # "hello"
<1>0. \A s \in Sids : up[s] \in Seq(Frames) /\ Front(up[s]) BY DEF Wired, HelloFirst
<1>t. ASSUME NEW q \in Seq(Frames), q # << >>, Front(q) PROVE NoHello(Tail(q))
  <2>1. Len(Tail(q)) = Len(q) - 1 /\ Len(q) \in Nat /\ \A i \in 1..Len(Tail(q)) : Tail(q)[i] = q[i + 1]
    BY <1>t
  <2>2. \A i \in 1..Len(Tail(q)) : i + 1 \in 1..Len(q) /\ i + 1 # 1 BY <2>1
  <2>3. QED BY <1>t, <2>1, <2>2
<1>a. ASSUME NEW q \in Seq(Frames), NEW f \in Frames, f.type # "hello"
      PROVE  (Front(q) => Front(Append(q, f))) /\ (NoHello(q) => NoHello(Append(q, f)))
  <2>1. /\ Len(q) \in Nat /\ Len(Append(q, f)) = Len(q) + 1 /\ Append(q, f)[Len(q) + 1] = f
        /\ \A i \in 1..Len(q) : Append(q, f)[i] = q[i]
    OBVIOUS
  <2>2. 1..(Len(q) + 1) = 1..Len(q) \cup {Len(q) + 1} BY <2>1
  <2>3. QED BY <1>a, <2>1, <2>2
<1>z. NoHello(<< >>) /\ Front(<< >>) OBVIOUS
<1>1. ASSUME ~AgentConnect, NEW s \in Sids
      PROVE  Front(up'[s]) /\ (NoHello(up[s]) => NoHello(up'[s]))
  <2>1. CASE up'[s] = up[s] BY <1>0, <2>1
  <2>2. CASE up'[s] = << >> BY <1>z, <2>2
  <2>3. CASE up[s] # << >> /\ up'[s] = Tail(up[s])
    <3>1. NoHello(up'[s]) BY <1>0, <1>t, <2>3
    <3>2. QED BY <3>1
  <2>4. ASSUME NEW f \in Frames, f.type # "hello", up'[s] = Append(up[s], f)
        PROVE  Front(up'[s]) /\ (NoHello(up[s]) => NoHello(up'[s]))
    BY <1>0, <1>a, <2>4
  <2> HIDE DEF Front, NoHello
  <2>5. QED BY <1>1, <1>e, <2>1, <2>2, <2>3, <2>4 DEF UpStep, Reports
<1>2. ASSUME AgentConnect, NEW s \in Sids
      PROVE  Front(up'[s]) /\ (NoHello(up[s]) /\ s # sessions + 1 => NoHello(up'[s]))
  <2>1. s = sessions + 1 => up'[s] = <<[type |-> "hello", list |-> running_job_ids]>>
    BY <1>2 DEF AgentConnect, TypeOK
  <2>2. s # sessions + 1 => up'[s] \in {<< >>, up[s]} BY <1>2 DEF AgentConnect
  <2>3. Front(<<[type |-> "hello", list |-> running_job_ids]>>) OBVIOUS
  <2> HIDE DEF Front, NoHello
  <2>4. QED BY <1>0, <1>z, <2>1, <2>2, <2>3
<1>b. open \subseteq 1..sessions /\ open \subseteq Sids /\ sessions \in Nat /\ (pass # Idle => pass.sid \in Sids /\ pass.sid <= sessions)
  BY DEF SessionsOK, TypeOK, Wired, Passes
<1>c. \A s \in open : NoHello(up[s]) BY DEF HelloFirst
<1>d. pass # Idle /\ pass.kind = "hello" => NoHello(up[pass.sid]) BY DEF HelloFirst
<1> HIDE DEF Front, NoHello
<1>3. ASSUME NEW s \in Sids, NoHello(up[s]), s <= sessions PROVE NoHello(up'[s])
  BY <1>1, <1>2, <1>3, <1>b DEF Sids
<1>4. \A s \in Sids : Front(up'[s]) BY <1>1, <1>2
<1>5. ASSUME NEW s \in open' PROVE NoHello(up'[s])
  <2>0. s \in open => s \in Sids /\ s <= sessions BY <1>b
  <2>1. s \in open => NoHello(up'[s]) BY <1>3, <1>c, <2>0
  <2>2. CASE HelloSettle
    <3>1. s \in open \/ s = pass.sid BY <2>2, <1>5 DEF HelloSettle
    <3>2. pass # Idle /\ pass.kind = "hello" BY <2>2 DEF HelloSettle, Idle
    <3>3. QED BY <1>3, <1>b, <1>d, <2>1, <3>1, <3>2
  <2>3. CASE ~HelloSettle
    <3>1. open' \subseteq open BY <1>e, <2>3 DEF ConnStep, ServerClose
    <3>2. QED BY <2>1, <3>1
  <2>4. QED BY <2>2, <2>3
<1>6. ASSUME pass' # Idle, pass'.kind = "hello" PROVE NoHello(up'[pass'.sid])
  <2>1. CASE pass' = pass BY <1>3, <1>6, <1>b, <1>d, <2>1
  <2>2. ASSUME NEW s \in Sids, HelloRead(s) PROVE NoHello(up'[pass'.sid])
    <3>0. ~gone BY <1>6, <2>2 DEF HelloRead, LoopFree
    <3>1. pass'.sid = s /\ up[s] # << >> /\ up' = [up EXCEPT ![s] = Tail(@)] BY <2>2, <3>0 DEF HelloRead
    <3>2. up'[s] = Tail(up[s]) BY <3>1 DEF Wired
    <3>3. QED BY <1>0, <1>t, <3>1, <3>2
  <2>3. ASSUME NEW s \in Sids, BeatRead(s) PROVE FALSE BY <1>6, <2>3 DEF BeatRead
  <2>4. QED BY <1>6, <1>e, <2>1, <2>2, <2>3 DEF PassStep
<1>7. QED BY <1>4, <1>5, <1>6 DEF HelloFirst, Front, NoHello
\* The agent lists what it works on, and an outcome it has not handed over.
LEMMA StepRegistered ==
    ASSUME Types, Named, Registered, OneRunPerJob, [Next]_vars
    PROVE  Registered'
<1> USE DEF Types, rows, presence, server, wires, agent
<1>f. \A j \in Jobs : Final(j) => Final(j)' BY StepFinal
<1>q. ASSUME UNCHANGED <<run, event, done, kept>> PROVE Registered'
  BY <1>f, <1>q DEF Registered, TypeOK
<1>1. ASSUME NEW j \in Jobs, queue_agent_job(j) PROVE Registered'
  BY <1>1, <1>q DEF queue_agent_job
<1>2. ASSUME NEW j \in Jobs, dispatch_claim(j) PROVE Registered'
  BY <1>2, <1>q DEF dispatch_claim
<1>3. ASSUME NEW j \in Jobs, dispatch_skip(j) PROVE Registered'
  BY <1>3, <1>q DEF dispatch_skip
<1>4. ASSUME NEW j \in Jobs, Deliver(j) PROVE Registered'
  <2>1. Final(j)'
    BY <1>4, DeliverEffect DEF Final, TypeOK
  <2>2. UNCHANGED <<run, event, done>> /\ \A k \in Jobs : k # j => kept'[k] = kept[k]
    BY <1>4 DEF Deliver, TypeOK
  <2>3. QED BY <1>f, <2>1, <2>2 DEF Registered, TypeOK
<1>5. ASSUME NEW j \in Jobs, Refused(j) PROVE Registered'
  <2>1. UNCHANGED <<run, event>> /\ \A k \in Jobs : k # j => kept'[k] = kept[k]
    BY <1>5 DEF Refused, TypeOK
  <2>2. done' \subseteq done /\ (j \in done' => kept'[j] # "none" \/ kept[j] = "none")
    BY <1>5 DEF Refused, TypeOK
  <2>3. QED BY <1>f, <2>1, <2>2 DEF Registered, TypeOK
<1>6. ASSUME NEW j \in Jobs, WaiterReturns(j) PROVE Registered'
  BY <1>6, <1>q DEF WaiterReturns
<1>7. ASSUME NEW j \in Jobs, Rewait(j) PROVE Registered'
  BY <1>7, <1>q DEF Rewait
<1>8. ASSUME NEW j \in Jobs, CancelJob(j) PROVE Registered'
  BY <1>8, <1>q DEF CancelJob
<1>9. ASSUME NEW j \in Jobs, request_agent_job_cancel(j) PROVE Registered'
  BY <1>9, <1>q DEF request_agent_job_cancel
<1>10. ASSUME NEW j \in Jobs, CancelQueuedRow(j) PROVE Registered'
  BY <1>10, <1>q DEF CancelQueuedRow
<1>10a. ASSUME NEW j \in Jobs, RunAgain(j) PROVE Registered'
  BY <1>10a, <1>q DEF RunAgain
<1>11. ASSUME NEW j \in Jobs, Age(j) PROVE Registered'
  BY <1>11, <1>q DEF Age
<1>12. ASSUME NEW x \in sends, SendOk(x) PROVE Registered'
  BY <1>12, <1>q DEF SendOk
<1>13. ASSUME NEW x \in sends, SendFails(x) PROVE Registered'
  BY <1>13, <1>q DEF SendFails
<1>14. ASSUME NEW s \in Sids, HelloRead(s) PROVE Registered'
  BY <1>14, <1>q DEF HelloRead
<1>15. ASSUME NEW s \in Sids, BeatRead(s) PROVE Registered'
  BY <1>15, <1>q DEF BeatRead
<1>16. ASSUME NEW s \in Sids, ReceiveAck(s) PROVE Registered'
  BY <1>16, <1>q DEF ReceiveAck
<1>17. ASSUME NEW s \in Sids, ReceiveStarted(s) PROVE Registered'
  BY <1>17, <1>q DEF ReceiveStarted
<1>18. ASSUME NEW s \in Sids, ReceiveProgress(s) PROVE Registered'
  BY <1>18, <1>q DEF ReceiveProgress
<1>19. ASSUME NEW s \in Sids, ReceiveLog(s) PROVE Registered'
  BY <1>19, <1>q DEF ReceiveLog
<1>20. ASSUME NEW s \in Sids, ServerClose(s) PROVE Registered'
  BY <1>20, <1>q DEF ServerClose
<1>21. CASE HelloSettle
  BY <1>21, <1>q DEF HelloSettle
<1>22. CASE BeatSettle
  BY <1>22, <1>q DEF BeatSettle
<1>23. CASE AgentConnect
  BY <1>23, <1>q DEF AgentConnect
<1>24. CASE ReceiveRun
  <2>1. Head(down).job \in Jobs BY <1>24, DownHead DEF ReceiveRun
  <2>2. \A j \in Jobs : event[j] # "none" => event'[j] # "none" BY <1>24, <2>1 DEF ReceiveRun, TypeOK
  <2>3. event'[Head(down).job] # "none" BY <1>24, <2>1 DEF ReceiveRun, TypeOK
  <2>4. \A r \in run' : r \in run \/ r.job = Head(down).job BY <1>24 DEF ReceiveRun
  <2>5. \A r \in run' : event'[r.job] # "none" BY <2>1, <2>2, <2>3, <2>4, JobsNamed DEF Registered
  <2>6. UNCHANGED <<done, kept>> BY <1>24 DEF ReceiveRun
  <2>7. QED BY <1>f, <2>5, <2>6 DEF Registered, TypeOK
<1>25. CASE ReceiveCancel
  <2>1. Head(down).job \in Jobs BY <1>25, DownHead DEF ReceiveCancel
  <2>2. \A j \in Jobs : event[j] # "none" => event'[j] # "none" BY <1>25, <2>1 DEF ReceiveCancel, TypeOK
  <2>3. \A j \in Jobs : kept[j] # "none" => kept'[j] # "none" BY <1>25, <2>1 DEF ReceiveCancel, TypeOK
  <2>4. UNCHANGED <<run, done>> BY <1>25 DEF ReceiveCancel
  <2>5. QED BY <1>f, <2>2, <2>3, <2>4, JobsNamed DEF Registered, TypeOK
<1>26. CASE Heartbeat
  BY <1>26, <1>q DEF Heartbeat
<1>27. CASE AgentDrop
  BY <1>27, <1>q DEF AgentDrop
<1>28. CASE AgentCrash
  <2>1. run' = {} /\ done' = {j \in done : kept[j] = "none"} BY <1>28 DEF AgentCrash
  <2>2. QED BY <1>f, <2>1 DEF Registered, TypeOK
<1>29. CASE AgentSilent
  BY <1>29, <1>q DEF AgentSilent
<1>30. CASE Revoke
  BY <1>30, <1>q DEF Revoke
<1>31. CASE ServerCrash
  BY <1>31, <1>q DEF ServerCrash
<1>32. CASE ReapWrite
  BY <1>32, <1>q DEF ReapWrite
<1>33. CASE Rest
  BY <1>33, <1>q DEF Rest, vars
<1>34. ASSUME NEW r \in run, WorkerStart(r) PROVE Registered'
  <2>1. \A y \in run' : y.job = r.job \/ y \in run BY <1>34 DEF WorkerStart, Staged, Wired, Workers
  <2>2. UNCHANGED <<done, kept, event>> BY <1>34 DEF WorkerStart
  <2>3. QED BY <1>f, <2>1, <2>2 DEF Registered, TypeOK
<1>35. ASSUME NEW r \in run, WorkerProgress(r) PROVE Registered'
  BY <1>35, <1>q DEF WorkerProgress
<1>36. ASSUME NEW r \in run, WorkerLog(r) PROVE Registered'
  BY <1>36, <1>q DEF WorkerLog
<1>37. ASSUME NEW r \in run, WorkerLeaves(r) PROVE Registered'
  <2>1. \A y \in run' : y \in run /\ y.job # r.job BY <1>37 DEF WorkerLeaves, OneRunPerJob
  <2>2. UNCHANGED <<done, kept>> /\ r.job \in Jobs BY <1>37, JobsNamed DEF WorkerLeaves
  <2>3. \A j \in Jobs : j # r.job => event'[j] = event[j] BY <1>37 DEF WorkerLeaves, TypeOK
  <2>4. QED BY <1>f, <2>1, <2>2, <2>3, JobsNamed DEF Registered, TypeOK
<1>38. ASSUME NEW r \in run, NEW o \in {"complete", "fail", "lock", "cancel"}, WorkerEnd(r, o) PROVE Registered'
  <2>1. \A y \in run' : y.job = r.job \/ y \in run BY <1>38 DEF WorkerEnd, Staged, Wired, Workers
  <2>2. event' = event /\ done' \subseteq done \cup {r.job} /\ r.job \in Jobs BY <1>38, JobsNamed DEF WorkerEnd
  <2>3. kept'[r.job] # "none" /\ \A j \in Jobs : kept[j] # "none" => kept'[j] # "none"
    BY <1>38, <2>2 DEF WorkerEnd, TypeOK
  <2>4. QED BY <1>f, <2>1, <2>2, <2>3 DEF Registered, TypeOK
<1>39. ASSUME NEW k \in {"stale", "queued", "skip"}, ReapRead(k) PROVE Registered'
  BY <1>39, <1>q DEF ReapRead
<1>40. CASE UNCHANGED vars
  BY <1>40, <1>q DEF vars
<1>41. QED
  BY <1>1, <1>2, <1>3, <1>4, <1>5, <1>6, <1>7, <1>8, <1>9, <1>10, <1>10a, <1>11, <1>12, <1>13, <1>14, <1>15,
     <1>16, <1>17, <1>18, <1>19, <1>20, <1>21, <1>22, <1>23, <1>24, <1>25, <1>26, <1>27, <1>28,
     <1>29, <1>30, <1>31, <1>32, <1>33, <1>34, <1>35, <1>36, <1>37, <1>38, <1>39, <1>40
  DEF Next, JobStep, SessionStep, WorkerStep

\* A job at work is among those the agent lists.
LEMMA BusyListed ==
    ASSUME Types, Registered, NEW j \in Jobs, Busy(j)
    PROVE  j \in running_job_ids
BY DEF Busy, AtWork, Registered, running_job_ids

\* A hello that has not been settled lists what the agent works on: nothing
\* is started on a socket before its hello.
LEMMA StepHelloCovers ==
    ASSUME Types, Named, SessionsOK, Unregistered, HelloFirst, HelloCovers, Registered, [Next]_vars
    PROVE  HelloCovers'
<1> USE DEF Types
<1>e. UpStep /\ PassStep /\ SessStep BY StepEffects DEF Effects
<1>b. \A j \in Jobs : Busy(j)' => Busy(j) \/ OnWire(j) BY StaysBusy
<1>1. ASSUME NEW s \in Sids, s = sessions', NEW m \in Elems(up'[s]), m.type = "hello", NEW j \in Jobs, Busy(j)'
      PROVE  j \in m.list
  <2>1. CASE AgentConnect
    <3>1. s = sessions + 1 /\ up'[s] = <<[type |-> "hello", list |-> running_job_ids]>>
      BY <1>1, <2>1 DEF AgentConnect, TypeOK
    <3>2. m.list = running_job_ids BY <1>1, <3>1, ElemsOne
    <3>3. Busy(j) BY <1>1, <2>1 DEF AgentConnect, Busy, AtWork, Final, rows
    <3>4. QED BY <3>2, <3>3, BusyListed
  <2>2. CASE ~AgentConnect
    <3>1. m \in Elems(up[s]) BY <1>1, <1>e, <2>2, Listings DEF Listing
    <3>2. s = sessions BY <1>1, <1>e, <2>2 DEF SessStep
    <3>3. s \notin open BY <1>1, <3>1 DEF HelloFirst, Elems
    <3>4. conn # sess \/ sess = 0 BY <3>2, <3>3 DEF SessionsOK
    <3>5. ~OnWire(j) BY <3>4 DEF Unregistered
    <3>6. QED BY <1>1, <1>b, <3>1, <3>2, <3>5 DEF HelloCovers
  <2>3. QED BY <2>1, <2>2
<1>2. ASSUME pass' # Idle, pass'.kind = "hello", NEW j \in Jobs, Busy(j)' PROVE j \in pass'.list
  <2>1. CASE pass' = pass
    <3>1. ~OnWire(j) BY <1>2, <2>1 DEF SessionsOK, Unregistered
    <3>2. QED BY <1>2, <1>b, <2>1, <3>1 DEF HelloCovers
  <2>2. ASSUME NEW s \in Sids, HelloRead(s) PROVE j \in pass'.list
    <3>1. /\ pass'.list = Head(up[s]).list /\ s = sessions /\ s \notin open
          /\ up[s] # << >> /\ Head(up[s]).type = "hello"
      BY <1>2, <2>2 DEF HelloRead, LoopFree
    <3>2. Head(up[s]) \in Elems(up[s]) BY <3>1, ElemsTail DEF Wired
    <3>3. conn # sess \/ sess = 0 BY <3>1 DEF SessionsOK
    <3>4. ~OnWire(j) BY <3>3 DEF Unregistered
    <3>5. QED BY <1>2, <1>b, <3>1, <3>2, <3>4 DEF HelloCovers
  <2>3. ASSUME NEW s \in Sids, BeatRead(s) PROVE FALSE BY <1>2, <2>3 DEF BeatRead
  <2>4. QED BY <1>2, <1>e, <2>1, <2>2, <2>3 DEF PassStep
<1>3. QED BY <1>1, <1>2 DEF HelloCovers

\* A heartbeat leaves out only jobs that the agent has not been given since
\* their last activity.
LEMMA StepBeatCovers ==
    ASSUME Types, Named, SessionsOK, BeatCovers, Registered, [Next]_vars
    PROVE  BeatCovers'
<1> USE DEF Types
<1>e. UpStep /\ PassStep /\ SendsStep /\ AgeStep BY StepEffects DEF Effects
<1>b. \A j \in Jobs : Busy(j)' => Busy(j) \/ OnWire(j) BY StaysBusy
<1>d. ASSUME NEW j \in Jobs, dispatch_claim(j) PROVE age'[j] = 0 /\ LoopFree /\ pass' = pass
  BY <1>d DEF dispatch_claim, TypeOK
<1>o. ASSUME NEW j \in Jobs, ~OnWire(j), \A x \in sends : x.cmd = "run" => x.job # j
      PROVE  ~OnWire(j)'
  BY <1>o, Ways DEF Live
<1>x. ASSUME NEW j \in Jobs, \A x \in sends : x.cmd = "run" => x.job # j, ~dispatch_claim(j)
      PROVE  \A x \in sends' : x.cmd = "run" => x.job # j
  <2> SUFFICES ASSUME NEW x \in sends', x.cmd = "run", x.job = j PROVE FALSE OBVIOUS
  <2>1. \A k \in Jobs : Dispatched(k).job = k BY DEF Dispatched
  <2>2. QED BY <1>e, <1>x, <2>1 DEF SendsStep
<1>1. ASSUME NEW j \in Jobs, age'[j] > 0
      PROVE  ~OnWire(j)' /\ \A x \in sends' : x.cmd = "run" => x.job # j
  <2>1. ~dispatch_claim(j) BY <1>1, <1>d
  <2>2. ~OnWire(j) /\ \A x \in sends : x.cmd = "run" => x.job # j
    <3>1. CASE age[j] > 0 BY <3>1 DEF BeatCovers
    <3>2. CASE Age(j) BY <3>2 DEF Age, OnWire, Elems
    <3>3. QED BY <1>1, <1>e, <3>1, <3>2 DEF AgeStep
  <2>3. QED BY <1>o, <1>x, <2>1, <2>2
<1>2. ASSUME NEW s \in Sids, NEW m \in Elems(up'[s]), m.type = "beat", NEW j \in Jobs, age'[j] > 0, Busy(j)'
      PROVE  j \in m.list
  <2>1. ~Age(j)
    <3> SUFFICES ASSUME Age(j) PROVE FALSE OBVIOUS
    <3>1. up' = up /\ \A i \in 1..Len(up[s]) : up[s][i].type # "beat" BY DEF Age, wires
    <3>2. QED BY <1>2, <3>1 DEF Elems
  <2>2. age[j] > 0 BY <1>2, <1>e, <2>1 DEF AgeStep
  <2>3. Busy(j) BY <1>2, <1>b, <2>2 DEF BeatCovers
  <2>4. CASE Heartbeat
    <3>1. m \in Elems(up[s]) \/ m.list = running_job_ids
      <4>1. [type |-> "beat", list |-> running_job_ids] \in Frames BY DEF Frames, Listing, running_job_ids
      <4>2. up'[s] = up[s] \/ up'[s] = Append(up[s], [type |-> "beat", list |-> running_job_ids])
        BY <2>4 DEF Heartbeat, Wired
      <4>3. up[s] \in Seq(Frames) BY DEF Wired
      <4>4. Elems(Append(up[s], [type |-> "beat", list |-> running_job_ids]))
              = Elems(up[s]) \cup {[type |-> "beat", list |-> running_job_ids]}
        BY <4>1, <4>3, ElemsAppend
      <4>5. [type |-> "beat", list |-> running_job_ids].list = running_job_ids OBVIOUS
      <4>6. m \in Elems(up[s]) \/ m = [type |-> "beat", list |-> running_job_ids] BY <1>2, <4>2, <4>4, Zenon
      <4>7. QED BY <4>5, <4>6, Zenon
    <3>2. QED BY <1>2, <2>2, <2>3, <3>1, BusyListed DEF BeatCovers
  <2>5. CASE ~Heartbeat
    <3>1. CASE AgentConnect
      <4>1. m \in Elems(up[s]) BY <1>2, <3>1, ElemsOne, ElemsEmpty DEF AgentConnect
      <4>2. QED BY <1>2, <2>2, <2>3, <4>1 DEF BeatCovers
    <3>2. CASE ~AgentConnect
      <4>1. m \in Elems(up[s]) BY <1>2, <1>e, <2>5, <3>2, Listings DEF Listing
      <4>2. QED BY <1>2, <2>2, <2>3, <4>1 DEF BeatCovers
    <3>3. QED BY <3>1, <3>2
  <2>6. QED BY <2>4, <2>5
<1>3. ASSUME pass' # Idle, pass'.kind = "beat", NEW j \in Jobs, pass'.read[j].age > 0, j \notin pass'.list
      PROVE  ~Busy(j)' /\ ~OnWire(j)' /\ \A x \in sends' : x.cmd = "run" => x.job # j
  <2>1. CASE pass' = pass
    <3>1. ~Busy(j) /\ ~OnWire(j) /\ \A x \in sends : x.cmd = "run" => x.job # j
      BY <1>3, <2>1 DEF BeatCovers
    <3>2. ~dispatch_claim(j) BY <1>3, <1>d, <2>1 DEF LoopFree
    <3>3. QED BY <1>b, <1>o, <1>x, <3>1, <3>2
  <2>2. ASSUME NEW s \in Sids, HelloRead(s) PROVE FALSE BY <1>3, <2>2 DEF HelloRead, LoopFree
  <2>3. ASSUME NEW s \in Sids, BeatRead(s)
        PROVE  ~Busy(j)' /\ ~OnWire(j)' /\ \A x \in sends' : x.cmd = "run" => x.job # j
    <3>1. /\ pass'.list = Head(up[s]).list /\ pass'.read = Snapshot /\ UNCHANGED <<sends, down, run, done, status>>
          /\ up[s] # << >> /\ Head(up[s]).type = "beat"
      BY <1>3, <2>3 DEF BeatRead, HeadIs, agent, rows
    <3>2. Head(up[s]) \in Elems(up[s]) BY <3>1, ElemsTail DEF Wired
    <3>3. age[j] > 0 BY <1>3, <3>1 DEF Snapshot
    <3>4. ~OnWire(j) /\ ~Busy(j) /\ \A x \in sends : x.cmd = "run" => x.job # j
      BY <1>3, <3>1, <3>2, <3>3 DEF BeatCovers
    <3>5. QED BY <3>1, <3>4 DEF OnWire, RunFrame, Busy, AtWork, Final
  <2>4. QED BY <1>3, <1>e, <2>1, <2>2, <2>3 DEF PassStep
<1>4. QED BY <1>1, <1>2, <1>3 DEF BeatCovers
\* A job goes back to the queue only when it is nowhere on its way and nothing
\* came of it: a hello and a heartbeat speak for the agent, and a dispatch
\* that failed was the only one.
LEMMA StepWaits ==
    ASSUME "late_send_error" \notin Env, Types, Named, Tokens, [Next]_vars
    PROVE  Waits'
<1> USE DEF Types, Tokens
<1>e. SendsStep /\ QueuedStep /\ ClaimedStep /\ ClaimsStep BY StepEffects DEF Effects
<1>d. \A j \in Jobs : dispatch_claim(j) => /\ status[j] = "queued" /\ status'[j] = "claimed" /\ LoopFree
                                           /\ claimed'[j] = claims[j] + 1 /\ claims'[j] = claims[j] + 1
  BY DEF dispatch_claim, TypeOK
<1>j. \A j \in Jobs : Dispatched(j).job = j /\ Dispatched(j).att = claims[j] + 1 BY DEF Dispatched
<1>1. ASSUME NEW j \in Jobs, ~Under(j), j \notin done, ~dispatch_claim(j) PROVE ~Under(j)' /\ j \notin done'
  <2>1. ~OnWire(j)' BY <1>1, Ways DEF Under, Sent
  <2>2. ~AtWork(j)' /\ j \notin done' BY <1>1, Ways DEF Under
  <2>3. ~Sent(j)'
    <3> SUFFICES ASSUME NEW x \in sends', Live(x)', x.job = j PROVE FALSE BY DEF Sent, Live
    <3>1. x \in sends /\ Live(x) => FALSE BY <1>1 DEF Under, Sent
    <3>2. QED BY <1>1, <1>j, <3>1, Ways
  <2>4. QED BY <2>1, <2>2, <2>3 DEF Under
<1>2. ASSUME NEW j \in Jobs, status'[j] \in {"absent", "queued"} PROVE ~Under(j)' /\ j \notin done'
  <2>1. ~dispatch_claim(j) BY <1>2, <1>d
  <2>2. CASE status[j] \in {"absent", "queued"} BY <1>1, <2>1, <2>2 DEF Waits
  <2>3. CASE pass # Idle /\ Settled(pass, j) = "requeue" /\ (HelloSettle \/ BeatSettle)
    <3>1. /\ ~Final(j) /\ j \notin pass.list
          /\ pass.kind # "hello" => pass.read[j].age # 0
      BY <2>3 DEF Settled
    <3>2. pass.kind \in {"hello", "beat"} BY <2>3 DEF HelloSettle, BeatSettle
    <3>3. CASE pass.kind = "hello"
      <4>1. ~Busy(j) BY <2>3, <3>1, <3>3 DEF HelloCovers
      <4>2. ~Sent(j) /\ ~OnWire(j) BY <2>3, <3>3 DEF SessionsOK, Unregistered
      <4>3. QED BY <1>1, <2>1, <3>1, <4>1, <4>2 DEF Busy, Under
    <3>4. CASE pass.kind = "beat"
      <4>1. pass.read[j].age \in 0..2 BY <2>3 DEF Wired, Passes, Readings
      <4>2. pass.read[j].age > 0 BY <3>1, <3>4, <4>1
      <4>3. ~Busy(j) /\ ~OnWire(j) /\ \A x \in sends : x.cmd = "run" => x.job # j
        BY <2>3, <3>1, <3>4, <4>2 DEF BeatCovers
      <4>4. QED BY <1>1, <2>1, <3>1, <4>3 DEF Busy, Under, Sent, Live
    <3>5. QED BY <3>2, <3>3, <3>4
  <2>4. ASSUME NEW x \in sends, x.job = j, x.cmd = "run", status[j] = "claimed", SendFails(x)
        PROVE  ~Under(j)' /\ j \notin done'
    <3>1. claimed[j] = x.att /\ x.conn # sess BY <2>4 DEF SendFails, Fault
    <3>2. /\ ~OnWire(j) /\ ~AtWork(j) /\ j \notin done
          /\ \A y \in sends : Live(y) /\ y.job = j => y = x
      BY <2>4, <3>1 DEF Waits
    <3>3. ~Sent(j) BY <3>1, <3>2 DEF Sent, Live
    <3>4. QED BY <1>1, <2>1, <3>2, <3>3 DEF Under
  <2>5. QED BY <1>2, <1>e, <2>2, <2>3, <2>4 DEF QueuedStep
<1>3. ASSUME NEW x \in sends', x.cmd = "run" PROVE x.job \in Jobs /\ x.att \in 1..claims'[x.job]
  <2>1. CASE x \in sends
    <3>1. x.job \in Jobs BY <2>1, JobsNamed
    <3>2. claims[x.job] \in Nat /\ x.att \in 1..claims[x.job] BY <1>3, <2>1, <3>1 DEF Waits, TypeOK
    <3>3. claims'[x.job] \in {claims[x.job], claims[x.job] + 1} BY <1>e, <3>1 DEF ClaimsStep
    <3>4. QED BY <3>1, <3>2, <3>3
  <2>2. ASSUME NEW j \in Jobs, dispatch_claim(j), x = Dispatched(j) PROVE x.job \in Jobs /\ x.att \in 1..claims'[x.job]
    <3>1. claims[j] \in Nat /\ x.job = j /\ x.att = claims[j] + 1 /\ claims'[j] = claims[j] + 1
      BY <1>d, <1>j, <2>2 DEF TypeOK
    <3>2. QED BY <3>1
  <2>3. QED BY <1>3, <1>e, <2>1, <2>2 DEF SendsStep
<1>4. ASSUME NEW x \in sends', x.cmd = "run", status'[x.job] = "claimed", claimed'[x.job] = x.att
      PROVE  /\ ~OnWire(x.job)' /\ ~AtWork(x.job)' /\ x.job \notin done'
             /\ \A y \in sends' : Live(y)' /\ y.job = x.job => y = x
  <2> DEFINE j == x.job
  <2>0. j \in Jobs /\ x.att \in 1..MaxAttempts
    <3>1. j \in Jobs /\ x.att \in 1..claims'[j] BY <1>3, <1>4
    <3>2. TypeOK' BY StepTypeOK
    <3>3. claims'[j] \in 0..MaxAttempts BY <3>1, <3>2 DEF TypeOK
    <3>4. QED BY <3>1, <3>3, BoundsAssumption
  <2>1. CASE dispatch_claim(j)
    <3>1. ~Under(j) /\ j \notin done BY <1>d, <2>0, <2>1 DEF Waits
    <3>2. x = Dispatched(j)
      <4>1. x \notin sends
        <5> SUFFICES ASSUME x \in sends PROVE FALSE OBVIOUS
        <5>1. x.att \in 1..claims[j] /\ claims[j] \in Nat BY <1>4, <2>0 DEF Waits, TypeOK
        <5>2. x.att = claims[j] + 1 BY <1>4, <1>d, <2>0, <2>1
        <5>3. QED BY <5>1, <5>2
      <4>2. QED BY <1>4, <1>e, <1>j, <4>1 DEF SendsStep
    <3>3. ~OnWire(j)' /\ ~AtWork(j)' /\ j \notin done'
      BY <2>0, <3>1, Ways DEF Under, Sent
    <3>4. ASSUME NEW y \in sends', Live(y)', y.job = j PROVE y = x
      <4>1. ~(y \in sends /\ Live(y)) BY <3>1, <3>4 DEF Under, Sent
      <4>2. QED BY <1>j, <3>2, <3>4, <4>1, Ways
    <3>5. QED BY <3>3, <3>4
  <2>2. CASE ~dispatch_claim(j)
    <3>1. status[j] = "claimed" /\ claimed[j] = x.att BY <1>4, <1>e, <2>0, <2>2 DEF ClaimedStep
    <3>2. x \in sends BY <1>4, <1>e, <1>j, <2>2 DEF SendsStep
    <3>3. /\ ~OnWire(j) /\ ~AtWork(j) /\ j \notin done
          /\ \A y \in sends : Live(y) /\ y.job = j => y = x
      BY <1>4, <3>1, <3>2 DEF Waits
    <3>4. ~OnWire(j)'
      <4>1. \A y \in sends : SendOk(y) => y \notin sends' BY DEF SendOk
      <4>2. QED BY <1>4, <2>0, <3>3, <4>1, Ways
    <3>5. ~AtWork(j)' /\ j \notin done' BY <2>0, <3>3, Ways
    <3>6. ASSUME NEW y \in sends', Live(y)', y.job = j PROVE y = x
      BY <1>j, <2>2, <3>3, <3>6, Ways
    <3>7. QED BY <3>4, <3>5, <3>6
  <2>3. QED BY <2>1, <2>2
<1> HIDE DEF Tokens
<1>5. QED BY <1>2, <1>3, <1>4 DEF Waits

\* A job stays in one place on its way to the agent, and does not start again
\* once its work is done.
LEMMA StepOnePlace ==
    ASSUME Types, Named, SessionsOK, Waits, OnePlace, [Next]_vars
    PROVE  OnePlace'
<1> USE DEF Types
<1>e. DownStep /\ RunStep /\ DoneStep BY StepEffects DEF Effects
<1>d. \A j \in Jobs : dispatch_claim(j) => ~Under(j) /\ j \notin done BY DEF dispatch_claim, Waits
<1>j. \A j \in Jobs : Dispatched(j).job = j BY DEF Dispatched
<1>w. \A x \in sends : x.job \in Jobs BY JobsNamed
<1>s. ASSUME NEW j \in Jobs, Sent(j)'
      PROVE  \/ dispatch_claim(j)
             \/ \E x \in sends : x \in sends' /\ Live(x) /\ x.job = j
  BY <1>s, <1>j, Ways DEF Sent, Live
<1>1. ASSUME NEW x \in sends', NEW y \in sends', Live(x)', Live(y)', x.job = y.job PROVE x = y
  <2>1. CASE x \in sends /\ Live(x) /\ y \in sends /\ Live(y) BY <1>1, <2>1 DEF OnePlace
  <2>2. ASSUME NEW j \in Jobs, dispatch_claim(j), x = Dispatched(j) PROVE x = y
    <3>1. ~(y \in sends /\ Live(y)) BY <1>1, <1>d, <1>j, <2>2 DEF Under, Sent
    <3>2. QED BY <1>1, <1>j, <2>2, <3>1, Ways
  <2>3. ASSUME NEW j \in Jobs, dispatch_claim(j), y = Dispatched(j) PROVE x = y
    <3>1. ~(x \in sends /\ Live(x)) BY <1>1, <1>d, <1>j, <2>3 DEF Under, Sent
    <3>2. QED BY <1>1, <1>j, <2>3, <3>1, Ways
  <2>4. QED BY <1>1, <2>1, <2>2, <2>3, Ways
<1> DEFINE Once(q) == \A i, k \in 1..Len(q) : RunFrame(q[i]) /\ RunFrame(q[k]) /\ q[i].job = q[k].job => i = k
<1>q. down \in Seq(Commands) BY DEF Wired
<1>t. ASSUME down # << >>
      PROVE  /\ Once(Tail(down))
             /\ RunFrame(Head(down)) => \A c \in Elems(Tail(down)) : RunFrame(c) => c.job # Head(down).job
  <2>1. /\ Len(Tail(down)) = Len(down) - 1 /\ Len(down) \in Nat /\ Len(down) >= 1 /\ Head(down) = down[1]
        /\ \A i \in 1..Len(Tail(down)) : Tail(down)[i] = down[i + 1]
    BY <1>q, <1>t
  <2>2. \A i \in 1..Len(Tail(down)) : i + 1 \in 1..Len(down) /\ i + 1 # 1 BY <2>1
  <2>3. Once(down) BY DEF OnePlace
  <2>4. Once(Tail(down))
    <3> SUFFICES ASSUME NEW i \in 1..Len(Tail(down)), NEW k \in 1..Len(Tail(down)), RunFrame(Tail(down)[i]),
                        RunFrame(Tail(down)[k]), Tail(down)[i].job = Tail(down)[k].job
                 PROVE  i = k
      OBVIOUS
    <3>1. i + 1 = k + 1 BY <2>1, <2>2, <2>3
    <3>2. QED BY <2>1, <3>1
  <2>5. 1 \in 1..Len(down) BY <2>1
  <2>6. RunFrame(Head(down)) => \A c \in Elems(Tail(down)) : RunFrame(c) => c.job # Head(down).job
    BY <2>1, <2>2, <2>3, <2>5 DEF Elems
  <2>7. QED BY <2>4, <2>6
<1>2. Once(down')
  <2>1. CASE down' = down BY <2>1 DEF OnePlace
  <2>2. CASE down' = << >> BY <2>2
  <2>3. CASE ReceiveRun \/ ReceiveCancel BY <1>t, <2>3 DEF ReceiveRun, ReceiveCancel
  <2>4. ASSUME NEW x \in sends, SendOk(x) PROVE Once(down')
    <3> DEFINE c == [cmd |-> x.cmd, job |-> x.job, att |-> x.att]
    <3>1. c \in Commands BY DEF Wired, Sends, Commands
    <3>2. CASE x.conn # sess BY <2>4, <3>2 DEF SendOk, OnePlace
    <3>3. CASE x.conn = sess
      <4>1. down' = Append(down, c) BY <2>4, <3>3 DEF SendOk
      <4>2. x.cmd = "run" => Sent(x.job) BY <3>3 DEF Sent, Live
      <4>3. x.cmd = "run" => ~OnWire(x.job) BY <1>w, <4>2 DEF OnePlace
      <4>4. RunFrame(c) => \A i \in 1..Len(down) : RunFrame(down[i]) => down[i].job # c.job
        BY <4>3 DEF OnWire, Elems, RunFrame
      <4>5. /\ Len(down) \in Nat /\ Len(down') = Len(down) + 1 /\ down'[Len(down) + 1] = c
            /\ \A i \in 1..Len(down) : down'[i] = down[i]
        BY <1>q, <3>1, <4>1
      <4>6. 1..(Len(down) + 1) = 1..Len(down) \cup {Len(down) + 1} BY <4>5
      <4>7. Once(down) BY DEF OnePlace
      <4> HIDE DEF c
      <4>8. QED BY <4>4, <4>5, <4>6, <4>7
    <3>4. QED BY <3>2, <3>3
  <2>5. QED BY <1>e, <2>1, <2>2, <2>3, <2>4 DEF DownStep
<1>3. ASSUME NEW j \in Jobs
      PROVE ~(Sent(j)' /\ OnWire(j)') /\ ~(Sent(j)' /\ AtWork(j)') /\ ~(OnWire(j)' /\ AtWork(j)')
  <2>1. ~(Sent(j) /\ OnWire(j)) /\ ~(Sent(j) /\ AtWork(j)) /\ ~(OnWire(j) /\ AtWork(j)) BY DEF OnePlace
  <2>2. Sent(j)' => dispatch_claim(j) \/ Sent(j) BY <1>s DEF Sent
  <2>3. OnWire(j)' => OnWire(j) \/ Sent(j) BY Ways DEF Sent
  <2>4. AtWork(j)' => AtWork(j) \/ OnWire(j) BY Ways
  <2>5. dispatch_claim(j) => ~Sent(j) /\ ~OnWire(j) /\ ~AtWork(j) BY <1>d DEF Under
  <2>6. ~(Sent(j)' /\ OnWire(j)')
    <3> SUFFICES ASSUME Sent(j)', OnWire(j)' PROVE FALSE OBVIOUS
    <3>1. PICK x \in sends : x \in sends' /\ Live(x) /\ x.job = j BY <1>s, <2>3, <2>5
    <3>2. ~OnWire(j) BY <2>1, <3>1 DEF Sent
    <3>3. PICK y \in sends : Live(y) /\ y.job = j /\ SendOk(y) BY <3>2, Ways
    <3>4. x = y BY <3>1, <3>3 DEF OnePlace
    <3>5. QED BY <3>1, <3>3, <3>4 DEF SendOk
  <2>7. ~(Sent(j)' /\ AtWork(j)') BY <2>1, <2>2, <2>4, <2>5
  <2>8. ~(OnWire(j)' /\ AtWork(j)')
    <3> SUFFICES ASSUME OnWire(j)', AtWork(j)' PROVE FALSE OBVIOUS
    <3>1. ~AtWork(j) BY <2>1, <2>3
    <3>2. ReceiveRun /\ Head(down).job = j BY <3>1, Ways
    <3>3. down' = Tail(down) /\ down # << >> /\ RunFrame(Head(down)) BY <3>2 DEF ReceiveRun, RunFrame
    <3>4. QED BY <1>t, <3>2, <3>3 DEF OnWire, RunFrame
  <2>9. QED BY <2>6, <2>7, <2>8
<1>4. ASSUME NEW j \in Jobs, j \in done' PROVE ~Sent(j)' /\ ~OnWire(j)'
  <2>1. j \in done => ~Sent(j) /\ ~OnWire(j) BY DEF OnePlace
  <2>2. AtWork(j) => ~Sent(j) /\ ~OnWire(j) BY DEF OnePlace
  <2>3. j \in done \/ AtWork(j) BY <1>4, Ways
  <2>4. ~dispatch_claim(j) BY <1>d, <2>3 DEF Under
  <2>5. ~Sent(j)' BY <1>s, <2>1, <2>2, <2>3, <2>4 DEF Sent
  <2>6. ~OnWire(j)' BY <2>1, <2>2, <2>3, Ways DEF Sent
  <2>7. QED BY <2>5, <2>6
<1>5. (OneRunPerJob /\ OutcomeNotRepeated)'
  <2>0. OneRunPerJob /\ OutcomeNotRepeated /\ run \subseteq Workers BY DEF OnePlace, Wired
  <2>1. CASE ReceiveRun
    <3> DEFINE w == [job |-> Head(down).job, att |-> Head(down).att, sid |-> sess, stage |-> "got"]
    <3>1. run' = run \cup {w} /\ done' = done BY <2>1 DEF ReceiveRun
    <3>2. OnWire(w.job) /\ w.job \in Jobs
      BY <2>1, ElemsTail, DownHead DEF ReceiveRun, OnWire, RunFrame, Wired
    <3>3. ~AtWork(w.job) /\ w.job \notin done BY <3>2 DEF OnePlace
    <3> HIDE DEF w
    <3>4. QED BY <2>0, <3>1, <3>3 DEF OneRunPerJob, OutcomeNotRepeated, AtWork
  <2>2. ASSUME NEW r \in run, WorkerStart(r) PROVE (OneRunPerJob /\ OutcomeNotRepeated)'
    <3> DEFINE w == [r EXCEPT !.stage = "started"]
    <3>1. run' = (run \ {r}) \cup {w} /\ done' = done /\ r.stage = "got" BY <2>2 DEF WorkerStart, Staged
    <3>2. w.job = r.job BY <2>0 DEF Workers
    <3>3. r.job \notin done BY <2>0, <3>1 DEF OutcomeNotRepeated
    <3> HIDE DEF w
    <3>4. QED BY <2>0, <3>1, <3>2, <3>3 DEF OneRunPerJob, OutcomeNotRepeated
  <2>3. ASSUME NEW r \in run, NEW o \in {"complete", "fail", "lock", "cancel"}, WorkerEnd(r, o)
        PROVE  (OneRunPerJob /\ OutcomeNotRepeated)'
    <3> DEFINE w == [r EXCEPT !.stage = "ending"]
    <3>1. run' = (run \ {r}) \cup {w} /\ done' \subseteq done \cup {r.job} BY <2>3 DEF WorkerEnd, Staged
    <3>2. w.job = r.job /\ w.stage = "ending" BY <2>0 DEF Workers
    <3> HIDE DEF w
    <3>3. QED BY <2>0, <3>1, <3>2 DEF OneRunPerJob, OutcomeNotRepeated
  <2>4. CASE run' \subseteq run /\ done' \subseteq done BY <2>0, <2>4 DEF OneRunPerJob, OutcomeNotRepeated
  <2>5. QED
    <3>1. ReceiveRun => done' = done BY DEF ReceiveRun
    <3>2. QED BY <1>e, <2>1, <2>2, <2>3, <2>4 DEF RunStep, DoneStep
<1>6. \A j \in done' : j \in Jobs BY StepTypeOK DEF TypeOK
<1>7. QED BY <1>1, <1>2, <1>3, <1>4, <1>5, <1>6 DEF OnePlace

\* Everything the argument needs survives every step.
LEMMA StepTokens ==
    ASSUME "late_send_error" \notin Env, Types, Named, Tokens, [Next]_vars
    PROVE  Tokens'
<1>1. Waits' BY StepWaits
<1>2. SessionsOK' /\ Unregistered' /\ HelloFirst' BY StepSessions, StepUnregistered, StepHelloFirst DEF Tokens
<1>3. OneRunPerJob BY DEF Tokens, OnePlace
<1>4. HelloCovers' /\ BeatCovers' /\ Registered'
  BY <1>3, StepHelloCovers, StepBeatCovers, StepRegistered DEF Tokens
<1>5. OnePlace' BY StepOnePlace DEF Tokens
<1>6. QED BY <1>1, <1>2, <1>4, <1>5 DEF Tokens

\* A job is in one place of its way at a time, in every reachable state.
LEMMA TokensAlways ==
    ASSUME "late_send_error" \notin Env
    PROVE  Spec => []Tokens
<1>1. Init => Tokens
  <2> SUFFICES ASSUME Init PROVE Tokens OBVIOUS
  <2>1. SessionsOK BY BoundsAssumption DEF Init, SessionsOK
  <2>2. \A j \in Jobs : ~Sent(j) /\ ~OnWire(j) /\ ~AtWork(j) BY ElemsEmpty DEF Init, Sent, OnWire, AtWork
  <2>3. Unregistered /\ Registered /\ Waits BY <2>2 DEF Init, Unregistered, Registered, Waits, Under
  <2>4. HelloFirst BY DEF Init, HelloFirst
  <2>5. \A s \in Sids : Elems(up[s]) = {} BY ElemsEmpty DEF Init
  <2>6. HelloCovers /\ BeatCovers BY <2>5, <2>2 DEF Init, HelloCovers, BeatCovers
  <2>7. OnePlace BY <2>2 DEF Init, OnePlace, OneRunPerJob, OutcomeNotRepeated
  <2>8. QED BY <2>1, <2>3, <2>4, <2>6, <2>7 DEF Tokens
<1>2. Types /\ Named /\ Tokens /\ [Next]_vars => Tokens' BY StepTokens
<1>3. QED BY TypesAlways, <1>1, <1>2, PTL DEF Spec

\* OneRunPerJob: no job has two workers on the agent at once, however
\* sessions, dispatches, requeues, crashes and reports cross. The one
\* hypothesis is that the error of a failed send reaches its sender before
\* the job has been claimed again.
THEOREM OneRunPerJobAlways ==
    ASSUME "late_send_error" \notin Env
    PROVE  Spec => []OneRunPerJob
<1>1. Tokens => OneRunPerJob BY DEF Tokens, OnePlace
<1>2. QED BY TokensAlways, <1>1, PTL

\* OutcomeNotRepeated: a job whose work is done is not run again while the
\* agent keeps, or the server has taken, its outcome, under the same
\* hypothesis.
THEOREM OutcomeNotRepeatedAlways ==
    ASSUME "late_send_error" \notin Env
    PROVE  Spec => []OutcomeNotRepeated
<1>1. Tokens => OutcomeNotRepeated BY DEF Tokens, OnePlace
<1>2. QED BY TokensAlways, <1>1, PTL
------------------------------------------------------------------------------
(* The log of one run. *)

\* Attempts are numbered by their claims.
Numbered ==
    /\ \A x \in sends : x.cmd = "run" => x.att \in 1..claims[x.job] /\ x.prev = 0
    /\ \A c \in Elems(down) : RunFrame(c) => c.att \in 1..claims[c.job]
    /\ \A r \in run : r.att \in 1..claims[r.job]
    /\ \A s \in Sids : \A m \in Elems(up[s]) : m.type = "log" => m.att \in 1..claims[m.job]
    /\ \A j \in Jobs : \A l \in logs[j] : l.att \in 1..claims[j]

\* An attempt that has not been sent has left no trace.
SentOnce ==
    \A x \in sends : x.cmd = "run" =>
        /\ \A y \in sends : y.cmd = "run" /\ y.job = x.job /\ y.att = x.att => y = x
        /\ \A c \in Elems(down) : RunFrame(c) /\ c.job = x.job => c.att # x.att
        /\ \A r \in run : r.job = x.job => r.att # x.att
        /\ \A s \in Sids : \A m \in Elems(up[s]) : m.type = "log" /\ m.job = x.job => m.att # x.att
        /\ \A l \in logs[x.job] : l.att # x.att

\* A line of a prune that a requeue keeps.
Removal(j, l) == j \in Prunes /\ l.removed

\* The log is that of the claim that stands, next to what a prune removed
\* before; a job that waits has no claim.
LogsOfClaim ==
    \A j \in Jobs :
        /\ \A l \in logs[j] : l.att = claimed[j] \/ Removal(j, l)
        /\ status[j] \in {"absent", "queued"} => claimed[j] = 0

LogInv == Numbered /\ SentOnce /\ LogsOfClaim

\* What attempt a of job j has left with the agent or on a wire.
Traced(j, a) ==
    \/ \E r \in run : r.job = j /\ r.att = a
    \/ \E s \in Sids : \E m \in Elems(up[s]) : m.type = "log" /\ m.job = j /\ m.att = a

\* What a step does to the log and the claim of a job.
LogOfJob(j) ==
    \/ logs'[j] = logs[j] /\ claimed'[j] = claimed[j]
       /\ (status'[j] \in {"absent", "queued"} => status[j] \in {"absent", "queued"})
    \/ /\ logs'[j] \subseteq logs[j] /\ (\A l \in logs'[j] : Removal(j, l)) /\ claimed'[j] = 0
    \/ /\ \A l \in logs'[j] : l \in logs[j] \/ l.att = claimed[j]
       /\ claimed'[j] = claimed[j] /\ status'[j] = status[j]
       /\ Traced(j, claimed[j])
    \/ logs'[j] = logs[j] /\ dispatch_claim(j)
    \/ /\ logs'[j] = logs[j]
       /\ \E x \in sends : SendFails(x) /\ x.cmd = "run" /\ x.job = j /\ status[j] = "claimed" /\ claimed'[j] = x.prev
    \/ /\ logs'[j] = logs[j] /\ (status[j] = "queued" \/ claimed[j] = 0)
       /\ claimed'[j] = Unsent /\ status'[j] \notin {"absent", "queued"}
LogStep == \A j \in Jobs : LogOfJob(j)

\* Every step treats the log of a job in one of the ways of LogStep.
LEMMA StepLogs ==
    ASSUME Types, Named, [Next]_vars
    PROVE  LogStep
<1> USE DEF Types, rows, presence, server, wires, agent
<1>q. ASSUME UNCHANGED <<logs, claimed>>,
             \A j \in Jobs : status'[j] \in {"absent", "queued"} => status[j] \in {"absent", "queued"}
      PROVE  LogStep
  BY <1>q DEF LogStep, LogOfJob
<1>1. ASSUME NEW j \in Jobs, queue_agent_job(j) PROVE LogStep
  BY <1>1, <1>q DEF queue_agent_job, TypeOK
<1>2. ASSUME NEW j \in Jobs, dispatch_claim(j) PROVE LogStep
  <2>1. UNCHANGED logs /\ \A k \in Jobs : k # j => status'[k] = status[k] /\ claimed'[k] = claimed[k]
    BY <1>2 DEF dispatch_claim
  <2>2. QED BY <1>2, <2>1 DEF LogStep, LogOfJob
<1>3. ASSUME NEW j \in Jobs, dispatch_skip(j) PROVE LogStep
  BY <1>3, <1>q DEF dispatch_skip
<1>4. ASSUME NEW j \in Jobs, Deliver(j) PROVE LogStep
  <2>1. \A k \in Jobs : status'[k] = status[k] \/ status'[k] \in FINAL_AGENT_JOB_STATUSES
    BY <1>4, DeliverEffect DEF TypeOK
  <2>2. QED BY <1>4, <1>q, <2>1 DEF Deliver, FINAL_AGENT_JOB_STATUSES
<1>5. ASSUME NEW j \in Jobs, Refused(j) PROVE LogStep
  BY <1>5, <1>q DEF Refused
<1>6. ASSUME NEW j \in Jobs, WaiterReturns(j) PROVE LogStep
  BY <1>6, <1>q DEF WaiterReturns
<1>7. ASSUME NEW j \in Jobs, Rewait(j) PROVE LogStep
  BY <1>7, <1>q DEF Rewait
<1>8. ASSUME NEW j \in Jobs, CancelJob(j) PROVE LogStep
  BY <1>8, <1>q DEF CancelJob, TypeOK
<1>9. ASSUME NEW j \in Jobs, request_agent_job_cancel(j) PROVE LogStep
  BY <1>9, <1>q DEF request_agent_job_cancel, TypeOK
<1>10. ASSUME NEW j \in Jobs, CancelQueuedRow(j) PROVE LogStep
  BY <1>10, <1>q DEF CancelQueuedRow
<1>10a. ASSUME NEW j \in Jobs, RunAgain(j) PROVE LogStep
  BY <1>10a, <1>q DEF RunAgain
<1>11. ASSUME NEW j \in Jobs, Age(j) PROVE LogStep
  BY <1>11, <1>q DEF Age
<1>12. ASSUME NEW x \in sends, SendOk(x) PROVE LogStep
  BY <1>12, <1>q DEF SendOk
<1>13. ASSUME NEW x \in sends, SendFails(x) PROVE LogStep
  <2>1. /\ UNCHANGED logs
        /\ \A k \in Jobs :
              \/ status'[k] = status[k] /\ claimed'[k] = claimed[k]
              \/ k = x.job /\ x.cmd = "run" /\ status[k] = "claimed" /\ claimed'[k] = x.prev
    BY <1>13, JobsNamed DEF SendFails, Requeued, TypeOK
  <2>2. QED BY <1>13, <2>1 DEF LogStep, LogOfJob
<1>14. ASSUME NEW s \in Sids, HelloRead(s) PROVE LogStep
  BY <1>14, <1>q DEF HelloRead
<1>15. ASSUME NEW s \in Sids, BeatRead(s) PROVE LogStep
  BY <1>15, <1>q DEF BeatRead
<1>16. ASSUME NEW s \in Sids, ReceiveAck(s) PROVE LogStep
  <2>1. Head(up[s]).job \in Jobs BY <1>16, UpHead DEF ReceiveAck, HeadIs, Reports
  <2>2. QED BY <1>16, <2>1 DEF ReceiveAck, LogStep, LogOfJob, TypeOK
<1>17. ASSUME NEW s \in Sids, ReceiveStarted(s) PROVE LogStep
  <2>1. Head(up[s]).job \in Jobs BY <1>17, UpHead DEF ReceiveStarted, HeadIs, Reports
  <2>2. QED BY <1>17, <2>1 DEF ReceiveStarted, LogStep, LogOfJob, TypeOK
<1>18. ASSUME NEW s \in Sids, ReceiveProgress(s) PROVE LogStep
  BY <1>18, <1>q DEF ReceiveProgress
<1>19. ASSUME NEW s \in Sids, ReceiveLog(s) PROVE LogStep
  <2>1. Head(up[s]).job \in Jobs /\ Head(up[s]) \in Elems(up[s]) /\ Head(up[s]).type = "log"
    BY <1>19, UpHead, ElemsTail DEF ReceiveLog, HeadIs, Reports, Wired
  <2>2. Head(up[s]).att \in 0..Unsent BY <1>19, UpHead DEF ReceiveLog, HeadIs, Reports, Attempts
  <2>3. UNCHANGED <<status, claimed>> /\ Logged(Head(up[s]).job, Head(up[s]).att) BY <1>19 DEF ReceiveLog
  <2>4. PICK j \in Jobs, a \in 0..Unsent : j = Head(up[s]).job /\ a = Head(up[s]).att BY <2>1, <2>2
  <2>5. Traced(j, a) BY <2>1, <2>4 DEF Traced
  <2>6. QED BY <2>3, <2>4, <2>5, LoggedEffect DEF LogStep, LogOfJob
<1>20. ASSUME NEW s \in Sids, ServerClose(s) PROVE LogStep
  BY <1>20, <1>q DEF ServerClose
<1>21. CASE HelloSettle
  <2>1. \A k \in Jobs : IF Settled(pass, k) = "requeue" THEN logs'[k] = KeptLines(k) /\ claimed'[k] = 0
                        ELSE logs'[k] = logs[k] /\ claimed'[k] = claimed[k] /\ status'[k] \in {status[k], "canceled", "failed"}
    BY <1>21 DEF HelloSettle, Requeue
  <2>2. QED BY <2>1 DEF LogStep, LogOfJob, KeptLines, Removal
<1>22. CASE BeatSettle
  <2>1. \A k \in Jobs : IF Settled(pass, k) = "requeue" THEN logs'[k] = KeptLines(k) /\ claimed'[k] = 0
                        ELSE logs'[k] = logs[k] /\ claimed'[k] = claimed[k] /\ status'[k] \in {status[k], "canceled", "failed"}
    BY <1>22 DEF BeatSettle, Requeue
  <2>2. QED BY <2>1 DEF LogStep, LogOfJob, KeptLines, Removal
<1>23. CASE AgentConnect
  BY <1>23, <1>q DEF AgentConnect
<1>24. CASE ReceiveRun
  BY <1>24, <1>q DEF ReceiveRun
<1>25. CASE ReceiveCancel
  BY <1>25, <1>q DEF ReceiveCancel
<1>26. CASE Heartbeat
  BY <1>26, <1>q DEF Heartbeat
<1>27. CASE AgentDrop
  BY <1>27, <1>q DEF AgentDrop
<1>28. CASE AgentCrash
  BY <1>28, <1>q DEF AgentCrash
<1>29. CASE AgentSilent
  BY <1>29, <1>q DEF AgentSilent
<1>30. CASE Revoke
  BY <1>30, <1>q DEF Revoke
<1>31. CASE ServerCrash
  BY <1>31, <1>q DEF ServerCrash
<1>32. CASE ReapWrite
  BY <1>32, <1>q DEF ReapWrite, TypeOK
<1>33. CASE Rest
  BY <1>33, <1>q DEF Rest, vars
<1>34. ASSUME NEW r \in run, WorkerStart(r) PROVE LogStep
  BY <1>34, <1>q DEF WorkerStart
<1>35. ASSUME NEW r \in run, WorkerProgress(r) PROVE LogStep
  BY <1>35, <1>q DEF WorkerProgress
<1>36. ASSUME NEW r \in run, WorkerLog(r) PROVE LogStep
  <2>1. r.job \in Jobs BY JobsNamed
  <2>2. r.att \in 0..Unsent BY DEF Wired, Workers, Attempts
  <2>3. UNCHANGED <<status, claimed>> /\ (UNCHANGED <<age, logs>> \/ Logged(r.job, r.att)) BY <1>36 DEF WorkerLog
  <2>4. PICK j \in Jobs, a \in 0..Unsent : j = r.job /\ a = r.att BY <2>1, <2>2
  <2>5. Traced(j, a) BY <2>4 DEF Traced
  <2>6. QED BY <2>3, <2>4, <2>5, LoggedEffect DEF LogStep, LogOfJob
<1>37. ASSUME NEW r \in run, WorkerLeaves(r) PROVE LogStep
  BY <1>37, <1>q DEF WorkerLeaves
<1>38. ASSUME NEW r \in run, NEW o \in {"complete", "fail", "lock", "cancel"}, WorkerEnd(r, o) PROVE LogStep
  BY <1>38, <1>q DEF WorkerEnd
<1>39. ASSUME NEW k \in {"stale", "queued", "skip"}, ReapRead(k) PROVE LogStep
  BY <1>39, <1>q DEF ReapRead
<1>40. CASE UNCHANGED vars
  BY <1>40, <1>q DEF vars
<1>41. QED
  BY <1>1, <1>2, <1>3, <1>4, <1>5, <1>6, <1>7, <1>8, <1>9, <1>10, <1>10a, <1>11, <1>12, <1>13, <1>14, <1>15,
     <1>16, <1>17, <1>18, <1>19, <1>20, <1>21, <1>22, <1>23, <1>24, <1>25, <1>26, <1>27, <1>28,
     <1>29, <1>30, <1>31, <1>32, <1>33, <1>34, <1>35, <1>36, <1>37, <1>38, <1>39, <1>40
  DEF Next, JobStep, SessionStep, WorkerStep

\* Where a frame, a worker and a line come from.
LEMMA Origins ==
    ASSUME Types, Named, [Next]_vars
    PROVE  /\ \A c \in Elems(down') : RunFrame(c) =>
                 c \in Elems(down) \/ \E x \in sends : x.cmd = "run" /\ SendOk(x) /\ c.job = x.job /\ c.att = x.att
           /\ \A r \in run' : \/ \E w \in run : w.job = r.job /\ w.att = r.att
                              \/ \E c \in Elems(down) : RunFrame(c) /\ c.job = r.job /\ c.att = r.att
           /\ \A s \in Sids : \A m \in Elems(up'[s]) : m.type = "log" =>
                 m \in Elems(up[s]) \/ \E r \in run' : m.job = r.job /\ m.att = r.att
<1> USE DEF Types
<1>e. DownStep /\ RunStep /\ UpStep BY StepEffects DEF Effects
<1>1. ASSUME NEW c \in Elems(down'), RunFrame(c)
      PROVE  c \in Elems(down) \/ \E x \in sends : x.cmd = "run" /\ SendOk(x) /\ c.job = x.job /\ c.att = x.att
  <2>1. CASE ReceiveRun BY <2>1, ElemsTail DEF ReceiveRun, Wired
  <2>2. CASE ReceiveCancel BY <2>2, ElemsTail DEF ReceiveCancel, Wired
  <2>3. ASSUME NEW x \in sends, SendOk(x)
        PROVE  c \in Elems(down) \/ (x.cmd = "run" /\ c.job = x.job /\ c.att = x.att)
    <3>1. [cmd |-> x.cmd, job |-> x.job, att |-> x.att] \in Commands BY DEF Wired, Sends, Commands
    <3>2. x.conn = sess => Elems(down') = Elems(down) \cup {[cmd |-> x.cmd, job |-> x.job, att |-> x.att]}
      BY <2>3, <3>1, ElemsAppend DEF SendOk, Wired
    <3>3. x.conn # sess => down' = down BY <2>3 DEF SendOk
    <3>4. QED BY <1>1, <3>2, <3>3 DEF RunFrame
  <2>4. QED BY <1>1, <1>e, <2>1, <2>2, <2>3, ElemsEmpty DEF DownStep
<1>2. ASSUME NEW r \in run'
      PROVE  \/ \E w \in run : w.job = r.job /\ w.att = r.att
             \/ \E c \in Elems(down) : RunFrame(c) /\ c.job = r.job /\ c.att = r.att
  <2>1. CASE ReceiveRun
    <3>1. Head(down) \in Elems(down) /\ RunFrame(Head(down)) BY <2>1, ElemsTail DEF ReceiveRun, Wired, RunFrame
    <3>2. r \in run \/ (r.job = Head(down).job /\ r.att = Head(down).att) BY <1>2, <2>1 DEF ReceiveRun
    <3>3. QED BY <3>1, <3>2
  <2>2. ASSUME NEW w \in run, WorkerStart(w) PROVE r \in run \/ (w.job = r.job /\ w.att = r.att)
    BY <1>2, <2>2 DEF WorkerStart, Staged, Wired, Workers
  <2>3. ASSUME NEW w \in run, NEW o \in {"complete", "fail", "lock", "cancel"}, WorkerEnd(w, o)
        PROVE  r \in run \/ (w.job = r.job /\ w.att = r.att)
    BY <1>2, <2>3 DEF WorkerEnd, Staged, Wired, Workers
  <2>4. QED BY <1>2, <1>e, <2>1, <2>2, <2>3 DEF RunStep
<1>3. ASSUME NEW s \in Sids, NEW m \in Elems(up'[s]), m.type = "log"
      PROVE  m \in Elems(up[s]) \/ \E r \in run' : m.job = r.job /\ m.att = r.att
  <2>0. up[s] \in Seq(Frames) BY DEF Wired
  <2>1. CASE AgentConnect BY <1>3, <2>1, ElemsOne, ElemsEmpty DEF AgentConnect
  <2>2. CASE up'[s] = up[s] BY <1>3, <2>2
  <2>3. CASE up'[s] = << >> BY <1>3, <2>3, ElemsEmpty
  <2>4. CASE up[s] # << >> /\ up'[s] = Tail(up[s]) BY <1>3, <2>0, <2>4, ElemsTail
  <2>5. ASSUME NEW f \in Frames, up'[s] = Append(up[s], f),
               f.type = "beat" \/ \E r \in run' : f.job = r.job /\ f.att = r.att
        PROVE  m \in Elems(up[s]) \/ \E r \in run' : m.job = r.job /\ m.att = r.att
    <3>1. Elems(up'[s]) = Elems(up[s]) \cup {f} BY <2>0, <2>5, ElemsAppend
    <3>2. QED BY <1>3, <2>5, <3>1
  <2>6. QED BY <1>e, <2>1, <2>2, <2>3, <2>4, <2>5 DEF UpStep
<1>4. QED BY <1>1, <1>2, <1>3

\* The log of a claim stays that of one run: a line counts only while the
\* claim it was written under stands.
LEMMA StepLogInv ==
    ASSUME "late_send_error" \notin Env, Types, Named, LogInv, [Next]_vars
    PROVE  LogInv'
<1> USE DEF Types, LogInv
<1>e. SendsStep /\ QueuedStep /\ ClaimsStep BY StepEffects DEF Effects
<1>l. LogStep BY StepLogs
<1>t. Wired' /\ TypeOK' BY StepWired, StepTypeOK
<1>n. /\ \A x \in sends : x.job \in Jobs
      /\ \A c \in Elems(down) : c.job \in Jobs
      /\ \A s \in Sids : \A m \in Elems(up[s]) : m.type = "log" => m.job \in Jobs
      /\ \A r \in run : r.job \in Jobs
  BY JobsNamed DEF Reports
<1>c. \A j \in Jobs : claims[j] \in Nat /\ claims'[j] \in Nat /\ claims'[j] >= claims[j]
                      /\ \A a \in 1..claims[j] : a \in 1..claims'[j]
  BY <1>e, <1>t DEF ClaimsStep, TypeOK
<1>d. \A j \in Jobs : dispatch_claim(j) => /\ status[j] = "queued" /\ status'[j] = "claimed"
                                           /\ claims'[j] = claims[j] + 1
                                           /\ UNCHANGED <<down, run, up, logs>>
                                           /\ sends' = sends \cup {Dispatched(j)}
  BY DEF dispatch_claim, TypeOK, wires, agent, Dispatched
<1>j. \A j \in Jobs : /\ Dispatched(j).job = j /\ Dispatched(j).att = claims[j] + 1
                      /\ Dispatched(j).prev = claimed[j] /\ Dispatched(j).cmd = "run"
  BY DEF Dispatched
<1>z. \A j \in Jobs : status[j] \in {"absent", "queued"} \/ claimed[j] = 0 =>
         claimed[j] = 0 /\ \A l \in logs[j] : Removal(j, l)
  BY <1>c DEF LogsOfClaim, Numbered
<1>o. ASSUME NEW j \in Jobs, NEW a, Traced(j, a) PROVE a \in 1..claims[j]
  BY <1>o DEF Traced, Numbered
<1>f. \A x \in sends : x.cmd = "run" /\ SendFails(x) /\ status[x.job] = "claimed" =>
         (\A l \in logs[x.job] : Removal(x.job, l)) /\ x.prev = 0
  BY <1>n DEF SendFails, Fault, LogsOfClaim, SentOnce, Numbered
<1>1. Numbered'
  <2>1. ASSUME NEW x \in sends', x.cmd = "run" PROVE x.att \in 1..claims'[x.job] /\ x.prev = 0
    <3>1. CASE x \in sends BY <1>c, <1>n, <2>1, <3>1 DEF Numbered
    <3>2. ASSUME NEW j \in Jobs, dispatch_claim(j), x = Dispatched(j) PROVE x.att \in 1..claims'[x.job] /\ x.prev = 0
      BY <1>c, <1>d, <1>j, <1>z, <3>2
    <3>3. QED BY <1>e, <2>1, <3>1, <3>2 DEF SendsStep
  <2>2. ASSUME NEW c \in Elems(down'), RunFrame(c) PROVE c.att \in 1..claims'[c.job]
    <3>1. CASE c \in Elems(down) BY <1>c, <1>n, <2>2, <3>1 DEF Numbered
    <3>2. ASSUME NEW x \in sends, x.cmd = "run", c.job = x.job, c.att = x.att PROVE c.att \in 1..claims'[c.job]
      BY <1>c, <1>n, <3>2 DEF Numbered
    <3>3. QED BY <2>2, <3>1, <3>2, Origins
  <2>3. ASSUME NEW r \in run' PROVE r.att \in 1..claims'[r.job]
    <3>1. ASSUME NEW w \in run, w.job = r.job, w.att = r.att PROVE r.att \in 1..claims'[r.job]
      BY <1>c, <1>n, <3>1 DEF Numbered
    <3>2. ASSUME NEW c \in Elems(down), RunFrame(c), c.job = r.job, c.att = r.att PROVE r.att \in 1..claims'[r.job]
      BY <1>c, <1>n, <3>2 DEF Numbered
    <3>3. QED BY <2>3, <3>1, <3>2, Origins
  <2>4. ASSUME NEW s \in Sids, NEW f \in Elems(up'[s]), f.type = "log" PROVE f.att \in 1..claims'[f.job]
    <3>1. CASE f \in Elems(up[s]) BY <1>c, <1>n, <2>4, <3>1 DEF Numbered
    <3>2. QED BY <2>3, <2>4, <3>1, Origins
  <2>5. ASSUME NEW j \in Jobs PROVE \A l \in logs'[j] : l.att \in 1..claims'[j]
    <3>1. \A l \in logs[j] : l.att \in 1..claims'[j] BY <1>c DEF Numbered
    <3>2. Traced(j, claimed[j]) => claimed[j] \in 1..claims'[j] BY <1>c, <1>o
    <3>3. QED BY <1>l, <3>1, <3>2 DEF LogStep, LogOfJob
  <2>6. QED BY <2>1, <2>2, <2>3, <2>4, <2>5 DEF Numbered, RunFrame
<1>2. ASSUME NEW x \in sends', x.cmd = "run"
      PROVE  /\ \A y \in sends' : y.cmd = "run" /\ y.job = x.job /\ y.att = x.att => y = x
             /\ \A c \in Elems(down') : RunFrame(c) /\ c.job = x.job => c.att # x.att
             /\ \A r \in run' : r.job = x.job => r.att # x.att
             /\ \A s \in Sids : \A f \in Elems(up'[s]) : f.type = "log" /\ f.job = x.job => f.att # x.att
             /\ \A l \in logs'[x.job] : l.att # x.att
  <2>1. CASE x \in sends
    <3>0. x.job \in Jobs /\ x.att \in 1..claims[x.job] BY <1>2, <1>n, <2>1 DEF Numbered
    <3>1. ASSUME NEW y \in sends', y.cmd = "run", y.job = x.job, y.att = x.att PROVE y = x
      <4>1. CASE y \in sends BY <1>2, <2>1, <3>1, <4>1 DEF SentOnce
      <4>2. ASSUME NEW j \in Jobs, y = Dispatched(j) PROVE FALSE
        <5>1. x.job = j /\ x.att = claims[j] + 1 BY <1>j, <3>1, <4>2
        <5>2. QED BY <1>c, <3>0, <5>1
      <4>3. QED BY <1>e, <3>1, <4>1, <4>2 DEF SendsStep
    <3>2. ASSUME NEW c \in Elems(down'), RunFrame(c), c.job = x.job PROVE c.att # x.att
      <4>1. CASE c \in Elems(down) BY <1>2, <2>1, <3>2, <4>1 DEF SentOnce
      <4>2. ASSUME NEW y \in sends, y.cmd = "run", SendOk(y), c.job = y.job, c.att = y.att, c.att = x.att PROVE FALSE
        <5>1. y = x BY <1>2, <2>1, <3>2, <4>2 DEF SentOnce
        <5>2. QED BY <4>2, <5>1 DEF SendOk
      <4>3. QED BY <3>2, <4>1, <4>2, Origins
    <3>3. ASSUME NEW r \in run', r.job = x.job PROVE r.att # x.att
      BY <1>2, <2>1, <3>3, Origins DEF SentOnce
    <3>4. ASSUME NEW s \in Sids, NEW f \in Elems(up'[s]), f.type = "log", f.job = x.job PROVE f.att # x.att
      BY <1>2, <2>1, <3>3, <3>4, Origins DEF SentOnce
    <3>5. \A l \in logs'[x.job] : l.att # x.att
      <4>1. \A l \in logs[x.job] : l.att # x.att BY <1>2, <2>1 DEF SentOnce
      <4>2. Traced(x.job, claimed[x.job]) => claimed[x.job] # x.att BY <1>2, <2>1 DEF SentOnce, Traced
      <4>3. QED BY <1>l, <3>0, <4>1, <4>2 DEF LogStep, LogOfJob
    <3>6. QED BY <3>1, <3>2, <3>3, <3>4, <3>5
  <2>2. ASSUME x \notin sends, NEW j \in Jobs, dispatch_claim(j), x = Dispatched(j)
        PROVE  /\ \A y \in sends' : y.cmd = "run" /\ y.job = x.job /\ y.att = x.att => y = x
               /\ \A c \in Elems(down') : RunFrame(c) /\ c.job = x.job => c.att # x.att
               /\ \A r \in run' : r.job = x.job => r.att # x.att
               /\ \A s \in Sids : \A f \in Elems(up'[s]) : f.type = "log" /\ f.job = x.job => f.att # x.att
               /\ \A l \in logs'[x.job] : l.att # x.att
    <3>1. x.job = j /\ x.att = claims[j] + 1 /\ sends' = sends \cup {x} /\ UNCHANGED <<down, run, up, logs>>
      BY <1>d, <1>j, <2>2
    <3>2. x.att \notin 1..claims[j] BY <1>c, <3>1
    <3>3. QED BY <3>1, <3>2 DEF Numbered
  <2>3. QED BY <1>2, <1>e, <2>1, <2>2 DEF SendsStep
<1>3. LogsOfClaim'
  <2> SUFFICES ASSUME NEW j \in Jobs
               PROVE  /\ \A l \in logs'[j] : l.att = claimed'[j] \/ Removal(j, l)
                      /\ status'[j] \in {"absent", "queued"} => claimed'[j] = 0
    BY DEF LogsOfClaim
  <2>1. \A l \in logs[j] : l.att = claimed[j] \/ Removal(j, l) BY DEF LogsOfClaim
  <2>2. CASE dispatch_claim(j) BY <1>d, <1>z, <2>2
  <2>3. ASSUME NEW x \in sends, SendFails(x), x.cmd = "run", x.job = j, status[j] = "claimed", claimed'[j] = x.prev,
               logs'[j] = logs[j]
        PROVE  (\A l \in logs'[j] : Removal(j, l)) /\ claimed'[j] = 0
    BY <1>f, <2>3
  <2>4. QED BY <1>l, <1>z, <2>1, <2>2, <2>3 DEF LogStep, LogOfJob
<1>4. QED BY <1>1, <1>2, <1>3 DEF SentOnce, RunFrame

\* LogOfOneRun: the stored log of a job is that of the run that stands, but
\* for the lines in which an earlier run of a prune named what it removed,
\* across requeues, second runs and lines that arrive late, when the error of a failed send
\* reaches its sender before the job has been claimed again.
THEOREM LogOfOneRunAlways ==
    ASSUME "late_send_error" \notin Env
    PROVE  Spec => []LogOfOneRun
<1>1. Init => LogInv BY ElemsEmpty DEF Init, LogInv, Numbered, SentOnce, LogsOfClaim
<1>2. Types /\ Named /\ LogInv /\ [Next]_vars => LogInv' BY StepLogInv
<1>3. LogInv => LogOfOneRun BY DEF LogInv, LogsOfClaim, LogOfOneRun, Removal
<1>4. QED BY TypesAlways, <1>1, <1>2, <1>3, PTL DEF Spec
=============================================================================
