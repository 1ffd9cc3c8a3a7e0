--------------------------- MODULE AgentUpgrades ---------------------------
(***************************************************************************)
(* Upgrades of the managed agents, both ends: the upgrade route, the waves *)
(* that hand out the free slots (the route and the reaper both release     *)
(* one), the reaper's timeout, the hello that resolves an upgrade, and on  *)
(* the endpoint the claim that keeps jobs away while the root helper is    *)
(* about to restart the process.                                           *)
(*                                                                         *)
(* A row is loaded into an ORM session and written back later: a column    *)
(* set to the value it was loaded with is not in the UPDATE, which Write   *)
(* and the loaded values a wave and a hello carry stand for.  Time is      *)
(* relative: a stamp ages and a claim runs out with the same Tick.         *)
(***************************************************************************)
EXTENDS Integers, FiniteSets

CONSTANTS
    Agents,        \* agent_machines ids, in the order waves take them
    Routes,        \* the calls of the upgrade route
    Asks,          \* the agents each of them names
    Cap,           \* AGENT_UPGRADE_CONCURRENCY
    Timeout,       \* AGENT_UPGRADE_TIMEOUT_SECONDS and UPGRADE_CLAIM_SECONDS
    MaxVersion,    \* versions the server ships over the model's life
    MaxFaults,     \* crashes, drops and aborted waves
    Current,       \* agents that run the server's version from the start
    Alive,         \* the agents that take up commands; the others hang
    Working,       \* the agents that are also sent jobs
    Roaming        \* the agents whose sessions break, and that come back

ASSUME UpgradeAssumption ==
    /\ Agents \subseteq Nat /\ IsFiniteSet(Agents) /\ Current \subseteq Agents
    /\ Cap \in Nat \ {0} /\ Timeout \in Nat \ {0} /\ MaxVersion \in Nat \ {0, 1}
    /\ MaxFaults \in Nat /\ Working \subseteq Agents
    /\ Alive \subseteq Agents /\ Roaming \subseteq Agents
    /\ "left" \notin Routes /\ Asks \in [Routes -> SUBSET Agents \ {{}}]

VARIABLES
    available,  \* agent_package_version() of the server
    state,      \* agent_machines.upgrade_state
    target,     \* upgrade_target_version, 0 for none
    stamp,      \* age of upgrade_requested_at, NoStamp without one
    jobs,       \* agent_upgrade jobs in flight: <<agent, releaser or "left">>
    wave,       \* per releaser: the rows of its wave that are left
    sent,       \* per releaser: what the first of them was loaded as, NoRow before the send
    answer,     \* per releaser: the answer to its command
    stale,      \* rows the reaper read as timed out
    hello,      \* per agent: the row as the session authenticated with it
    up,         \* agents with a registered session
    ver,        \* agent: version of the running process
    cmd,        \* agent: releasers whose command waits to be handled
    reserved,   \* agent: releaser whose handler holds the claim, before the trigger
    claim,      \* agent: _upgrading_until, as the time left
    jobAt,      \* agent: a job's place in _handle_command
    trigger,    \* agent: the trigger file exists
    called,     \* the calls of the route that were made
    faults,
    overtaken   \* history: rows a hello resolved while they waited in a wave

server == <<available, state, target, stamp, jobs, wave, sent, answer, stale>>
endpoint == <<up, ver, cmd, reserved, claim, jobAt, trigger>>
system == <<server, hello, endpoint, called, faults>>
vars == <<system, overtaken>>

None == "none"
Releasers == Routes \cup {"reaper"}   \* callers of release_agent_upgrade_waves
States == {None, "queued", "requested", "idle", "failed"}
Ages == 0..(Timeout + 1)
NoStamp == -1
NoRow == [state |-> None, stamp |-> NoStamp, target |-> -1]
Row(a) == [state |-> state[a], stamp |-> stamp[a], target |-> target[a]]

Init ==
    /\ available = 2
    /\ state = [a \in Agents |-> None] /\ target = [a \in Agents |-> 0]
    /\ stamp = [a \in Agents |-> NoStamp]
    /\ jobs = {} /\ stale = {}
    /\ wave = [r \in Releasers |-> {}]
    /\ sent = [r \in Releasers |-> NoRow] /\ answer = [r \in Releasers |-> None]
    /\ hello = [a \in Agents |-> NoRow]
    /\ up = Agents /\ ver = [a \in Agents |-> IF a \in Current THEN 2 ELSE 1]
    /\ cmd = [a \in Agents |-> {}] /\ reserved = [a \in Agents |-> None]
    /\ claim = [a \in Agents |-> 0]
    /\ jobAt = [a \in Agents |-> None] /\ trigger = [a \in Agents |-> FALSE]
    /\ called = {} /\ faults = 0 /\ overtaken = {}

Fault == faults < MaxFaults /\ faults' = faults + 1

-----------------------------------------------------------------------------
\* The server.

\* A wave awaits nothing but the answer to its command: between its claims, or
\* an answer, and the next send no other handler of the event loop runs.
LoopFree == \A r \in Releasers : wave[r] = {} \/ sent[r] # NoRow

\* The row a wave sends to next: waiting is read in the order of the ids.
First(S) == CHOOSE a \in S : \A b \in S : a <= b

\* The rows of r's wave it has not sent a command to yet.
Undispatched(r) == IF sent[r] = NoRow THEN wave[r] ELSE wave[r] \ {First(wave[r])}

\* The value a column has after an ORM write over the value it was loaded with.
Write(column, loaded, value) == IF value = loaded THEN column ELSE value

\* The rows a release claims: the lowest ids among the queued, up to the slots
\* that no requested row holds.  Counting and claiming have no await between.
\* Mutant: every queued row is taken, whatever slots are held.
ClaimedAll(st) == {a \in Agents : st[a] = "queued"}
\* Mutant: a failed endpoint keeps its slot until it comes back.
ClaimedUnlessFailed(st) ==
    LET free == Cap - Cardinality({a \in Agents : st[a] \in {"requested", "failed"}})
        queued == {a \in Agents : st[a] = "queued"}
    IN  {a \in queued : Cardinality({b \in queued : b < a}) < free}
Claimed(st) ==
    LET free == Cap - Cardinality({a \in Agents : st[a] = "requested"})
        queued == {a \in Agents : st[a] = "queued"}
    IN  {a \in queued : Cardinality({b \in queued : b < a}) < free}

\* release_agent_upgrade_waves up to its first await, over the states st.
Release(r, st, sp) ==
    LET taken == Claimed(st)
    IN  /\ state' = [a \in Agents |-> IF a \in taken THEN "requested" ELSE st[a]]
        /\ stamp' = [a \in Agents |-> IF a \in taken THEN 0 ELSE sp[a]]
        /\ wave' = [wave EXCEPT ![r] = taken]

\* The route takes an endpoint that is neither queued nor upgrading and has no
\* upgrade job nobody has answered for.
Accepts(a) ==
    /\ ~\E j \in jobs : j[1] = a
    /\ state[a] \notin {"queued", "requested"}

\* POST /agents/upgrade: accept, then the first wave inline.
Upgrade(r) ==
    /\ LoopFree /\ wave[r] = {} /\ r \notin called
    /\ LET accepted == {a \in Asks[r] : Accepts(a)}
       IN  /\ target' = [a \in Agents |-> IF a \in accepted THEN available ELSE target[a]]
           /\ Release(r, [a \in Agents |-> IF a \in accepted THEN "queued" ELSE state[a]],
                         [a \in Agents |-> IF a \in accepted THEN NoStamp ELSE stamp[a]])
    /\ called' = called \cup {r}
    /\ UNCHANGED <<available, jobs, sent, answer, stale, hello, endpoint, faults>>

\* _release_upgrade_waves, at the end of a reaper tick.
ReaperWave ==
    /\ LoopFree /\ wave["reaper"] = {} /\ Claimed(state) # {}
    /\ Release("reaper", state, stamp)
    /\ UNCHANGED <<available, target, jobs, sent, answer, stale, hello, endpoint, called, faults>>

\* The end of request_agent_upgrade for a row loaded as `loaded`.
\* Mutant: a failed command clears the stamp and forgets the state.
RecordedStampOnly(r, a, loaded, outcome) ==
    /\ stamp' = [stamp EXCEPT ![a] = IF outcome = "ok" THEN 0 ELSE NoStamp]
    /\ jobs' = jobs \ {<<a, r>>}
    /\ wave' = [wave EXCEPT ![r] = @ \ {First(@)}]
    /\ sent' = [sent EXCEPT ![r] = NoRow]
    /\ answer' = [answer EXCEPT ![r] = None]
    /\ UNCHANGED state
Recorded(r, a, loaded, outcome) ==
    /\ state' = [state EXCEPT ![a] = Write(@, loaded.state,
                    IF outcome = "ok" THEN "requested" ELSE "failed")]
    /\ stamp' = [stamp EXCEPT ![a] = IF outcome = "ok" THEN 0 ELSE Write(@, loaded.stamp, NoStamp)]
    /\ jobs' = jobs \ {<<a, r>>}
    /\ wave' = [wave EXCEPT ![r] = @ \ {First(@)}]
    /\ sent' = [sent EXCEPT ![r] = NoRow]
    /\ answer' = [answer EXCEPT ![r] = None]

\* The next row of a wave is loaded, its job inserted and its command sent.
Dispatch(r) ==
    /\ wave[r] # {} /\ sent[r] = NoRow
    /\ LET a == First(wave[r])
       IN  IF a \in up
           THEN /\ sent' = [sent EXCEPT ![r] = Row(a)]
                /\ jobs' = jobs \cup {<<a, r>>}
                /\ cmd' = [cmd EXCEPT ![a] = @ \cup {r}]
                /\ UNCHANGED <<state, stamp, wave, answer>>
           ELSE /\ Recorded(r, a, Row(a), "unavailable")
                /\ UNCHANGED cmd
    /\ UNCHANGED <<available, target, stale, hello, up, ver, reserved, claim, jobAt, trigger,
                   called, faults>>

\* send_command returns, raises the endpoint's error, or raises its timeout.
Answered(r) ==
    /\ LoopFree /\ sent[r] # NoRow
    /\ Recorded(r, First(wave[r]), sent[r], answer[r])
    /\ UNCHANGED <<available, target, stale, hello, endpoint, called, faults>>

\* A wave that stops on anything else hands back what was never sent, unless
\* the write fails too; the row it was at keeps the state it has.
WaveAborts(r) ==
    /\ wave[r] # {} /\ Fault
    /\ \E back \in {{}, {a \in wave[r] \ {First(wave[r])} : state[a] = "requested"}} :
           /\ state' = [a \in Agents |-> IF a \in back THEN "queued" ELSE state[a]]
           /\ stamp' = [a \in Agents |-> IF a \in back THEN NoStamp ELSE stamp[a]]
    /\ jobs' = {IF j[2] = r THEN <<j[1], "left">> ELSE j : j \in jobs}
    /\ wave' = [wave EXCEPT ![r] = {}]
    /\ sent' = [sent EXCEPT ![r] = NoRow] /\ answer' = [answer EXCEPT ![r] = None]
    /\ UNCHANGED <<available, target, stale, hello, endpoint, called>>

\* reap_stale_agent_upgrades runs in a thread: it reads the timed out rows...
ReapRead ==
    /\ stale = {}
    /\ stale' = {a \in Agents : state[a] = "requested" /\ stamp[a] = Timeout + 1}
    /\ stale' # {}
    /\ UNCHANGED <<available, state, target, stamp, jobs, wave, sent, answer,
                   hello, endpoint, called, faults>>

\* ... and fails the ones that are still requested under the same stamp.
Reaped == {a \in stale : state[a] = "requested" /\ stamp[a] = Timeout + 1}

ReapWrite ==
    /\ stale # {}
    /\ state' = [a \in Agents |-> IF a \in Reaped THEN "failed" ELSE state[a]]
    /\ stale' = {}
    /\ UNCHANGED <<available, target, stamp, jobs, wave, sent, answer,
                   hello, endpoint, called, faults>>

\* An upgrade job that no call of this process answers for is ended by the job
\* reaper, or queued again by a hello and refused by the agent.
LeftJobEnds(a) ==
    /\ <<a, "left">> \in jobs
    /\ jobs' = jobs \ {<<a, "left">>}
    /\ UNCHANGED <<available, state, target, stamp, wave, sent, answer, stale,
                   hello, endpoint, called, faults>>

\* A session authenticates with the row as it is now. The endpoint may have
\* left one that is still registered: what it was sent there is lost. (The
\* polling runtime's REST heartbeat resolves too; it has no session to command.)
HelloRead(a) ==
    /\ LoopFree /\ a \in Roaming /\ hello[a] = NoRow
    /\ hello' = [hello EXCEPT ![a] = Row(a)]
    /\ IF a \in up
       THEN /\ Fault
            /\ cmd' = [cmd EXCEPT ![a] = {}]
            /\ reserved' = [reserved EXCEPT ![a] = IF @ = None THEN @ ELSE "gone"]
       ELSE UNCHANGED <<cmd, reserved, faults>>
    /\ UNCHANGED <<server, up, ver, claim, jobAt, trigger, called>>

\* The endpoint reads the session that is registered.
Reads(a) == a \in up /\ hello[a] = NoRow

\* Whether a row loaded as row is resolved by an endpoint on version v.
Resolves(row, v) == row.state \in {"requested", "failed"} /\ row.target = v

\* The waiting commands of the sessions of S are rejected.
Rejected(S) == [r \in Releasers |->
    IF sent[r] # NoRow /\ First(wave[r]) \in S /\ answer[r] = None THEN "error" ELSE answer[r]]

\* The hello arrives: resolve_agent_upgrade on the row the session loaded,
\* then the session is registered, in the place of one that was.
HelloCommit(a) ==
    /\ LoopFree /\ hello[a] # NoRow
    /\ IF Resolves(hello[a], ver[a])
       THEN /\ state' = [state EXCEPT ![a] = "idle"]
            /\ stamp' = [stamp EXCEPT ![a] = Write(@, hello[a].stamp, NoStamp)]
       ELSE UNCHANGED <<state, stamp>>
    /\ hello' = [hello EXCEPT ![a] = NoRow]
    /\ up' = up \cup {a} /\ cmd' = [cmd EXCEPT ![a] = {}]
    /\ answer' = Rejected({a})
    /\ UNCHANGED <<available, target, jobs, wave, sent, stale,
                   ver, reserved, claim, jobAt, trigger, called, faults>>

\* The sessions of S end: commands that wait for them are rejected, frames a
\* worker queues later go nowhere.
Gone(S) ==
    /\ up' = up \ S
    /\ cmd' = [a \in Agents |-> IF a \in S THEN {} ELSE cmd[a]]
    /\ reserved' = [a \in Agents |-> IF a \in S /\ reserved[a] # None THEN "gone" ELSE reserved[a]]

Drop(a) ==
    /\ LoopFree /\ a \in up \cap Roaming /\ Fault /\ Gone({a})
    /\ answer' = Rejected({a})
    /\ UNCHANGED <<available, state, target, stamp, jobs, wave, sent, stale, hello,
                   ver, claim, jobAt, trigger, called>>

\* The server restarts, on the same package or on a newer one.
ServerRestart ==
    /\ Fault /\ Gone(Agents)
    /\ available' \in available..MaxVersion
    /\ jobs' = {<<j[1], "left">> : j \in jobs}
    /\ wave' = [r \in Releasers |-> {}]
    /\ sent' = [r \in Releasers |-> NoRow] /\ answer' = [r \in Releasers |-> None]
    /\ stale' = {} /\ hello' = [a \in Agents |-> NoRow]
    /\ UNCHANGED <<state, target, stamp, ver, claim, jobAt, trigger, called>>

-----------------------------------------------------------------------------
\* The endpoint.

\* resolve_command and reject_command: an answer nobody waits for is dropped.
\* Mutant: it is kept for the releaser's next command.
ReplyAnyway(a, r, text) == [answer EXCEPT ![r] = text]
Reply(a, r, text) == [answer EXCEPT ![r] =
    IF sent[r] # NoRow /\ First(wave[r]) = a /\ @ = None THEN text ELSE @]

\* _reserve_for_upgrade: refused while a job is registered or a claim holds.
CanReserve(a) == claim[a] = 0 /\ jobAt[a] = None

\* _handle_upgrade up to the claim; a refusal is answered at once.
AgentReserves(a, r) ==
    /\ a \in Alive /\ Reads(a) /\ r \in cmd[a] /\ reserved[a] = None
    /\ cmd' = [cmd EXCEPT ![a] = @ \ {r}]
    /\ IF CanReserve(a)
       THEN /\ claim' = [claim EXCEPT ![a] = Timeout]
            /\ reserved' = [reserved EXCEPT ![a] = r]
            /\ UNCHANGED answer
       ELSE /\ answer' = Reply(a, r, "error")
            /\ UNCHANGED <<claim, reserved>>
    /\ UNCHANGED <<available, state, target, stamp, jobs, wave, sent, stale, hello,
                   up, ver, jobAt, trigger, called, faults>>

\* The rest of it: the trigger file, or the claim released when the endpoint
\* turns out not to be able to upgrade itself.
AgentTriggers(a) ==
    /\ reserved[a] # None
    /\ \E ok \in BOOLEAN :
          /\ trigger' = [trigger EXCEPT ![a] = @ \/ ok]
          /\ claim' = [claim EXCEPT ![a] = IF ok THEN @ ELSE 0]
          /\ answer' = IF reserved[a] \in Releasers
                       THEN Reply(a, reserved[a], IF ok THEN "ok" ELSE "error") ELSE answer
    /\ reserved' = [reserved EXCEPT ![a] = None]
    /\ UNCHANGED <<available, state, target, stamp, jobs, wave, sent, stale, hello,
                   up, ver, cmd, jobAt, called, faults>>

\* The root helper, outside the agent: it reinstalls from the server's wheels
\* and restarts the process, or aborts with the process still running.
HelperRuns(a) ==
    /\ trigger[a]
    /\ trigger' = [trigger EXCEPT ![a] = FALSE]
    /\ ver' = [ver EXCEPT ![a] = available]
    /\ Gone({a})
    /\ answer' = Rejected({a})
    /\ claim' = [claim EXCEPT ![a] = 0]
    /\ jobAt' = [jobAt EXCEPT ![a] = None]
    /\ hello' = [hello EXCEPT ![a] = NoRow]
    /\ UNCHANGED <<available, state, target, stamp, jobs, wave, sent, stale, called, faults>>

HelperAborts(a) ==
    /\ trigger[a]
    /\ trigger' = [trigger EXCEPT ![a] = FALSE]
    /\ UNCHANGED <<server, hello, up, ver, cmd, reserved, claim, jobAt, called, faults>>

JobMoves(a, from, to) ==
    /\ jobAt[a] = from
    /\ jobAt' = [jobAt EXCEPT ![a] = to]
    /\ UNCHANGED <<server, hello, up, ver, cmd, reserved, claim, trigger, called, faults>>

\* The session loop registers a job before its worker exists; the worker
\* refuses under a claim (_upgrade_claimed), else runs the handler to its end.
\* Mutant: the worker does not look for a claim.
RefusedNever(a) == FALSE
RefusedByClaim(a) == claim[a] > 0

JobArrives(a) == a \in Working /\ Reads(a) /\ JobMoves(a, None, "registered")
JobRefused(a) == RefusedByClaim(a) /\ JobMoves(a, "registered", None)
JobStarts(a) == ~RefusedByClaim(a) /\ JobMoves(a, "registered", "runs")
JobEnds(a) == JobMoves(a, "runs", None)

\* Time passes for the stamps and the claims alike.  A wave sends to at most Cap
\* endpoints for 15 seconds each, so no row of a wave times out in it; the
\* handler of the upgrade command takes no time.
Tick ==
    /\ \E a \in Agents : claim[a] > 0 \/ stamp[a] \in 0..Timeout
    /\ \A a \in Agents : reserved[a] = None
    /\ \A r \in Releasers : \A a \in wave[r] : stamp[a] # Timeout
    /\ stamp' = [a \in Agents |-> IF stamp[a] \in 0..Timeout THEN stamp[a] + 1 ELSE stamp[a]]
    /\ claim' = [a \in Agents |-> IF claim[a] > 0 THEN claim[a] - 1 ELSE 0]
    /\ UNCHANGED <<available, state, target, jobs, wave, sent, answer, stale, hello,
                   up, ver, cmd, reserved, jobAt, trigger, called, faults>>

-----------------------------------------------------------------------------
ServerStep(r) == Dispatch(r) \/ Answered(r) \/ WaveAborts(r)

AgentStep(a) ==
    \/ LeftJobEnds(a) \/ HelloRead(a) \/ HelloCommit(a) \/ Drop(a)
    \/ \E r \in Releasers : AgentReserves(a, r)
    \/ AgentTriggers(a) \/ HelperRuns(a) \/ HelperAborts(a)
    \/ JobArrives(a) \/ JobRefused(a) \/ JobStarts(a) \/ JobEnds(a)

\* A row is overtaken from the hello that resolves it before its command, for
\* as long as it is in a wave or in flight.
Remembers == overtaken' = {a \in Agents :
    /\ \/ a \in overtaken
       \/ state'[a] = "idle" /\ \E r \in Releasers : a \in Undispatched(r)
    /\ state'[a] = "requested" \/ \E r \in Releasers : a \in wave'[r]}

Step ==
    \/ \E r \in Routes : Upgrade(r)
    \/ \E r \in Releasers : ServerStep(r)
    \/ \E a \in Agents : AgentStep(a)
    \/ ReaperWave \/ ReapRead \/ ReapWrite
    \/ ServerRestart \/ Tick

Next == Step /\ Remembers

Spec == Init /\ [][Next]_vars

\* The server's loop runs its calls to their end (a command that nobody answers
\* times out) and the reaper ticks on; time passes.  Nothing is assumed of the
\* endpoints: they need not come back.
Fairness ==
    /\ \A r \in Releasers : WF_system(Dispatch(r)) /\ WF_system(Answered(r))
    /\ WF_system(ReapRead) /\ WF_system(ReapWrite)
    /\ WF_system(ReaperWave) /\ WF_system(Tick)
    /\ \A a \in Alive : WF_system(AgentTriggers(a))
FairSpec == Spec /\ Fairness

-----------------------------------------------------------------------------
Stamps == Ages \cup {NoStamp}
Rows == [state : States, stamp : Stamps, target : 0..MaxVersion]
\* Every variable holds a value of its kind, and an answer belongs to a command
\* that waits for one.
TypeOK ==
    /\ available \in 1..MaxVersion
    /\ state \in [Agents -> States] /\ target \in [Agents -> 0..MaxVersion]
    /\ stamp \in [Agents -> Stamps]
    /\ jobs \subseteq Agents \X (Releasers \cup {"left"})
    /\ \A r \in Releasers :
          /\ wave[r] \subseteq Agents
          /\ sent[r] \in Rows \cup {NoRow} /\ answer[r] \in {None, "ok", "error"}
          /\ sent[r] # NoRow => wave[r] # {}
          /\ answer[r] # None => sent[r] # NoRow
    /\ stale \subseteq Agents /\ hello \in [Agents -> Rows \cup {NoRow}]
    /\ up \subseteq Agents /\ ver \in [Agents -> 1..MaxVersion]
    /\ cmd \in [Agents -> SUBSET Releasers]
    /\ reserved \in [Agents -> Releasers \cup {None, "gone"}]
    /\ claim \in [Agents -> 0..Timeout] /\ jobAt \in [Agents -> {None, "registered", "runs"}]
    /\ trigger \in [Agents -> BOOLEAN]
    /\ called \subseteq Routes /\ overtaken \subseteq Agents

\* The rows that hold a slot, but for those that came to it over the end a
\* hello had given them while they waited in their wave.
Slots == {a \in Agents : state[a] = "requested" /\ a \notin overtaken}

\* No more endpoints than the cap hold a slot at once, whoever released their
\* waves and however those were cut short, the rows that were overtaken in
\* their wave excepted (release_agent_upgrade_waves).
CapHolds == Cardinality(Slots) <= Cap

\* A row that holds a slot is stamped, so the timeout that frees the slot of an
\* endpoint that never comes back finds it (reap_stale_agent_upgrades skips a
\* row without a stamp); only one that was overtaken may be without.
SlotsTimed == \A a \in Slots : stamp[a] # NoStamp

\* While an endpoint is claimed for an upgrade no job's handler runs in it, the
\* job that was registered when the claim was taken included
\* (_reserve_for_upgrade and the guard in _handle_command).
ClaimAlone == \A a \in Agents : claim[a] > 0 => jobAt[a] # "runs"

\* "no more than the cap are in flight at once", the overtaken rows included.
InFlightWithinCap == Cardinality({a \in Agents : state[a] = "requested"}) <= Cap

\* An upgrade that was asked for is taken up before anything else becomes of
\* it: a queued row whose endpoint is not on its target only turns requested.
QueuedKept ==
    [][\A a \in Agents : state[a] = "queued" /\ ver[a] # target[a]
            => state'[a] \in {"queued", "requested"}]_vars

\* An endpoint takes jobs again no earlier than the server gives up on the
\* upgrade it was asked for: with the trigger pending and the row requested by
\* an acknowledged command, the claim holds.
ClaimOutlastsRequest ==
    \A a \in Agents :
        /\ trigger[a] /\ state[a] = "requested"
        /\ \A r \in Releasers : a \notin wave[r]
        => claim[a] > 0

\* Every upgrade that is asked for ends, in success or in failure, with
\* endpoints that never come back, aborted waves and restarts of the server.
UpgradeEnds ==
    \A a \in Agents : state[a] = "queued" ~> state[a] \in {"idle", "failed"}
=============================================================================
