-------------------------- MODULE AgentJobContract --------------------------
(***************************************************************************)
(* What the server promises of an agent job, whatever session, thread or   *)
(* timer carries it: a job waits until it is handed out, may come back     *)
(* unfinished, can be asked to stop once it is out, and ends exactly once. *)
(* A job asked to stop is never handed out again.                          *)
(***************************************************************************)
CONSTANTS
    Jobs        \* the agent's jobs

VARIABLES
    phase,      \* "none", "waiting", "out", "stopping" or "ended"
    verdict     \* how an ended job ended, "open" before

Verdict == {"completed", "failed", "canceled"}
vars == <<phase, verdict>>

TypeOK ==
    /\ phase \in [Jobs -> {"none", "waiting", "out", "stopping", "ended"}]
    /\ verdict \in [Jobs -> Verdict \cup {"open"}]

Init ==
    /\ phase = [j \in Jobs |-> "none"]
    /\ verdict = [j \in Jobs |-> "open"]

Move(j, from, to) ==
    /\ phase[j] \in from
    /\ phase' = [phase EXCEPT ![j] = to]
    /\ UNCHANGED verdict

Queue(j) == Move(j, {"none"}, "waiting")
HandOut(j) == Move(j, {"waiting"}, "out")
TakeBack(j) == Move(j, {"out"}, "waiting")
AskToStop(j) == Move(j, {"waiting", "out"}, "stopping")

End(j, v) ==
    /\ phase[j] \in {"waiting", "out", "stopping"}
    /\ phase' = [phase EXCEPT ![j] = "ended"]
    /\ verdict' = [verdict EXCEPT ![j] = v]

JobStep(j) ==
    \/ Queue(j) \/ HandOut(j) \/ TakeBack(j) \/ AskToStop(j)
    \/ \E v \in Verdict : End(j, v)

\* A pass of the server (a hello, a heartbeat, the reaper) settles several
\* jobs in one transaction: every job takes a step of its own or none.
Settle(js) ==
    /\ \A j \in js :
          \/ /\ phase[j] = "out" /\ phase'[j] = "waiting" /\ verdict'[j] = verdict[j]
          \/ /\ phase[j] \in {"waiting", "out", "stopping"}
             /\ phase'[j] = "ended" /\ verdict'[j] \in Verdict
    /\ \A j \in Jobs \ js : phase'[j] = phase[j] /\ verdict'[j] = verdict[j]
    /\ phase' \in [Jobs -> {"none", "waiting", "out", "stopping", "ended"}]
    /\ verdict' \in [Jobs -> Verdict \cup {"open"}]

Next ==
    \/ \E j \in Jobs : JobStep(j)
    \/ \E js \in SUBSET Jobs : Settle(js)

Spec == Init /\ [][Next]_vars
=============================================================================
