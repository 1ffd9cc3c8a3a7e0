----------------------- MODULE OperationRunnerProofs -----------------------
(***************************************************************************)
(* What the operations runner keeps, for every number of rows,             *)
(* repositories, submissions and faults: its types, one dispatched         *)
(* exclusive operation per lane, the cancels it accepted, one index        *)
(* operation per repository, plan steps after their backup, chained        *)
(* operations after the ones they depend on and, without crashes and lost  *)
(* claims, an owner for every running row.                                 *)
(*                                                                         *)
(* TypeInv serves the types, LaneInv the lanes.  The others rest on        *)
(* RowInv: what the status of a row, its task, the cancel asked for it,    *)
(* the outcome kept in memory and the tick under way say of each other.    *)
(* It is a conjunction over rows, so a step is split once into the rows it *)
(* is about and those it leaves alone (RowElsewhere).  The dependencies    *)
(* add HangInv: what a row began on can no longer be taken back.           *)
(***************************************************************************)
EXTENDS OperationRunner, TLAPS

-----------------------------------------------------------------------------
(* Chains and the rows they add. *)

\* Two sequences over S make a sequence over S.
LEMMA ConcatType ==
    ASSUME NEW S, NEW s \in Seq(S), NEW t \in Seq(S)
    PROVE  s \o t \in Seq(S)
OBVIOUS

\* Kept yields a sequence of at most one kind.
LEMMA KeptType ==
    ASSUME NEW chain \in Seq(KINDS), NEW n \in Nat, NEW repo, NEW changed
    PROVE  Kept(chain, n, repo, changed) \in Seq(KINDS)
BY DEF Kept

\* What is left of a chain of kinds is a chain of kinds.
LEMMA FilteredType ==
    ASSUME NEW chain \in Seq(KINDS), NEW repo, NEW changed
    PROVE  Filtered(chain, repo, changed) \in Seq(KINDS)
<1>1. \A n \in Nat : Kept(chain, n, repo, changed) \in Seq(KINDS)
  BY KeptType
<1>2. QED
  BY <1>1 DEF Filtered

\* chain_for_repository returns a chain of kinds.
LEMMA ChainForType ==
    ASSUME NEW kind \in KINDS, NEW repo, NEW changed
    PROVE  ChainFor(kind, repo, changed) \in Seq(KINDS)
<1>1. FOLLOWUPS[kind] \in Seq(KINDS)
  <2>1. /\ <<"stats", "archive_sync", "history_index">> \in Seq(KINDS)
        /\ <<"archive_sync", "history_index", "stats">> \in Seq(KINDS)
        /\ <<"archive_sync", "stats">> \in Seq(KINDS)
        /\ <<"stats">> \in Seq(KINDS)
        /\ <<"prune_compare">> \in Seq(KINDS)
        /\ << >> \in Seq(KINDS)
    BY DEF KINDS
  <2>2. QED
    BY <2>1 DEF FOLLOWUPS
<1>2. QED
  BY <1>1, FilteredType DEF ChainFor

\* enqueue_chain keeps the table's types, leaves the rows it had alone and
\* adds queued rows only.
LEMMA EnqueueChainRows ==
    ASSUME NEW st \in [Ids -> RowStatus],
           NEW kinds \in Seq(KINDS), NEW repo \in Repos \cup {NoRepo},
           NEW trigger \in TRIGGERS, NEW run \in Nat, NEW d0 \in 0..MaxOps,
           count \in 0..MaxOps, op \in [Ids -> OpType], dep \in [Ids -> 0..MaxOps],
           EnqueueChain(st, kinds, repo, trigger, run, d0)
    PROVE  /\ count' \in count..MaxOps
           /\ status' \in [Ids -> RowStatus]
           /\ op' \in [Ids -> OpType]
           /\ dep' \in [Ids -> 0..MaxOps]
           /\ \A i \in Ids : status'[i] = "running" => st[i] = "running"
           /\ \A i \in Ids : status'[i] = "queued" => i <= count' \/ st[i] = "queued"
           /\ \A i \in Ids : i <= count => op'[i] = op[i]
<1> USE BoundsAssumption DEF Ids
<1>0. Len(kinds) \in Nat
  OBVIOUS
<1>1. count' \in count..MaxOps
  BY <1>0 DEF EnqueueChain
<1>2. status' \in [Ids -> RowStatus]
  BY DEF EnqueueChain, RowStatus, STATUSES
<1>3. ASSUME NEW i \in (count + 1)..(count + Len(kinds))
      PROVE  kinds[i - count] \in KINDS
  BY <1>0
<1>4. op' \in [Ids -> OpType]
  BY <1>3 DEF EnqueueChain, OpType
<1>5. dep' \in [Ids -> 0..MaxOps]
  BY DEF EnqueueChain
<1>6. \A i \in Ids : status'[i] = "running" => st[i] = "running"
  BY DEF EnqueueChain
<1>7. \A i \in Ids : i <= count => op'[i] = op[i]
  BY <1>0 DEF EnqueueChain
<1>8. \A i \in Ids : status'[i] = "queued" => i <= count' \/ st[i] = "queued"
  BY <1>0 DEF EnqueueChain
<1>9. QED
  BY <1>1, <1>2, <1>4, <1>5, <1>6, <1>7, <1>8

\* A row id is a value of depends_on_id, and so is NULL.
LEMMA IdRange == (\A i \in Ids : i \in 0..MaxOps) /\ 0 \in 0..MaxOps
BY BoundsAssumption DEF Ids

\* enqueue_followups does the same.
LEMMA EnqueueFollowupsRows ==
    ASSUME NEW st \in [Ids -> RowStatus],
           NEW i \in Ids, NEW d0 \in 0..MaxOps, NEW changed,
           count \in 0..MaxOps, op \in [Ids -> OpType], dep \in [Ids -> 0..MaxOps],
           EnqueueFollowups(st, i, d0, changed)
    PROVE  /\ count' \in count..MaxOps
           /\ status' \in [Ids -> RowStatus]
           /\ op' \in [Ids -> OpType]
           /\ dep' \in [Ids -> 0..MaxOps]
           /\ \A j \in Ids : status'[j] = "running" => st[j] = "running"
           /\ \A j \in Ids : status'[j] = "queued" => j <= count' \/ st[j] = "queued"
           /\ \A j \in Ids : j <= count => op'[j] = op[j]
<1> DEFINE kinds == ChainFor(op[i].kind, op[i].repo, changed)
<1>0. /\ op[i].kind \in KINDS /\ op[i].repo \in Repos \cup {NoRepo}
      /\ op[i].run \in Nat /\ i \in 0..MaxOps
  BY BoundsAssumption DEF OpType, Ids
<1>1. kinds \in Seq(KINDS)
  BY <1>0, ChainForType
<1> HIDE DEF kinds
<1>2. CASE EnqueueChain(st, kinds, op[i].repo, "followup", op[i].run, d0)
  <2>1. "followup" \in TRIGGERS
    BY DEF TRIGGERS
  <2>2. QED
    BY <1>0, <1>1, <1>2, <2>1, EnqueueChainRows
<1>3. CASE /\ status' = st
           /\ count' = count /\ op' = op
           /\ \E heads : dep' = [j \in Ids |-> IF j \in heads THEN d0 ELSE dep[j]]
  BY <1>0, <1>3, BoundsAssumption
<1>4. CASE status' = st /\ UNCHANGED <<count, op, dep>>
  BY <1>4, BoundsAssumption
<1>5. QED
  BY <1>2, <1>3, <1>4 DEF EnqueueFollowups, kinds

-----------------------------------------------------------------------------
(* Type correctness. *)

\* The words the actions write on a row.
LEMMA StatusWords ==
    /\ {"queued", "running", "completed", "failed", "cancelled", "skipped"}
          \subseteq RowStatus
    /\ TERMINAL_STATUSES \subseteq RowStatus /\ Words \subseteq RowStatus
    /\ Words \subseteq TERMINAL_STATUSES
    /\ "failed" \in TERMINAL_STATUSES
BY SettingsAssumption
DEF RowStatus, STATUSES, TERMINAL_STATUSES, SUCCESS_STATUSES, OUTCOME_STATUSES

\* The initial state is typed.
LEMMA TypeInit == Init => TypeInv
BY BoundsAssumption
DEF Init, TypeInv, TypeOK, ClaimInv, EntriesInv, Ids, NoOp, OpType, EntryType,
    RowStatus, KINDS, TRIGGERS, NoEntry, TaskStates, PlanStates

\* unlisted only ever gains repositories.
LEMMA UnlistedType ==
    ASSUME unlisted \subseteq Repos, NEW kind, NEW repo, NEW s
    PROVE  Unlisted(kind, repo, s) \subseteq Repos
BY DEF Unlisted

\* Every request keeps the types.
LEMMA TypeRequest == TypeInv /\ RequestStep => TypeInv'
<1> SUFFICES ASSUME TypeInv, RequestStep PROVE TypeInv'
  OBVIOUS
<1> USE DEF rowVars, taskVars, tickVars, procVars, ghosts
<1>0. /\ count \in 0..MaxOps /\ status \in [Ids -> RowStatus]
      /\ op \in [Ids -> OpType] /\ dep \in [Ids -> 0..MaxOps]
      /\ cancelReq \subseteq Ids /\ routes \subseteq Ids
      /\ submits \in 0..MaxSubmits
      /\ plan \in [Ids -> PlanStates]
  BY DEF TypeInv, TypeOK
<1>1. ASSUME NEW s \in Submissions, Submit(s) PROVE TypeInv'
  <2>1. /\ s.kinds \in Seq(KINDS) /\ s.repo \in Repos \cup {NoRepo}
        /\ s.trigger \in TRIGGERS /\ count + 1 \in Nat /\ 0 \in 0..MaxOps
    BY <1>0, SettingsAssumption, BoundsAssumption
  <2>2. EnqueueChain(status, s.kinds, s.repo, s.trigger, count + 1, 0)
    BY <1>1 DEF Submit
  <2>3. /\ count' \in count..MaxOps /\ status' \in [Ids -> RowStatus]
        /\ op' \in [Ids -> OpType] /\ dep' \in [Ids -> 0..MaxOps]
    BY <1>0, <2>1, <2>2, EnqueueChainRows
  <2>4. count' \in 0..MaxOps /\ submits' \in 0..MaxSubmits
    BY <1>0, <1>1, <2>3, BoundsAssumption DEF Submit
  <2>5. plan' \in [Ids -> PlanStates]
    BY <1>0, <1>1 DEF Submit, PlanStates
  <2>6. QED
    BY <1>1, <2>3, <2>4, <2>5 DEF Submit, TypeInv, TypeOK, ClaimInv, EntriesInv
<1>2. ASSUME NEW r \in Repos, ImportConnect(r) PROVE TypeInv'
  <2> DEFINE kinds == <<"import_connect">> \o ChainFor("import_connect", r, FALSE)
  <2>1. kinds \in Seq(KINDS)
    <3>1. "import_connect" \in KINDS
      BY DEF KINDS
    <3>2. ChainFor("import_connect", r, FALSE) \in Seq(KINDS)
      BY <3>1, ChainForType
    <3>3. <<"import_connect">> \in Seq(KINDS)
      BY <3>1
    <3>4. QED
      BY <3>2, <3>3, ConcatType
  <2> HIDE DEF kinds
  <2>2. ASSUME NEW i \in (count + 1)..(count + Len(kinds))
        PROVE  kinds[i - count] \in KINDS
    BY <1>0, <2>1
  <2>3. "import" \in TRIGGERS /\ "followup" \in TRIGGERS /\ count + 1 \in Nat
    BY <1>0, BoundsAssumption DEF TRIGGERS
  <2>4. op' \in [Ids -> OpType]
    <3>1. op' = [i \in Ids |->
                   IF i \in (count + 1)..(count + Len(kinds))
                   THEN [kind |-> kinds[i - count], repo |-> r,
                         trigger |-> IF i = count + 1 THEN "import" ELSE "followup",
                         run |-> count + 1]
                   ELSE op[i]]
      BY <1>2 DEF ImportConnect, kinds
    <3>2. QED
      BY <1>0, <2>2, <2>3, <3>1 DEF OpType
  <2>5. status' \in [Ids -> RowStatus]
    BY <1>0, <1>2, StatusWords DEF ImportConnect
  <2>6. /\ count' = count + Len(kinds) /\ count' <= MaxOps
        /\ submits < MaxSubmits /\ submits' = submits + 1
        /\ dep' = [i \in Ids |-> IF i \in (count + 1)..(count + Len(kinds))
                                THEN IF i = count + 1 THEN 0 ELSE i - 1
                                ELSE dep[i]]
    BY <1>2 DEF ImportConnect, kinds
  <2>7. dep' \in [Ids -> 0..MaxOps]
    BY <1>0, <2>6, BoundsAssumption DEF Ids
  <2>8. count' \in 0..MaxOps /\ submits' \in 0..MaxSubmits
    <3>1. Len(kinds) \in Nat
      BY <2>1
    <3>2. QED
      BY <1>0, <2>6, <3>1, BoundsAssumption
  <2>9. QED
    BY <1>2, <2>4, <2>5, <2>7, <2>8 DEF ImportConnect, TypeInv, TypeOK, ClaimInv,
                                        EntriesInv
<1>3. ASSUME NEW r \in Repos, Reconcile(r) PROVE TypeInv'
  <2>1. ReconcileKinds(r) \in Seq(KINDS)
    <3>1. RECONCILE_CHAIN \in Seq(KINDS)
      BY DEF RECONCILE_CHAIN, KINDS
    <3>2. QED
      BY <3>1, FilteredType DEF ReconcileKinds
  <2>2. EnqueueChain(status, ReconcileKinds(r), r, "reconcile", count + 1, 0)
    BY <1>3 DEF Reconcile
  <2>3. "reconcile" \in TRIGGERS /\ count + 1 \in Nat /\ 0 \in 0..MaxOps
    BY <1>0, BoundsAssumption DEF TRIGGERS
  <2>4. /\ count' \in count..MaxOps /\ status' \in [Ids -> RowStatus]
        /\ op' \in [Ids -> OpType] /\ dep' \in [Ids -> 0..MaxOps]
    BY <1>0, <2>1, <2>2, <2>3, EnqueueChainRows
  <2>5. count' \in 0..MaxOps /\ submits' \in 0..MaxSubmits
    BY <1>0, <1>3, <2>4, BoundsAssumption DEF Reconcile
  <2>6. QED
    BY <1>3, <2>4, <2>5 DEF Reconcile, TypeInv, TypeOK, ClaimInv, EntriesInv
<1>4. ASSUME NEW i \in Ids, RequestCancel(i) PROVE TypeInv'
  <2>1. status' \in [Ids -> RowStatus] /\ cancelReq' \subseteq Ids
    BY <1>0, <1>4, StatusWords DEF RequestCancel, CancelEffect
  <2>2. QED
    BY <1>4, <2>1 DEF RequestCancel, TypeInv, TypeOK, ClaimInv, EntriesInv
<1>5. ASSUME NEW i \in Ids, CancelRun(i) PROVE TypeInv'
  <2>1. /\ status' \in [Ids -> RowStatus] /\ cancelReq' \subseteq Ids
        /\ plan' \in [Ids -> PlanStates]
    BY <1>0, <1>5, StatusWords DEF CancelRun, CancelEffect, PlanStates
  <2>2. QED
    BY <1>5, <2>1 DEF CancelRun, TypeInv, TypeOK, ClaimInv, EntriesInv
<1>6. ASSUME NEW i \in Ids, CancelRouteAsks(i) PROVE TypeInv'
  <2>1. routes' \subseteq Ids /\ cancelReq' \subseteq Ids
    BY <1>0, <1>6 DEF CancelRouteAsks
  <2>2. QED
    BY <1>6, <2>1 DEF CancelRouteAsks, TypeInv, TypeOK, ClaimInv, EntriesInv
<1>7. ASSUME NEW i \in Ids, CancelRouteWrites(i) PROVE TypeInv'
  <2>1. status' \in [Ids -> RowStatus] /\ routes' \subseteq Ids
    BY <1>0, <1>7, StatusWords DEF CancelRouteWrites
  <2>2. QED
    BY <1>7, <2>1 DEF CancelRouteWrites, TypeInv, TypeOK, ClaimInv, EntriesInv
<1>8. QED
  BY <1>1, <1>2, <1>3, <1>4, <1>5, <1>6, <1>7 DEF RequestStep

\* Every step of the tick keeps the types.
LEMMA TypeTick == TypeInv /\ TickStep => TypeInv'
<1> SUFFICES ASSUME TypeInv, TickStep PROVE TypeInv'
  OBVIOUS
<1> USE DEF rowVars, taskVars, tickVars, procVars, ghosts
<1>0. /\ count \in 0..MaxOps /\ status \in [Ids -> RowStatus]
      /\ op \in [Ids -> OpType] /\ dep \in [Ids -> 0..MaxOps]
      /\ inherited \subseteq Ids /\ requeues \in [Ids -> 0..MaxRequeues]
      /\ notBefore \in [Ids -> BOOLEAN] /\ task \in [Ids -> TaskStates]
      /\ cancelReq \subseteq Ids /\ unrec \in [Ids -> EntryType]
      /\ recording \subseteq Ids /\ todo \subseteq Ids /\ lanesHeld \subseteq Repos
      /\ claim \in 0..MaxOps /\ faults \in 0..MaxFaults /\ unlisted \subseteq Repos
  BY DEF TypeInv, TypeOK
<1>1. CASE TickStart
  <2>1. recording' \subseteq Ids /\ EntriesInv'
    BY <1>1 DEF TickStart, TypeInv, EntriesInv
  <2>2. QED
    BY <1>1, <2>1 DEF TickStart, TypeInv, TypeOK, ClaimInv
<1>2. CASE Sweep
  <2>1. status' \in [Ids -> RowStatus]
    BY <1>0, <1>2, StatusWords DEF Sweep, RecoverIndexRows
  <2>2. requeues' \in [Ids -> 0..MaxRequeues]
    BY <1>0, <1>2, BoundsAssumption DEF Sweep, RecoverIndexRows, Requeueable
  <2>3. notBefore' \in [Ids -> BOOLEAN]
    BY <1>0, <1>2 DEF Sweep, RecoverIndexRows
  <2>4. cancelReq' \subseteq Ids /\ faults' \in 0..MaxFaults
    BY <1>0, <1>2, BoundsAssumption DEF Sweep, Fault
  <2>5. QED
    BY <1>2, <2>1, <2>2, <2>3, <2>4 DEF Sweep, TypeInv, TypeOK, ClaimInv, EntriesInv
<1>3. CASE Load
  <2>1. todo' \subseteq Ids
    BY <1>3 DEF Load
  <2>2. lanesHeld' \subseteq Repos
    BY <1>0, <1>3 DEF Load, LanesHeld, OpType
  <2>3. QED
    BY <1>3, <2>1, <2>2 DEF Load, TypeInv, TypeOK, ClaimInv, EntriesInv
<1>4. CASE Dispatch
  <2>1. claim \in Ids
    BY <1>4 DEF Dispatch, TypeInv, ClaimInv
  <2>2. task' \in [Ids -> TaskStates]
    BY <1>0, <1>4 DEF Dispatch, TaskStates
  <2>3. lanesHeld' \subseteq Repos
    BY <1>0, <1>4, <2>1 DEF Dispatch, OpType
  <2>4. claim' \in 0..MaxOps
    BY <1>4, BoundsAssumption DEF Dispatch
  <2>5. QED
    BY <1>4, <2>2, <2>3, <2>4 DEF Dispatch, TypeInv, TypeOK, ClaimInv, EntriesInv
<1>5. CASE TickEnd
  BY <1>5 DEF TickEnd, TypeInv, TypeOK, ClaimInv, EntriesInv
<1>6. ASSUME NEW i \in Ids, NEW changed \in Changes, RecordOutcome(i, changed)
      PROVE  TypeInv'
  <2>1. Recorded(i) \in [Ids -> RowStatus]
    <3>1. unrec[i].status \in TERMINAL_STATUSES
      BY <1>0, <1>6 DEF RecordOutcome, TypeInv, EntriesInv, EntryType
    <3>2. QED
      BY <1>0, <3>1, StatusWords DEF Recorded
  <2>2. /\ count' \in count..MaxOps /\ status' \in [Ids -> RowStatus]
        /\ op' \in [Ids -> OpType] /\ dep' \in [Ids -> 0..MaxOps]
    <3>1. CASE EnqueueFollowups(Recorded(i), i, i, changed)
      BY <1>0, <2>1, <3>1, EnqueueFollowupsRows, IdRange
    <3>2. CASE /\ UNCHANGED <<count, op, dep>>
               /\ status' = Recorded(i) \/ status' = status
      BY <1>0, <2>1, <3>2, BoundsAssumption
    <3>3. QED
      BY <1>6, <3>1, <3>2 DEF RecordOutcome
  <2>3. count' \in 0..MaxOps
    BY <1>0, <2>2, BoundsAssumption
  <2>4. unlisted' \subseteq Repos
    BY <1>0, <1>6, UnlistedType DEF RecordOutcome
  <2>5. /\ recording' = recording \ {i}
        /\ unrec' = [unrec EXCEPT ![i] = NoEntry]
    BY <1>6 DEF RecordOutcome
  <2>6. unrec' \in [Ids -> EntryType] /\ recording' \subseteq Ids
    BY <1>0, <2>5 DEF NoEntry, EntryType
  <2>7. EntriesInv'
    BY <1>0, <2>5 DEF NoEntry, TypeInv, EntriesInv
  <2>8. cancelReq' \subseteq Ids
    BY <1>0, <1>6 DEF RecordOutcome
  <2>9. QED
    BY <1>6, <2>2, <2>3, <2>4, <2>6, <2>7, <2>8
    DEF RecordOutcome, TypeInv, TypeOK, ClaimInv
<1>7. ASSUME NEW i \in Ids, Skip(i) PROVE TypeInv'
  <2>1. /\ status' \in [Ids -> RowStatus] /\ inherited' \subseteq Ids
        /\ todo' \subseteq Ids
    BY <1>0, <1>7, StatusWords DEF Skip
  <2>2. QED
    BY <1>7, <2>1 DEF Skip, TypeInv, TypeOK, ClaimInv, EntriesInv
<1>8. ASSUME NEW i \in Ids, Claim(i) PROVE TypeInv'
  <2>1. status' \in [Ids -> RowStatus] /\ todo' \subseteq Ids
    BY <1>0, <1>8, StatusWords DEF Claim
  <2>2. claim' \in 0..MaxOps
    BY <1>8, BoundsAssumption DEF Claim, Ids
  <2>3. QED
    BY <1>8, <2>1, <2>2 DEF Claim, TypeInv, TypeOK, ClaimInv, EntriesInv
<1>9. QED
  BY <1>1, <1>2, <1>3, <1>4, <1>5, <1>6, <1>7, <1>8 DEF TickStep

\* An outcome filed for the tick is an entry with a verdict.
LEMMA UnrecordedType ==
    ASSUME TypeInv, NEW i \in Ids, NEW v \in TERMINAL_STATUSES,
           NEW fallback \in BOOLEAN,
           Unrecorded(i, v, fallback), recording' = recording
    PROVE  unrec' \in [Ids -> EntryType] /\ EntriesInv'
<1>1. unrec \in [Ids -> EntryType] /\ EntriesInv
  BY DEF TypeInv, TypeOK
<1>2. v # "none"
  BY DEF TERMINAL_STATUSES, SUCCESS_STATUSES
<1>3. QED
  BY <1>1, <1>2 DEF Unrecorded, EntryType, EntriesInv

\* Every step of a task keeps the types.
LEMMA TypeTask ==
    ASSUME TypeInv, NEW i \in Ids,
           TaskStep(i) \/ Elapse(i) \/ \E w \in Words : ServiceWrites(i, w)
    PROVE  TypeInv'
<1> USE DEF rowVars, taskVars, tickVars, procVars, ghosts
<1>0. /\ count \in 0..MaxOps /\ status \in [Ids -> RowStatus]
      /\ op \in [Ids -> OpType] /\ dep \in [Ids -> 0..MaxOps]
      /\ deferrals \in [Ids -> 0..MaxDeferrals]
      /\ notBefore \in [Ids -> BOOLEAN] /\ task \in [Ids -> TaskStates]
      /\ cancelReq \subseteq Ids /\ faults \in 0..MaxFaults /\ unlisted \subseteq Repos
      /\ unrec \in [Ids -> EntryType] /\ EntriesInv
  BY DEF TypeInv, TypeOK
<1>1. ASSUME NEW v \in TERMINAL_STATUSES, TerminalWrite(i, v),
             faults' \in 0..MaxFaults
      PROVE  TypeInv'
  <2>1. status' \in [Ids -> RowStatus]
    BY <1>0, <1>1, StatusWords DEF TerminalWrite
  <2>2. task' \in [Ids -> TaskStates]
    BY <1>0, <1>1 DEF TerminalWrite, TaskStates
  <2>3. unlisted' \subseteq Repos
    BY <1>0, <1>1, UnlistedType DEF TerminalWrite
  <2>4. QED
    BY <1>1, <2>1, <2>2, <2>3 DEF TerminalWrite, TypeInv, TypeOK, ClaimInv, EntriesInv
<1>2. CASE Begin(i)
  <2>1. task' \in [Ids -> TaskStates] /\ unlisted' \subseteq Repos
    BY <1>0, <1>2 DEF Begin, TaskStates
  <2>2. QED
    BY <1>2, <2>1 DEF Begin, TypeInv, TypeOK, ClaimInv, EntriesInv
<1>3. CASE Defer(i)
  <2>1. status' \in [Ids -> RowStatus] /\ notBefore' \in [Ids -> BOOLEAN]
    BY <1>0, <1>3, StatusWords DEF Defer
  <2>2. deferrals' \in [Ids -> 0..MaxDeferrals]
    BY <1>0, <1>3, BoundsAssumption DEF Defer
  <2>3. task' \in [Ids -> TaskStates]
    BY <1>0, <1>3 DEF Defer, TaskStates
  <2>4. QED
    BY <1>3, <2>1, <2>2, <2>3 DEF Defer, TypeInv, TypeOK, ClaimInv, EntriesInv
<1>4. CASE DeferDone(i)
  <2>1. task' \in [Ids -> TaskStates]
    BY <1>0, <1>4 DEF DeferDone, TaskStates
  <2>2. QED
    BY <1>4, <2>1 DEF DeferDone, TypeInv, TypeOK, ClaimInv, EntriesInv
<1>5. CASE DeferFails(i)
  <2>1. faults' \in 0..MaxFaults /\ TerminalWrite(i, "failed")
    BY <1>0, <1>5, BoundsAssumption DEF DeferFails, Fault
  <2>2. QED
    BY <1>1, <2>1, StatusWords
<1>6. ASSUME NEW v \in TERMINAL_STATUSES, Finish(i, v) PROVE TypeInv'
  BY <1>0, <1>1, <1>6 DEF Finish
<1>7. ASSUME NEW changed \in Changes, Close(i, changed) PROVE TypeInv'
  <2>1. /\ count' \in count..MaxOps /\ status' \in [Ids -> RowStatus]
        /\ op' \in [Ids -> OpType] /\ dep' \in [Ids -> 0..MaxOps]
    <3>1. CASE EnqueueFollowups(status, i, i, changed)
      BY <1>0, <3>1, EnqueueFollowupsRows, IdRange
    <3>2. CASE UNCHANGED <<count, status, op, dep>>
      BY <1>0, <3>2, BoundsAssumption
    <3>3. QED
      BY <1>7, <3>1, <3>2 DEF Close
  <2>2. count' \in 0..MaxOps
    BY <1>0, <2>1, BoundsAssumption
  <2>3. task' \in [Ids -> TaskStates] /\ cancelReq' \subseteq Ids
    BY <1>0, <1>7 DEF Close, TaskStates
  <2>4. QED
    BY <1>7, <2>1, <2>2, <2>3 DEF Close, TypeInv, TypeOK, ClaimInv, EntriesInv
<1>8. CASE Elapse(i)
  <2>1. notBefore' \in [Ids -> BOOLEAN]
    BY <1>0, <1>8 DEF Elapse
  <2>2. QED
    BY <1>8, <2>1 DEF Elapse, TypeInv, TypeOK, ClaimInv, EntriesInv
<1>9. ASSUME NEW w \in Words, ServiceWrites(i, w) PROVE TypeInv'
  <2>1. status' \in [Ids -> RowStatus]
    BY <1>0, <1>9, StatusWords DEF ServiceWrites
  <2>2. QED
    BY <1>9, <2>1 DEF ServiceWrites, TypeInv, TypeOK, ClaimInv, EntriesInv
<1>10. ASSUME NEW changed \in Changes, FinishAfterCreate(i, changed) PROVE TypeInv'
  <2>1. /\ count' \in count..MaxOps /\ status' \in [Ids -> RowStatus]
        /\ op' \in [Ids -> OpType] /\ dep' \in [Ids -> 0..MaxOps]
    BY <1>0, <1>10, EnqueueFollowupsRows, IdRange DEF FinishAfterCreate
  <2>2. count' \in 0..MaxOps
    BY <1>0, <2>1, BoundsAssumption
  <2>3. task' \in [Ids -> TaskStates] /\ faults' \in 0..MaxFaults
    <3>1. {"closing", "none"} \subseteq TaskStates
      BY DEF TaskStates
    <3>2. \/ task' = [task EXCEPT ![i] = "closing"] /\ faults' = faults
          \/ task' = [task EXCEPT ![i] = "none"] /\ Fault("db_error")
      BY <1>10 DEF FinishAfterCreate
    <3>3. faults' \in 0..MaxFaults
      BY <1>0, <3>2, BoundsAssumption DEF Fault
    <3>4. QED
      BY <1>0, <3>1, <3>2, <3>3
  <2>4. recording' = recording
    BY <1>10 DEF FinishAfterCreate
  <2>5. unrec' \in [Ids -> EntryType] /\ EntriesInv'
    <3>1. CASE UNCHANGED unrec
      BY <1>0, <2>4, <3>1 DEF EntriesInv
    <3>2. CASE Unrecorded(i, "failed", FALSE)
      BY <2>4, <3>2, StatusWords, UnrecordedType
    <3>3. QED
      BY <1>10, <3>1, <3>2 DEF FinishAfterCreate
  <2>6. unlisted' \subseteq Repos
    BY <1>0, <1>10, UnlistedType DEF FinishAfterCreate
  <2>7. QED
    BY <1>10, <2>1, <2>2, <2>3, <2>5, <2>6
    DEF FinishAfterCreate, TypeInv, TypeOK, ClaimInv
<1>11. QED
  BY <1>2, <1>3, <1>4, <1>5, <1>6, <1>7, <1>8, <1>9, <1>10 DEF TaskStep

\* Every step of a plan run keeps the types.
LEMMA TypePlan == TypeInv /\ PlanStep => TypeInv'
<1> SUFFICES ASSUME TypeInv, PlanStep PROVE TypeInv'
  OBVIOUS
<1> USE DEF rowVars, taskVars, tickVars, procVars, ghosts
<1>0. /\ count \in 0..MaxOps /\ status \in [Ids -> RowStatus]
      /\ op \in [Ids -> OpType] /\ dep \in [Ids -> 0..MaxOps]
      /\ maint \subseteq Ids /\ faults \in 0..MaxFaults /\ unlisted \subseteq Repos
      /\ plan \in [Ids -> PlanStates] /\ cancelReq \subseteq Ids
      /\ inline \subseteq Ids /\ steps \subseteq inline
  BY DEF TypeInv, TypeOK
<1>1. ASSUME NEW b \in Ids, PlanEnds(b) PROVE TypeInv'
  <2>1. plan' \in [Ids -> PlanStates]
    BY <1>0, <1>1 DEF PlanEnds, PlanStates
  <2>2. QED
    BY <1>1, <2>1 DEF PlanEnds, TypeInv, TypeOK, ClaimInv, EntriesInv
<1>2. ASSUME NEW b \in Ids, NEW k \in InlineKinds, InlineStart(b, k) PROVE TypeInv'
  <2>1. count + 1 \in Ids /\ count' \in 0..MaxOps
    BY <1>0, <1>2, BoundsAssumption DEF InlineStart, Ids
  <2>2. status' \in [Ids -> RowStatus]
    BY <1>0, <1>2, StatusWords DEF InlineStart
  <2>3. op' \in [Ids -> OpType]
    <3>1. k \in KINDS
      BY SettingsAssumption DEF MAINTENANCE_KINDS, KINDS
    <3>2. QED
      BY <1>0, <1>2, <3>1 DEF InlineStart, OpType
  <2>4. dep' \in [Ids -> 0..MaxOps]
    BY <1>0, <1>2, BoundsAssumption DEF InlineStart, Ids
  <2>5. inline' \subseteq Ids /\ steps' \subseteq inline' /\ maint' \subseteq Ids
    BY <1>0, <1>2, <2>1 DEF InlineStart
  <2>6. QED
    BY <1>2, <2>1, <2>2, <2>3, <2>4, <2>5
    DEF InlineStart, TypeInv, TypeOK, ClaimInv, EntriesInv
<1>3. ASSUME NEW j \in steps, NEW w \in Words, InlineVerdict(j, w) PROVE TypeInv'
  <2>1. status' \in [Ids -> RowStatus]
    BY <1>0, <1>3, StatusWords DEF InlineVerdict
  <2>2. unlisted' \subseteq Repos
    BY <1>0, <1>3, UnlistedType DEF InlineVerdict
  <2>3. QED
    BY <1>3, <2>1, <2>2 DEF InlineVerdict, TypeInv, TypeOK, ClaimInv, EntriesInv
<1>4. ASSUME NEW j \in steps, InlineFinish(j) PROVE TypeInv'
  <2>1. j \in Ids
    BY <1>0
  <2>2. /\ count' \in count..MaxOps /\ status' \in [Ids -> RowStatus]
        /\ op' \in [Ids -> OpType] /\ dep' \in [Ids -> 0..MaxOps]
    <3>1. CASE EnqueueFollowups(status, j, j, FALSE)
      BY <1>0, <2>1, <3>1, EnqueueFollowupsRows, IdRange
    <3>2. CASE /\ UNCHANGED <<count, op, dep>>
               /\ status' = [status EXCEPT ![j] = IF @ = "running" THEN "failed" ELSE @]
      BY <1>0, <3>2, StatusWords, BoundsAssumption
    <3>3. QED
      BY <1>4, <3>1, <3>2 DEF InlineFinish
  <2>3. count' \in 0..MaxOps
    BY <1>0, <2>2, BoundsAssumption
  <2>4. steps' \subseteq inline /\ maint' \subseteq Ids
    BY <1>0, <1>4 DEF InlineFinish, AfterStep
  <2>5. QED
    BY <1>4, <2>2, <2>3, <2>4 DEF InlineFinish, TypeInv, TypeOK, ClaimInv, EntriesInv
<1>5. ASSUME NEW j \in steps, InlineRaises(j) PROVE TypeInv'
  <2>1. status' \in [Ids -> RowStatus]
    BY <1>0, <1>5, StatusWords DEF InlineRaises
  <2>2. plan' \in [Ids -> PlanStates]
    BY <1>0, <1>5 DEF InlineRaises, PlanStates
  <2>3. faults' \in 0..MaxFaults
    BY <1>0, <1>5, BoundsAssumption DEF InlineRaises, Fault
  <2>4. steps' \subseteq inline /\ maint' \subseteq Ids
    BY <1>0, <1>5 DEF InlineRaises
  <2>5. QED
    BY <1>5, <2>1, <2>2, <2>3, <2>4 DEF InlineRaises, TypeInv, TypeOK, ClaimInv, EntriesInv
<1>6. ASSUME NEW b \in Ids, WaiterAsks(b) PROVE TypeInv'
  <2>1. /\ status' \in [Ids -> RowStatus] /\ cancelReq' \subseteq Ids
        /\ plan' \in [Ids -> PlanStates]
    BY <1>0, <1>6, StatusWords DEF WaiterAsks, CancelEffect, PlanStates
  <2>2. QED
    BY <1>6, <2>1 DEF WaiterAsks, TypeInv, TypeOK, ClaimInv, EntriesInv
<1>7. QED
  BY <1>1, <1>2, <1>3, <1>4, <1>5, <1>6 DEF PlanStep

\* Every fault keeps the types.
LEMMA TypeFault == TypeInv /\ FaultStep => TypeInv'
<1> SUFFICES ASSUME TypeInv, FaultStep PROVE TypeInv'
  OBVIOUS
<1> USE DEF rowVars, taskVars, tickVars, procVars, ghosts
<1>0. /\ status \in [Ids -> RowStatus] /\ task \in [Ids -> TaskStates]
      /\ cancelReq \subseteq Ids /\ unrec \in [Ids -> EntryType]
      /\ recording \subseteq Ids /\ faults \in 0..MaxFaults
      /\ plan \in [Ids -> PlanStates] /\ maint \subseteq Ids
      /\ steps \subseteq inline /\ EntriesInv
  BY DEF TypeInv, TypeOK
<1>1. ASSUME NEW kind, Fault(kind) PROVE faults' \in 0..MaxFaults
  BY <1>0, <1>1, BoundsAssumption DEF Fault
<1>3. CASE ClaimLost
  <2>1. claim' \in 0..MaxOps
    BY <1>3, BoundsAssumption DEF ClaimLost
  <2>2. QED
    BY <1>1, <1>3, <2>1 DEF ClaimLost, TypeInv, TypeOK, ClaimInv, EntriesInv
<1>4. CASE TickFails
  BY <1>1, <1>4 DEF TickFails, TypeInv, TypeOK, ClaimInv, EntriesInv
<1>5. ASSUME NEW i \in Ids, NEW committed \in BOOLEAN, RecordFails(i, committed)
      PROVE  TypeInv'
  <2>1. faults' \in 0..MaxFaults
    BY <1>1, <1>5 DEF RecordFails
  <2>2. status' \in [Ids -> RowStatus]
    <3>1. unrec[i].status \in TERMINAL_STATUSES
      BY <1>0, <1>5 DEF RecordFails, EntriesInv, EntryType
    <3>2. QED
      BY <1>0, <1>5, <3>1, StatusWords DEF RecordFails, Recorded
  <2>3. recording' = recording \ {i} /\ recording' \subseteq Ids
    BY <1>0, <1>5 DEF RecordFails
  <2> DEFINE again == [unrec[i] EXCEPT !.retried = TRUE]
  <2>4. \/ unrec' = unrec
        \/ unrec' = [unrec EXCEPT ![i] = NoEntry]
        \/ unrec' = [unrec EXCEPT ![i] = again]
    <3>1. CASE unrec[i].retried
      BY <1>5, <3>1 DEF RecordFails
    <3>2. CASE ~unrec[i].retried
      BY <1>5, <3>2 DEF RecordFails
    <3>3. QED
      BY <3>1, <3>2
  <2>5. /\ again \in EntryType /\ again.status = unrec[i].status
        /\ unrec[i].status # "none"
    <3>1. unrec[i] \in EntryType /\ i \in recording
      BY <1>0, <1>5 DEF RecordFails
    <3>2. QED
      BY <1>0, <3>1 DEF EntryType, EntriesInv
  <2>6. NoEntry \in EntryType /\ NoEntry.status = "none"
    BY DEF NoEntry, EntryType
  <2> HIDE DEF again
  <2>7. unrec' \in [Ids -> EntryType]
    BY <1>0, <2>4, <2>5, <2>6
  <2>8. EntriesInv'
    BY <1>0, <2>3, <2>4, <2>5, <2>6 DEF EntriesInv
  <2>9. QED
    BY <1>5, <2>1, <2>2, <2>3, <2>7, <2>8 DEF RecordFails, TypeInv, TypeOK, ClaimInv
<1>6. ASSUME NEW i \in Ids, BeginFails(i) PROVE TypeInv'
  <2>1. task' \in [Ids -> TaskStates]
    BY <1>0, <1>6 DEF BeginFails, TaskStates
  <2>2. faults' \in 0..MaxFaults
    BY <1>1, <1>6 DEF BeginFails
  <2>3. unrec' \in [Ids -> EntryType] /\ EntriesInv'
    BY <1>6, StatusWords, UnrecordedType DEF BeginFails
  <2>4. QED
    BY <1>6, <2>1, <2>2, <2>3 DEF BeginFails, TypeInv, TypeOK, ClaimInv
<1>7. ASSUME NEW i \in Ids, CloseFails(i) PROVE TypeInv'
  <2>1. task' \in [Ids -> TaskStates] /\ cancelReq' \subseteq Ids
    BY <1>0, <1>7 DEF CloseFails, TaskStates
  <2>2. faults' \in 0..MaxFaults
    BY <1>1, <1>7 DEF CloseFails
  <2>3. QED
    BY <1>7, <2>1, <2>2 DEF CloseFails, TypeInv, TypeOK, ClaimInv, EntriesInv
<1>8. ASSUME NEW i \in Ids, InlineFinishFails(i) PROVE TypeInv'
  <2>1. /\ plan' \in [Ids -> PlanStates] /\ steps' \subseteq inline
        /\ maint' \subseteq Ids
    BY <1>0, <1>8 DEF InlineFinishFails, AfterStep, PlanStates
  <2>2. faults' \in 0..MaxFaults
    BY <1>1, <1>8 DEF InlineFinishFails
  <2>3. QED
    BY <1>8, <2>1, <2>2 DEF InlineFinishFails, TypeInv, TypeOK, ClaimInv, EntriesInv
<1>9. ASSUME NEW i \in Ids, NEW v \in TERMINAL_STATUSES, FinishFails(i, v)
      PROVE  TypeInv'
  <2>1. task' \in [Ids -> TaskStates]
    BY <1>0, <1>9 DEF FinishFails, TaskStates
  <2>2. faults' \in 0..MaxFaults
    BY <1>1, <1>9 DEF FinishFails
  <2>3. unrec' \in [Ids -> EntryType] /\ EntriesInv'
    BY <1>9, UnrecordedType DEF FinishFails
  <2>4. QED
    BY <1>9, <2>1, <2>2, <2>3 DEF FinishFails, TypeInv, TypeOK, ClaimInv
<1>10. QED
  BY <1>3, <1>4, <1>5, <1>6, <1>7, <1>8, <1>9 DEF FaultStep

\* Shutdown, death and restart keep the types.
LEMMA TypeProcess == TypeInv /\ ProcessStep => TypeInv'
<1> SUFFICES ASSUME TypeInv, ProcessStep PROVE TypeInv'
  OBVIOUS
<1> USE DEF rowVars, taskVars, tickVars, procVars, ghosts
<1>0. /\ status \in [Ids -> RowStatus] /\ task \in [Ids -> TaskStates]
      /\ requeues \in [Ids -> 0..MaxRequeues] /\ notBefore \in [Ids -> BOOLEAN]
      /\ cancelReq \subseteq Ids /\ crashes \in 0..MaxCrashes
      /\ survivors \subseteq Ids
  BY DEF TypeInv, TypeOK
<1>1. CASE Stop
  BY <1>1 DEF Stop, TypeInv, TypeOK, ClaimInv, EntriesInv
<1>2. CASE Drain
  <2>1. status' \in [Ids -> RowStatus] /\ cancelReq' \subseteq Ids
    BY <1>0, <1>2, StatusWords DEF Drain
  <2>2. QED
    BY <1>2, <2>1 DEF Drain, TypeInv, TypeOK, ClaimInv, EntriesInv
<1>3. CASE DrainTimeout
  <2>1. status' \in [Ids -> RowStatus] /\ cancelReq' \subseteq Ids
    BY <1>0, <1>3, StatusWords DEF DrainTimeout
  <2>2. task' \in [Ids -> TaskStates]
    BY <1>0, <1>3 DEF DrainTimeout, TaskStates
  <2>3. QED
    BY <1>3, <2>1, <2>2 DEF DrainTimeout, TypeInv, TypeOK, ClaimInv, EntriesInv
<1>4. CASE Restart
  <2>1. status' \in [Ids -> RowStatus]
    BY <1>0, <1>4, StatusWords DEF Restart, RecoverIndexRows
  <2>2. requeues' \in [Ids -> 0..MaxRequeues]
    BY <1>0, <1>4, BoundsAssumption DEF Restart, RecoverIndexRows, Requeueable
  <2>3. notBefore' \in [Ids -> BOOLEAN]
    BY <1>0, <1>4 DEF Restart, RecoverIndexRows
  <2>4. QED
    BY <1>4, <2>1, <2>2, <2>3 DEF Restart, TypeInv, TypeOK, ClaimInv, EntriesInv
<1>5. ASSUME NEW alive \in SUBSET Ids, Crash(alive) PROVE TypeInv'
  <2>1. task' \in [Ids -> TaskStates] /\ survivors' \subseteq Ids
    BY <1>0, <1>5 DEF Crash, TaskStates
  <2>2. unrec' \in [Ids -> EntryType] /\ EntriesInv'
    BY <1>5 DEF Crash, EntryType, NoEntry, EntriesInv
  <2>3. crashes' \in 0..MaxCrashes /\ claim' \in 0..MaxOps
    BY <1>0, <1>5, BoundsAssumption DEF Crash
  <2>4. QED
    BY <1>5, <2>1, <2>2, <2>3 DEF Crash, TypeInv, TypeOK, ClaimInv, PlanStates
<1>6. ASSUME NEW i \in Ids, SurvivorExits(i) PROVE TypeInv'
  BY <1>0, <1>6 DEF SurvivorExits, TypeInv, TypeOK, ClaimInv, EntriesInv
<1>7. QED
  BY <1>1, <1>2, <1>3, <1>4, <1>5, <1>6 DEF ProcessStep

\* TypeInv is inductive.
LEMMA TypeNext == TypeInv /\ [Next]_vars => TypeInv'
<1> SUFFICES ASSUME TypeInv, [Next]_vars PROVE TypeInv'
  OBVIOUS
<1>1. CASE UNCHANGED vars
  BY <1>1 DEF vars, rowVars, taskVars, tickVars, procVars, ghosts, TypeInv, TypeOK,
              ClaimInv, EntriesInv
<1>2. QED
  BY <1>1, TypeTick, TypePlan, TypeFault, TypeRequest, TypeProcess, TypeTask DEF Next

\* Every variable keeps its type, and the deferral and requeue budgets of the
\* runner are never overspent, whatever the faults and the number of rows.
THEOREM TypeCorrect == Spec => []TypeOK
<1>1. Init => TypeInv
  BY TypeInit
<1>2. TypeInv /\ [Next]_vars => TypeInv'
  BY TypeNext
<1>3. TypeInv => TypeOK
  BY DEF TypeInv
<1>4. QED
  BY <1>1, <1>2, <1>3, PTL DEF Spec

-----------------------------------------------------------------------------
(* Lane exclusion. *)

\* What all but four actions do to the lanes: nothing.  No row starts running,
\* no task appears, no row that exists changes its operation, and the tick
\* keeps its claim and its lanes or leaves the dispatch.
Quiet ==
    /\ count' \in count..MaxOps
    /\ \A i \in Ids : task'[i] # "none" => task[i] # "none"
    /\ \A i \in Ids : status'[i] = "running" => status[i] = "running"
    /\ \A i \in Ids : status'[i] = "queued" =>
          i <= count' \/ status[i] \in {"queued", "running"} \/ task[i] # "none"
    /\ \A i \in Ids : i <= count => op'[i] = op[i]
    /\ inline \subseteq inline'
    /\ \/ UNCHANGED <<phase, claim, lanesHeld>>
       \/ phase' \notin {"scan", "claim"} /\ claim' = 0

\* No verdict is an active word.
LEMMA VerdictWords ==
    /\ {"running", "queued"} \cap TERMINAL_STATUSES = {}
    /\ {"running", "queued"} \cap Words = {}
BY StatusWords DEF TERMINAL_STATUSES, SUCCESS_STATUSES

\* A quiet step keeps the lanes exclusive.
LEMMA QuietLane == TypeInv /\ LaneInv /\ Quiet => LaneInv'
<1> SUFFICES ASSUME TypeInv, LaneInv, Quiet PROVE LaneInv'
  OBVIOUS
<1>0. /\ count \in 0..MaxOps /\ count' \in count..MaxOps /\ MaxOps \in Nat
  BY BoundsAssumption DEF TypeInv, TypeOK, Quiet
<1>1. \A i \in Ids : i > count' => i > count
  BY <1>0 DEF Ids
<1>2. \A i \in Ids : i > count =>
         status[i] \notin {"queued", "running"} /\ task[i] = "none" /\ claim # i
  BY DEF LaneInv
<1>3. \A i \in Ids : claim' = i => claim = i
  BY DEF Quiet, Ids
<1>4. \A i \in Ids : i > count' =>
         status'[i] \notin {"queued", "running"} /\ task'[i] = "none" /\ claim' # i
  <2> SUFFICES ASSUME NEW i \in Ids, i > count'
               PROVE  status'[i] \notin {"queued", "running"} /\ task'[i] = "none"
                      /\ claim' # i
    OBVIOUS
  <2>1. i > count /\ ~(i <= count')
    BY <1>0, <1>1 DEF Ids
  <2>2. QED
    BY <1>2, <1>3, <2>1 DEF Quiet
<1>5. ASSUME NEW i \in Ids, HoldsLane(i)'
      PROVE  HoldsLane(i) /\ op'[i] = op[i]
  <2>1. Live(i) \/ claim = i \/ (status[i] = "running" /\ i \notin inline)
    BY <1>3, <1>5 DEF HoldsLane, Live, Quiet
  <2>2. i <= count
    BY <1>0, <1>2, <2>1 DEF Live, Ids
  <2>3. op'[i] = op[i]
    BY <2>2 DEF Quiet
  <2>4. QED
    BY <1>5, <2>1, <2>3 DEF HoldsLane, Exclusive
<1>6. LaneExclusion'
  BY <1>5 DEF LaneInv, LaneExclusion
<1>7. CASE UNCHANGED <<phase, claim, lanesHeld>>
  <2>1. ASSUME NEW i \in Ids, phase' \in {"scan", "claim"},
               Live(i)', Exclusive(i)', op'[i].repo # NoRepo
        PROVE  op'[i].repo \in lanesHeld'
    <3>1. Live(i) /\ i <= count
      BY <1>0, <1>2, <2>1 DEF Live, Quiet, Ids
    <3>2. op'[i] = op[i]
      BY <3>1 DEF Quiet
    <3>3. QED
      BY <1>7, <2>1, <3>1, <3>2 DEF LaneInv, Exclusive
  <2>2. ASSUME phase' = "claim", Exclusive(claim)' PROVE op'[claim'].repo \notin lanesHeld'
    <3>1. claim \in Ids /\ claim <= count
      BY <1>0, <1>2, <1>7, <2>2 DEF TypeInv, ClaimInv, Ids
    <3>2. op'[claim] = op[claim]
      BY <3>1 DEF Quiet
    <3>3. QED
      BY <1>7, <2>2, <3>2 DEF LaneInv, Exclusive
  <2>3. QED
    BY <1>4, <1>6, <2>1, <2>2 DEF LaneInv
<1>8. CASE phase' \notin {"scan", "claim"} /\ claim' = 0
  BY <1>4, <1>6, <1>8 DEF LaneInv
<1>9. QED
  BY <1>7, <1>8 DEF Quiet

\* The requests are quiet.
LEMMA QuietRequest == TypeInv /\ RequestStep => Quiet
<1> SUFFICES ASSUME TypeInv, RequestStep PROVE Quiet
  OBVIOUS
<1> USE DEF rowVars, taskVars, tickVars, procVars, ghosts
<1>0. /\ count \in 0..MaxOps /\ count \in count..MaxOps
      /\ status \in [Ids -> RowStatus]
      /\ op \in [Ids -> OpType] /\ dep \in [Ids -> 0..MaxOps]
      /\ count + 1 \in Nat /\ 0 \in 0..MaxOps
  BY BoundsAssumption DEF TypeInv, TypeOK
<1>1. ASSUME NEW s \in Submissions, Submit(s) PROVE Quiet
  <2>1. /\ s.kinds \in Seq(KINDS) /\ s.repo \in Repos \cup {NoRepo}
        /\ s.trigger \in TRIGGERS
    BY SettingsAssumption
  <2>2. EnqueueChain(status, s.kinds, s.repo, s.trigger, count + 1, 0)
    BY <1>1 DEF Submit
  <2>3. /\ count' \in count..MaxOps
        /\ \A i \in Ids : status'[i] = "running" => status[i] = "running"
        /\ \A i \in Ids : status'[i] = "queued" => i <= count' \/ status[i] = "queued"
        /\ \A i \in Ids : i <= count => op'[i] = op[i]
    BY <1>0, <2>1, <2>2, EnqueueChainRows
  <2>4. QED
    BY <1>1, <2>3 DEF Submit, Quiet
<1>2. ASSUME NEW r \in Repos, ImportConnect(r) PROVE Quiet
  <2> DEFINE kinds == <<"import_connect">> \o ChainFor("import_connect", r, FALSE)
             new   == (count + 1)..(count + Len(kinds))
  <2>1. kinds \in Seq(KINDS)
    <3>1. "import_connect" \in KINDS
      BY DEF KINDS
    <3>2. <<"import_connect">> \in Seq(KINDS)
      BY <3>1
    <3>3. QED
      BY <3>1, <3>2, ChainForType, ConcatType
  <2> HIDE DEF kinds
  <2>2. Len(kinds) \in Nat
    BY <2>1
  <2>3. /\ count + Len(kinds) <= MaxOps /\ count' = count + Len(kinds)
        /\ status' = [i \in Ids |-> IF i = count + 1 THEN "completed"
                                   ELSE IF i \in new THEN "queued" ELSE status[i]]
        /\ op' = [i \in Ids |->
                   IF i \in new
                   THEN [kind |-> kinds[i - count], repo |-> r,
                         trigger |-> IF i = count + 1 THEN "import" ELSE "followup",
                         run |-> count + 1]
                   ELSE op[i]]
        /\ UNCHANGED <<task, inline, phase, claim, lanesHeld>>
    BY <1>2 DEF ImportConnect, kinds
  <2>4. /\ count' \in count..MaxOps
        /\ \A i \in new : i <= count' /\ ~(i <= count)
    BY <1>0, <2>2, <2>3, BoundsAssumption
  <2>5. QED
    BY <2>3, <2>4 DEF Quiet
<1>3. ASSUME NEW r \in Repos, Reconcile(r) PROVE Quiet
  <2>1. ReconcileKinds(r) \in Seq(KINDS)
    <3>1. RECONCILE_CHAIN \in Seq(KINDS)
      BY DEF RECONCILE_CHAIN, KINDS
    <3>2. QED
      BY <3>1, FilteredType DEF ReconcileKinds
  <2>2. EnqueueChain(status, ReconcileKinds(r), r, "reconcile", count + 1, 0)
    BY <1>3 DEF Reconcile
  <2>3. "reconcile" \in TRIGGERS
    BY DEF TRIGGERS
  <2>4. /\ count' \in count..MaxOps
        /\ \A i \in Ids : status'[i] = "running" => status[i] = "running"
        /\ \A i \in Ids : status'[i] = "queued" => i <= count' \/ status[i] = "queued"
        /\ \A i \in Ids : i <= count => op'[i] = op[i]
    BY <1>0, <2>1, <2>2, <2>3, EnqueueChainRows
  <2>5. QED
    BY <1>3, <2>4 DEF Reconcile, Quiet
<1>4. ASSUME NEW i \in Ids, RequestCancel(i) PROVE Quiet
  BY <1>0, <1>4 DEF RequestCancel, CancelEffect, Quiet
<1>5. ASSUME NEW i \in Ids, CancelRun(i) PROVE Quiet
  BY <1>0, <1>5 DEF CancelRun, CancelEffect, Quiet
<1>6. ASSUME NEW i \in Ids, CancelRouteAsks(i) PROVE Quiet
  BY <1>0, <1>6 DEF CancelRouteAsks, Quiet
<1>7. ASSUME NEW i \in Ids, CancelRouteWrites(i) PROVE Quiet
  BY <1>0, <1>7 DEF CancelRouteWrites, Quiet
<1>8. QED
  BY <1>1, <1>2, <1>3, <1>4, <1>5, <1>6, <1>7 DEF RequestStep

\* A task's steps are quiet: a deferred row goes back to the queue, nothing
\* starts.
LEMMA QuietTask ==
    ASSUME TypeInv, NEW i \in Ids,
           TaskStep(i) \/ Elapse(i) \/ \E w \in Words : ServiceWrites(i, w)
    PROVE  Quiet
<1> USE DEF rowVars, taskVars, tickVars, procVars, ghosts
<1>0. /\ count \in 0..MaxOps /\ count \in count..MaxOps
      /\ status \in [Ids -> RowStatus] /\ task \in [Ids -> TaskStates]
      /\ op \in [Ids -> OpType] /\ dep \in [Ids -> 0..MaxOps]
  BY BoundsAssumption DEF TypeInv, TypeOK
<1>1. ASSUME NEW v \in TERMINAL_STATUSES, TerminalWrite(i, v), task[i] = "executing"
      PROVE  Quiet
  BY <1>0, <1>1, VerdictWords DEF TerminalWrite, Quiet
<1>2. CASE Begin(i)
  BY <1>0, <1>2 DEF Begin, Quiet
<1>3. CASE Defer(i)
  BY <1>0, <1>3 DEF Defer, Refused, Quiet
<1>4. CASE DeferDone(i)
  BY <1>0, <1>4 DEF DeferDone, Quiet
<1>5. CASE DeferFails(i)
  BY <1>1, <1>5, StatusWords DEF DeferFails, Refused
<1>6. ASSUME NEW v \in TERMINAL_STATUSES, Finish(i, v) PROVE Quiet
  BY <1>1, <1>6 DEF Finish
<1>7. ASSUME NEW changed \in Changes, Close(i, changed) PROVE Quiet
  <2>1. /\ count' \in count..MaxOps
        /\ \A j \in Ids : status'[j] = "running" => status[j] = "running"
        /\ \A j \in Ids : status'[j] = "queued" => j <= count' \/ status[j] = "queued"
        /\ \A j \in Ids : j <= count => op'[j] = op[j]
    <3>1. CASE EnqueueFollowups(status, i, i, changed)
      BY <1>0, <3>1, EnqueueFollowupsRows, IdRange
    <3>2. CASE UNCHANGED <<count, status, op, dep>>
      BY <1>0, <3>2
    <3>3. QED
      BY <1>7, <3>1, <3>2 DEF Close
  <2>2. QED
    BY <1>0, <1>7, <2>1 DEF Close, Quiet
<1>8. CASE Elapse(i)
  BY <1>0, <1>8 DEF Elapse, Quiet
<1>9. ASSUME NEW w \in Words, ServiceWrites(i, w) PROVE Quiet
  BY <1>0, <1>9, VerdictWords DEF ServiceWrites, Quiet
<1>10. ASSUME NEW changed \in Changes, FinishAfterCreate(i, changed) PROVE Quiet
  <2>1. /\ count' \in count..MaxOps
        /\ \A j \in Ids : status'[j] = "running" => status[j] = "running"
        /\ \A j \in Ids : status'[j] = "queued" => j <= count' \/ status[j] = "queued"
        /\ \A j \in Ids : j <= count => op'[j] = op[j]
    BY <1>0, <1>10, EnqueueFollowupsRows, IdRange DEF FinishAfterCreate
  <2>2. QED
    BY <1>0, <1>10, <2>1 DEF FinishAfterCreate, Quiet
<1>11. QED
  BY <1>2, <1>3, <1>4, <1>5, <1>6, <1>7, <1>8, <1>9, <1>10 DEF TaskStep

\* Faults are quiet.
LEMMA QuietFault == TypeInv /\ FaultStep => Quiet
<1> SUFFICES ASSUME TypeInv, FaultStep PROVE Quiet
  OBVIOUS
<1> USE DEF rowVars, taskVars, tickVars, procVars, ghosts
<1>0. /\ count \in 0..MaxOps /\ count \in count..MaxOps
      /\ status \in [Ids -> RowStatus] /\ task \in [Ids -> TaskStates]
      /\ unrec \in [Ids -> EntryType] /\ ClaimInv
  BY BoundsAssumption DEF TypeInv, TypeOK
<1>1. CASE ClaimLost
  BY <1>0, <1>1 DEF ClaimLost, Quiet
<1>2. CASE TickFails
  BY <1>0, <1>2 DEF TickFails, Quiet, ClaimInv
<1>3. ASSUME NEW i \in Ids, NEW committed \in BOOLEAN, RecordFails(i, committed)
      PROVE  Quiet
  <2>1. unrec[i].status \notin {"running", "queued"}
    BY <1>0, VerdictWords DEF EntryType
  <2>2. QED
    BY <1>0, <1>3, <2>1 DEF RecordFails, Recorded, Quiet
<1>4. ASSUME NEW i \in Ids, BeginFails(i) PROVE Quiet
  BY <1>0, <1>4 DEF BeginFails, Quiet
<1>5. ASSUME NEW i \in Ids, CloseFails(i) PROVE Quiet
  BY <1>0, <1>5 DEF CloseFails, Quiet
<1>6. ASSUME NEW i \in Ids, InlineFinishFails(i) PROVE Quiet
  BY <1>0, <1>6 DEF InlineFinishFails, Quiet
<1>7. ASSUME NEW i \in Ids, NEW v \in TERMINAL_STATUSES, FinishFails(i, v) PROVE Quiet
  BY <1>0, <1>7 DEF FinishFails, Quiet
<1>8. QED
  BY <1>1, <1>2, <1>3, <1>4, <1>5, <1>6, <1>7 DEF FaultStep

\* Shutdown, death and restart are quiet: recovery requeues or fails rows.
LEMMA QuietProcess == TypeInv /\ ProcessStep => Quiet
<1> SUFFICES ASSUME TypeInv, ProcessStep PROVE Quiet
  OBVIOUS
<1> USE DEF rowVars, taskVars, tickVars, procVars, ghosts
<1>0. /\ count \in 0..MaxOps /\ count \in count..MaxOps
      /\ status \in [Ids -> RowStatus] /\ task \in [Ids -> TaskStates] /\ ClaimInv
  BY BoundsAssumption DEF TypeInv, TypeOK
<1>1. CASE Stop
  BY <1>0, <1>1 DEF Stop, Quiet
<1>2. CASE Drain
  BY <1>0, <1>2 DEF Drain, Quiet
<1>3. CASE DrainTimeout
  BY <1>0, <1>3 DEF DrainTimeout, Quiet
<1>4. CASE Restart
  BY <1>0, <1>4 DEF Restart, RecoverIndexRows, Quiet, ClaimInv
<1>5. ASSUME NEW alive \in SUBSET Ids, Crash(alive) PROVE Quiet
  BY <1>0, <1>5 DEF Crash, Quiet
<1>6. ASSUME NEW i \in Ids, SurvivorExits(i) PROVE Quiet
  BY <1>0, <1>6 DEF SurvivorExits, Quiet
<1>7. QED
  BY <1>1, <1>2, <1>3, <1>4, <1>5, <1>6 DEF ProcessStep

\* A plan's own rows never take a lane of the runner.
LEMMA LanePlan == TypeInv /\ LaneInv /\ PlanStep => LaneInv'
<1> SUFFICES ASSUME TypeInv, LaneInv, PlanStep PROVE LaneInv'
  OBVIOUS
<1> USE DEF rowVars, taskVars, tickVars, procVars, ghosts
<1>0. /\ count \in 0..MaxOps /\ count \in count..MaxOps
      /\ status \in [Ids -> RowStatus]
      /\ op \in [Ids -> OpType] /\ dep \in [Ids -> 0..MaxOps]
      /\ inline \subseteq Ids /\ steps \subseteq inline
  BY BoundsAssumption DEF TypeInv, TypeOK
<1>1. ASSUME NEW b \in Ids, PlanEnds(b) PROVE LaneInv'
  <2>1. Quiet
    BY <1>0, <1>1 DEF PlanEnds, Quiet
  <2>2. QED
    BY <2>1, QuietLane
<1>2. ASSUME NEW b \in Ids, NEW k \in InlineKinds, InlineStart(b, k) PROVE LaneInv'
  <2>1. /\ count + 1 \in Ids /\ count' = count + 1
        /\ \A i \in Ids : i # count + 1 => status'[i] = status[i] /\ op'[i] = op[i]
        /\ inline' = inline \cup {count + 1}
        /\ UNCHANGED <<task, claim, phase, lanesHeld>>
    BY <1>0, <1>2, BoundsAssumption DEF InlineStart, Ids
  <2>2. /\ \A i \in Ids : i > count =>
              status[i] \notin {"queued", "running"} /\ task[i] = "none" /\ claim # i
        /\ task[count + 1] = "none" /\ claim # count + 1
    BY <1>0, <2>1 DEF LaneInv, Ids
  <2>3. \A i \in Ids : i > count' =>
           status'[i] \notin {"queued", "running"} /\ task'[i] = "none" /\ claim' # i
    BY <1>0, <2>1, <2>2 DEF Ids
  <2>4. ASSUME NEW i \in Ids, HoldsLane(i)' PROVE HoldsLane(i) /\ op'[i] = op[i]
    <3>1. i # count + 1
      BY <2>1, <2>2, <2>4 DEF HoldsLane, Live
    <3>2. QED
      BY <2>1, <2>4, <3>1 DEF HoldsLane, Live, Exclusive
  <2>5. LaneExclusion'
    BY <2>4 DEF LaneInv, LaneExclusion
  <2>6. phase' \in {"scan", "claim"} =>
           \A i \in Ids : (Live(i)' /\ Exclusive(i)' /\ op'[i].repo # NoRepo)
                           => op'[i].repo \in lanesHeld'
    BY <2>1, <2>2 DEF LaneInv, Live, Exclusive
  <2>7. phase' = "claim" /\ Exclusive(claim)' => op'[claim'].repo \notin lanesHeld'
    BY <2>1, <2>2 DEF LaneInv, Exclusive, TypeInv, ClaimInv
  <2>8. QED
    BY <2>3, <2>5, <2>6, <2>7 DEF LaneInv
<1>3. ASSUME NEW j \in steps, NEW w \in Words, InlineVerdict(j, w) PROVE LaneInv'
  <2>1. Quiet
    BY <1>0, <1>3, VerdictWords DEF InlineVerdict, Quiet
  <2>2. QED
    BY <2>1, QuietLane
<1>4. ASSUME NEW j \in steps, InlineFinish(j) PROVE LaneInv'
  <2>1. j \in Ids
    BY <1>0
  <2>2. /\ count' \in count..MaxOps
        /\ \A i \in Ids : status'[i] = "running" => status[i] = "running"
        /\ \A i \in Ids : status'[i] = "queued" => i <= count' \/ status[i] = "queued"
        /\ \A i \in Ids : i <= count => op'[i] = op[i]
    <3>1. CASE EnqueueFollowups(status, j, j, FALSE)
      BY <1>0, <2>1, <3>1, EnqueueFollowupsRows, IdRange
    <3>2. CASE /\ UNCHANGED <<count, op, dep>>
               /\ status' = [status EXCEPT ![j] = IF @ = "running" THEN "failed" ELSE @]
      BY <1>0, <2>1, <3>2
    <3>3. QED
      BY <1>4, <3>1, <3>2 DEF InlineFinish
  <2>3. Quiet
    BY <1>0, <1>4, <2>2 DEF InlineFinish, Quiet
  <2>4. QED
    BY <2>3, QuietLane
<1>5. ASSUME NEW j \in steps, InlineRaises(j) PROVE LaneInv'
  <2>1. Quiet
    BY <1>0, <1>5 DEF InlineRaises, Quiet
  <2>2. QED
    BY <2>1, QuietLane
<1>6. ASSUME NEW b \in Ids, WaiterAsks(b) PROVE LaneInv'
  <2>1. Quiet
    BY <1>0, <1>6 DEF WaiterAsks, CancelEffect, Quiet
  <2>2. QED
    BY <2>1, QuietLane
<1>7. QED
  BY <1>1, <1>2, <1>3, <1>4, <1>5, <1>6 DEF PlanStep

\* The tick keeps the lanes exclusive: lanesHeld is taken from the tasks, the
\* claim looks at it and at the rows, and the dispatch adds to it.
LEMMA LaneTick == TypeInv /\ LaneInv /\ TickStep => LaneInv'
<1> SUFFICES ASSUME TypeInv, LaneInv, TickStep PROVE LaneInv'
  OBVIOUS
<1> USE DEF rowVars, taskVars, tickVars, procVars, ghosts
<1>0. /\ count \in 0..MaxOps /\ count \in count..MaxOps /\ MaxOps \in Nat
      /\ status \in [Ids -> RowStatus] /\ task \in [Ids -> TaskStates]
      /\ op \in [Ids -> OpType] /\ dep \in [Ids -> 0..MaxOps]
      /\ unrec \in [Ids -> EntryType] /\ ClaimInv
  BY BoundsAssumption DEF TypeInv, TypeOK
<1>1. CASE TickStart
  <2>1. Quiet
    BY <1>0, <1>1 DEF TickStart, Quiet, ClaimInv
  <2>2. QED
    BY <2>1, QuietLane
<1>2. CASE Sweep
  <2>1. Quiet
    BY <1>0, <1>2 DEF Sweep, RecoverIndexRows, AbandonedIndexRows, Quiet, ClaimInv
  <2>2. QED
    BY <2>1, QuietLane
<1>3. CASE Load
  <2>1. /\ UNCHANGED <<count, status, op, task, claim, inline>>
        /\ lanesHeld' = LanesHeld /\ phase' = "scan"
    BY <1>3 DEF Load
  <2>2. LaneExclusion'
    BY <2>1 DEF LaneInv, LaneExclusion, HoldsLane, Exclusive, Live
  <2>3. \A i \in Ids : (Live(i)' /\ Exclusive(i)' /\ op'[i].repo # NoRepo)
                        => op'[i].repo \in lanesHeld'
    BY <2>1 DEF LanesHeld, Live, Exclusive
  <2>4. QED
    BY <2>1, <2>2, <2>3 DEF LaneInv
<1>4. CASE Dispatch
  <2>1. /\ claim \in Ids /\ claim <= count /\ claim' = 0
        /\ \A i \in Ids : Live(i)' => Live(i) \/ claim = i
        /\ UNCHANGED <<count, status, op, inline>> /\ phase' = "scan"
        /\ lanesHeld \subseteq lanesHeld'
    BY <1>0, <1>4 DEF Dispatch, ClaimInv, LaneInv, Live, Ids
  <2>2. \A i \in Ids : HoldsLane(i)' => HoldsLane(i)
    BY <2>1 DEF HoldsLane, Exclusive, Ids
  <2>3. LaneExclusion'
    BY <2>1, <2>2 DEF LaneInv, LaneExclusion
  <2>4. ASSUME NEW i \in Ids, Live(i)', Exclusive(i)', op'[i].repo # NoRepo
        PROVE  op'[i].repo \in lanesHeld'
    <3>1. CASE Live(i)
      BY <1>4, <2>1, <2>4, <3>1 DEF Dispatch, LaneInv, Exclusive
    <3>2. CASE claim = i
      BY <1>4, <2>1, <2>4, <3>2 DEF Dispatch, Exclusive
    <3>3. QED
      BY <2>1, <2>4, <3>1, <3>2
  <2>5. \A i \in Ids : i > count =>
           status'[i] \notin {"queued", "running"} /\ task'[i] = "none" /\ claim' # i
    BY <1>0, <1>4, <2>1 DEF Dispatch, LaneInv, Ids
  <2>6. QED
    BY <2>1, <2>3, <2>4, <2>5 DEF LaneInv
<1>5. CASE TickEnd
  <2>1. Quiet
    BY <1>0, <1>5 DEF TickEnd, Quiet, ClaimInv
  <2>2. QED
    BY <2>1, QuietLane
<1>6. ASSUME NEW i \in Ids, NEW changed \in Changes, RecordOutcome(i, changed)
      PROVE  LaneInv'
  <2>1. /\ Recorded(i) \in [Ids -> RowStatus]
        /\ \A j \in Ids : Recorded(i)[j] \in {"running", "queued"} =>
              Recorded(i)[j] = status[j]
    <3>1. unrec[i].status \in TERMINAL_STATUSES
      BY <1>0, <1>6 DEF RecordOutcome, TypeInv, EntriesInv, EntryType
    <3>2. QED
      BY <1>0, <3>1, StatusWords, VerdictWords DEF Recorded
  <2>2. /\ count' \in count..MaxOps
        /\ \A j \in Ids : status'[j] = "running" => status[j] = "running"
        /\ \A j \in Ids : status'[j] = "queued" => j <= count' \/ status[j] = "queued"
        /\ \A j \in Ids : j <= count => op'[j] = op[j]
    <3>1. CASE EnqueueFollowups(Recorded(i), i, i, changed)
      <4>1. /\ count' \in count..MaxOps
            /\ \A j \in Ids : status'[j] = "running" => Recorded(i)[j] = "running"
            /\ \A j \in Ids : status'[j] = "queued" =>
                  j <= count' \/ Recorded(i)[j] = "queued"
            /\ \A j \in Ids : j <= count => op'[j] = op[j]
        BY <1>0, <2>1, <3>1, EnqueueFollowupsRows, IdRange
      <4>2. QED
        BY <2>1, <4>1
    <3>2. CASE /\ UNCHANGED <<count, op, dep>>
               /\ status' = Recorded(i) \/ status' = status
      BY <1>0, <2>1, <3>2
    <3>3. QED
      BY <1>6, <3>1, <3>2 DEF RecordOutcome
  <2>3. Quiet
    BY <1>6, <2>2 DEF RecordOutcome, Quiet
  <2>4. QED
    BY <2>3, QuietLane
<1>7. ASSUME NEW i \in Ids, Skip(i) PROVE LaneInv'
  <2>1. Quiet
    BY <1>0, <1>7 DEF Skip, Quiet
  <2>2. QED
    BY <2>1, QuietLane
<1>8. ASSUME NEW i \in Ids, Claim(i) PROVE LaneInv'
  <2>1. /\ Startable(i) /\ status[i] = "queued" /\ phase = "scan"
        /\ status' = [status EXCEPT ![i] = "running"]
        /\ phase' = "claim" /\ claim' = i
        /\ UNCHANGED <<count, op, task, lanesHeld, inline>>
    BY <1>8 DEF Claim, NextCandidate, Passed, Startable
  <2>2. claim = 0 /\ i <= count
    BY <1>0, <2>1 DEF ClaimInv, LaneInv, Ids
  <2>3. Exclusive(i) => /\ op[i].repo \notin lanesHeld
                        /\ op[i].repo # NoRepo => LaneFree(op[i].repo, i)
    BY <2>1 DEF Startable, CanStart
  <2>4. ASSUME NEW j \in Ids, j # i, HoldsLane(j)'
        PROVE  HoldsLane(j)
    BY <1>0, <2>1, <2>4 DEF HoldsLane, Live, Exclusive
  <2>5. ASSUME NEW j \in Ids, j # i, HoldsLane(j), Exclusive(i), op[i].repo # NoRepo
        PROVE  op[j].repo # op[i].repo
    <3>1. CASE Live(j)
      BY <2>1, <2>3, <2>5, <3>1 DEF LaneInv, HoldsLane
    <3>2. CASE status[j] = "running"
      BY <2>3, <2>5, <3>2 DEF LaneFree, RunningOn, HoldsLane, Exclusive
    <3>3. QED
      BY <2>2, <2>5, <3>1, <3>2 DEF HoldsLane, Ids
  <2>6. LaneExclusion'
    <3> SUFFICES ASSUME NEW j \in Ids, NEW k \in Ids, j # k,
                        HoldsLane(j)', HoldsLane(k)'
                 PROVE  op[j].repo # op[k].repo
      BY <2>1 DEF LaneExclusion
    <3>1. HoldsLane(i)' => Exclusive(i) /\ op[i].repo # NoRepo
      BY <2>1 DEF HoldsLane, Exclusive
    <3>2. CASE j = i
      BY <2>4, <2>5, <3>1, <3>2
    <3>3. CASE k = i
      BY <2>4, <2>5, <3>1, <3>3
    <3>4. CASE j # i /\ k # i
      BY <2>4, <3>4 DEF LaneInv, LaneExclusion
    <3>5. QED
      BY <3>2, <3>3, <3>4
  <2>7. \A j \in Ids : j > count' =>
           status'[j] \notin {"queued", "running"} /\ task'[j] = "none" /\ claim' # j
    BY <1>0, <2>1, <2>2 DEF LaneInv, Ids
  <2>8. \A j \in Ids : (Live(j)' /\ Exclusive(j)' /\ op'[j].repo # NoRepo)
                        => op'[j].repo \in lanesHeld'
    BY <2>1 DEF LaneInv, Live, Exclusive
  <2>9. Exclusive(claim)' => op'[claim'].repo \notin lanesHeld'
    BY <2>1, <2>3 DEF Exclusive
  <2>10. QED
    BY <2>6, <2>7, <2>8, <2>9 DEF LaneInv
<1>9. QED
  BY <1>1, <1>2, <1>3, <1>4, <1>5, <1>6, <1>7, <1>8 DEF TickStep

\* LaneInv is inductive, given TypeInv.
LEMMA LaneNext == TypeInv /\ LaneInv /\ [Next]_vars => LaneInv'
<1> SUFFICES ASSUME TypeInv, LaneInv, [Next]_vars PROVE LaneInv'
  OBVIOUS
<1>1. CASE UNCHANGED vars
  BY <1>1 DEF vars, rowVars, taskVars, tickVars, procVars, ghosts, LaneInv,
              LaneExclusion, HoldsLane, Live, Exclusive
<1>2. ASSUME NEW i \in Ids,
             TaskStep(i) \/ Elapse(i) \/ \E w \in Words : ServiceWrites(i, w)
      PROVE  LaneInv'
  BY <1>2, QuietTask, QuietLane
<1>3. QED
  BY <1>1, <1>2, LaneTick, LanePlan, QuietRequest, QuietFault, QuietProcess, QuietLane
  DEF Next

\* No two exclusive operations the runner dispatched hold one repository's
\* lane, for every number of rows, repositories, faults, crashes and requests
\* (tick, _lanes_held, can_start).
THEOREM LaneExclusive == Spec => []LaneExclusion
<1>1. Init => TypeInv /\ LaneInv
  <2>1. Init => LaneInv
    BY DEF Init, LaneInv, LaneExclusion, HoldsLane, Live, Ids
  <2>2. QED
    BY <2>1, TypeInit
<1>2. TypeInv /\ LaneInv /\ [Next]_vars => (TypeInv /\ LaneInv)'
  BY TypeNext, LaneNext
<1>3. TypeInv /\ LaneInv => LaneExclusion
  BY DEF LaneInv
<1>4. QED
  BY <1>1, <1>2, <1>3, PTL DEF Spec

-----------------------------------------------------------------------------
(* The life of a row. *)

\* An id that has not been handed out.
Blank(k) ==
    /\ status[k] = "absent" /\ task[k] = "none" /\ claim # k /\ unrec[k] = NoEntry
    /\ k \notin inline \cup cancelReq \cup todo \cup routes /\ plan[k] = "none"

\* What the row, its task, its flag, its entry and the tick say of each other.
Row(k) ==
    /\ k > count => Blank(k)
    /\ claim = k => status[k] \in {"running", "cancelled"} /\ task[k] = "none"
    /\ task[k] = "created" => status[k] \in {"running", "cancelled"}
    /\ task[k] = "executing" => status[k] \notin {"queued", "absent"}
    /\ task[k] \in {"succeeded", "closing"} => status[k] \in TERMINAL_STATUSES
    /\ task[k] = "deferring" => status[k] \in {"queued", "cancelled"}
    /\ unrec[k] # NoEntry =>
          /\ task[k] = "none" /\ claim # k /\ status[k] \notin {"queued", "absent"}
          /\ ~IsIndex(k)
          /\ unrec[k].fallback => /\ unrec[k].status = "failed"
                                  /\ status[k] \in {"running", "cancelled", "failed"}
    /\ k \in cancelReq =>
          /\ status[k] \notin {"queued", "absent"}
          /\ task[k] \notin {"succeeded", "deferring"}
          /\ task[k] = "closing" => status[k] \in {"cancelled", "failed"}
          /\ unrec[k] # NoEntry => unrec[k].status \in {"cancelled", "failed"}
    /\ k \in todo =>
          /\ status[k] \in {"queued", "cancelled"} /\ task[k] \in {"none", "deferring"}
          /\ claim # k /\ k \notin cancelReq /\ unrec[k] = NoEntry
    /\ k \in inline =>
          /\ op[k].kind \in InlineKinds /\ status[k] \notin {"queued", "absent"}
          /\ task[k] = "none" /\ claim # k /\ unrec[k] = NoEntry
          /\ k \notin cancelReq \cup todo \cup routes
    /\ k \in routes => op[k].kind = "backup"
    /\ IndexBusy(k) => status[k] = "running"

\* A process that is down remembers nothing.
Down ==
    phase = "down" =>
        /\ cancelReq = {} /\ todo = {} /\ routes = {} /\ steps = {} /\ shutdown = "no"
        /\ \A i \in Ids : task[i] = "none" /\ unrec[i] = NoEntry /\ plan[i] = "none"

RowInv == Down /\ \A k \in Ids : Row(k)

\* A row that has ended for good.
Over(k) == k <= count /\ status[k] \in TERMINAL_STATUSES /\ ~Live(k) /\ claim # k

\* Somebody will end the row, if it reads running.
Owned(k) ==
    status[k] = "running" =>
        Live(k) \/ claim = k \/ unrec[k] # NoEntry \/ IsIndex(k) \/ k \in steps

\* No process dies, no claim is lost, no database stays broken, and no plan
\* runs maintenance of its own on an agent.
Calm ==
    /\ MaxCrashes = 0 /\ "claim_lost" \notin Env /\ "db_broken" \notin Env
    /\ InlineKinds = {} \/ AgentRepos = {}

\* What a step may do to row k.
Good(k) ==
    /\ Row(k)'
    /\ Over(k) => Over(k)'
    /\ k \in inline => k \in inline' /\ dep'[k] = dep[k]
    /\ k \in cancelReq /\ k \notin cancelReq' /\ phase' # "down" =>
          status'[k] \in {"cancelled", "failed"}
    /\ Calm /\ Owned(k) => Owned(k)'
    /\ IndexBusy(k)' => (IndexBusy(k) /\ op'[k] = op[k]) \/ Claim(k)

\* The process's memory of row k is left as it was.
Memory(k) ==
    /\ task'[k] = task[k] /\ unrec'[k] = unrec[k]
    /\ k \in cancelReq' <=> k \in cancelReq
    /\ k \in inline' <=> k \in inline
    /\ k \in steps => k \in steps'
    /\ k \in routes' => k \in routes
    /\ k \in todo' => k \in todo
    /\ claim' = k <=> claim = k
    /\ plan'[k] # "none" => plan[k] # "none" \/ k <= count'

\* The table keeps row k, or hands its id out.
Table(k) ==
    \/ /\ k <= count /\ status'[k] = status[k] /\ op'[k] = op[k]
       /\ status[k] # "queued" => dep'[k] = dep[k]
    \/ k > count /\ k <= count' /\ status'[k] \in {"queued", "completed"}
    \/ k > count' /\ status'[k] = status[k]

\* A row the step leaves alone.
LEMMA RowElsewhere ==
    ASSUME TypeInv, NEW k \in Ids, Row(k), count' \in count..MaxOps, Memory(k), Table(k)
    PROVE  Good(k)
<1>0. count \in 0..MaxOps /\ count' \in Nat /\ MaxOps \in Nat /\ k \in Nat /\ count <= count'
  BY BoundsAssumption DEF TypeInv, TypeOK, Ids
<1>1. CASE k > count'
  <2>1. k > count /\ Blank(k) /\ status'[k] = status[k]
    BY <1>0, <1>1 DEF Row, Table
  <2>2. Blank(k)'
    BY <1>0, <1>1, <2>1 DEF Blank, Memory
  <2>3. Row(k)'
    BY <2>2 DEF Row, Blank, IndexBusy
  <2>4. QED
    BY <1>0, <2>1, <2>2, <2>3 DEF Good, Blank, Over, Owned, IndexBusy
<1>2. CASE k > count /\ k <= count'
  <2>1. Blank(k) /\ status'[k] \in {"queued", "completed"}
    BY <1>0, <1>2 DEF Row, Table
  <2>2. Row(k)' /\ ~IndexBusy(k)'
    BY <1>0, <1>2, <2>1 DEF Row, Blank, Memory, IndexBusy
  <2>3. QED
    BY <1>0, <1>2, <2>1, <2>2 DEF Good, Blank, Over, Owned
<1>3. CASE k <= count
  <2>1. /\ status'[k] = status[k] /\ op'[k] = op[k]
        /\ status[k] # "queued" => dep'[k] = dep[k]
    BY <1>0, <1>3 DEF Table
  <2>2. Row(k)'
    BY <1>0, <1>3, <2>1 DEF Row, Memory, IndexBusy, IsIndex
  <2>3. QED
    BY <1>0, <1>3, <2>1, <2>2 DEF Good, Memory, Row, Over, Owned, Live, IndexBusy, IsIndex
<1>4. QED
  BY <1>0, <1>1, <1>2, <1>3

\* Rows were enqueued behind the table, which otherwise reads st.
Enqueued(st) ==
    /\ count' \in count..MaxOps
    /\ \A k \in Ids : k <= count => /\ status'[k] = st[k] /\ op'[k] = op[k]
                                    /\ st[k] # "queued" => dep'[k] = dep[k]
    /\ \A k \in Ids : k > count =>
          \/ k <= count' /\ status'[k] \in {"queued", "completed"}
          \/ k > count' /\ status'[k] = st[k]

\* enqueue_chain only appends.
LEMMA ChainEnqueued ==
    ASSUME count \in 0..MaxOps, NEW st, NEW kinds \in Seq(KINDS), NEW repo, NEW trigger, NEW run,
           NEW d0, EnqueueChain(st, kinds, repo, trigger, run, d0)
    PROVE  Enqueued(st)
<1>0. Len(kinds) \in Nat
  OBVIOUS
<1>1. count + Len(kinds) <= MaxOps /\ count' = count + Len(kinds)
  BY DEF EnqueueChain
<1>2. count' \in count..MaxOps
  BY <1>0, <1>1, BoundsAssumption
<1>3. ASSUME NEW k \in Ids
      PROVE  /\ k <= count => status'[k] = st[k] /\ op'[k] = op[k] /\ dep'[k] = dep[k]
             /\ k > count => \/ k <= count' /\ status'[k] = "queued"
                             \/ k > count' /\ status'[k] = st[k]
  <2>1. /\ k \in (count + 1)..(count + Len(kinds)) => status'[k] = "queued"
        /\ k \notin (count + 1)..(count + Len(kinds)) =>
              status'[k] = st[k] /\ op'[k] = op[k] /\ dep'[k] = dep[k]
    BY DEF EnqueueChain
  <2>2. k \in (count + 1)..(count + Len(kinds)) <=> k > count /\ k <= count'
    BY <1>0, <1>1, BoundsAssumption DEF Ids
  <2>3. k \in Nat /\ count \in Nat /\ count' \in Nat /\ count <= count'
    BY <1>2, BoundsAssumption DEF Ids
  <2>4. CASE k <= count
    BY <2>1, <2>2, <2>3, <2>4
  <2>5. CASE k > count /\ k <= count'
    BY <2>1, <2>2, <2>3, <2>5
  <2>6. CASE k > count /\ k > count'
    BY <2>1, <2>2, <2>3, <2>6
  <2>7. QED
    BY <2>3, <2>4, <2>5, <2>6
<1>4. ASSUME NEW k \in Ids, k <= count
      PROVE  /\ status'[k] = st[k] /\ op'[k] = op[k]
             /\ st[k] # "queued" => dep'[k] = dep[k]
  BY <1>3, <1>4
<1>5. ASSUME NEW k \in Ids, k > count
      PROVE  \/ k <= count' /\ status'[k] \in {"queued", "completed"}
             \/ k > count' /\ status'[k] = st[k]
  BY <1>3, <1>5
<1>6. QED
  BY <1>2, <1>4, <1>5 DEF Enqueued

\* will_run looks at queued rows only.
LEMMA WillRunQueued ==
    ASSUME NEW st, NEW repo
    PROVE  \A i \in WillRun(st, repo) : i \in Ids /\ st[i] = "queued"
BY DEF WillRun

\* enqueue_followups appends, or re-hangs rows that are queued.
LEMMA FollowupsEnqueued ==
    ASSUME count \in 0..MaxOps, op \in [Ids -> OpType], NEW st \in [Ids -> RowStatus], NEW i \in Ids,
           NEW d0, NEW changed, EnqueueFollowups(st, i, d0, changed)
    PROVE  Enqueued(st)
<1> DEFINE kinds == ChainFor(op[i].kind, op[i].repo, changed)
<1>0. op[i].kind \in KINDS /\ count \in count..MaxOps /\ MaxOps \in Nat
  BY BoundsAssumption DEF OpType
<1>1. kinds \in Seq(KINDS)
  BY <1>0, ChainForType
<1> HIDE DEF kinds
<1>2. CASE EnqueueChain(st, kinds, op[i].repo, "followup", op[i].run, d0)
  BY <1>1, <1>2, ChainEnqueued
<1>3. CASE /\ status' = st /\ UNCHANGED <<count, op>>
           /\ \E heads : /\ \A j \in heads : st[j] = "queued"
                         /\ dep' = [j \in Ids |-> IF j \in heads THEN d0 ELSE dep[j]]
  BY <1>0, <1>3 DEF Enqueued, Ids
<1>4. CASE status' = st /\ UNCHANGED <<count, op, dep>>
  BY <1>0, <1>4 DEF Enqueued, Ids
<1>5. QED
  <2>1. \A j \in {j \in WillRun(st, op[i].repo) : /\ d0 # 0 /\ dep[j] # d0
                                            /\ op[j].run = op[i].run
                                            /\ dep[j] \notin WillRun(st, op[i].repo)} : st[j] = "queued"
    BY WillRunQueued
  <2>2. QED
    BY <1>2, <1>3, <1>4, <2>1 DEF EnqueueFollowups, kinds

\* A step that only enqueues.
LEMMA EnqueuedGood ==
    ASSUME TypeInv, \A k \in Ids : Row(k), Enqueued(status), \A k \in Ids : Memory(k)
    PROVE  \A k \in Ids : Good(k)
<1> SUFFICES ASSUME NEW k \in Ids PROVE Good(k)
  OBVIOUS
<1>1. count \in Nat /\ k \in Nat /\ count' \in count..MaxOps
  BY BoundsAssumption DEF TypeInv, TypeOK, Enqueued, Ids
<1>2. Table(k)
  <2>1. CASE k <= count
    BY <2>1 DEF Enqueued, Table
  <2>2. CASE k > count
    BY <2>2 DEF Enqueued, Table
  <2>3. QED
    BY <1>1, <2>1, <2>2
<1>3. QED
  BY <1>1, <1>2, RowElsewhere

\* A step that leaves the table alone but for the status of row i.
LEMMA OneRow ==
    ASSUME TypeInv, \A k \in Ids : Row(k), NEW i \in Ids, UNCHANGED <<count, op, dep>>,
           \A k \in Ids : k # i => status'[k] = status[k] /\ Memory(k),
           Good(i)
    PROVE  \A k \in Ids : Good(k)
<1> SUFFICES ASSUME NEW k \in Ids, k # i PROVE Good(k)
  OBVIOUS
<1>1. count \in Nat /\ k \in Nat /\ count' \in count..MaxOps
  BY BoundsAssumption DEF TypeInv, TypeOK, Ids
<1>2. Table(k)
  BY <1>1 DEF Table
<1>3. QED
  BY <1>1, <1>2, RowElsewhere

\* A step that leaves every row and the memory of it alone.
LEMMA NoRow ==
    ASSUME TypeInv, \A k \in Ids : Row(k), UNCHANGED <<count, status, op, dep>>,
           \A k \in Ids : Memory(k)
    PROVE  \A k \in Ids : Good(k)
<1>1. Enqueued(status)
  BY BoundsAssumption DEF TypeInv, TypeOK, Enqueued, Ids
<1>2. QED
  BY <1>1, EnqueuedGood

\* request_cancel on one row.
LEMMA CancelGood ==
    ASSUME TypeInv, \A k \in Ids : Row(k), NEW i \in Ids, CancelEffect(i),
           UNCHANGED <<count, op, dep, task, unrec, todo, claim, routes, inline, steps>>,
           \A k \in Ids : plan'[k] # "none" => plan[k] # "none"
    PROVE  \A k \in Ids : Good(k)
<1>1. /\ \A k \in Ids : k # i => status'[k] = status[k] /\ (k \in cancelReq' <=> k \in cancelReq)
      /\ status'[i] = IF status[i] = "queued" THEN "cancelled" ELSE status[i]
      /\ i \in cancelReq' <=> i \in cancelReq \/ (status[i] = "running" /\ Live(i))
  BY DEF CancelEffect, TypeInv, TypeOK
<1>2. \A k \in Ids : k # i => Memory(k)
  BY <1>1 DEF Memory
<1>3. Row(i)'
  BY <1>1 DEF Row, Blank, IndexBusy, IsIndex, Live, TERMINAL_STATUSES, SUCCESS_STATUSES
<1>4. Good(i)
  BY <1>1, <1>3 DEF Good, Over, Owned, Live, IndexBusy, IsIndex, TERMINAL_STATUSES, SUCCESS_STATUSES
<1>5. QED
  BY <1>1, <1>2, <1>4, OneRow

\* Requests.
LEMMA GoodRequest ==
    ASSUME TypeInv, \A k \in Ids : Row(k), RequestStep
    PROVE  \A k \in Ids : Good(k)
<1> USE DEF rowVars, taskVars, tickVars, procVars, ghosts
<1>0. count \in 0..MaxOps /\ op \in [Ids -> OpType] /\ status \in [Ids -> RowStatus]
      /\ plan \in [Ids -> PlanStates]
  BY DEF TypeInv, TypeOK
<1>1. ASSUME NEW s \in Submissions, Submit(s) PROVE \A k \in Ids : Good(k)
  <2>1. EnqueueChain(status, s.kinds, s.repo, s.trigger, count + 1, 0)
    BY <1>1 DEF Submit
  <2>2. s.kinds \in Seq(KINDS) /\ s.kinds # << >>
    BY SettingsAssumption
  <2>3. Enqueued(status)
    BY <1>0, <2>1, <2>2, ChainEnqueued
  <2>4. count' = count + Len(s.kinds) /\ Len(s.kinds) \in Nat /\ Len(s.kinds) > 0
    BY <2>1, <2>2 DEF EnqueueChain
  <2>5. count + 1 <= count'
    BY <1>0, <2>4
  <2>6. /\ UNCHANGED <<task, unrec, cancelReq, inline, steps, routes, todo, claim>>
        /\ plan' = plan \/ plan' = [plan EXCEPT ![count + 1] = "live"]
    BY <1>1 DEF Submit
  <2>7. \A k \in Ids : Memory(k)
    BY <1>0, <2>5, <2>6 DEF Memory
  <2>8. QED
    BY <2>3, <2>7, EnqueuedGood
<1>2. ASSUME NEW r \in Repos, ImportConnect(r) PROVE \A k \in Ids : Good(k)
  <2> DEFINE kinds == <<"import_connect">> \o ChainFor("import_connect", r, FALSE)
  <2>1. ChainFor("import_connect", r, FALSE) \in Seq(KINDS)
    <3>1. "import_connect" \in KINDS
      BY DEF KINDS
    <3>2. QED
      BY <3>1, ChainForType
  <2>2. Len(kinds) \in Nat /\ Len(kinds) > 0
    <3>1. \A c \in Seq(KINDS) : /\ Len(<<"import_connect">> \o c) \in Nat
                                /\ Len(<<"import_connect">> \o c) > 0
      OBVIOUS
    <3>2. QED
      BY <2>1, <3>1
  <2>3. /\ count + Len(kinds) <= MaxOps /\ count' = count + Len(kinds)
        /\ status' = [i \in Ids |-> IF i = count + 1 THEN "completed"
                                    ELSE IF i \in (count + 1)..(count + Len(kinds)) THEN "queued"
                                    ELSE status[i]]
        /\ \A i \in Ids : i \notin (count + 1)..(count + Len(kinds)) =>
              op'[i] = op[i] /\ dep'[i] = dep[i]
        /\ UNCHANGED <<task, unrec, cancelReq, inline, steps, routes, todo, claim, plan>>
    BY <1>2 DEF ImportConnect
  <2> HIDE DEF kinds
  <2>4. Enqueued(status)
    <3>1. count' \in count..MaxOps
      BY <1>0, <2>2, <2>3, BoundsAssumption
    <3>2. ASSUME NEW k \in Ids, k <= count
          PROVE  status'[k] = status[k] /\ op'[k] = op[k] /\ dep'[k] = dep[k]
      <4>1. k # count + 1 /\ k \notin (count + 1)..(count + Len(kinds))
        BY <1>0, <3>2, BoundsAssumption DEF Ids
      <4>2. QED
        BY <2>3, <4>1
    <3>3. ASSUME NEW k \in Ids, k > count
          PROVE  \/ k <= count' /\ status'[k] \in {"queued", "completed"}
                 \/ k > count' /\ status'[k] = status[k]
      <4>1. CASE k <= count'
        <5>1. k \in (count + 1)..(count + Len(kinds))
          BY <1>0, <2>2, <2>3, <3>3, <4>1, BoundsAssumption DEF Ids
        <5>2. QED
          BY <2>3, <4>1, <5>1
      <4>2. CASE k > count'
        <5>1. k # count + 1 /\ k \notin (count + 1)..(count + Len(kinds))
          BY <1>0, <2>2, <2>3, <4>2, BoundsAssumption DEF Ids
        <5>2. QED
          BY <2>3, <4>2, <5>1
      <4>3. QED
        BY <1>0, <3>1, <4>1, <4>2, BoundsAssumption DEF Ids
    <3>4. QED
      BY <3>1, <3>2, <3>3 DEF Enqueued
  <2>5. \A k \in Ids : Memory(k)
    BY <2>3 DEF Memory
  <2>6. QED
    BY <2>4, <2>5, EnqueuedGood
<1>3. ASSUME NEW r \in Repos, Reconcile(r) PROVE \A k \in Ids : Good(k)
  <2>1. /\ EnqueueChain(status, ReconcileKinds(r), r, "reconcile", count + 1, 0)
        /\ UNCHANGED <<task, unrec, cancelReq, inline, steps, routes, todo, claim, plan>>
    BY <1>3 DEF Reconcile
  <2>2. ReconcileKinds(r) \in Seq(KINDS)
    <3>1. RECONCILE_CHAIN \in Seq(KINDS)
      BY DEF RECONCILE_CHAIN, KINDS
    <3>2. QED
      BY <3>1, FilteredType DEF ReconcileKinds
  <2>3. Enqueued(status)
    BY <1>0, <2>1, <2>2, ChainEnqueued
  <2>4. \A k \in Ids : Memory(k)
    BY <2>1 DEF Memory
  <2>5. QED
    BY <2>3, <2>4, EnqueuedGood
<1>4. ASSUME NEW i \in Ids, RequestCancel(i) \/ CancelRun(i) PROVE \A k \in Ids : Good(k)
  <2>1. /\ CancelEffect(i)
        /\ UNCHANGED <<count, op, dep, task, unrec, todo, claim, routes, inline, steps>>
        /\ \A k \in Ids : plan'[k] # "none" => plan[k] # "none"
    BY <1>0, <1>4 DEF RequestCancel, CancelRun
  <2>2. QED
    BY <2>1, CancelGood
<1>5. ASSUME NEW i \in Ids, CancelRouteAsks(i) PROVE \A k \in Ids : Good(k)
  <2>1. /\ op[i].kind = "backup" /\ status[i] = "running"
        /\ routes' = routes \cup {i}
        /\ cancelReq' = IF Live(i) THEN cancelReq \cup {i} ELSE cancelReq
        /\ UNCHANGED <<count, status, op, dep, task, unrec, todo, claim, plan, inline, steps>>
    BY <1>5 DEF CancelRouteAsks
  <2>2. \A k \in Ids : k # i => Memory(k)
    BY <2>1 DEF Memory
  <2>3. "backup" \notin InlineKinds
    BY SettingsAssumption DEF MAINTENANCE_KINDS
  <2>4. Row(i)'
    BY <2>1, <2>3 DEF Row, Blank, IndexBusy, IsIndex, Live, TERMINAL_STATUSES, SUCCESS_STATUSES
  <2>5. Good(i)
    BY <2>1, <2>4 DEF Good, Over, Owned, Live, IndexBusy, IsIndex
  <2>6. QED
    BY <2>1, <2>2, <2>5, OneRow
<1>6. ASSUME NEW i \in Ids, CancelRouteWrites(i) PROVE \A k \in Ids : Good(k)
  <2>1. /\ i \in routes /\ routes' = routes \ {i}
        /\ status' = [status EXCEPT ![i] = "cancelled"]
        /\ UNCHANGED <<count, op, dep, task, unrec, cancelReq, todo, claim, plan, inline, steps>>
    BY <1>6 DEF CancelRouteWrites
  <2>2. \A k \in Ids : k # i => status'[k] = status[k] /\ Memory(k)
    BY <1>0, <2>1 DEF Memory
  <2>3. status'[i] = "cancelled"
    BY <1>0, <2>1
  <2>4. ~IsIndex(i)
    BY <2>1 DEF Row, IsIndex, INDEX_KINDS
  <2>5. Row(i)'
    BY <2>1, <2>3, <2>4 DEF Row, Blank, IndexBusy, IsIndex, Live, TERMINAL_STATUSES, SUCCESS_STATUSES
  <2>6. Good(i)
    BY <2>1, <2>3, <2>4, <2>5 DEF Good, Over, Owned, Live, IndexBusy, IsIndex, TERMINAL_STATUSES
  <2>7. QED
    BY <2>1, <2>2, <2>6, OneRow
<1>7. QED
  BY <1>1, <1>2, <1>3, <1>4, <1>5, <1>6 DEF RequestStep

\* The order of the candidates is strict.
LEMMA BeforeStrict ==
    ASSUME op \in [Ids -> OpType], NEW i \in Ids
    PROVE  ~Before(i, i)
<1>1. op[i].trigger \in TRIGGERS /\ i \in Nat
  BY BoundsAssumption DEF OpType, Ids
<1>2. PriorityForTrigger(op[i].trigger) \in Nat
  BY <1>1 DEF PriorityForTrigger, TRIGGERS
<1>3. QED
  BY <1>1, <1>2 DEF Before

\* What the tick writes for an entry of row i.
LEMMA RecordedWord ==
    ASSUME TypeInv, NEW i \in Ids, Row(i), unrec[i] # NoEntry
    PROVE  /\ Recorded(i) \in [Ids -> RowStatus]
           /\ \A k \in Ids : k # i => Recorded(i)[k] = status[k]
           /\ Recorded(i)[i] \in TERMINAL_STATUSES
           /\ i \in cancelReq => Recorded(i)[i] \in {"cancelled", "failed"}
           /\ unrec[i].fallback => Recorded(i)[i] \in {"cancelled", "failed"}
<1>0. /\ status \in [Ids -> RowStatus] /\ unrec[i] \in EntryType /\ unrec[i].status # "none"
  BY DEF TypeInv, TypeOK, EntriesInv
<1>1. unrec[i].status \in TERMINAL_STATUSES /\ unrec[i].fallback \in BOOLEAN
  BY <1>0 DEF EntryType
<1>2. status[i] \in RowStatus /\ status[i] \notin {"queued", "absent"}
  BY <1>0 DEF Row
<1>3. CASE status[i] \in Recordable(i)
  <2>1. Recorded(i) = [status EXCEPT ![i] = unrec[i].status]
    BY <1>3 DEF Recorded
  <2>2. /\ i \in cancelReq => unrec[i].status \in {"cancelled", "failed"}
        /\ unrec[i].fallback => unrec[i].status = "failed"
    BY DEF Row
  <2>3. Recorded(i)[i] = unrec[i].status
    BY <1>0, <2>1
  <2>4. Recorded(i) \in [Ids -> RowStatus] /\ \A k \in Ids : k # i => Recorded(i)[k] = status[k]
    BY <1>0, <1>1, <2>1 DEF RowStatus, STATUSES
  <2>5. QED
    BY <1>1, <2>2, <2>3, <2>4
<1>4. CASE status[i] \notin Recordable(i)
  <2>1. Recorded(i) = status
    BY <1>4 DEF Recorded
  <2>2. CASE unrec[i].fallback
    <3>1. status[i] \in {"running", "cancelled", "failed"} /\ Recordable(i) = {"running"}
      BY <2>2 DEF Row, Recordable
    <3>2. QED
      BY <1>0, <1>4, <2>1, <3>1 DEF TERMINAL_STATUSES
  <2>3. CASE ~unrec[i].fallback
    <3>1. Recordable(i) = {"running", "skipped"} \cup SUCCESS_STATUSES
      BY <2>3 DEF Recordable
    <3>2. status[i] \in {"cancelled", "failed"}
      BY <1>2, <1>4, <3>1 DEF RowStatus, STATUSES, TERMINAL_STATUSES
    <3>3. QED
      BY <1>0, <2>1, <2>3, <3>2 DEF TERMINAL_STATUSES
  <2>4. QED
    BY <1>1, <2>2, <2>3
<1>5. QED
  BY <1>3, <1>4

\* An entry leaves the memory.
LEMMA GoodRecord ==
    ASSUME TypeInv, \A k \in Ids : Row(k), NEW i \in Ids, NEW changed, RecordOutcome(i, changed)
    PROVE  \A k \in Ids : Good(k)
<1> USE DEF rowVars, taskVars, tickVars, procVars, ghosts
<1>0. /\ count \in 0..MaxOps /\ op \in [Ids -> OpType] /\ status \in [Ids -> RowStatus]
      /\ unrec \in [Ids -> EntryType]
  BY DEF TypeInv, TypeOK
<1>1. i \in recording /\ unrec[i] # NoEntry
  BY DEF RecordOutcome, TypeInv, EntriesInv, NoEntry
<1>2. task[i] = "none" /\ ~Live(i)
  BY <1>1 DEF Row, Live
<1>3. /\ Recorded(i) \in [Ids -> RowStatus]
      /\ \A k \in Ids : k # i => Recorded(i)[k] = status[k]
      /\ Recorded(i)[i] \in TERMINAL_STATUSES
      /\ i \in cancelReq => Recorded(i)[i] \in {"cancelled", "failed"}
  BY <1>1, RecordedWord
<1>4. /\ unrec' = [unrec EXCEPT ![i] = NoEntry] /\ cancelReq' = cancelReq \ {i}
      /\ UNCHANGED <<task, inline, steps, routes, todo, claim, plan>>
      /\ \/ EnqueueFollowups(Recorded(i), i, i, changed)
         \/ status' = Recorded(i) /\ UNCHANGED <<count, op, dep>>
  BY <1>2 DEF RecordOutcome
<1>5. Enqueued(Recorded(i))
  <2>1. CASE EnqueueFollowups(Recorded(i), i, i, changed)
    BY <1>0, <1>3, <2>1, FollowupsEnqueued
  <2>2. CASE status' = Recorded(i) /\ UNCHANGED <<count, op, dep>>
    BY <1>0, <2>2, BoundsAssumption DEF Enqueued, Ids
  <2>3. QED
    BY <1>4, <2>1, <2>2
<1>6. count' \in count..MaxOps /\ count \in Nat
  BY <1>0, <1>5, BoundsAssumption DEF Enqueued
<1>7. ASSUME NEW k \in Ids, k # i PROVE Good(k)
  <2>1. Memory(k)
    BY <1>0, <1>4, <1>7 DEF Memory
  <2>2. Recorded(i)[k] = status[k]
    BY <1>3, <1>7
  <2>3. Table(k)
    <3>1. CASE k <= count
      BY <1>5, <2>2, <3>1 DEF Enqueued, Table
    <3>2. CASE k > count
      BY <1>5, <2>2, <3>2 DEF Enqueued, Table
    <3>3. QED
      BY <1>6, <3>1, <3>2, BoundsAssumption DEF Ids
  <2>4. QED
    BY <1>6, <2>1, <2>3, RowElsewhere
<1>8. Good(i)
  <2>1. i <= count
    BY <1>1, <1>6, BoundsAssumption DEF Row, Blank, Ids
  <2>2. /\ i <= count' /\ status'[i] = Recorded(i)[i] /\ op'[i] = op[i]
        /\ i \notin inline /\ i \notin todo /\ claim # i /\ ~IsIndex(i)
    BY <1>1, <1>5, <1>6, <2>1, BoundsAssumption DEF Enqueued, Row, Ids
  <2>3. status'[i] \notin {"running", "queued", "absent"}
    BY <1>3, <2>2 DEF TERMINAL_STATUSES, SUCCESS_STATUSES
  <2>4. unrec'[i] = NoEntry /\ i \notin cancelReq'
    BY <1>0, <1>4
  <2>5. Row(i)'
    BY <1>2, <1>4, <1>6, <2>1, <2>2, <2>3, <2>4, BoundsAssumption DEF Row, IndexBusy, IsIndex, Ids
  <2>6. QED
    BY <1>2, <1>3, <1>4, <2>1, <2>2, <2>3, <2>4, <2>5 DEF Good, Over, Owned, Live, IndexBusy, IsIndex
<1>9. QED
  BY <1>7, <1>8

\* The tick.
LEMMA GoodTick ==
    ASSUME TypeInv, \A k \in Ids : Row(k), TickStep
    PROVE  \A k \in Ids : Good(k)
<1> USE DEF rowVars, taskVars, tickVars, procVars, ghosts
<1>0. /\ count \in 0..MaxOps /\ op \in [Ids -> OpType] /\ status \in [Ids -> RowStatus]
      /\ task \in [Ids -> TaskStates] /\ ClaimInv
  BY DEF TypeInv, TypeOK
<1>n. 0 \notin Ids
  BY BoundsAssumption DEF Ids
<1>1. CASE TickStart \/ TickEnd
  <2>1. /\ UNCHANGED <<count, status, op, dep, task, unrec, cancelReq, inline, steps, routes, claim,
                       plan>>
        /\ \A k \in Ids : k \in todo' => k \in todo
    BY <1>1 DEF TickStart, TickEnd
  <2>2. \A k \in Ids : Memory(k)
    BY <2>1 DEF Memory
  <2>3. QED
    BY <2>1, <2>2, NoRow
<1>2. CASE Sweep
  <2>1. claim = 0
    BY <1>0, <1>2 DEF Sweep, ClaimInv
  <2>2. UNCHANGED <<count, op, dep, task, unrec, inline, steps, routes, todo, claim, plan>>
    BY <1>2 DEF Sweep
  <2>3. CASE UNCHANGED <<status, cancelReq>>
    <3>1. \A k \in Ids : Memory(k)
      BY <2>2, <2>3 DEF Memory
    <3>2. QED
      BY <2>2, <2>3, <3>1, NoRow
  <2>4. CASE /\ RecoverIndexRows(status, AbandonedIndexRows, AbandonedIndexRows \cap cancelReq)
             /\ cancelReq' = cancelReq \ AbandonedIndexRows
    <3> SUFFICES ASSUME NEW k \in Ids PROVE Good(k)
      OBVIOUS
    <3>1. CASE k \notin AbandonedIndexRows
      <4>1. status'[k] = status[k]
        BY <2>4, <3>1 DEF RecoverIndexRows
      <4>2. Memory(k)
        BY <2>2, <2>4, <3>1 DEF Memory
      <4>3. Table(k) /\ count' \in count..MaxOps
        BY <1>0, <2>2, <4>1, BoundsAssumption DEF Table, Ids
      <4>4. QED
        BY <4>2, <4>3, RowElsewhere
    <3>2. CASE k \in AbandonedIndexRows
      <4>1. status[k] = "running" /\ IsIndex(k) /\ task[k] = "none" /\ claim # k
        BY <1>n, <2>1, <3>2 DEF AbandonedIndexRows, Live
      <4>2. /\ k \in cancelReq => status'[k] = "cancelled"
            /\ status'[k] \in {"queued", "failed", "cancelled"} /\ k \notin cancelReq'
        BY <2>4, <3>2 DEF RecoverIndexRows
      <4>3. "backup" \notin INDEX_KINDS /\ InlineKinds \cap INDEX_KINDS = {}
        BY SettingsAssumption DEF INDEX_KINDS, MAINTENANCE_KINDS
      <4>4. /\ k \notin inline /\ k \notin todo /\ k \notin routes /\ unrec[k] = NoEntry /\ ~(k > count)
        BY <4>1, <4>3 DEF Row, Blank, IsIndex
      <4>5. Row(k)'
        BY <2>2, <4>1, <4>2, <4>4 DEF Row, IndexBusy
      <4>6. QED
        BY <2>2, <4>1, <4>2, <4>4, <4>5
           DEF Good, Over, Owned, IndexBusy, IsIndex, TERMINAL_STATUSES, SUCCESS_STATUSES
    <3>3. QED
      BY <3>1, <3>2
  <2>5. QED
    BY <1>2, <2>3, <2>4 DEF Sweep
<1>3. CASE Load
  <2> SUFFICES ASSUME NEW k \in Ids PROVE Good(k)
    OBVIOUS
  <2>1. /\ UNCHANGED <<count, status, op, dep, task, unrec, cancelReq, inline, steps, routes, claim, plan>>
        /\ k \in todo' => status[k] = "queued"
        /\ claim = 0
    BY <1>0, <1>3 DEF Load, ClaimInv
  <2>2. CASE k \notin todo'
    <3>1. Memory(k) /\ Table(k) /\ count' \in count..MaxOps
      BY <1>0, <2>1, <2>2, BoundsAssumption DEF Memory, Table, Ids
    <3>2. QED
      BY <3>1, RowElsewhere
  <2>3. CASE k \in todo'
    <3>1. status[k] = "queued" /\ claim # k
      BY <1>n, <2>1, <2>3
    <3>2. /\ task[k] \in {"none", "deferring"} /\ k \notin cancelReq /\ unrec[k] = NoEntry
          /\ k \notin inline /\ ~(k > count)
      BY <1>0, <3>1 DEF Row, Blank, TaskStates, TERMINAL_STATUSES, SUCCESS_STATUSES
    <3>3. Row(k)'
      BY <2>1, <3>1, <3>2 DEF Row, IndexBusy, IsIndex
    <3>4. QED
      BY <2>1, <3>1, <3>3 DEF Good, Over, Owned, Live, IndexBusy, IsIndex
  <2>4. QED
    BY <2>2, <2>3
<1>4. CASE Dispatch
  <2>1. /\ claim \in Ids /\ claim' = 0 /\ task' = [task EXCEPT ![claim] = "created"]
        /\ UNCHANGED <<count, status, op, dep, unrec, cancelReq, inline, steps, routes, todo, plan>>
    BY <1>0, <1>4 DEF Dispatch, ClaimInv
  <2>2. \A k \in Ids : k # claim => status'[k] = status[k] /\ Memory(k)
    BY <1>0, <1>n, <2>1 DEF Memory
  <2>3. task'[claim] = "created" /\ claim # 0
    BY <1>0, <1>n, <2>1
  <2>4. /\ claim \notin inline /\ claim \notin todo /\ unrec[claim] = NoEntry /\ ~(claim > count)
        /\ status[claim] \in {"running", "cancelled"}
        /\ IsIndex(claim) => status[claim] = "running"
    BY <2>1 DEF Row, Blank, IndexBusy
  <2>p. PICK i \in Ids : i = claim
    BY <2>1
  <2>5. /\ i \in Ids /\ i = claim /\ Row(i) /\ claim' # i /\ task'[i] = "created"
        /\ i \notin inline /\ i \notin todo /\ unrec[i] = NoEntry /\ ~(i > count)
        /\ status[i] \in {"running", "cancelled"}
        /\ IsIndex(i) => status[i] = "running"
    BY <2>1, <2>3, <2>4, <2>p
  <2>6. Good(i)
    <3>1. Row(i)'
      BY <2>1, <2>5 DEF Row, IndexBusy, IsIndex
    <3>2. QED
      BY <2>1, <2>5, <3>1 DEF Good, Over, Owned, Live, IndexBusy, IsIndex
  <2>7. QED
    BY <2>1, <2>2, <2>5, <2>6, OneRow
<1>5. ASSUME NEW i \in Ids, NEW changed \in Changes, RecordOutcome(i, changed)
      PROVE  \A k \in Ids : Good(k)
  BY <1>5, GoodRecord
<1>6. ASSUME NEW i \in Ids, Skip(i) PROVE \A k \in Ids : Good(k)
  <2>1. /\ i \in todo /\ status' = [status EXCEPT ![i] = "skipped"] /\ ~Live(i)
        /\ todo' = {j \in todo : Before(i, j)}
        /\ UNCHANGED <<count, op, dep, task, unrec, cancelReq, inline, steps, routes, claim, plan>>
    BY <1>6 DEF Skip, NextCandidate, Passed
  <2>2. \A k \in Ids : k # i => status'[k] = status[k] /\ Memory(k)
    BY <1>0, <2>1 DEF Memory
  <2>3. i \notin todo' /\ status'[i] = "skipped"
    BY <1>0, <2>1, BeforeStrict
  <2>4. /\ task[i] = "none" /\ claim # i /\ i \notin cancelReq /\ unrec[i] = NoEntry /\ i \notin inline
        /\ ~(i > count)
    BY <2>1 DEF Row, Blank, Live
  <2>5. Row(i)'
    BY <2>1, <2>3, <2>4 DEF Row, IndexBusy, IsIndex
  <2>6. Good(i)
    BY <2>1, <2>3, <2>4, <2>5 DEF Good, Over, Owned, Live, IndexBusy, TERMINAL_STATUSES
  <2>7. QED
    BY <2>1, <2>2, <2>6, OneRow
<1>7. ASSUME NEW i \in Ids, Claim(i) PROVE \A k \in Ids : Good(k)
  <2>1. /\ i \in todo /\ status[i] = "queued" /\ ~Live(i) /\ claim = 0
        /\ status' = [status EXCEPT ![i] = "running"]
        /\ todo' = {j \in todo : Before(i, j)} /\ claim' = i
        /\ UNCHANGED <<count, op, dep, task, unrec, cancelReq, inline, steps, routes, plan>>
    BY <1>0, <1>7 DEF Claim, NextCandidate, Passed, Startable, ClaimInv
  <2>2. \A k \in Ids : k # i => status'[k] = status[k] /\ Memory(k)
    BY <1>0, <1>n, <2>1 DEF Memory
  <2>3. i \notin todo' /\ status'[i] = "running"
    BY <1>0, <2>1, BeforeStrict
  <2>4. /\ task[i] = "none" /\ i \notin cancelReq /\ unrec[i] = NoEntry /\ i \notin inline
        /\ ~(i > count)
    BY <2>1 DEF Row, Blank, Live
  <2>5. Row(i)'
    BY <2>1, <2>3, <2>4 DEF Row, IndexBusy, IsIndex
  <2>6. Good(i)
    BY <1>7, <2>1, <2>3, <2>4, <2>5 DEF Good, Over, Owned, TERMINAL_STATUSES, SUCCESS_STATUSES
  <2>7. QED
    BY <2>1, <2>2, <2>6, OneRow
<1>8. QED
  BY <1>1, <1>2, <1>3, <1>4, <1>5, <1>6, <1>7 DEF TickStep

\* A row with a task is nowhere else.
LEMMA LiveRow ==
    ASSUME NEW i \in Ids, Row(i), task[i] # "none"
    PROVE  /\ claim # i /\ unrec[i] = NoEntry /\ i \notin inline /\ ~(i > count)
           /\ task[i] # "deferring" => i \notin todo
BY DEF Row, Blank

\* The terminal commit of a task.
LEMMA TerminalGood ==
    ASSUME TypeInv, \A k \in Ids : Row(k), NEW i \in Ids, NEW v \in TERMINAL_STATUSES,
           task[i] = "executing", TerminalWrite(i, v),
           i \in cancelReq => v \in {"cancelled", "failed"}
    PROVE  \A k \in Ids : Good(k)
<1> USE DEF tickVars, procVars
<1>0. status \in [Ids -> RowStatus] /\ task \in [Ids -> TaskStates]
  BY DEF TypeInv, TypeOK
<1>1. /\ status' = [status EXCEPT ![i] = v]
      /\ task' = [task EXCEPT ![i] = IF v \in SUCCESS_STATUSES THEN "succeeded" ELSE "closing"]
      /\ UNCHANGED <<count, op, dep, unrec, cancelReq, inline, steps, routes, todo, claim, plan>>
  BY DEF TerminalWrite
<1>2. \A k \in Ids : k # i => status'[k] = status[k] /\ Memory(k)
  BY <1>0, <1>1 DEF Memory
<1>3. /\ status'[i] = v /\ v \notin {"queued", "running", "absent"}
      /\ task'[i] \in {"succeeded", "closing"} /\ (task'[i] = "succeeded" => v \in SUCCESS_STATUSES)
      /\ claim # i /\ unrec[i] = NoEntry /\ i \notin inline /\ ~(i > count) /\ i \notin todo
  BY <1>0, <1>1, LiveRow DEF TERMINAL_STATUSES, SUCCESS_STATUSES
<1>4. i \in cancelReq => task'[i] = "closing"
  BY <1>3 DEF SUCCESS_STATUSES
<1>5. Row(i)'
  BY <1>1, <1>3, <1>4 DEF Row, IndexBusy, IsIndex
<1>6. Good(i)
  BY <1>1, <1>3, <1>5 DEF Good, Over, Owned, Live, IndexBusy
<1>7. QED
  BY <1>1, <1>2, <1>6, OneRow

\* A task that ends without its verdict on the row.
LEMMA UnrecordedGood ==
    ASSUME TypeInv, \A k \in Ids : Row(k), NEW i \in Ids, NEW v \in TERMINAL_STATUSES,
           NEW fallback \in BOOLEAN, task[i] \in {"created", "executing"},
           Unrecorded(i, v, fallback), task' = [task EXCEPT ![i] = "none"],
           count' \in count..MaxOps, i <= count => i <= count',
           status'[i] = status[i], op'[i] = op[i],
           UNCHANGED <<cancelReq, inline, steps, routes, todo, claim, plan>>,
           i \in cancelReq => v \in {"cancelled", "failed"},
           fallback => v = "failed" /\ task[i] = "created",
           \A k \in Ids : k # i => Table(k)
    PROVE  \A k \in Ids : Good(k)
<1>0. task \in [Ids -> TaskStates] /\ unrec \in [Ids -> EntryType] /\ count \in Nat
  BY BoundsAssumption DEF TypeInv, TypeOK
<1>1. ASSUME NEW k \in Ids, k # i PROVE Good(k)
  <2>1. Memory(k)
    BY <1>0, <1>1 DEF Memory, Unrecorded
  <2>2. QED
    BY <1>1, <2>1, RowElsewhere
<1>2. /\ task'[i] = "none" /\ claim # i /\ unrec[i] = NoEntry /\ i \notin inline
      /\ ~(i > count) /\ i \notin todo
  BY <1>0, LiveRow
<1>3. status[i] \notin {"queued", "absent"} /\ (fallback => status[i] \in {"running", "cancelled"})
  BY DEF Row
<1>4. i <= count /\ i <= count' /\ ~(i > count')
  BY <1>0, <1>2, BoundsAssumption DEF Ids
<1>5. CASE IsIndex(i)
  <2>1. unrec'[i] = NoEntry
    BY <1>2, <1>5 DEF Unrecorded
  <2>2. Row(i)'
    BY <1>2, <1>3, <1>4, <2>1 DEF Row, IndexBusy, IsIndex
  <2>3. QED
    <3>1. Good(i)
      BY <1>2, <1>5, <2>2 DEF Good, Over, Owned, Live, IndexBusy, IsIndex
    <3>2. QED
      BY <1>1, <3>1
<1>6. CASE ~IsIndex(i)
  <2>1. unrec'[i] = [status |-> v, fallback |-> fallback, retried |-> FALSE]
    BY <1>0, <1>6 DEF Unrecorded
  <2>2. unrec'[i].status = v /\ unrec'[i].fallback = fallback /\ unrec'[i] # NoEntry
    <3>1. v # "none"
      BY DEF TERMINAL_STATUSES, SUCCESS_STATUSES
    <3>2. QED
      BY <2>1, <3>1 DEF NoEntry
  <2>3. Row(i)'
    BY <1>2, <1>3, <1>4, <1>6, <2>2 DEF Row, IndexBusy, IsIndex
  <2>4. QED
    <3>1. Good(i)
      BY <1>2, <1>3, <2>2, <2>3 DEF Good, Over, Owned, Live, IndexBusy, IsIndex
    <3>2. QED
      BY <1>1, <3>1
<1>7. QED
  BY <1>5, <1>6

\* The rows a step leaves alone, when the table is kept.
LEMMA TableKept ==
    ASSUME TypeInv, UNCHANGED <<count, status, op, dep>>
    PROVE  count' \in count..MaxOps /\ \A k \in Ids : Table(k) /\ (k <= count => k <= count')
BY BoundsAssumption DEF TypeInv, TypeOK, Table, Ids

\* An accepted cancel leaves two words for the verdict.
LEMMA CancelledVerdict ==
    ASSUME NEW i \in Ids, i \in cancelReq, NEW v \in Verdicts(i)
    PROVE  v \in {"cancelled", "failed"}
BY DEF Verdicts

\* A task past its verdict leaves, with its flag.
LEMMA CloseGood ==
    ASSUME TypeInv, \A k \in Ids : Row(k), NEW i \in Ids, task[i] \in {"succeeded", "closing"},
           task' = [task EXCEPT ![i] = "none"], cancelReq' = cancelReq \ {i}, Enqueued(status),
           UNCHANGED <<unrec, inline, steps, routes, todo, claim, plan>>
    PROVE  \A k \in Ids : Good(k)
<1>0. task \in [Ids -> TaskStates] /\ count \in Nat /\ count' \in count..MaxOps
  BY BoundsAssumption DEF TypeInv, TypeOK, Enqueued
<1>1. ASSUME NEW k \in Ids, k # i PROVE Good(k)
  <2>1. Memory(k)
    BY <1>0, <1>1 DEF Memory
  <2>2. Table(k)
    <3>1. CASE k <= count
      BY <3>1 DEF Enqueued, Table
    <3>2. CASE k > count
      BY <3>2 DEF Enqueued, Table
    <3>3. QED
      BY <1>0, <3>1, <3>2, BoundsAssumption DEF Ids
  <2>3. QED
    BY <1>0, <2>1, <2>2, RowElsewhere
<1>2. /\ task'[i] = "none" /\ claim # i /\ unrec[i] = NoEntry /\ i \notin inline
      /\ ~(i > count) /\ i \notin todo /\ i \notin cancelReq'
  BY <1>0, LiveRow
<1>3. i <= count /\ i <= count' /\ ~(i > count')
  BY <1>0, <1>2, BoundsAssumption DEF Ids
<1>4. status'[i] = status[i] /\ op'[i] = op[i]
  BY <1>3 DEF Enqueued
<1>5. Row(i)'
  BY <1>2, <1>3, <1>4 DEF Row, IndexBusy, IsIndex
<1>6. /\ status[i] # "running"
      /\ i \in cancelReq => status[i] \in {"cancelled", "failed"}
  BY DEF Row, TERMINAL_STATUSES, SUCCESS_STATUSES
<1>7. Good(i)
  BY <1>2, <1>4, <1>5, <1>6 DEF Good, Over, Owned, Live, IndexBusy
<1>8. QED
  BY <1>1, <1>7

\* A table that is kept is one nothing was enqueued in.
LEMMA KeptEnqueued ==
    ASSUME TypeInv, UNCHANGED <<count, status, op, dep>>
    PROVE  Enqueued(status)
BY BoundsAssumption DEF TypeInv, TypeOK, Enqueued, Ids

\* Tasks.
LEMMA GoodTask ==
    ASSUME TypeInv, \A k \in Ids : Row(k), NEW i \in Ids,
           TaskStep(i) \/ Elapse(i) \/ \E w \in Words : ServiceWrites(i, w)
    PROVE  \A k \in Ids : Good(k)
<1> USE DEF rowVars, taskVars, tickVars, procVars, ghosts
<1>0. /\ count \in 0..MaxOps /\ op \in [Ids -> OpType] /\ status \in [Ids -> RowStatus]
      /\ task \in [Ids -> TaskStates]
  BY DEF TypeInv, TypeOK
<1>1. CASE Begin(i)
  <2>1. /\ task[i] = "created"
        /\ task' = [task EXCEPT ![i] = IF status[i] = "running" THEN "executing" ELSE "none"]
        /\ UNCHANGED <<count, status, op, dep, unrec, cancelReq, inline, steps, routes, todo, claim, plan>>
    BY <1>1 DEF Begin
  <2>2. \A k \in Ids : k # i => status'[k] = status[k] /\ Memory(k)
    BY <1>0, <2>1 DEF Memory
  <2>3. /\ task'[i] = IF status[i] = "running" THEN "executing" ELSE "none"
        /\ claim # i /\ unrec[i] = NoEntry /\ i \notin inline /\ ~(i > count) /\ i \notin todo
    BY <1>0, <2>1, LiveRow
  <2>4. Row(i)'
    BY <2>1, <2>3 DEF Row, IndexBusy, IsIndex
  <2>5. Good(i)
    BY <2>1, <2>3, <2>4 DEF Good, Over, Owned, Live, IndexBusy, IsIndex
  <2>6. QED
    BY <2>1, <2>2, <2>5, OneRow
<1>2. CASE Defer(i)
  <2>1. /\ task[i] = "executing" /\ i \notin cancelReq
        /\ status' = [status EXCEPT ![i] = "queued"]
        /\ task' = [task EXCEPT ![i] = "deferring"]
        /\ UNCHANGED <<count, op, dep, unrec, cancelReq, inline, steps, routes, todo, claim, plan>>
    BY <1>2 DEF Defer, Refused
  <2>2. \A k \in Ids : k # i => status'[k] = status[k] /\ Memory(k)
    BY <1>0, <2>1 DEF Memory
  <2>3. /\ task'[i] = "deferring" /\ status'[i] = "queued"
        /\ claim # i /\ unrec[i] = NoEntry /\ i \notin inline /\ ~(i > count) /\ i \notin todo
    BY <1>0, <2>1, LiveRow
  <2>4. Row(i)'
    BY <2>1, <2>3 DEF Row, IndexBusy, IsIndex
  <2>5. Good(i)
    BY <2>1, <2>3, <2>4 DEF Good, Over, Owned, Live, IndexBusy
  <2>6. QED
    BY <2>1, <2>2, <2>5, OneRow
<1>3. CASE DeferDone(i)
  <2>1. /\ task[i] = "deferring" /\ task' = [task EXCEPT ![i] = "none"]
        /\ UNCHANGED <<count, status, op, dep, unrec, cancelReq, inline, steps, routes, todo, claim, plan>>
    BY <1>3 DEF DeferDone
  <2>2. \A k \in Ids : k # i => status'[k] = status[k] /\ Memory(k)
    BY <1>0, <2>1 DEF Memory
  <2>3. /\ task'[i] = "none"
        /\ claim # i /\ unrec[i] = NoEntry /\ i \notin inline /\ ~(i > count)
    BY <1>0, <2>1, LiveRow
  <2>4. Row(i)'
    BY <2>1, <2>3 DEF Row, IndexBusy, IsIndex
  <2>5. Good(i)
    BY <2>1, <2>3, <2>4 DEF Good, Over, Owned, Live, IndexBusy, Row
  <2>6. QED
    BY <2>1, <2>2, <2>5, OneRow
<1>4. CASE DeferFails(i)
  <2>1. task[i] = "executing" /\ i \notin cancelReq /\ TerminalWrite(i, "failed")
    BY <1>4 DEF DeferFails, Refused
  <2>2. "failed" \in TERMINAL_STATUSES
    BY StatusWords
  <2>3. QED
    BY <2>1, <2>2, TerminalGood
<1>5. ASSUME NEW v \in TERMINAL_STATUSES, Finish(i, v) PROVE \A k \in Ids : Good(k)
  <2>1. task[i] = "executing" /\ v \in Verdicts(i) /\ TerminalWrite(i, v)
    BY <1>5 DEF Finish
  <2>2. QED
    BY <2>1, CancelledVerdict, TerminalGood
<1>6. ASSUME NEW changed \in Changes, Close(i, changed) PROVE \A k \in Ids : Good(k)
  <2>1. /\ task[i] \in {"succeeded", "closing"} /\ task' = [task EXCEPT ![i] = "none"]
        /\ cancelReq' = cancelReq \ {i}
        /\ UNCHANGED <<unrec, inline, steps, routes, todo, claim, plan>>
        /\ EnqueueFollowups(status, i, i, changed) \/ UNCHANGED <<count, status, op, dep>>
    BY <1>6 DEF Close
  <2>2. Enqueued(status)
    BY <1>0, <2>1, FollowupsEnqueued, KeptEnqueued
  <2>3. QED
    BY <2>1, <2>2, CloseGood
<1>7. ASSUME NEW changed \in Changes, FinishAfterCreate(i, changed) PROVE \A k \in Ids : Good(k)
  <2>1. /\ task[i] = "executing" /\ status[i] = "failed" /\ i \notin cancelReq
        /\ EnqueueFollowups(status, i, 0, changed)
        /\ UNCHANGED <<cancelReq, inline, steps, routes, todo, claim, plan>>
    BY <1>7 DEF FinishAfterCreate
  <2>2. Enqueued(status)
    BY <1>0, <2>1, FollowupsEnqueued
  <2>3. count' \in count..MaxOps /\ count \in Nat
    BY <1>0, <2>2, BoundsAssumption DEF Enqueued
  <2>4. \A k \in Ids : Table(k)
    <3> SUFFICES ASSUME NEW k \in Ids PROVE Table(k)
      OBVIOUS
    <3>1. CASE k <= count
      BY <2>2, <3>1 DEF Enqueued, Table
    <3>2. CASE k > count
      BY <2>2, <3>2 DEF Enqueued, Table
    <3>3. QED
      BY <2>3, <3>1, <3>2, BoundsAssumption DEF Ids
  <2>5. /\ claim # i /\ unrec[i] = NoEntry /\ i \notin inline /\ ~(i > count) /\ i \notin todo
    BY <2>1, LiveRow
  <2>6. i <= count /\ i <= count' /\ ~(i > count')
    BY <2>3, <2>5, BoundsAssumption DEF Ids
  <2>7. status'[i] = "failed" /\ op'[i] = op[i]
    BY <2>1, <2>2, <2>6 DEF Enqueued
  <2>8. CASE task' = [task EXCEPT ![i] = "closing"] /\ UNCHANGED unrec
    <3>1. ASSUME NEW k \in Ids, k # i PROVE Good(k)
      <4>1. Memory(k)
        BY <1>0, <2>1, <2>8, <3>1 DEF Memory
      <4>2. QED
        BY <2>3, <2>4, <4>1, RowElsewhere
    <3>2. task'[i] = "closing"
      BY <1>0, <2>8
    <3>3. Row(i)'
      BY <2>1, <2>5, <2>6, <2>7, <2>8, <3>2 DEF Row, IndexBusy, IsIndex, TERMINAL_STATUSES
    <3>4. Good(i)
      BY <2>1, <2>5, <2>7, <3>2, <3>3 DEF Good, Over, Owned, Live, IndexBusy
    <3>5. QED
      BY <3>1, <3>4
  <2>9. CASE task' = [task EXCEPT ![i] = "none"] /\ Unrecorded(i, "failed", FALSE)
    <3>1. "failed" \in TERMINAL_STATUSES /\ status'[i] = status[i]
      BY <2>1, <2>7, StatusWords
    <3>2. QED
      BY <2>1, <2>3, <2>4, <2>6, <2>7, <2>9, <3>1, UnrecordedGood
  <2>10. QED
    BY <1>7, <2>8, <2>9 DEF FinishAfterCreate
<1>8. ASSUME NEW w \in Words, ServiceWrites(i, w) PROVE \A k \in Ids : Good(k)
  <2>1. /\ task[i] = "executing" /\ op[i].kind \in SERVICE_KINDS
        /\ status' = [status EXCEPT ![i] = w]
        /\ UNCHANGED <<count, op, dep, task, unrec, cancelReq, inline, steps, routes, todo, claim, plan>>
    BY <1>8 DEF ServiceWrites
  <2>2. \A k \in Ids : k # i => status'[k] = status[k] /\ Memory(k)
    BY <1>0, <2>1 DEF Memory
  <2>3. /\ status'[i] = w /\ w \notin {"queued", "absent"} /\ ~IsIndex(i)
        /\ claim # i /\ unrec[i] = NoEntry /\ i \notin inline /\ ~(i > count) /\ i \notin todo
    BY <1>0, <2>1, LiveRow, SettingsAssumption
       DEF IsIndex, SERVICE_KINDS, MAINTENANCE_KINDS, INDEX_KINDS, OUTCOME_STATUSES, SUCCESS_STATUSES
  <2>4. Row(i)'
    BY <2>1, <2>3 DEF Row, IndexBusy, IsIndex
  <2>5. Good(i)
    BY <2>1, <2>3, <2>4 DEF Good, Over, Owned, Live, IndexBusy, IsIndex
  <2>6. QED
    BY <2>1, <2>2, <2>5, OneRow
<1>9. CASE Elapse(i)
  <2>1. UNCHANGED <<count, status, op, dep, task, unrec, cancelReq, inline, steps, routes, todo, claim, plan>>
    BY <1>9 DEF Elapse
  <2>2. \A k \in Ids : Memory(k)
    BY <2>1 DEF Memory
  <2>3. QED
    BY <2>1, <2>2, NoRow
<1>10. QED
  BY <1>1, <1>2, <1>3, <1>4, <1>5, <1>6, <1>7, <1>8, <1>9 DEF TaskStep

\* Errors.
LEMMA GoodFault ==
    ASSUME TypeInv, \A k \in Ids : Row(k), FaultStep
    PROVE  \A k \in Ids : Good(k)
<1> USE DEF rowVars, taskVars, tickVars, procVars, ghosts
<1>0. /\ count \in 0..MaxOps /\ op \in [Ids -> OpType] /\ status \in [Ids -> RowStatus]
      /\ task \in [Ids -> TaskStates] /\ unrec \in [Ids -> EntryType] /\ ClaimInv
      /\ plan \in [Ids -> PlanStates]
  BY DEF TypeInv, TypeOK
<1>n. 0 \notin Ids
  BY BoundsAssumption DEF Ids
<1>1. CASE ClaimLost
  <2>1. /\ claim \in Ids /\ claim' = 0 /\ todo' = {} /\ "claim_lost" \in Env
        /\ UNCHANGED <<count, status, op, dep, task, unrec, cancelReq, inline, steps, routes, plan>>
    BY <1>0, <1>1 DEF ClaimLost, ClaimInv, Fault
  <2>2. \A k \in Ids : k # claim => status'[k] = status[k] /\ Memory(k)
    BY <1>n, <2>1 DEF Memory
  <2>3. PICK i \in Ids : i = claim
    BY <2>1
  <2>4. claim' # i /\ ~Calm
    BY <1>n, <2>1 DEF Calm
  <2>5. Row(i)'
    BY <2>1, <2>3, <2>4 DEF Row, Blank, IndexBusy, IsIndex
  <2>6. Good(i)
    BY <2>1, <2>3, <2>4, <2>5 DEF Good, Over, Live, IndexBusy, IsIndex
  <2>7. QED
    BY <2>1, <2>2, <2>3, <2>6, OneRow
<1>2. CASE TickFails
  <2>1. /\ UNCHANGED <<count, status, op, dep, task, unrec, cancelReq, inline, steps, routes, claim, plan>>
        /\ todo' = {}
    BY <1>2 DEF TickFails
  <2>2. \A k \in Ids : Memory(k)
    BY <2>1 DEF Memory
  <2>3. QED
    BY <2>1, <2>2, NoRow
<1>3. ASSUME NEW i \in Ids, NEW committed \in BOOLEAN, RecordFails(i, committed)
      PROVE  \A k \in Ids : Good(k)
  <2>1. i \in recording /\ unrec[i] # NoEntry /\ ~Live(i)
    BY <1>3 DEF RecordFails, TypeInv, EntriesInv, NoEntry
  <2>2. /\ Recorded(i) \in [Ids -> RowStatus]
        /\ \A k \in Ids : k # i => Recorded(i)[k] = status[k]
        /\ Recorded(i)[i] \in TERMINAL_STATUSES
        /\ i \in cancelReq => Recorded(i)[i] \in {"cancelled", "failed"}
        /\ unrec[i].fallback => Recorded(i)[i] \in {"cancelled", "failed"}
    BY <2>1, RecordedWord
  <2>3. /\ status' = Recorded(i) \/ status' = status
        /\ UNCHANGED <<count, op, dep, task, cancelReq, inline, steps, routes, todo, claim, plan>>
    BY <1>3 DEF RecordFails
  <2>4. \/ unrec' = unrec
        \/ /\ "db_broken" \in Env
           /\ unrec' = [unrec EXCEPT ![i] = NoEntry] \/ unrec' = [unrec EXCEPT ![i].retried = TRUE]
    BY <1>0, <1>3 DEF RecordFails, Fault
  <2>5. \A k \in Ids : k # i => status'[k] = status[k] /\ Memory(k)
    BY <1>0, <2>2, <2>3, <2>4 DEF Memory
  <2>6. \/ unrec'[i].status = unrec[i].status /\ unrec'[i].fallback = unrec[i].fallback
        \/ unrec'[i] = NoEntry
    BY <1>0, <2>4 DEF EntryType
  <2>7. unrec'[i] = NoEntry => "db_broken" \in Env
    <3>1. unrec[i].status # "none"
      BY <1>0, <2>1 DEF TypeInv, EntriesInv
    <3>2. unrec[i] # NoEntry
      BY <2>1
    <3>3. QED
      BY <2>4, <3>2
  <2>8. /\ task[i] = "none" /\ claim # i /\ i \notin inline /\ i \notin todo /\ ~IsIndex(i)
        /\ ~(i > count) /\ status[i] \notin {"queued", "absent"}
        /\ i \in cancelReq => unrec[i].status \in {"cancelled", "failed"}
        /\ unrec[i].fallback => unrec[i].status = "failed" /\ status[i] \in {"running", "cancelled", "failed"}
    BY <2>1 DEF Row, Blank
  <2>9. /\ status'[i] \notin {"queued", "absent"}
        /\ status[i] \in TERMINAL_STATUSES => status'[i] \in TERMINAL_STATUSES
        /\ unrec[i].fallback => status'[i] \in {"running", "cancelled", "failed"}
    BY <2>2, <2>3, <2>8 DEF TERMINAL_STATUSES, SUCCESS_STATUSES
  <2>10. Row(i)'
    <3>1. CASE unrec'[i] = NoEntry
      BY <2>3, <2>8, <2>9, <3>1 DEF Row, IndexBusy, IsIndex
    <3>2. CASE unrec'[i].status = unrec[i].status /\ unrec'[i].fallback = unrec[i].fallback
      BY <2>3, <2>8, <2>9, <3>2 DEF Row, IndexBusy, IsIndex
    <3>3. QED
      BY <2>6, <3>1, <3>2
  <2>11. Good(i)
    <3>1. Calm => unrec'[i] # NoEntry
      BY <2>7 DEF Calm
    <3>2. QED
      BY <2>3, <2>8, <2>9, <2>10, <3>1 DEF Good, Over, Owned, Live, IndexBusy, IsIndex
  <2>12. QED
    BY <2>3, <2>5, <2>11, OneRow
<1>4. ASSUME NEW i \in Ids, BeginFails(i) PROVE \A k \in Ids : Good(k)
  <2>1. /\ task[i] = "created" /\ task' = [task EXCEPT ![i] = "none"] /\ Unrecorded(i, "failed", TRUE)
        /\ UNCHANGED <<count, status, op, dep, cancelReq, inline, steps, routes, todo, claim, plan>>
    BY <1>4 DEF BeginFails
  <2>2. "failed" \in TERMINAL_STATUSES
    BY StatusWords
  <2>3. count' \in count..MaxOps /\ \A k \in Ids : Table(k) /\ (k <= count => k <= count')
    BY <2>1, TableKept
  <2>4. QED
    BY <2>1, <2>2, <2>3, UnrecordedGood
<1>5. ASSUME NEW i \in Ids, NEW v \in TERMINAL_STATUSES, FinishFails(i, v) PROVE \A k \in Ids : Good(k)
  <2>1. /\ task[i] = "executing" /\ v \in Verdicts(i)
        /\ task' = [task EXCEPT ![i] = "none"] /\ Unrecorded(i, v, FALSE)
        /\ UNCHANGED <<count, status, op, dep, cancelReq, inline, steps, routes, todo, claim, plan>>
    BY <1>5 DEF FinishFails
  <2>2. i \in cancelReq => v \in {"cancelled", "failed"}
    BY <2>1, CancelledVerdict
  <2>3. count' \in count..MaxOps /\ \A k \in Ids : Table(k) /\ (k <= count => k <= count')
    BY <2>1, TableKept
  <2>4. QED
    BY <2>1, <2>2, <2>3, UnrecordedGood
<1>6. ASSUME NEW i \in Ids, CloseFails(i) PROVE \A k \in Ids : Good(k)
  <2>1. /\ task[i] \in {"succeeded", "closing"} /\ task' = [task EXCEPT ![i] = "none"]
        /\ cancelReq' = cancelReq \ {i}
        /\ UNCHANGED <<count, status, op, dep, unrec, inline, steps, routes, todo, claim, plan>>
    BY <1>6 DEF CloseFails
  <2>2. QED
    BY <2>1, KeptEnqueued, CloseGood
<1>7. ASSUME NEW j \in Ids, InlineFinishFails(j) PROVE \A k \in Ids : Good(k)
  <2>1. /\ steps' = steps \ {j} /\ "db_broken" \in Env
        /\ UNCHANGED <<count, status, op, dep, task, unrec, cancelReq, inline, routes, todo, claim>>
        /\ \A k \in Ids : plan'[k] # "none" => plan[k] # "none"
    BY <1>0, <1>7 DEF InlineFinishFails, Fault
  <2>2. \A k \in Ids : k # j => status'[k] = status[k] /\ Memory(k)
    BY <2>1 DEF Memory
  <2>3. ~Calm
    BY <2>1 DEF Calm
  <2>4. Row(j)'
    BY <2>1 DEF Row, Blank, IndexBusy, IsIndex
  <2>5. Good(j)
    BY <2>1, <2>3, <2>4 DEF Good, Over, Live, IndexBusy, IsIndex
  <2>6. QED
    BY <2>1, <2>2, <2>5, OneRow
<1>8. QED
  BY <1>1, <1>2, <1>3, <1>4, <1>5, <1>6, <1>7 DEF FaultStep

\* Plan runs.
LEMMA GoodPlan ==
    ASSUME TypeInv, \A k \in Ids : Row(k), PlanStep
    PROVE  \A k \in Ids : Good(k)
<1> USE DEF rowVars, taskVars, tickVars, procVars, ghosts
<1>0. /\ count \in 0..MaxOps /\ op \in [Ids -> OpType] /\ status \in [Ids -> RowStatus]
      /\ dep \in [Ids -> 0..MaxOps] /\ plan \in [Ids -> PlanStates] /\ steps \subseteq inline
      /\ inline \subseteq Ids
  BY DEF TypeInv, TypeOK
<1>1. ASSUME NEW b \in Ids, PlanEnds(b) PROVE \A k \in Ids : Good(k)
  <2>1. /\ UNCHANGED <<count, status, op, dep, task, unrec, cancelReq, inline, steps, routes, todo, claim>>
        /\ \A k \in Ids : plan'[k] # "none" => plan[k] # "none"
    BY <1>0, <1>1 DEF PlanEnds
  <2>2. \A k \in Ids : Memory(k)
    BY <2>1 DEF Memory
  <2>3. QED
    BY <2>1, <2>2, NoRow
<1>2. ASSUME NEW b \in Ids, WaiterAsks(b) PROVE \A k \in Ids : Good(k)
  <2>1. /\ CancelEffect(b)
        /\ UNCHANGED <<count, op, dep, task, unrec, todo, claim, routes, inline, steps>>
        /\ \A k \in Ids : plan'[k] # "none" => plan[k] # "none"
    BY <1>0, <1>2 DEF WaiterAsks
  <2>2. QED
    BY <2>1, CancelGood
<1>3. ASSUME NEW b \in Ids, NEW kind \in InlineKinds, InlineStart(b, kind) PROVE \A k \in Ids : Good(k)
  <2>1. /\ count < MaxOps /\ count' = count + 1
        /\ status' = [status EXCEPT ![count + 1] = "running"]
        /\ op' = [op EXCEPT ![count + 1] = [kind |-> kind, repo |-> op[b].repo,
                                            trigger |-> op[b].trigger, run |-> op[b].run]]
        /\ dep' = [dep EXCEPT ![count + 1] = b]
        /\ inline' = inline \cup {count + 1} /\ steps' = steps \cup {count + 1}
        /\ UNCHANGED <<task, unrec, cancelReq, routes, todo, claim, plan>>
    BY <1>3 DEF InlineStart
  <2>2. PICK n \in Ids : n = count + 1
    BY <1>0, <2>1, BoundsAssumption DEF Ids
  <2>3. /\ \A k \in Ids : k # n => /\ status'[k] = status[k] /\ op'[k] = op[k] /\ dep'[k] = dep[k]
                                   /\ Memory(k)
        /\ status'[n] = "running" /\ op'[n].kind = kind /\ n \in inline' /\ n \in steps'
    BY <1>0, <2>1, <2>2 DEF Memory
  <2>4. count' \in count..MaxOps /\ n = count' /\ n > count /\ ~(n > count')
    BY <1>0, <2>1, <2>2, BoundsAssumption
  <2>5. ASSUME NEW k \in Ids, k # n PROVE Good(k)
    <3>1. Table(k)
      BY <1>0, <2>1, <2>2, <2>3, <2>5, BoundsAssumption DEF Table, Ids
    <3>2. QED
      BY <2>3, <2>4, <2>5, <3>1, RowElsewhere
  <2>6. Blank(n)
    BY <2>4 DEF Row
  <2>7. kind \notin INDEX_KINDS
    BY SettingsAssumption DEF INDEX_KINDS, MAINTENANCE_KINDS
  <2>8. Row(n)'
    BY <2>1, <2>3, <2>4, <2>6 DEF Row, Blank, IndexBusy
  <2>9. Good(n)
    BY <2>1, <2>3, <2>4, <2>6, <2>8
       DEF Good, Blank, Over, Owned, IndexBusy, TERMINAL_STATUSES, SUCCESS_STATUSES
  <2>10. QED
    BY <2>5, <2>9
<1>4. ASSUME NEW j \in steps, NEW w \in Words, InlineVerdict(j, w) PROVE \A k \in Ids : Good(k)
  <2>1. /\ status[j] = "running" /\ status' = [status EXCEPT ![j] = w]
        /\ UNCHANGED <<count, op, dep, task, unrec, cancelReq, inline, steps, routes, todo, claim, plan>>
    BY <1>4 DEF InlineVerdict
  <2>2. j \in Ids /\ j \in inline
    BY <1>0
  <2>3. \A k \in Ids : k # j => status'[k] = status[k] /\ Memory(k)
    BY <1>0, <2>1, <2>2 DEF Memory
  <2>4. status'[j] = w /\ w \notin {"queued", "absent", "running"}
    BY <1>0, <2>1, <2>2, SettingsAssumption DEF OUTCOME_STATUSES, SUCCESS_STATUSES
  <2>5. Row(j)'
    BY <2>1, <2>2, <2>4 DEF Row, Blank, IndexBusy, IsIndex
  <2>6. Good(j)
    BY <2>1, <2>2, <2>4, <2>5 DEF Good, Over, Owned, Row, IndexBusy, TERMINAL_STATUSES, SUCCESS_STATUSES
  <2>7. QED
    BY <2>1, <2>2, <2>3, <2>6, OneRow
<1>5. ASSUME NEW j \in steps, InlineFinish(j) \/ InlineRaises(j) PROVE \A k \in Ids : Good(k)
  <2>0. j \in Ids /\ j \in inline
    BY <1>0
  <2>1. /\ steps' = steps \ {j}
        /\ UNCHANGED <<task, unrec, cancelReq, inline, routes, todo, claim>>
        /\ \A k \in Ids : plan'[k] # "none" => plan[k] # "none"
    BY <1>0, <1>5 DEF InlineFinish, InlineRaises
  <2>2. \A k \in Ids : k # j => Memory(k)
    BY <2>1 DEF Memory
  <2>3. CASE Enqueued(status) /\ (Calm => status[j] # "running")
    <3>1. count' \in count..MaxOps /\ count \in Nat
      BY <1>0, <2>3, BoundsAssumption DEF Enqueued
    <3>2. ASSUME NEW k \in Ids PROVE Table(k)
      <4>1. CASE k <= count
        BY <2>3, <4>1 DEF Enqueued, Table
      <4>2. CASE k > count
        BY <2>3, <4>2 DEF Enqueued, Table
      <4>3. QED
        BY <3>1, <4>1, <4>2, BoundsAssumption DEF Ids
    <3>3. ~(j > count) /\ status[j] \notin {"queued", "absent"}
      BY <2>0 DEF Row, Blank
    <3>4. j <= count /\ ~(j > count') /\ j <= count'
      BY <2>0, <3>1, <3>3, BoundsAssumption DEF Ids
    <3>5. status'[j] = status[j] /\ op'[j] = op[j] /\ dep'[j] = dep[j]
      BY <2>0, <2>3, <3>3, <3>4 DEF Enqueued
    <3>6. Row(j)'
      BY <2>0, <2>1, <3>4, <3>5 DEF Row, IndexBusy, IsIndex
    <3>7. Good(j)
      BY <2>0, <2>1, <2>3, <3>4, <3>5, <3>6 DEF Good, Over, Owned, Live, IndexBusy, IsIndex
    <3>8. ASSUME NEW k \in Ids, k # j PROVE Good(k)
      BY <2>2, <3>1, <3>2, <3>8, RowElsewhere
    <3>9. QED
      BY <3>7, <3>8
  <2>4. CASE /\ UNCHANGED <<count, op, dep>>
             /\ status' = [status EXCEPT ![j] = IF @ = "running" THEN "failed" ELSE @]
    <3>1. /\ \A k \in Ids : k # j => status'[k] = status[k]
          /\ status'[j] = IF status[j] = "running" THEN "failed" ELSE status[j]
      BY <1>0, <2>0, <2>4
    <3>2. Row(j)'
      BY <2>0, <2>1, <2>4, <3>1 DEF Row, Blank, IndexBusy, IsIndex
    <3>3. Good(j)
      BY <2>0, <2>1, <2>4, <3>1, <3>2 DEF Good, Over, Owned, Live, Row, IndexBusy, TERMINAL_STATUSES
    <3>4. QED
      BY <2>0, <2>2, <2>4, <3>1, <3>3, OneRow
  <2>5. ASSUME InlineFinish(j), status[j] \in SUCCESS_STATUSES PROVE Enqueued(status) /\ status[j] # "running"
    <3>1. EnqueueFollowups(status, j, j, FALSE)
      BY <2>5 DEF InlineFinish
    <3>2. QED
      BY <1>0, <2>0, <2>5, <3>1, FollowupsEnqueued DEF SUCCESS_STATUSES
  <2>6. ASSUME UNCHANGED <<count, status, op, dep>>, op[j].repo \in AgentRepos \/ "db_broken" \in Env
        PROVE  Enqueued(status) /\ (Calm => status[j] # "running")
    <3>1. op[j].kind \in InlineKinds
      BY <2>0 DEF Row
    <3>2. ~Calm
      BY <2>6, <3>1 DEF Calm
    <3>3. QED
      BY <2>6, <3>2, KeptEnqueued
  <2>7. QED
    <3>1. CASE InlineFinish(j)
      BY <2>3, <2>4, <2>5, <3>1 DEF InlineFinish
    <3>2. CASE InlineRaises(j)
      <4>1. /\ UNCHANGED <<count, op, dep>>
            /\ \/ status' = [status EXCEPT ![j] = IF @ = "running" THEN "failed" ELSE @]
               \/ UNCHANGED status /\ (op[j].repo \in AgentRepos \/ "db_broken" \in Env)
        BY <3>2 DEF InlineRaises, Fault
      <4>2. QED
        BY <2>3, <2>4, <2>6, <4>1
    <3>3. QED
      BY <1>5, <3>1, <3>2
<1>6. QED
  BY <1>1, <1>2, <1>3, <1>4, <1>5 DEF PlanStep

\* Shutdown, death and restart.
LEMMA GoodProcess ==
    ASSUME TypeInv, RowInv, ProcessStep
    PROVE  \A k \in Ids : Good(k)
<1> USE DEF rowVars, taskVars, tickVars, procVars, ghosts
<1>0. /\ count \in 0..MaxOps /\ op \in [Ids -> OpType] /\ status \in [Ids -> RowStatus]
      /\ task \in [Ids -> TaskStates] /\ ClaimInv /\ cancelReq \subseteq Ids
  BY DEF TypeInv, TypeOK
<1>r. \A k \in Ids : Row(k)
  BY DEF RowInv
<1>n. 0 \notin Ids
  BY BoundsAssumption DEF Ids
<1>1. CASE Stop \/ \E i \in Ids : SurvivorExits(i)
  <2>1. UNCHANGED <<count, status, op, dep, task, unrec, cancelReq, inline, steps, routes, todo, claim, plan>>
    BY <1>1 DEF Stop, SurvivorExits
  <2>2. \A k \in Ids : Memory(k)
    BY <2>1 DEF Memory
  <2>3. QED
    BY <1>r, <2>1, <2>2, NoRow
<1>2. CASE Drain
  <2> SUFFICES ASSUME NEW k \in Ids PROVE Good(k)
    OBVIOUS
  <2>1. /\ status'[k] = IF Live(k) /\ status[k] = "queued" THEN "cancelled" ELSE status[k]
        /\ k \in cancelReq' <=> k \in cancelReq \/ (Live(k) /\ status[k] = "running")
        /\ UNCHANGED <<count, op, dep, task, unrec, inline, steps, routes, todo, claim, plan>>
    BY <1>2 DEF Drain
  <2>2. Row(k)
    BY <1>r
  <2>3. Row(k)'
    BY <2>1, <2>2 DEF Row, Blank, IndexBusy, IsIndex, Live, TERMINAL_STATUSES, SUCCESS_STATUSES
  <2>4. QED
    BY <2>1, <2>2, <2>3 DEF Good, Over, Owned, Live, IndexBusy, IsIndex
<1>3. CASE DrainTimeout
  <2> SUFFICES ASSUME NEW k \in Ids PROVE Good(k)
    OBVIOUS
  <2>1. /\ status'[k] = IF task[k] = "executing" THEN "cancelled" ELSE status[k]
        /\ task'[k] = IF task[k] = "created" THEN "created" ELSE "none"
        /\ k \in cancelReq' <=> k \in cancelReq /\ task[k] \in {"none", "created", "deferring"}
        /\ UNCHANGED <<count, op, dep, unrec, inline, steps, routes, todo, claim, plan>>
    BY <1>3 DEF DrainTimeout
  <2>2. Row(k) /\ task[k] \in TaskStates
    BY <1>0, <1>r
  <2>3. Row(k)'
    <3>1. CASE task[k] = "executing"
      <4>1. /\ claim # k /\ unrec[k] = NoEntry /\ k \notin inline /\ ~(k > count) /\ k \notin todo
        BY <2>2, <3>1, LiveRow
      <4>2. QED
        BY <2>1, <2>2, <3>1, <4>1 DEF Row, IndexBusy, IsIndex
    <3>2. CASE task[k] # "executing"
      BY <2>1, <2>2, <3>2 DEF Row, Blank, IndexBusy, IsIndex, TaskStates, TERMINAL_STATUSES, SUCCESS_STATUSES
    <3>3. QED
      BY <3>1, <3>2
  <2>4. /\ task[k] \in {"succeeded", "closing", "deferring"} => status[k] # "running"
        /\ k \in cancelReq => /\ task[k] \notin {"succeeded", "deferring"}
                              /\ task[k] = "closing" => status[k] \in {"cancelled", "failed"}
    BY <2>2 DEF Row, TERMINAL_STATUSES, SUCCESS_STATUSES
  <2>5. Over(k) => Over(k)'
    BY <2>1 DEF Over, Live
  <2>6. Owned(k) => Owned(k)'
    BY <2>1, <2>2, <2>4 DEF Owned, Live, IsIndex, TaskStates
  <2>7. k \in cancelReq /\ k \notin cancelReq' => status'[k] \in {"cancelled", "failed"}
    BY <2>1, <2>2, <2>4 DEF TaskStates
  <2>8. IndexBusy(k)' => IndexBusy(k) /\ op'[k] = op[k]
    BY <2>1 DEF IndexBusy, IsIndex
  <2>9. QED
    BY <2>1, <2>3, <2>5, <2>6, <2>7, <2>8 DEF Good
<1>4. ASSUME NEW alive \in SUBSET Ids, Crash(alive) PROVE \A k \in Ids : Good(k)
  <2> SUFFICES ASSUME NEW k \in Ids PROVE Good(k)
    OBVIOUS
  <2>1. /\ task'[k] = "none" /\ unrec'[k] = NoEntry /\ cancelReq' = {} /\ todo' = {} /\ claim' = 0
        /\ routes' = {} /\ plan'[k] = "none" /\ phase' = "down"
        /\ UNCHANGED <<count, status, op, dep, inline>>
        /\ crashes < MaxCrashes
    BY <1>4 DEF Crash
  <2>2. Row(k) /\ claim' # k
    BY <1>r, <1>n, <2>1
  <2>3. ~Calm
    <3>1. crashes \in 0..MaxCrashes
      BY DEF TypeInv, TypeOK
    <3>2. QED
      BY <2>1, <3>1 DEF Calm
  <2>4. Row(k)'
    BY <2>1, <2>2 DEF Row, Blank, IndexBusy
  <2>5. QED
    BY <2>1, <2>2, <2>3, <2>4 DEF Good, Over, Live, IndexBusy
<1>5. CASE Restart
  <2> SUFFICES ASSUME NEW k \in Ids PROVE Good(k)
    OBVIOUS
  <2>1. /\ phase = "down" /\ cancelReq = {} /\ todo = {} /\ routes = {}
        /\ task[k] = "none" /\ unrec[k] = NoEntry /\ plan[k] = "none" /\ claim = 0
    BY <1>0, <1>5 DEF Restart, RowInv, Down, ClaimInv
  <2>2. UNCHANGED <<count, op, dep, task, unrec, cancelReq, inline, steps, routes, todo, claim, plan>>
    BY <1>5 DEF Restart
  <2>3. Row(k) /\ claim # k
    BY <1>r, <1>n, <2>1
  <2>4. /\ status'[k] = status[k] \/ (status[k] = "running" /\ status'[k] \in {"queued", "failed"})
        /\ status'[k] = "queued" /\ status[k] # "queued" => IsIndex(k)
    BY <1>5 DEF Restart, RecoverIndexRows
  <2>5. InlineKinds \cap INDEX_KINDS = {}
    BY SettingsAssumption DEF INDEX_KINDS, MAINTENANCE_KINDS
  <2>6. Row(k)'
    BY <2>1, <2>2, <2>3, <2>4, <2>5 DEF Row, Blank, IndexBusy, IsIndex
  <2>7. QED
    BY <2>1, <2>2, <2>3, <2>4, <2>6
       DEF Good, Over, Owned, Live, IndexBusy, IsIndex, TERMINAL_STATUSES, SUCCESS_STATUSES
<1>6. QED
  BY <1>1, <1>2, <1>3, <1>4, <1>5 DEF ProcessStep

\* A process that is down does nothing but start, and it goes down empty.
LEMMA DownStep ==
    ASSUME TypeInv, Down, Next
    PROVE  Down'
<1> USE DEF rowVars, taskVars, tickVars, procVars, ghosts
<1> SUFFICES ASSUME phase' = "down"
             PROVE  /\ cancelReq' = {} /\ todo' = {} /\ routes' = {} /\ steps' = {} /\ shutdown' = "no"
                    /\ \A i \in Ids : task'[i] = "none" /\ unrec'[i] = NoEntry /\ plan'[i] = "none"
  BY DEF Down
<1>a. steps \subseteq Ids /\ plan \in [Ids -> PlanStates]
  BY DEF TypeInv, TypeOK
<1>d. phase = "down" => /\ cancelReq = {} /\ todo = {} /\ routes = {} /\ steps = {} /\ shutdown = "no"
                        /\ \A i \in Ids : task[i] = "none" /\ unrec[i] = NoEntry /\ plan[i] = "none"
  BY DEF Down
<1>1. CASE TickStep
  BY <1>1 DEF TickStep, TickStart, Sweep, Load, Dispatch, TickEnd, RecordOutcome, Skip, Claim, NextCandidate
<1>2. CASE RequestStep
  <2>1. phase = "down"
    BY <1>2 DEF RequestStep, Submit, ImportConnect, Reconcile, RequestCancel, CancelRun, CancelRouteAsks,
                CancelRouteWrites
  <2>2. QED
    BY <1>2, <1>d, <2>1 DEF RequestStep, Submit, ImportConnect, Reconcile, RequestCancel, CancelRun,
                            CancelRouteAsks, CancelRouteWrites
<1>3. ASSUME NEW i \in Ids, TaskStep(i) \/ \E w \in Words : ServiceWrites(i, w) PROVE FALSE
  <2>1. phase' = phase /\ task[i] # "none"
    BY <1>3 DEF TaskStep, ServiceWrites, Begin, Defer, DeferDone, DeferFails, Refused, Finish, Close,
                FinishAfterCreate, TerminalWrite
  <2>2. QED
    BY <1>d, <2>1
<1>4. ASSUME NEW i \in Ids, Elapse(i)
      PROVE  UNCHANGED <<phase, cancelReq, todo, routes, steps, shutdown, task, unrec, plan>>
  BY <1>4 DEF Elapse
<1>5. CASE FaultStep
  <2>1. ASSUME NEW i \in Ids, BeginFails(i) \/ CloseFails(i) \/ \E v \in TERMINAL_STATUSES : FinishFails(i, v)
        PROVE  FALSE
    <3>1. phase' = phase /\ task[i] # "none"
      BY <2>1 DEF BeginFails, CloseFails, FinishFails
    <3>2. QED
      BY <1>d, <3>1
  <2>2. ASSUME NEW i \in Ids, InlineFinishFails(i) PROVE FALSE
    BY <1>d, <2>2 DEF InlineFinishFails
  <2>3. ASSUME NEW i \in Ids, NEW committed \in BOOLEAN, RecordFails(i, committed) PROVE FALSE
    BY <2>3 DEF RecordFails
  <2>4. ~ClaimLost /\ ~TickFails
    BY DEF ClaimLost, TickFails
  <2>5. QED
    BY <1>5, <2>1, <2>2, <2>3, <2>4 DEF FaultStep
<1>6. CASE PlanStep
  <2>1. ASSUME NEW b \in Ids, PlanEnds(b) \/ WaiterAsks(b) \/ \E k \in InlineKinds : InlineStart(b, k)
        PROVE  FALSE
    <3>1. phase' = phase /\ plan[b] # "none"
      BY <2>1 DEF PlanEnds, WaiterAsks, InlineStart, Waiting
    <3>2. QED
      BY <1>d, <3>1
  <2>2. ASSUME NEW j \in steps, (\E w \in Words : InlineVerdict(j, w)) \/ InlineFinish(j) \/ InlineRaises(j)
        PROVE  FALSE
    <3>1. phase' = phase
      BY <2>2 DEF InlineVerdict, InlineFinish, InlineRaises
    <3>2. QED
      BY <1>d, <3>1
  <2>3. QED
    BY <1>6, <2>1, <2>2 DEF PlanStep
<1>7. CASE ProcessStep
  <2>1. ASSUME NEW alive \in SUBSET Ids, Crash(alive)
        PROVE  /\ cancelReq' = {} /\ todo' = {} /\ routes' = {} /\ steps' = {} /\ shutdown' = "no"
               /\ \A i \in Ids : task'[i] = "none" /\ unrec'[i] = NoEntry /\ plan'[i] = "none"
    BY <2>1 DEF Crash
  <2>2. ASSUME NEW i \in Ids, SurvivorExits(i)
        PROVE  UNCHANGED <<phase, cancelReq, todo, routes, steps, shutdown, task, unrec, plan>>
    BY <2>2 DEF SurvivorExits
  <2>3. ~Stop /\ ~Drain /\ ~DrainTimeout /\ ~Restart
    BY <1>d DEF Stop, Drain, DrainTimeout, Restart
  <2>4. QED
    BY <1>7, <1>d, <2>1, <2>2, <2>3 DEF ProcessStep
<1>8. QED
  BY <1>1, <1>2, <1>3, <1>4, <1>5, <1>6, <1>7, <1>d DEF Next

\* What every step does to every row.
LEMMA RowStep ==
    ASSUME TypeInv, RowInv, [Next]_vars
    PROVE  RowInv' /\ \A k \in Ids : Good(k)
<1>r. Down /\ \A k \in Ids : Row(k)
  BY DEF RowInv
<1>1. CASE UNCHANGED vars
  <2>1. /\ UNCHANGED <<count, status, op, dep, task, unrec, cancelReq, inline, steps, routes, todo, claim,
                       plan>>
        /\ UNCHANGED <<phase, shutdown>>
    BY <1>1 DEF vars, rowVars, taskVars, tickVars, procVars, ghosts
  <2>2. \A k \in Ids : Memory(k)
    BY <2>1 DEF Memory
  <2>3. \A k \in Ids : Good(k)
    BY <1>r, <2>1, <2>2, NoRow
  <2>4. Down'
    BY <1>r, <2>1 DEF Down
  <2>5. QED
    BY <2>3, <2>4 DEF RowInv, Good
<1>2. CASE Next
  <2>1. \A k \in Ids : Good(k)
    BY <1>2, <1>r, GoodTick, GoodPlan, GoodFault, GoodRequest, GoodProcess, GoodTask DEF Next
  <2>2. Down'
    BY <1>2, <1>r, DownStep
  <2>3. QED
    BY <2>1, <2>2 DEF RowInv, Good
<1>3. QED
  BY <1>1, <1>2

\* The invariants of rows hold in every reachable state.
LEMMA RowInvAlways == Spec => [](TypeInv /\ RowInv)
<1>1. Init => RowInv
  BY BoundsAssumption DEF Init, RowInv, Down, Row, Blank, IndexBusy, Ids
<1>2. TypeInv /\ RowInv /\ [Next]_vars => (TypeInv /\ RowInv)'
  BY TypeNext, RowStep
<1>3. QED
  BY <1>1, <1>2, TypeInit, PTL DEF Spec

\* An accepted cancel ends in a cancelled or failed row and the row never goes
\* back to the queue, wherever the flag was met: by a task, by the sweep of
\* index rows, by an outcome recorded late, by a drain that timed out
\* (request_cancel, run_operation, record_unrecorded_outcomes).
THEOREM CancelHonouredAlways == Spec => CancelHonoured
<1>1. TypeInv /\ RowInv /\ [Next]_vars =>
          [phase' # "down" =>
              \A i \in cancelReq :
                  /\ i \notin cancelReq' => status'[i] \in {"cancelled", "failed"}
                  /\ status'[i] = "queued" => status[i] = "queued"]_vars
  <2> SUFFICES ASSUME TypeInv, RowInv, [Next]_vars, phase' # "down", NEW i \in cancelReq
               PROVE  /\ i \notin cancelReq' => status'[i] \in {"cancelled", "failed"}
                      /\ status'[i] # "queued"
    OBVIOUS
  <2>1. i \in Ids
    BY DEF TypeInv, TypeOK
  <2>2. Good(i)
    BY <2>1, RowStep
  <2>3. i \notin cancelReq' => status'[i] \in {"cancelled", "failed"}
    BY <2>2 DEF Good
  <2>4. i \in cancelReq' => status'[i] # "queued"
    BY <2>2 DEF Good, Row
  <2>5. QED
    BY <2>3, <2>4
<1>2. QED
  BY <1>1, RowInvAlways, PTL DEF Spec, CancelHonoured

\* A claimed or running shared index kind is alone on its repository: whatever
\* is busy reads running (Row), and the claim looks at the rows that read so
\* (can_start).
THEOREM IndexSerialAlways == Spec => []IndexSerial
<1>1. Init => IndexSerial
  BY BoundsAssumption DEF Init, IndexSerial, IndexBusy, Ids
<1>2. TypeInv /\ RowInv /\ IndexSerial /\ [Next]_vars => IndexSerial'
  <2> SUFFICES ASSUME TypeInv, RowInv, IndexSerial, [Next]_vars, NEW i \in Ids, NEW j \in Ids, i # j,
                      IndexBusy(i)', IndexBusy(j)', op'[i].repo # NoRepo,
                      op'[i].kind \in SHARED_INDEX_KINDS, op'[j].kind \in SHARED_INDEX_KINDS
               PROVE  op'[i].repo # op'[j].repo
    BY DEF IndexSerial
  <2>1. Good(i) /\ Good(j) /\ Row(i) /\ Row(j)
    BY RowStep DEF RowInv
  <2>2. ASSUME NEW a \in Ids, NEW b \in Ids, a # b, Claim(a), Good(b), Row(b), IndexBusy(b)',
               op'[a].repo # NoRepo, op'[a].kind \in SHARED_INDEX_KINDS, op'[b].kind \in SHARED_INDEX_KINDS
        PROVE  op'[a].repo # op'[b].repo
    <3>1. ~Claim(b)
      <4>1. claim' = a
        BY <2>2 DEF Claim
      <4>2. QED
        BY <2>2, <4>1 DEF Claim
    <3>2. IndexBusy(b) /\ op' = op
      BY <2>2, <3>1 DEF Good, Claim
    <3>3. status[b] = "running"
      BY <2>2, <3>2 DEF Row
    <3>4. CanStart(a) /\ IsIndex(a)
      <4>1. Startable(a)
        BY <2>2 DEF Claim, NextCandidate, Passed
      <4>2. IsIndex(a)
        BY <2>2, <3>2 DEF IsIndex, SHARED_INDEX_KINDS
      <4>3. QED
        BY <4>1, <4>2 DEF Startable
    <3>5. ~IndexRunning(op[a].repo)
      BY <2>2, <3>2, <3>4 DEF CanStart
    <3>6. QED
      BY <2>2, <3>2, <3>3, <3>5 DEF IndexRunning, RunningOn
  <2>3. CASE Claim(i)
    BY <2>1, <2>2, <2>3
  <2>4. CASE Claim(j)
    <3>1. CASE op'[j].repo = NoRepo
      BY <3>1
    <3>2. CASE op'[j].repo # NoRepo
      BY <2>1, <2>2, <2>4, <3>2
    <3>3. QED
      BY <3>1, <3>2
  <2>5. CASE ~Claim(i) /\ ~Claim(j)
    BY <2>1, <2>5 DEF Good, IndexSerial
  <2>6. QED
    BY <2>3, <2>4, <2>5
<1>3. QED
  BY <1>1, <1>2, RowInvAlways, PTL DEF Spec

-----------------------------------------------------------------------------
(* The steps a plan runs itself. *)

\* The rows a plan created hang on a backup that is over, and the plan runs
\* one of them at a time.
StepInv ==
    /\ \A j \in inline : dep[j] \in Ids /\ Over(dep[j])
    /\ \A j, k \in steps : dep[j] = dep[k] => j = k

\* Only start_inline_maintenance creates such a row.
LEMMA StepsGrow ==
    ASSUME [Next]_vars
    PROVE  \/ inline' = inline /\ steps' \subseteq steps
           \/ \E b \in Ids : \E k \in InlineKinds : InlineStart(b, k)
<1> USE DEF rowVars, taskVars, tickVars, procVars, ghosts
<1>1. TickStep => UNCHANGED <<inline, steps>>
  BY DEF TickStep, TickStart, Sweep, Load, Dispatch, TickEnd, RecordOutcome, Skip, Claim
<1>2. RequestStep => UNCHANGED <<inline, steps>>
  BY DEF RequestStep, Submit, ImportConnect, Reconcile, RequestCancel, CancelRun, CancelRouteAsks,
         CancelRouteWrites
<1>3. ASSUME NEW i \in Ids, TaskStep(i) \/ Elapse(i) \/ \E w \in Words : ServiceWrites(i, w)
      PROVE  UNCHANGED <<inline, steps>>
  BY <1>3 DEF TaskStep, Elapse, ServiceWrites, Begin, Defer, DeferDone, DeferFails, Finish, Close,
              FinishAfterCreate, TerminalWrite
<1>4. FaultStep => inline' = inline /\ steps' \subseteq steps
  BY DEF FaultStep, ClaimLost, TickFails, RecordFails, BeginFails, CloseFails, FinishFails, InlineFinishFails
<1>5. ProcessStep => inline' = inline /\ steps' \subseteq steps
  BY DEF ProcessStep, Stop, Drain, DrainTimeout, Crash, Restart, SurvivorExits
<1>6. PlanStep => \/ inline' = inline /\ steps' \subseteq steps
                  \/ \E b \in Ids : \E k \in InlineKinds : InlineStart(b, k)
  BY DEF PlanStep, PlanEnds, WaiterAsks, InlineVerdict, InlineFinish, InlineRaises
<1>7. QED
  BY <1>1, <1>2, <1>3, <1>4, <1>5, <1>6 DEF Next, vars

\* A plan's step never runs beside the backup it follows or beside another
\* step of the run, although a service, a cancel route or a late record may
\* write the backup's row at any time (wait_for_backup_operation,
\* _run_maintenance, start_inline_maintenance).
THEOREM StepAfterBackupAlways == Spec => []StepAfterBackup
<1>1. Init => StepInv
  BY DEF Init, StepInv
<1>2. TypeInv /\ RowInv /\ StepInv /\ [Next]_vars => StepInv'
  <2> SUFFICES ASSUME TypeInv, RowInv, StepInv, [Next]_vars PROVE StepInv'
    OBVIOUS
  <2>0. /\ steps \subseteq inline /\ inline \subseteq Ids /\ count \in 0..MaxOps /\ dep \in [Ids -> 0..MaxOps]
        /\ \A k \in Ids : Good(k) /\ Row(k)
    BY RowStep DEF TypeInv, TypeOK, RowInv
  <2>1. ASSUME NEW j \in inline PROVE dep'[j] = dep[j] /\ dep'[j] \in Ids /\ Over(dep[j])'
    <3>1. dep'[j] = dep[j] /\ dep[j] \in Ids /\ Over(dep[j])
      BY <2>0 DEF Good, StepInv
    <3>2. PICK b \in Ids : b = dep[j]
      BY <3>1
    <3>3. Over(b)'
      BY <2>0, <3>1, <3>2 DEF Good
    <3>4. QED
      BY <3>1, <3>2, <3>3
  <2>2. CASE inline' = inline /\ steps' \subseteq steps
    BY <2>0, <2>1, <2>2 DEF StepInv
  <2>3. ASSUME NEW b \in Ids, NEW kind \in InlineKinds, InlineStart(b, kind) PROVE StepInv'
    <3>1. /\ Waiting(b) /\ NextInline(b, kind) /\ count < MaxOps
          /\ dep' = [dep EXCEPT ![count + 1] = b]
          /\ inline' = inline \cup {count + 1} /\ steps' = steps \cup {count + 1}
      BY <2>3 DEF InlineStart
    <3>2. count + 1 \in Ids /\ dep'[count + 1] = b
      BY <2>0, <3>1, BoundsAssumption DEF Ids
    <3>3. claim # b
      <4>1. CASE status[b] \in SUCCESS_STATUSES
        BY <2>0, <4>1 DEF Row, SUCCESS_STATUSES
      <4>2. CASE status[b] \notin SUCCESS_STATUSES
        <5>1. PICK j \in inline : dep[j] = b
          BY <3>1, <4>2 DEF NextInline, StepsOf
        <5>2. QED
          BY <5>1 DEF StepInv, Over
      <4>3. QED
        BY <4>1, <4>2
    <3>4. Over(b)
      <4>1. status[b] \in TERMINAL_STATUSES /\ ~Live(b)
        BY <3>1 DEF Waiting
      <4>2. ~(b > count)
        BY <2>0, <4>1 DEF Row, Blank, TERMINAL_STATUSES, SUCCESS_STATUSES
      <4>3. QED
        BY <2>0, <3>3, <4>1, <4>2, BoundsAssumption DEF Over, Ids
    <3>5. Over(b)'
      BY <2>0, <3>4 DEF Good
    <3>6. \A j \in steps : dep[j] # b
      BY <2>0, <3>1 DEF Waiting, StepsOf
    <3>7. ASSUME NEW j \in inline' PROVE dep'[j] \in Ids /\ Over(dep[j])'
      <4>1. CASE j = count + 1
        BY <3>2, <3>5, <4>1
      <4>2. CASE j \in inline
        BY <2>1, <4>2
      <4>3. QED
        BY <3>1, <4>1, <4>2
    <3>8. ASSUME NEW j \in steps', NEW k \in steps', dep'[j] = dep'[k] PROVE j = k
      <4>1. \A m \in steps : dep'[m] = dep[m] /\ dep'[m] # b
        BY <2>0, <2>1, <3>6
      <4>2. QED
        BY <3>1, <3>2, <3>8, <4>1 DEF StepInv
    <3>9. QED
      BY <3>7, <3>8 DEF StepInv
  <2>4. QED
    BY <2>2, <2>3, StepsGrow
<1>3. TypeInv /\ StepInv => StepAfterBackup
  BY DEF TypeInv, TypeOK, StepInv, StepAfterBackup, Over
<1>4. QED
  BY <1>1, <1>2, <1>3, RowInvAlways, PTL DEF Spec

\* A row that reads running has something that will end it: a task, the
\* tick's claim, an entry to record, the sweep of index rows or the plan that
\* runs it (run_operation's finally, finish_inline_maintenance).  The
\* hypotheses are the cases in which the code leaves the row to the next
\* start: a process that died, a claim lost to an error of its refresh, an
\* entry given up on a lasting error, a step whose agent is still at work.
THEOREM RunningHasOwnerAlways ==
    ASSUME MaxCrashes = 0, "claim_lost" \notin Env, "db_broken" \notin Env,
           InlineKinds = {} \/ AgentRepos = {}
    PROVE  Spec => []RunningHasOwner
<1> DEFINE AllOwned == \A k \in Ids : Owned(k)
<1>1. Init => AllOwned
  BY DEF Init, Owned
<1>2. TypeInv /\ RowInv /\ AllOwned /\ [Next]_vars => AllOwned'
  BY RowStep DEF Good, Calm
<1>3. AllOwned => RunningHasOwner
  BY DEF Owned, RunningHasOwner
<1>4. QED
  BY <1>1, <1>2, <1>3, RowInvAlways, PTL DEF Spec

-----------------------------------------------------------------------------
(* Dependencies. *)

\* The row satisfies its dependents for good: nobody is left to write it.
Settled(k) ==
    /\ k <= count /\ DependencySatisfied(status, k) /\ claim # k
    /\ task[k] \in {"none", "succeeded", "closing"} /\ unrec[k] = NoEntry

\* The row runs or ran, or an outcome of it is still to be written.
Begun(k) ==
    \/ status[k] \in {"running", "completed", "completed_with_warnings", "failed"}
    \/ task[k] \in {"created", "executing", "succeeded", "closing"}
    \/ claim = k \/ unrec[k] # NoEntry

\* A task that owes a chain has its success on the row.
Told(k) == task[k] = "succeeded" => status[k] \in SUCCESS_STATUSES

\* A row hangs on an index row or on a settled one, and has begun on a
\* settled one only.
Hangs(k) ==
    (k <= count /\ k \notin inline /\ dep[k] # 0) =>
        /\ dep[k] \in Ids /\ dep[k] <= count
        /\ IsIndex(dep[k]) \/ Settled(dep[k])
        /\ Begun(k) => Settled(dep[k])

HangInv == routes = {} /\ \A k \in Ids : Hangs(k) /\ Told(k)

\* What a step may do to row k: only the tick begins one.
Lives(k) ==
    /\ k <= count => k <= count' /\ op'[k] = op[k]
    /\ k \in inline => k \in inline'
    /\ Settled(k) => Settled(k)'
    /\ Begun(k)' => Begun(k) \/ k > count \/ Claim(k)
    /\ Told(k) => Told(k)'

\* What a step may hang row k on, if it hangs it anew.
Hung(k) ==
    (k <= count' /\ k \notin inline' /\ dep'[k] # 0) =>
        \/ k <= count /\ dep'[k] = dep[k]
        \/ /\ ~Begun(k)'
           /\ dep'[k] \in Ids /\ dep'[k] <= count'
           /\ IsIndex(dep[k])' \/ Settled(dep[k])'

\* The step leaves row k alone, or hands its id out.
Still(k) ==
    /\ k <= count => k <= count' /\ op'[k] = op[k] /\ status'[k] = status[k]
    /\ task'[k] = task[k] /\ unrec'[k] = unrec[k]
    /\ claim' = k => claim = k
    /\ k \in inherited' <=> k \in inherited
    /\ k \in inline => k \in inline'

\* An index row that satisfies its dependents is settled: whatever is busy
\* with an index row reads running.
LEMMA IndexSettled ==
    ASSUME TypeInv, NEW k \in Ids, Row(k), k <= count, IsIndex(k), DependencySatisfied(status, k)
    PROVE  Settled(k)
<1>1. status[k] \notin {"queued", "running", "absent", "cancelled"}
  BY DEF DependencySatisfied, DependencyFailed, SUCCESS_STATUSES
<1>2. task[k] \in TaskStates
  BY DEF TypeInv, TypeOK
<1>3. QED
  BY <1>1, <1>2 DEF Settled, Row, IndexBusy, TaskStates

\* A row left alone.
LEMMA StillLives ==
    ASSUME TypeInv, NEW k \in Ids, Row(k), Still(k)
    PROVE  Lives(k)
<1>0. count \in Nat /\ k \in Nat
  BY BoundsAssumption DEF TypeInv, TypeOK, Ids
<1>1. CASE k <= count
  BY <1>1 DEF Still, Lives, Settled, Begun, Told, DependencySatisfied, DependencyFailed
<1>2. CASE k > count
  <2>1. task[k] = "none" /\ ~(k <= count)
    BY <1>0, <1>2 DEF Row, Blank
  <2>2. QED
    BY <1>2, <2>1 DEF Still, Lives, Settled, Told
<1>3. QED
  BY <1>0, <1>1, <1>2

\* A row at work.
LEMMA WorkLives ==
    ASSUME NEW k \in Ids, k <= count => k <= count' /\ op'[k] = op[k], k \in inline => k \in inline',
           Begun(k), ~Settled(k), Told(k)'
    PROVE  Lives(k)
BY DEF Lives

\* Nothing is hung anew.
LEMMA KeptHung ==
    ASSUME UNCHANGED <<count, dep>>
    PROVE  \A k \in Ids : Hung(k)
BY DEF Hung

\* The step touches one row and hangs nothing.
LEMMA OneLife ==
    ASSUME TypeInv, \A k \in Ids : Row(k), NEW i \in Ids, UNCHANGED <<count, dep>>,
           \A k \in Ids : k # i => Still(k), Lives(i)
    PROVE  \A k \in Ids : Lives(k) /\ Hung(k)
BY StillLives, KeptHung

\* The step touches no row.
LEMMA NoLife ==
    ASSUME TypeInv, \A k \in Ids : Row(k),
           UNCHANGED <<count, status, op, dep, task, unrec, inherited, inline>>,
           claim' = claim \/ claim' = 0
    PROVE  \A k \in Ids : Lives(k) /\ Hung(k)
<1>1. 0 \notin Ids
  BY BoundsAssumption DEF Ids
<1>2. \A k \in Ids : Still(k)
  BY <1>1 DEF Still
<1>3. QED
  BY <1>2, StillLives, KeptHung

\* A stage of a chain that is kept is one of the chain's.
LEMMA KeptLinks ==
    ASSUME NEW S, NEW chain \in Seq(S), NEW n \in Nat, NEW repo, NEW changed
    PROVE  Kept(chain, n, repo, changed) \in Seq(S)
BY DEF Kept

\* What is left of a chain of index kinds is one.
LEMMA FilteredLinks ==
    ASSUME NEW S, NEW chain \in Seq(S), NEW repo, NEW changed
    PROVE  Filtered(chain, repo, changed) \in Seq(S)
<1>1. \A n \in Nat : Kept(chain, n, repo, changed) \in Seq(S)
  BY KeptLinks
<1>2. QED
  BY <1>1 DEF Filtered

\* Every link of a follow-up chain but its last is an index kind: a preview
\* is enqueued alone.
LEMMA ChainLinks ==
    ASSUME NEW kind \in KINDS, NEW repo, NEW changed
    PROVE  \A n \in 1..Len(ChainFor(kind, repo, changed)) :
              n < Len(ChainFor(kind, repo, changed)) =>
                  ChainFor(kind, repo, changed)[n] \in INDEX_KINDS
<1>1. CASE kind = "archive_sync"
  <2>1. FOLLOWUPS[kind] = <<"prune_compare">>
    BY <1>1 DEF FOLLOWUPS, KINDS
  <2>2. /\ Kept(FOLLOWUPS[kind], 2, repo, changed) = << >>
        /\ Kept(FOLLOWUPS[kind], 3, repo, changed) = << >>
        /\ \/ Kept(FOLLOWUPS[kind], 1, repo, changed) = << >>
           \/ Kept(FOLLOWUPS[kind], 1, repo, changed) = <<"prune_compare">>
    BY <2>1 DEF Kept
  <2>3. ChainFor(kind, repo, changed) = << >> \/ ChainFor(kind, repo, changed) = <<"prune_compare">>
    <3>1. << >> \o << >> \o << >> = << >> /\ <<"prune_compare">> \o << >> \o << >> = <<"prune_compare">>
      OBVIOUS
    <3>2. QED
      BY <2>2, <3>1 DEF ChainFor, Filtered
  <2>4. Len(ChainFor(kind, repo, changed)) \in {0, 1}
    BY <2>3
  <2>5. \A m \in {0, 1} : \A n \in 1..m : ~(n < m)
    OBVIOUS
  <2>6. QED
    BY <2>4, <2>5
<1>2. CASE kind # "archive_sync"
  <2>1. FOLLOWUPS[kind] \in Seq(INDEX_KINDS)
    <3>1. /\ <<"stats", "archive_sync", "history_index">> \in Seq(INDEX_KINDS)
          /\ <<"archive_sync", "history_index", "stats">> \in Seq(INDEX_KINDS)
          /\ <<"archive_sync", "stats">> \in Seq(INDEX_KINDS)
          /\ <<"stats">> \in Seq(INDEX_KINDS)
          /\ << >> \in Seq(INDEX_KINDS)
      BY DEF INDEX_KINDS
    <3>2. QED
      BY <1>2, <3>1 DEF FOLLOWUPS
  <2>2. ChainFor(kind, repo, changed) \in Seq(INDEX_KINDS)
    BY <2>1, FilteredLinks DEF ChainFor
  <2>3. QED
    BY <2>2
<1>3. QED
  BY <1>1, <1>2

\* An id not handed out, or handed out just now.
LEMMA FreshRow ==
    ASSUME TypeInv, NEW k \in Ids, Row(k), k > count \/ status[k] = "queued",
           task'[k] = task[k], unrec'[k] = unrec[k], claim' = claim, status'[k] = "queued"
    PROVE  ~Begun(k)'
<1>1. task[k] \in TaskStates
  BY DEF TypeInv, TypeOK
<1>2. CASE k > count
  BY <1>2 DEF Row, Blank, Begun
<1>3. CASE status[k] = "queued"
  BY <1>1, <1>3 DEF Row, Begun, TaskStates, TERMINAL_STATUSES, SUCCESS_STATUSES
<1>4. QED
  BY <1>2, <1>3

\* The rows of a new chain hang on one another and on a settled row.
LEMMA ChainHung ==
    ASSUME TypeInv, \A k \in Ids : Row(k), NEW st, NEW kinds \in Seq(KINDS), NEW repo, NEW trigger,
           NEW run, NEW d0, EnqueueChain(st, kinds, repo, trigger, run, d0),
           \A n \in 1..Len(kinds) : n < Len(kinds) => kinds[n] \in INDEX_KINDS,
           d0 = 0 \/ (d0 \in Ids /\ Settled(d0)'), claim' = claim,
           \A k \in Ids : k > count => task'[k] = task[k] /\ unrec'[k] = unrec[k]
    PROVE  \A k \in Ids : Hung(k)
<1> SUFFICES ASSUME NEW k \in Ids, k <= count', dep'[k] # 0, ~(k <= count /\ dep'[k] = dep[k])
             PROVE  /\ ~Begun(k)'
                    /\ dep'[k] \in Ids /\ dep'[k] <= count'
                    /\ IsIndex(dep[k])' \/ Settled(dep[k])'
  BY DEF Hung
<1>0. Len(kinds) \in Nat /\ count \in 0..MaxOps /\ MaxOps \in Nat /\ k \in Nat
  BY BoundsAssumption DEF TypeInv, TypeOK, Ids
<1>1. count + Len(kinds) <= MaxOps /\ count' = count + Len(kinds)
  BY DEF EnqueueChain
<1>2. k \in (count + 1)..(count + Len(kinds))
  <2>1. k \notin (count + 1)..(count + Len(kinds)) => dep'[k] = dep[k]
    BY DEF EnqueueChain
  <2>2. QED
    BY <1>0, <1>1, <2>1
<1>3. k > count /\ status'[k] = "queued" /\ dep'[k] = IF k = count + 1 THEN d0 ELSE k - 1
  BY <1>0, <1>2 DEF EnqueueChain
<1>4. ~Begun(k)'
  BY <1>3, FreshRow
<1>5. CASE k = count + 1
  BY <1>3, <1>4, <1>5 DEF Settled
<1>6. CASE k # count + 1
  <2>1. PICK d \in Ids : d = k - 1
    BY <1>0, <1>2, <1>6 DEF Ids
  <2>2. d \in (count + 1)..(count + Len(kinds)) /\ d - count \in 1..Len(kinds) /\ d - count < Len(kinds)
    BY <1>0, <1>2, <1>6, <2>1
  <2>3. op'[d].kind = kinds[d - count]
    BY <2>1, <2>2 DEF EnqueueChain
  <2>4. dep'[k] = d /\ d <= count'
    BY <1>0, <1>1, <1>3, <1>6, <2>1, <2>2
  <2>5. op'[dep'[k]].kind \in INDEX_KINDS
    BY <2>2, <2>3, <2>4
  <2>6. QED
    BY <1>4, <2>4, <2>5 DEF IsIndex
<1>7. QED
  BY <1>5, <1>6

\* enqueue_followups hangs rows on the operation that succeeded, or on none.
LEMMA FollowupsHung ==
    ASSUME TypeInv, \A k \in Ids : Row(k), NEW st, NEW i \in Ids, NEW d0, NEW changed,
           EnqueueFollowups(st, i, d0, changed),
           d0 = 0 \/ (d0 \in Ids /\ Settled(d0)'), claim' = claim, i <= count, st[i] # "queued",
           \A k \in Ids : k # i => st[k] = status[k] /\ task'[k] = task[k] /\ unrec'[k] = unrec[k]
    PROVE  \A k \in Ids : Hung(k)
<1> DEFINE kinds == ChainFor(op[i].kind, op[i].repo, changed)
<1>0. op[i].kind \in KINDS /\ count \in Nat /\ i \in Nat
  BY BoundsAssumption DEF OpType, TypeInv, TypeOK, Ids
<1>1. /\ kinds \in Seq(KINDS)
      /\ \A n \in 1..Len(kinds) : n < Len(kinds) => kinds[n] \in INDEX_KINDS
  BY <1>0, ChainForType, ChainLinks
<1> HIDE DEF kinds
<1>2. CASE EnqueueChain(st, kinds, op[i].repo, "followup", op[i].run, d0)
  <2>1. \A k \in Ids : k > count => task'[k] = task[k] /\ unrec'[k] = unrec[k]
    BY <1>0
  <2>2. QED
    BY <1>1, <1>2, <2>1, ChainHung
<1>3. CASE /\ status' = st /\ UNCHANGED <<count, op>>
           /\ \E heads : /\ \A j \in heads : st[j] = "queued" /\ d0 # 0
                         /\ dep' = [j \in Ids |-> IF j \in heads THEN d0 ELSE dep[j]]
  <2>1. PICK heads : /\ \A j \in heads : st[j] = "queued" /\ d0 # 0
                     /\ dep' = [j \in Ids |-> IF j \in heads THEN d0 ELSE dep[j]]
    BY <1>3
  <2> SUFFICES ASSUME NEW k \in Ids PROVE Hung(k)
    OBVIOUS
  <2>2. CASE k \in heads
    <3>1. k # i /\ st[k] = "queued" /\ dep'[k] = d0 /\ d0 \in Ids /\ Settled(d0)'
      BY <2>1, <2>2
    <3>2. status[k] = "queued" /\ status'[k] = "queued"
      BY <1>3, <3>1
    <3>3. ~Begun(k)'
      BY <3>1, <3>2, FreshRow
    <3>4. d0 <= count'
      BY <3>1 DEF Settled
    <3>5. QED
      BY <3>1, <3>3, <3>4 DEF Hung
  <2>3. CASE k \notin heads
    BY <1>3, <2>1, <2>3 DEF Hung
  <2>4. QED
    BY <2>2, <2>3
<1>4. CASE status' = st /\ UNCHANGED <<count, op, dep>>
  BY <1>4, KeptHung
<1>5. QED
  <2>1. \A j \in {j \in WillRun(st, op[i].repo) : /\ d0 # 0 /\ dep[j] # d0
                                            /\ op[j].run = op[i].run
                                            /\ dep[j] \notin WillRun(st, op[i].repo)} :
            st[j] = "queued" /\ d0 # 0
    BY WillRunQueued
  <2>2. QED
    BY <1>2, <1>3, <1>4, <2>1 DEF EnqueueFollowups, kinds

\* Rows are only added behind the table, which otherwise reads st, and row i
\* is the only one whose memory changes.
LEMMA EnqueuedStill ==
    ASSUME TypeInv, NEW st, Enqueued(st), NEW i, claim' = claim, UNCHANGED <<inherited, inline>>,
           \A k \in Ids : k # i => st[k] = status[k] /\ task'[k] = task[k] /\ unrec'[k] = unrec[k]
    PROVE  \A k \in Ids : k # i => Still(k)
<1>1. count \in Nat /\ count' \in count..MaxOps /\ MaxOps \in Nat /\ \A k \in Ids : k \in Nat
  BY BoundsAssumption DEF TypeInv, TypeOK, Enqueued, Ids
<1>2. QED
  BY <1>1 DEF Still, Enqueued

\* request_cancel on one row.
LEMMA CancelLives ==
    ASSUME TypeInv, \A k \in Ids : Row(k), NEW i \in Ids, CancelEffect(i),
           UNCHANGED <<count, op, dep, inherited, task, unrec, claim, inline>>
    PROVE  \A k \in Ids : Lives(k) /\ Hung(k)
<1>1. /\ \A k \in Ids : k # i => status'[k] = status[k]
      /\ status'[i] = IF status[i] = "queued" THEN "cancelled" ELSE status[i]
  BY DEF CancelEffect, TypeInv, TypeOK
<1>2. \A k \in Ids : k # i => Still(k)
  BY <1>1 DEF Still
<1>3. CASE status[i] = "queued"
  <2>1. status'[i] = "cancelled" /\ task[i] # "succeeded"
    BY <1>1, <1>3 DEF Row, TERMINAL_STATUSES, SUCCESS_STATUSES
  <2>2. ~Settled(i)
    BY <1>3 DEF Settled, DependencySatisfied, SUCCESS_STATUSES
  <2>3. Begun(i)' => Begun(i)
    BY <2>1 DEF Begun
  <2>4. QED
    BY <1>2, <2>1, <2>2, <2>3, OneLife DEF Lives, Told
<1>4. CASE status[i] # "queued"
  <2>1. Still(i)
    BY <1>1, <1>4 DEF Still
  <2>2. QED
    BY <1>2, <2>1, OneLife, StillLives
<1>5. QED
  BY <1>3, <1>4

\* Requests, but for the cancel route's write.
LEMMA LivesRequest ==
    ASSUME TypeInv, \A k \in Ids : Row(k), routes = {}, RequestStep
    PROVE  \A k \in Ids : Lives(k) /\ Hung(k)
<1> USE DEF rowVars, taskVars, tickVars, procVars, ghosts
<1>0. count \in 0..MaxOps /\ op \in [Ids -> OpType] /\ status \in [Ids -> RowStatus] /\ 0 \notin Ids
  BY BoundsAssumption DEF TypeInv, TypeOK, Ids
<1>1. ASSUME NEW s \in Submissions, Submit(s) PROVE \A k \in Ids : Lives(k) /\ Hung(k)
  <2>1. /\ EnqueueChain(status, s.kinds, s.repo, s.trigger, count + 1, 0)
        /\ UNCHANGED <<task, unrec, claim, inherited, inline>>
    BY <1>1 DEF Submit
  <2>2. s.kinds \in Seq(KINDS) /\ \A n \in 1..Len(s.kinds) : n < Len(s.kinds) => s.kinds[n] \in INDEX_KINDS
    BY SettingsAssumption, ChainsAssumption
  <2>3. Enqueued(status)
    BY <1>0, <2>1, <2>2, ChainEnqueued
  <2>4. \A k \in Ids : Still(k)
    BY <1>0, <2>1, <2>3, EnqueuedStill
  <2>5. \A k \in Ids : Hung(k)
    BY <2>1, <2>2, ChainHung
  <2>6. QED
    BY <2>4, <2>5, StillLives
<1>2. ASSUME NEW r \in Repos, Reconcile(r) PROVE \A k \in Ids : Lives(k) /\ Hung(k)
  <2>1. /\ EnqueueChain(status, ReconcileKinds(r), r, "reconcile", count + 1, 0)
        /\ UNCHANGED <<task, unrec, claim, inherited, inline>>
    BY <1>2 DEF Reconcile
  <2>2. ReconcileKinds(r) \in Seq(KINDS) /\ ReconcileKinds(r) \in Seq(INDEX_KINDS)
    <3>1. RECONCILE_CHAIN \in Seq(KINDS) /\ RECONCILE_CHAIN \in Seq(INDEX_KINDS)
      BY DEF RECONCILE_CHAIN, KINDS, INDEX_KINDS
    <3>2. QED
      BY <3>1, FilteredLinks DEF ReconcileKinds
  <2>3. Enqueued(status)
    BY <1>0, <2>1, <2>2, ChainEnqueued
  <2>4. \A k \in Ids : Still(k)
    BY <1>0, <2>1, <2>3, EnqueuedStill
  <2>5. \A k \in Ids : Hung(k)
    <3>1. \A n \in 1..Len(ReconcileKinds(r)) : ReconcileKinds(r)[n] \in INDEX_KINDS
      BY <2>2
    <3>2. QED
      BY <2>1, <2>2, <3>1, ChainHung
  <2>6. QED
    BY <2>4, <2>5, StillLives
<1>3. ASSUME NEW i \in Ids, RequestCancel(i) \/ CancelRun(i) PROVE \A k \in Ids : Lives(k) /\ Hung(k)
  <2>1. CancelEffect(i) /\ UNCHANGED <<count, op, dep, inherited, task, unrec, claim, inline>>
    BY <1>3 DEF RequestCancel, CancelRun
  <2>2. QED
    BY <2>1, CancelLives
<1>4. ASSUME NEW i \in Ids, CancelRouteAsks(i) PROVE \A k \in Ids : Lives(k) /\ Hung(k)
  <2>1. UNCHANGED <<count, status, op, dep, inherited, task, unrec, claim, inline>>
    BY <1>4 DEF CancelRouteAsks
  <2>2. QED
    BY <2>1, NoLife
<1>5. ASSUME NEW i \in Ids, CancelRouteWrites(i) PROVE FALSE
  BY <1>5 DEF CancelRouteWrites
<1>6. ASSUME NEW r \in Repos, ImportConnect(r) PROVE \A k \in Ids : Lives(k) /\ Hung(k)
  <2> DEFINE chain == ChainFor("import_connect", r, FALSE)
             kinds == <<"import_connect">> \o chain
             new == (count + 1)..(count + Len(kinds))
  <2>1. chain \in Seq(INDEX_KINDS)
    <3>1. FOLLOWUPS["import_connect"] = <<"stats", "archive_sync", "history_index">>
      BY DEF FOLLOWUPS, KINDS
    <3>2. FOLLOWUPS["import_connect"] \in Seq(INDEX_KINDS)
      BY <3>1 DEF INDEX_KINDS
    <3>3. QED
      BY <3>2, FilteredLinks DEF ChainFor
  <2>2. /\ Len(kinds) \in Nat /\ Len(kinds) > 0
        /\ \A n \in 2..Len(kinds) : kinds[n] \in INDEX_KINDS
    <3>1. \A c \in Seq(INDEX_KINDS) :
              /\ Len(<<"import_connect">> \o c) \in Nat /\ Len(<<"import_connect">> \o c) > 0
              /\ \A n \in 2..Len(<<"import_connect">> \o c) : (<<"import_connect">> \o c)[n] \in INDEX_KINDS
      OBVIOUS
    <3>2. QED
      BY <2>1, <3>1
  <2>3. /\ count + Len(kinds) <= MaxOps /\ count' = count + Len(kinds)
        /\ \A i \in Ids : /\ i \in new => op'[i].kind = kinds[i - count]
                          /\ dep'[i] = IF i \in new THEN IF i = count + 1 THEN 0 ELSE i - 1 ELSE dep[i]
                          /\ i \notin new => op'[i] = op[i]
                          /\ status'[i] = IF i = count + 1 THEN "completed"
                                          ELSE IF i \in new THEN "queued" ELSE status[i]
        /\ UNCHANGED <<task, unrec, claim, inherited, inline>>
    BY <1>6 DEF ImportConnect
  <2> HIDE DEF kinds, chain
  <2>4. ASSUME NEW k \in Ids PROVE Still(k)
    <3>1. k <= count => k # count + 1 /\ k \notin new /\ k <= count'
      BY <1>0, <2>2, <2>3, BoundsAssumption DEF Ids
    <3>2. QED
      BY <2>3, <3>1 DEF Still
  <2>5. ASSUME NEW k \in Ids, k <= count', dep'[k] # 0, ~(k <= count /\ dep'[k] = dep[k])
        PROVE  /\ ~Begun(k)'
               /\ dep'[k] \in Ids /\ dep'[k] <= count'
               /\ IsIndex(dep[k])' \/ Settled(dep[k])'
    <3>0. k \in Nat /\ MaxOps \in Nat
      BY BoundsAssumption DEF Ids
    <3>1. k \in new /\ k # count + 1
      BY <1>0, <2>2, <2>3, <2>5, <3>0
    <3>2. PICK d \in Ids : d = k - 1
      BY <1>0, <2>3, <3>0, <3>1 DEF Ids
    <3>3. dep'[k] = d /\ d \in new /\ d <= count' /\ k > count /\ d > count /\ status'[k] = "queued"
      BY <1>0, <2>2, <2>3, <3>0, <3>1, <3>2
    <3>4. ~Begun(k)'
      BY <2>3, <3>3, FreshRow
    <3>5. CASE d = count + 1
      <4>1. status'[d] = "completed" /\ Blank(d)
        BY <2>3, <3>3, <3>5 DEF Row
      <4>2. Settled(d)'
        BY <2>3, <3>3, <4>1 DEF Settled, Blank, DependencySatisfied, DependencyFailed, SUCCESS_STATUSES
      <4>3. Settled(dep[k])'
        BY <3>3, <4>2
      <4>4. QED
        BY <3>3, <3>4, <4>3
    <3>6. CASE d # count + 1
      <4>1. d - count \in 2..Len(kinds)
        BY <1>0, <2>2, <2>3, <3>0, <3>2, <3>3, <3>6
      <4>2. op'[d].kind \in INDEX_KINDS
        BY <2>2, <2>3, <3>3, <4>1
      <4>3. QED
        BY <3>3, <3>4, <4>2 DEF IsIndex
    <3>7. QED
      BY <3>5, <3>6
  <2>6. \A k \in Ids : Hung(k)
    BY <2>5 DEF Hung
  <2>7. QED
    BY <2>4, <2>6, StillLives
<1>7. QED
  BY <1>1, <1>2, <1>3, <1>4, <1>5, <1>6 DEF RequestStep

\* An outcome recorded late: its chain hangs on a row that is settled now.
LEMMA LivesRecord ==
    ASSUME TypeInv, \A k \in Ids : Row(k), NEW i \in Ids, NEW changed, RecordOutcome(i, changed)
    PROVE  \A k \in Ids : Lives(k) /\ Hung(k)
<1> USE DEF rowVars, taskVars, tickVars, procVars, ghosts
<1>0. /\ count \in 0..MaxOps /\ op \in [Ids -> OpType] /\ status \in [Ids -> RowStatus]
      /\ unrec \in [Ids -> EntryType]
  BY DEF TypeInv, TypeOK
<1>1. i \in recording /\ unrec[i] # NoEntry
  BY DEF RecordOutcome, TypeInv, EntriesInv, NoEntry
<1>2. task[i] = "none" /\ ~Live(i) /\ claim # i /\ ~(i > count)
  BY <1>1 DEF Row, Blank, Live
<1>3. /\ Recorded(i) \in [Ids -> RowStatus]
      /\ \A k \in Ids : k # i => Recorded(i)[k] = status[k]
      /\ Recorded(i)[i] \in TERMINAL_STATUSES
  BY <1>1, RecordedWord
<1>4. /\ unrec' = [unrec EXCEPT ![i] = NoEntry]
      /\ UNCHANGED <<task, claim, inherited, inline>>
      /\ \/ ChainOwed(Recorded(i), i) /\ EnqueueFollowups(Recorded(i), i, i, changed)
         \/ status' = Recorded(i) /\ UNCHANGED <<count, op, dep>>
  BY <1>2 DEF RecordOutcome
<1>5. Enqueued(Recorded(i))
  <2>1. CASE EnqueueFollowups(Recorded(i), i, i, changed)
    BY <1>0, <1>3, <2>1, FollowupsEnqueued
  <2>2. CASE status' = Recorded(i) /\ UNCHANGED <<count, op, dep>>
    BY <1>0, <2>2, BoundsAssumption DEF Enqueued, Ids
  <2>3. QED
    BY <1>4, <2>1, <2>2
<1>6. \A k \in Ids : k # i => Recorded(i)[k] = status[k] /\ task'[k] = task[k] /\ unrec'[k] = unrec[k]
  BY <1>0, <1>3, <1>4
<1>7. \A k \in Ids : k # i => Still(k)
  BY <1>4, <1>5, <1>6, EnqueuedStill
<1>8. i <= count /\ i <= count' /\ op'[i] = op[i] /\ status'[i] = Recorded(i)[i] /\ unrec'[i] = NoEntry
  BY <1>0, <1>2, <1>4, <1>5, BoundsAssumption DEF Enqueued, Ids
<1>9. Lives(i)
  <2>1. Begun(i) /\ ~Settled(i)
    BY <1>1 DEF Begun, Settled
  <2>2. Told(i)'
    BY <1>2, <1>4 DEF Told
  <2>3. QED
    BY <1>4, <1>8, <2>1, <2>2, WorkLives
<1>10. \A k \in Ids : Hung(k)
  <2>1. CASE ChainOwed(Recorded(i), i) /\ EnqueueFollowups(Recorded(i), i, i, changed)
    <3>1. Recorded(i)[i] \in SUCCESS_STATUSES /\ Recorded(i)[i] # "queued"
      BY <2>1 DEF ChainOwed, SUCCESS_STATUSES
    <3>2. Settled(i)'
      BY <1>2, <1>4, <1>8, <3>1 DEF Settled, DependencySatisfied, DependencyFailed, SUCCESS_STATUSES
    <3>3. QED
      BY <1>4, <1>6, <1>8, <2>1, <3>1, <3>2, FollowupsHung
  <2>2. CASE UNCHANGED <<count, op, dep>>
    BY <2>2, KeptHung
  <2>3. QED
    BY <1>4, <2>1, <2>2
<1>11. QED
  BY <1>7, <1>9, <1>10, StillLives

\* The tick.
LEMMA LivesTick ==
    ASSUME TypeInv, \A k \in Ids : Row(k), TickStep
    PROVE  \A k \in Ids : Lives(k) /\ Hung(k)
<1> USE DEF rowVars, taskVars, tickVars, procVars, ghosts
<1>0. /\ count \in 0..MaxOps /\ op \in [Ids -> OpType] /\ status \in [Ids -> RowStatus]
      /\ task \in [Ids -> TaskStates] /\ ClaimInv /\ 0 \notin Ids
  BY BoundsAssumption DEF TypeInv, TypeOK, Ids
<1>1. CASE TickStart \/ TickEnd \/ Load
  <2>1. UNCHANGED <<count, status, op, dep, task, unrec, inherited, inline, claim>>
    BY <1>1 DEF TickStart, TickEnd, Load
  <2>2. QED
    BY <2>1, NoLife
<1>2. CASE Sweep
  <2>1. UNCHANGED <<count, op, dep, inherited, task, unrec, inline, claim>>
    BY <1>2 DEF Sweep
  <2>2. ASSUME NEW k \in Ids PROVE Lives(k)
    <3>1. \/ status'[k] = status[k]
          \/ status[k] = "running" /\ status'[k] \in {"queued", "failed", "cancelled"} /\ task[k] = "none"
      BY <1>2 DEF Sweep, RecoverIndexRows, AbandonedIndexRows, Live
    <3>2. CASE status'[k] = status[k]
      <4>1. Still(k)
        BY <2>1, <3>2 DEF Still
      <4>2. QED
        BY <4>1, StillLives
    <3>3. CASE status[k] = "running" /\ task[k] = "none"
      <4>1. Begun(k) /\ ~Settled(k) /\ Told(k)'
        BY <2>1, <3>3 DEF Begun, Settled, Told, DependencySatisfied, SUCCESS_STATUSES
      <4>2. QED
        BY <2>1, <4>1, WorkLives
    <3>4. QED
      BY <3>1, <3>2, <3>3
  <2>3. QED
    BY <2>1, <2>2, KeptHung
<1>3. CASE Dispatch
  <2>1. /\ claim \in Ids /\ claim' = 0 /\ task' = [task EXCEPT ![claim] = "created"]
        /\ UNCHANGED <<count, status, op, dep, unrec, inherited, inline>>
    BY <1>0, <1>3 DEF Dispatch, ClaimInv
  <2>2. PICK i \in Ids : i = claim
    BY <2>1
  <2>3. \A k \in Ids : k # i => Still(k)
    BY <1>0, <2>1, <2>2 DEF Still
  <2>4. Begun(i) /\ ~Settled(i) /\ Told(i)'
    BY <1>0, <2>1, <2>2 DEF Begun, Settled, Told
  <2>5. QED
    BY <2>1, <2>3, <2>4, WorkLives, OneLife
<1>4. ASSUME NEW i \in Ids, NEW changed \in Changes, RecordOutcome(i, changed)
      PROVE  \A k \in Ids : Lives(k) /\ Hung(k)
  BY <1>4, LivesRecord
<1>5. ASSUME NEW i \in Ids, Skip(i) PROVE \A k \in Ids : Lives(k) /\ Hung(k)
  <2>1. /\ i \in todo /\ status' = [status EXCEPT ![i] = "skipped"] /\ ~Live(i)
        /\ inherited' = inherited \cup {i} \/ inherited' = inherited \ {i}
        /\ UNCHANGED <<count, op, dep, task, unrec, inline, claim>>
    BY <1>5 DEF Skip, NextCandidate, Passed
  <2>2. \A k \in Ids : k # i => Still(k)
    BY <1>0, <2>1 DEF Still
  <2>3. /\ status[i] \in {"queued", "cancelled"} /\ status'[i] = "skipped"
        /\ task[i] = "none" /\ claim # i /\ unrec[i] = NoEntry
    BY <1>0, <2>1 DEF Row, Live
  <2>4. ~Settled(i) /\ ~Begun(i)' /\ Told(i)'
    BY <2>1, <2>3 DEF Settled, Begun, Told, DependencySatisfied, SUCCESS_STATUSES
  <2>5. Lives(i)
    BY <2>1, <2>4 DEF Lives
  <2>6. QED
    BY <2>1, <2>2, <2>5, OneLife
<1>6. ASSUME NEW i \in Ids, Claim(i) PROVE \A k \in Ids : Lives(k) /\ Hung(k)
  <2>1. /\ i \in todo /\ status[i] = "queued" /\ ~Live(i)
        /\ status' = [status EXCEPT ![i] = "running"] /\ claim' = i
        /\ UNCHANGED <<count, op, dep, task, unrec, inherited, inline>>
    BY <1>0, <1>6 DEF Claim, NextCandidate, Passed, Startable
  <2>2. \A k \in Ids : k # i => Still(k)
    BY <1>0, <2>1 DEF Still
  <2>3. ~Settled(i) /\ Told(i)'
    BY <2>1 DEF Settled, Told, Live, DependencySatisfied, SUCCESS_STATUSES
  <2>4. Lives(i)
    BY <1>6, <2>1, <2>3 DEF Lives
  <2>5. QED
    BY <2>1, <2>2, <2>4, OneLife
<1>7. QED
  BY <1>1, <1>2, <1>3, <1>4, <1>5, <1>6 DEF TickStep

\* A task that has not reached its verdict.
LEMMA TaskWorks ==
    ASSUME NEW i \in Ids, task[i] \in {"created", "executing"}
    PROVE  Begun(i) /\ ~Settled(i)
BY DEF Begun, Settled

\* Tasks.
LEMMA LivesTask ==
    ASSUME TypeInv, \A k \in Ids : Row(k), NEW i \in Ids, Told(i),
           TaskStep(i) \/ Elapse(i) \/ \E w \in Words : ServiceWrites(i, w)
    PROVE  \A k \in Ids : Lives(k) /\ Hung(k)
<1> USE DEF rowVars, taskVars, tickVars, procVars, ghosts
<1>0. /\ count \in 0..MaxOps /\ op \in [Ids -> OpType] /\ status \in [Ids -> RowStatus]
      /\ task \in [Ids -> TaskStates] /\ unrec \in [Ids -> EntryType]
  BY DEF TypeInv, TypeOK
<1>1. CASE Begin(i) \/ Defer(i) \/ \E w \in Words : ServiceWrites(i, w)
  <2>1. /\ task[i] \in {"created", "executing"} /\ task'[i] # "succeeded"
        /\ \A k \in Ids : k # i => status'[k] = status[k] /\ task'[k] = task[k]
        /\ UNCHANGED <<count, op, dep, unrec, inherited, inline, claim>>
    BY <1>0, <1>1 DEF Begin, Defer, ServiceWrites, Refused
  <2>2. \A k \in Ids : k # i => Still(k)
    BY <2>1 DEF Still
  <2>3. Told(i)'
    BY <2>1 DEF Told
  <2>4. QED
    BY <2>1, <2>2, <2>3, TaskWorks, WorkLives, OneLife
<1>2. ASSUME NEW v, task[i] = "executing", TerminalWrite(i, v) PROVE \A k \in Ids : Lives(k) /\ Hung(k)
  <2>1. /\ status' = [status EXCEPT ![i] = v]
        /\ task' = [task EXCEPT ![i] = IF v \in SUCCESS_STATUSES THEN "succeeded" ELSE "closing"]
        /\ UNCHANGED <<count, op, dep, unrec, inherited, inline, claim>>
    BY <1>2 DEF TerminalWrite
  <2>2. \A k \in Ids : k # i => Still(k)
    BY <1>0, <2>1 DEF Still
  <2>3. Told(i)'
    BY <1>0, <2>1 DEF Told
  <2>4. QED
    BY <1>2, <2>1, <2>2, <2>3, TaskWorks, WorkLives, OneLife
<1>3. CASE DeferDone(i)
  <2>1. /\ task[i] = "deferring" /\ task' = [task EXCEPT ![i] = "none"]
        /\ UNCHANGED <<count, status, op, dep, unrec, inherited, inline, claim>>
    BY <1>3 DEF DeferDone
  <2>2. \A k \in Ids : k # i => Still(k)
    BY <1>0, <2>1 DEF Still
  <2>3. task'[i] = "none" /\ ~Settled(i)
    BY <1>0, <2>1 DEF Settled
  <2>4. Begun(i)' => Begun(i)
    BY <2>1, <2>3 DEF Begun
  <2>5. Lives(i)
    BY <2>1, <2>3, <2>4 DEF Lives, Told
  <2>6. QED
    BY <2>1, <2>2, <2>5, OneLife
<1>4. ASSUME NEW changed \in Changes, Close(i, changed) PROVE \A k \in Ids : Lives(k) /\ Hung(k)
  <2>1. /\ task[i] \in {"succeeded", "closing"} /\ task' = [task EXCEPT ![i] = "none"]
        /\ UNCHANGED <<unrec, inherited, inline, claim>>
        /\ \/ task[i] = "succeeded" /\ EnqueueFollowups(status, i, i, changed)
           \/ UNCHANGED <<count, status, op, dep>>
    BY <1>4 DEF Close
  <2>2. Enqueued(status)
    BY <1>0, <2>1, FollowupsEnqueued, KeptEnqueued
  <2>3. task'[i] = "none" /\ claim # i /\ unrec[i] = NoEntry /\ ~(i > count)
    BY <1>0, <2>1, LiveRow
  <2>4. i <= count /\ i <= count' /\ status'[i] = status[i] /\ op'[i] = op[i]
    BY <1>0, <2>2, <2>3, BoundsAssumption DEF Enqueued, Ids
  <2>5. \A k \in Ids : k # i => task'[k] = task[k] /\ unrec'[k] = unrec[k]
    BY <1>0, <2>1
  <2>6. \A k \in Ids : k # i => Still(k)
    BY <2>1, <2>2, <2>5, EnqueuedStill
  <2>7. Lives(i)
    <3>1. Begun(i)
      BY <2>1 DEF Begun
    <3>2. Settled(i) => Settled(i)'
      BY <2>1, <2>3, <2>4 DEF Settled, DependencySatisfied, DependencyFailed
    <3>3. QED
      BY <2>1, <2>3, <2>4, <3>1, <3>2 DEF Lives, Told
  <2>8. \A k \in Ids : Hung(k)
    <3>1. CASE task[i] = "succeeded" /\ EnqueueFollowups(status, i, i, changed)
      <4>1. status[i] \in SUCCESS_STATUSES /\ status[i] # "queued"
        BY <3>1 DEF Told, SUCCESS_STATUSES
      <4>2. Settled(i)'
        BY <2>1, <2>3, <2>4, <4>1 DEF Settled, DependencySatisfied, DependencyFailed, SUCCESS_STATUSES
      <4>3. QED
        BY <2>1, <2>4, <2>5, <3>1, <4>1, <4>2, FollowupsHung
    <3>2. CASE UNCHANGED <<count, dep>>
      BY <3>2, KeptHung
    <3>3. QED
      BY <2>1, <3>1, <3>2
  <2>9. QED
    BY <2>6, <2>7, <2>8, StillLives
<1>5. ASSUME NEW changed \in Changes, FinishAfterCreate(i, changed) PROVE \A k \in Ids : Lives(k) /\ Hung(k)
  <2>1. /\ task[i] = "executing" /\ status[i] = "failed" /\ EnqueueFollowups(status, i, 0, changed)
        /\ task' = [task EXCEPT ![i] = "closing"] \/ task' = [task EXCEPT ![i] = "none"]
        /\ UNCHANGED <<inherited, inline, claim>>
    BY <1>5 DEF FinishAfterCreate
  <2>2. Enqueued(status)
    BY <1>0, <2>1, FollowupsEnqueued
  <2>3. task'[i] \in {"closing", "none"} /\ ~(i > count)
    BY <1>0, <2>1, LiveRow
  <2>4. i <= count /\ i <= count' /\ op'[i] = op[i]
    BY <1>0, <2>2, <2>3, BoundsAssumption DEF Enqueued, Ids
  <2>5. \A k \in Ids : k # i => task'[k] = task[k] /\ unrec'[k] = unrec[k]
    BY <1>0, <1>5, <2>1 DEF FinishAfterCreate, Unrecorded
  <2>6. \A k \in Ids : k # i => Still(k)
    BY <2>1, <2>2, <2>5, EnqueuedStill
  <2>7. Lives(i)
    BY <2>1, <2>3, <2>4, TaskWorks, WorkLives DEF Told
  <2>8. \A k \in Ids : Hung(k)
    BY <2>1, <2>4, <2>5, FollowupsHung
  <2>9. QED
    BY <2>6, <2>7, <2>8, StillLives
<1>6. CASE Elapse(i)
  <2>1. UNCHANGED <<count, status, op, dep, task, unrec, inherited, inline, claim>>
    BY <1>6 DEF Elapse
  <2>2. QED
    BY <2>1, NoLife
<1>7. QED
  <2>1. ASSUME DeferFails(i) PROVE \A k \in Ids : Lives(k) /\ Hung(k)
    BY <1>2, <2>1 DEF DeferFails, Refused
  <2>2. ASSUME NEW v \in TERMINAL_STATUSES, Finish(i, v) PROVE \A k \in Ids : Lives(k) /\ Hung(k)
    BY <1>2, <2>2 DEF Finish
  <2>3. QED
    BY <1>1, <1>3, <1>4, <1>5, <1>6, <2>1, <2>2 DEF TaskStep

\* Errors.
LEMMA LivesFault ==
    ASSUME TypeInv, \A k \in Ids : Row(k), FaultStep
    PROVE  \A k \in Ids : Lives(k) /\ Hung(k)
<1> USE DEF rowVars, taskVars, tickVars, procVars, ghosts
<1>0. /\ status \in [Ids -> RowStatus] /\ task \in [Ids -> TaskStates] /\ unrec \in [Ids -> EntryType]
      /\ ClaimInv /\ 0 \notin Ids
  BY BoundsAssumption DEF TypeInv, TypeOK, Ids
<1>1. CASE ClaimLost \/ TickFails \/ \E i \in Ids : InlineFinishFails(i)
  <2>1. CASE TickFails \/ \E i \in Ids : InlineFinishFails(i)
    <3>1. UNCHANGED <<count, status, op, dep, task, unrec, inherited, inline, claim>>
      BY <2>1 DEF TickFails, InlineFinishFails
    <3>2. QED
      BY <3>1, NoLife
  <2>2. CASE ClaimLost
    <3>1. UNCHANGED <<count, status, op, dep, task, unrec, inherited, inline>> /\ claim' = 0
      BY <2>2 DEF ClaimLost
    <3>2. QED
      BY <3>1, NoLife
  <2>3. QED
    BY <1>1, <2>1, <2>2
<1>2. ASSUME NEW i \in Ids, NEW committed \in BOOLEAN, RecordFails(i, committed)
      PROVE  \A k \in Ids : Lives(k) /\ Hung(k)
  <2>1. unrec[i] # NoEntry /\ task[i] = "none"
    BY <1>2 DEF RecordFails, TypeInv, EntriesInv, NoEntry, Live
  <2>2. \A k \in Ids : k # i => Recorded(i)[k] = status[k]
    BY <2>1, RecordedWord
  <2>3. /\ status' = Recorded(i) \/ status' = status
        /\ UNCHANGED <<count, op, dep, task, inherited, inline, claim>>
        /\ \A k \in Ids : k # i => unrec'[k] = unrec[k]
    BY <1>0, <1>2 DEF RecordFails, Fault
  <2>4. \A k \in Ids : k # i => Still(k)
    BY <2>2, <2>3 DEF Still
  <2>5. Begun(i) /\ ~Settled(i) /\ Told(i)'
    BY <2>1, <2>3 DEF Begun, Settled, Told
  <2>6. QED
    BY <2>3, <2>4, <2>5, WorkLives, OneLife
<1>3. ASSUME NEW i \in Ids, BeginFails(i) \/ \E v \in TERMINAL_STATUSES : FinishFails(i, v)
      PROVE  \A k \in Ids : Lives(k) /\ Hung(k)
  <2>1. /\ task[i] \in {"created", "executing"} /\ task' = [task EXCEPT ![i] = "none"]
        /\ UNCHANGED <<count, status, op, dep, inherited, inline, claim>>
        /\ \A k \in Ids : k # i => unrec'[k] = unrec[k]
    BY <1>0, <1>3 DEF BeginFails, FinishFails, Unrecorded
  <2>2. \A k \in Ids : k # i => Still(k)
    BY <1>0, <2>1 DEF Still
  <2>3. Told(i)'
    BY <1>0, <2>1 DEF Told
  <2>4. QED
    BY <2>1, <2>2, <2>3, TaskWorks, WorkLives, OneLife
<1>4. ASSUME NEW i \in Ids, CloseFails(i) PROVE \A k \in Ids : Lives(k) /\ Hung(k)
  <2>1. /\ task[i] = "succeeded" /\ task' = [task EXCEPT ![i] = "none"]
        /\ UNCHANGED <<count, status, op, dep, unrec, inherited, inline, claim>>
    BY <1>4 DEF CloseFails
  <2>2. \A k \in Ids : k # i => Still(k)
    BY <1>0, <2>1 DEF Still
  <2>3. task'[i] = "none" /\ Begun(i)
    BY <1>0, <2>1 DEF Begun
  <2>4. Settled(i) => Settled(i)'
    BY <2>1, <2>3 DEF Settled, DependencySatisfied, DependencyFailed
  <2>5. Lives(i)
    BY <2>1, <2>3, <2>4 DEF Lives, Told
  <2>6. QED
    BY <2>1, <2>2, <2>5, OneLife
<1>5. QED
  BY <1>1, <1>2, <1>3, <1>4 DEF FaultStep

\* Plan runs.
LEMMA LivesPlan ==
    ASSUME TypeInv, \A k \in Ids : Row(k), PlanStep
    PROVE  \A k \in Ids : Lives(k) /\ Hung(k)
<1> USE DEF rowVars, taskVars, tickVars, procVars, ghosts
<1>0. /\ count \in 0..MaxOps /\ op \in [Ids -> OpType] /\ status \in [Ids -> RowStatus]
      /\ dep \in [Ids -> 0..MaxOps] /\ steps \subseteq inline /\ inline \subseteq Ids
  BY DEF TypeInv, TypeOK
<1>1. ASSUME NEW b \in Ids, PlanEnds(b) PROVE \A k \in Ids : Lives(k) /\ Hung(k)
  <2>1. UNCHANGED <<count, status, op, dep, task, unrec, inherited, inline, claim>>
    BY <1>1 DEF PlanEnds
  <2>2. QED
    BY <2>1, NoLife
<1>2. ASSUME NEW b \in Ids, WaiterAsks(b) PROVE \A k \in Ids : Lives(k) /\ Hung(k)
  <2>1. CancelEffect(b) /\ UNCHANGED <<count, op, dep, inherited, task, unrec, claim, inline>>
    BY <1>2 DEF WaiterAsks
  <2>2. QED
    BY <2>1, CancelLives
<1>3. ASSUME NEW b \in Ids, NEW kind \in InlineKinds, InlineStart(b, kind)
      PROVE  \A k \in Ids : Lives(k) /\ Hung(k)
  <2>1. /\ count < MaxOps /\ count' = count + 1
        /\ \A k \in Ids : k # count + 1 =>
              status'[k] = status[k] /\ op'[k] = op[k] /\ dep'[k] = dep[k]
        /\ inline' = inline \cup {count + 1}
        /\ UNCHANGED <<task, unrec, inherited, claim>>
    BY <1>0, <1>3 DEF InlineStart
  <2>2. ASSUME NEW k \in Ids PROVE Still(k) /\ Hung(k)
    <3>1. /\ k <= count => k # count + 1 /\ k <= count'
          /\ k <= count' => k <= count \/ k = count + 1
      BY <1>0, <2>1, BoundsAssumption DEF Ids
    <3>2. Still(k)
      BY <2>1, <3>1 DEF Still
    <3>3. Hung(k)
      BY <2>1, <3>1 DEF Hung
    <3>4. QED
      BY <3>2, <3>3
  <2>3. QED
    BY <2>2, StillLives
<1>4. ASSUME NEW j \in steps, status[j] = "running" \/ status'[j] = status[j],
             UNCHANGED <<count, op, dep, task, unrec, inherited, inline, claim>>,
             \A k \in Ids : k # j => status'[k] = status[k]
      PROVE  \A k \in Ids : Lives(k) /\ Hung(k)
  <2>1. j \in Ids /\ task[j] = "none"
    BY <1>0 DEF Row
  <2>2. \A k \in Ids : k # j => Still(k)
    BY <1>4 DEF Still
  <2>3. CASE status'[j] = status[j]
    <3>1. Still(j)
      BY <1>4, <2>3 DEF Still
    <3>2. QED
      BY <1>4, <2>1, <2>2, <3>1, StillLives, OneLife
  <2>4. CASE status[j] = "running"
    <3>1. Begun(j) /\ ~Settled(j) /\ Told(j)'
      BY <1>4, <2>1, <2>4 DEF Begun, Settled, Told, DependencySatisfied, SUCCESS_STATUSES
    <3>2. QED
      BY <1>4, <2>1, <2>2, <3>1, WorkLives, OneLife
  <2>5. QED
    BY <1>4, <2>3, <2>4
<1>5. ASSUME NEW j \in steps, NEW w \in Words, InlineVerdict(j, w)
      PROVE  \A k \in Ids : Lives(k) /\ Hung(k)
  <2>1. /\ status[j] = "running" /\ \A k \in Ids : k # j => status'[k] = status[k]
        /\ UNCHANGED <<count, op, dep, task, unrec, inherited, inline, claim>>
    BY <1>0, <1>5 DEF InlineVerdict
  <2>2. QED
    BY <1>4, <2>1
<1>6. ASSUME NEW j \in steps, InlineRaises(j) PROVE \A k \in Ids : Lives(k) /\ Hung(k)
  <2>1. /\ \A k \in Ids : k # j => status'[k] = status[k]
        /\ status[j] = "running" \/ status'[j] = status[j]
        /\ UNCHANGED <<count, op, dep, task, unrec, inherited, inline, claim>>
    BY <1>0, <1>6 DEF InlineRaises
  <2>2. QED
    BY <1>4, <2>1
<1>7. ASSUME NEW j \in steps, InlineFinish(j) PROVE \A k \in Ids : Lives(k) /\ Hung(k)
  <2>1. UNCHANGED <<task, unrec, inherited, inline, claim>>
    BY <1>7 DEF InlineFinish
  <2>2. CASE status[j] \in SUCCESS_STATUSES /\ EnqueueFollowups(status, j, j, FALSE)
    <3>1. /\ j \in Ids /\ task[j] = "none" /\ claim # j /\ unrec[j] = NoEntry /\ ~(j > count)
          /\ status[j] # "queued"
      BY <1>0 DEF Row, Blank
    <3>2. Enqueued(status)
      BY <1>0, <2>2, <3>1, FollowupsEnqueued
    <3>3. \A k \in Ids : Still(k)
      <4>1. \A k \in Ids : k # 0 => Still(k)
        BY <2>1, <3>2, EnqueuedStill
      <4>2. QED
        BY <4>1, BoundsAssumption DEF Ids
    <3>4. j <= count /\ j <= count' /\ status'[j] = status[j]
      BY <1>0, <3>1, <3>2, BoundsAssumption DEF Enqueued, Ids
    <3>5. Settled(j)'
      BY <2>1, <2>2, <3>1, <3>4 DEF Settled, DependencySatisfied, DependencyFailed, SUCCESS_STATUSES
    <3>6. \A k \in Ids : Hung(k)
      BY <2>1, <2>2, <3>1, <3>4, <3>5, FollowupsHung
    <3>7. QED
      BY <3>3, <3>6, StillLives
  <2>3. CASE /\ status[j] \notin SUCCESS_STATUSES /\ UNCHANGED <<count, op, dep>>
             /\ status' = [status EXCEPT ![j] = IF @ = "running" THEN "failed" ELSE @]
    <3>1. /\ \A k \in Ids : k # j => status'[k] = status[k]
          /\ status[j] = "running" \/ status'[j] = status[j]
      BY <1>0, <2>3
    <3>2. QED
      BY <1>4, <2>1, <2>3, <3>1
  <2>4. QED
    BY <1>7, <2>2, <2>3 DEF InlineFinish
<1>8. QED
  BY <1>1, <1>2, <1>3, <1>5, <1>6, <1>7 DEF PlanStep

\* Shutdown, death and restart.
LEMMA LivesProcess ==
    ASSUME TypeInv, RowInv, ProcessStep
    PROVE  \A k \in Ids : Lives(k) /\ Hung(k)
<1> USE DEF rowVars, taskVars, tickVars, procVars, ghosts
<1>0. /\ task \in [Ids -> TaskStates] /\ 0 \notin Ids
      /\ \A k \in Ids : Row(k)
  BY BoundsAssumption DEF TypeInv, TypeOK, RowInv, Ids
<1>1. CASE Stop \/ \E i \in Ids : SurvivorExits(i)
  <2>1. UNCHANGED <<count, status, op, dep, task, unrec, inherited, inline, claim>>
    BY <1>1 DEF Stop, SurvivorExits
  <2>2. QED
    BY <1>0, <2>1, NoLife
<1>2. CASE Drain
  <2>1. /\ UNCHANGED <<count, op, dep, task, unrec, inherited, inline, claim>>
        /\ \A k \in Ids : status'[k] = status[k] \/ (status[k] = "queued" /\ status'[k] = "cancelled")
    BY <1>2 DEF Drain
  <2>2. ASSUME NEW k \in Ids PROVE Lives(k)
    <3>1. CASE status'[k] = status[k]
      <4>1. Still(k)
        BY <2>1, <3>1 DEF Still
      <4>2. QED
        BY <1>0, <4>1, StillLives
    <3>2. CASE status[k] = "queued" /\ status'[k] = "cancelled"
      <4>1. ~Settled(k) /\ (Begun(k)' => Begun(k))
        BY <2>1, <3>2 DEF Settled, Begun, DependencySatisfied, SUCCESS_STATUSES
      <4>2. Told(k)'
        BY <1>0, <2>1, <3>2 DEF Told, Row, TERMINAL_STATUSES, SUCCESS_STATUSES
      <4>3. QED
        BY <2>1, <4>1, <4>2 DEF Lives
    <3>3. QED
      BY <2>1, <3>1, <3>2
  <2>3. QED
    BY <2>1, <2>2, KeptHung
<1>3. CASE DrainTimeout
  <2>1. /\ UNCHANGED <<count, op, dep, unrec, inherited, inline, claim>>
        /\ \A k \in Ids : /\ status'[k] = IF task[k] = "executing" THEN "cancelled" ELSE status[k]
                          /\ task'[k] = IF task[k] = "created" THEN "created" ELSE "none"
    BY <1>3 DEF DrainTimeout
  <2>2. ASSUME NEW k \in Ids PROVE Lives(k)
    <3>1. Told(k)'
      BY <2>1 DEF Told
    <3>2. CASE task[k] \in {"created", "executing"}
      BY <2>1, <3>1, <3>2, TaskWorks, WorkLives
    <3>3. CASE task[k] \notin {"created", "executing"}
      <4>1. status'[k] = status[k] /\ task'[k] = "none"
        BY <2>1, <3>3
      <4>2. Settled(k) => Settled(k)'
        BY <2>1, <4>1 DEF Settled, DependencySatisfied, DependencyFailed
      <4>3. Begun(k)' => Begun(k)
        BY <2>1, <4>1 DEF Begun
      <4>4. QED
        BY <2>1, <3>1, <4>2, <4>3 DEF Lives
    <3>4. QED
      BY <3>2, <3>3
  <2>3. QED
    BY <2>1, <2>2, KeptHung
<1>4. ASSUME NEW alive \in SUBSET Ids, Crash(alive) PROVE \A k \in Ids : Lives(k) /\ Hung(k)
  <2>1. /\ UNCHANGED <<count, status, op, dep, inherited, inline>> /\ claim' = 0
        /\ \A k \in Ids : task'[k] = "none" /\ unrec'[k] = NoEntry
    BY <1>4 DEF Crash
  <2>2. ASSUME NEW k \in Ids PROVE Lives(k)
    <3>1. claim' # k /\ Told(k)'
      BY <1>0, <2>1 DEF Told
    <3>2. Settled(k) => Settled(k)'
      BY <2>1, <3>1 DEF Settled, DependencySatisfied, DependencyFailed
    <3>3. Begun(k)' => Begun(k)
      BY <2>1, <3>1 DEF Begun
    <3>4. QED
      BY <2>1, <3>1, <3>2, <3>3 DEF Lives
  <2>3. QED
    BY <2>1, <2>2, KeptHung
<1>5. CASE Restart
  <2>1. /\ UNCHANGED <<count, op, dep, task, unrec, inherited, inline, claim>>
        /\ \A k \in Ids : status'[k] = status[k] \/ status[k] = "running"
        /\ \A k \in Ids : task[k] = "none"
    BY <1>5 DEF Restart, RecoverIndexRows, RowInv, Down
  <2>2. ASSUME NEW k \in Ids PROVE Lives(k)
    <3>1. CASE status'[k] = status[k]
      <4>1. Still(k)
        BY <2>1, <3>1 DEF Still
      <4>2. QED
        BY <1>0, <4>1, StillLives
    <3>2. CASE status[k] = "running"
      <4>1. Begun(k) /\ ~Settled(k) /\ Told(k)'
        BY <2>1, <3>2 DEF Begun, Settled, Told, DependencySatisfied, SUCCESS_STATUSES
      <4>2. QED
        BY <2>1, <4>1, WorkLives
    <3>3. QED
      BY <2>1, <3>1, <3>2
  <2>3. QED
    BY <2>1, <2>2, KeptHung
<1>6. QED
  BY <1>1, <1>2, <1>3, <1>4, <1>5 DEF ProcessStep

\* Without the backup cancel route nothing waits to write over a verdict.
LEMMA RoutesEmpty ==
    ASSUME "cancel_route" \notin Env, routes = {}, [Next]_vars
    PROVE  routes' = {}
<1> USE DEF rowVars, taskVars, tickVars, procVars, ghosts
<1>1. TickStep => UNCHANGED routes
  BY DEF TickStep, TickStart, Sweep, Load, Dispatch, TickEnd, RecordOutcome, Skip, Claim
<1>2. RequestStep => UNCHANGED routes
  BY DEF RequestStep, Submit, ImportConnect, Reconcile, RequestCancel, CancelRun, CancelRouteAsks,
         CancelRouteWrites
<1>3. ASSUME NEW i \in Ids, TaskStep(i) \/ Elapse(i) \/ \E w \in Words : ServiceWrites(i, w)
      PROVE  UNCHANGED routes
  BY <1>3 DEF TaskStep, Elapse, ServiceWrites, Begin, Defer, DeferDone, DeferFails, Finish, Close,
              FinishAfterCreate, TerminalWrite
<1>4. FaultStep => UNCHANGED routes
  BY DEF FaultStep, ClaimLost, TickFails, RecordFails, BeginFails, CloseFails, FinishFails, InlineFinishFails
<1>5. ProcessStep => routes' = {}
  BY DEF ProcessStep, Stop, Drain, DrainTimeout, Crash, Restart, SurvivorExits
<1>6. PlanStep => UNCHANGED routes
  BY DEF PlanStep, PlanEnds, WaiterAsks, InlineStart, InlineVerdict, InlineFinish, InlineRaises
<1>7. QED
  BY <1>1, <1>2, <1>3, <1>4, <1>5, <1>6 DEF Next, vars

\* What every step does to the rows and to what they hang on.
LEMMA LivesStep ==
    ASSUME TypeInv, RowInv, HangInv, [Next]_vars
    PROVE  \A k \in Ids : Lives(k) /\ Hung(k)
<1>0. (\A k \in Ids : Row(k) /\ Told(k)) /\ routes = {}
  BY DEF RowInv, HangInv
<1>1. CASE UNCHANGED vars
  <2>1. UNCHANGED <<count, status, op, dep, task, unrec, inherited, inline, claim>>
    BY <1>1 DEF vars, rowVars, taskVars, tickVars, procVars, ghosts
  <2>2. QED
    BY <1>0, <2>1, NoLife
<1>2. CASE Next
  BY <1>0, <1>2, LivesTick, LivesPlan, LivesFault, LivesRequest, LivesProcess, LivesTask DEF Next
<1>3. QED
  BY <1>1, <1>2

\* A row the runner ran or runs was started on a satisfied dependency and that
\* dependency still reads so, through lost commits, late records, requeues,
\* crashes and chains re-hung under another success (tick's dependency check,
\* enqueue_followups).  The backup cancel route is left out: it writes
\* cancelled over whatever the row says by then, a success the listing
\* already ran after included.
THEOREM RanAfterDependencyAlways ==
    ASSUME "cancel_route" \notin Env
    PROVE  Spec => []RanAfterDependency
<1>1. Init => HangInv
  BY BoundsAssumption DEF Init, HangInv, Hangs, Told, Ids
<1>2. TypeInv /\ RowInv /\ HangInv /\ [Next]_vars => HangInv'
  <2> SUFFICES ASSUME TypeInv, RowInv, HangInv, [Next]_vars PROVE HangInv'
    OBVIOUS
  <2>1. \A k \in Ids : Lives(k) /\ Hung(k) /\ Row(k) /\ Hangs(k) /\ Told(k)
    BY LivesStep DEF RowInv, HangInv
  <2>2. routes' = {}
    BY RoutesEmpty DEF HangInv
  <2>3. \A k \in Ids : Told(k)'
    BY <2>1 DEF Lives
  <2>4. ASSUME NEW k \in Ids, k <= count', k \notin inline', dep'[k] # 0
        PROVE  /\ dep'[k] \in Ids /\ dep'[k] <= count'
               /\ IsIndex(dep[k])' \/ Settled(dep[k])'
               /\ Begun(k)' => Settled(dep[k])'
    <3>1. CASE k <= count /\ dep'[k] = dep[k]
      <4>1. k \notin inline
        BY <2>1, <2>4 DEF Lives
      <4>2. /\ dep[k] \in Ids /\ dep[k] <= count
            /\ IsIndex(dep[k]) \/ Settled(dep[k])
            /\ Begun(k) => Settled(dep[k])
        BY <2>1, <2>4, <3>1, <4>1 DEF Hangs
      <4>3. PICK d \in Ids : d = dep[k]
        BY <4>2
      <4>4. d <= count' /\ op'[d] = op[d] /\ (Settled(d) => Settled(d)')
        BY <2>1, <4>2, <4>3 DEF Lives
      <4>5. IsIndex(d)' \/ Settled(d)'
        BY <4>2, <4>3, <4>4 DEF IsIndex
      <4>6. Begun(k)' => Settled(d)'
        <5>1. CASE Begun(k)
          BY <4>2, <4>3, <4>4, <5>1
        <5>2. CASE Claim(k)
          <6>1. DependencySatisfied(status, d)
            BY <2>4, <3>1, <4>3, <5>2 DEF Claim, NextCandidate, Passed, ToSkip, DependencyPending
          <6>2. Settled(d)
            BY <2>1, <4>2, <4>3, <6>1, IndexSettled
          <6>3. QED
            BY <4>4, <6>2
        <5>3. Begun(k)' => Begun(k) \/ Claim(k)
          <6>1. k \in Nat /\ count \in Nat
            BY BoundsAssumption DEF TypeInv, TypeOK, Ids
          <6>2. QED
            BY <2>1, <3>1, <6>1 DEF Lives
        <5>4. QED
          BY <5>1, <5>2, <5>3
      <4>7. QED
        BY <3>1, <4>3, <4>4, <4>5, <4>6
    <3>2. CASE ~(k <= count /\ dep'[k] = dep[k])
      BY <2>1, <2>4, <3>2 DEF Hung
    <3>3. QED
      BY <3>1, <3>2
  <2>5. \A k \in Ids : Hangs(k)'
    BY <2>4 DEF Hangs
  <2>6. QED
    BY <2>2, <2>3, <2>5 DEF HangInv
<1>3. TypeInv /\ RowInv /\ HangInv => RanAfterDependency
  <2> SUFFICES ASSUME TypeInv, RowInv, HangInv, NEW i \in Ids, i \notin inline, dep[i] # 0,
                      status[i] \in {"running", "completed", "completed_with_warnings", "failed"}
               PROVE  DependencySatisfied(status, dep[i])
    BY DEF RanAfterDependency
  <2>1. ~(i > count)
    BY DEF RowInv, Row, Blank
  <2>2. i <= count
    BY <2>1, BoundsAssumption DEF TypeInv, TypeOK, Ids
  <2>3. QED
    BY <2>2 DEF HangInv, Hangs, Begun, Settled
<1>4. QED
  BY <1>1, <1>2, <1>3, RowInvAlways, PTL DEF Spec
=============================================================================
