------------------------- MODULE AgentUpgradesProofs -------------------------
(***************************************************************************)
(* The upgrades, for any fleet and any timeout.  An endpoint that is       *)
(* claimed for an upgrade runs no job, whatever the server's waves, the    *)
(* reaper and the root helper do meanwhile (ClaimInv).  No more endpoints  *)
(* than the cap hold a slot, and each of them is stamped (SlotInv), but    *)
(* for the rows that a hello resolved while they waited in a wave.         *)
(***************************************************************************)
EXTENDS AgentUpgrades, FiniteSetTheorems, WellFoundedInduction, TLAPS

\* The endpoint's claim and the place of its job are what they should be, and
\* do not meet.
ClaimInv ==
    /\ claim \in [Agents -> 0..Timeout]
    /\ jobAt \in [Agents -> {None, "registered", "runs"}]
    /\ ClaimAlone

\* The steps of the server touch neither.
LEMMA ServerLeaves ==
    ASSUME \/ \E r \in Routes : Upgrade(r)
           \/ \E r \in Releasers : ServerStep(r)
           \/ ReaperWave \/ ReapRead \/ ReapWrite \/ ServerRestart
    PROVE  UNCHANGED <<claim, jobAt>>
  BY DEF Upgrade, ServerStep, Dispatch, Answered, WaveAborts, ReaperWave, ReapRead, ReapWrite,
     ServerRestart, endpoint

\* The claim is taken with no job registered, and a registered job looks for
\* it before it runs.
LEMMA EndpointKeeps ==
    ASSUME ClaimInv, NEW a \in Agents, AgentStep(a)
    PROVE  ClaimInv'
  <1>0. Timeout \in 0..Timeout /\ 0 \in 0..Timeout
    BY UpgradeAssumption
  <1>1. CASE UNCHANGED <<claim, jobAt>>
    BY <1>1 DEF ClaimInv, ClaimAlone
  <1>2. CASE LeftJobEnds(a) \/ HelloRead(a) \/ HelloCommit(a) \/ Drop(a) \/ HelperAborts(a)
    BY <1>1, <1>2 DEF LeftJobEnds, HelloRead, HelloCommit, Drop, HelperAborts, endpoint
  <1>3. ASSUME NEW r \in Releasers, AgentReserves(a, r) PROVE ClaimInv'
    <2>1. CASE CanReserve(a)
      <3>1. jobAt[a] = None /\ claim' = [claim EXCEPT ![a] = Timeout] /\ UNCHANGED jobAt
        BY <1>3, <2>1 DEF AgentReserves, CanReserve
      <3>2. QED
        BY <1>0, <3>1 DEF ClaimInv, ClaimAlone, None
    <2>2. CASE ~CanReserve(a)
      BY <1>1, <1>3, <2>2 DEF AgentReserves
    <2>3. QED
      BY <2>1, <2>2
  <1>4. CASE AgentTriggers(a)
    <2>1. /\ claim' = claim \/ claim' = [claim EXCEPT ![a] = 0]
          /\ UNCHANGED jobAt
      BY <1>4 DEF AgentTriggers, ClaimInv
    <2>2. QED
      BY <1>0, <2>1 DEF ClaimInv, ClaimAlone
  <1>5. CASE HelperRuns(a)
    <2>1. claim' = [claim EXCEPT ![a] = 0] /\ jobAt' = [jobAt EXCEPT ![a] = None]
      BY <1>5 DEF HelperRuns
    <2>2. QED
      BY <1>0, <2>1 DEF ClaimInv, ClaimAlone
  <1>6. CASE JobArrives(a) \/ JobRefused(a) \/ JobEnds(a)
    <2>1. /\ \E to \in {None, "registered"} : jobAt' = [jobAt EXCEPT ![a] = to]
          /\ UNCHANGED claim
      BY <1>6 DEF JobArrives, JobRefused, JobEnds, JobMoves
    <2>2. QED
      BY <2>1 DEF ClaimInv, ClaimAlone, None
  <1>7. CASE JobStarts(a)
    <2>1. ~(claim[a] > 0) /\ jobAt' = [jobAt EXCEPT ![a] = "runs"] /\ UNCHANGED claim
      BY <1>7 DEF JobStarts, JobMoves, RefusedByClaim
    <2>2. QED
      BY <2>1 DEF ClaimInv, ClaimAlone
  <1>8. QED
    BY <1>2, <1>3, <1>4, <1>5, <1>6, <1>7 DEF AgentStep

\* While an endpoint is claimed for an upgrade no job's handler runs in it: the
\* claim is refused while a job is registered, the job registered under a
\* claim is refused by its worker, and the claim ends with the helper's
\* restart, which ends the job too, or by its timeout (_reserve_for_upgrade,
\* _handle_command, _upgrade_claimed).
THEOREM ClaimAloneAlways == Spec => []ClaimAlone
  <1>1. Init => ClaimInv
    BY UpgradeAssumption DEF Init, ClaimInv, ClaimAlone
  <1>2. ClaimInv /\ [Next]_vars => ClaimInv'
    <2> SUFFICES ASSUME ClaimInv, [Next]_vars PROVE ClaimInv'
      OBVIOUS
    <2>1. CASE UNCHANGED <<claim, jobAt>>
      BY <2>1 DEF ClaimInv, ClaimAlone
    <2>2. CASE Tick
      <3>1. /\ claim' = [a \in Agents |-> IF claim[a] > 0 THEN claim[a] - 1 ELSE 0]
            /\ UNCHANGED jobAt
        BY <2>2 DEF Tick
      <3>2. QED
        BY <3>1, UpgradeAssumption DEF ClaimInv, ClaimAlone
    <2>3. QED
      BY <2>1, <2>2, ServerLeaves, EndpointKeeps DEF Next, Step, vars, system, endpoint
  <1>3. ClaimInv => ClaimAlone
    BY DEF ClaimInv
  <1>4. QED
    BY <1>1, <1>2, <1>3, PTL DEF Spec
-----------------------------------------------------------------------------
\* The slots.

\* A set of ids has a lowest one, which First picks.
LEMMA FirstIn ==
    ASSUME NEW S \in SUBSET Nat, S # {}
    PROVE  First(S) \in S
  <1>1. \A y, z \in Nat : y < z => <<y, z>> \in OpToRel(<, Nat)
    BY Zenon DEF OpToRel
  <1>2. PICK x \in S : \A y \in S : <<y, x>> \notin OpToRel(<, Nat)
    BY NatLessThanWellFounded, WFMin
  <1>3. \A y \in S : ~(y < x)
    BY <1>1, <1>2, Zenon
  <1>4. \A y \in S : x <= y
    <2>1. x \in Nat /\ \A y \in S : y \in Nat
      OBVIOUS
    <2>2. QED
      BY <1>3, <2>1
  <1>5. QED
    BY <1>4 DEF First

\* Numbers that grow with the ids leave room for no more than `free` ids below
\* `free`.
LEMMA RanksFit ==
    ASSUME NEW Q \in SUBSET Nat, NEW free \in Int, NEW rank \in [Q -> Nat],
           \A a, b \in Q : a < b => rank[a] < rank[b],
           NEW low, low = {a \in Q : rank[a] < free}
    PROVE  IsFiniteSet(low) /\ (low # {} => Cardinality(low) <= free)
  <1>0. ASSUME NEW a \in low PROVE a \in Q /\ rank[a] \in 0..(free - 1) /\ free > 0
    <2>1. a \in Q /\ rank[a] < free
      OBVIOUS
    <2>2. PICK n \in Nat : n = rank[a]
      BY <2>1
    <2>3. n < free
      BY <2>1, <2>2
    <2>4. n \in 0..(free - 1) /\ free > 0
      BY <2>3
    <2>5. QED
      BY <2>1, <2>2, <2>4
  <1>1. PICK place : place = [a \in low |-> rank[a]]
    OBVIOUS
  <1>2. place \in Injection(low, 0..(free - 1))
    <2>1. place \in [low -> 0..(free - 1)]
      BY <1>0, <1>1
    <2>2. ASSUME NEW a \in low, NEW b \in low, place[a] = place[b] PROVE a = b
      <3>1. a \in Q /\ b \in Q /\ a \in Nat /\ b \in Nat /\ rank[a] = rank[b]
        BY <1>1, <2>2
      <3>2. ~(a < b) /\ ~(b < a)
        BY <3>1
      <3>3. QED
        BY <3>1, <3>2
    <2>3. QED
      BY <2>1, <2>2 DEF Injection, IsInjective
  <1>3. /\ IsFiniteSet(0..(free - 1))
        /\ Cardinality(0..(free - 1)) = IF 0 > free - 1 THEN 0 ELSE free - 1 - 0 + 1
    BY FS_Interval
  <1>4. IsFiniteSet(low) /\ Cardinality(low) <= Cardinality(0..(free - 1))
    BY <1>2, <1>3, FS_Injection
  <1>5. low # {} => free > 0
    BY <1>0
  <1>6. Cardinality(low) \in Nat
    BY <1>4, FS_CardinalityType
  <1>7. QED
    BY <1>3, <1>4, <1>5, <1>6

\* Among finitely many ids no more than `free` have less than `free` ids before
\* them: the number of ids before it tells any two of them apart.
LEMMA LowestFit ==
    ASSUME NEW Q \in SUBSET Nat, IsFiniteSet(Q), NEW free \in Int,
           NEW low, low = {a \in Q : Cardinality({b \in Q : b < a}) < free}
    PROVE  IsFiniteSet(low) /\ (low # {} => Cardinality(low) <= free)
  <1>1. \A a \in Q : Cardinality({b \in Q : b < a}) \in Nat
    BY FS_Subset, FS_CardinalityType
  <1>2. ASSUME NEW a \in Q, NEW b \in Q, a < b
        PROVE  Cardinality({c \in Q : c < a}) < Cardinality({c \in Q : c < b})
    <2>1. PICK X, Y : X = {c \in Q : c < a} /\ Y = {c \in Q : c < b}
      OBVIOUS
    <2>2. X \subseteq Q /\ Y \subseteq Q /\ a \notin X
      BY <2>1
    <2>3. X \cup {a} \subseteq Y
      <3>1. a \in Y
        BY <1>2, <2>1
      <3>2. ASSUME NEW c \in X PROVE c \in Y
        <4>1. c \in Q /\ c < a
          BY <2>1
        <4>2. c \in Nat /\ a \in Nat /\ b \in Nat
          BY <4>1
        <4>3. c < b
          BY <1>2, <4>1, <4>2
        <4>4. QED
          BY <2>1, <4>1, <4>3
      <3>3. QED
        BY <3>1, <3>2
    <2>4. IsFiniteSet(X) /\ IsFiniteSet(Y)
      BY <2>2, FS_Subset
    <2>5. Cardinality(X \cup {a}) = Cardinality(X) + 1
      BY <2>2, <2>4, FS_AddElement
    <2>6. Cardinality(X \cup {a}) <= Cardinality(Y)
      BY <2>3, <2>4, FS_Subset
    <2>7. Cardinality(X) < Cardinality(Y)
      BY <2>4, <2>5, <2>6, FS_CardinalityType
    <2>8. QED
      BY <2>1, <2>7
  <1>3. PICK rank : rank = [a \in Q |-> Cardinality({b \in Q : b < a})]
    OBVIOUS
  <1>4. /\ rank \in [Q -> Nat] /\ \A a, b \in Q : a < b => rank[a] < rank[b]
        /\ low = {a \in Q : rank[a] < free}
    BY <1>1, <1>2, <1>3
  <1>5. QED
    BY <1>4, RanksFit

\* What the next states keep of the history: a row stays overtaken as long as it
\* is in a wave or in flight.
Recalls ==
    /\ overtaken' \subseteq Agents
    /\ \A a \in overtaken : \/ a \in overtaken'
                            \/ state'[a] # "requested" /\ \A r \in Releasers : a \notin wave'[r]

\* The columns the waves work on.
WaveTypes ==
    /\ available \in 2..MaxVersion /\ target \in [Agents -> {0} \cup 2..MaxVersion]
    /\ state \in [Agents -> States] /\ stamp \in [Agents -> Stamps]
    /\ wave \in [Releasers -> SUBSET Agents] /\ sent \in [Releasers -> Rows \cup {NoRow}]
    /\ overtaken \subseteq Agents

\* The job of a row that was sent to keeps the route from taking it again, and
\* unless it was overtaken the row was requested when it was loaded.
SentInv == \A r \in Releasers : sent[r] # NoRow =>
    /\ wave[r] # {} /\ <<First(wave[r]), r>> \in jobs
    /\ First(wave[r]) \notin overtaken => sent[r].state = "requested"

\* A row that waits for its command holds its slot and is not timed out, unless
\* it was overtaken.
WaitsInv == \A r \in Releasers : \A a \in Undispatched(r) :
    a \notin overtaken => state[a] = "requested" /\ stamp[a] \in 0..Timeout

\* A row is in one wave and is not queued for another, unless it was overtaken.
OneWave ==
    /\ \A r \in Releasers : \A a \in wave[r] : a \notin overtaken => state[a] # "queued"
    /\ \A r, q \in Releasers : \A a \in wave[r] : a \in wave[q] /\ a \notin overtaken => r = q

SlotInv == WaveTypes /\ SentInv /\ WaitsInv /\ OneWave /\ SlotsTimed /\ CapHolds

\* A stuttering step recalls, and so does the history variable.
LEMMA RemembersRecalls ==
    ASSUME SlotInv, Remembers \/ UNCHANGED overtaken
    PROVE  Recalls
  <1>1. CASE UNCHANGED overtaken
    BY <1>1 DEF Recalls, SlotInv, WaveTypes
  <1>2. CASE Remembers
    <2>1. overtaken \subseteq Agents
      BY DEF SlotInv, WaveTypes
    <2>2. QED
      BY <1>2, <2>1 DEF Remembers, Recalls
  <1>3. QED
    BY <1>1, <1>2

\* A row of a wave or in flight that is not overtaken was not overtaken before.
LEMMA NotOvertaken ==
    ASSUME Recalls, NEW a, a \notin overtaken',
           state'[a] = "requested" \/ \E r \in Releasers : a \in wave'[r]
    PROVE  a \notin overtaken
  BY DEF Recalls

\* Without another row in a slot the cap is kept.
LEMMA FewerSlots ==
    ASSUME CapHolds, \A a \in Slots' : a \in Slots
    PROVE  CapHolds'
  <1>1. PICK X, Y : X = Slots /\ Y = Slots'
    OBVIOUS
  <1>2. X \subseteq Agents /\ Y \subseteq X
    BY <1>1 DEF Slots
  <1>3. IsFiniteSet(X)
    BY <1>2, UpgradeAssumption, FS_Subset
  <1>4. Cardinality(X) \in Nat /\ Cardinality(Y) \in Nat /\ Cardinality(Y) <= Cardinality(X)
    BY <1>2, <1>3, FS_Subset, FS_CardinalityType
  <1>5. Cardinality(X) <= Cap
    BY <1>1 DEF CapHolds
  <1>6. Cardinality(Y) <= Cap
    BY <1>4, <1>5, UpgradeAssumption
  <1>7. QED
    BY <1>1, <1>6 DEF CapHolds

\* No row comes into a slot and none loses its stamp there: the slots are kept.
LEMMA SlotsShrink ==
    ASSUME SlotInv, Recalls,
           \A a \in Agents : state'[a] = "requested" /\ a \notin overtaken =>
               state[a] = "requested" /\ (stamp'[a] = stamp[a] \/ stamp'[a] # NoStamp)
    PROVE  SlotsTimed' /\ CapHolds'
  <1>1. ASSUME NEW a \in Slots' PROVE a \in Slots /\ stamp'[a] # NoStamp
    <2>1. a \in Agents /\ state'[a] = "requested" /\ a \notin overtaken'
      BY <1>1 DEF Slots
    <2>2. a \notin overtaken
      BY <2>1, NotOvertaken
    <2>3. a \in Slots /\ (stamp'[a] = stamp[a] \/ stamp'[a] # NoStamp)
      BY <2>1, <2>2 DEF Slots
    <2>4. stamp[a] # NoStamp
      BY <2>3 DEF SlotInv, SlotsTimed
    <2>5. QED
      BY <2>3, <2>4
  <1>2. SlotsTimed'
    BY <1>1 DEF SlotsTimed
  <1>3. CapHolds'
    BY <1>1, FewerSlots DEF SlotInv
  <1>4. QED
    BY <1>2, <1>3

\* The columns above do not change: neither does the invariant.
LEMMA SlotKept ==
    ASSUME SlotInv, Recalls, UNCHANGED <<available, state, target, stamp, jobs, wave, sent>>
    PROVE  SlotInv'
  <1>1. SlotsTimed' /\ CapHolds'
    BY SlotsShrink
  <1>2. WaveTypes'
    BY DEF SlotInv, WaveTypes, Recalls
  <1>3. \A r \in Releasers : \A a \in wave[r] : a \notin overtaken' => a \notin overtaken
    BY NotOvertaken
  <1>4. SentInv'
    <2>1. ASSUME NEW r \in Releasers, sent[r] # NoRow, First(wave[r]) \notin overtaken'
          PROVE  sent[r].state = "requested"
      <3>1. wave[r] # {} /\ wave[r] \in SUBSET Nat
        BY <2>1, UpgradeAssumption DEF SlotInv, SentInv, WaveTypes
      <3>2. First(wave[r]) \in wave[r]
        BY <3>1, FirstIn
      <3>3. QED
        BY <1>3, <2>1, <3>2 DEF SlotInv, SentInv
    <2>2. QED
      BY <2>1 DEF SlotInv, SentInv
  <1>5. \A r \in Releasers : Undispatched(r)' = Undispatched(r) /\ Undispatched(r) \subseteq wave[r]
    BY DEF Undispatched
  <1>6. WaitsInv'
    BY <1>3, <1>5 DEF SlotInv, WaitsInv
  <1>7. OneWave'
    BY <1>3 DEF SlotInv, OneWave
  <1>8. QED
    BY <1>1, <1>2, <1>4, <1>6, <1>7 DEF SlotInv

\* The ids are natural numbers, so a wave that is not over has a next row.
LEMMA NextRow ==
    ASSUME SlotInv, NEW r \in Releasers, wave[r] # {}
    PROVE  First(wave[r]) \in wave[r] /\ First(wave[r]) \in Agents
  <1>1. wave[r] \in SUBSET Agents /\ wave[r] \in SUBSET Nat
    BY UpgradeAssumption DEF SlotInv, WaveTypes
  <1>2. QED
    BY <1>1, FirstIn

\* What a release claims was queued, and fits in what the requested rows leave
\* or is nothing at all.
LEMMA ClaimedFits ==
    ASSUME NEW st \in [Agents -> States]
    PROVE  /\ \A a \in Claimed(st) : a \in Agents /\ st[a] = "queued"
           /\ \/ Claimed(st) = {}
              \/ /\ IsFiniteSet({a \in Agents : a \in Claimed(st) \/ st[a] = "requested"})
                 /\ Cardinality({a \in Agents : a \in Claimed(st) \/ st[a] = "requested"}) <= Cap
  <1>1. PICK X, Q : X = {a \in Agents : st[a] = "requested"}
                    /\ Q = {a \in Agents : st[a] = "queued"}
    OBVIOUS
  <1>2. X \subseteq Agents /\ Q \subseteq Agents /\ Q \in SUBSET Nat
    BY <1>1, UpgradeAssumption
  <1>3. IsFiniteSet(X) /\ IsFiniteSet(Q)
    BY <1>2, UpgradeAssumption, FS_Subset
  <1>4. Cardinality(X) \in Nat /\ Cap \in Nat
    BY <1>3, UpgradeAssumption, FS_CardinalityType
  <1>5. PICK free \in Int : free = Cap - Cardinality(X)
    BY <1>4
  <1>6. Claimed(st) = {a \in Q : Cardinality({b \in Q : b < a}) < free}
    BY <1>1, <1>5 DEF Claimed
  <1>7. PICK C : C = Claimed(st)
    OBVIOUS
  <1>8. IsFiniteSet(C) /\ (C # {} => Cardinality(C) <= free)
    BY <1>2, <1>3, <1>6, <1>7, LowestFit
  <1>9. C \subseteq Q
    BY <1>6, <1>7
  <1>10. C \cap X = {}
    BY <1>1, <1>9
  <1>11. Cardinality(X \cup C) = Cardinality(X) + Cardinality(C) /\ IsFiniteSet(X \cup C)
    <2>1. /\ Cardinality(X \cup C) = Cardinality(X) + Cardinality(C) - Cardinality(X \cap C)
          /\ IsFiniteSet(X \cup C)
      BY <1>3, <1>8, FS_Union
    <2>2. Cardinality(X \cap C) = 0
      BY <1>10, FS_EmptySet
    <2>3. Cardinality(C) \in Nat
      BY <1>8, FS_CardinalityType
    <2>4. QED
      BY <1>4, <2>1, <2>2, <2>3
  <1>12. C # {} => Cardinality(X \cup C) <= Cap
    <2> SUFFICES ASSUME C # {} PROVE Cardinality(X \cup C) <= Cap
      OBVIOUS
    <2>1. Cardinality(C) \in Nat /\ Cardinality(C) <= free
      BY <1>8, FS_CardinalityType
    <2>2. QED
      BY <1>4, <1>5, <1>11, <2>1
  <1>13. {a \in Agents : a \in Claimed(st) \/ st[a] = "requested"} = X \cup C
    BY <1>1, <1>2, <1>7, <1>9
  <1>14. QED
    BY <1>1, <1>7, <1>9, <1>11, <1>12, <1>13

\* A release over the states st, of which those that are not in the columns yet
\* were just queued and are in no wave but as overtaken.
LEMMA ReleaseKeeps ==
    ASSUME SlotInv, Recalls, NEW r \in Releasers, wave[r] = {},
           NEW st \in [Agents -> States], NEW sp \in [Agents -> Stamps], Release(r, st, sp),
           \A a \in Agents : \/ st[a] = state[a] /\ sp[a] = stamp[a]
                             \/ /\ st[a] = "queued"
                                /\ \A q \in Releasers : a \in wave[q] => a \in overtaken,
           UNCHANGED <<available, jobs, sent>>, target' \in [Agents -> {0} \cup 2..MaxVersion]
    PROVE  SlotInv'
  <1>1. PICK taken : taken = Claimed(st)
    OBVIOUS
  <1>2. /\ state' = [a \in Agents |-> IF a \in taken THEN "requested" ELSE st[a]]
        /\ stamp' = [a \in Agents |-> IF a \in taken THEN 0 ELSE sp[a]]
        /\ wave' = [wave EXCEPT ![r] = taken]
    BY <1>1 DEF Release
  <1>3. \A a \in taken : a \in Agents /\ st[a] = "queued"
    BY <1>1, ClaimedFits
  <1>5. \A q \in Releasers : \A a \in wave[q] : a \in Agents
    BY DEF SlotInv, WaveTypes
  <1>6. \A q \in Releasers : \A a \in wave[q] : a \notin overtaken =>
           st[a] = state[a] /\ sp[a] = stamp[a] /\ a \notin taken
    BY <1>3, <1>5 DEF SlotInv, OneWave
  <1>7. sent[r] = NoRow
    BY DEF SlotInv, SentInv
  <1>8. \A q \in Releasers : q # r => wave'[q] = wave[q]
    BY <1>2 DEF SlotInv, WaveTypes
  <1>9. wave'[r] = taken
    BY <1>2 DEF SlotInv, WaveTypes
  <1>9a. \A q \in Releasers : \A a \in wave'[q] : a \notin overtaken' => a \notin overtaken
    BY NotOvertaken
  <1>10. WaveTypes'
    <2>1. taken \in SUBSET Agents /\ 0 \in Stamps /\ "requested" \in States
      BY <1>3, UpgradeAssumption DEF Stamps, Ages, States
    <2>2. QED
      BY <1>2, <2>1 DEF SlotInv, WaveTypes, Recalls
  <1>11. SentInv'
    <2> SUFFICES ASSUME NEW q \in Releasers, sent'[q] # NoRow
                 PROVE  /\ wave'[q] # {} /\ <<First(wave'[q]), q>> \in jobs'
                        /\ First(wave'[q]) \notin overtaken' => sent'[q].state = "requested"
      BY DEF SentInv
    <2>1. q # r /\ sent[q] # NoRow /\ wave'[q] = wave[q]
      BY <1>7, <1>8
    <2>2. wave[q] # {}
      BY <2>1 DEF SlotInv, SentInv
    <2>3. First(wave[q]) \in wave[q]
      BY <2>2, NextRow
    <2>4. QED
      BY <1>9a, <2>1, <2>3 DEF SlotInv, SentInv
  <1>12. WaitsInv'
    <2> SUFFICES ASSUME NEW q \in Releasers, NEW a \in Undispatched(q)', a \notin overtaken'
                 PROVE  state'[a] = "requested" /\ stamp'[a] \in 0..Timeout
      BY DEF WaitsInv
    <2>1. CASE q = r
      <3>1. a \in taken
        BY <1>7, <1>9, <2>1 DEF Undispatched
      <3>2. QED
        BY <1>2, <1>3, <3>1, UpgradeAssumption
    <2>2. CASE q # r
      <3>1. a \in Undispatched(q) /\ a \in wave[q] /\ a \in wave'[q]
        BY <1>8, <2>2 DEF Undispatched
      <3>2. a \notin overtaken
        BY <1>9a, <3>1
      <3>3. state[a] = "requested" /\ stamp[a] \in 0..Timeout /\ a \in Agents
        BY <1>5, <3>1, <3>2 DEF SlotInv, WaitsInv
      <3>4. QED
        BY <1>2, <1>6, <3>1, <3>2, <3>3
    <2>3. QED
      BY <2>1, <2>2
  <1>13. OneWave'
    <2>1. ASSUME NEW q \in Releasers, NEW a \in wave'[q], a \notin overtaken'
          PROVE  state'[a] # "queued"
      <3>1. CASE q = r
        BY <1>2, <1>3, <1>9, <2>1, <3>1
      <3>2. CASE q # r
        <4>1. a \in wave[q] /\ a \in Agents /\ a \notin overtaken
          BY <1>5, <1>8, <1>9a, <2>1, <3>2
        <4>2. QED
          BY <1>2, <1>6, <4>1 DEF SlotInv, OneWave
      <3>3. QED
        BY <3>1, <3>2
    <2>2. ASSUME NEW q \in Releasers, NEW p \in Releasers, NEW a \in wave'[q], a \in wave'[p],
                 a \notin overtaken'
          PROVE  q = p
      <3>1. a \notin overtaken
        BY <1>9a, <2>2
      <3>2. QED
        BY <1>6, <1>8, <1>9, <2>2, <3>1 DEF SlotInv, OneWave
    <2>3. QED
      BY <2>1, <2>2 DEF OneWave
  <1>14. ASSUME NEW a \in Slots' PROVE a \in taken \/ (a \in Slots /\ stamp'[a] = stamp[a])
    <2>1. a \in Agents /\ state'[a] = "requested" /\ a \notin overtaken'
      BY <1>14 DEF Slots
    <2>2. a \notin overtaken
      BY <2>1, NotOvertaken
    <2>3. QED
      BY <1>2, <2>1, <2>2 DEF Slots
  <1>15. SlotsTimed'
    <2> SUFFICES ASSUME NEW a \in Slots' PROVE stamp'[a] # NoStamp
      BY DEF SlotsTimed
    <2>1. CASE a \in taken
      BY <1>2, <1>3, <2>1 DEF NoStamp
    <2>2. CASE a \notin taken
      BY <1>14, <2>2 DEF SlotInv, SlotsTimed
    <2>3. QED
      BY <2>1, <2>2
  <1>16. CapHolds'
    <2>1. CASE taken = {}
      BY <1>14, <2>1, FewerSlots DEF SlotInv
    <2>2. CASE taken # {}
      <3>1. PICK F : F = {a \in Agents : a \in taken \/ st[a] = "requested"}
        OBVIOUS
      <3>2. IsFiniteSet(F) /\ Cardinality(F) <= Cap
        BY <1>1, <2>2, <3>1, ClaimedFits
      <3>3. PICK Y : Y = Slots'
        OBVIOUS
      <3>4. Y \subseteq F
        BY <1>2, <3>1, <3>3 DEF Slots
      <3>5. Cardinality(Y) \in Nat /\ Cardinality(F) \in Nat /\ Cardinality(Y) <= Cardinality(F)
        BY <3>2, <3>4, FS_Subset, FS_CardinalityType
      <3>6. Cardinality(Y) <= Cap
        BY <3>2, <3>5, UpgradeAssumption
      <3>7. QED
        BY <3>3, <3>6 DEF CapHolds
    <2>3. QED
      BY <2>1, <2>2
  <1>17. QED
    BY <1>10, <1>11, <1>12, <1>13, <1>15, <1>16 DEF SlotInv

\* The route takes no row of a wave but one that was overtaken: one that was sent
\* to has a job, another that has not been sent to is requested.
LEMMA UpgradeKeepsSlots ==
    ASSUME SlotInv, Recalls, NEW r \in Routes, Upgrade(r)
    PROVE  SlotInv'
  <1>0. PICK accepted : accepted = {a \in Asks[r] : Accepts(a)}
    OBVIOUS
  <1>1. PICK st, sp :
          /\ st = [a \in Agents |-> IF a \in accepted THEN "queued" ELSE state[a]]
          /\ sp = [a \in Agents |-> IF a \in accepted THEN NoStamp ELSE stamp[a]]
    OBVIOUS
  <1>2. /\ target' = [a \in Agents |-> IF a \in accepted THEN available ELSE target[a]]
        /\ Release(r, st, sp) /\ wave[r] = {} /\ UNCHANGED <<available, jobs, sent>>
    BY <1>0, <1>1 DEF Upgrade
  <1>3. LoopFree /\ r \in Releasers
    BY DEF Upgrade, Releasers
  <1>4. /\ st \in [Agents -> States] /\ sp \in [Agents -> Stamps]
        /\ target' \in [Agents -> {0} \cup 2..MaxVersion]
    BY <1>1, <1>2 DEF SlotInv, WaveTypes, States, Stamps
  <1>5. ASSUME NEW a \in accepted, NEW q \in Releasers, a \in wave[q] PROVE a \in overtaken
    <2>1. sent[q] # NoRow
      BY <1>3, <1>5 DEF LoopFree
    <2>2. /\ ~\E j \in jobs : j[1] = a
          /\ state[a] # "requested"
      BY <1>0 DEF Accepts
    <2>3. a # First(wave[q])
      BY <2>1, <2>2 DEF SlotInv, SentInv
    <2>4. a \in Undispatched(q)
      BY <1>5, <2>1, <2>3 DEF Undispatched
    <2>5. QED
      BY <2>2, <2>4 DEF SlotInv, WaitsInv
  <1>6. \A a \in Agents : \/ st[a] = state[a] /\ sp[a] = stamp[a]
                          \/ /\ st[a] = "queued"
                             /\ \A q \in Releasers : a \in wave[q] => a \in overtaken
    BY <1>1, <1>5
  <1>7. QED
    BY <1>2, <1>3, <1>4, <1>6, ReleaseKeeps

\* The reaper releases over the columns as they are.
LEMMA ReaperWaveKeepsSlots ==
    ASSUME SlotInv, Recalls, ReaperWave
    PROVE  SlotInv'
  <1>1. /\ wave["reaper"] = {} /\ "reaper" \in Releasers /\ Release("reaper", state, stamp)
        /\ UNCHANGED <<available, jobs, sent, target>>
    BY DEF ReaperWave, Releasers
  <1>2. /\ state \in [Agents -> States] /\ stamp \in [Agents -> Stamps]
        /\ target' \in [Agents -> {0} \cup 2..MaxVersion]
    BY <1>1 DEF SlotInv, WaveTypes
  <1>3. QED
    BY <1>1, <1>2, ReleaseKeeps

\* The end of a command: a row that was not overtaken was requested when it was
\* loaded, so the answer leaves its state alone or turns it failed.
LEMMA RecordedRow ==
    ASSUME SlotInv, NEW r \in Releasers, NEW a \in Agents, NEW loaded, NEW outcome,
           Recorded(r, a, loaded, outcome)
    PROVE  /\ \E s \in {state[a], "requested", "failed"} : state' = [state EXCEPT ![a] = s]
           /\ \E s \in {stamp[a], 0, NoStamp} : stamp' = [stamp EXCEPT ![a] = s]
           /\ loaded.state = "requested" =>
                 \/ state'[a] = state[a] /\ stamp'[a] = 0
                 \/ state'[a] = "failed"
  <1>1. state \in [Agents -> States] /\ stamp \in [Agents -> Stamps]
    BY DEF SlotInv, WaveTypes
  <1>2. CASE outcome = "ok"
    BY <1>1, <1>2 DEF Recorded, Write
  <1>3. CASE outcome # "ok"
    BY <1>1, <1>3 DEF Recorded, Write
  <1>4. QED
    BY <1>2, <1>3

\* Recording the end of a command keeps the slots.
LEMMA RecordedKeepsSlots ==
    ASSUME SlotInv, Recalls, NEW r \in Releasers, wave[r] # {}, NEW loaded,
           First(wave[r]) \notin overtaken => loaded.state = "requested", NEW outcome,
           Recorded(r, First(wave[r]), loaded, outcome), UNCHANGED <<available, target>>
    PROVE  SlotInv'
  <1>1. PICK a \in Agents : a = First(wave[r]) /\ a \in wave[r]
    BY NextRow
  <1>2. /\ wave' = [wave EXCEPT ![r] = @ \ {a}] /\ sent' = [sent EXCEPT ![r] = NoRow]
        /\ jobs' = jobs \ {<<a, r>>}
    BY <1>1 DEF Recorded
  <1>3. /\ \E s \in {state[a], "requested", "failed"} : state' = [state EXCEPT ![a] = s]
        /\ \E s \in {stamp[a], 0, NoStamp} : stamp' = [stamp EXCEPT ![a] = s]
        /\ a \notin overtaken =>
              \/ state'[a] = state[a] /\ stamp'[a] = 0
              \/ state'[a] = "failed"
    BY <1>1, RecordedRow
  <1>4. /\ WaveTypes /\ wave'[r] = wave[r] \ {a} /\ sent'[r] = NoRow
        /\ \A q \in Releasers : q # r => wave'[q] = wave[q] /\ sent'[q] = sent[q]
        /\ \A b \in Agents : b # a => state'[b] = state[b] /\ stamp'[b] = stamp[b]
    BY <1>2, <1>3 DEF SlotInv, WaveTypes
  <1>5. ASSUME NEW q \in Releasers, NEW b \in wave'[q], b \notin overtaken'
        PROVE  b \in Agents /\ b # a /\ b \in wave[q] /\ b \notin overtaken
    <2>1. b \notin overtaken
      BY <1>5, NotOvertaken
    <2>2. QED
      BY <1>1, <1>4, <1>5, <2>1 DEF SlotInv, OneWave, WaveTypes
  <1>6. WaveTypes'
    <2>1. /\ 0 \in Stamps /\ NoStamp \in Stamps /\ stamp[a] \in Stamps
          /\ "failed" \in States /\ "requested" \in States /\ state[a] \in States
      BY <1>4, UpgradeAssumption DEF Stamps, Ages, States, WaveTypes
    <2>2. state' \in [Agents -> States] /\ stamp' \in [Agents -> Stamps]
      BY <1>3, <1>4, <2>1 DEF WaveTypes
    <2>3. QED
      BY <1>2, <1>4, <2>2 DEF WaveTypes, Recalls
  <1>7. SentInv'
    <2> SUFFICES ASSUME NEW q \in Releasers, sent'[q] # NoRow
                 PROVE  /\ wave'[q] # {} /\ <<First(wave'[q]), q>> \in jobs'
                        /\ First(wave'[q]) \notin overtaken' => sent'[q].state = "requested"
      BY DEF SentInv
    <2>1. q # r /\ sent'[q] = sent[q] /\ wave'[q] = wave[q]
      BY <1>4
    <2>2. wave[q] # {} /\ <<First(wave[q]), q>> \in jobs
      BY <2>1 DEF SlotInv, SentInv
    <2>3. First(wave[q]) \in wave'[q]
      BY <2>1, <2>2, NextRow
    <2>4. First(wave[q]) \notin overtaken' => sent[q].state = "requested"
      BY <1>5, <2>1, <2>3 DEF SlotInv, SentInv
    <2>5. QED
      BY <1>2, <2>1, <2>2, <2>4
  <1>8. WaitsInv'
    <2> SUFFICES ASSUME NEW q \in Releasers, NEW b \in Undispatched(q)', b \notin overtaken'
                 PROVE  state'[b] = "requested" /\ stamp'[b] \in 0..Timeout
      BY DEF WaitsInv
    <2>1. b \in Undispatched(q) /\ b \in wave'[q]
      <3>1. CASE q = r
        BY <1>1, <1>4, <3>1 DEF Undispatched
      <3>2. CASE q # r
        BY <1>4, <3>2 DEF Undispatched
      <3>3. QED
        BY <3>1, <3>2
    <2>2. b \in Agents /\ b # a /\ b \notin overtaken
      BY <1>5, <2>1
    <2>3. QED
      BY <1>4, <2>1, <2>2 DEF SlotInv, WaitsInv
  <1>9. OneWave'
    <2>1. ASSUME NEW q \in Releasers, NEW b \in wave'[q], b \notin overtaken'
          PROVE  state'[b] # "queued"
      <3>1. b \in Agents /\ b # a /\ b \in wave[q] /\ b \notin overtaken
        BY <1>5, <2>1
      <3>2. QED
        BY <1>4, <3>1 DEF SlotInv, OneWave
    <2>2. ASSUME NEW q \in Releasers, NEW p \in Releasers, NEW b \in wave'[q], b \in wave'[p],
                 b \notin overtaken'
          PROVE  q = p
      <3>1. b \in wave[q] /\ b \in wave[p] /\ b \notin overtaken
        BY <1>5, <2>2
      <3>2. QED
        BY <3>1 DEF SlotInv, OneWave
    <2>3. QED
      BY <2>1, <2>2 DEF OneWave
  <1>10. SlotsTimed' /\ CapHolds'
    <2>1. ASSUME NEW b \in Agents, state'[b] = "requested", b \notin overtaken
          PROVE  state[b] = "requested" /\ (stamp'[b] = stamp[b] \/ stamp'[b] # NoStamp)
      <3>1. CASE b = a
        BY <1>3, <2>1, <3>1 DEF NoStamp
      <3>2. CASE b # a
        BY <1>4, <2>1, <3>2
      <3>3. QED
        BY <3>1, <3>2
    <2>2. QED
      BY <2>1, SlotsShrink
  <1>11. QED
    BY <1>6, <1>7, <1>8, <1>9, <1>10 DEF SlotInv

\* A row that was not overtaken is loaded while it holds its slot, whether its
\* command is sent or its endpoint is away.
LEMMA DispatchKeepsSlots ==
    ASSUME SlotInv, Recalls, NEW r \in Releasers, Dispatch(r)
    PROVE  SlotInv'
  <1>1. PICK a \in Agents : a = First(wave[r]) /\ a \in wave[r]
    BY NextRow DEF Dispatch
  <1>2. sent[r] = NoRow /\ wave[r] # {} /\ UNCHANGED <<available, target>>
    BY DEF Dispatch
  <1>3. a \notin overtaken => state[a] = "requested"
    BY <1>1, <1>2 DEF SlotInv, WaitsInv, Undispatched
  <1>4. Row(a) \in Rows /\ Row(a).state = state[a] /\ Row(a) # NoRow
    <2>1. target[a] \in 0..MaxVersion /\ target[a] # -1 /\ state[a] \in States /\ stamp[a] \in Stamps
      BY <1>1, UpgradeAssumption DEF SlotInv, WaveTypes
    <2>2. QED
      BY <2>1 DEF Row, Rows, NoRow
  <1>5. CASE a \notin up
    <2>1. Recorded(r, First(wave[r]), Row(a), "unavailable")
      BY <1>1, <1>5 DEF Dispatch
    <2>2. QED
      BY <1>1, <1>2, <1>3, <1>4, <2>1, RecordedKeepsSlots
  <1>6. CASE a \in up
    <2>1. /\ sent' = [sent EXCEPT ![r] = Row(a)] /\ jobs' = jobs \cup {<<a, r>>}
          /\ UNCHANGED <<state, stamp, wave>>
      BY <1>1, <1>6 DEF Dispatch
    <2>2. WaveTypes'
      BY <1>2, <1>4, <2>1 DEF SlotInv, WaveTypes, Recalls
    <2>3. /\ sent'[r] = Row(a)
          /\ \A q \in Releasers : q # r => sent'[q] = sent[q]
      BY <2>1 DEF SlotInv, WaveTypes
    <2>4. \A q \in Releasers : \A b \in wave[q] : b \notin overtaken' => b \notin overtaken
      BY <2>1, NotOvertaken
    <2>5. SentInv'
      <3> SUFFICES ASSUME NEW q \in Releasers, sent'[q] # NoRow
                   PROVE  /\ wave[q] # {} /\ <<First(wave[q]), q>> \in jobs'
                          /\ First(wave[q]) \notin overtaken' => sent'[q].state = "requested"
        BY <2>1 DEF SentInv
      <3>1. CASE q = r
        BY <1>1, <1>2, <1>3, <1>4, <2>1, <2>3, <2>4, <3>1
      <3>2. CASE q # r
        <4>1. wave[q] # {} /\ <<First(wave[q]), q>> \in jobs /\ sent'[q] = sent[q]
          BY <2>3, <3>2 DEF SlotInv, SentInv
        <4>2. First(wave[q]) \in wave[q]
          BY <4>1, NextRow
        <4>3. QED
          BY <2>1, <2>4, <4>1, <4>2 DEF SlotInv, SentInv
      <3>3. QED
        BY <3>1, <3>2
    <2>6. WaitsInv'
      <3>1. \A q \in Releasers : \A b \in Undispatched(q)' : b \in Undispatched(q) /\ b \in wave[q]
        BY <1>2, <2>1, <2>3 DEF Undispatched
      <3>2. QED
        BY <2>1, <2>4, <3>1 DEF SlotInv, WaitsInv
    <2>7. OneWave'
      BY <2>1, <2>4 DEF SlotInv, OneWave
    <2>8. SlotsTimed' /\ CapHolds'
      BY <2>1, SlotsShrink
    <2>9. QED
      BY <2>2, <2>5, <2>6, <2>7, <2>8 DEF SlotInv
  <1>7. QED
    BY <1>5, <1>6

\* The answer is recorded on the row as it was loaded for the send.
LEMMA AnsweredKeepsSlots ==
    ASSUME SlotInv, Recalls, NEW r \in Releasers, Answered(r)
    PROVE  SlotInv'
  <1>1. /\ sent[r] # NoRow /\ Recorded(r, First(wave[r]), sent[r], answer[r])
        /\ UNCHANGED <<available, target>>
    BY DEF Answered
  <1>2. wave[r] # {} /\ (First(wave[r]) \notin overtaken => sent[r].state = "requested")
    BY <1>1 DEF SlotInv, SentInv
  <1>3. QED
    BY <1>1, <1>2, RecordedKeepsSlots

\* A wave that is cut short hands its rows back to the queue, or fails to, and
\* is in no way of the others.
LEMMA AbortKeepsSlots ==
    ASSUME SlotInv, Recalls, NEW r \in Releasers, WaveAborts(r)
    PROVE  SlotInv'
  <1>1. PICK back :
          /\ back \subseteq wave[r]
          /\ state' = [a \in Agents |-> IF a \in back THEN "queued" ELSE state[a]]
          /\ stamp' = [a \in Agents |-> IF a \in back THEN NoStamp ELSE stamp[a]]
    <2>1. PICK back \in {{}, {a \in wave[r] \ {First(wave[r])} : state[a] = "requested"}} :
            /\ state' = [a \in Agents |-> IF a \in back THEN "queued" ELSE state[a]]
            /\ stamp' = [a \in Agents |-> IF a \in back THEN NoStamp ELSE stamp[a]]
      BY DEF WaveAborts
    <2>2. back \subseteq wave[r]
      OBVIOUS
    <2>3. QED
      BY <2>1, <2>2
  <1>2. /\ jobs' = {IF j[2] = r THEN <<j[1], "left">> ELSE j : j \in jobs}
        /\ wave' = [wave EXCEPT ![r] = {}] /\ sent' = [sent EXCEPT ![r] = NoRow]
        /\ UNCHANGED <<available, target>>
    BY DEF WaveAborts
  <1>3. /\ WaveTypes /\ wave'[r] = {} /\ sent'[r] = NoRow
        /\ \A q \in Releasers : q # r => wave'[q] = wave[q] /\ sent'[q] = sent[q]
    BY <1>2 DEF SlotInv, WaveTypes
  <1>4. ASSUME NEW q \in Releasers, NEW a \in wave'[q], a \notin overtaken'
        PROVE  /\ a \in wave[q] /\ a \in Agents /\ q # r /\ a \notin overtaken
               /\ state'[a] = state[a] /\ stamp'[a] = stamp[a]
    <2>1. q # r /\ a \in wave[q] /\ a \in Agents
      BY <1>3 DEF WaveTypes
    <2>2. a \notin overtaken
      BY <1>4, NotOvertaken
    <2>3. a \notin back
      BY <1>1, <2>1, <2>2 DEF SlotInv, OneWave
    <2>4. QED
      BY <1>1, <2>1, <2>2, <2>3
  <1>5. WaveTypes'
    <2>1. state' \in [Agents -> States] /\ stamp' \in [Agents -> Stamps]
      BY <1>1, <1>3 DEF WaveTypes, States, Stamps
    <2>2. QED
      BY <1>2, <1>3, <2>1 DEF WaveTypes, Recalls
  <1>6. SentInv'
    <2> SUFFICES ASSUME NEW q \in Releasers, sent'[q] # NoRow
                 PROVE  /\ wave'[q] # {} /\ <<First(wave'[q]), q>> \in jobs'
                        /\ First(wave'[q]) \notin overtaken' => sent'[q].state = "requested"
      BY DEF SentInv
    <2>1. q # r /\ sent'[q] = sent[q] /\ wave'[q] = wave[q]
      BY <1>3
    <2>2. wave[q] # {} /\ <<First(wave[q]), q>> \in jobs
      BY <2>1 DEF SlotInv, SentInv
    <2>3. <<First(wave[q]), q>> \in jobs'
      BY <1>2, <2>1, <2>2
    <2>4. First(wave[q]) \in wave'[q]
      BY <2>1, <2>2, NextRow
    <2>5. First(wave[q]) \notin overtaken' => sent[q].state = "requested"
      BY <1>4, <2>1, <2>4 DEF SlotInv, SentInv
    <2>6. QED
      BY <2>1, <2>2, <2>3, <2>5
  <1>7. WaitsInv'
    <2> SUFFICES ASSUME NEW q \in Releasers, NEW a \in Undispatched(q)', a \notin overtaken'
                 PROVE  state'[a] = "requested" /\ stamp'[a] \in 0..Timeout
      BY DEF WaitsInv
    <2>1. a \in wave'[q]
      BY DEF Undispatched
    <2>2. a \in Undispatched(q)
      BY <1>3, <1>4, <2>1 DEF Undispatched
    <2>3. QED
      BY <1>4, <2>1, <2>2 DEF SlotInv, WaitsInv
  <1>8. OneWave'
    <2>1. ASSUME NEW q \in Releasers, NEW a \in wave'[q], a \notin overtaken'
          PROVE  state'[a] # "queued"
      BY <1>4, <2>1 DEF SlotInv, OneWave
    <2>2. ASSUME NEW q \in Releasers, NEW p \in Releasers, NEW a \in wave'[q], a \in wave'[p],
                 a \notin overtaken'
          PROVE  q = p
      <3>1. a \in wave[q] /\ a \in wave[p] /\ a \notin overtaken
        BY <1>4, <2>2
      <3>2. QED
        BY <3>1 DEF SlotInv, OneWave
    <2>3. QED
      BY <2>1, <2>2 DEF OneWave
  <1>9. SlotsTimed' /\ CapHolds'
    <2>1. \A a \in Agents : state'[a] = "requested" =>
              state[a] = "requested" /\ stamp'[a] = stamp[a]
      BY <1>1
    <2>2. QED
      BY <2>1, SlotsShrink
  <1>10. QED
    BY <1>5, <1>6, <1>7, <1>8, <1>9 DEF SlotInv

\* What keeps the waves and the jobs of those that were sent to, and takes no row
\* that waits for its command out of its slot but by overtaking it, keeps the
\* invariant.
LEMMA WavesKept ==
    ASSUME SlotInv, Recalls, UNCHANGED <<wave, sent>>, WaveTypes', SlotsTimed', CapHolds',
           \A r \in Releasers : \A a : <<a, r>> \in jobs => <<a, r>> \in jobs',
           \A r \in Releasers : \A a \in wave[r] :
               a \notin overtaken' /\ state[a] # "queued" => state'[a] # "queued",
           \A r \in Releasers : \A a \in Undispatched(r) :
               a \notin overtaken' /\ state[a] = "requested" /\ stamp[a] \in 0..Timeout =>
                   state'[a] = "requested" /\ stamp'[a] \in 0..Timeout
    PROVE  SlotInv'
  <1>1. \A r \in Releasers : \A a \in wave[r] : a \notin overtaken' => a \notin overtaken
    BY NotOvertaken
  <1>2. \A r \in Releasers : Undispatched(r)' = Undispatched(r) /\ Undispatched(r) \subseteq wave[r]
    BY DEF Undispatched
  <1>3. SentInv'
    <2> SUFFICES ASSUME NEW q \in Releasers, sent[q] # NoRow
                 PROVE  /\ wave[q] # {} /\ <<First(wave[q]), q>> \in jobs'
                        /\ First(wave[q]) \notin overtaken' => sent[q].state = "requested"
      BY DEF SentInv
    <2>1. wave[q] # {} /\ <<First(wave[q]), q>> \in jobs
      BY DEF SlotInv, SentInv
    <2>2. First(wave[q]) \in wave[q]
      BY <2>1, NextRow
    <2>3. First(wave[q]) \notin overtaken' => sent[q].state = "requested"
      BY <1>1, <2>2 DEF SlotInv, SentInv
    <2>4. QED
      BY <2>1, <2>3
  <1>4. WaitsInv'
    <2> SUFFICES ASSUME NEW q \in Releasers, NEW a \in Undispatched(q), a \notin overtaken'
                 PROVE  state'[a] = "requested" /\ stamp'[a] \in 0..Timeout
      BY <1>2 DEF WaitsInv
    <2>1. a \notin overtaken
      BY <1>1, <1>2
    <2>2. state[a] = "requested" /\ stamp[a] \in 0..Timeout
      BY <2>1 DEF SlotInv, WaitsInv
    <2>3. QED
      BY <2>2
  <1>5. OneWave'
    BY <1>1 DEF SlotInv, OneWave
  <1>6. QED
    BY <1>3, <1>4, <1>5 DEF SlotInv

\* The timeout of the reaper passes by the rows that wait for their command.
LEMMA ReapKeepsSlots ==
    ASSUME SlotInv, Recalls, ReapWrite
    PROVE  SlotInv'
  <1>1. /\ state' = [a \in Agents |-> IF a \in Reaped THEN "failed" ELSE state[a]]
        /\ UNCHANGED <<available, target, stamp, jobs, wave, sent>>
    BY DEF ReapWrite
  <1>2. \A a \in Agents : a \in Reaped => stamp[a] \notin 0..Timeout
    BY UpgradeAssumption DEF Reaped
  <1>3. WaveTypes'
    BY <1>1 DEF SlotInv, WaveTypes, States, Recalls
  <1>4. \A r \in Releasers : \A a \in wave[r] : a \in Agents
    BY DEF SlotInv, WaveTypes
  <1>5. \A r \in Releasers : \A a \in Undispatched(r) : a \in Agents
    BY <1>4 DEF Undispatched
  <1>6. SlotsTimed' /\ CapHolds'
    <2>1. \A a \in Agents : state'[a] = "requested" => state[a] = "requested"
      BY <1>1
    <2>2. QED
      BY <1>1, <2>1, SlotsShrink
  <1>7. \A r \in Releasers : \A a \in wave[r] : state[a] # "queued" => state'[a] # "queued"
    BY <1>1, <1>4
  <1>8. \A r \in Releasers : \A a \in Undispatched(r) :
           state[a] = "requested" /\ stamp[a] \in 0..Timeout =>
               state'[a] = "requested" /\ stamp'[a] \in 0..Timeout
    BY <1>1, <1>2, <1>5
  <1>9. QED
    BY <1>1, <1>3, <1>6, <1>7, <1>8, WavesKept

\* A hello takes a row out of its slot, and overtakes it when it waits for its
\* command.
LEMMA HelloKeepsSlots ==
    ASSUME SlotInv, Recalls, Remembers, NEW a \in Agents, HelloCommit(a)
    PROVE  SlotInv'
  <1>1. UNCHANGED <<available, target, jobs, wave, sent>>
    BY DEF HelloCommit
  <1>2. CASE ~Resolves(hello[a], ver[a])
    BY <1>1, <1>2, SlotKept DEF HelloCommit
  <1>3. CASE Resolves(hello[a], ver[a])
    <2>1. /\ state' = [state EXCEPT ![a] = "idle"]
          /\ \E v \in {stamp[a], NoStamp} : stamp' = [stamp EXCEPT ![a] = v]
      BY <1>3 DEF HelloCommit, Write, SlotInv, WaveTypes
    <2>2. WaveTypes'
      <3>1. "idle" \in States /\ NoStamp \in Stamps /\ stamp[a] \in Stamps
        BY DEF States, Stamps, SlotInv, WaveTypes
      <3>2. QED
        BY <1>1, <2>1, <3>1 DEF SlotInv, WaveTypes, Recalls
    <2>3. \A b \in Agents : /\ b # a => state'[b] = state[b] /\ stamp'[b] = stamp[b]
                            /\ b = a => state'[b] = "idle"
      BY <2>1 DEF SlotInv, WaveTypes
    <2>4. \A r \in Releasers : \A b \in wave[r] : b \in Agents
      BY DEF SlotInv, WaveTypes
    <2>5. ASSUME NEW r \in Releasers, a \in Undispatched(r) PROVE a \in overtaken'
      <3>1. a \in wave'[r]
        BY <1>1, <2>5 DEF Undispatched
      <3>2. QED
        BY <2>3, <2>5, <3>1 DEF Remembers
    <2>6. SlotsTimed' /\ CapHolds'
      BY <2>3, SlotsShrink
    <2>7. \A r \in Releasers : \A b \in wave[r] : state[b] # "queued" => state'[b] # "queued"
      BY <2>3, <2>4
    <2>8. ASSUME NEW r \in Releasers, NEW b \in Undispatched(r), b \notin overtaken',
                 state[b] = "requested", stamp[b] \in 0..Timeout
          PROVE  state'[b] = "requested" /\ stamp'[b] \in 0..Timeout
      <3>1. b \in Agents
        BY <2>4 DEF Undispatched
      <3>2. b # a
        BY <2>5, <2>8
      <3>3. QED
        BY <2>3, <2>8, <3>1, <3>2
    <2>9. QED
      BY <1>1, <2>2, <2>6, <2>7, <2>8, WavesKept
  <1>4. QED
    BY <1>2, <1>3

\* A restart ends the waves and leaves the columns.
LEMMA RestartKeepsSlots ==
    ASSUME SlotInv, Recalls, ServerRestart
    PROVE  SlotInv'
  <1>1. /\ available' \in available..MaxVersion /\ UNCHANGED <<state, target, stamp>>
        /\ wave' = [r \in Releasers |-> {}] /\ sent' = [r \in Releasers |-> NoRow]
    BY DEF ServerRestart
  <1>2. WaveTypes'
    BY <1>1, UpgradeAssumption DEF SlotInv, WaveTypes, Recalls
  <1>3. SentInv' /\ WaitsInv' /\ OneWave'
    BY <1>1 DEF SentInv, WaitsInv, OneWave, Undispatched
  <1>4. SlotsTimed' /\ CapHolds'
    BY <1>1, SlotsShrink
  <1>5. QED
    BY <1>2, <1>3, <1>4 DEF SlotInv

\* Time does not run out for a row of a wave.
LEMMA TickKeepsSlots ==
    ASSUME SlotInv, Recalls, Tick
    PROVE  SlotInv'
  <1>1. /\ \A r \in Releasers : \A a \in wave[r] : stamp[a] # Timeout
        /\ stamp' = [a \in Agents |-> IF stamp[a] \in 0..Timeout THEN stamp[a] + 1 ELSE stamp[a]]
        /\ UNCHANGED <<available, state, target, jobs, wave, sent>>
    BY DEF Tick
  <1>2. Timeout \in Nat
    BY UpgradeAssumption
  <1>3. \A a \in Agents :
          /\ stamp[a] \in 0..Timeout => stamp'[a] = stamp[a] + 1
          /\ stamp[a] \notin 0..Timeout => stamp'[a] = stamp[a]
    BY <1>1
  <1>4. \A a \in Agents : stamp'[a] \in Stamps /\ (stamp'[a] = stamp[a] \/ stamp'[a] # NoStamp)
    <2> SUFFICES ASSUME NEW a \in Agents
                 PROVE  stamp'[a] \in Stamps /\ (stamp'[a] = stamp[a] \/ stamp'[a] # NoStamp)
      OBVIOUS
    <2>1. PICK n \in Stamps : n = stamp[a]
      BY DEF SlotInv, WaveTypes
    <2>2. CASE n \in 0..Timeout
      BY <1>2, <1>3, <2>1, <2>2 DEF Stamps, Ages, NoStamp
    <2>3. CASE n \notin 0..Timeout
      BY <1>3, <2>1, <2>3
    <2>4. QED
      BY <2>2, <2>3
  <1>5. WaveTypes'
    BY <1>1, <1>4 DEF SlotInv, WaveTypes, Recalls
  <1>6. SlotsTimed' /\ CapHolds'
    BY <1>1, <1>4, SlotsShrink
  <1>7. ASSUME NEW r \in Releasers, NEW a \in Undispatched(r), stamp[a] \in 0..Timeout
        PROVE  stamp'[a] \in 0..Timeout
    <2>1. a \in wave[r] /\ a \in Agents
      BY DEF Undispatched, SlotInv, WaveTypes
    <2>2. PICK n \in 0..Timeout : n = stamp[a]
      BY <1>7
    <2>3. n # Timeout
      BY <1>1, <2>1, <2>2
    <2>4. n + 1 \in 0..Timeout
      BY <1>2, <2>3
    <2>5. QED
      BY <1>3, <2>1, <2>2, <2>4
  <1>8. QED
    BY <1>1, <1>5, <1>6, <1>7, WavesKept

\* A job nobody answers for is not one of a running wave.
LEMMA LeftJobKeepsSlots ==
    ASSUME SlotInv, Recalls, NEW a \in Agents, LeftJobEnds(a)
    PROVE  SlotInv'
  <1>1. /\ jobs' = jobs \ {<<a, "left">>}
        /\ UNCHANGED <<available, state, target, stamp, wave, sent>>
    BY DEF LeftJobEnds
  <1>2. "left" \notin Releasers
    BY UpgradeAssumption DEF Releasers
  <1>3. WaveTypes'
    BY <1>1 DEF SlotInv, WaveTypes, Recalls
  <1>4. SlotsTimed' /\ CapHolds'
    BY <1>1, SlotsShrink
  <1>5. \A r \in Releasers : \A b : <<b, r>> \in jobs => <<b, r>> \in jobs'
    BY <1>1, <1>2
  <1>6. QED
    BY <1>1, <1>3, <1>4, <1>5, WavesKept

\* The steps of an endpoint that are not a hello.
LEMMA EndpointKeepsSlots ==
    ASSUME SlotInv, Recalls, NEW a \in Agents, AgentStep(a), ~HelloCommit(a), ~LeftJobEnds(a)
    PROVE  SlotInv'
  <1>1. UNCHANGED <<available, state, target, stamp, jobs, wave, sent>>
    BY DEF AgentStep, HelloRead, Drop, AgentReserves, AgentTriggers, HelperRuns, HelperAborts,
       JobArrives, JobRefused, JobStarts, JobEnds, JobMoves, server
  <1>2. QED
    BY <1>1, SlotKept

\* No row holds a slot to begin with.
LEMMA SlotInit ==
    ASSUME Init
    PROVE  SlotInv
  <1>1. /\ available = 2 /\ state = [a \in Agents |-> None] /\ target = [a \in Agents |-> 0]
        /\ stamp = [a \in Agents |-> NoStamp] /\ wave = [r \in Releasers |-> {}]
        /\ sent = [r \in Releasers |-> NoRow] /\ overtaken = {}
    BY DEF Init
  <1>2. WaveTypes
    BY <1>1, UpgradeAssumption DEF WaveTypes, States, Stamps
  <1>3. SentInv /\ WaitsInv /\ OneWave
    BY <1>1 DEF SentInv, WaitsInv, OneWave, Undispatched, None
  <1>4. Slots = {}
    BY <1>1 DEF Slots, None
  <1>5. SlotsTimed /\ CapHolds
    BY <1>4, FS_EmptySet, UpgradeAssumption DEF SlotsTimed, CapHolds
  <1>6. QED
    BY <1>2, <1>3, <1>5 DEF SlotInv

\* Every step keeps the slots.
LEMMA SlotStep ==
    ASSUME SlotInv, [Next]_vars
    PROVE  SlotInv'
  <1>0. Recalls
    BY RemembersRecalls DEF Next, vars
  <1>1. CASE UNCHANGED vars
    BY <1>0, <1>1, SlotKept DEF vars, system, server
  <1>2. ASSUME NEW r \in Routes, Upgrade(r) PROVE SlotInv'
    BY <1>0, <1>2, UpgradeKeepsSlots
  <1>3. ASSUME NEW r \in Releasers, ServerStep(r) PROVE SlotInv'
    BY <1>0, <1>3, DispatchKeepsSlots, AnsweredKeepsSlots, AbortKeepsSlots DEF ServerStep
  <1>4. ASSUME NEW a \in Agents, AgentStep(a), Remembers PROVE SlotInv'
    BY <1>0, <1>4, HelloKeepsSlots, LeftJobKeepsSlots, EndpointKeepsSlots
  <1>5. CASE ReapRead
    BY <1>0, <1>5, SlotKept DEF ReapRead
  <1>6. QED
    BY <1>0, <1>1, <1>2, <1>3, <1>4, <1>5, ReaperWaveKeepsSlots, ReapKeepsSlots,
       RestartKeepsSlots, TickKeepsSlots DEF Next, Step

\* For any fleet and any cap, over any number of requests, restarts and aborted
\* waves, no more endpoints than the cap hold a slot at once, the rows that a
\* hello resolved while they waited in their wave excepted
\* (release_agent_upgrade_waves, request_agent_upgrade).
THEOREM CapHoldsAlways == Spec => []CapHolds
  <1>1. Init => SlotInv
    BY SlotInit
  <1>2. SlotInv /\ [Next]_vars => SlotInv'
    BY SlotStep
  <1>3. SlotInv => CapHolds
    BY DEF SlotInv
  <1>4. QED
    BY <1>1, <1>2, <1>3, PTL DEF Spec

\* A row that holds a slot is stamped, so that the timeout that frees the slot
\* of an endpoint that never comes back finds it: a release stamps what it
\* claims, and an answer clears the stamp only of a row it takes out of its
\* slot, unless the row was overtaken (reap_stale_agent_upgrades skips a row
\* without a stamp).
THEOREM SlotsTimedAlways == Spec => []SlotsTimed
  <1>1. Init => SlotInv
    BY SlotInit
  <1>2. SlotInv /\ [Next]_vars => SlotInv'
    BY SlotStep
  <1>3. SlotInv => SlotsTimed
    BY DEF SlotInv
  <1>4. QED
    BY <1>1, <1>2, <1>3, PTL DEF Spec
==============================================================================
