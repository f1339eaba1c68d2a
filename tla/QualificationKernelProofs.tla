--------------------- MODULE QualificationKernelProofs ---------------------
(***************************************************************************)
(* Theorems of QualificationKernel, for every catalog, every number of     *)
(* missions and workers, every replacement depth and every clock.          *)
(***************************************************************************)
EXTENDS QualificationKernel, TLAPS

(***************************************************************************)
(* Type correctness.                                                       *)
(***************************************************************************)
\* The direct successor of an attempt that is not at the end of its chain is an
\* attempt of the same mission, one deeper (_replacement_for).
LEMMA SuccIsAttempt ==
  ASSUME NEW a \in Attempts, a[2] < MaxDepth
  PROVE  Succ(a) \in Attempts /\ Succ(a)[1] = a[1] /\ Succ(a)[2] = a[2] + 1
  BY SizeAssumption DEF Attempts, Depths, Succ

\* The attempt states _replacement_for leaves are attempt states.
LEMMA WithReplacementsType ==
  ASSUME TypeOK, NEW S
  PROVE  WithReplacements(S) \in [Attempts -> AttemptState]
  BY DEF TypeOK, WithReplacements, AttemptState

\* Every transaction of the kernel keeps the tables well typed.
LEMMA TypeStep == TypeOK /\ [Next]_vars => TypeOK'
<1> SUFFICES ASSUME TypeOK, [Next]_vars PROVE TypeOK'
  OBVIOUS
<1> USE DEF catalogVars, missionVars, attemptVars, decisionVars, marketVars
<1>1. ASSUME NEW p \in Products, NEW b \in Bundles, Activate(p, b) PROVE TypeOK'
  BY <1>1 DEF Activate, TypeOK, Bundle0
<1>2. ASSUME NEW m \in Missions, CreateMission(m) PROVE TypeOK'
  BY <1>2 DEF CreateMission, TypeOK, MissionState, ReadyEvent
<1>3. ASSUME NEW a \in Attempts, NEW sel \in Pins, Prepare(a, sel) PROVE TypeOK'
  BY <1>3 DEF Prepare, TypeOK, MissionState, AttemptState, Attempts
<1>4. ASSUME NEW a \in Attempts, NEW w \in Owners, ClaimAndSnapshot(a, w) PROVE TypeOK'
  <2> DEFINE g == lease[a].generation + 1
  <2>1. g \in Nat /\ now + LeaseTerm \in Nat
    BY SizeAssumption DEF TypeOK, LeaseRow
  <2>2. lease' \in [Attempts -> LeaseRow] /\ issued' \subseteq Token
    BY <1>4, <2>1 DEF ClaimAndSnapshot, TypeOK, LeaseRow, Token
  <2>3. /\ attState' \in [Attempts -> AttemptState]
        /\ deps' \in [Attempts -> Pins]
        /\ ckpt' \in [Attempts -> Nat]
    <3>1. CASE deps[a] = NoPins
      <4>1. /\ deps' = [deps EXCEPT ![a] = pins[a]]
            /\ attState' = [attState EXCEPT ![a] = "SNAPSHOT_COMPLETE"]
            /\ ckpt' = [ckpt EXCEPT ![a] = g]
        BY <1>4, <3>1 DEF ClaimAndSnapshot
      <4> HIDE DEF g
      <4> QED
        BY <2>1, <4>1 DEF TypeOK, AttemptState
    <3>2. CASE deps[a] # NoPins
      BY <1>4, <3>2 DEF ClaimAndSnapshot, TypeOK, AttemptState
    <3> QED
      BY <3>1, <3>2
  <2> QED
    BY <1>4, <2>2, <2>3 DEF ClaimAndSnapshot, TypeOK
<1>5. ASSUME NEW l \in issued, FinalizeStale(l) PROVE TypeOK'
  BY <1>5, WithReplacementsType DEF FinalizeStale, TypeOK, AttemptState, Token
<1>6. ASSUME NEW l \in issued, NEW p \in Products, FinalizeDecision(l, p) PROVE TypeOK'
  BY <1>6 DEF FinalizeDecision, TypeOK, AttemptState, MissionState, Approval, Token, Attempts
<1>7. ASSUME NEW a \in Attempts, Approve(a) PROVE TypeOK'
  BY <1>7, SizeAssumption DEF Approve, TypeOK, Approval, Engagement
<1>8. ASSUME NEW a \in Attempts, Reject(a) PROVE TypeOK'
  BY <1>8 DEF Reject, TypeOK, Approval, MissionState, Attempts
<1>9. ASSUME NEW a \in Attempts, Respond(a) PROVE TypeOK'
  BY <1>9 DEF Respond, TypeOK, Engagement
<1>10. ASSUME NEW a \in Attempts, NEW party \in Party, NEW actor \in Actors, NEW f \in Fields,
              Consent(a, party, actor, f)
       PROVE  TypeOK'
  BY <1>10, SizeAssumption DEF Consent, TypeOK, Engagement, ConsentRow
<1>11. ASSUME NEW a \in Attempts, NEW f \in Fields, Introduce(a, f) PROVE TypeOK'
  BY <1>11 DEF Introduce, TypeOK, Engagement, IntroRow, MissionState, Attempts
<1>12. ASSUME NEW a \in Attempts, NEW f \in Fields, IntroduceAgain(a, f) PROVE TypeOK'
  BY <1>12 DEF IntroduceAgain, TypeOK, MissionState, Attempts
<1>13. ASSUME NEW o \in Orgs, NEW p \in Products, Invalidate(o, p) PROVE TypeOK'
  BY <1>13, WithReplacementsType
     DEF Invalidate, Outdated, TypeOK, Approval, Engagement, MissionState, ReadyEvent, Attempts
<1>14. CASE Tick
  BY <1>14 DEF Tick, TypeOK
<1>15. CASE UNCHANGED vars
  BY <1>15 DEF vars, TypeOK
<1> QED
  BY <1>1, <1>2, <1>3, <1>4, <1>5, <1>6, <1>7, <1>8, <1>9, <1>10, <1>11, <1>12, <1>13,
     <1>14, <1>15 DEF Next, MarketNext

\* The initial, empty tables are well typed.
LEMMA TypeInit == Init => TypeOK
  BY SentinelAssumption DEF Init, TypeOK, Pins, NoPins, Bundle0, MissionState, AttemptState,
     LeaseRow, Approval, Engagement

\* Type correctness: the tables hold values of their types forever.
THEOREM TypeCorrect == Spec => []TypeOK
  BY TypeInit, TypeStep, PTL DEF Spec

(***************************************************************************)
(* The inductive invariant.  The unique keys of the schema are no guards   *)
(* of the model, so that they hold has to follow from what the             *)
(* transactions leave behind.                                              *)
(***************************************************************************)
\* A chain has work at its end only: once an attempt has a successor it is over,
\* and its decision, if it came to one, has been retired.
Chain ==
  \A a, b \in Attempts :
    a[1] = b[1] /\ a[2] < b[2] /\ attState[b] # "NONE"
      => attState[a] \in {"STALE", "COMPLETED"} /\ ~ current[a]

\* Decisions belong to completed attempts.
DecisionRows ==
  \A a \in Attempts : current[a] \/ approval[a] # "NONE" => attState[a] = "COMPLETED"

\* Only bundles that were activated are ever pinned or snapshotted.
PinnedWasActive ==
  \A a \in Attempts, p \in Products :
    /\ pins[a][p] # NoBundle => bundleState[p][pins[a][p]] # "READY"
    /\ deps[a][p] # NoBundle => bundleState[p][deps[a][p]] # "READY"

\* A decision is retired only for a bundle that is no longer the active one.
RetiredIsOutdated ==
  \A a \in Decided : ~ current[a] => Changed(a) # {}

\* Events name pointer generations that have been reached.
EventsPast ==
  \A e \in readyEvents, p \in Products : e[2] = p => e[3] <= pointerGen[p]

\* A party consents once to an engagement.
OneConsentPerParty ==
  \A c, d \in consents : c.attempt = d.attempt /\ c.party = d.party => c = d

\* What exists before a mission is prepared, and what its READY state excludes.
Preparation ==
  \A a \in Attempts :
    /\ mission[a[1]] = "NONE" => attState[a] = "NONE"
    /\ attState[a] = "NONE" => pins[a] = NoPins
    /\ pins[a] # NoPins /\ mission[a[1]] = "READY" => attState[a] \in {"STALE", "COMPLETED"}

Inv ==
  /\ TypeOK
  /\ Chain /\ DecisionRows
  /\ PinnedWasActive /\ RetiredIsOutdated /\ DistinctInputs
  /\ EventsPast /\ ReplacementKeyFresh
  /\ OneConsentPerParty /\ IntroductionAuthorised
  /\ Preparation /\ MissionStateHonest

\* An attempt is the pair of its mission and its depth.
LEMMA AttemptParts ==
  /\ \A a \in Attempts : a[1] \in Missions /\ a[2] \in Int
  /\ \A a, b \in Attempts : a[1] = b[1] /\ a[2] = b[2] => a = b
  BY SizeAssumption DEF Attempts, Depths

(***************************************************************************)
(* The chain of attempts.                                                  *)
(***************************************************************************)
\* Appending successors to finished attempts at the end of their chains keeps the
\* chain rule: the common part of FinalizeStale and Invalidate.
LEMMA ReplacementsKeepChain ==
  ASSUME TypeOK, Chain, NEW S \in SUBSET Attempts,
         \A a \in S : /\ a[2] < MaxDepth
                      /\ attState'[a] \in {"STALE", "COMPLETED"} /\ ~ current'[a]
                      /\ attState[a] # "NONE",
         \A a \in Attempts : a \in S \/ attState'[a] = WithReplacements(S)[a],
         \A a \in Attempts : current'[a] => current[a]
  PROVE  Chain'
<1> SUFFICES ASSUME NEW a \in Attempts, NEW b \in Attempts,
                    a[1] = b[1], a[2] < b[2], attState'[b] # "NONE"
             PROVE  attState'[a] \in {"STALE", "COMPLETED"} /\ ~ current'[a]
  BY DEF Chain
<1>1. CASE attState[b] # "NONE"
  <2>1. attState[a] \in {"STALE", "COMPLETED"} /\ ~ current[a]
    BY <1>1 DEF Chain
  <2> QED
    BY <2>1 DEF WithReplacements
<1>2. CASE attState[b] = "NONE"
  <2>1. PICK c \in S : b = Succ(c)
    BY <1>2 DEF WithReplacements
  <2>2. c[1] = a[1] /\ a[2] <= c[2]
    BY <2>1, AttemptParts, SuccIsAttempt
  <2>3. CASE a = c
    BY <2>1, <2>3
  <2>4. CASE a # c
    <3>1. a[2] < c[2]
      BY <2>2, <2>4, AttemptParts
    <3>2. attState[a] \in {"STALE", "COMPLETED"} /\ ~ current[a]
      BY <2>1, <2>2, <3>1 DEF Chain
    <3> QED
      BY <3>2 DEF WithReplacements
  <2> QED
    BY <2>3, <2>4
<1> QED
  BY <1>1, <1>2

\* Every transaction keeps the chain rule and the rows of decisions.
LEMMA ChainStep == TypeOK /\ Chain /\ DecisionRows /\ [Next]_vars => Chain' /\ DecisionRows'
<1> SUFFICES ASSUME TypeOK, Chain, DecisionRows, [Next]_vars PROVE Chain' /\ DecisionRows'
  OBVIOUS
<1> USE DEF catalogVars, missionVars, attemptVars, decisionVars, marketVars
<1>1. ASSUME UNCHANGED <<attState, current, approval>> PROVE Chain' /\ DecisionRows'
  BY <1>1 DEF Chain, DecisionRows
<1>2. ASSUME NEW a \in Attempts, NEW sel \in Pins, Prepare(a, sel) PROVE Chain' /\ DecisionRows'
  <2>1. CASE attState[a] = "QUEUED"
    <3>1. UNCHANGED <<attState, current, approval>>
      BY <1>2, <2>1 DEF Prepare, TypeOK
    <3> QED
      BY <1>1, <3>1
  <2>2. CASE a[2] = 0 /\ \A b \in Attempts : b[1] = a[1] => attState[b] = "NONE"
    <3>1. \A b \in Attempts : attState'[b] = IF b = a THEN "QUEUED" ELSE attState[b]
      BY <1>2 DEF Prepare, TypeOK
    <3>2. current' = current /\ approval' = approval
      BY <1>2 DEF Prepare
    <3>3. \A b \in Attempts : b[2] >= 0
      BY SizeAssumption DEF Attempts, Depths
    <3>4. Chain'
      BY <2>2, <3>1, <3>2, <3>3, AttemptParts DEF Chain
    <3>5. DecisionRows'
      BY <2>2, <3>1, <3>2 DEF DecisionRows
    <3> QED
      BY <3>4, <3>5
  <2> QED
    BY <1>2, <2>1, <2>2 DEF Prepare, Claimable
<1>3. ASSUME NEW a \in Attempts, NEW w \in Owners, ClaimAndSnapshot(a, w) PROVE Chain' /\ DecisionRows'
  <2>1. attState[a] \in {"QUEUED", "RUNNING", "SNAPSHOT_COMPLETE"}
    BY <1>3 DEF ClaimAndSnapshot, CanClaim, MayClaim
  <2>2. \A b \in Attempts : b # a => attState'[b] = attState[b]
    BY <1>3 DEF ClaimAndSnapshot, TypeOK
  <2>3. current' = current /\ approval' = approval
    BY <1>3 DEF ClaimAndSnapshot
  <2>4. Chain'
    BY <2>1, <2>2, <2>3 DEF Chain
  <2>5. DecisionRows'
    BY <2>1, <2>2, <2>3 DEF DecisionRows
  <2> QED
    BY <2>4, <2>5
<1>4. ASSUME NEW l \in issued, FinalizeStale(l) PROVE Chain' /\ DecisionRows'
  <2> DEFINE a == l.attempt
  <2>1. a \in Attempts
    BY DEF TypeOK, Token
  <2> HIDE DEF a
  <2>2. /\ attState[a] = "SNAPSHOT_COMPLETE" /\ a[2] < MaxDepth
        /\ attState' = [WithReplacements({a}) EXCEPT ![a] = "STALE"]
        /\ current' = current /\ approval' = approval
    BY <1>4 DEF FinalizeStale, Fenced, a
  <2>3. WithReplacements({a}) \in [Attempts -> AttemptState]
    BY WithReplacementsType
  <2>4. /\ attState'[a] = "STALE"
        /\ \A b \in Attempts : b # a => attState'[b] = WithReplacements({a})[b]
    BY <2>1, <2>2, <2>3
  <2>5. ~ current[a] /\ approval[a] = "NONE"
    BY <2>1, <2>2 DEF DecisionRows
  <2>6. Chain'
    BY <2>1, <2>2, <2>4, <2>5, ReplacementsKeepChain
  <2>7. DecisionRows'
    BY <2>1, <2>2, <2>4, <2>5 DEF DecisionRows, WithReplacements
  <2> QED
    BY <2>6, <2>7
<1>5. ASSUME NEW l \in issued, NEW p \in Products, FinalizeDecision(l, p) PROVE Chain' /\ DecisionRows'
  <2> DEFINE a == l.attempt
  <2>1. a \in Attempts
    BY DEF TypeOK, Token
  <2> HIDE DEF a
  <2>2. /\ attState[a] = "SNAPSHOT_COMPLETE"
        /\ attState' = [attState EXCEPT ![a] = "COMPLETED"]
        /\ current' = [current EXCEPT ![a] = TRUE]
        /\ approval' = [approval EXCEPT ![a] = "PENDING"]
    BY <1>5 DEF FinalizeDecision, Fenced, a
  <2>3. \A b \in Attempts : b # a => /\ attState'[b] = attState[b]
                                     /\ current'[b] = current[b] /\ approval'[b] = approval[b]
    BY <2>2 DEF TypeOK
  <2>4. Chain'
    BY <2>1, <2>2, <2>3 DEF Chain
  <2>5. DecisionRows'
    BY <2>1, <2>2, <2>3 DEF DecisionRows, TypeOK
  <2> QED
    BY <2>4, <2>5
<1>6. ASSUME NEW a \in Attempts, Approve(a) \/ Reject(a) PROVE Chain' /\ DecisionRows'
  <2>1. current[a] /\ attState' = attState /\ current' = current
    BY <1>6 DEF Approve, Reject
  <2>2. \A b \in Attempts : b # a => approval'[b] = approval[b]
    BY <1>6 DEF Approve, Reject, TypeOK
  <2> QED
    BY <2>1, <2>2 DEF Chain, DecisionRows
<1>7. ASSUME NEW o \in Orgs, NEW p \in Products, Invalidate(o, p) PROVE Chain' /\ DecisionRows'
  <2> DEFINE hit == Outdated(o, p)
  <2>1. hit \in SUBSET Attempts /\ \A a \in hit : current[a]
    BY DEF Outdated
  <2> HIDE DEF hit
  <2>2. /\ \A a \in hit : a[2] < MaxDepth
        /\ attState' = WithReplacements(hit)
        /\ current' = [a \in Attempts |-> current[a] /\ a \notin hit]
        /\ approval' = [a \in Attempts |-> IF a \in hit THEN "INVALIDATED" ELSE approval[a]]
    BY <1>7 DEF Invalidate, hit
  <2>3. \A a \in hit : attState[a] = "COMPLETED"
    BY <2>1 DEF DecisionRows
  <2>4. \A a \in Attempts : attState[a] = "COMPLETED" => attState'[a] = "COMPLETED"
    BY <2>2 DEF WithReplacements
  <2>5. Chain'
    BY <2>1, <2>2, <2>3, <2>4, ReplacementsKeepChain
  <2>6. DecisionRows'
    BY <2>1, <2>2, <2>3, <2>4 DEF DecisionRows
  <2> QED
    BY <2>5, <2>6
<1>8. ASSUME \/ \E p \in Products, b \in Bundles : Activate(p, b)
             \/ \E m \in Missions : CreateMission(m)
             \/ \E a \in Attempts : Respond(a)
             \/ \E a \in Attempts, party \in Party, actor \in Actors, f \in Fields : Consent(a, party, actor, f)
             \/ \E a \in Attempts, f \in Fields : Introduce(a, f) \/ IntroduceAgain(a, f)
             \/ Tick \/ UNCHANGED vars
      PROVE  Chain' /\ DecisionRows'
  <2>1. UNCHANGED <<attState, current, approval>>
    BY <1>8 DEF Activate, CreateMission, Respond, Consent, Introduce, IntroduceAgain, Tick, vars
  <2> QED
    BY <1>1, <2>1
<1> QED
  BY <1>2, <1>3, <1>4, <1>5, <1>6, <1>7, <1>8 DEF Next, MarketNext

\* At most one decision of a mission is current, because a chain has one end.
LEMMA ChainHasOneCurrent == TypeOK /\ Chain /\ DecisionRows => OneCurrentDecision
<1> SUFFICES ASSUME TypeOK, Chain, DecisionRows, NEW a \in Attempts, NEW b \in Attempts,
                    current[a], current[b], a[1] = b[1], a # b
             PROVE  FALSE
  BY DEF OneCurrentDecision
<1>1. attState[a] # "NONE" /\ attState[b] # "NONE"
  BY DEF DecisionRows
<1>2. a[2] < b[2] \/ b[2] < a[2]
  BY AttemptParts
<1> QED
  BY <1>1, <1>2 DEF Chain

(***************************************************************************)
(* The catalog and the snapshots.                                          *)
(***************************************************************************)
\* No bundle becomes READY again, and pins and dependencies are taken from
\* bundles that are not READY.
LEMMA PinStep == TypeOK /\ PinnedWasActive /\ [Next]_vars => PinnedWasActive'
<1> SUFFICES ASSUME TypeOK, PinnedWasActive, [Next]_vars PROVE PinnedWasActive'
  OBVIOUS
<1> USE DEF catalogVars, missionVars, attemptVars, decisionVars, marketVars
<1>1. ASSUME NEW p \in Products, NEW b \in Bundles, Activate(p, b) PROVE PinnedWasActive'
  <2>1. pins' = pins /\ deps' = deps
    BY <1>1 DEF Activate
  <2>2. \A q \in Products, c \in Bundles : bundleState[q][c] # "READY" => bundleState'[q][c] # "READY"
    BY <1>1 DEF Activate, TypeOK
  <2>3. \A a \in Attempts, q \in Products : pins[a][q] \in Bundle0 /\ deps[a][q] \in Bundle0
    BY DEF TypeOK, Pins
  <2> QED
    BY <2>1, <2>2, <2>3 DEF PinnedWasActive, Bundle0
<1>2. ASSUME NEW a \in Attempts, NEW sel \in Pins, Prepare(a, sel) PROVE PinnedWasActive'
  <2>1. bundleState' = bundleState /\ deps' = deps
    BY <1>2 DEF Prepare
  <2>2. \A b \in Attempts : pins'[b] = pins[b] \/ pins'[b] = sel
    BY <1>2 DEF Prepare, TypeOK
  <2>3. \A p \in Products : sel[p] # NoBundle => bundleState[p][sel[p]] # "READY"
    BY <1>2 DEF Prepare, Selection
  <2> QED
    BY <2>1, <2>2, <2>3 DEF PinnedWasActive
<1>3. ASSUME NEW a \in Attempts, NEW w \in Owners, ClaimAndSnapshot(a, w) PROVE PinnedWasActive'
  <2>1. bundleState' = bundleState /\ pins' = pins
    BY <1>3 DEF ClaimAndSnapshot
  <2>2. \A b \in Attempts : deps'[b] = deps[b] \/ deps'[b] = pins[b]
    BY <1>3 DEF ClaimAndSnapshot, TypeOK
  <2> QED
    BY <2>1, <2>2 DEF PinnedWasActive
<1>4. ASSUME UNCHANGED <<bundleState, pins, deps>> PROVE PinnedWasActive'
  BY <1>4 DEF PinnedWasActive
<1>5. CASE UNCHANGED vars
  BY <1>4, <1>5 DEF vars
<1>6. ASSUME \/ \E m \in Missions : CreateMission(m)
             \/ \E l \in issued : FinalizeStale(l)
             \/ \E l \in issued, p \in Products : FinalizeDecision(l, p)
             \/ MarketNext
             \/ \E o \in Orgs, p \in Products : Invalidate(o, p)
             \/ Tick
      PROVE  PinnedWasActive'
  <2>1. UNCHANGED <<bundleState, pins, deps>>
    BY <1>6 DEF CreateMission, FinalizeStale, FinalizeDecision, MarketNext, Approve, Reject, Respond,
       Consent, Introduce, IntroduceAgain, Invalidate, Tick
  <2> QED
    BY <1>4, <2>1
<1> QED
  BY <1>1, <1>2, <1>3, <1>5, <1>6 DEF Next

\* What was outdated stays outdated: an activation moves the pointer to a READY
\* bundle, which no snapshot holds.
LEMMA OutdatedStep ==
  ASSUME TypeOK, PinnedWasActive, [Next]_vars, NEW a \in Attempts
  PROVE  Changed(a) \subseteq Changed(a)'
<1> USE DEF catalogVars, missionVars, attemptVars, decisionVars, marketVars
<1>1. ASSUME NEW p \in Products, NEW b \in Bundles, Activate(p, b) PROVE Changed(a) \subseteq Changed(a)'
  <2>1. deps' = deps /\ bundleState[p][b] = "READY"
    BY <1>1 DEF Activate
  <2>2. \A q \in Products : active'[q] = active[q] \/ (q = p /\ active'[q] = b)
    BY <1>1 DEF Activate, TypeOK
  <2> QED
    BY <2>1, <2>2 DEF Changed, PinnedWasActive
<1>2. ASSUME NEW c \in Attempts, NEW w \in Owners, ClaimAndSnapshot(c, w) PROVE Changed(a) \subseteq Changed(a)'
  <2>1. active' = active
    BY <1>2 DEF ClaimAndSnapshot
  <2>2. deps'[a] = deps[a] \/ deps[a] = NoPins
    BY <1>2 DEF ClaimAndSnapshot, TypeOK
  <2> QED
    BY <2>1, <2>2 DEF Changed, NoPins
<1>3. ASSUME UNCHANGED <<active, deps>> PROVE Changed(a) \subseteq Changed(a)'
  BY <1>3 DEF Changed
<1>4. CASE UNCHANGED vars
  BY <1>3, <1>4 DEF vars
<1>5. ASSUME \/ \E m \in Missions : CreateMission(m)
             \/ \E c \in Attempts, sel \in Pins : Prepare(c, sel)
             \/ \E l \in issued : FinalizeStale(l)
             \/ \E l \in issued, p \in Products : FinalizeDecision(l, p)
             \/ MarketNext
             \/ \E o \in Orgs, p \in Products : Invalidate(o, p)
             \/ Tick
      PROVE  Changed(a) \subseteq Changed(a)'
  <2>1. UNCHANGED <<active, deps>>
    BY <1>5 DEF CreateMission, Prepare, FinalizeStale, FinalizeDecision, MarketNext, Approve, Reject, Respond,
       Consent, Introduce, IntroduceAgain, Invalidate, Tick
  <2> QED
    BY <1>3, <2>1
<1> QED
  BY <1>1, <1>2, <1>4, <1>5 DEF Next

\* How the set of decided attempts and the current flags move: a step decides at
\* most one attempt (then with fresh inputs), and retires only outdated ones.
LEMMA DecidedStep ==
  ASSUME TypeOK, DecisionRows, [Next]_vars, NEW a \in Attempts
  PROVE  /\ a \in Decided => /\ a \in Decided' /\ deps'[a] = deps[a]
                             /\ current[a] /\ ~ current'[a] => Changed(a) # {}
                             /\ ~ current[a] => ~ current'[a]
         /\ a \notin Decided /\ a \in Decided' =>
              /\ attState[a] = "SNAPSHOT_COMPLETE" /\ Changed(a) = {}
              /\ UNCHANGED <<active, deps>>
              /\ current'[a]
              /\ \A b \in Attempts : b # a => attState'[b] = attState[b] /\ current'[b] = current[b]
<1> USE DEF catalogVars, missionVars, attemptVars, decisionVars, marketVars
<1> DEFINE Goal ==
      /\ a \in Decided => /\ a \in Decided' /\ deps'[a] = deps[a]
                          /\ current[a] /\ ~ current'[a] => Changed(a) # {}
                          /\ ~ current[a] => ~ current'[a]
      /\ a \notin Decided /\ a \in Decided' =>
           /\ attState[a] = "SNAPSHOT_COMPLETE" /\ Changed(a) = {}
           /\ UNCHANGED <<active, deps>>
           /\ current'[a]
           /\ \A b \in Attempts : b # a => attState'[b] = attState[b] /\ current'[b] = current[b]
<1> SUFFICES Goal
  OBVIOUS
<1>1. ASSUME NEW c \in Attempts, NEW sel \in Pins, Prepare(c, sel) PROVE Goal
  <2>1. attState[c] \in {"QUEUED", "NONE"}
    BY <1>1 DEF Prepare, Claimable
  <2>2. /\ \A b \in Attempts : attState'[b] = IF b = c THEN "QUEUED" ELSE attState[b]
        /\ UNCHANGED <<deps, current>>
    BY <1>1 DEF Prepare, TypeOK
  <2> QED
    BY <2>1, <2>2 DEF Decided
<1>2. ASSUME NEW c \in Attempts, NEW w \in Owners, ClaimAndSnapshot(c, w) PROVE Goal
  <2>1. attState[c] \in {"QUEUED", "RUNNING", "SNAPSHOT_COMPLETE"}
    BY <1>2 DEF ClaimAndSnapshot, CanClaim, MayClaim
  <2>2. /\ \A b \in Attempts : b # c => attState'[b] = attState[b] /\ deps'[b] = deps[b]
        /\ attState'[c] # "COMPLETED"
        /\ current' = current
    BY <1>2 DEF ClaimAndSnapshot, TypeOK
  <2> QED
    BY <2>1, <2>2 DEF Decided
<1>3. ASSUME NEW l \in issued, FinalizeStale(l) PROVE Goal
  <2>1. /\ l.attempt \in Attempts
        /\ WithReplacements({l.attempt}) \in [Attempts -> AttemptState]
    BY WithReplacementsType DEF TypeOK, Token
  <2>2. /\ attState[l.attempt] = "SNAPSHOT_COMPLETE"
        /\ attState' = [WithReplacements({l.attempt}) EXCEPT ![l.attempt] = "STALE"]
        /\ UNCHANGED <<deps, current>>
    BY <1>3 DEF FinalizeStale, Fenced
  <2>3. \A b \in Attempts : attState'[b] = "COMPLETED" <=> attState[b] = "COMPLETED"
    BY <2>1, <2>2 DEF WithReplacements
  <2> QED
    BY <2>2, <2>3 DEF Decided
<1>4. ASSUME NEW l \in issued, NEW p \in Products, FinalizeDecision(l, p) PROVE Goal
  <2>1. l.attempt \in Attempts
    BY DEF TypeOK, Token
  <2>2. /\ attState[l.attempt] = "SNAPSHOT_COMPLETE" /\ Changed(l.attempt) = {}
        /\ UNCHANGED <<active, deps>>
        /\ attState' = [attState EXCEPT ![l.attempt] = "COMPLETED"]
        /\ current' = [current EXCEPT ![l.attempt] = TRUE]
    BY <1>4 DEF FinalizeDecision, Fenced
  <2>3. /\ current'[l.attempt]
        /\ \A b \in Attempts : b # l.attempt => attState'[b] = attState[b] /\ current'[b] = current[b]
    BY <2>1, <2>2 DEF TypeOK
  <2>4. attState'[l.attempt] = "COMPLETED"
    BY <2>1, <2>2 DEF TypeOK
  <2> QED
    BY <2>1, <2>2, <2>3, <2>4 DEF Decided
<1>5. ASSUME NEW o \in Orgs, NEW p \in Products, Invalidate(o, p) PROVE Goal
  <2>1. /\ attState' = WithReplacements(Outdated(o, p))
        /\ current' = [b \in Attempts |-> current[b] /\ b \notin Outdated(o, p)]
        /\ deps' = deps
    BY <1>5 DEF Invalidate
  <2>2. \A b \in Attempts : attState'[b] = "COMPLETED" <=> attState[b] = "COMPLETED"
    BY <2>1 DEF WithReplacements
  <2>3. \A b \in Outdated(o, p) : Changed(b) # {}
    BY DEF Outdated
  <2> QED
    BY <2>1, <2>2, <2>3 DEF Decided
<1>6. ASSUME UNCHANGED <<attState, current, deps>> PROVE Goal
  BY <1>6 DEF Decided
<1>7. ASSUME \/ \E p \in Products, b \in Bundles : Activate(p, b)
             \/ \E m \in Missions : CreateMission(m)
             \/ MarketNext \/ Tick \/ UNCHANGED vars
      PROVE  Goal
  <2>1. UNCHANGED <<attState, current, deps>>
    BY <1>7 DEF Activate, CreateMission, MarketNext, Approve, Reject, Respond, Consent, Introduce,
       IntroduceAgain, Tick, vars
  <2> QED
    BY <1>6, <2>1
<1> QED
  BY <1>1, <1>2, <1>3, <1>4, <1>5, <1>7 DEF Next

\* Retired decisions are outdated, before and after every step.
LEMMA RetiredStep ==
  TypeOK /\ DecisionRows /\ PinnedWasActive /\ RetiredIsOutdated /\ [Next]_vars => RetiredIsOutdated'
<1> SUFFICES ASSUME TypeOK, DecisionRows, PinnedWasActive, RetiredIsOutdated, [Next]_vars,
                    NEW a \in Decided', ~ current'[a]
             PROVE  Changed(a)' # {}
  BY DEF RetiredIsOutdated
<1>1. a \in Attempts
  BY DEF Decided
<1>2. a \in Decided
  BY <1>1, DecidedStep
<1>3. Changed(a) # {}
  BY <1>1, <1>2, DecidedStep DEF RetiredIsOutdated
<1> QED
  BY <1>1, <1>3, OutdatedStep

\* A new decision rests on fresh inputs, the older ones of its mission do not.
LEMMA DistinctStep ==
  TypeOK /\ Chain /\ DecisionRows /\ RetiredIsOutdated /\ DistinctInputs /\ [Next]_vars => DistinctInputs'
<1> SUFFICES ASSUME TypeOK, Chain, DecisionRows, RetiredIsOutdated, DistinctInputs, [Next]_vars,
                    NEW a \in Decided', NEW b \in Decided', a[1] = b[1], a # b
             PROVE  deps'[a] # deps'[b]
  BY DEF DistinctInputs
<1>1. a \in Attempts /\ b \in Attempts
  BY DEF Decided
<1>2. ASSUME NEW c \in Attempts, NEW d \in Attempts, c[1] = d[1], c # d, c \in Decided, d \notin Decided, d \in Decided'
      PROVE  deps'[c] # deps'[d]
  <2>1. attState[d] = "SNAPSHOT_COMPLETE" /\ Changed(d) = {} /\ deps' = deps
    BY <1>2, DecidedStep
  <2>2. ~ d[2] < c[2]
    BY <1>2, <2>1 DEF Chain, Decided
  <2>3. c[2] < d[2]
    BY <1>2, <2>2, AttemptParts
  <2>4. ~ current[c]
    BY <1>2, <2>1, <2>3 DEF Chain
  <2>5. Changed(c) # {}
    BY <1>2, <2>4 DEF RetiredIsOutdated
  <2> QED
    BY <2>1, <2>5 DEF Changed
<1>3. CASE a \in Decided /\ b \in Decided
  BY <1>1, <1>3, DecidedStep DEF DistinctInputs
<1>4. CASE a \in Decided /\ b \notin Decided
  BY <1>1, <1>2, <1>4
<1>5. CASE a \notin Decided /\ b \in Decided
  BY <1>1, <1>2, <1>5
<1>6. CASE a \notin Decided /\ b \notin Decided
  BY <1>1, <1>6, DecidedStep DEF Decided
<1> QED
  BY <1>3, <1>4, <1>5, <1>6

(***************************************************************************)
(* The keys of the READY events.                                           *)
(***************************************************************************)
\* A pointer's generation grows with every activation, and a mission has no
\* current decision left when its key for that generation is taken.
LEMMA KeyStep ==
  ASSUME TypeOK, Chain, DecisionRows, PinnedWasActive, EventsPast, ReplacementKeyFresh, [Next]_vars
  PROVE  EventsPast' /\ ReplacementKeyFresh'
<1> USE DEF catalogVars, missionVars, attemptVars, decisionVars, marketVars
<1>1. ASSUME NEW p \in Products, NEW b \in Bundles, Activate(p, b) PROVE EventsPast' /\ ReplacementKeyFresh'
  <2>1. /\ UNCHANGED <<readyEvents, current, deps>>
        /\ \A q \in Products : /\ pointerGen'[q] = IF q = p THEN pointerGen[q] + 1 ELSE pointerGen[q]
                               /\ pointerGen[q] \in Nat
                               /\ q # p => active'[q] = active[q]
    BY <1>1 DEF Activate, TypeOK
  <2>2. \A e \in readyEvents : e[3] \in Nat
    BY DEF TypeOK, ReadyEvent
  <2>3. EventsPast'
    BY <2>1, <2>2 DEF EventsPast
  <2>4. ASSUME NEW a \in Attempts, NEW q \in Products, current'[a], q \in Changed(a)'
        PROVE  <<a[1], q, pointerGen'[q]>> \notin readyEvents'
    <3>1. CASE q = p
      <4>1. \A e \in readyEvents : e[2] = p => e[3] # pointerGen'[p]
        BY <2>1, <2>2 DEF EventsPast
      <4> QED
        BY <2>1, <3>1, <4>1
    <3>2. CASE q # p
      BY <2>1, <2>4, <3>2 DEF ReplacementKeyFresh, Changed
    <3> QED
      BY <3>1, <3>2
  <2> QED
    BY <2>3, <2>4 DEF ReplacementKeyFresh
<1>2. ASSUME NEW m \in Missions, CreateMission(m) PROVE EventsPast' /\ ReplacementKeyFresh'
  <2>1. /\ readyEvents' = readyEvents \cup {<<m, NoProduct, 0>>}
        /\ UNCHANGED <<pointerGen, current, deps, active>>
    BY <1>2 DEF CreateMission
  <2> QED
    BY <2>1, SentinelAssumption DEF EventsPast, ReplacementKeyFresh, Changed
<1>3. ASSUME NEW a \in Attempts, NEW w \in Owners, ClaimAndSnapshot(a, w) PROVE EventsPast' /\ ReplacementKeyFresh'
  <2>1. UNCHANGED <<readyEvents, pointerGen, current, active>>
    BY <1>3 DEF ClaimAndSnapshot
  <2>2. \A b \in Attempts : current[b] => deps'[b] = deps[b]
    BY <1>3 DEF ClaimAndSnapshot, CanClaim, MayClaim, DecisionRows, TypeOK
  <2> QED
    BY <2>1, <2>2 DEF EventsPast, ReplacementKeyFresh, Changed
<1>4. ASSUME NEW l \in issued, NEW p \in Products, FinalizeDecision(l, p) PROVE EventsPast' /\ ReplacementKeyFresh'
  <2>1. /\ UNCHANGED <<readyEvents, pointerGen, active, deps>>
        /\ Changed(l.attempt) = {}
        /\ \A b \in Attempts : b # l.attempt => current'[b] = current[b]
    BY <1>4 DEF FinalizeDecision, TypeOK
  <2> QED
    BY <2>1 DEF EventsPast, ReplacementKeyFresh, Changed
<1>5. ASSUME NEW o \in Orgs, NEW p \in Products, Invalidate(o, p) PROVE EventsPast' /\ ReplacementKeyFresh'
  <2> DEFINE hit == Outdated(o, p)
  <2>1. hit \subseteq Attempts /\ \A a \in hit : current[a]
    BY DEF Outdated
  <2> HIDE DEF hit
  <2>2. /\ readyEvents' = readyEvents \cup {<<a[1], p, pointerGen[p]>> : a \in hit}
        /\ current' = [a \in Attempts |-> current[a] /\ a \notin hit]
        /\ UNCHANGED <<pointerGen, active, deps>>
    BY <1>5 DEF Invalidate, hit
  <2>3. EventsPast'
    BY <2>2 DEF EventsPast, TypeOK
  <2>4. ASSUME NEW a \in Attempts, NEW q \in Products, current'[a], q \in Changed(a)'
        PROVE  <<a[1], q, pointerGen'[q]>> \notin readyEvents'
    <3>1. current[a] /\ a \notin hit /\ q \in Changed(a)
      BY <2>2, <2>4 DEF Changed
    <3>2. <<a[1], q, pointerGen[q]>> \notin readyEvents
      BY <3>1 DEF ReplacementKeyFresh
    <3>3. \A c \in hit : c[1] # a[1]
      BY <2>1, <3>1, ChainHasOneCurrent DEF OneCurrentDecision
    <3> QED
      BY <2>2, <3>2, <3>3
  <2> QED
    BY <2>3, <2>4 DEF ReplacementKeyFresh
<1>6. ASSUME UNCHANGED <<readyEvents, pointerGen, current, active, deps>> PROVE EventsPast' /\ ReplacementKeyFresh'
  BY <1>6 DEF EventsPast, ReplacementKeyFresh, Changed
<1>7. ASSUME \/ \E a \in Attempts, sel \in Pins : Prepare(a, sel)
             \/ \E l \in issued : FinalizeStale(l)
             \/ MarketNext \/ Tick \/ UNCHANGED vars
      PROVE  EventsPast' /\ ReplacementKeyFresh'
  <2>1. UNCHANGED <<readyEvents, pointerGen, current, active, deps>>
    BY <1>7 DEF Prepare, FinalizeStale, MarketNext, Approve, Reject, Respond, Consent, Introduce,
       IntroduceAgain, Tick, vars
  <2> QED
    BY <1>6, <2>1
<1> QED
  BY <1>1, <1>2, <1>3, <1>4, <1>5, <1>7 DEF Next

(***************************************************************************)
(* Consents and introductions.                                             *)
(***************************************************************************)
\* Consents are given once per party, and what an introduction stands on is never
\* taken away: neither by later consents, nor by an invalidation.
LEMMA IntroStep ==
  ASSUME TypeOK, DecisionRows, OneConsentPerParty, IntroductionAuthorised, [Next]_vars
  PROVE  OneConsentPerParty' /\ IntroductionAuthorised'
<1> USE DEF catalogVars, missionVars, attemptVars, decisionVars, marketVars
<1>1. ASSUME UNCHANGED <<consents, intros, eng, approval>> PROVE OneConsentPerParty' /\ IntroductionAuthorised'
  BY <1>1 DEF OneConsentPerParty, IntroductionAuthorised
<1>2. ASSUME NEW l \in issued, NEW p \in Products, FinalizeDecision(l, p)
      PROVE  OneConsentPerParty' /\ IntroductionAuthorised'
  <2>1. /\ UNCHANGED <<consents, intros, eng>>
        /\ attState[l.attempt] = "SNAPSHOT_COMPLETE"
        /\ \A b \in Attempts : b # l.attempt => approval'[b] = approval[b]
    BY <1>2 DEF FinalizeDecision, Fenced, TypeOK
  <2>2. \A i \in intros : i.attempt \in Attempts /\ attState[i.attempt] = "COMPLETED"
    BY DEF IntroductionAuthorised, DecisionRows, TypeOK, IntroRow
  <2> QED
    BY <2>1, <2>2 DEF OneConsentPerParty, IntroductionAuthorised
<1>3. ASSUME NEW a \in Attempts, Approve(a) \/ Reject(a) PROVE OneConsentPerParty' /\ IntroductionAuthorised'
  <2>1. /\ UNCHANGED <<consents, intros>> /\ approval[a] = "PENDING"
        /\ \A b \in Attempts : b # a => eng'[b] = eng[b] /\ approval'[b] = approval[b]
    BY <1>3 DEF Approve, Reject, TypeOK
  <2>2. \A i \in intros : i.attempt \in Attempts /\ i.attempt # a
    BY <2>1 DEF IntroductionAuthorised, TypeOK, IntroRow
  <2> QED
    BY <2>1, <2>2 DEF OneConsentPerParty, IntroductionAuthorised
<1>4. ASSUME NEW a \in Attempts, Respond(a) PROVE OneConsentPerParty' /\ IntroductionAuthorised'
  <2>1. /\ UNCHANGED <<consents, intros, approval>> /\ eng[a] \in {"OPEN", "RESPONDED"}
        /\ \A b \in Attempts : b # a => eng'[b] = eng[b]
    BY <1>4 DEF Respond, TypeOK
  <2>2. \A i \in intros : i.attempt \in Attempts /\ i.attempt # a
    BY <2>1 DEF IntroductionAuthorised, TypeOK, IntroRow
  <2> QED
    BY <2>1, <2>2 DEF OneConsentPerParty, IntroductionAuthorised
<1>5. ASSUME NEW a \in Attempts, NEW party \in Party, NEW actor \in Actors, NEW f \in Fields,
             Consent(a, party, actor, f)
      PROVE  OneConsentPerParty' /\ IntroductionAuthorised'
  <2> DEFINE day == now + ConsentTerm
             c == [attempt |-> a, party |-> party, actor |-> actor, fields |-> f,
                   expires |-> IF engExpires[a] <= day THEN engExpires[a] ELSE day]
  <2>1. /\ c.attempt = a /\ c.party = party
        /\ consents' = consents \cup {c}
    BY <1>5 DEF Consent
  <2> HIDE DEF c
  <2>2. /\ UNCHANGED <<intros, approval>>
        /\ \A d \in consents : d.attempt = a => d.party # party
        /\ \A b \in Attempts : b # a => eng'[b] = eng[b]
    BY <1>5 DEF Consent, TypeOK
  <2>3. \A i \in intros : i.attempt \in Attempts /\ i.attempt # a
    BY <2>2 DEF IntroductionAuthorised, TypeOK, IntroRow
  <2>4. OneConsentPerParty'
    BY <2>1, <2>2 DEF OneConsentPerParty
  <2>5. IntroductionAuthorised'
    BY <2>1, <2>2, <2>3 DEF IntroductionAuthorised
  <2> QED
    BY <2>4, <2>5
<1>6. ASSUME NEW a \in Attempts, NEW f \in Fields, Introduce(a, f)
      PROVE  OneConsentPerParty' /\ IntroductionAuthorised'
  <2>1. /\ UNCHANGED <<consents, approval>> /\ approval[a] = "APPROVED"
        /\ eng' = [eng EXCEPT ![a] = "INTRODUCED"]
    BY <1>6 DEF Introduce
  <2>2. PICK i0 : i0.attempt = a /\ i0.fields = f /\ intros' = intros \cup {i0}
    BY <1>6 DEF Introduce
  <2>3. PICK b \in consents, s \in consents :
          /\ b.attempt = a /\ b.party = "BUYER"  /\ b.fields = f
          /\ s.attempt = a /\ s.party = "SELLER" /\ s.fields = f
          /\ b.actor # s.actor
    BY <1>6 DEF Introduce
  <2>4. \A c \in consents : c.attempt = a => c = b \/ c = s
    BY <2>3 DEF OneConsentPerParty, TypeOK, ConsentRow, Party
  <2>5. /\ eng'[a] = "INTRODUCED"
        /\ \A c \in Attempts : c # a => eng'[c] = eng[c]
    BY <2>1 DEF TypeOK
  <2>6. /\ \A party \in Party : \E c \in consents : c.attempt = a /\ c.party = party /\ c.fields = f
        /\ \A c, d \in consents : c.attempt = a /\ d.attempt = a /\ c # d => c.actor # d.actor
    BY <2>3, <2>4 DEF Party
  <2>7. \A i \in intros : i.attempt \in Attempts
    BY DEF TypeOK, IntroRow
  <2>8. IntroductionAuthorised'
    BY <2>1, <2>2, <2>5, <2>6, <2>7 DEF IntroductionAuthorised
  <2> QED
    BY <2>1, <2>8 DEF OneConsentPerParty
<1>7. ASSUME NEW o \in Orgs, NEW p \in Products, Invalidate(o, p)
      PROVE  OneConsentPerParty' /\ IntroductionAuthorised'
  <2>1. /\ UNCHANGED <<consents, intros>>
        /\ \A a \in Attempts : /\ eng[a] = "INTRODUCED" => eng'[a] = "INTRODUCED"
                               /\ approval'[a] \in {approval[a], "INVALIDATED"}
    BY <1>7 DEF Invalidate
  <2>2. \A i \in intros : i.attempt \in Attempts
    BY DEF TypeOK, IntroRow
  <2> QED
    BY <2>1, <2>2 DEF OneConsentPerParty, IntroductionAuthorised
<1>8. ASSUME \/ \E p \in Products, b \in Bundles : Activate(p, b)
             \/ \E m \in Missions : CreateMission(m)
             \/ \E a \in Attempts, sel \in Pins : Prepare(a, sel)
             \/ \E a \in Attempts, w \in Owners : ClaimAndSnapshot(a, w)
             \/ \E l \in issued : FinalizeStale(l)
             \/ \E a \in Attempts, f \in Fields : IntroduceAgain(a, f)
             \/ Tick \/ UNCHANGED vars
      PROVE  OneConsentPerParty' /\ IntroductionAuthorised'
  <2>1. UNCHANGED <<consents, intros, eng, approval>>
    BY <1>8 DEF Activate, CreateMission, Prepare, ClaimAndSnapshot, FinalizeStale, IntroduceAgain, Tick, vars
  <2> QED
    BY <1>1, <2>1
<1> QED
  BY <1>2, <1>3, <1>4, <1>5, <1>6, <1>7, <1>8 DEF Next, MarketNext

(***************************************************************************)
(* The state of a mission.                                                 *)
(***************************************************************************)
\* What a mission's state promises about its attempts, kept by every transaction.
\* The one that could break it is the invalidation: the retired decision ended the
\* chain, so its direct successor is a new attempt, QUEUED and without bundles,
\* and every other attempt of the mission is over.
LEMMA MissionStep ==
  ASSUME TypeOK, Chain, DecisionRows, IntroductionAuthorised, Preparation, MissionStateHonest, [Next]_vars
  PROVE  Preparation' /\ MissionStateHonest'
<1> DEFINE Goal == Preparation' /\ MissionStateHonest'
<1> USE DEF catalogVars, missionVars, attemptVars, decisionVars, marketVars
<1>1. ASSUME UNCHANGED <<mission, attState, pins, current, approval>> PROVE Goal
  BY <1>1 DEF Preparation, MissionStateHonest
<1>2. ASSUME NEW m \in Missions, CreateMission(m) PROVE Goal
  <2>1. /\ UNCHANGED <<attState, pins, current, approval>> /\ mission[m] = "NONE"
        /\ mission' = [mission EXCEPT ![m] = "READY"]
    BY <1>2 DEF CreateMission
  <2>2. mission'[m] = "READY" /\ \A n \in Missions : n # m => mission'[n] = mission[n]
    BY <2>1 DEF TypeOK
  <2>3. \A a \in Attempts : a[1] \in Missions /\ (a[1] = m => attState[a] = "NONE" /\ pins[a] = NoPins)
    BY <2>1, AttemptParts DEF Preparation
  <2>4. Preparation'
    BY <2>1, <2>2, <2>3 DEF Preparation
  <2>5. MissionStateHonest'
    BY <2>1, <2>2, <2>3 DEF MissionStateHonest
  <2> QED
    BY <2>4, <2>5
<1>3. ASSUME NEW a \in Attempts, NEW sel \in Pins, Prepare(a, sel) PROVE Goal
  <2>1. a[1] \in Missions /\ \A b \in Attempts : b[1] \in Missions
    BY AttemptParts
  <2>2. /\ UNCHANGED <<current, approval>> /\ mission'[a[1]] = "RUNNING"
        /\ \A n \in Missions : n # a[1] => mission'[n] = mission[n]
        /\ attState'[a] = "QUEUED"
        /\ \A b \in Attempts : b # a => attState'[b] = attState[b] /\ pins'[b] = pins[b]
    BY <1>3, <2>1 DEF Prepare, TypeOK
  <2>3. Preparation'
    BY <2>1, <2>2 DEF Preparation
  <2>4. MissionStateHonest'
    BY <2>1, <2>2 DEF MissionStateHonest
  <2> QED
    BY <2>3, <2>4
<1>4. ASSUME NEW a \in Attempts, NEW w \in Owners, ClaimAndSnapshot(a, w) PROVE Goal
  <2>1. a[1] \in Missions
    BY AttemptParts
  <2>2. /\ UNCHANGED <<mission, pins, current, approval>>
        /\ pins[a] # NoPins
        /\ attState[a] \in {"QUEUED", "RUNNING", "SNAPSHOT_COMPLETE"}
    BY <1>4 DEF ClaimAndSnapshot, CanClaim, MayClaim
  <2>3. /\ attState'[a] \in {"RUNNING", "SNAPSHOT_COMPLETE"}
        /\ \A b \in Attempts : b # a => attState'[b] = attState[b]
    BY <1>4 DEF ClaimAndSnapshot, TypeOK
  <2>4. mission[a[1]] \notin {"NONE", "READY"}
    BY <2>2 DEF Preparation
  <2>5. Preparation'
    BY <2>2, <2>3, <2>4 DEF Preparation
  <2>6. MissionStateHonest'
    BY <2>1, <2>2, <2>3, <2>4 DEF MissionStateHonest
  <2> QED
    BY <2>5, <2>6
<1>5. ASSUME NEW l \in issued, FinalizeStale(l) PROVE Goal
  <2> DEFINE a == l.attempt
  <2>1. a \in Attempts /\ WithReplacements({a}) \in [Attempts -> AttemptState]
    BY WithReplacementsType DEF TypeOK, Token
  <2> HIDE DEF a
  <2>2. /\ UNCHANGED <<mission, pins, current, approval>>
        /\ attState[a] = "SNAPSHOT_COMPLETE" /\ a[2] < MaxDepth
        /\ attState' = [WithReplacements({a}) EXCEPT ![a] = "STALE"]
    BY <1>5 DEF FinalizeStale, Fenced, a
  <2>3. /\ attState'[a] = "STALE"
        /\ \A b \in Attempts : b # a => attState'[b] = WithReplacements({a})[b]
    BY <2>1, <2>2
  <2>4. a[1] \in Missions /\ mission[a[1]] # "NONE"
    BY <2>1, <2>2, AttemptParts DEF Preparation
  <2>5. \A b \in Attempts : b # a => \/ attState'[b] = attState[b]
                                     \/ b[1] = a[1] /\ attState[b] = "NONE" /\ attState'[b] = "QUEUED"
    BY <2>1, <2>2, <2>3, SuccIsAttempt DEF WithReplacements
  <2>6. Preparation'
    BY <2>1, <2>2, <2>3, <2>4, <2>5, ZenonT(30) DEF Preparation
  <2>7. MissionStateHonest'
    <3> SUFFICES ASSUME NEW m \in Missions
                 PROVE  /\ mission'[m] = "AWAITING_APPROVAL" =>
                             \E b \in Attempts : b[1] = m /\ current'[b] /\ approval'[b] \in {"PENDING", "APPROVED"}
                        /\ mission'[m] = "READY" => \/ \A b \in Attempts : b[1] = m => attState'[b] = "NONE"
                                                    \/ \E b \in Attempts : b[1] = m /\ attState'[b] = "QUEUED"
      BY DEF MissionStateHonest
    <3>1. mission[m] = "AWAITING_APPROVAL" =>
            \E b \in Attempts : b[1] = m /\ current[b] /\ approval[b] \in {"PENDING", "APPROVED"}
      BY DEF MissionStateHonest
    <3>2. mission[m] = "READY" => \/ \A b \in Attempts : b[1] = m => attState[b] = "NONE"
                                  \/ \E b \in Attempts : b[1] = m /\ attState[b] = "QUEUED"
      BY DEF MissionStateHonest
    <3>3. CASE m = a[1]
      BY <2>1, <2>2, <2>5, <3>1, <3>2, <3>3, ZenonT(30)
    <3>4. CASE m # a[1]
      BY <2>1, <2>2, <2>5, <3>1, <3>2, <3>4, ZenonT(30)
    <3> QED
      BY <3>3, <3>4
  <2> QED
    BY <2>6, <2>7
<1>6. ASSUME NEW l \in issued, NEW p \in Products, FinalizeDecision(l, p) PROVE Goal
  <2> DEFINE a == l.attempt
  <2>1. a \in Attempts /\ a[1] \in Missions
    BY AttemptParts DEF TypeOK, Token
  <2> HIDE DEF a
  <2>2. /\ pins' = pins
        /\ attState' = [attState EXCEPT ![a] = "COMPLETED"]
        /\ approval' = [approval EXCEPT ![a] = "PENDING"]
        /\ current' = [current EXCEPT ![a] = TRUE]
        /\ mission' = [mission EXCEPT ![a[1]] = "AWAITING_APPROVAL"]
    BY <1>6 DEF FinalizeDecision, a
  <2>3. /\ attState'[a] = "COMPLETED" /\ approval'[a] = "PENDING" /\ current'[a]
        /\ mission'[a[1]] = "AWAITING_APPROVAL"
        /\ \A n \in Missions : n # a[1] => mission'[n] = mission[n]
        /\ \A b \in Attempts : b # a => attState'[b] = attState[b] /\ approval'[b] = approval[b]
                                        /\ current'[b] = current[b]
    BY <2>1, <2>2 DEF TypeOK
  <2>4. Preparation'
    BY <2>1, <2>2, <2>3, AttemptParts DEF Preparation
  <2>5. MissionStateHonest'
    BY <2>1, <2>3 DEF MissionStateHonest
  <2> QED
    BY <2>4, <2>5
<1>7. ASSUME NEW a \in Attempts, Approve(a) PROVE Goal
  <2>1. /\ UNCHANGED <<mission, attState, pins, current>>
        /\ approval'[a] = "APPROVED"
        /\ \A b \in Attempts : b # a => approval'[b] = approval[b]
    BY <1>7 DEF Approve, TypeOK
  <2>2. Preparation'
    BY <2>1 DEF Preparation
  <2>3. MissionStateHonest'
    BY <2>1 DEF MissionStateHonest
  <2> QED
    BY <2>2, <2>3
<1>8. ASSUME NEW a \in Attempts,
             Reject(a) \/ (\E f \in Fields : Introduce(a, f) \/ IntroduceAgain(a, f))
      PROVE  Goal
  <2>1. a[1] \in Missions /\ \A b \in Attempts : b[1] \in Missions
    BY AttemptParts
  <2>2. /\ UNCHANGED <<attState, pins, current>>
        /\ mission'[a[1]] = "COMPLETED"
        /\ \A n \in Missions : n # a[1] => mission'[n] = mission[n]
        /\ \A b \in Attempts : b # a => approval'[b] = approval[b]
    BY <1>8, <2>1 DEF Reject, Introduce, IntroduceAgain, TypeOK
  <2>3. current[a] \/ approval[a] # "NONE"
    BY <1>8 DEF Reject, Introduce, IntroduceAgain, IntroductionAuthorised
  <2>4. mission[a[1]] # "NONE"
    BY <2>3 DEF DecisionRows, Preparation
  <2>5. Preparation'
    BY <2>1, <2>2, <2>4 DEF Preparation
  <2>6. MissionStateHonest'
    BY <2>1, <2>2 DEF MissionStateHonest
  <2> QED
    BY <2>5, <2>6
<1>9. ASSUME NEW o \in Orgs, NEW p \in Products, Invalidate(o, p) PROVE Goal
  <2> DEFINE hit == Outdated(o, p)
  <2>1. hit \subseteq Attempts /\ \A a \in hit : current[a] /\ attState[a] = "COMPLETED"
    BY DEF Outdated, DecisionRows
  <2> HIDE DEF hit
  <2>2. /\ \A a \in hit : a[2] < MaxDepth
        /\ attState' = WithReplacements(hit)
        /\ current' = [a \in Attempts |-> current[a] /\ a \notin hit]
        /\ approval' = [a \in Attempts |-> IF a \in hit THEN "INVALIDATED" ELSE approval[a]]
        /\ mission' = [m \in Missions |-> IF \E a \in hit : a[1] = m THEN "READY" ELSE mission[m]]
        /\ pins' = pins
    BY <1>9 DEF Invalidate, hit
  <2>3. \A a \in hit : /\ Succ(a) \in Attempts /\ Succ(a)[1] = a[1] /\ Succ(a)[2] = a[2] + 1
                       /\ attState[Succ(a)] = "NONE" /\ attState'[Succ(a)] = "QUEUED"
    <3> SUFFICES ASSUME NEW a \in hit
                 PROVE  /\ Succ(a) \in Attempts /\ Succ(a)[1] = a[1] /\ Succ(a)[2] = a[2] + 1
                        /\ attState[Succ(a)] = "NONE" /\ attState'[Succ(a)] = "QUEUED"
      OBVIOUS
    <3>1. Succ(a) \in Attempts /\ Succ(a)[1] = a[1] /\ Succ(a)[2] = a[2] + 1
      BY <2>1, <2>2, SuccIsAttempt
    <3>2. a \in Attempts /\ a[2] < Succ(a)[2]
      BY <2>1, <3>1, AttemptParts
    <3>3. attState[Succ(a)] = "NONE"
      BY <2>1, <3>1, <3>2 DEF Chain
    <3> QED
      BY <2>2, <3>1, <3>3 DEF WithReplacements
  <2>4. \A b \in Attempts : \/ attState'[b] = attState[b]
                            \/ attState[b] = "NONE" /\ attState'[b] = "QUEUED"
    BY <2>2 DEF WithReplacements
  <2>5. \A b \in Attempts : (\A a \in hit : a[1] # b[1]) => attState'[b] = attState[b]
    BY <2>2, <2>3 DEF WithReplacements
  <2>6. \A a \in hit, b \in Attempts : a[1] = b[1] /\ attState[b] # "NONE" => attState[b] \in {"STALE", "COMPLETED"}
    <3> SUFFICES ASSUME NEW a \in hit, NEW b \in Attempts, a[1] = b[1], attState[b] # "NONE"
                 PROVE  attState[b] \in {"STALE", "COMPLETED"}
      OBVIOUS
    <3>1. a \in Attempts /\ current[a] /\ attState[a] = "COMPLETED"
      BY <2>1
    <3>2. a = b \/ a[2] < b[2] \/ b[2] < a[2]
      BY <3>1, AttemptParts
    <3> QED
      BY <3>1, <3>2 DEF Chain
  <2>7. \A b \in Attempts : b[1] \in Missions
    BY AttemptParts
  <2>8. Preparation'
    <3> SUFFICES ASSUME NEW b \in Attempts
                 PROVE  /\ mission'[b[1]] = "NONE" => attState'[b] = "NONE"
                        /\ attState'[b] = "NONE" => pins'[b] = NoPins
                        /\ pins'[b] # NoPins /\ mission'[b[1]] = "READY" => attState'[b] \in {"STALE", "COMPLETED"}
      BY DEF Preparation
    <3>1. CASE \E a \in hit : a[1] = b[1]
      <4>1. mission'[b[1]] = "READY"
        BY <2>2, <2>7, <3>1
      <4>2. attState[b] = "NONE" => pins[b] = NoPins
        BY DEF Preparation
      <4> QED
        BY <2>2, <2>4, <2>6, <3>1, <4>1, <4>2
    <3>2. CASE \A a \in hit : a[1] # b[1]
      <4>1. mission'[b[1]] = mission[b[1]] /\ attState'[b] = attState[b] /\ pins'[b] = pins[b]
        BY <2>2, <2>5, <2>7, <3>2
      <4> QED
        BY <4>1 DEF Preparation
    <3> QED
      BY <3>1, <3>2
  <2>9. MissionStateHonest'
    <3> SUFFICES ASSUME NEW m \in Missions
                 PROVE  /\ mission'[m] = "AWAITING_APPROVAL" =>
                             \E a \in Attempts : a[1] = m /\ current'[a] /\ approval'[a] \in {"PENDING", "APPROVED"}
                        /\ mission'[m] = "READY" => \/ \A a \in Attempts : a[1] = m => attState'[a] = "NONE"
                                                    \/ \E a \in Attempts : a[1] = m /\ attState'[a] = "QUEUED"
      BY DEF MissionStateHonest
    <3>1. CASE \E a \in hit : a[1] = m
      BY <2>2, <2>3, <3>1
    <3>2. CASE \A a \in hit : a[1] # m
      <4>1. mission'[m] = mission[m]
        BY <2>2, <3>2
      <4>2. \A b \in Attempts : b[1] = m => /\ attState'[b] = attState[b]
                                            /\ current'[b] = current[b] /\ approval'[b] = approval[b]
        BY <2>2, <2>5, <3>2 DEF TypeOK
      <4> QED
        BY <4>1, <4>2 DEF MissionStateHonest
    <3> QED
      BY <3>1, <3>2
  <2> QED
    BY <2>8, <2>9
<1>10. ASSUME \/ \E p \in Products, b \in Bundles : Activate(p, b)
              \/ \E a \in Attempts : Respond(a)
              \/ \E a \in Attempts, party \in Party, actor \in Actors, f \in Fields : Consent(a, party, actor, f)
              \/ Tick \/ UNCHANGED vars
       PROVE  Goal
  <2>1. UNCHANGED <<mission, attState, pins, current, approval>>
    BY <1>10 DEF Activate, Respond, Consent, Tick, vars
  <2> QED
    BY <1>1, <2>1
<1> QED
  BY <1>2, <1>3, <1>4, <1>5, <1>6, <1>7, <1>8, <1>9, <1>10 DEF Next, MarketNext

(***************************************************************************)
(* The theorems.                                                           *)
(***************************************************************************)
\* The empty tables satisfy the invariant.
LEMMA InvInit == Init => Inv
<1> SUFFICES ASSUME Init PROVE Inv
  OBVIOUS
<1>1. TypeOK
  BY TypeInit
<1>2. \A a \in Attempts : attState[a] = "NONE" /\ ~ current[a] /\ approval[a] = "NONE" /\ pins[a] = NoPins
                          /\ deps[a] = NoPins
  BY DEF Init
<1>3. Decided = {} /\ intros = {} /\ consents = {} /\ readyEvents = {}
  BY <1>2 DEF Init, Decided
<1>4. Chain /\ DecisionRows
  BY <1>2 DEF Chain, DecisionRows
<1>5. PinnedWasActive
  <2>1. \A p \in Products : NoPins[p] = NoBundle
    BY DEF NoPins
  <2> QED
    BY <1>2, <2>1 DEF PinnedWasActive
<1>6. RetiredIsOutdated /\ DistinctInputs /\ EventsPast /\ OneConsentPerParty /\ IntroductionAuthorised
  BY <1>3 DEF RetiredIsOutdated, DistinctInputs, EventsPast, OneConsentPerParty, IntroductionAuthorised
<1>7. ReplacementKeyFresh
  BY <1>2 DEF ReplacementKeyFresh
<1>8. \A m \in Missions : mission[m] = "NONE"
  BY DEF Init
<1>9. Preparation
  BY <1>2 DEF Preparation
<1>10. MissionStateHonest
  BY <1>8 DEF MissionStateHonest
<1> QED
  BY <1>1, <1>4, <1>5, <1>6, <1>7, <1>9, <1>10 DEF Inv

\* Every transaction keeps it.
LEMMA InvStep == Inv /\ [Next]_vars => Inv'
<1> SUFFICES ASSUME Inv, [Next]_vars PROVE Inv'
  OBVIOUS
<1>1. TypeOK' /\ Chain' /\ DecisionRows'
  BY TypeStep, ChainStep DEF Inv
<1>2. PinnedWasActive'
  BY PinStep DEF Inv
<1>3. RetiredIsOutdated' /\ DistinctInputs'
  BY RetiredStep, DistinctStep DEF Inv
<1>4. EventsPast' /\ ReplacementKeyFresh'
  BY KeyStep DEF Inv
<1>5. OneConsentPerParty' /\ IntroductionAuthorised'
  BY IntroStep DEF Inv
<1>6. Preparation' /\ MissionStateHonest'
  BY MissionStep DEF Inv
<1> QED
  BY <1>1, <1>2, <1>3, <1>4, <1>5, <1>6 DEF Inv

\* The inductive invariant of the kernel.
THEOREM Invariance == Spec => []Inv
  BY InvInit, InvStep, PTL DEF Spec

\* No interleaving of claims, finalizations and invalidations gives a mission two
\* current decisions: uq_qualification_current_decision never fires.
THEOREM CurrentIsUnique == Spec => []OneCurrentDecision
<1>1. Inv => OneCurrentDecision
  BY ChainHasOneCurrent DEF Inv
<1> QED
  BY <1>1, Invariance, PTL

\* A replacement never decides on the inputs of an earlier decision of its mission:
\* uq_qualification_decision_input never fires.
THEOREM InputsAreDistinct == Spec => []DistinctInputs
<1>1. Inv => DistinctInputs
  BY DEF Inv
<1> QED
  BY <1>1, Invariance, PTL

\* The event key of an invalidation is always free: the outbox never aborts it.
THEOREM KeysAreFresh == Spec => []ReplacementKeyFresh
<1>1. Inv => ReplacementKeyFresh
  BY DEF Inv
<1> QED
  BY <1>1, Invariance, PTL

\* Every introduction stands on an approval and on the consents of two humans to
\* exactly its fields, whatever happened after it was made.
THEOREM IntroductionsAreAuthorised == Spec => []IntroductionAuthorised
<1>1. Inv => IntroductionAuthorised
  BY DEF Inv
<1> QED
  BY <1>1, Invariance, PTL

\* A mission that awaits approval has a decision to approve, and a READY one has
\* an attempt to claim or none yet.
THEOREM MissionsAreHonest == Spec => []MissionStateHonest
<1>1. Inv => MissionStateHonest
  BY DEF Inv
<1> QED
  BY <1>1, Invariance, PTL

\* No activation makes a stale snapshot fresh again.
THEOREM StaleForever == Spec => StaleStaysStale
<1>1. Inv /\ [Next]_vars => [\A a \in Attempts : Changed(a) \subseteq Changed(a)']_vars
  <2> SUFFICES ASSUME Inv, [Next]_vars, NEW a \in Attempts PROVE Changed(a) \subseteq Changed(a)'
    OBVIOUS
  <2> QED
    BY OutdatedStep DEF Inv
<1> QED
  BY <1>1, Invariance, PTL DEF Spec, StaleStaysStale
=============================================================================
