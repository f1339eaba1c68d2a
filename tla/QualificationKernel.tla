------------------------ MODULE QualificationKernel ------------------------
(***************************************************************************)
(* The correctness kernel of the qualification marketplace: the rows that  *)
(* python/persistence/qualification_models.py declares and the             *)
(* transactions that change them.  CockroachDB runs every transaction      *)
(* SERIALIZABLE, so each one is a single step.  A transaction that raises   *)
(* is rolled back and is no step at all: every early return and every      *)
(* constraint that aborts is a guard.                                      *)
(*                                                                         *)
(* The callers are left open here.  Any transaction may be attempted at    *)
(* any time with any argument a caller can hold: a lease token that        *)
(* claim_attempt returned at some point (however old), a candidate list    *)
(* that was current at some point.  QualificationSystem closes the model   *)
(* with the worker processes and the queues that issue these calls.        *)
(***************************************************************************)
EXTENDS Integers

CONSTANTS
  Products,        \* product ids of the catalog
  CandidateSets,   \* the sets of products a retrieval may select
  Bundles,         \* bundle ids; a bundle id stands for its digest too
  NoBundle,        \* no bundle pinned, or no active pointer
  Missions,        \* buyer missions
  Orgs,            \* buyer organizations
  OrgOf,           \* the organization that owns a mission
  Owners,          \* lease owners: one per worker process
  NoOwner,         \* lease_owner IS NULL
  Actors,          \* humans that may grant consent
  Fields,          \* the shared field sets a party can approve (their hash)
  NoProduct,       \* the product of a mission's first READY event
  CheckpointKey,   \* does the schema enforce the foreign key that ties a
                   \* checkpoint to (attempt, generation)?  CockroachDB does,
                   \* the SQLite files of the test suite do not
  MaxDepth,        \* bound on replacement_depth (3 in the code)
  MaxGeneration,   \* bound: claims of one attempt
  MaxTime,         \* bound: the database clock
  LeaseTerm, ConsentTerm, EngagementTerm  \* 300 s, 1 day and 7 days, in ticks

ASSUME SentinelAssumption ==
  /\ NoBundle \notin Bundles
  /\ NoOwner \notin Owners
  /\ NoProduct \notin Products

ASSUME SizeAssumption ==
  /\ OrgOf \in [Missions -> Orgs]
  /\ CandidateSets \subseteq (SUBSET Products) \ {{}}
  /\ CheckpointKey \in BOOLEAN
  /\ MaxDepth \in Nat
  /\ MaxGeneration \in Nat
  /\ MaxTime \in Nat
  /\ LeaseTerm \in Nat \ {0}
  /\ ConsentTerm \in Nat \ {0}
  /\ EngagementTerm \in Nat \ {0}

VARIABLES
  bundleState,  \* ProductBundle.state, per product and bundle
  active,       \* ActiveProductBundle.bundle_id, per product
  pointerGen,   \* ActiveProductBundle.generation, per product
  mission,      \* QualificationMission.state
  readyEvents,  \* keys of the QUALIFICATION_MISSION_READY outbox events
  attState,     \* QualificationAttempt.state
  lease,        \* its generation, lease_owner and lease_expires_at
  pins,         \* QualificationMissionBundle rows of the attempt
  deps,         \* AttemptDependency rows of kind PRODUCT_BUNDLE
  ckpt,         \* generation of the SNAPSHOT_COMPLETE checkpoint, 0 if none
  issued,       \* every AttemptLease that claim_attempt returned
  approval,     \* QualificationDecision.approval_state of the attempt
  current,      \* QualificationDecision.current
  recommended,  \* QualificationDecision.recommended_product_id
  eng,          \* MarketplaceEngagement.state of the attempt's decision
  engExpires,   \* MarketplaceEngagement.expires_at
  responses,    \* attempts whose engagement holds a SellerResponse
  consents,     \* MarketplaceConsent rows
  intros,       \* QualifiedIntroduction rows
  now           \* the database clock, func.now()

catalogVars  == <<bundleState, active, pointerGen>>
missionVars  == <<mission, readyEvents>>
attemptVars  == <<attState, lease, pins, deps, ckpt, issued>>
decisionVars == <<approval, current, recommended>>
marketVars   == <<eng, engExpires, responses, consents, intros>>
vars == <<catalogVars, missionVars, attemptVars, decisionVars, marketVars, now>>

(***************************************************************************)
(* A mission's attempts form one chain: the root has an id derived from    *)
(* the mission, and uq_qualification_direct_successor allows one direct    *)
(* successor.  An attempt is therefore named by its mission and its        *)
(* replacement_depth.                                                      *)
(***************************************************************************)
Depths   == 0 .. MaxDepth
Attempts == Missions \X Depths
Succ(a)  == <<a[1], a[2] + 1>>

Bundle0 == Bundles \cup {NoBundle}
Pins    == [Products -> Bundle0]
NoPins  == [p \in Products |-> NoBundle]

MissionState == {"NONE", "READY", "RUNNING", "AWAITING_APPROVAL", "COMPLETED"}
AttemptState == {"NONE", "QUEUED", "RUNNING", "SNAPSHOT_COMPLETE", "STALE", "COMPLETED"}
Approval     == {"NONE", "PENDING", "APPROVED", "REJECTED", "INVALIDATED"}
Engagement   == {"NONE", "OPEN", "RESPONDED", "CONSENT_PENDING", "INTRODUCED", "INVALIDATED"}
Party        == {"BUYER", "SELLER"}

LeaseRow   == [generation : Nat, owner : Owners \cup {NoOwner}, expires : Nat]
Token      == [attempt : Attempts, generation : Nat, owner : Owners]
ConsentRow == [attempt : Attempts, party : Party, actor : Actors, fields : Fields, expires : Nat]
IntroRow   == [attempt : Attempts, fields : Fields]
ReadyEvent == Missions \X (Products \cup {NoProduct}) \X Nat

\* The database holds values of these types only.
TypeOK ==
  /\ bundleState \in [Products -> [Bundles -> {"READY", "ACTIVE", "SUPERSEDED"}]]
  /\ active \in [Products -> Bundle0]
  /\ pointerGen \in [Products -> Nat]
  /\ mission \in [Missions -> MissionState]
  /\ readyEvents \subseteq ReadyEvent
  /\ attState \in [Attempts -> AttemptState]
  /\ lease \in [Attempts -> LeaseRow]
  /\ pins \in [Attempts -> Pins]
  /\ deps \in [Attempts -> Pins]
  /\ ckpt \in [Attempts -> Nat]
  /\ issued \subseteq Token
  /\ approval \in [Attempts -> Approval]
  /\ current \in [Attempts -> BOOLEAN]
  /\ recommended \in [Attempts -> Products \cup {NoProduct}]
  /\ eng \in [Attempts -> Engagement]
  /\ engExpires \in [Attempts -> Nat]
  /\ responses \subseteq Attempts
  /\ consents \subseteq ConsentRow
  /\ intros \subseteq IntroRow
  /\ now \in Nat

Init ==
  /\ bundleState = [p \in Products |-> [b \in Bundles |-> "READY"]]
  /\ active = [p \in Products |-> NoBundle]
  /\ pointerGen = [p \in Products |-> 0]
  /\ mission = [m \in Missions |-> "NONE"]
  /\ readyEvents = {}
  /\ attState = [a \in Attempts |-> "NONE"]
  /\ lease = [a \in Attempts |-> [generation |-> 0, owner |-> NoOwner, expires |-> 0]]
  /\ pins = [a \in Attempts |-> NoPins]
  /\ deps = [a \in Attempts |-> NoPins]
  /\ ckpt = [a \in Attempts |-> 0]
  /\ issued = {}
  /\ approval = [a \in Attempts |-> "NONE"]
  /\ current = [a \in Attempts |-> FALSE]
  /\ recommended = [a \in Attempts |-> NoProduct]
  /\ eng = [a \in Attempts |-> "NONE"]
  /\ engExpires = [a \in Attempts |-> 0]
  /\ responses = {}
  /\ consents = {}
  /\ intros = {}
  /\ now = 0

(***************************************************************************)
(* The catalog.                                                            *)
(***************************************************************************)
\* Mutant of Activate: a bundle that was replaced may be activated again.
ActivateAnyBundle(p, b) ==
  /\ active[p] # b
  /\ bundleState' = [bundleState EXCEPT ![p] =
       [c \in Bundles |-> CASE c = b -> "ACTIVE"
                            [] c # b /\ c = active[p] -> "SUPERSEDED"
                            [] OTHER -> bundleState[p][c]]]
  /\ active' = [active EXCEPT ![p] = b]
  /\ pointerGen' = [pointerGen EXCEPT ![p] = @ + 1]
  /\ UNCHANGED <<missionVars, attemptVars, decisionVars, marketVars, now>>

\* activate_bundle.  An ACTIVE bundle passes the state check too, but the outbox
\* key bundle-activated:{id}:{digest} is then taken and the transaction aborts.
Activate(p, b) ==
  /\ bundleState[p][b] = "READY"
  /\ bundleState' = [bundleState EXCEPT ![p] =
       [c \in Bundles |-> CASE c = b -> "ACTIVE"
                            [] c # b /\ c = active[p] -> "SUPERSEDED"
                            [] OTHER -> bundleState[p][c]]]
  /\ active' = [active EXCEPT ![p] = b]
  /\ pointerGen' = [pointerGen EXCEPT ![p] = @ + 1]
  /\ UNCHANGED <<missionVars, attemptVars, decisionVars, marketVars, now>>

\* _changed_product_bundles: the pinned products whose active pointer moved on.
Changed(a) == {p \in Products : deps[a][p] # NoBundle /\ deps[a][p] # active[p]}

(***************************************************************************)
(* Missions and attempts.                                                  *)
(***************************************************************************)
\* create_mission: a READY mission and the event that wakes a worker.
CreateMission(m) ==
  /\ mission[m] = "NONE"
  /\ mission' = [mission EXCEPT ![m] = "READY"]
  /\ readyEvents' = readyEvents \cup {<<m, NoProduct, 0>>}
  /\ UNCHANGED <<catalogVars, attemptVars, decisionVars, marketVars, now>>

\* The attempt _prepare_attempt works on: the QUEUED one of least depth, or
\* the root of a mission that has no attempt yet.
Claimable(a) ==
  LET mine == {b \in Attempts : b[1] = a[1]}
  IN  \/ /\ attState[a] = "QUEUED"
         /\ \A b \in mine : attState[b] = "QUEUED" => a[2] <= b[2]
      \/ a[2] = 0 /\ \A b \in mine : attState[b] = "NONE"

\* A candidate list as retrieval returns it: one bundle for each product of a
\* candidate set, each bundle the active one when it was read (now, or earlier).
Selection(sel) ==
  /\ {p \in Products : sel[p] # NoBundle} \in CandidateSets
  /\ \A p \in Products : sel[p] # NoBundle => bundleState[p][sel[p]] # "READY"

\* _prepare_attempt.  An attempt that has bundles keeps them: the new list is
\* dropped.  The mission's state is overwritten without being looked at.
Prepare(a, sel) ==
  /\ mission[a[1]] # "NONE"
  /\ Claimable(a)
  /\ Selection(sel)
  /\ attState' = [attState EXCEPT ![a] = "QUEUED"]
  /\ pins' = [pins EXCEPT ![a] = IF @ = NoPins THEN sel ELSE @]
  /\ mission' = [mission EXCEPT ![a[1]] = "RUNNING"]
  /\ UNCHANGED <<catalogVars, readyEvents, lease, deps, ckpt, issued, decisionVars, marketVars, now>>

\* The WHERE clause of claim_attempt.
MayClaim(a, w) ==
  /\ attState[a] \in {"QUEUED", "RUNNING", "SNAPSHOT_COMPLETE"}
  /\ \/ lease[a].owner = NoOwner
     \/ lease[a].expires <= now
     \/ lease[a].owner = w

\* What lets claim_attempt and the snapshot_attempt that follows it commit: the
\* WHERE clause, bundles pinned, dependencies that match them if there are any,
\* and no checkpoint row that refers to the generation the claim overwrites.
CanClaim(a, w) ==
  /\ MayClaim(a, w)
  /\ pins[a] # NoPins
  /\ deps[a] \in {NoPins, pins[a]}
  /\ CheckpointKey => ckpt[a] = 0
  /\ lease[a].generation < MaxGeneration

\* claim_attempt and snapshot_attempt, one transaction of _claim_and_snapshot.
\* The first snapshot copies the pinned bundles into the dependencies and takes
\* the attempt to SNAPSHOT_COMPLETE.  A later claim finds the dependencies,
\* compares the digests and returns, and the attempt stays RUNNING.
ClaimAndSnapshot(a, w) ==
  LET g == lease[a].generation + 1
  IN  /\ CanClaim(a, w)
      /\ lease' = [lease EXCEPT ![a] = [generation |-> g, owner |-> w, expires |-> now + LeaseTerm]]
      /\ issued' = issued \cup {[attempt |-> a, generation |-> g, owner |-> w]}
      /\ \/ /\ deps[a] = NoPins
            /\ deps' = [deps EXCEPT ![a] = pins[a]]
            /\ attState' = [attState EXCEPT ![a] = "SNAPSHOT_COMPLETE"]
            /\ ckpt' = [ckpt EXCEPT ![a] = g]
         \/ /\ deps[a] # NoPins
            /\ attState' = [attState EXCEPT ![a] = "RUNNING"]
            /\ UNCHANGED <<deps, ckpt>>
      /\ UNCHANGED <<catalogVars, missionVars, pins, decisionVars, marketVars, now>>

\* _fenced_attempt: the token is the one claim the attempt knows of, unexpired.
Fenced(l, states) ==
  /\ attState[l.attempt] \in states
  /\ lease[l.attempt].generation = l.generation
  /\ lease[l.attempt].owner = l.owner
  /\ lease[l.attempt].expires > now

\* _replacement_for on each attempt of S: the direct successor, unless there is one.
WithReplacements(S) ==
  [b \in Attempts |-> IF attState[b] = "NONE" /\ \E a \in S : b = Succ(a)
                      THEN "QUEUED" ELSE attState[b]]

\* finalize_attempt on a snapshot the catalog has moved past.  At the end of the
\* chain _replacement_for raises, and the attempt is not even marked STALE.
FinalizeStale(l) ==
  LET a == l.attempt
  IN  /\ Fenced(l, {"SNAPSHOT_COMPLETE"})
      /\ Changed(a) # {}
      /\ a[2] < MaxDepth
      /\ attState' = [WithReplacements({a}) EXCEPT ![a] = "STALE"]
      /\ UNCHANGED <<catalogVars, missionVars, lease, pins, deps, ckpt, issued, decisionVars, marketVars, now>>

\* Mutant of FinalizeDecision: the pointers are not read again.
FinalizeUnchecked(l, p) ==
  LET a == l.attempt
  IN  /\ Fenced(l, {"SNAPSHOT_COMPLETE"})
      /\ deps[a][p] # NoBundle
      /\ attState' = [attState EXCEPT ![a] = "COMPLETED"]
      /\ approval' = [approval EXCEPT ![a] = "PENDING"]
      /\ current' = [current EXCEPT ![a] = TRUE]
      /\ recommended' = [recommended EXCEPT ![a] = p]
      /\ mission' = [mission EXCEPT ![a[1]] = "AWAITING_APPROVAL"]
      /\ UNCHANGED <<catalogVars, readyEvents, lease, pins, deps, ckpt, issued, marketVars, now>>

\* finalize_attempt on a snapshot that still holds, and the state _finalize gives
\* the mission.  The unique keys (attempt), (mission, input digest) and (mission
\* where current) are not guards here: the invariants show that they never fire.
FinalizeDecision(l, p) ==
  LET a == l.attempt
  IN  /\ Fenced(l, {"SNAPSHOT_COMPLETE"})
      /\ Changed(a) = {}
      /\ deps[a][p] # NoBundle
      /\ attState' = [attState EXCEPT ![a] = "COMPLETED"]
      /\ approval' = [approval EXCEPT ![a] = "PENDING"]
      /\ current' = [current EXCEPT ![a] = TRUE]
      /\ recommended' = [recommended EXCEPT ![a] = p]
      /\ mission' = [mission EXCEPT ![a[1]] = "AWAITING_APPROVAL"]
      /\ UNCHANGED <<catalogVars, readyEvents, lease, pins, deps, ckpt, issued, marketVars, now>>

(***************************************************************************)
(* Approval, engagement, consent, introduction.                            *)
(***************************************************************************)
\* decide_approval with action APPROVE: re-reads the pointers, opens an engagement.
Approve(a) ==
  /\ current[a] /\ approval[a] = "PENDING"
  /\ Changed(a) = {}
  /\ approval' = [approval EXCEPT ![a] = "APPROVED"]
  /\ eng' = [eng EXCEPT ![a] = "OPEN"]
  /\ engExpires' = [engExpires EXCEPT ![a] = now + EngagementTerm]
  /\ UNCHANGED <<catalogVars, missionVars, attemptVars, current, recommended, responses, consents, intros, now>>

\* Mutants of Reject: the mission is not told; it is told in the decision's words.
RejectKeepsMission(a) ==
  /\ current[a] /\ approval[a] = "PENDING"
  /\ approval' = [approval EXCEPT ![a] = "REJECTED"]
  /\ UNCHANGED <<catalogVars, missionVars, attemptVars, current, recommended, marketVars, now>>

RejectMission(a) ==
  /\ current[a] /\ approval[a] = "PENDING"
  /\ approval' = [approval EXCEPT ![a] = "REJECTED"]
  /\ mission' = [mission EXCEPT ![a[1]] = "REJECTED"]
  /\ UNCHANGED <<catalogVars, readyEvents, attemptVars, current, recommended, marketVars, now>>

\* decide_approval with action REJECT: does not look at the pointers, and the
\* rejected decision stays current.
Reject(a) ==
  /\ current[a] /\ approval[a] = "PENDING"
  /\ approval' = [approval EXCEPT ![a] = "REJECTED"]
  /\ mission' = [mission EXCEPT ![a[1]] = "COMPLETED"]
  /\ UNCHANGED <<catalogVars, readyEvents, attemptVars, current, recommended, marketVars, now>>

\* respond: uq_marketplace_response allows one response per engagement.
Respond(a) ==
  /\ eng[a] \in {"OPEN", "RESPONDED"}
  /\ a \notin responses
  /\ responses' = responses \cup {a}
  /\ eng' = [eng EXCEPT ![a] = "RESPONDED"]
  /\ UNCHANGED <<catalogVars, missionVars, attemptVars, decisionVars, engExpires, consents, intros, now>>

\* Mutant of Consent: a party may consent any number of times.
ConsentRepeatedly(a, party, actor, f) ==
  LET day == now + ConsentTerm
  IN  /\ eng[a] # "NONE"
      /\ engExpires[a] > now
      /\ consents' = consents \cup {[attempt |-> a, party |-> party, actor |-> actor, fields |-> f,
                       expires |-> IF engExpires[a] <= day THEN engExpires[a] ELSE day]}
      /\ eng' = [eng EXCEPT ![a] = "CONSENT_PENDING"]
      /\ UNCHANGED <<catalogVars, missionVars, attemptVars, decisionVars, engExpires, responses, intros, now>>

\* consent: one per party (uq_marketplace_consent_digest).  The state of the
\* engagement is overwritten without being looked at.
Consent(a, party, actor, f) ==
  LET day == now + ConsentTerm
  IN  /\ eng[a] # "NONE"
      /\ engExpires[a] > now
      /\ \A c \in consents : c.attempt = a => c.party # party
      /\ consents' = consents \cup {[attempt |-> a, party |-> party, actor |-> actor, fields |-> f,
                       expires |-> IF engExpires[a] <= day THEN engExpires[a] ELSE day]}
      /\ eng' = [eng EXCEPT ![a] = "CONSENT_PENDING"]
      /\ UNCHANGED <<catalogVars, missionVars, attemptVars, decisionVars, engExpires, responses, intros, now>>

\* introduce, when the engagement has no introduction yet.
Introduce(a, f) ==
  /\ eng[a] # "NONE"
  /\ \A i \in intros : i.attempt # a
  /\ current[a] /\ approval[a] = "APPROVED"
  /\ engExpires[a] > now
  /\ \E b, s \in consents :
       /\ b.attempt = a /\ b.party = "BUYER"  /\ b.expires > now /\ b.fields = f
       /\ s.attempt = a /\ s.party = "SELLER" /\ s.expires > now /\ s.fields = f
       /\ b.actor # s.actor
  /\ intros' = intros \cup {[attempt |-> a, fields |-> f]}
  /\ eng' = [eng EXCEPT ![a] = "INTRODUCED"]
  /\ mission' = [mission EXCEPT ![a[1]] = "COMPLETED"]
  /\ UNCHANGED <<catalogVars, readyEvents, attemptVars, decisionVars, engExpires, responses, consents, now>>

\* introduce, when the introduction exists and binds the same fields: it is
\* returned, and the service completes the mission again.
IntroduceAgain(a, f) ==
  /\ [attempt |-> a, fields |-> f] \in intros
  /\ mission' = [mission EXCEPT ![a[1]] = "COMPLETED"]
  /\ UNCHANGED <<catalogVars, readyEvents, attemptVars, decisionVars, marketVars, now>>

(***************************************************************************)
(* Invalidation.                                                           *)
(***************************************************************************)
\* The rows invalidate_decisions_for_active_bundle retires for one buyer.
Outdated(o, p) == {a \in Attempts : OrgOf[a[1]] = o /\ current[a] /\ p \in Changed(a)}

\* Mutant of Invalidate: the retired decision stays current.
InvalidateKeepsCurrent(o, p) ==
  LET hit == Outdated(o, p)
  IN  /\ hit # {}
      /\ \A a \in hit : a[2] < MaxDepth
      /\ approval' = [a \in Attempts |-> IF a \in hit THEN "INVALIDATED" ELSE approval[a]]
      /\ attState' = WithReplacements(hit)
      /\ mission' = [m \in Missions |-> IF \E a \in hit : a[1] = m THEN "READY" ELSE mission[m]]
      /\ readyEvents' = readyEvents \cup {<<a[1], p, pointerGen[p]>> : a \in hit}
      /\ UNCHANGED <<catalogVars, lease, pins, deps, ckpt, issued, current, recommended, marketVars, now>>

\* invalidate_decisions_for_active_bundle, which the change feed consumer calls
\* once per buyer organization.  One attempt at the end of its chain raises and
\* takes the whole transaction with it.  The branches for a missing pointer and
\* for a FAILED or CANCELLED mission are not here: no code deletes a pointer or
\* sets those states.
Invalidate(o, p) ==
  LET hit == Outdated(o, p)
  IN  /\ hit # {}
      /\ \A a \in hit : a[2] < MaxDepth
      /\ current' = [a \in Attempts |-> current[a] /\ a \notin hit]
      /\ approval' = [a \in Attempts |-> IF a \in hit THEN "INVALIDATED" ELSE approval[a]]
      /\ eng' = [a \in Attempts |-> IF a \in hit /\ eng[a] \notin {"NONE", "INTRODUCED"}
                                    THEN "INVALIDATED" ELSE eng[a]]
      /\ attState' = WithReplacements(hit)
      /\ mission' = [m \in Missions |-> IF \E a \in hit : a[1] = m THEN "READY" ELSE mission[m]]
      /\ readyEvents' = readyEvents \cup {<<a[1], p, pointerGen[p]>> : a \in hit}
      /\ UNCHANGED <<catalogVars, lease, pins, deps, ckpt, issued, recommended,
                     engExpires, responses, consents, intros, now>>

\* The database clock.
Tick ==
  /\ now < MaxTime
  /\ now' = now + 1
  /\ UNCHANGED <<catalogVars, missionVars, attemptVars, decisionVars, marketVars>>

\* What buyers and sellers do through the API.
MarketNext ==
  \/ \E a \in Attempts : Approve(a)
  \/ \E a \in Attempts : Reject(a)
  \/ \E a \in Attempts : Respond(a)
  \/ \E a \in Attempts, party \in Party, actor \in Actors, f \in Fields : Consent(a, party, actor, f)
  \/ \E a \in Attempts, f \in Fields : Introduce(a, f)
  \/ \E a \in Attempts, f \in Fields : IntroduceAgain(a, f)

Next ==
  \/ \E p \in Products, b \in Bundles : Activate(p, b)
  \/ \E m \in Missions : CreateMission(m)
  \/ \E a \in Attempts, sel \in Pins : Prepare(a, sel)
  \/ \E a \in Attempts, w \in Owners : ClaimAndSnapshot(a, w)
  \/ \E l \in issued : FinalizeStale(l)
  \/ \E l \in issued, p \in Products : FinalizeDecision(l, p)
  \/ MarketNext
  \/ \E o \in Orgs, p \in Products : Invalidate(o, p)
  \/ Tick

Spec == Init /\ [][Next]_vars

(***************************************************************************)
(* Properties.                                                             *)
(***************************************************************************)
\* The attempts that ended in a decision.
Decided == {a \in Attempts : attState[a] = "COMPLETED"}

\* A mission never has two current decisions, whatever order claims, stale
\* finalizations and invalidations come in: uq_qualification_current_decision
\* never aborts a finalize_attempt.
OneCurrentDecision ==
  \A a, b \in Attempts : current[a] /\ current[b] /\ a[1] = b[1] => a = b

\* Two decisions of a mission never rest on the same bundles, so that
\* uq_qualification_decision_input never aborts the finalize_attempt of a
\* replacement.
DistinctInputs ==
  \A a, b \in Decided : a[1] = b[1] /\ a # b => deps[a] # deps[b]

\* The event that announces a replacement has a key no earlier invalidation of
\* the mission took: the unique event key never aborts an invalidation.
ReplacementKeyFresh ==
  \A a \in Attempts, p \in Products :
    current[a] /\ p \in Changed(a) => <<a[1], p, pointerGen[p]>> \notin readyEvents

\* A snapshot the catalog has moved past is never fresh again (activate_bundle
\* admits no way back to an old bundle): the answer finalize_attempt,
\* decide_approval and the invalidation get by comparing bundle ids is final.
StaleStaysStale ==
  [][\A a \in Attempts : Changed(a) \subseteq Changed(a)']_vars

\* Whatever consents, invalidations and expiries did since, an introduction
\* stands on an engagement that says INTRODUCED, on a decision somebody
\* approved, and on the consents of two humans to exactly the shared fields.
IntroductionAuthorised ==
  \A i \in intros :
    /\ eng[i.attempt] = "INTRODUCED"
    /\ approval[i.attempt] \in {"APPROVED", "INVALIDATED"}
    /\ \A party \in Party : \E c \in consents :
         c.attempt = i.attempt /\ c.party = party /\ c.fields = i.fields
    /\ \A c, d \in consents :
         c.attempt = i.attempt /\ d.attempt = i.attempt /\ c # d => c.actor # d.actor

\* A mission that waits for a human has a decision to show, and one that is
\* READY has work a worker can claim: no handler leaves a mission in a state
\* that promises something its attempts do not hold.
MissionStateHonest ==
  \A m \in Missions :
    LET mine == {a \in Attempts : a[1] = m}
    IN  /\ mission[m] = "AWAITING_APPROVAL" => \E a \in mine : current[a] /\ approval[a] \in {"PENDING", "APPROVED"}
        /\ mission[m] = "READY" => \/ \A a \in mine : attState[a] = "NONE"
                                   \/ \E a \in mine : attState[a] = "QUEUED"

\* architecture.md: an activation "prevents the outdated product from creating a
\* match or introduction".  introduce checks that the decision is current, which
\* it stays until the change feed consumer has run.
NoStaleIntroduction ==
  [][\A i \in intros' \ intros : recommended[i.attempt] \notin Changed(i.attempt)]_vars
=============================================================================
