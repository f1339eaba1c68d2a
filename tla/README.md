# TLA+ development for SIRA / SEIL

SIRA (buyer side) and SEIL (seller side) qualify software products for a buyer.
Two flows share the database. In the *qualified marketplace* a buyer opens a
*mission*; a worker snapshots the sellers' active product bundles, lets a model evaluate
them outside any transaction, and finalizes a decision through a generation fence. In the
*decision graph* flow a buyer's brief is evaluated deterministically into a ranked
decision, a person selects a plan, others approve it, and a payment handoff is prepared.
Around them: sellers publish reviewed evidence packs, buyer and seller negotiate in a
bilateral exchange, and a chat agent works in recorded turns.

The database is what makes this correct, and the interleavings of API requests, workers,
queues, retries and crashes are what makes it hard. This directory models that part,
checks it with TLC and proves with TLAPS every safety property that the passing runs check:
of the protocol modules, of the decision engine and of the replays of what it decided.

## 1. Inventory

| Part | Source | State | Operations | What is hard |
|---|---|---|---|---|
| Qualification kernel | `python/persistence/qualification_repository.py`, `qualification_models.py` | bundles and active pointers, attempts with lease and generation, dependencies, checkpoints, decisions, introductions | `activate_bundle`, `claim_attempt`, `snapshot_attempt`, `finalize_attempt`, `invalidate_decisions_for_active_bundle`, `introduce` | data read before the model call and used after it; fences; unique keys that must never abort; a bounded replacement chain |
| Qualification API | `services/api/sira_api/qualification_service.py` | missions, engagements, responses, consents; company context; settings | `create_mission`, `decide_approval`, `respond`, `consent`, `introduce`, context and settings edits | handlers that overwrite a state without looking at it; expiry |
| Worker | `services/worker/sira_worker/qualification.py` | candidate list and lease, in memory | load, retrieve, prepare, claim and snapshot, evaluate, finalize, up to four rounds | each step is its own transaction; the process may raise or die between any two |
| Queue consumer, run loops | `queue_consumer.py`, `runtime.py` | consumer receipts | receive, check receipt, check completed, run, record, delete | at-least-once delivery; a visibility timeout during a run; every exception is swallowed |
| Outbox dispatcher | `outbox_dispatcher.py` | `published_at` | load, send, mark | a crash between send and mark |
| Queues | `infra/aws/lib/sira-aws-stack.ts`, `python/integrations/aws_services.py` | SQS FIFO groups, receive counts, dead letters | visibility timeout, redrive | a failed message blocks its organization's group |
| Change feed | `services/changefeed/.../handler.py`, `changefeed_consumer.py` | hint queue | emit a hint; per organization re-read and invalidate | late, repeated or partly applied hints |
| Purchase workflow | `service.py`, `surface_v2.py`, `python/persistence/repositories.py`, `commercial_terms.py`, `domain/state_machines.py` | briefs, proposals, decisions, intents, approvals and their events, handoffs, outcomes, outbox | see `PurchaseWorkflow` | one status in two tables; racing proposals; withdrawal while a handoff is ready; several expiries |
| Seller publication | `seller_service.py`, `evidence_repository.py`, `repositories.py` (idempotency) | product claims, draft, revisions, evidence, submissions, packs, suspensions, objects, idempotency keys | see `SellerPublication` | an upload is two transactions with the object store between; two callers of one key |
| Bilateral exchange | `exchange_service.py`, `bilateral_repository.py`, `domain/bilateral_exchange.py`, `exchange_contracts.py` | case, command log, offers, approval, handoff, one projection per party | commands with an expected version, approve, hand off, open | two tenants, two transactions, no common one |
| Turns | `cognitive_engine.py`, `cognitive_repository.py`, `mission_repository.py`, `workspace_service.py`, `tool_broker.py` | mission, journal, runs, steps, tool invocations | prepare, capture, bind, decide, authorize, execute, finish, journal, cancel | each is its own transaction; two handlers of one turn; cancel during a call |
| Experiments | `experiment_coordinator.py`, `mission_repository.py` | experiment status, budget | plan, claim, run, finish | a crash leaves RUNNING |
| Decision engine | `python/decision_engine/graph_v1*.py`, `bounds.py` | – | recall, assess, plan, score, rank, stability, ablation | boundaries of intervals and ages, ties, error paths |
| Decision persistence | `graph_persistence.py`, `graph_ledger.py`, migration `cdb0001` | evaluation tables, ledger | build rows and ledger, cross-check, insert | constraints met only at the write |
| Replay | `service.py` | simulations, their keys | replay, explain, simulate | data that changed since the decision |
| Database session | `python/persistence/database.py` | – | `transaction`, `run_retryable` | which callers retry 40001 and which do not |
| Earlier engine, stack patches | `ranking.py`, `counterfactual.py`, `python/stackfile` | – | pure functions | – |
| Agents' prompts and tickets, AWS adapters, identity, routes, CLI, web | the rest | – | I/O, parsing, presentation | not protocol state |

In the marketplace the parts interact through the database and two queues. An API handler
or an invalidation writes an outbox row; the dispatcher sends it to the qualification queue
(message group: the organization); a worker consumes it and writes a receipt. An
activation changes an active pointer; CockroachDB's change feed posts it to a bridge,
which puts a hint on the second queue; the consumer re-reads the pointer and
invalidates, one organization and one transaction at a time. In the decision graph flow
an API request evaluates and writes in one transaction what later requests approve, replay
and hand off. The exchange compiles a command in the buyer's tenant and then publishes the
seller's projection in the seller's. A chat turn is a chain of short transactions with
model and tool calls in between, repeated by a client that got no answer.

## 2. Modules

| Module | Role |
|---|---|
| `QualificationKernel` | The tables and transactions of the marketplace. Callers are open: any call, any time, with any lease token ever issued and any candidate list that was ever current. |
| `QualificationSystem` | Extends the kernel with the processes: dispatcher, queue, workers, change feed consumer. Every database step is an action of the kernel. |
| `PaymentAuthority` | Abstract specification: the authority to pay for a thing is granted at most once, spent at most once and only while it stands, and never comes back. |
| `PurchaseWorkflow` | Briefs, proposals, decisions, intents, staged approval, handoff, outcome. Implements `PaymentAuthority` for each decision version. |
| `BilateralExchange` | One case between two tenants. Implements `PaymentAuthority` for each offer. |
| `SellerPublication` | Draft, evidence, upload with its idempotency key, review, publication, suspension, reset. |
| `AgentTurns` | Mission, journal, runs, tools, experiments. |
| `PlanRanking` → `EvidenceRecall` → `FrozenInput` → `SolutionPlans` → `EvaluationGraph` → `DecisionGraph` → `EvaluationReplay` | The decision engine bottom up (each extends the one before): bounds and orderings; recall and evidence; the frozen input; gates, closure, cost and plans; the rows, the ledger and the tables' constraints; the stages as actions; replay, explanation and simulation of what was written. |
| `QualificationKernelProofs`, `QualificationSystemProofs`, `PurchaseWorkflowProofs`, `BilateralExchangeProofs`, `SellerPublicationProofs`, `AgentTurnsProofs`, `EvaluationReplayProofs` | The theorems about the module of that name, with their proofs (section 6); `EvaluationReplay` includes the engine, so the last one is about both. |
| `SolutionPlansProofs` | The theorems about the ranking, and the lemmas about the operators below the stages: sums, recall, the dependency search, assessments, scores, bounds, plans. |
| `MC…` | TLC instances: constants, symmetry, and for the engine the families of inputs. |

Everywhere a transaction is one step (CockroachDB runs them SERIALIZABLE). One that
raises is rolled back and is no step, except where it leaves something behind: a handler that
commits an expiry before it refuses, a claimed idempotency key, an engine that
fails after an earlier stage.

### The kernel

CockroachDB runs transactions SERIALIZABLE, so a transaction is one step. One that
raises is rolled back and is no step: early returns and aborting constraints are
guards. The unique keys (one decision per attempt, one per mission and input digest,
one current per mission, one event per key) are deliberately *not* guards: the
invariants show they never fire.

* An attempt is named by mission and `replacement_depth`: the root id is derived from
  the mission, and `uq_qualification_direct_successor` allows one direct successor.
* A bundle id stands for its digest; a snapshot is a function from products to bundles.
  The buyer context, brief and policy are fixed per mission and so drop out of the
  comparison of two snapshots of one mission.
* `ClaimAndSnapshot` is the one transaction of `_claim_and_snapshot`. A claim of a
  snapshotted attempt is possible only where the foreign key from a checkpoint to
  (attempt, generation) is not enforced (`CheckpointKey` FALSE: the SQLite files of the
  test suite). The attempt then stays RUNNING, because `snapshot_attempt` returns early.
* `FinalizeDecision` includes the mission state that `_finalize` sets in the same
  transaction; `Introduce` the one that the service sets.
* An idempotent replay returns the stored response and changes nothing, a stutter.
* `FAILED`, `CANCELLED`, `EXPIRED` and the other states that the schema admits and no
  code assigns do not occur.

### The system

`worker[w]` is a record whose fields grow with the program counter: what the process
remembers between two transactions. `Raise` is an exception that the code itself raises
(`MustRaise` lists the conditions), `Fault` one from outside (a model call, a 40001 in a
transaction that is not retried), `Die` the end of a process; its `lease_owner`
(`host:pid`) never comes back, and at least one worker is left. A message stays
invisible until `VisibilityTimeout`; with `SlowWorkers` that may happen while its worker
still runs. Hints are a set: delivered in any order, again after a failure, at most
`MaxReceive` times.

### The purchase workflow

`intents[v]`, `approvals[v]` and `handoffs[v]` are the rows of decision version `v`;
`briefs` and `decisions` grow. The clock of quotes may be fixed (the demo's) or the real
one. An expired approval is written by the handler that meets it (`expire_on_decision`,
`expire_before_handoff`), which then refuses: that is a step. `Grant(v)` maps the rows to
`PaymentAuthority`: opened is spent, approved is granted, anything that ended is withdrawn.

### Seller publication

One product has a draft; `revisions`, `submissions` and `packs` are sequences of what was
stored. An upload is `ReserveUpload`, the store, the scan and the parser outside any
transaction, and the finalization that claims the key again; a caller may stop anywhere
and another one start with the same key. `reset_demo` deletes what the code deletes.

### The exchange

`calls[c]` is a handler between its two transactions: it applied a command in the buyer's tenant
and owes the seller its projection. It may stop there; `lost` records the version. Commands
carry a key and an expected version; a repeated key is answered from the log. `Grant(n)`
maps offer `n`: superseded offers are withdrawn.

### Turns

`procs[h]` is a request handler between two transactions of a turn. A turn may be sent
again at any time, to another handler; a handler may stop anywhere; `cancel` may come at
any time. `Outputs` has two values, so a tool run twice can answer differently. An experiment
may end in any status `ExperimentResult` admits, CANCELLED included, although the runtime in
the repository returns only COMPLETED.

### The decision engine

An action per stage, from a frozen input to the written rows, with `failed` for an
exception of the engine or the ledger and `conflict` for a refused write. Weights and
scores are integers over `Unit`; ages are in time units against the term; a digest is the
value it digests, so two digests are equal exactly when the values are. `_score_bounds`,
the envelope keys and the gates follow the code; the properties restate what they mean on
the raw input (`Realisations`, `Settled`, `Required`, `NotDeclined`), not through the same
operators. `ArePlans`, part of the type invariant, is what the theorems about the ranking
assume of a set of plans. The nested function `visit` of the dependency closure is a search
with the stack of its calls (`Visit`, `Require`, `Leave`), and `Turns` bounds its steps; that
the bound is enough is proved (`ClosureOK`).

The code computes with `Fraction`s. `Precise` says of an input that no quotient the model
takes of it leaves a remainder; `PrecisionAssumption` asks it of the inputs, and TLC
evaluates it for each. `GatesAssumption` says that a rule blocks with a status that is not an
eligible one: the dataclass admits any `CandidateStatus`, the rules the service compiles
(`graph_v1_fixtures.py:701`, `:731`, `:763`) block with SIRA_INELIGIBLE or SEIL_PASS. Inputs
have no facts removed: only the engine's own reruns remove some.

`rows` is the set of evaluations recorded for a brief. A write is held against the
cross-checks of `add_evaluation_graph` and the constraints of the run and its nine tables
(`TablesAdmit`), the two keys of `evaluation_runs` against the earlier runs included. Left out
are foreign keys, the denominators (always `Unit` here), the counts of a discovery run (sizes of
collections), the case of a currency, and the keys on a row's own hash, which digests the
columns of another key of its table. `WriteMeetsSchema` says that a refused write is a
repetition: the database holds that very evaluation, row for row.

`discover` and `accept` compile the source kept with the brief (`DecisionSourceSnapshot`,
`Snapshot(in)` in the model), so a second discovery of one brief recomputes the same run and its
keys refuse it. Replay, explanation and simulation do not read that source: they compile the
fixture that the server ships. In the repository only the seeded demo decision was made of that
fixture; a decision made from a request carries `rb_<request>` provenance and its replay is
always refused. The model starts from a decision the shipped fixture yields, after which
`Release` reaches fixtures that yield it no longer.

## 3. Runs

| Run | Instance | Checks |
|---|---|---|
| `kernel_safety` | 2 products, 2 bundles each, 1 mission, 2 lease owners, 2 humans, 2 field sets, depth 1, 2 claims, clock 0..1 (692k states) | `TypeOK`, `OneCurrentDecision`, `DistinctInputs`, `ReplacementKeyFresh`, `IntroductionAuthorised`, `MissionStateHonest`, `StaleStaysStale` |
| `system_safety` | 2 workers, 2 bundles, redelivery during a run, 2 receives (1.4M states) | `SysTypeOK`, `NoLostWakeup`, `ReceiptsBacked` |
| `system_delivery` | 2 workers, duplicate sends, one fault, expiring lease (251k states) | `DecidedOrDeadLettered` |
| `system_retire` | 1 worker, 3 bundles, depth 1, one fault of the consumer (203k states) | `OutdatedIsRetired`, `RetiredIsReplaced` |
| `purchase_safety` | 2 weights, 2 plans, 2 actors, 2 roles, 3 briefs, 2 proposals, 2 decisions, clock 0..2 (1.3M states) | `TypeOK`, `StatusCopiesAgree`, `FourEyes`, `HandoffsAuthorised`, `NewestBriefInForce`, `WithdrawalIsComplete`, refinement `ImplementsAuthority` |
| `seller_safety` | 2 actors, 1 url, 1 object, a stale reference, 3 bodies, 1 key, 2 callers, 3 revisions (1M states) | `SellerTypeOK`, `PublishedIsReviewed`, `OneStory`, `EvidenceExists`, `EvidenceIsStable` |
| `exchange_safety` | 2 handlers, 6 keys, 2 unapplied commands, clock 0..2 (603k states) | `ExchangeTypeOK`, `PartiesSeeHistory`, `PaymentBindsAgreement`, `SellerCatchesUp`, refinement `ExchangeImplementsAuthority` |
| `turn_safety` | 2 handlers, 2 turns, 1 tool call with 2 outputs, 2 model calls, 1 cancel, 1 experiment (1.2M states) | `TurnTypeOK`, `TurnsAreRecorded`, `ExperimentsAccounted`, `OutcomeIsFinal` |
| `graph_safety` | some 7,800 inputs in seven families; the last replayed by several releases and discovered again (131k states) | `EngineTypeOK`, `EligibleIsProved`, `StableMeansFirst`, `CounterfactualIsMinimal`, `WriteMeetsSchema`, `ReplayIsExact` |
| `stale_introduction` | as `kernel_safety` | violated: `NoStaleIntroduction` |
| `interrupted_mission` | 2 workers, 5 receives, no fault but a death | violated: `InterruptedMissionResumes` |
| `exhausted_chain` | 3 bundles, depth 1 | violated: `EveryOutdatedIsRetired` |

**Why the bounds are enough.** *Kernel and system.* Depth 1 gives a root, a replacement and the end of the chain;
the second bundle makes a snapshot stale, the third makes the replacement stale. Two
claims and two owners give an old token and a new one. Two products let two
invalidations hit the same mission for different reasons; one product suffices for the
system runs, which are about delivery. One mission suffices because no transaction reads
two missions of an organization; the theorems have any number. The three terms are one
tick in the kernel run; the theorems hold for all terms. Two receives let a message fail, come back and be
dead-lettered. `BundleSeq` fixes the order in which bundles are activated: until then they
are alike, so the order loses nothing and works under liveness, where symmetry does not.
*Purchase.* Two decisions let one supersede the other, three briefs let two proposals race
on one; approval, quote and handoff end at different times. *Seller.* Three revisions give
one to publish, one to supersede it and one in between; a second caller of the one key is
the race. *Exchange.* Offer and counteroffer, with an approval that ends before and one that ends
with the offer. *Turns.* Two starts are a request and its retry. *Graph.* Each family
varies what one stage tells apart, at and on both sides of each boundary.
Symmetry is used for interchangeable callers, handlers, owners, bundles, humans and
fields in safety runs only. Deadlock is checked in `seller_safety`; elsewhere
the system stops when everything is settled or a bound is reached.

**Fairness.** `FairSpec` of the system assumes only weak fairness of `Progress`, the disjunction of all
loop steps: the loops in `runtime.py` have no exit, an exception is caught and the loop
continues, the platform restarts a process that ended, and SQS delivers what is visible.
The exchange assumes weak fairness of the second half of a handler (`ApplyEvidence`,
`PublishSeller`): a running coroutine goes on unless it is lost, which is a step of its
own. The turns assume it of `Works(h)` likewise. Nothing is assumed of
people, faults or time.

## 4. What the runs show

* Marketplace: the schema's unique keys never abort a legal transaction; stale stays
  stale; every mission is decided or one of its events is in the dead letter queue; an outdated decision is
  retired unless its chain is exhausted.
* Payment: two independently written flows, one with an intent per decision and one with an
  offer per round, implement one promise. In the purchase flow opening never looks at the
  approval's expiry, and `HandoffsAuthorised` holds because the handoff's own expiry is the
  minimum. A discovery does not supersede older authority; `WithdrawalIsComplete` says
  precisely that this is the only way authority survives a newer decision.
* Publication: the object store has no transaction, and still nothing attached, cited or
  recorded is missing, because the finalization re-checks the draft (`StillEditable`) and
  the row is written last.
* Exchange: the seller's projection can be lost with its handler, and only so.
* Turns: a late finish does not overwrite a completed or failed run, and a tool's recorded result stays.
* Engine: gates pass only on evidence that proves them; STABLE is exactly "first in every
  corner of the bounds"; the reported private facts are a smallest set.

### What the violations show

* `stale_introduction`: `introduce` trusts `decision.current`, which lags behind the
  pointer until the hint is processed; `finalize_attempt` and `decide_approval` re-read
  the pointers, `introduce` does not. `docs/hackathon-build/architecture.md:9` says the
  outdated product is prevented "from creating a match or introduction".
* `interrupted_mission`: a worker that dies between snapshot and finalize leaves its
  attempt `SNAPSHOT_COMPLETE`; `_prepare_attempt` takes QUEUED attempts only, so every
  redelivery raises and the mission stays RUNNING. `OPERATIONS.md:150` says the standby
  "claims a larger fencing token and resumes".
* `exhausted_chain`: at the end of the chain `_replacement_for` raises inside the
  invalidation and rolls it back, so the outdated decision stays current.
  `architecture.md:64` says the consumer "invalidates stale current decisions".

## 5. Statements the model refutes outside the runs

These are definitions of the modules, stated from a document, a docstring or a test, that
TLC refutes when they are added to the module's cfg. The runs check what does hold in their place.

| Definition | Says | What happens | Holds instead |
|---|---|---|---|
| `PurchaseWorkflow!AuthorityIsCurrent` | `repositories.py:752` "Invalidate executable state bound to older Decision versions atomically." | `discover` writes a newer decision without superseding | `WithdrawalIsComplete` |
| `PurchaseWorkflow!ApprovalTransitionsAllowed` | `tests/unit/test_approval_state_machine.py:9` `test_approval_rejection_is_terminal` | a rejected approval whose term passed becomes EXPIRED when somebody decides again | `ImplementsAuthority` |
| `SellerPublication!IndependentApproval` | `seller_service.py:1135` "Only an independently approved frozen revision can be published." | the reviewer is compared with the draft's editor and the submitter, not with the author of the revision | `PublishedIsReviewed` |
| `SellerPublication!BuyerSafeIsPublished` | `README.md:82` "only published buyer-safe projections cross into SIRA" | the demo reset deletes the packs and leaves their evidence visible | `EvidenceExists` |
| `BilateralExchange!SellerReadsCase` | `docs/architecture-decisions.md:77` "Each party reads its own projection" | a handler lost between the two transactions leaves the seller behind until the next command | `PartiesSeeHistory`, `SellerCatchesUp` |
| `AgentTurns!CancelIsDurable` | `tests/integration/test_run_engine.py:253` `test_engine_cancel_is_durable_and_idempotent` | a run cancelled before its first binding is set DECIDING by `bind_manifest` | `OutcomeIsFinal` |
| `AgentTurns!JournalIsCanonical` | `models.py:2233` "Canonical, resumable unit of agent work." | a crash between finish and journal; the retry is a duplicate and does not journal | `TurnsAreRecorded` |
| `DecisionGraph!DuplicatesNeverHelp` | `graph_v1_recall.py:127` "A duplicate can therefore never improve coverage or silently replace an inconvenient value." | a duplicate of a higher pack version brings its own offer and price | `EligibleIsProved` |

Seen as well, with no document to set against them:

* Marketplace: `introduce` on an existing introduction completes the mission again, after which a worker
  refuses a queued replacement as terminal; a consent on an INVALIDATED engagement makes it
  CONSENT_PENDING; a consent lasts one day and cannot be given again; a redelivery after a
  crash between finalize and receipt raises until it is dead-lettered.
* Purchase: a READY handoff past its expiry is returned for ever; the error
  `DECISION_CHANGE_BLOCKED_BY_EXECUTION` cannot occur.
* Seller: publish does not re-check staleness; a PUBLISHED draft is never editable again; a
  claim that is CLAIM_PENDING is never decided; a failed submit commits its key as STARTED.
* Exchange: a retried `create_handoff` is refused, because the creation time is in the
  hash; an AGREED case whose offer expired has no way on.
* Turns: a retry whose context changed leaves the run DECIDING; a cancel of a COMPLETED run
  appends a notice; a first message retried without its mission id opens a second mission.
* Engine: two editions of one product share a plan id and the ledger refuses the decision;
  an ablation that admits an offer in another currency aborts the decision; so does evidence
  dated after the evaluation. A decision that selected nothing cannot be replayed; a
  weight no plan is scored on is not in the ledger, so its decision cannot be replayed
  either; a simulation claims its key after it evaluated, so a retry after a release is refused.
  A brief discovered again under a new key is refused by the keys of `evaluation_runs` and
  answered 503 `DATABASE_UNAVAILABLE` with `"retryable": True` (`main.py:591`), although no retry
  can succeed.

## 6. Theorems

All theorems hold for all values of the constants under the named assumptions of the
module (`SentinelAssumption`, `SizeAssumption`; `SystemAssumption`; `PlanAssumption`,
`RoleAssumption`, `TermAssumption`; `ExchangeAssumption`; `SellerAssumption`;
`AgentAssumption`; `UnitAssumption`, `LimitAssumption`, `InputsAssumption`,
`GatesAssumption`, `PrecisionAssumption`, `ReleasesAssumption`, `SnapshotAssumption`,
`BodiesAssumption`). These say that sentinels are not members, that tables of constants
are functions of the right sets, that sizes are naturals, terms positive and the seeded
clock within its bound, and of the engine that its inputs, those of the releases and those kept
with a brief are what the constructors of `graph_v1_models.py` let through, with no fact removed; TLC evaluates them in every run. The bounds on counters
(`MaxDepth`, `MaxKeys`, …) are constants like the others, so the theorems hold for all of
them. Each `Inv` of a protocol module was checked by TLC as an invariant of a small instance
before it was proved; the engine's `IInv` names what each stage has computed, in terms TLC
cannot evaluate, and was proved directly. A proof has one lemma per group of conjuncts and in it one step per action; the
lemmas before them say what a transaction writes.

### The kernel

| Theorem | States |
|---|---|
| `TypeCorrect` | `Spec => []TypeOK` |
| `Invariance` | `Spec => []Inv`, the inductive invariant |
| `CurrentIsUnique` | `Spec => []OneCurrentDecision` |
| `InputsAreDistinct` | `Spec => []DistinctInputs` |
| `KeysAreFresh` | `Spec => []ReplacementKeyFresh` |
| `IntroductionsAreAuthorised` | `Spec => []IntroductionAuthorised` |
| `MissionsAreHonest` | `Spec => []MissionStateHonest` |
| `StaleForever` | `Spec => StaleStaysStale` |

None of the properties is inductive alone. `Inv` adds:

* `Chain`: once an attempt has a successor it is over and its decision retired. Two
  current decisions would be two ends of one chain, hence `OneCurrentDecision`. It is kept because a
  successor is created only by `FinalizeStale` and `Invalidate`, which end the
  attempt in the same step (`ReplacementsKeepChain`).
* `DecisionRows`: decisions belong to completed attempts, which never change again.
* `PinnedWasActive`: what is pinned was activated once; since only READY bundles can be
  activated, a pointer never returns to it, and `Changed` only grows (`OutdatedStep`).
* `RetiredIsOutdated`: a decision that is not current is outdated. A new decision is
  fresh, the older ones of its mission are retired by `Chain`: their inputs differ
  (`DistinctStep`).
* `EventsPast`: event keys name generations reached; with one current decision per
  mission, the key of the next invalidation is free (`KeyStep`).
* `OneConsentPerParty`: the consents an introduction stood on are all there will be.
* `Preparation`: an attempt of a READY mission that has bundles is over, so no claim
  can take the last QUEUED attempt of a READY mission away.

### The system

| Theorem | States |
|---|---|
| `SystemTakesKernelSteps` | `SysSpec => Spec`: the running system is an instance of the kernel's open callers, so the kernel's theorems hold of it |
| `SystemInvariance` | `SysSpec => []SysInv` |
| `SystemTypeCorrect` | `SysSpec => []SysTypeOK` |
| `WakeupsAreKept` | `SysSpec => []NoLostWakeup` |
| `ReceiptsAreBacked` | `SysSpec => []ReceiptsBacked` |

`SysInv` is the kernel's `Inv` with four groups. `SysTables` says what a worker remembers
at each program counter, in particular that its lease is one the kernel issued: that is
what makes its steps kernel steps. `Delivery` follows a message: the worker that holds the
head of a group works on that head, deletes it only with a receipt, and so everything sent
is acknowledged, queued or dead. `EventsCounted` is the count behind `ReceiptsBacked`: a
mission has at most one event for its creation and one per retired decision.
`WorkIsPending` is the inductive form of `NoLostWakeup`: whenever a mission has no current
decision, one of its events is neither acknowledged nor about to be. It must speak of all
missions, not only READY ones, because a worker makes a mission RUNNING and back; and of
events about to be acknowledged (`Pending`), because finalizing and recording are two
transactions. The argument is that a receipt is recorded only after a decision, and a
decision is retired only together with a new event.

### The purchase workflow

| Theorem | States |
|---|---|
| `Invariance` | `Spec => []Inv` |
| `TypeCorrect` | `Spec => []TypeOK` |
| `CopiesAgree` | `Spec => []StatusCopiesAgree` |
| `SeparationOfDuties` | `Spec => []FourEyes` |
| `HandoffAuthority` | `Spec => []HandoffsAuthorised` |
| `BriefInForce` | `Spec => []NewestBriefInForce` |
| `WithdrawalComplete` | `Spec => []WithdrawalIsComplete` |
| `PurchaseImplementsAuthority` | `Spec => ImplementsAuthority`: the refinement of `PaymentAuthority` |

`Inv` adds `StagesBacked` (the approved stages are a prefix of the policy's order, each
backed by an event of a holder of its role, no two by one person; `FourEyes` and the
completeness of an approval follow), `HandoffTerms` (a handoff that can be opened ends
within the approval's and the quote's term: opening itself looks at neither, so
`HandoffsAuthorised` needs it), `RequestFirst`, `IntentOfDecision` (no intent belongs to a
decision still to come, so a new decision starts without authority) and `SelectionHasPlan`.
The refinement maps every step to a grant, a spending, a withdrawal or a stutter.

### The exchange

| Theorem | States |
|---|---|
| `Invariance` | `Spec => []Inv` |
| `TypeCorrect` | `Spec => []ExchangeTypeOK` |
| `HistoryIsShown` | `Spec => []PartiesSeeHistory` |
| `PaymentIsAgreed` | `Spec => []PaymentBindsAgreement` |
| `ExchangeGrantsOnce` | `Spec => ExchangeImplementsAuthority`: the refinement |

`PartiesSeeHistory` needs to know what a handler between its two transactions will
publish: `Owed` says it is a projection the buyer already has, `LostVersions` that what was
lost was a version of the case. `PaymentBindsAgreement` needs `DealInv`: what each state
of the case says of offers, approval and handoff, and `Agreement`, that the acceptance in
the log came after the newest offer and from the other party.

### Seller publication

| Theorem | States |
|---|---|
| `Invariance` | `Spec => []Inv` |
| `TypeCorrect` | `Spec => []SellerTypeOK` |
| `PublicationIsReviewed` | `Spec => []PublishedIsReviewed` |
| `RowsTellOneStory` | `Spec => []OneStory` |
| `NamedEvidenceExists` | `Spec => []EvidenceExists` |
| `EvidenceStays` | `Spec => EvidenceIsStable` (an action property) |

`FrozenIsSubmitted` (a draft that left its editor is what was submitted last) and
`ApprovalIsDecided` make the published content the approved one; `EmptyTenant` carries
`OneStory` through the first request and the reset; `StoredIsThere` (what an upload in
flight says it stored is in the bucket) carries `EvidenceExists` from the first
transaction of an upload to its second.

### Turns

| Theorem | States |
|---|---|
| `Invariance` | `Spec => []Inv` |
| `TypeCorrect` | `Spec => []TurnTypeOK` |
| `TurnsRecorded` | `Spec => []TurnsAreRecorded` |
| `LabAccounted` | `Spec => []ExperimentsAccounted` |
| `OutcomeStays` | `Spec => OutcomeIsFinal` (an action property) |

`RunsAreBound` says which rows exist at each stage of a handler, and that only a bound run
can have ended. `WorkIsAsked` and `JournalIsOrdered` place a turn's one message before its
one answer; `AnswerIsDue` says who will still write the answer, or that this handler was
lost. `LabInv` counts the budget against the planned experiments.

### The ranking

These theorems of `SolutionPlansProofs` are about operators, for any set of plans with
`ArePlans` (finite, bounds in order, no two plans of one id and source). That the plans the
engine builds are such plans is part of `EngineTypeCorrect` below.

| Theorem | States |
|---|---|
| `RankingIsComplete` | each place of the ranking holds exactly one plan, and the places follow `RanksBefore` |
| `SelectionIsFirst` | if a plan can be ranked the selection exists and is before every other |
| `StableIsFirst` | the stability is STABLE exactly when `FirstHoweverItTurnsOut`, the condition of `StableMeansFirst` |
| `StableInBetween` | a STABLE selection wins for all values between the bounds, not only at the ends |

`LexLess` is shown to be a strict total order (`LexTotal` needs the first place where two
keys differ, `LeastNatural`), hence `RanksBefore` is one on plans; ranks count
predecessors, so they are an injection into 1..n and, by cardinality, onto. For stability,
a key grows with each of its numbers (`Between`), so every outcome lies between the two
envelopes (`Envelopes`), and keys of different ids are never equal (`KeysDiffer`): the one
comparison that `assess_rank_stability` makes decides them all (`EnvelopesDecide`).

### The decision engine and its replays

| Theorem (`EvaluationReplayProofs`) | States |
|---|---|
| `EngineSound` | `ReplaySpec => []IInv`, the inductive invariant |
| `EngineTypeCorrect` | `ReplaySpec => []EngineTypeOK` |
| `StableMeansFirstHolds` | `ReplaySpec => []StableMeansFirst` |
| `CounterfactualMinimal` | `ReplaySpec => []CounterfactualIsMinimal` |
| `ReplayExact` | `ReplaySpec => []ReplayIsExact` |
| `OnlyRepetitionsRefused` | `ReplaySpec => []WriteMeetsSchema` |
| `EligiblePlansProved` | `ReplaySpec => []EligibleIsProved` |

They hold for all sets of inputs, releases, request bodies and keys, for any number of
records, rules, criteria, private facts and requests, and every `Unit`. `IInv` has three parts.

* `EngineOK`. The stage says which functions were applied to the input (`StageOK`): the
  engine holds exactly their values, none of which raised. `SearchedOK` says the same of the
  search for a counterfactual: after cardinality n the winners are all sets of at most n
  private facts that change the selection, and there was none of fewer than n. When the
  search stops it has found the smallest sets or tried all within the limit (`FoundIsMinimal`);
  the first in the listing exists because `ListedBefore` is a strict total order on finite
  sets (`ListedTransitive`, `ListedTotal`).
* `ReplayOK`. What is stored is what the engine and the ledger say of `decided`, whatever
  was released since, and a request works on the input it rebuilt (`_demo_graph_input`) or,
  once that is verified, on the decided input under the asked-for weights.
* `ReplayIsExact` itself, which speaks of answers given in earlier states.

What follows from `IInv` in one state is then about operators, and rests on four lemmas:

* `PlansBuilt`: whatever the facts and evidence, when nothing raises every bound of every
  plan has its ends in order. Sums are partial sums along any order of a finite set
  (`PartialSumSteps`, proved by well-founded induction on subsets, because the library's induction
  theorems cannot be instantiated), which gives monotone and positive sums; a quotient keeps
  the order (`DivMonotone`).
* `ClosureOK`: the dependency search ends within `Turns` steps (each step places a record or
  strikes off a product, `WorkShrinks`), places the root last, no product twice, every other
  component is the only one of its product and, when no issue was found, after everything it
  requires (`SearchOK`).
* `DigestsProve`: two inputs whose digests agree are equal, field by field, as long as no fact
  was removed. A replay that compares equal was therefore of the decided input, and a release
  that serves another one is refused.
* `WriteAdmitted`: each table's rows pass its constraints. Keys are unique because plans are
  told apart by their ids once the ledger compiler accepted them, and ranks because the
  ranking is complete (`RankingIsComplete`). Of the run's own keys, `OnlyItselfClashes`: a
  recorded run with the same digest came of the same input (`DigestsProve`), hence is the same.

`EligiblePlansProved` goes from the status back to the raw records. An eligible status means no
gate gave a reason (`EligibleUnopposed`), since every reason outranks eligibility
(`ReasonsStop`, where `GatesAssumption` is needed). A buyer rule that gave none found its field
acceptable in each component (`BuyerRuleHolds`), what it saw there are the merged facts of the
records behind that component (`BundleStates`, `BundleRecords`), and acceptable merged facts
are settled ones: one value, vouched for by admitted evidence within its time limit, none of it
disputed or revoked (`AcceptedIsSettled`). That an age ratio of at most one means an age
within the limit is where `PrecisionAssumption` is needed (`AgeWithinLimit`).

### Only model-checked

* Liveness, out of this prover's reach: `DecidedOrDeadLettered`, `OutdatedIsRetired`,
  `RetiredIsReplaced`, `SellerCatchesUp`.
* The statements of section 5 and the three violated ones, which TLC refutes.

## 7. Not modelled

* Candidate engagement and its consents in `WorkflowService` (`candidate_action` with
  REQUEST_OFFER, `record_consent`), company context and workspace settings: single-transaction
  edits of rows no modelled handler reads.
* From a published pack to a READY bundle (`product_bundle` construction and embeddings): the
  kernel starts from READY bundles.
* Message and payload validation, digests of bodies, citations, wording.
* The retry loop of `run_retryable` (a retried transaction is one step) and cross-tenant
  row policies.
* Signed runtime tickets and their replay guard, prompts and model adapters.
* The earlier decision engine, stack patches, CLI, seeding, routes, identity, web.

## 8. Left to do

1. Engagement and consent of the purchase workflow, composed with it.
2. The construction of a READY bundle from a published pack, which would join
   `SellerPublication` to the kernel.
3. The hazards `PROJECT.json` lists without a property: they are seen in the model
   (sections 4 and 5), and what should hold in their place is for the code's owners to say.
