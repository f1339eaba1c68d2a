-------------------------- MODULE EvaluationReplay --------------------------
(***************************************************************************)
(* What happens to a decision after it was written: its replay             *)
(* (service.replay_evaluation), the explanation of its private facts       *)
(* (service.counterfactuals) and what-if simulations of it                 *)
(* (service.simulate_decision), and another discovery of the same brief    *)
(* (service.discover).  A discovery compiles the source that was kept with *)
(* the brief (DecisionSourceSnapshot).  The others do not read it: they    *)
(* compile the fixture the server ships, which a release may have changed, *)
(* take the preference weights from the stored ledger, run the whole       *)
(* evaluation again, and refuse when a digest of the run differs.  They    *)
(* refuse every decision that was not made of that fixture: the seeded     *)
(* demo decision was, one made of a request's own source was not.  The     *)
(* reruns are the steps of DecisionGraph; `task` says on whose behalf they *)
(* run.                                                                    *)
(*                                                                         *)
(* The versions compared besides the digests, and the ids of the request,  *)
(* brief and decision, are what the ledger itself says and never differ    *)
(* here.  One session at a time: nothing is shared between two of them but *)
(* the simulations, which are written in one transaction.                  *)
(***************************************************************************)
EXTENDS DecisionGraph

CONSTANTS Releases(_),      \* the fixtures a server may ship around a decision's lifetime
          Snapshot(_),      \* what the source kept with the decision's brief compiles to
          Bodies,           \* simulation requests: [mode, overrides]
          Keys,             \* idempotency keys
          MaxRequests(_)    \* a bound on the requests about one decision

\* A fixture is compiled with every fact of the buyer in it.
ASSUME ReleasesAssumption ==
    \A in \in Inputs : \A f \in Releases(in) :
        DecisionGraphInput(f.source) /\ Blocks(f.source) /\ Precise(f.source)
          /\ f.source.removed = {}

\* A decision of an accepted proposal was made under its weights, a discovery binds none.
ASSUME SnapshotAssumption ==
    \A in \in Inputs :
        /\ DecisionGraphInput(Snapshot(in)) /\ Blocks(Snapshot(in)) /\ Precise(Snapshot(in))
        /\ Snapshot(in).removed = {}

VARIABLES decided,      \* the input the decision was made from
          fixture,      \* [source, labels] of the running server
          task,         \* what the evaluation under way is for
          stored,       \* the evaluation run and the ledger
          reply,        \* the answer to the last request
          simulations, claims, served

outside == <<decided, fixture, task, stored, reply, simulations, claims, served>>
replayVars == <<vars, outside>>

NoReply == [verdict |-> "NONE"]

Weights(criteria) == [id \in {c.id : c \in criteria} |-> (CHOOSE c \in criteria : c.id = id).weight]

\* The criteria some plan of the ledger was scored on.
_ledger_preference_weights(ledger) == Weights(UNION {p.scores : p \in ledger.plans})

_bind_graph_input(source, weights) ==
    [source EXCEPT !.preferences =
        {[c EXCEPT !.weight = IF c.id \in DOMAIN weights THEN weights[c.id] ELSE @] : c \in @}]

ReplayInit ==
    /\ Init
    /\ decided = input
    /\ fixture \in Releases(input)
    /\ task = [kind |-> "decide"]
    /\ stored = [run |-> NoRerun, ledger |-> NoRerun]
    /\ reply = NoReply
    /\ simulations = {}
    /\ claims = {}
    /\ served = 0

-----------------------------------------------------------------------------
Stages ==
    /\ \/ RecallAndDeduplicate
       \/ AssessEvidence
       \/ BuildSolutionPlans
       \/ RankAndFrontiers
       \/ EvaluateGeneric
       \/ SearchCardinality
       \/ RecordCounterfactual
    /\ UNCHANGED outside

CompileLedger ==
    /\ task.kind \in {"decide", "discover"}
    /\ BuildDecisionLedger
    /\ UNCHANGED outside

\* The digests of the input go to the run, the ledger to the decision.
WriteDecision ==
    /\ task.kind = "decide"
    /\ PersistBaseGraph
    /\ stored' = IF stage' # "written" THEN stored
                 ELSE [run |-> [input |-> _input_payload(input),
                                payload |-> evaluation_canonical_payload(input, base)],
                       ledger |-> build_decision_ledger(input, base, <<counterfactual, generic>>,
                                                        fixture.labels)]
    /\ UNCHANGED <<decided, fixture, task, reply, simulations, claims, served>>

\* The decision was written and no request is under way.
Quiet == stage = "written" /\ task.kind # "discover" /\ served < MaxRequests(decided)

\* A new version of the server is deployed.
Release ==
    /\ Quiet
    /\ fixture' \in Releases(decided)
    /\ UNCHANGED <<vars, decided, task, stored, reply, simulations, claims, served>>

-----------------------------------------------------------------------------
Reset(in, to) ==
    /\ input' = in
    /\ stage' = to
    /\ base' = NoEvaluation
    /\ generic' = NoRerun
    /\ search' = NoSearch
    /\ counterfactual' = NoCounterfactual
    /\ UNCHANGED rows

\* A request is over; nothing of its evaluation is kept.
Answer(answer) ==
    /\ task' = [kind |-> "done"]
    /\ Reset(decided, "written")
    /\ reply' = answer
    /\ served' = served + 1
    /\ UNCHANGED <<decided, fixture, stored>>

\* The answer, and the server that gave it.
Said(verdict) == [verdict |-> verdict, by |-> fixture]

\* The server's fixture with the weights of the ledger.
_demo_graph_input ==
    _bind_graph_input(fixture.source, _ledger_preference_weights(stored.ledger))

Begin(request) ==
    /\ Quiet
    /\ task' = request
    /\ Reset(_demo_graph_input, "recall")
    /\ UNCHANGED <<decided, fixture, stored, reply, simulations, claims, served>>

BeginReplay == Begin([kind |-> "replay"])

BeginExplanation == Begin([kind |-> "explain"])

ValidWeights(body) == \A id \in DOMAIN body.overrides : body.overrides[id] \in 1..5

ASSUME BodiesAssumption ==
    \A in \in Inputs, body \in Bodies :
        MaxRequests(in) > 0 /\ ValidWeights(body) => Precise(_bind_graph_input(in, body.overrides))

BeginSimulation(body, key) ==
    /\ ValidWeights(body)
    /\ Begin([kind |-> "verify", body |-> body, key |-> key])

RefuseWeights(body) ==
    /\ Quiet
    /\ ~ValidWeights(body)
    /\ Answer(Said("SIMULATION_WEIGHT_INVALID"))
    /\ UNCHANGED <<simulations, claims>>

\* A rerun that raised is an internal error of its request.
FailRequest ==
    /\ stage = "failed" /\ task.kind # "decide"
    /\ Answer(Said("INTERNAL"))
    /\ UNCHANGED <<simulations, claims>>

\* Every digest of the run must be the one of the rebuilt input and its evaluation.
_verified_demo_replay_source ==
    /\ stored.run.input = _input_payload(input)
    /\ stored.run.payload = evaluation_canonical_payload(input, base)

RefuseReplay ==
    /\ stage = "ledger" /\ task.kind \in {"replay", "explain", "verify"}
    /\ ~_verified_demo_replay_source
    /\ Answer(Said("REPLAY_INPUT_UNAVAILABLE"))
    /\ UNCHANGED <<simulations, claims>>

Statuses(results) == {<<r.record, r.status>> : r \in results}

\* The ledger is built a second time, from the server's own labels, and compared.  A ledger
\* that selected nothing has no plan to take the patch from: the lookup raises.
Compared(old, new) ==
    IF old.selected = <<>> THEN Said("INTERNAL")
    ELSE [verdict |-> "REPLAYED", by |-> fixture,
          ordering |-> old.ranked = new.ranked,
          statuses |-> Statuses(old.results) = Statuses(new.results),
          counterfactual |-> old.counterfactual = new.counterfactual,
          byteStable |-> old = new]

CompareReplay ==
    /\ stage = "ledger" /\ task.kind = "replay"
    /\ _verified_demo_replay_source
    /\ Answer(Compared(stored.ledger,
                       build_decision_ledger(input, base, <<counterfactual, generic>>,
                                             fixture.labels)))
    /\ UNCHANGED <<simulations, claims>>

\* The product a plan of the base evaluation is about.
Chosen(id) == Last((CHOOSE p \in base.plans : p.id = id).components)

\* What the private facts changed: the products chosen with and without them come from the
\* rerun, the decisive facts from the stored ledger.
Explained ==
    IF <<>> \in {generic.rank.selected, base.rank.selected}
    THEN Said("DECISION_SELECTION_UNAVAILABLE")
    ELSE [verdict |-> "EXPLAINED", by |-> fixture,
          product |-> Chosen(base.rank.selected),
          decisive |-> stored.ledger.counterfactual[1].removed,
          changed |-> Chosen(generic.rank.selected) # Chosen(base.rank.selected)]

Explain ==
    /\ stage = "ledger" /\ task.kind = "explain"
    /\ _verified_demo_replay_source
    /\ Answer(Explained)
    /\ UNCHANGED <<simulations, claims>>

UnknownCriteria(overrides) == DOMAIN overrides \ {c.id : c \in input.preferences}

RefuseCriterion ==
    /\ stage = "ledger" /\ task.kind = "verify"
    /\ _verified_demo_replay_source
    /\ UnknownCriteria(task.body.overrides) # {}
    /\ Answer(Said("SIMULATION_CRITERION_UNKNOWN"))
    /\ UNCHANGED <<simulations, claims>>

\* The verified input is evaluated once more with the overriding weights.
Simulate ==
    /\ stage = "ledger" /\ task.kind = "verify"
    /\ _verified_demo_replay_source
    /\ UnknownCriteria(task.body.overrides) = {}
    /\ task' = [task EXCEPT !.kind = "simulate"]
    /\ Reset(_bind_graph_input(input, task.body.overrides), "recall")
    /\ UNCHANGED <<decided, fixture, stored, reply, simulations, claims, served>>

\* The evaluation a simulation reports.
Reported == IF task.body.mode = "GENERIC_REQUEST_ONLY" THEN generic.rank ELSE base.rank

RefusePlanless ==
    /\ stage = "ledger" /\ task.kind = "simulate"
    /\ Reported.selected = <<>>
    /\ Answer(Said("SIMULATION_NO_EXECUTABLE_PLAN"))
    /\ UNCHANGED <<simulations, claims>>

\* The key is claimed only now: a used one is answered from its record, or refused when it was
\* used for another body, and one body is recorded once.
RecordSimulation ==
    LET body == task.body
        same == {s \in simulations : s.body = body}
        result == IF same # {} THEN CHOOSE s \in same : TRUE
                  ELSE [body |-> body, order |-> Reported.ranked, selected |-> Reported.selected]
        used == {c \in claims : c.key = task.key}
    IN  /\ stage = "ledger" /\ task.kind = "simulate"
        /\ Reported.selected # <<>>
        /\ \/ /\ used = {}
              /\ simulations' = simulations \cup {result}
              /\ claims' = claims \cup {[key |-> task.key, response |-> result]}
              /\ Answer(Said("SIMULATED"))
           \/ /\ \E c \in used : c.response.body = body
              /\ Answer(Said("SIMULATED"))
              /\ UNCHANGED <<simulations, claims>>
           \/ /\ \E c \in used : c.response.body # body
              /\ Answer(Said("IDEMPOTENCY_CONFLICT"))
              /\ UNCHANGED <<simulations, claims>>

-----------------------------------------------------------------------------
\* The brief is discovered again under another idempotency key: nothing asks whether it was
\* decided before.
DiscoverAgain ==
    /\ Quiet
    /\ task' = [kind |-> "discover"]
    /\ Reset(Snapshot(decided), "recall")
    /\ UNCHANGED <<decided, fixture, stored, reply, simulations, claims, served>>

WriteDiscovery ==
    /\ task.kind = "discover"
    /\ PersistBaseGraph
    /\ UNCHANGED outside

\* A refused write rolls the discovery back and reads as a database failure.  A written one is
\* a decision of its own; the requests here stay about the first.
AnswerDiscovery ==
    /\ task.kind = "discover"
    /\ \/ stage = "written" /\ Answer(Said("DISCOVERED"))
       \/ stage = "conflict" /\ Answer(Said("DATABASE_UNAVAILABLE"))
    /\ UNCHANGED <<simulations, claims>>

ReplayNext ==
    \/ Stages
    \/ CompileLedger
    \/ WriteDecision
    \/ DiscoverAgain
    \/ WriteDiscovery
    \/ AnswerDiscovery
    \/ Release
    \/ BeginReplay
    \/ BeginExplanation
    \/ \E body \in Bodies, key \in Keys : BeginSimulation(body, key)
    \/ \E body \in Bodies : RefuseWeights(body)
    \/ FailRequest
    \/ RefuseReplay
    \/ CompareReplay
    \/ Explain
    \/ RefuseCriterion
    \/ Simulate
    \/ RefusePlanless
    \/ RecordSimulation

ReplaySpec == ReplayInit /\ [][ReplayNext]_replayVars

(***************************************************************************)
(* Properties.                                                             *)
(***************************************************************************)
\* A replay that is not refused finds the order, the statuses and the counterfactual of the
\* decision again, and the whole ledger exactly when the server's labels are still the same.
VerifiedReplayAgrees ==
    reply.verdict = "REPLAYED" =>
        /\ reply.ordering /\ reply.statuses /\ reply.counterfactual
        /\ reply.byteStable <=> reply.by.labels = stored.ledger.labels

\* A server whose fixture still yields the decision's input replays it, unless a weight was
\* changed that no plan is scored on: the ledger does not keep that one.
OwnDecisionReplays ==
    LET source == reply.by.source
        lost == {c \in decided.preferences :
                   c.id \notin DOMAIN _ledger_preference_weights(stored.ledger)}
    IN  reply.verdict = "REPLAY_INPUT_UNAVAILABLE" =>
            \/ _bind_graph_input(source, Weights(decided.preferences)) # decided
            \/ \E c \in lost : c \notin source.preferences

\* Whatever was released in between, a recorded simulation ranks the decision's own input under
\* the weights it names, and a key stands for one simulation.
SimulationsHold ==
    LET simulated(s) == _bind_graph_input(decided, s.body.overrides)
        seen(s) == IF s.body.mode = "GENERIC_REQUEST_ONLY"
                   THEN Without(simulated(s), PrivateIds(decided)) ELSE simulated(s)
        holds(s, rank) == s.order = rank.ranked /\ s.selected = rank.selected
    IN  /\ \A s \in simulations : holds(s, evaluate_decision_graph_once(seen(s)).rank)
        /\ Unique(simulations, LAMBDA s : s.body)
        /\ Unique(claims, LAMBDA c : c.key)

\* An explanation names what the decision's own input selects, and facts without which it
\* selects something else; when it names none, no set within the limit does.
ExplanationsHold ==
    LET selects(in) == evaluate_decision_graph_once(in).rank.selected
        without(facts) == selects(Without(decided, facts))
        few == {s \in SUBSET PrivateIds(decided) : Cardinality(s) <= CounterfactualLimit}
    IN  reply.verdict = "EXPLAINED" =>
            /\ reply.product = Last(stored.ledger.selected)
            /\ IF reply.decisive # {} THEN without(reply.decisive) # selects(decided)
               ELSE \A s \in few : without(s) = selects(decided)

\* What the service promises of a replay: "reconstruct a demo input only when its persisted
\* hashes prove exact identity", for replays and for the explanations and simulations built on them.
ReplayIsExact ==
    VerifiedReplayAgrees /\ OwnDecisionReplays /\ ExplanationsHold /\ SimulationsHold
=============================================================================
