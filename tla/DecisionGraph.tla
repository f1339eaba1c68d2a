---------------------------- MODULE DecisionGraph ----------------------------
(***************************************************************************)
(* One decision of the deterministic engine, from a frozen input to the    *)
(* rows of its evaluation (graph_v1.evaluate_decision_graph,               *)
(* service._demo_graph_artifacts and service._persist_base_graph): the     *)
(* base evaluation in four stages, the generic rerun without any private   *)
(* fact, the search for the smallest set of private facts whose removal    *)
(* changes the selection, the ledger, and the write.  An exception ends    *)
(* the decision as "failed", a refused write rolls it back as "conflict".  *)
(***************************************************************************)
EXTENDS EvaluationGraph

CONSTANTS Inputs,               \* the frozen inputs a decision may start from
          CounterfactualLimit   \* the largest number of private facts removed together

ASSUME LimitAssumption == CounterfactualLimit \in 1..3

\* An input is compiled with every fact of the buyer in it.
ASSUME InputsAssumption == \A in \in Inputs : DecisionGraphInput(in) /\ in.removed = {}

\* The rules the service compiles block with SIRA_INELIGIBLE or SEIL_PASS.
Blocks(in) == \A g \in in.gates : g.blocked \notin Eligible

ASSUME GatesAssumption == \A in \in Inputs : Blocks(in)

ASSUME PrecisionAssumption == \A in \in Inputs : Precise(in)

VARIABLES input, stage,
          base,           \* the base evaluation, filled stage by stage
          generic,        \* the ranking of the generic rerun, and what its hash digests
          search,         \* cardinality reached, and the sets that changed the selection
          counterfactual,
          rows            \* the evaluations of this brief that the database holds

vars == <<input, stage, base, generic, search, counterfactual, rows>>

NoRank == [ranked |-> <<>>, selected |-> <<>>, stability |-> "UNDETERMINED", frontier |-> {},
           unavailable |-> {}, marks |-> {}]
NoEvaluation == [recall |-> [identities |-> {}, merges |-> {}, representatives |-> {},
                             exclusions |-> {}],
                 assessments |-> {}, plans |-> {}, rank |-> NoRank]

\* The whole evaluation of one input: every stage is given what the earlier ones found.
Ranked(recall, assessments, plans) ==
    [recall |-> recall, assessments |-> assessments, plans |-> plans,
     rank |-> rank_and_frontiers(plans)]
Planned(in, recall, assessments) ==
    Ranked(recall, assessments, build_solution_plans(in, recall, assessments))
Assessed(in, recall) == Planned(in, recall, assess_evidence(in, recall))

evaluate_decision_graph_once(in) == Assessed(in, recall_and_deduplicate(in))

\* Whether one of its stages raises.
RecalledRaises(in, recall) ==
    \/ AssessmentRaises(in, recall)
    \/ BuildRaises(in, recall)
    \/ Incomparable(build_solution_plans(in, recall, assess_evidence(in, recall)))

Raises(in) == RecallRaises(in) \/ RecalledRaises(in, recall_and_deduplicate(in))

\* What a rerun leaves behind: its ranking and its payload.
Rerun(in, e) == [rank |-> e.rank, payload |-> evaluation_canonical_payload(in, e)]
NoRerun == [rank |-> NoRank, payload |-> [evaluatedAt |-> None]]

\* The same input without some of the buyer's private facts.
Without(in, facts) == [in EXCEPT !.removed = @ \cup facts]

PrivateIds(in) == {f.id : f \in {g \in in.facts : g.private /\ g.id \notin in.removed}}

GateTruths(e) == UNION {{<<p.id, g.gate, g.truth>> : g \in p.gates} : p \in e.plans}

_changed_gate_ids(before, after) ==
    LET differ == (GateTruths(before) \ GateTruths(after))
                    \cup (GateTruths(after) \ GateTruths(before))
    IN  {t[2] : t \in differ}

NoSearch == [reached |-> 0, winners |-> {}]
NoCounterfactual == [removed |-> {}, alternatives |-> {}, after |-> NoRerun, gates |-> {}]

-----------------------------------------------------------------------------
Init ==
    /\ input \in Inputs
    /\ stage = "recall"
    /\ base = NoEvaluation
    /\ generic = NoRerun
    /\ search = NoSearch
    /\ counterfactual = NoCounterfactual
    /\ rows = {}

\* One stage of the base evaluation: it raises, or its result goes to the next stage.
Stage(from, to, raises, field, result) ==
    /\ stage = from
    /\ \/ raises /\ stage' = "failed" /\ UNCHANGED base
       \/ ~raises /\ stage' = to /\ base' = [base EXCEPT ![field] = result]
    /\ UNCHANGED <<input, generic, search, counterfactual, rows>>

RecallAndDeduplicate ==
    Stage("recall", "assess", RecallRaises(input), "recall", recall_and_deduplicate(input))

AssessEvidence ==
    Stage("assess", "plan", AssessmentRaises(input, base.recall), "assessments",
          assess_evidence(input, base.recall))

BuildSolutionPlans ==
    Stage("plan", "rank", BuildRaises(input, base.recall), "plans",
          build_solution_plans(input, base.recall, base.assessments))

RankAndFrontiers ==
    Stage("rank", "generic", Incomparable(base.plans), "rank", rank_and_frontiers(base.plans))

\* The same evaluation for a buyer of whom nothing private is known.
EvaluateGeneric ==
    LET all == {f.id : f \in {g \in input.facts : g.private}}
        anonymous == Without(input, all)
    IN  /\ stage = "generic"
        /\ \/ Raises(anonymous) /\ stage' = "failed" /\ UNCHANGED generic
           \/ /\ ~Raises(anonymous)
              /\ stage' = "search"
              /\ generic' = Rerun(anonymous, evaluate_decision_graph_once(anonymous))
        /\ UNCHANGED <<input, base, search, counterfactual, rows>>

\* Mutant of SearchGoesOn: a larger set is looked for after one was found.
SearchesToTheEnd(limit) == search.reached < limit

\* Another cardinality is tried while nothing was found.
SearchGoesOn(limit) == search.winners = {} /\ search.reached < limit

\* Removes every set of the next cardinality; one rerun that raises ends the decision.
SearchCardinality ==
    LET private == PrivateIds(input)
        limit == Min({CounterfactualLimit, Cardinality(private)})
        tried == {s \in SUBSET private : Cardinality(s) = search.reached + 1}
        selects(s) == evaluate_decision_graph_once(Without(input, s)).rank.selected
    IN  /\ stage = "search"
        /\ SearchGoesOn(limit)
        /\ \/ /\ \E s \in tried : Raises(Without(input, s))
              /\ stage' = "failed"
              /\ UNCHANGED search
           \/ /\ \A s \in tried : ~Raises(Without(input, s))
              /\ search' = [reached |-> search.reached + 1,
                            winners |-> search.winners \cup
                                {s \in tried : selects(s) # base.rank.selected}]
              /\ UNCHANGED stage
        /\ UNCHANGED <<input, base, generic, counterfactual, rows>>

\* The order of the sorted tuples of two sets of one size: the least fact that only one of
\* them holds is their first difference.
ListedBefore(s, t) == \E x \in s \ t : \A y \in t \ s : x < y

\* The first set in the order of its fact ids is the counterfactual.
RecordCounterfactual ==
    LET limit == Min({CounterfactualLimit, Cardinality(PrivateIds(input))})
        chosen == CHOOSE s \in search.winners :
                     \A t \in search.winners \ {s} : ListedBefore(s, t)
        record(after) == [removed |-> chosen, alternatives |-> search.winners \ {chosen},
                          after |-> Rerun(Without(input, chosen), after),
                          gates |-> _changed_gate_ids(base, after)]
    IN  /\ stage = "search"
        /\ ~SearchGoesOn(limit)
        /\ stage' = "ledger"
        /\ counterfactual' =
              IF search.winners = {} THEN counterfactual
              ELSE record(evaluate_decision_graph_once(Without(input, chosen)))
        /\ UNCHANGED <<input, base, generic, search, rows>>

BuildDecisionLedger ==
    /\ stage = "ledger"
    /\ stage' = IF build_decision_ledger_raises(input, base) THEN "failed" ELSE "persist"
    /\ UNCHANGED <<input, base, generic, search, counterfactual, rows>>

\* The rows are built, cross-checked and inserted in one transaction.
PersistBaseGraph ==
    LET write == build_evaluation_graph_write(input, base)
        refused == _ledger_document_raises(base) \/ SourcesClash(input)
        admitted == add_evaluation_graph_accepts(write) /\ TablesAdmit(rows, write)
    IN  /\ stage = "persist"
        /\ stage' = IF refused THEN "failed" ELSE IF admitted THEN "written" ELSE "conflict"
        /\ rows' = IF stage' = "written" THEN rows \cup {write} ELSE rows
        /\ UNCHANGED <<input, base, generic, search, counterfactual>>

Next == \/ RecallAndDeduplicate
        \/ AssessEvidence
        \/ BuildSolutionPlans
        \/ RankAndFrontiers
        \/ EvaluateGeneric
        \/ SearchCardinality
        \/ RecordCounterfactual
        \/ BuildDecisionLedger
        \/ PersistBaseGraph

Spec == Init /\ [][Next]_vars

(***************************************************************************)
(* Properties.                                                             *)
(***************************************************************************)
\* Type: the stage is known; satisfactions, risk, cost, coverage and age keep their ends in
\* order, as bounds.py demands when it builds them, whatever facts and evidence they come from.
EngineTypeOK ==
    LET ordered(b) == b.low <= b.high
    IN  /\ stage \in {"recall", "assess", "plan", "rank", "generic", "search", "ledger",
                      "persist", "written", "failed", "conflict"}
        /\ \A a \in base.assessments : ordered(a.age)
        /\ ArePlans(base.plans)
        /\ \A p \in base.plans : \A c \in p.scores :
              0 <= c.sat.low /\ ordered(c.sat) /\ c.sat.high <= Unit

\* The raw records behind the i-th component of a pack plan.
RecordsOf(in, p, i) ==
    {r \in in.records : /\ _recall_exclusion(in, r) = "NONE"
                        /\ IF i = Len(p.components) THEN _identity_key(in, r) = p.src
                           ELSE _canonical(in, r.product) = p.components[i]}

\* Somebody the field's policy admits saw it, recently enough.
Vouched(in, f) ==
    \E e \in in.evidence, q \in in.evidencePolicies :
        /\ e.id \in f.evidence /\ q.field = f.field
        /\ e.source \in q.sources /\ e.method \in q.methods /\ q.scope \in {"*", e.scope}
        /\ e.reconstructable /\ e.lower # None /\ in.now - e.lower <= q.sla

Stated(records, field) == {f \in UNION {r.facts : r \in records} : f.field = field}

\* All the records agree on one value, it is vouched for, and no evidence of it is disputed or
\* revoked.
Settled(in, records, field) ==
    LET stated == Stated(records, field)
    IN  /\ Cardinality({f.value : f \in stated}) = 1
        /\ \E f \in stated : Vouched(in, f)
        /\ ~\E f \in stated, e \in in.evidence : e.id \in f.evidence /\ (e.disputed \/ e.revoked)

Meets(records, q) == \A f \in Stated(records, q.field) : _predicate_matches(f.value, q)

\* The buyer disclosed every condition of the seller's rule, and what the rule asks for holds.
NotDeclined(in, gate) ==
    LET met(q) == _predicate_matches(_buyer_value(in, q.field), q)
    IN  /\ \A q \in gate.predicates : q.field \in KnownFields(in)
        /\ IF gate.mode = "REQUIRE_MATCH" THEN \A q \in gate.predicates : met(q)
           ELSE \E q \in gate.predicates : ~met(q)

\* What a buyer's rule is about is settled in every component, and what it asks for holds.
\* The price is the bundle's own and is left to the scores.
Required(in, bundle, gate) ==
    LET about == {q \in gate.predicates : q.field # CostField}
    IN  /\ \A q \in about : \A records \in bundle : Settled(in, records, q.field)
        /\ IF gate.mode = "REQUIRE_MATCH" THEN \A q \in about : \A records \in bundle : Meets(records, q)
           ELSE about = gate.predicates => \E q \in about : \E records \in bundle : ~Meets(records, q)

\* Said of the raw input, not of the stages: the components of an eligible plan come after
\* everything they require, their records are all published, available and sealed by their
\* seller, the buyer's requirements are proved of every component, and no seller in the bundle
\* declines this buyer.
EligibleIsProved ==
    \A p \in base.plans : p.status \in Eligible /\ p.pack =>
        LET records(i) == RecordsOf(input, p, i)
            bundle == {records(i) : i \in DOMAIN p.components}
        IN  /\ \A i \in DOMAIN p.components :
                  /\ records(i) # {}
                  /\ \A r \in records(i) :
                        /\ r.status = "PUBLISHED" /\ r.available /\ r.authority = "SELLER_SEALED"
                        /\ r.requires \subseteq {p.components[j] : j \in 1..(i - 1)}
            /\ \A g \in {h \in input.gates : Applies(input, h, p.action)} :
                  IF g.blocked = "SEIL_PASS"
                  THEN (\E r \in UNION bundle : g.id \in r.sellerGates) => NotDeclined(input, g)
                  ELSE Required(input, bundle, g)

\* A selection is called STABLE exactly when every eligible competitor has bounds and loses to
\* it however the uncertain quantities of both turn out.
StableMeansFirst ==
    base.rank.ranked # <<>> =>
        (base.rank.stability = "STABLE" <=> FirstHoweverItTurnsOut(base.plans))

\* The counterfactual is the smallest: removing it changes the selection and removing fewer
\* facts does not.  When none is reported no set within the limit does, so a buyer with no
\* more private facts than the limit gets the generic answer.
CounterfactualIsMinimal ==
    LET small == {s \in SUBSET PrivateIds(input) : Cardinality(s) <= CounterfactualLimit}
        changes(s) ==
            evaluate_decision_graph_once(Without(input, s)).rank.selected # base.rank.selected
        removed == counterfactual.removed
        minimal(changing) ==
            IF removed = {}
            THEN changing = {} /\ (PrivateIds(input) \in small => generic.rank.selected = base.rank.selected)
            ELSE removed \in changing
                 /\ \A s \in changing : Cardinality(removed) <= Cardinality(s)
    IN  stage = "ledger" => minimal({s \in small : changes(s)})

\* What the engine computed and the ledger compiler did not refuse passes the repository's
\* cross-checks and the tables' constraints, unless the database holds that very evaluation
\* already, row for row: the keys of a run refuse a repetition and nothing else, and no other
\* decision is lost to a constraint violation.
WriteMeetsSchema == stage = "conflict" => build_evaluation_graph_write(input, base) \in rows

\* What the docstring of recall_and_deduplicate says: a plan covers no more with the duplicates
\* of its record than without them.
DuplicatesNeverHelp ==
    LET first == {r \in input.records :
                    r.id \notin {m.record : m \in base.recall.merges}}
        alone == evaluate_decision_graph_once([input EXCEPT !.records = first])
    IN  stage = "written" =>
            \A p \in base.plans, q \in alone.plans :
                p.id = q.id /\ p.src = q.src => p.bounds.coverage.low <= q.bounds.coverage.low
=============================================================================
