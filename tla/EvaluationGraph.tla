--------------------------- MODULE EvaluationGraph ---------------------------
(***************************************************************************)
(* How one evaluation is recorded: the rows that                           *)
(* sira_api/graph_persistence.py builds from it, the checks made on the    *)
(* way (graph_ledger.py, _ledger_document, add_evaluation_graph), and the  *)
(* constraints of the tables that receive the rows (the database baseline  *)
(* migration).  An evaluation `e` carries recall, assessments, plans and   *)
(* rank, the results of the four stages.                                   *)
(***************************************************************************)
EXTENDS SolutionPlans

Position(S, x) == Cardinality({y \in S : y < x})

(***************************************************************************)
(* Rows.                                                                   *)
(***************************************************************************)
MemberKind(action) ==
    IF action = "NO_ACTION" THEN "NO_ACTION"
    ELSE IF action \in {"REUSE_EXISTING", "CONFIGURE_EXISTING"} THEN "CURRENT_STACK"
    ELSE "CONTRACT_ACTION"

\* Every raw record is included, deduplicated or excluded; actions follow, all included.
_candidate_members(in, e) ==
    LET merged == {x.record : x \in e.recall.merges}
        excluded == {x.record : x \in e.recall.exclusions}
        records == {r.id : r \in in.records}
        actions == {a.id : a \in in.current}
        identity(id) == CHOOSE k \in e.recall.identities : id \in k.records
    IN  {[source |-> r.id, kind |-> "PACK", ordinal |-> Position(records, r.id),
          version |-> r.version,
          identity |-> IF r.id \in excluded THEN <<r.id>> ELSE identity(r.id).key,
          disposition |-> IF r.id \in excluded THEN "EXCLUDED"
                          ELSE IF r.id \in merged THEN "DEDUPLICATED"
                          ELSE "INCLUDED"] : r \in in.records}
        \cup
        {[source |-> a.id, kind |-> MemberKind(a.action), identity |-> <<a.instance>>,
          ordinal |-> Cardinality(records) + Position(actions, a.id), version |-> None,
          disposition |-> "INCLUDED"] : a \in in.current}

Marks(e, p) == CHOOSE m \in e.rank.marks : m.id = p.id /\ m.src = p.src

\* The last position of an id counts when several plans share it; 0 stands for no rank.
RankPosition(e, p) ==
    Max({n \in DOMAIN e.rank.ranked : e.rank.ranked[n] = p.id} \cup {0})

_solution_plan_records(e) ==
    {[plan |-> p.id, action |-> p.action, status |-> p.status, lifecycle |-> p.lifecycle,
      rank |-> RankPosition(e, p), selected |-> p.id = e.rank.selected,
      ordering |-> Marks(e, p).ordering, resolution |-> Marks(e, p).resolution,
      quote |-> Marks(e, p).quote, autonomous |-> Marks(e, p).autonomous] : p \in e.plans}

\* A pack component is traced to the first record of the first identity of its product, any
\* other to the first action on that instance.
_component_source(in, e, p, component) ==
    LET same == {k \in e.recall.identities : k.key[2] = component}
        first == CHOOSE k \in same : \A j \in same \ {k} : LexLess(k.key, j.key)
        acts == {a \in in.current : a.instance = component /\ a.action = p.action}
    IN  IF p.pack THEN [kind |-> "PACK", source |-> Min(first.records)]
        ELSE [kind |-> MemberKind(p.action), source |-> Min({a.id : a \in acts})]

_plan_components(in, e) ==
    UNION {{[plan |-> p.id, component |-> p.components[i], ordinal |-> i - 1,
             action |-> p.action,
             from |-> _component_source(in, e, p, p.components[i])] :
               i \in DOMAIN p.components} : p \in e.plans}

\* The first of the sorted reasons, and whether the gate holds the plan's primary reason.
_gate_results(e) ==
    UNION {{[plan |-> p.id, gate |-> g.gate, truth |-> g.truth,
             derived |-> IF g.reasons = {} THEN "NONE" ELSE _primary_status({g}),
             primary |-> p.status \in g.reasons] : g \in p.gates} : p \in e.plans}

_evidence_assessments(in, e) ==
    {[evidence |-> a.evidence, field |-> a.field, state |-> a.state, timed |-> a.timed,
      age |-> a.age,
      supports |-> {c.id : c \in {d \in in.preferences :
          /\ d.field = a.field
          /\ \E p \in e.plans : \E s \in p.scores : s.id = d.id /\ a.evidence \in s.evidence}}] :
       a \in e.assessments}

_score_rows(e) ==
    UNION {{[plan |-> p.id, criterion |-> s.id, weight |-> s.weight,
             coverageWeight |-> s.coverageWeight, sat |-> s.sat, state |-> s.state] :
               s \in p.scores} : p \in e.plans}

\* A dimension with two ends gets their midpoint as its base (in half units here).
Midpoint(b) == [low |-> 2 * b.low, base |-> b.low + b.high, high |-> 2 * b.high]
Fixed(n) == [low |-> n, base |-> n, high |-> n]

\* The columns of an unknown bound stay null and a reason is given (_bound_reason always has
\* one); only money has a currency.
_score_bound(p, dimension, kind, known, values) ==
    [plan |-> p.id, dimension |-> dimension, kind |-> kind,
     status |-> IF known THEN "AVAILABLE" ELSE "BOUND_UNAVAILABLE",
     values |-> values, given |-> known, reason |-> ~known, money |-> kind = "MONEY"]

_score_bounds(e) ==
    UNION {{_score_bound(p, "PREFERENCE", "RATIO", p.preferred, Midpoint(p.bounds.preference)),
            _score_bound(p, "STACK_RISK", "RISK_ORDINAL", p.riskKnown, p.bounds.risk),
            _score_bound(p, "TCO", "MONEY",
                         None \notin {p.bounds.cost.low, p.bounds.cost.base, p.bounds.cost.high},
                         p.bounds.cost),
            _score_bound(p, "DECISION_MATERIAL_COVERAGE", "RATIO", TRUE,
                         Midpoint(p.bounds.coverage)),
            _score_bound(p, "EVIDENCE_AGE", "RATIO", TRUE, Midpoint(p.bounds.age)),
            _score_bound(p, "HARD_COVERAGE", "RATIO", TRUE, Fixed(p.hard[1])),
            _score_bound(p, "UNIVERSE_COVERAGE", "RATIO", TRUE,
                         Fixed(Cardinality(e.plans)))} : p \in e.plans}

\* "UNKNOWN" is the null of can_beat_selected.
_robustness_frontiers(e) ==
    LET beats(p) == IF p.id = e.rank.selected THEN "FALSE"
                    ELSE IF e.rank.stability = "UNDETERMINED" THEN "UNKNOWN"
                    ELSE IF Marks(e, p).ordering THEN "TRUE" ELSE "FALSE"
        row(p, kind, member, can) == [plan |-> p.id, kind |-> kind, member |-> member,
                                      beats |-> can, stability |-> e.rank.stability]
    IN  UNION {{row(p, "ORDERING", Marks(e, p).ordering, beats(p)),
                row(p, "RESOLUTION", Marks(e, p).resolution, "UNKNOWN"),
                row(p, "BOUND_UNAVAILABLE", p.id \in e.rank.unavailable, "UNKNOWN")} :
                  p \in e.plans}

\* What input_payload_hash digests.
_input_payload(in) == [evaluatedAt |-> in.now, frozen |-> _frozen_input_hashes(in),
                       removed |-> in.removed]

\* What evaluation_payload_hash digests: the results with the input they came from.
evaluation_canonical_payload(in, e) ==
    [evaluatedAt |-> in.now, frozen |-> _frozen_input_hashes(in), removed |-> in.removed,
     identities |-> e.recall.identities, merges |-> e.recall.merges,
     exclusions |-> e.recall.exclusions, assessments |-> e.assessments, plans |-> e.plans,
     rank |-> e.rank]

\* The evaluation run and the rows that belong to it.
build_evaluation_graph_write(in, e) ==
    [run |-> [input |-> _input_payload(in), payload |-> evaluation_canonical_payload(in, e),
              stability |-> e.rank.stability],
     selected |-> e.rank.selected,
     members |-> _candidate_members(in, e), merges |-> e.recall.merges,
     plans |-> _solution_plan_records(e), components |-> _plan_components(in, e),
     gates |-> _gate_results(e), assessments |-> _evidence_assessments(in, e),
     scores |-> _score_rows(e), bounds |-> _score_bounds(e),
     frontiers |-> _robustness_frontiers(e)]

(***************************************************************************)
(* The Decision Ledger, the document kept beside the rows.                 *)
(***************************************************************************)
Recalled(e) == UNION {k.records : k \in e.recall.identities}

\* One recalled record of each product, the first by name.
LedgerRecords(in, e) ==
    {r \in in.records : /\ r.id \in Recalled(e)
                        /\ \A s \in in.records :
                              s.id \in Recalled(e) /\ s.product = r.product => r.id <= s.id}

\* Each with the status and the gates of the last plan built for its product.
component_results(in, e) ==
    LET of(r) == {p \in e.plans : p.pack /\ Last(p.components) = r.product}
        last(r) == CHOOSE p \in of(r) : \A q \in of(r) \ {p} : LexLess(q.src, p.src)
        cited(r) == UNION {{<<id, f.field>> : id \in f.evidence} : f \in r.facts}
    IN  {[record |-> r.id, version |-> r.version, authority |-> r.authority,
          status |-> last(r).status, gates |-> last(r).gates,
          assessments |-> {a \in e.assessments : <<a.evidence, a.field>> \in cited(r)}] :
           r \in LedgerRecords(in, e)}

\* A bound that is not known is shown as unavailable.
_dimensions(p) ==
    LET shown(known, b) == IF known THEN b ELSE [low |-> None, high |-> None]
    IN  [preference |-> shown(p.preferred, p.bounds.preference),
         risk |-> shown(p.riskKnown, p.bounds.risk), cost |-> p.bounds.cost,
         payment |-> p.payment, hard |-> p.hard, coverage |-> p.bounds.coverage,
         age |-> p.bounds.age, bounded |-> p.bounded]

\* A component is named after the last input record of its product, recalled or not.
_solution_plan(in, e, p) ==
    LET named(c) == {r.id : r \in {s \in in.records : s.product = c}}
        source(c) == IF named(c) = {} THEN <<"CURRENT_INSTANCE", c>>
                     ELSE <<"PRODUCT_EVIDENCE", Max(named(c))>>
    IN  [plan |-> p.id, action |-> p.action, lifecycle |-> p.lifecycle, status |-> p.status,
         components |-> [i \in DOMAIN p.components |-> source(p.components[i])],
         gates |-> p.gates, scores |-> p.scores, dimensions |-> _dimensions(p),
         rank |-> RankPosition(e, p), marks |-> Marks(e, p), resolution |-> p.resolution,
         patched |-> p.id = e.rank.selected]

\* `labels` are the product names, profile and stack versions of the fixture bundle.
build_decision_ledger(in, e, counterfactual, labels) ==
    [labels |-> labels, ranked |-> e.rank.ranked, frontier |-> e.rank.frontier,
     unavailable |-> e.rank.unavailable, stability |-> e.rank.stability,
     included |-> Recalled(e), excluded |-> {r.id : r \in in.records} \ Recalled(e),
     merges |-> e.recall.merges, exclusions |-> e.recall.exclusions,
     results |-> component_results(in, e), plans |-> {_solution_plan(in, e, p) : p \in e.plans},
     selected |-> e.rank.selected, counterfactual |-> counterfactual,
     payload |-> evaluation_canonical_payload(in, e)]

(***************************************************************************)
(* What stops a write.                                                     *)
(***************************************************************************)
\* The ledger looks up the plan of every recalled record by the record's own product name, and
\* the record of every evidence it assesses: a KeyError where either is missing.
build_decision_ledger_raises(in, e) ==
    LET planned == {Last(p.components) : p \in {q \in e.plans : q.pack}}
    IN  \E r \in LedgerRecords(in, e) :
            \/ r.product \notin planned
            \/ \E f \in r.facts : \E id \in f.evidence : EvidenceFor(in, id) = {}

\* The ledger must list each plan of the evaluation once.
_ledger_document_raises(e) == ~Unique(e.plans, LAMBDA p : p.id)

\* Record and action names share one column.
SourcesClash(in) == {r.id : r \in in.records} \cap {a.id : a \in in.current} # {}

\* The cross-checks of the repository over the whole aggregate.
add_evaluation_graph_accepts(rows) ==
    LET chosen == {p \in rows.plans : p.selected}
        placed == {p \in rows.plans : p.rank # 0}
        plans == {p.plan : p \in rows.plans}
    IN  /\ Unique(rows.plans, LAMBDA p : p.plan)
        /\ IF rows.selected = <<>> THEN chosen = {}
           ELSE Cardinality(chosen) = 1 /\ \A p \in chosen : p.plan = rows.selected
        /\ Unique(placed, LAMBDA p : p.rank)
        /\ \A r \in rows.gates \cup rows.components \cup rows.scores \cup rows.bounds
                      \cup rows.frontiers : r.plan \in plans
        /\ \A b \in rows.bounds : b.status = "AVAILABLE" =>
               b.values.low <= b.values.base /\ b.values.base <= b.values.high
        /\ \A s \in rows.scores : 0 <= s.sat.low /\ s.sat.low <= s.sat.high /\ s.sat.high <= Unit

(***************************************************************************)
(* The constraints of the tables.  Left out: foreign keys, the denominator *)
(* of a ratio (always Unit here), the counts of a discovery run (sizes of  *)
(* collections), the case of a currency, and the keys on the hash of a     *)
(* row, which digests the columns of another key of its table.             *)
(***************************************************************************)
RankStabilities == {"STABLE", "UNSTABLE", "UNDETERMINED"}
EvidenceStates == {"ACCEPTABLE", "UNKNOWN", "STALE", "CONFLICT"}
MemberKinds == {"PACK", "CURRENT_STACK", "CONTRACT_ACTION", "NO_ACTION"}

\* uq_evaluation_run_input and uq_evaluation_payload_hash, against the evaluations of the same
\* brief: both digests name the version of the brief, so no other can have the same.
evaluation_runs_admit(held, run) ==
    /\ run.stability \in RankStabilities
    /\ \A w \in held : w.run.input # run.input /\ w.run.payload # run.payload

candidate_set_members_admit(rows) ==
    /\ Unique(rows, LAMBDA m : m.source)
    /\ Unique(rows, LAMBDA m : m.ordinal)
    /\ \A m \in rows : /\ m.kind \in MemberKinds
                       /\ m.disposition \in {"INCLUDED", "EXCLUDED", "DEDUPLICATED"}
                       /\ m.ordinal >= 0
                       /\ m.version = None \/ m.version >= 1

identity_merges_admit(rows) == Unique(rows, LAMBDA m : m.record)

evaluation_solution_plans_admit(rows) ==
    /\ Unique(rows, LAMBDA p : p.plan)
    /\ \A p \in rows : /\ p.action \in Range(ActionNames)
                       /\ p.lifecycle \in {"CANDIDATE", "RESOLUTION_PENDING", "EXECUTABLE", "BLOCKED"}
                       /\ p.status \in Range(StatusPrecedence)
                       /\ p.rank = 0 \/ p.rank >= 1

solution_plan_components_admit(rows) ==
    /\ Unique(rows, LAMBDA c : <<c.plan, c.component>>)
    /\ Unique(rows, LAMBDA c : <<c.plan, c.ordinal>>)
    /\ \A c \in rows : /\ c.action \in Range(ActionNames)
                       /\ c.from.kind \in MemberKinds
                       /\ c.ordinal >= 0

decision_gate_results_admit(rows) ==
    /\ Unique(rows, LAMBDA g : <<g.plan, g.gate>>)
    /\ \A g \in rows : /\ g.truth \in {"TRUE", "FALSE", "UNKNOWN", "CONFLICT"}
                       /\ g.derived = "NONE" \/ g.derived \in Range(StatusPrecedence)

\* The two ends of an age are columns of one record here, null together.
evidence_assessments_admit(rows) ==
    /\ Unique(rows, LAMBDA a : <<a.evidence, a.field>>)
    /\ \A a \in rows : a.state \in EvidenceStates

score_components_admit(rows) ==
    /\ Unique(rows, LAMBDA s : <<s.plan, s.criterion>>)
    /\ \A s \in rows : /\ s.weight \in 1..5 /\ s.coverageWeight \in 1..5
                       /\ s.sat.low \in 0..Unit /\ s.sat.high \in 0..Unit
                       /\ s.state \in EvidenceStates

score_bounds_admit(rows) ==
    /\ Unique(rows, LAMBDA b : <<b.plan, b.dimension>>)
    /\ \A b \in rows :
          /\ b.dimension \in {"PREFERENCE", "STACK_RISK", "TCO", "DECISION_MATERIAL_COVERAGE",
                              "EVIDENCE_AGE", "HARD_COVERAGE", "UNIVERSE_COVERAGE"}
          /\ b.kind \in {"RATIO", "RISK_ORDINAL", "MONEY", "COUNT"}
          /\ \/ b.status = "AVAILABLE" /\ b.given /\ ~b.reason
             \/ b.status = "BOUND_UNAVAILABLE" /\ b.reason
          /\ b.money <=> b.kind = "MONEY"
          /\ b.kind = "RISK_ORDINAL" /\ b.status = "AVAILABLE" =>
                {b.values.low, b.values.base, b.values.high} \subseteq 0..3

robustness_frontiers_admit(rows) ==
    /\ Unique(rows, LAMBDA f : <<f.plan, f.kind>>)
    /\ \A f \in rows : /\ f.kind \in {"ORDERING", "RESOLUTION", "BOUND_UNAVAILABLE"}
                       /\ f.stability \in RankStabilities

\* The inserts of add_evaluation_graph, the run first, into a database that holds the
\* evaluations `held`.
TablesAdmit(held, rows) ==
    /\ evaluation_runs_admit(held, rows.run)
    /\ candidate_set_members_admit(rows.members)
    /\ identity_merges_admit(rows.merges)
    /\ evaluation_solution_plans_admit(rows.plans)
    /\ solution_plan_components_admit(rows.components)
    /\ decision_gate_results_admit(rows.gates)
    /\ evidence_assessments_admit(rows.assessments)
    /\ score_components_admit(rows.scores)
    /\ score_bounds_admit(rows.bounds)
    /\ robustness_frontiers_admit(rows.frontiers)
=============================================================================
