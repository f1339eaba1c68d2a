--------------------------- MODULE SolutionPlans ---------------------------
(***************************************************************************)
(* Solution Plans of one frozen input (decision_engine/graph_v1.py): the   *)
(* dependency closure of every recalled product and every action on the    *)
(* current stack become plans; gates decide their status, scores, risk,    *)
(* cost, coverage and age their ordering bounds.                           *)
(***************************************************************************)
EXTENDS FrozenInput

ActionNames == <<"BUY", "CANCEL", "CONFIGURE_EXISTING", "CONSOLIDATE", "NO_ACTION",
                 "RENEW", "REPLACE", "RESIZE", "REUSE_EXISTING">>
ActionIndex(action) == CHOOSE n \in DOMAIN ActionNames : ActionNames[n] = action

(***************************************************************************)
(* Plan materials.                                                         *)
(***************************************************************************)
ByProduct(recall, product) == {r \in recall.representatives : r.product = product}

\* Mutant of Placed: a dependency placed already is placed again.
PlacedNever(search, rep) == FALSE

Placed(search, rep) == rep.product \in search.visited

\* visit(record) of the depth-first search: a product being visited again is a cycle, one
\* already placed is not placed twice, any other is put on the stack of the visits under way
\* with the products it requires.
Visit(search, rep) ==
    IF rep.product \in search.visiting
    THEN [search EXCEPT !.issues = @ \cup {"CYCLIC_COMPONENT_DEPENDENCY"}]
    ELSE IF Placed(search, rep) THEN search
    ELSE [search EXCEPT !.visiting = @ \cup {rep.product},
                        !.stack = Append(@, [rep |-> rep, todo |-> rep.requires])]

\* The innermost visit goes on to the next product its record requires.
Require(recall, search) ==
    LET top == Last(search.stack)
        product == Min(top.todo)
        matches == ByProduct(recall, product)
        rest == [search EXCEPT !.stack = Append(Front(@), [top EXCEPT !.todo = @ \ {product}])]
    IN  IF matches = {}
        THEN [rest EXCEPT !.issues = @ \cup {"MISSING_REQUIRED_COMPONENT"}]
        ELSE IF Cardinality(matches) > 1
        THEN [rest EXCEPT !.issues = @ \cup {"AMBIGUOUS_REQUIRED_COMPONENT"}]
        ELSE Visit(rest, CHOOSE m \in matches : TRUE)

\* The innermost visit returns: its record is placed after everything it requires.
Leave(search) ==
    LET rep == Last(search.stack).rep
    IN  [search EXCEPT !.stack = Front(@), !.visiting = @ \ {rep.product},
                       !.visited = @ \cup {rep.product}, !.ordered = Append(@, rep)]

Advance(recall, search) ==
    IF search.stack = <<>> THEN search
    ELSE IF Last(search.stack).todo = {} THEN Leave(search)
    ELSE Require(recall, search)

\* Every record is entered at most once, and every visit takes a turn for each product its
\* record requires and one to return.
Turns(recall) ==
    Cardinality(recall.representatives)
      * (1 + Cardinality(UNION {r.requires : r \in recall.representatives}))

NoSearchYet == [ordered |-> <<>>, issues |-> {}, visiting |-> {}, visited |-> {}, stack |-> <<>>]

closure(recall, root) ==
    LET after[n \in 0..Turns(recall)] ==
            IF n = 0 THEN Visit(NoSearchYet, root) ELSE Advance(recall, after[n - 1])
    IN  after[Turns(recall)]

\* Facts of a bundle: a preference field is aggregated over the components when each states
\* it once and with the kind of value the aggregation is for; otherwise all facts are kept.
SumSeq(s) == FoldSeq(+, 0, s)
Aggregated(how, values) ==
    LET all == Range(values)
        content == {v[2] : v \in all}
        kind == {v[1] : v \in all}
    IN  IF how = "SUM" /\ kind = {"num"}
        THEN {<<"num", SumSeq([i \in DOMAIN values |-> values[i][2]])>>}
        ELSE IF how = "MIN" /\ kind = {"num"} THEN {<<"num", Min(content)>>}
        ELSE IF how = "MAX" /\ kind = {"num"} THEN {<<"num", Max(content)>>}
        ELSE IF how = "UNION" /\ kind = {"set"} THEN {<<"set", UNION content>>}
        ELSE IF how = "ALL" /\ kind = {"flag"} THEN {<<"flag", content = {TRUE}>>}
        ELSE IF how = "ANY" /\ kind = {"flag"} THEN {<<"flag", TRUE \in content>>}
        ELSE {}

_aggregate_preference_facts(in, records) ==
    LET raw == UNION {r.facts : r \in Range(records)}
        fields == {c.field : c \in in.preferences}
        criterion(field) == CHOOSE c \in in.preferences :
            c.field = field /\ \A d \in in.preferences : d.field = field => d.id <= c.id
        stated(field, i) == {f \in records[i].facts : f.field = field}
        bundle(field) ==
            LET how == criterion(field).aggregation
                single == \A i \in DOMAIN records : Cardinality(stated(field, i)) = 1
                facts == [i \in DOMAIN records |-> CHOOSE f \in stated(field, i) : TRUE]
                value == Aggregated(how, [i \in DOMAIN records |-> facts[i].value])
            IN  IF how = "PRIMARY_COMPONENT" THEN stated(field, Len(records))
                ELSE IF single /\ value # {}
                THEN {[field |-> field, value |-> v, component |-> Last(records).product,
                       evidence |-> UNION {f.evidence : f \in Range(facts)}] : v \in value}
                ELSE UNION {stated(field, i) : i \in DOMAIN records}
    IN  IF Len(records) = 1 THEN raw
        ELSE {f \in raw : f.field \notin fields} \cup UNION {bundle(x) : x \in fields}

\* Offers are looked up by their canonical name, the later one where two share it.
OffersFor(in, name) == {o \in in.offers : _canonical(in, o.id) = name}
OfferOf(in, name) ==
    CHOOSE o \in OffersFor(in, name) : \A p \in OffersFor(in, name) : p.id <= o.id

\* An amount is known only when every component's is.
Total(amounts, expected) ==
    IF Cardinality(DOMAIN amounts) # expected \/ None \in Range(amounts) THEN None
    ELSE SumFunction(amounts)

_combined_cost(in, records) ==
    LET priced == {i \in DOMAIN records : OffersFor(in, records[i].offer) # {}}
        costs == [i \in priced |-> OfferOf(in, records[i].offer)]
        total(field) == Total([i \in priced |-> costs[i][field]], Len(records))
        known == {c \in Range(costs) : {c.low, c.base, c.high} # {None}}
        horizons == {c.horizon : c \in Range(costs)}
        currencies == {c.currency : c \in known}
        paid == Cardinality({i \in priced : costs[i].payment})
    IN  IF Len(records) = 1 /\ priced # {}
        THEN [cost |-> costs[1], paid |-> paid, issues |-> {}]
        ELSE [cost |-> [low  |-> total("low"), base |-> total("base"), high |-> total("high"),
                        currency |-> CHOOSE c \in currencies \cup {"USD"} :
                                         currencies # {} => c \in currencies,
                        horizon |-> CHOOSE h \in horizons \cup {1} :
                                        horizons # {} => h \in horizons,
                        items |-> FlattenSeq([i \in DOMAIN records |->
                                      IF i \in priced THEN costs[i].items ELSE <<>>]),
                        payment |-> paid > 0],
              paid |-> paid,
              issues |-> (IF priced # DOMAIN records
                            THEN {"MISSING_REQUIRED_DEPENDENCY_OFFER"} ELSE {})
                         \cup (IF Cardinality(horizons) > 1 \/ Cardinality(currencies) > 1
                            THEN {"INCOMPARABLE_DEPENDENCY_COST"} ELSE {})]

BundleMaterial(in, root, records, issues, bill) ==
    LET raw == UNION {r.facts : r \in Range(records)}
        priceEvidence == UNION {f.evidence : f \in {g \in raw : g.field = CostField}}
        price(products) == IF bill.cost.base = None THEN {}
            ELSE {[field |-> CostField, value |-> <<"num", bill.cost.base>>,
                   component |-> p, evidence |-> priceEvidence] : p \in products}
        other(facts) == {f \in facts : f.field # CostField}
    IN  [src |-> root.key, action |-> "REPLACE", component |-> root.product,
         components |-> [i \in DOMAIN records |-> records[i].product],
         facts |-> other(_aggregate_preference_facts(in, records)) \cup price({root.product}),
         gateFacts |-> other(raw) \cup price({r.product : r \in Range(records)}),
         cost |-> bill.cost, paid |-> bill.paid,
         available |-> \A r \in Range(records) : r.available,
         authority |-> _authority_floor(Range(records)),
         sellerGates |-> UNION {r.sellerGates : r \in Range(records)},
         resolution |-> {}, subject |-> root.product,
         issues |-> issues \cup bill.issues]

ClosedMaterial(in, root, search) ==
    BundleMaterial(in, root, search.ordered, search.issues, _combined_cost(in, search.ordered))

PackMaterial(in, recall, root) == ClosedMaterial(in, root, closure(recall, root))

\* What a cancelled instance yields is observed under a name of its own.
CancelledSubject(instance) == 1000 + instance

_current_material(a) ==
    [src |-> <<a.id>>, action |-> a.action, component |-> a.instance,
     components |-> <<a.instance>>, facts |-> a.facts, gateFacts |-> a.facts,
     cost |-> a.cost, paid |-> 0, available |-> a.available, authority |-> "NONE",
     sellerGates |-> {}, resolution |-> a.resolution,
     subject |-> IF a.action = "CANCEL" THEN CancelledSubject(a.instance) ELSE a.instance,
     issues |-> {}]

(***************************************************************************)
(* Gates.                                                                  *)
(***************************************************************************)
StatusPrecedence == <<"UNAVAILABLE", "CONFLICTING_EVIDENCE", "STALE_EVIDENCE",
    "INSUFFICIENT_EVIDENCE", "SIRA_INELIGIBLE", "SEIL_PASS", "AUTHORITY_REQUIRED",
    "ADVISORY_ONLY", "CONDITIONAL", "ELIGIBLE_WITH_EXCEPTION", "ELIGIBLE">>
StatusRank(status) == CHOOSE n \in DOMAIN StatusPrecedence : StatusPrecedence[n] = status

\* Rules whose buyer facts were all removed or never given, or that are about other actions,
\* do not apply.
Applies(in, rule, action) ==
    /\ rule.sources \subseteq _active_source_ids(in)
    /\ rule.actions = {} \/ action \in rule.actions

_gate_applies(in, gate, m) ==
    /\ Applies(in, gate, m.action)
    /\ gate.blocked = "SEIL_PASS" => gate.id \in m.sellerGates

\* The gates every plan has: it is available, every dependency is met, its seller sealed it.
_availability_gate(m) ==
    [gate |-> <<"availability", 0>>, truth |-> IF m.available THEN "TRUE" ELSE "FALSE",
     reasons |-> IF m.available THEN {} ELSE {"UNAVAILABLE"}, resolution |-> m.resolution]

_authority_gate(m) ==
    IF m.authority \in {"NONE", "SELLER_SEALED"} THEN {}
    ELSE {[gate |-> <<"authority", 0>>, truth |-> "FALSE", reasons |-> {"ADVISORY_ONLY"},
           resolution |-> {"NEW_PACK_VERSION"}]}

_dependency_gates(m) ==
    {[gate |-> <<issue, 0>>, truth |-> "FALSE", reasons |-> {"SIRA_INELIGIBLE"},
      resolution |-> {}] : issue \in m.issues}

\* A bundle must satisfy a gate in each of its components.
_component_field_states(m, field, assessments) ==
    IF Len(m.components) = 1 THEN {_field_state(m.gateFacts, field, assessments)}
    ELSE {_field_state({f \in m.gateFacts : f.component = c}, field, assessments) :
            c \in Range(m.components)}

\* What one predicate contributes: the truth values met and the statuses it is a reason for.
SellerPredicate(in, p) ==
    IF p.field \notin KnownFields(in) THEN [truths |-> {"UNKNOWN"}, reasons |-> {"CONDITIONAL"}]
    ELSE [truths |-> {IF _predicate_matches(_buyer_value(in, p.field), p) THEN "TRUE" ELSE "FALSE"},
          reasons |-> {}]

BuyerPredicate(m, p, assessments) ==
    LET fields == _component_field_states(m, p.field, assessments)
        states == {f.state : f \in fields}
        holds(f) == \A v \in f.values : _predicate_matches(v, p)
    IN  IF "CONFLICT" \in states
        THEN [truths |-> {"CONFLICT"}, reasons |-> {"CONFLICTING_EVIDENCE"}]
        ELSE IF "STALE" \in states THEN [truths |-> {"UNKNOWN"}, reasons |-> {"STALE_EVIDENCE"}]
        ELSE IF "UNKNOWN" \in states \/ \E f \in fields : f.values = {}
        THEN [truths |-> {"UNKNOWN"}, reasons |-> {"INSUFFICIENT_EVIDENCE"}]
        ELSE [truths |-> {IF holds(f) THEN "TRUE" ELSE "FALSE" : f \in fields}, reasons |-> {}]

\* A published seller rule needs current evidence of its own.
SellerRuleEvidence(gate, assessments) ==
    LET states == {a.state : a \in {b \in assessments : b.evidence \in gate.claims}}
        unknown == states = {} \/ "UNKNOWN" \in states
    IN  IF gate.blocked # "SEIL_PASS" \/ gate.claims = {}
        THEN [truths |-> {}, reasons |-> {}]
        ELSE [truths |-> (IF unknown \/ "STALE" \in states THEN {"UNKNOWN"} ELSE {})
                           \cup (states \cap {"CONFLICT"}),
              reasons |-> (IF unknown THEN {"INSUFFICIENT_EVIDENCE"} ELSE {})
                           \cup (IF "STALE" \in states THEN {"STALE_EVIDENCE"} ELSE {})
                           \cup (IF "CONFLICT" \in states THEN {"CONFLICTING_EVIDENCE"} ELSE {})]

\* The outcome of a gate from what its parts contribute.
GateOutcome(gate, parts) ==
    LET truths == UNION {x.truths : x \in parts}
        unmet == IF gate.mode = "REQUIRE_MATCH" THEN "FALSE" \in truths
                 ELSE truths \cap {"CONFLICT", "FALSE", "UNKNOWN"} = {}
        blocked == "CONFLICT" \notin truths /\ unmet
        truth == IF "CONFLICT" \in truths THEN "CONFLICT"
                 ELSE IF blocked THEN "FALSE"
                 ELSE IF gate.mode = "BLOCK_ON_MATCH" /\ "FALSE" \in truths THEN "TRUE"
                 ELSE IF "UNKNOWN" \in truths THEN "UNKNOWN"
                 ELSE "TRUE"
    IN  [gate |-> <<"rule", gate.id>>, truth |-> truth, resolution |-> gate.resolution,
         reasons |-> (UNION {x.reasons : x \in parts})
                       \cup (IF blocked THEN {gate.blocked} ELSE {})]

\* Seller rules look at what the buyer disclosed, buyer rules at what the product proves.
_evaluate_gate(in, gate, m, assessments) ==
    GateOutcome(gate, {SellerRuleEvidence(gate, assessments)} \cup
        {IF gate.blocked = "SEIL_PASS" THEN SellerPredicate(in, p)
         ELSE BuyerPredicate(m, p, assessments) : p \in gate.predicates})

evaluate_gates(in, m, assessments) ==
    {_availability_gate(m)} \cup _dependency_gates(m) \cup _authority_gate(m)
      \cup {_evaluate_gate(in, g, m, assessments) :
               g \in {h \in in.gates : _gate_applies(in, h, m)}}

_primary_status(gates) ==
    LET reasons == UNION {g.reasons : g \in gates}
    IN  IF reasons = {} THEN "ELIGIBLE"
        ELSE CHOOSE r \in reasons : \A s \in reasons : StatusRank(r) <= StatusRank(s)

(***************************************************************************)
(* Scores and ordering bounds.                                             *)
(***************************************************************************)
_normalization_value(c, value) ==
    LET reached == {p \in c.points : value[2] <= p.maximum}
    IN  IF c.normalization = "BOOLEAN_EQUALS" THEN IF value = c.expected THEN Unit ELSE 0
        ELSE IF c.normalization = "SET_CONTAINS_ALL"
        THEN IF value[1] = "set" /\ c.expected[2] \subseteq value[2] THEN Unit ELSE 0
        ELSE IF value[1] # "num" \/ reached = {} THEN 0   \* "LOWER_IS_BETTER"
        ELSE (CHOOSE p \in reached : \A q \in reached : p.maximum <= q.maximum).sat

_outcome_value(in, subject, criterion) ==
    {o \in in.outcomes : /\ o.subject = subject
                         /\ o.criterion = criterion
                         /\ o.sources \subseteq _active_source_ids(in)}

\* Without acceptable evidence a criterion is worth nothing at worst and, at best, the bound
\* the criterion declares; when it declares none the plan has no ordering bounds.
Unproved(c) == [low |-> 0, high |-> IF c.unknown = None THEN 0 ELSE c.unknown]

\* An observed outcome rate, or the category's neutral prior taken as if it were exact.
OutcomeScore(in, c, m, field, assessments) ==
    LET observed == _outcome_value(in, m.subject, c.id)
        seen == CHOOSE o \in observed : TRUE
        assessed == {a \in assessments : a.field = c.field /\ a.evidence \in seen.evidence}
        state == StateOf({a.state : a \in assessed}, FALSE)
    IN  IF observed = {}
        THEN [sat |-> [low |-> Max({c.prior, 0}), high |-> Max({c.prior, 0})],
              state |-> "UNKNOWN", prior |-> c.prior # None, evidence |-> field.evidence,
              unbounded |-> c.prior = None]
        ELSE [sat |-> IF state = "ACCEPTABLE" THEN [low |-> seen.value, high |-> seen.value]
                      ELSE Unproved(c),
              state |-> state, prior |-> FALSE, evidence |-> seen.evidence,
              unbounded |-> \/ state # "ACCEPTABLE" /\ c.unknown = None
                            \/ \E a \in assessed : ~a.timed]

FieldScore(c, field) ==
    LET worth == {_normalization_value(c, v) : v \in field.values}
        proved == field.state = "ACCEPTABLE" /\ field.values # {}
    IN  [sat |-> IF proved THEN [low |-> Min(worth), high |-> Max(worth)] ELSE Unproved(c),
         state |-> field.state, prior |-> FALSE, evidence |-> field.evidence,
         unbounded |-> ~proved /\ c.unknown = None]

_score_components(in, m, assessments) ==
    {LET field == _field_state(m.facts, c.field, assessments)
         score == IF c.normalization = "OUTCOME_RATE"
                  THEN OutcomeScore(in, c, m, field, assessments) ELSE FieldScore(c, field)
     IN  [id |-> c.id, weight |-> c.weight, coverageWeight |-> c.coverageWeight,
          sat |-> score.sat, state |-> score.state, prior |-> score.prior,
          evidence |-> score.evidence, resolvable |-> c.resolvable,
          unbounded |-> score.unbounded \/ field.untimed] :
       c \in {d \in in.preferences : Applies(in, d, m.action)}}

\* The rules an action triggers; a rule whose input is not proved counts with its missing-input
\* bounds, and without those the risk is unknown.
_risk_bounds(in, m, assessments) ==
    LET field(r) == _field_state(m.facts, r.predicate.field, assessments)
        about == {r \in in.riskRules : m.action \in r.actions}
        proved(r) == field(r).state = "ACCEPTABLE" /\ field(r).values # {}
        open == {r \in about : r.conditional /\ ~proved(r)}
        met == {r \in about \ open :
                  r.conditional => \A v \in field(r).values : _predicate_matches(v, r.predicate)}
        found == {r.risk : r \in met} \cup {r.missing : r \in open}
        lowest == [low |-> 0, base |-> 0, high |-> 0]
    IN  IF (\E r \in open : r.missing.low = None) \/ (found = {} /\ ~in.riskComplete)
        THEN [known |-> FALSE, risk |-> lowest]
        ELSE [known |-> TRUE,
              risk |-> aggregate_risk_bounds(IF found = {} THEN {lowest} ELSE found)]

_coverage_and_age(scores, m, assessments) ==
    LET sure(c) == c.state = "ACCEPTABLE" /\ ~c.prior
        criteria == {[id |-> c.id, weight |-> c.coverageWeight, conservative |-> sure(c),
                      optimistic |-> sure(c) \/ (c.resolvable /\ c.state \in {"UNKNOWN", "STALE"})] :
                       c \in scores}
        cited == (UNION {f.evidence : f \in m.facts}) \cup (UNION {c.evidence : c \in scores})
        material == {a \in assessments : a.evidence \in cited}
    IN  [coverage |-> aggregate_coverage_bounds(criteria),
         age |-> aggregate_evidence_age_bounds({a.age : a \in {b \in material : b.timed}}),
         untimed |-> \E a \in material : ~a.timed]

\* Satisfied over applicable hard gates: not the availability, the seal or a seller's rule.
HardCoverage(in, gates) ==
    LET seller == {<<"rule", g.id>> : g \in {h \in in.gates : h.blocked = "SEIL_PASS"}}
        hard == {g \in gates : /\ g.gate \notin seller
                               /\ g.gate \notin {<<"availability", 0>>, <<"authority", 0>>}}
    IN  IF hard = {} THEN <<1, 1>>
        ELSE <<Cardinality({g \in hard : g.truth = "TRUE"}), Cardinality(hard)>>

\* Amounts in the wrong order raise.
CostRaises(cost) ==
    None \notin {cost.low, cost.base, cost.high} /\ ~(cost.low <= cost.base /\ cost.base <= cost.high)

_valid_cost(m) ==
    LET cost == m.cost
        items(field) == SumSeq([i \in DOMAIN cost.items |-> cost.items[i][field]])
        fees == Len(SelectSeq(cost.items, LAMBDA i : i.fee))
    IN  /\ None \notin {cost.low, cost.base, cost.high}
        /\ cost.items # <<>> => \A f \in {"low", "base", "high"} : items(f) = cost[f]
        /\ IF cost.payment THEN fees = m.paid ELSE fees = 0 /\ m.paid = 0

\* The dimensions of a plan, and whether all of them have bounds.
Dimensions(m, scores, risk, evidence) ==
    [scores |-> scores,
     preferred |-> scores # {},
     riskKnown |-> risk.known,
     bounded |-> /\ scores # {} /\ ~\E c \in scores : c.unbounded
                 /\ risk.known /\ ~evidence.untimed /\ _valid_cost(m),
     bounds |-> [preference |-> IF scores = {} THEN [low |-> 0, high |-> 0]
                                ELSE aggregate_preference_bounds(scores),
                 risk |-> risk.risk,
                 cost |-> [low |-> m.cost.low, base |-> m.cost.base, high |-> m.cost.high],
                 coverage |-> evidence.coverage,
                 age |-> evidence.age]]

ScoredDimensions(in, m, assessments, scores) ==
    Dimensions(m, scores, _risk_bounds(in, m, assessments),
               _coverage_and_age(scores, m, assessments))

_material_dimensions(in, m, assessments) ==
    ScoredDimensions(in, m, assessments, _score_components(in, m, assessments))

(***************************************************************************)
(* Plans.                                                                  *)
(***************************************************************************)
_plan_id(action, components) == <<ActionIndex(action)>> \o components

\* A plan that is not eligible is pending only where a gate that stopped it, or the action
\* itself, names what would resolve it.
Lifecycle(status, bounded, resolution) ==
    IF status \in Eligible THEN IF bounded THEN "EXECUTABLE" ELSE "BLOCKED"
    ELSE IF status \in {"CONDITIONAL", "STALE_EVIDENCE", "INSUFFICIENT_EVIDENCE", "ADVISORY_ONLY"}
            /\ resolution # {}
    THEN "RESOLUTION_PENDING"
    ELSE "BLOCKED"

EvaluatedPlan(in, m, gates, dimensions) ==
    LET status == _primary_status(gates)
        named == UNION {g.resolution : g \in {h \in gates : h.reasons # {}}}
        resolution == IF named # {} THEN named ELSE m.resolution
    IN  [id |-> _plan_id(m.action, m.components), src |-> m.src, action |-> m.action,
         components |-> m.components, pack |-> m.authority # "NONE",
         status |-> status, gates |-> gates, resolution |-> resolution,
         lifecycle |-> Lifecycle(status, dimensions.bounded, resolution),
         scores |-> dimensions.scores, preferred |-> dimensions.preferred,
         riskKnown |-> dimensions.riskKnown,
         bounded |-> dimensions.bounded, bounds |-> dimensions.bounds,
         hard |-> HardCoverage(in, gates),
         signature |-> <<m.cost.currency, m.cost.horizon>>, payment |-> m.cost.payment]

Plan(in, m, assessments) ==
    EvaluatedPlan(in, m, evaluate_gates(in, m, assessments),
                  _material_dimensions(in, m, assessments))

Materials(in, recall) ==
    {PackMaterial(in, recall, r) : r \in recall.representatives}
      \cup {_current_material(a) : a \in in.current}

BuildRaises(in, recall) == \E m \in Materials(in, recall) : CostRaises(m.cost)

build_solution_plans(in, recall, assessments) ==
    {Plan(in, m, assessments) : m \in Materials(in, recall)}
=============================================================================
