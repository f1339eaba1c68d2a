--------------------------- MODULE EvidenceRecall ---------------------------
(***************************************************************************)
(* The first half of the deterministic decision engine: recall and         *)
(* deduplication of candidate records, the assessment of their evidence    *)
(* (decision_engine/graph_v1_recall.py) and what the facts say of a field  *)
(* (graph_v1._field_state), as functions of one frozen input.              *)
(*                                                                         *)
(* Names that the code sorts (records, products, facts, offers, ...) are   *)
(* numbers.  A fact value is a pair of its kind and its content:           *)
(* <<"num", n>>, <<"flag", b>> or <<"set", S>>.  Satisfactions, coverage   *)
(* and age ratios are in parts of Unit.  A content hash is the value it    *)
(* digests.                                                                *)
(***************************************************************************)
EXTENDS PlanRanking, SequencesExt

None == -1            \* an absent amount, time, bound or resolution

CostField == "offer.landed_total"

(***************************************************************************)
(* Names, and the frozen buyer facts.                                      *)
(***************************************************************************)
\* Follows the alias table; a chain longer than the table is a cycle.
Followed(aliases, name) ==
    LET step[n \in 0..Cardinality(DOMAIN aliases)] ==
            IF n = 0 THEN name
            ELSE IF step[n - 1] \in DOMAIN aliases THEN aliases[step[n - 1]] ELSE step[n - 1]
    IN  step[Cardinality(DOMAIN aliases)]

Cyclic(aliases, name) == Followed(aliases, name) \in DOMAIN aliases

_canonical(in, name) == Followed(in.aliases, name)

_active_buyer_facts(in) == {f \in in.facts : f.id \notin in.removed}

\* Mutant of _frozen_input_hashes: the buyer's facts are left out.
_frozen_input_hashes_without_facts(in) ==
    [candidate_records |-> in.records,
     offers |-> in.offers, evidence |-> in.evidence, evidence_policies |-> in.evidencePolicies,
     gates |-> in.gates, preferences |-> in.preferences,
     risk_rules |-> <<in.riskComplete, in.riskRules>>, current_actions |-> in.current,
     identity_normalization |-> in.aliases, outcome_observations |-> in.outcomes,
     recall_policy |-> in.policy]

\* What is frozen of an input: a fact the run must not see is not among it.
_frozen_input_hashes(in) ==
    [buyer_facts |-> _active_buyer_facts(in), candidate_records |-> in.records,
     offers |-> in.offers, evidence |-> in.evidence, evidence_policies |-> in.evidencePolicies,
     gates |-> in.gates, preferences |-> in.preferences,
     risk_rules |-> <<in.riskComplete, in.riskRules>>, current_actions |-> in.current,
     identity_normalization |-> in.aliases, outcome_observations |-> in.outcomes,
     recall_policy |-> in.policy]

_active_source_ids(in) == {f.id : f \in _active_buyer_facts(in)}

\* A later fact of the same field replaces an earlier one.
KnownFields(in) == {f.field : f \in _active_buyer_facts(in)}
_buyer_value(in, field) ==
    LET known == {f \in _active_buyer_facts(in) : f.field = field}
    IN  (CHOOSE f \in known : \A g \in known : g.id <= f.id).value

_predicate_matches(value, p) ==
    LET numeric == value[1] = "num" /\ p.value[1] = "num"
    IN  CASE p.op = "eq"  -> value = p.value
          [] p.op = "neq" -> value # p.value
          [] p.op = "in"  -> value \in p.value[2]
          [] p.op = "contains_all" ->
                 value[1] = "set" /\ p.value[1] = "set" /\ p.value[2] \subseteq value[2]
          [] p.op = "lte" -> numeric /\ value[2] <= p.value[2]
          [] p.op = "lt"  -> numeric /\ value[2] <  p.value[2]
          [] p.op = "gte" -> numeric /\ value[2] >= p.value[2]
          [] p.op = "gt"  -> numeric /\ value[2] >  p.value[2]
          [] p.op = "exists" -> TRUE

(***************************************************************************)
(* Recall and deduplication.                                               *)
(***************************************************************************)
_recall_exclusion(in, r) ==
    IF r.status = "REVOKED" THEN "PACK_REVOKED"
    ELSE IF r.status = "SUPERSEDED" THEN "PACK_SUPERSEDED"
    ELSE IF ~in.policy.on THEN "NONE"
    ELSE IF in.policy.category \notin r.categories THEN "CATEGORY_MISMATCH"
    ELSE IF in.policy.jtbd \notin r.jtbds THEN "JTBD_MISMATCH"
    ELSE IF _canonical(in, r.region) \notin {_canonical(in, x) : x \in in.policy.regions}
         THEN "REGION_UNSUPPORTED"
    ELSE "NONE"

_identity_key(in, r) ==
    <<_canonical(in, r.seller), _canonical(in, r.product),
      _canonical(in, r.edition), _canonical(in, r.region)>>

AuthorityRank == [SELLER_SEALED |-> 0, PLATFORM_COMPILED |-> 1, EXTERNAL_UNSEALED |-> 2]
_authority_floor(records) ==
    (CHOOSE r \in records :
        \A s \in records : AuthorityRank[s.authority] <= AuthorityRank[r.authority]).authority

\* One fact per (field, value), with the evidence of every record that states it.
_merge_facts(group, component) ==
    LET stated == UNION {r.facts : r \in group}
    IN  {[field |-> f.field, value |-> f.value, component |-> component,
          evidence |-> UNION {g.evidence : g \in {h \in stated :
                                h.field = f.field /\ h.value = f.value}}] : f \in stated}

LeastRecord(group) == CHOOSE r \in group : \A s \in group : r.id <= s.id

\* The record whose pack version is the highest gives the representative its offer.
Anchor(group) ==
    CHOOSE r \in group : \A s \in group \ {r} :
        s.version < r.version \/ (s.version = r.version /\ r.id < s.id)

Representative(in, key, group) ==
    [key |-> key, product |-> key[2], offer |-> _canonical(in, Anchor(group).offer),
     authority |-> _authority_floor(group),
     available |-> \A r \in group : r.available,
     facts |-> _merge_facts(group, key[2]),
     sellerGates |-> UNION {r.sellerGates : r \in group},
     requires |-> UNION {r.requires : r \in group}]

recall_and_deduplicate(in) ==
    LET recalled == {r \in in.records : _recall_exclusion(in, r) = "NONE"}
        group(key) == {r \in recalled : _identity_key(in, r) = key}
        keys == {_identity_key(in, r) : r \in recalled}
    IN  [identities |-> {[key |-> k, records |-> {r.id : r \in group(k)}] : k \in keys},
         merges |-> UNION {{[key |-> k, record |-> r.id] :
                              r \in group(k) \ {LeastRecord(group(k))}} : k \in keys},
         representatives |-> {Representative(in, k, group(k)) : k \in keys},
         exclusions |-> {[record |-> r.id, reason |-> _recall_exclusion(in, r)] :
                            r \in in.records \ recalled}]

\* An alias cycle met on the way raises.
RecallRaises(in) ==
    LET looked == {r \in in.records : r.status = "PUBLISHED"}
    IN  \E r \in looked :
            \/ _recall_exclusion(in, r) = "NONE"
               /\ \E n \in {r.seller, r.product, r.edition, r.region, r.offer} :
                      Cyclic(in.aliases, n)
            \/ in.policy.on /\ in.policy.category \in r.categories /\ in.policy.jtbd \in r.jtbds
               /\ \E n \in {r.region} \cup in.policy.regions : Cyclic(in.aliases, n)

(***************************************************************************)
(* Evidence.                                                               *)
(***************************************************************************)
_scope_matches(required, actual) == required = "*" \/ required = actual

\* Mutant of evidence_age_bounds: the bounds change places.
evidence_age_bounds_swapped(in, e, policy) ==
    [low  |-> (Unit * (in.now - e.lower)) \div policy.sla,
     high |-> (Unit * (in.now - e.upper)) \div policy.sla]

\* Parts of the freshness time limit that have passed since the observation.
evidence_age_bounds(in, e, policy) ==
    [low  |-> (Unit * (in.now - e.upper)) \div policy.sla,
     high |-> (Unit * (in.now - e.lower)) \div policy.sla]

_assessment(in, e, policy) ==
    LET timed == e.lower # None
        age == IF timed THEN evidence_age_bounds(in, e, policy) ELSE [low |-> 0, high |-> 0]
        admitted == /\ e.source \in policy.sources
                    /\ e.method \in policy.methods
                    /\ _scope_matches(policy.scope, e.scope)
                    /\ e.reconstructable
    IN  [evidence |-> e.id, field |-> policy.field, timed |-> timed, age |-> age,
         state |-> IF e.disputed \/ e.revoked THEN "CONFLICT"
                   ELSE IF timed /\ age.high > Unit THEN "STALE"
                   ELSE IF ~admitted \/ ~timed THEN "UNKNOWN"
                   ELSE "ACCEPTABLE"]

\* Evidence that no record describes is assessed too, as unknown and without a time.
MissingAssessment(id, field) ==
    [evidence |-> id, field |-> field, timed |-> FALSE, age |-> [low |-> 0, high |-> 0],
     state |-> "UNKNOWN"]

\* Every (evidence, field) pair the decision can rest on.
MaterialPairs(in, recall) ==
    LET factsOf == (UNION {r.facts : r \in recall.representatives})
                     \cup (UNION {a.facts : a \in in.current})
        observed == {x \in in.outcomes \X in.preferences : x[1].criterion = x[2].id}
    IN  (UNION {{<<e, f.field>> : e \in f.evidence} : f \in factsOf})
          \cup (UNION {{<<e, x[2].field>> : e \in x[1].evidence} : x \in observed})

EvidenceFor(in, id) == {e \in in.evidence : e.id = id}
PolicyFor(in, field) == {p \in in.evidencePolicies : p.field = field}

\* A field without a policy, and evidence observed after the evaluation time, raise.
AssessmentRaises(in, recall) ==
    \E x \in MaterialPairs(in, recall) :
        \/ PolicyFor(in, x[2]) = {}
        \/ \E e \in EvidenceFor(in, x[1]) : e.lower # None /\ e.upper > in.now

assess_evidence(in, recall) ==
    {LET found == EvidenceFor(in, x[1])
         policy == CHOOSE p \in PolicyFor(in, x[2]) : TRUE
     IN  IF found = {} THEN MissingAssessment(x[1], x[2])
         ELSE _assessment(in, CHOOSE e \in found : TRUE, policy) :
       x \in MaterialPairs(in, recall)}

\* Mutant of StateOf: one acceptable piece of evidence outweighs the others.
StateOfOptimistic(states, several) ==
    IF "ACCEPTABLE" \in states /\ ~several THEN "ACCEPTABLE"
    ELSE IF "CONFLICT" \in states \/ several THEN "CONFLICT"
    ELSE IF "STALE" \in states THEN "STALE"
    ELSE "UNKNOWN"

\* What the facts say of a field, and how far their evidence carries it.
StateOf(states, several) ==
    IF "CONFLICT" \in states \/ several THEN "CONFLICT"
    ELSE IF "ACCEPTABLE" \in states THEN "ACCEPTABLE"
    ELSE IF "STALE" \in states THEN "STALE"
    ELSE "UNKNOWN"

_field_state(facts, field, assessments) ==
    LET matching == {f \in facts : f.field = field}
        cited == UNION {f.evidence : f \in matching}
        assessed == {a \in assessments : a.field = field /\ a.evidence \in cited}
        values == {f.value : f \in matching}
    IN  [values |-> values, evidence |-> cited,
         state |-> StateOf({a.state : a \in assessed}, Cardinality(values) > 1),
         untimed |-> \E a \in assessed : ~a.timed]
=============================================================================
