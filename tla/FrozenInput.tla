---------------------------- MODULE FrozenInput ----------------------------
(***************************************************************************)
(* What the constructors of decision_engine/graph_v1_models.py let into a  *)
(* frozen input: each predicate is a class's __post_init__.  Names are     *)
(* never empty here, so the checks that they are given are left out; names *)
(* and amounts are whole numbers and collections are finite, as the types  *)
(* of the classes have it.                                                 *)
(***************************************************************************)
EXTENDS EvidenceRecall

\* The primary and unique keys of a collection.
Unique(rows, key(_)) == \A r, s \in rows : key(r) = key(s) => r = s

Actions == QuoteActions \cup AutonomousActions \cup {"CONFIGURE_EXISTING", "CANCEL"}

FrozenFact(f) ==
    f.id \in Int /\ f.private \in BOOLEAN /\ f.value[1] \in {"num", "flag", "set"}

ProductFact(f) == f.value[1] \in {"num", "flag", "set"} /\ IsFiniteSet(f.evidence)

EvidenceRecord(e) ==
    /\ e.lower \in Int /\ e.upper \in Int
    /\ e.lower = None <=> e.upper = None
    /\ e.lower <= e.upper

RawCandidateRecord(r) ==
    /\ {r.id, r.seller, r.product, r.edition, r.region, r.offer} \cup r.requires \subseteq Int
    /\ r.version \in Nat \ {0}
    /\ r.status \in {"PUBLISHED", "REVOKED", "SUPERSEDED"}
    /\ r.authority \in DOMAIN AuthorityRank
    /\ r.available \in BOOLEAN
    /\ IsFiniteSet(r.requires) /\ IsFiniteSet(r.facts) /\ \A f \in r.facts : ProductFact(f)

\* Only an action that is paid for carries the transaction fee.
OfferCost(o) ==
    /\ {o.low, o.base, o.high} \subseteq Int
    /\ o.horizon >= 1
    /\ ~o.payment => \A i \in DOMAIN o.items : ~o.items[i].fee

RecallPolicy(p) == p.on => p.regions # {}

EvidencePolicy(p) == p.sla \in Nat \ {0}

Predicate(p) ==
    p.op \in {"eq", "neq", "in", "contains_all", "lte", "lt", "gte", "gt", "exists"}

CandidateStatus == {"ELIGIBLE", "ELIGIBLE_WITH_EXCEPTION", "CONDITIONAL", "SIRA_INELIGIBLE",
                    "SEIL_PASS", "UNAVAILABLE", "STALE_EVIDENCE", "INSUFFICIENT_EVIDENCE",
                    "CONFLICTING_EVIDENCE", "AUTHORITY_REQUIRED", "ADVISORY_ONLY"}

GateRule(g) ==
    /\ g.predicates # {} /\ \A p \in g.predicates : Predicate(p)
    /\ g.mode \in {"REQUIRE_MATCH", "BLOCK_ON_MATCH"}
    /\ g.blocked \in CandidateStatus
    /\ g.actions \subseteq Actions

CriterionFields == {"id", "field", "weight", "coverageWeight", "normalization", "expected",
                    "sources", "actions", "points", "unknown", "prior", "resolvable",
                    "aggregation"}

\* The declared satisfactions are the parts of Unit.
PreferenceCriterion(c) ==
    /\ c = [x \in CriterionFields |-> c[x]]
    /\ c.id \in Int /\ c.weight \in 1..5 /\ c.coverageWeight \in 1..5
    /\ c.normalization \in {"BOOLEAN_EQUALS", "SET_CONTAINS_ALL", "LOWER_IS_BETTER", "OUTCOME_RATE"}
    /\ c.aggregation \in {"PRIMARY_COMPONENT", "ALL", "ANY", "MIN", "MAX", "SUM", "UNION"}
    /\ c.unknown \in {None} \cup 0..Unit
    /\ c.prior \in {None} \cup 0..Unit
    /\ IsFiniteSet(c.points) /\ \A p \in c.points : p.maximum \in Int /\ p.sat \in 0..Unit
    /\ c.normalization = "LOWER_IS_BETTER" => c.points # {}
    /\ c.normalization = "SET_CONTAINS_ALL" => c.expected[1] = "set"
    /\ c.normalization = "OUTCOME_RATE" => c.prior # None

RiskBounds(b) == {b.low, b.base, b.high} \subseteq 0..3 /\ b.low <= b.base /\ b.base <= b.high

\* The bounds for a missing input are all given or all left out.
RiskRule(r) ==
    /\ r.actions # {}
    /\ RiskBounds(r.risk)
    /\ RiskBounds(r.missing) \/ {r.missing.low, r.missing.base, r.missing.high} = {None}

CurrentActionRecord(a) ==
    /\ a.id \in Int /\ a.instance \in Int
    /\ a.action \in Actions
    /\ OfferCost(a.cost)
    /\ IsFiniteSet(a.facts) /\ \A f \in a.facts : ProductFact(f)

OutcomeObservation(o) == o.value \in 0..Unit /\ IsFiniteSet(o.evidence)

Collections == {"facts", "records", "offers", "evidence", "evidencePolicies", "gates",
                "preferences", "riskRules", "current", "outcomes"}

InputFields == Collections \cup {"now", "removed", "policy", "aliases", "riskComplete"}

DecisionGraphInput(in) ==
    /\ in = [x \in InputFields |-> in[x]]
    /\ in.now \in Int
    /\ \A x \in Collections : IsFiniteSet(in[x])
    /\ IsFiniteSet(DOMAIN in.aliases) /\ \A x \in DOMAIN in.aliases : in.aliases[x] \in Int
    /\ \A f \in in.facts : FrozenFact(f)
    /\ \A r \in in.records : RawCandidateRecord(r)
    /\ \A o \in in.offers : o.id \in Int /\ OfferCost(o)
    /\ \A e \in in.evidence : EvidenceRecord(e)
    /\ \A p \in in.evidencePolicies : EvidencePolicy(p)
    /\ \A g \in in.gates : GateRule(g)
    /\ \A c \in in.preferences : PreferenceCriterion(c)
    /\ \A r \in in.riskRules : RiskRule(r)
    /\ \A a \in in.current : CurrentActionRecord(a)
    /\ \A o \in in.outcomes : OutcomeObservation(o)
    /\ RecallPolicy(in.policy)
    /\ \A group \in {in.facts, in.records, in.offers, in.evidence, in.gates, in.preferences,
                     in.riskRules, in.current} : Unique(group, LAMBDA x : x.id)
    /\ Unique(in.evidencePolicies, LAMBDA p : p.field)

\* How exact the whole numbers of the model are: no quotient it takes on this input leaves a
\* remainder, so nothing is lost of the Fractions the code computes with.
Precise(in) ==
    LET sats == {0, Unit} \cup {o.value : o \in in.outcomes}
                  \cup UNION {{c.unknown, c.prior} \cup {p.sat : p \in c.points} : c \in in.preferences}
        covering(criteria) == SumFunction([c \in criteria |-> c.coverageWeight])
        scored(action) == {c \in in.preferences : c.actions = {} \/ action \in c.actions}
    IN  /\ \A p \in in.evidencePolicies : Unit % p.sla = 0
        /\ \A action \in {"REPLACE"} \cup {a.action : a \in in.current} :
              \A criteria \in SUBSET scored(action) : criteria # {} =>
                  /\ \A s \in sats \ {None} : (100 * s) % TotalWeight(criteria) = 0
                  /\ Unit % covering(criteria) = 0
=============================================================================
