---------------------------- MODULE PlanRanking ----------------------------
(***************************************************************************)
(* The exact ordering of Solution Plans and its robustness                 *)
(* (decision_engine/bounds.py and graph_v1._rank_and_frontiers).           *)
(*                                                                         *)
(* The code computes with Fractions.  Here every ratio is the integer      *)
(* number of 1/Unit parts; Unit is a common multiple of the denominators   *)
(* that occur, so no precision is lost (PrecisionAssumption).  A plan id    *)
(* is a content hash of the action and the ordered components, an          *)
(* injective function of stable_action_ids, so one field `id`, a sequence  *)
(* of numbers ordered as the strings are, stands for both.                 *)
(***************************************************************************)
EXTENDS Integers, FiniteSets, Sequences, FiniteSetsExt

CONSTANT Unit

ASSUME UnitAssumption == Unit \in Nat \ {0}

TotalWeight(criteria) == SumFunction([c \in criteria |-> c.weight])

\* 100 times the weighted mean satisfaction, at its two ends.
aggregate_preference_bounds(criteria) ==
    LET mean(end) == (100 * SumFunction([c \in criteria |-> c.weight * c.sat[end]]))
                       \div TotalWeight(criteria)
    IN  [low |-> mean("low"), high |-> mean("high")]

\* The weight of the covered criteria over the weight of all; full when there are none.
aggregate_coverage_bounds(criteria) ==
    LET covered(end) == SumFunction([c \in criteria |-> IF c[end] THEN c.weight ELSE 0])
        share(end) == (Unit * covered(end)) \div TotalWeight(criteria)
    IN  IF criteria = {}
        THEN [low |-> Unit, high |-> Unit]
        ELSE [low |-> share("conservative"), high |-> share("optimistic")]

aggregate_risk_bounds(components) ==
    [end \in {"low", "base", "high"} |-> Max({c[end] : c \in components})]

aggregate_evidence_age_bounds(ages) ==
    IF ages = {} THEN [low |-> 0, high |-> 0]
    ELSE [end \in {"low", "high"} |-> Max({a[end] : a \in ages})]

\* Python's comparison of tuples: the first difference decides, a proper prefix is less.
LexLess(a, b) ==
    \E i \in 1..Len(b) :
        /\ i <= Len(a) + 1
        /\ \A j \in 1..(i - 1) : a[j] = b[j]
        /\ i <= Len(a) => a[i] < b[i]

Eligible == {"ELIGIBLE", "ELIGIBLE_WITH_EXCEPTION"}

status_rank(p) == IF p.status = "ELIGIBLE" THEN 0 ELSE 1

\* The tuple the plans are sorted by, for given values of the five quantities.
KeyAt(p, preference, risk, cost, coverage, age) ==
    <<status_rank(p), -preference, risk, cost, -coverage, age>> \o p.id

authoritative_ordering_key(p) ==
    LET b == p.bounds
    IN  KeyAt(p, b.preference.low, b.risk.base, b.cost.base, b.coverage.low, b.age.high)

\* Mutant of conservative_envelope_key: the base risk instead of the worst.
conservative_envelope_key_at_base(p) ==
    LET b == p.bounds
    IN  KeyAt(p, b.preference.low, b.risk.base, b.cost.high, b.coverage.low, b.age.high)

conservative_envelope_key(p) ==
    LET b == p.bounds
    IN  KeyAt(p, b.preference.low, b.risk.high, b.cost.high, b.coverage.low, b.age.high)

optimistic_envelope_key(p) ==
    LET b == p.bounds
    IN  KeyAt(p, b.preference.high, b.risk.low, b.cost.low, b.coverage.high, b.age.low)

\* UNDETERMINED as soon as one plan has no bounds; otherwise the frontier is the competitors
\* whose best case beats the worst case of the selection.
assess_rank_stability(selected, competitors) ==
    LET unavailable == {p.id : p \in {q \in competitors \cup {selected} : ~q.bounded}}
        frontier == {p.id : p \in {q \in competitors :
                        LexLess(optimistic_envelope_key(q), conservative_envelope_key(selected))}}
    IN  IF unavailable # {}
        THEN [status |-> "UNDETERMINED", frontier |-> {}, unavailable |-> unavailable]
        ELSE [status |-> IF frontier = {} THEN "STABLE" ELSE "UNSTABLE",
              frontier |-> frontier, unavailable |-> {}]

\* The orderings a plan can really have: every dimension at one of its ends.
Realisations(p) ==
    LET b == p.bounds
        ends(q) == {q.low, q.high}
    IN  {KeyAt(p, u, r, c, v, a) :
           u \in ends(b.preference), r \in ends(b.risk), c \in ends(b.cost),
           v \in ends(b.coverage), a \in ends(b.age)}

\* Two plans may share an id (two editions of one product): Python's sort is stable, so the
\* order in which the plans were built, by source, decides between them.
RanksBefore(p, q) ==
    LET kp == authoritative_ordering_key(p)
        kq == authoritative_ordering_key(q)
    IN  LexLess(kp, kq) \/ (kp = kq /\ LexLess(p.src, q.src))

EligiblePlans(plans) == {p \in plans : p.status \in Eligible}

Rankable(plans) == {p \in EligiblePlans(plans) : p.bounded}

\* Plans priced in different currencies or over different horizons cannot be ordered: the
\* code raises.
Incomparable(plans) == Cardinality({p.signature : p \in Rankable(plans)}) > 1

\* What the plans of an evaluation are: a plan that can be ranked has bounds in order, and
\* no two plans are built from one source.
IsPlan(p) ==
    /\ p.id \in Seq(Int) /\ p.src \in Seq(Int)
    /\ p.bounded =>
         /\ \A d \in {"preference", "risk", "cost", "coverage", "age"} :
              p.bounds[d].low \in Int /\ p.bounds[d].high \in Int /\ p.bounds[d].low <= p.bounds[d].high
         /\ p.bounds.risk.base \in p.bounds.risk.low..p.bounds.risk.high
         /\ p.bounds.cost.base \in p.bounds.cost.low..p.bounds.cost.high

ArePlans(plans) ==
    /\ IsFiniteSet(plans) /\ \A p \in plans : IsPlan(p)
    /\ \A p, q \in plans : p.id = q.id /\ p.src = q.src => p = q

RankOf(plans, p) == 1 + Cardinality({q \in Rankable(plans) : RanksBefore(q, p)})

ranked_ids(plans) ==
    [n \in 1..Cardinality(Rankable(plans)) |->
        (CHOOSE p \in Rankable(plans) : RankOf(plans, p) = n).id]

Selection(plans) == CHOOSE p \in Rankable(plans) : RankOf(plans, p) = 1

\* Every eligible plan with another id has bounds and loses to the selection however the
\* uncertain quantities of both turn out.
FirstHoweverItTurnsOut(plans) ==
    LET selected == Selection(plans)
    IN  \A p \in {q \in EligiblePlans(plans) : q.id # selected.id} :
            /\ p.bounded
            /\ \A x \in Realisations(selected), y \in Realisations(p) : LexLess(x, y)

QuoteActions == {"BUY", "RENEW", "RESIZE", "REPLACE", "CONSOLIDATE"}
AutonomousActions == {"REUSE_EXISTING", "NO_ACTION"}

\* Ranking, rank stability, the two frontiers and what they mean for each plan.
rank_and_frontiers(plans) ==
    LET eligible == EligiblePlans(plans)
        order == ranked_ids(plans)
        some == order # <<>>
        selected == Selection(plans)
        stability == IF some
            THEN assess_rank_stability(selected, {p \in eligible : p.id # selected.id})
            ELSE [status |-> "UNDETERMINED", frontier |-> {},
                  unavailable |-> {p.id : p \in {q \in eligible : ~q.bounded}}]
        frontier == stability.frontier \cup (IF some THEN {selected.id} ELSE {})
        resolution == {p.id : p \in {q \in plans :
            /\ some /\ q.lifecycle = "RESOLUTION_PENDING" /\ q.resolution # {} /\ q.bounded
            /\ LexLess(optimistic_envelope_key([q EXCEPT !.status = "ELIGIBLE"]),
                       conservative_envelope_key(selected))}}
        reason(p) == CASE some /\ p.id = selected.id -> "SELECTED_PLAN"
                       [] p.id \in frontier -> "ORDERING_FRONTIER"
                       [] p.id \in resolution -> "RESOLUTION_FRONTIER"
                       [] \E n \in 1..3 : n <= Len(order) /\ order[n] = p.id ->
                              "PRELIMINARY_TOP_THREE"
                       [] OTHER -> "NONE"
        marks(p) == [id |-> p.id, src |-> p.src,
                     ordering |-> p.id \in frontier,
                     resolution |-> p.id \in resolution,
                     quote |-> reason(p) # "NONE" /\ p.action \in QuoteActions,
                     autonomous |-> /\ p.lifecycle = "EXECUTABLE"
                                    /\ stability.status = "STABLE"
                                    /\ ~p.payment
                                    /\ p.action \in AutonomousActions]
    IN  [ranked |-> order,
         selected |-> IF some THEN selected.id ELSE <<>>,
         stability |-> stability.status,
         frontier |-> frontier,
         unavailable |-> stability.unavailable,
         marks |-> {marks(p) : p \in plans}]
=============================================================================
