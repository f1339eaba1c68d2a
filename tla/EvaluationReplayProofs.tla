----------------------- MODULE EvaluationReplayProofs -----------------------
(***************************************************************************)
(* Theorems of the decision engine (DecisionGraph) and of the requests     *)
(* about its stored decision (EvaluationReplay): IInv is an inductive      *)
(* invariant of both, and types, stability, minimal counterfactuals, exact *)
(* replays, writes refused only as repetitions and the proof behind every  *)
(* eligible plan follow from it.                                           *)
(***************************************************************************)
EXTENDS EvaluationReplay, SolutionPlansProofs

(***************************************************************************)
(* One evaluation.                                                         *)
(***************************************************************************)
FrozenAssessments(in) == assess_evidence(in, recall_and_deduplicate(in))
FrozenPlans(in) == build_solution_plans(in, recall_and_deduplicate(in), FrozenAssessments(in))

\* Neither the assessment nor the building of plans raises.
Sound(in) == /\ ~AssessmentRaises(in, recall_and_deduplicate(in))
             /\ ~BuildRaises(in, recall_and_deduplicate(in))

\* The evaluation of an input, by its stages.
LEMMA EvaluationParts ==
  ASSUME NEW in
  PROVE  evaluate_decision_graph_once(in) =
           [recall |-> recall_and_deduplicate(in), assessments |-> FrozenAssessments(in),
            plans |-> FrozenPlans(in), rank |-> rank_and_frontiers(FrozenPlans(in))]
  BY DEF evaluate_decision_graph_once, Assessed, Planned, Ranked, FrozenAssessments, FrozenPlans

\* The assessments of an input that does not raise are finite and typed.
LEMMA AssessedType ==
  ASSUME NEW in, DecisionGraphInput(in), ~AssessmentRaises(in, recall_and_deduplicate(in))
  PROVE  IsFiniteSet(FrozenAssessments(in)) /\ \A a \in FrozenAssessments(in) : IsAssessment(a)
  BY RecallType, AssessmentsType DEF FrozenAssessments

\* The plans of an input that does not raise are what the ranking is about.
LEMMA EvaluatedPlans ==
  ASSUME NEW in, DecisionGraphInput(in), Sound(in)
  PROVE  /\ ArePlans(FrozenPlans(in)) /\ \A p \in FrozenPlans(in) : IsBuilt(p)
         /\ \A p, q \in FrozenPlans(in) : p.src = q.src => p = q
<1>1. IsRecall(recall_and_deduplicate(in))
  BY RecallType
<1>2. ~BuildRaises(in, recall_and_deduplicate(in))
  BY DEF Sound
<1>3. IsFiniteSet(FrozenAssessments(in)) /\ \A a \in FrozenAssessments(in) : IsAssessment(a)
  BY AssessedType DEF Sound
<1> QED
  BY <1>1, <1>2, <1>3, PlansBuilt DEF FrozenPlans

\* Something is ranked exactly when something is selected, and that is one of the plans.
LEMMA SomethingSelected ==
  ASSUME NEW plans, ArePlans(plans), \A p \in plans : IsBuilt(p)
  PROVE  LET rank == rank_and_frontiers(plans)
         IN  /\ rank.ranked # <<>> <=> Rankable(plans) # {}
             /\ rank.selected # <<>> <=> Rankable(plans) # {}
             /\ Rankable(plans) # {} =>
                  Selection(plans) \in Rankable(plans) /\ rank.selected = Selection(plans).id
<1> DEFINE rank == rank_and_frontiers(plans)
           order == ranked_ids(plans)
<1>1. IsFiniteSet(Rankable(plans))
  BY RankablePlans
<1>2. Cardinality(Rankable(plans)) \in Nat /\ (Cardinality(Rankable(plans)) = 0 <=> Rankable(plans) = {})
  BY <1>1, FS_CardinalityType, FS_EmptySet
<1>3. order # <<>> <=> Rankable(plans) # {}
  <2>1. DOMAIN order = 1 .. Cardinality(Rankable(plans))
    BY DEF ranked_ids
  <2>2. ASSUME Rankable(plans) # {} PROVE order # <<>>
    <3>1. 1 \in DOMAIN order
      BY <1>2, <2>1, <2>2
    <3>2. 1 \notin DOMAIN <<>>
      OBVIOUS
    <3> QED
      BY <3>1, <3>2
  <2>3. ASSUME Rankable(plans) = {} PROVE order = <<>>
    <3>1. 1 .. Cardinality(Rankable(plans)) = {}
      BY <1>2, <2>3
    <3> QED
      BY <3>1 DEF ranked_ids
  <2> QED
    BY <2>2, <2>3
<1>4. rank.ranked = order
  BY DEF rank_and_frontiers
<1>5. rank.selected = IF order # <<>> THEN Selection(plans).id ELSE <<>>
  BY DEF rank_and_frontiers
<1>6. ASSUME Rankable(plans) # {}
      PROVE  Selection(plans) \in Rankable(plans) /\ Selection(plans).id # <<>>
  <2>1. Selection(plans) \in Rankable(plans)
    BY <1>6, SelectionIsFirst
  <2>2. IsBuilt(Selection(plans))
    BY <2>1 DEF Rankable, EligiblePlans
  <2> DEFINE s == Selection(plans)
  <2> HIDE DEF s
  <2>3. /\ s.id = _plan_id(s.action, s.components) /\ s.components \in Seq(Int)
        /\ s.action \in {ActionNames[n] : n \in DOMAIN ActionNames}
    BY <2>2 DEF IsBuilt, s
  <2>4. Len(s.id) = Len(s.components) + 1
    <3> DEFINE a == s.action  c == s.components
    <3>1. a \in {ActionNames[n] : n \in DOMAIN ActionNames} /\ c \in Seq(Int)
      BY <2>3
    <3> HIDE DEF a, c
    <3>2. Len(_plan_id(a, c)) = Len(c) + 1
      BY <3>1, PlanIdType
    <3> QED
      BY <2>3, <3>2 DEF a, c
  <2>5. s.id # <<>>
    <3>1. Len(s.components) \in Nat /\ Len(<<>>) = 0
      BY <2>3
    <3> QED
      BY <2>4, <3>1
  <2> QED
    BY <2>1, <2>5 DEF s
<1> HIDE DEF rank, order
<1> QED
  BY <1>3, <1>4, <1>5, <1>6 DEF rank

(***************************************************************************)
(* The base evaluation, filled stage by stage.                             *)
(***************************************************************************)
AfterRecall(in) == [recall |-> recall_and_deduplicate(in), assessments |-> {}, plans |-> {},
                    rank |-> NoRank]
AfterAssessment(in) == [recall |-> recall_and_deduplicate(in), assessments |-> FrozenAssessments(in),
                        plans |-> {}, rank |-> NoRank]
AfterPlanning(in) == [recall |-> recall_and_deduplicate(in), assessments |-> FrozenAssessments(in),
                      plans |-> FrozenPlans(in), rank |-> NoRank]

\* However far the base evaluation came, and wherever it stopped, it holds the stages' results.
BaseOK ==
    \/ base = NoEvaluation
    \/ base = AfterRecall(input)
    \/ base = AfterAssessment(input) /\ ~AssessmentRaises(input, recall_and_deduplicate(input))
    \/ base = AfterPlanning(input) /\ Sound(input)
    \/ base = evaluate_decision_graph_once(input) /\ Sound(input)

\* What the stage says of the evaluation.
StageOK ==
    /\ stage = "recall" => base = NoEvaluation
    /\ stage = "assess" => base = AfterRecall(input)
    /\ stage = "plan" => /\ base = AfterAssessment(input)
                         /\ ~AssessmentRaises(input, recall_and_deduplicate(input))
    /\ stage = "rank" => base = AfterPlanning(input) /\ Sound(input)
    /\ stage \in {"generic", "search", "ledger", "persist"} =>
         base = evaluate_decision_graph_once(input) /\ Sound(input)

\* What is built of the base evaluation, at every stage.
LEMMA BaseParts ==
  ASSUME DecisionGraphInput(input), BaseOK
  PROVE  /\ IsFiniteSet(base.assessments) /\ \A a \in base.assessments : IsAssessment(a)
         /\ base.plans = {} \/ (base.plans = FrozenPlans(input) /\ Sound(input))
         /\ base.rank = NoRank \/ (/\ base.plans = FrozenPlans(input) /\ Sound(input)
                                   /\ base.rank = rank_and_frontiers(FrozenPlans(input)))
<1>1. CASE base = NoEvaluation
  BY <1>1, FS_EmptySet DEF NoEvaluation
<1>2. CASE base = AfterRecall(input)
  BY <1>2, FS_EmptySet DEF AfterRecall
<1>3. CASE base = AfterAssessment(input) /\ ~AssessmentRaises(input, recall_and_deduplicate(input))
  <2>1. base.assessments = FrozenAssessments(input) /\ base.plans = {} /\ base.rank = NoRank
    BY <1>3 DEF AfterAssessment
  <2> QED
    BY <1>3, <2>1, AssessedType
<1>4. CASE base = AfterPlanning(input) /\ Sound(input)
  <2>1. base.assessments = FrozenAssessments(input) /\ base.plans = FrozenPlans(input) /\ base.rank = NoRank
    BY <1>4 DEF AfterPlanning
  <2> QED
    BY <1>4, <2>1, AssessedType DEF Sound
<1>5. CASE base = evaluate_decision_graph_once(input) /\ Sound(input)
  <2>1. /\ base.assessments = FrozenAssessments(input) /\ base.plans = FrozenPlans(input)
        /\ base.rank = rank_and_frontiers(FrozenPlans(input))
    BY <1>5, EvaluationParts
  <2> QED
    BY <1>5, <2>1, AssessedType DEF Sound
<1> QED
  BY <1>1, <1>2, <1>3, <1>4, <1>5 DEF BaseOK

\* One step of a stage.
LEMMA StageKeeps ==
  ASSUME BaseOK, StageOK,
         \/ RecallAndDeduplicate \/ AssessEvidence \/ BuildSolutionPlans \/ RankAndFrontiers
  PROVE  BaseOK' /\ StageOK' /\ input' = input
<1>1. ASSUME NEW from, NEW to, NEW raises, NEW field, NEW result, Stage(from, to, raises, field, result),
             to \in {"assess", "plan", "rank", "generic"}
      PROVE  /\ input' = input
             /\ \/ stage' = "failed" /\ base' = base
                \/ ~raises /\ stage' = to /\ base' = [base EXCEPT ![field] = result]
  BY <1>1 DEF Stage
<1>2. ASSUME stage' = "failed", base' = base, input' = input PROVE BaseOK' /\ StageOK'
  BY <1>2 DEF BaseOK, StageOK
<1>3. CASE RecallAndDeduplicate
  <2>1. stage = "recall" /\ Stage("recall", "assess", RecallRaises(input), "recall", recall_and_deduplicate(input))
    BY <1>3 DEF RecallAndDeduplicate, Stage
  <2>2. input' = input
    BY <1>1, <2>1
  <2>3. CASE stage' = "assess" /\ base' = [base EXCEPT !["recall"] = recall_and_deduplicate(input)]
    <3>1. base' = AfterRecall(input)
      <4>1. base = NoEvaluation
        BY <2>1 DEF StageOK
      <4>2. ASSUME NEW r, NEW x, NEW k
            PROVE  [[recall |-> r, assessments |-> {}, plans |-> {}, rank |-> k] EXCEPT !["recall"] = x]
                     = [recall |-> x, assessments |-> {}, plans |-> {}, rank |-> k]
        OBVIOUS
      <4> QED
        BY <2>3, <4>1, <4>2 DEF NoEvaluation, AfterRecall
    <3> QED
      BY <2>2, <2>3, <3>1 DEF BaseOK, StageOK
  <2> QED
    BY <1>1, <1>2, <2>1, <2>2, <2>3
<1>4. CASE AssessEvidence
  <2>1. /\ stage = "assess" /\ base = AfterRecall(input)
        /\ Stage("assess", "plan", AssessmentRaises(input, base.recall), "assessments",
                 assess_evidence(input, base.recall))
    BY <1>4 DEF AssessEvidence, Stage, StageOK
  <2>2. input' = input
    BY <1>1, <2>1
  <2>3. base.recall = recall_and_deduplicate(input)
    BY <2>1 DEF AfterRecall
  <2>4. CASE /\ stage' = "plan" /\ ~AssessmentRaises(input, base.recall)
             /\ base' = [base EXCEPT !["assessments"] = assess_evidence(input, base.recall)]
    <3>1. base' = AfterAssessment(input) /\ ~AssessmentRaises(input, recall_and_deduplicate(input))
      BY <2>1, <2>3, <2>4 DEF AfterRecall, AfterAssessment, FrozenAssessments
    <3> QED
      BY <2>2, <2>4, <3>1 DEF BaseOK, StageOK
  <2> QED
    BY <1>1, <1>2, <2>1, <2>2, <2>4
<1>5. CASE BuildSolutionPlans
  <2>1. /\ stage = "plan" /\ base = AfterAssessment(input)
        /\ ~AssessmentRaises(input, recall_and_deduplicate(input))
        /\ Stage("plan", "rank", BuildRaises(input, base.recall), "plans",
                 build_solution_plans(input, base.recall, base.assessments))
    BY <1>5 DEF BuildSolutionPlans, Stage, StageOK
  <2>2. input' = input
    BY <1>1, <2>1
  <2>3. base.recall = recall_and_deduplicate(input) /\ base.assessments = FrozenAssessments(input)
    BY <2>1 DEF AfterAssessment
  <2>4. CASE /\ stage' = "rank" /\ ~BuildRaises(input, base.recall)
             /\ base' = [base EXCEPT !["plans"] = build_solution_plans(input, base.recall, base.assessments)]
    <3>1. base' = AfterPlanning(input)
      BY <2>1, <2>3, <2>4 DEF AfterAssessment, AfterPlanning, FrozenPlans
    <3>2. Sound(input)
      BY <2>1, <2>3, <2>4 DEF Sound
    <3> QED
      BY <2>2, <2>4, <3>1, <3>2 DEF BaseOK, StageOK
  <2> QED
    BY <1>1, <1>2, <2>1, <2>2, <2>4
<1>6. CASE RankAndFrontiers
  <2>1. /\ stage = "rank" /\ base = AfterPlanning(input) /\ Sound(input)
        /\ Stage("rank", "generic", Incomparable(base.plans), "rank", rank_and_frontiers(base.plans))
    BY <1>6 DEF RankAndFrontiers, Stage, StageOK
  <2>2. input' = input
    BY <1>1, <2>1
  <2>3. base.plans = FrozenPlans(input)
    BY <2>1 DEF AfterPlanning
  <2>4. CASE /\ stage' = "generic" /\ base' = [base EXCEPT !["rank"] = rank_and_frontiers(base.plans)]
    <3>1. base' = evaluate_decision_graph_once(input)
      BY <2>1, <2>3, <2>4, EvaluationParts DEF AfterPlanning
    <3> QED
      BY <2>1, <2>2, <2>4, <3>1 DEF BaseOK, StageOK
  <2> QED
    BY <1>1, <1>2, <2>1, <2>2, <2>4
<1> QED
  BY <1>3, <1>4, <1>5, <1>6

\* The stages of an evaluation and of its write.
StageNames == {"recall", "assess", "plan", "rank", "generic", "search", "ledger",
            "persist", "written", "failed", "conflict"}

\* Whatever stage the evaluation has reached, what it holds is typed.
LEMMA BaseIsTyped ==
  ASSUME DecisionGraphInput(input), BaseOK, stage \in StageNames
  PROVE  EngineTypeOK
<1>1. \A a \in base.assessments : a.age.low <= a.age.high
  BY BaseParts DEF IsAssessment
<1>2. CASE base.plans = {}
  <2>1. ArePlans(base.plans)
    BY <1>2, FS_EmptySet DEF ArePlans
  <2> QED
    BY <1>1, <1>2, <2>1 DEF EngineTypeOK, StageNames
<1>3. CASE base.plans = FrozenPlans(input) /\ Sound(input)
  <2>1. ArePlans(base.plans) /\ \A p \in base.plans : IsBuilt(p)
    BY <1>3, EvaluatedPlans
  <2>2. \A p \in base.plans : \A c \in p.scores :
           0 <= c.sat.low /\ c.sat.low <= c.sat.high /\ c.sat.high <= Unit
    BY <2>1, UnitAssumption DEF IsBuilt, IsScore, IsSat
  <2> QED
    BY <1>1, <2>1, <2>2 DEF EngineTypeOK, StageNames
<1> QED
  BY <1>2, <1>3, BaseParts

\* Whatever stage the evaluation has reached, STABLE means first however it turns out.
LEMMA BaseIsStable ==
  ASSUME DecisionGraphInput(input), BaseOK
  PROVE  StableMeansFirst
<1>1. CASE base.rank = NoRank
  BY <1>1 DEF StableMeansFirst, NoRank
<1>2. CASE /\ base.plans = FrozenPlans(input) /\ Sound(input)
           /\ base.rank = rank_and_frontiers(FrozenPlans(input))
  <2> SUFFICES ASSUME base.rank.ranked # <<>>
               PROVE  base.rank.stability = "STABLE" <=> FirstHoweverItTurnsOut(base.plans)
    BY DEF StableMeansFirst
  <2>1. ArePlans(FrozenPlans(input)) /\ \A p \in FrozenPlans(input) : IsBuilt(p)
    BY <1>2, EvaluatedPlans
  <2>2. Rankable(FrozenPlans(input)) # {}
    BY <1>2, <2>1, SomethingSelected
  <2> QED
    BY <1>2, <2>1, <2>2, StableIsFirst
<1> QED
  BY <1>1, <1>2, BaseParts

(***************************************************************************)
(* The order of the candidate sets of facts.                               *)
(***************************************************************************)
LEMMA ListedTransitive ==
  ASSUME NEW s \in SUBSET Int, NEW t \in SUBSET Int, NEW u \in SUBSET Int,
         ListedBefore(s, t), ListedBefore(t, u)
  PROVE  ListedBefore(s, u)
<1>1. PICK x \in s \ t : \A z \in t \ s : x < z
  BY DEF ListedBefore
<1>2. PICK y \in t \ u : \A z \in u \ t : y < z
  BY DEF ListedBefore
<1>3. x \in Int /\ y \in Int /\ x # y
  OBVIOUS
<1>4. CASE x < y
  <2>1. x \notin u
    <3> SUFFICES ASSUME x \in u PROVE FALSE
      OBVIOUS
    <3>1. y < x
      BY <1>2
    <3> QED
      BY <1>3, <1>4, <3>1
  <2>2. ASSUME NEW z \in u \ s PROVE x < z
    <3>1. z \in Int
      OBVIOUS
    <3>2. CASE z \in t
      BY <1>1, <3>2
    <3>3. CASE z \notin t
      <4>1. y < z
        BY <1>2, <3>3
      <4> QED
        BY <1>3, <1>4, <3>1, <4>1
    <3> QED
      BY <3>2, <3>3
  <2> QED
    BY <2>1, <2>2 DEF ListedBefore
<1>5. CASE y < x
  <2>1. y \in s
    <3> SUFFICES ASSUME y \notin s PROVE FALSE
      OBVIOUS
    <3>1. x < y
      BY <1>1
    <3> QED
      BY <1>3, <1>5, <3>1
  <2>2. ASSUME NEW z \in u \ s PROVE y < z
    <3>1. z \in Int
      OBVIOUS
    <3>2. CASE z \in t
      <4>1. x < z
        BY <1>1, <3>2
      <4> QED
        BY <1>3, <1>5, <3>1, <4>1
    <3>3. CASE z \notin t
      BY <1>2, <3>3
    <3> QED
      BY <3>2, <3>3
  <2> QED
    BY <2>1, <2>2 DEF ListedBefore
<1> QED
  BY <1>3, <1>4, <1>5

\* Of two different sets of facts one is listed before the other.
LEMMA ListedTotal ==
  ASSUME NEW s \in SUBSET Int, NEW t \in SUBSET Int, IsFiniteSet(s), IsFiniteSet(t), s # t
  PROVE  ListedBefore(s, t) \/ ListedBefore(t, s)
<1> DEFINE D == (s \ t) \cup (t \ s)
<1>1. D # {} /\ D \in SUBSET Int /\ D \in SUBSET (s \cup t)
  OBVIOUS
<1>2. IsFiniteSet(s \cup t)
  BY FS_Union
<1> DEFINE x == Min(D)
<1>3. x \in D /\ \A y \in D : x <= y
  <2> HIDE DEF D
  <2>1. IsFiniteSet(D)
    BY <1>1, <1>2, FS_Subset
  <2> QED
    BY <1>1, <2>1, Extrema
<1> HIDE DEF x
<1>4. CASE x \in s \ t
  <2>1. ASSUME NEW y \in t \ s PROVE x < y
    <3>1. x <= y /\ x # y /\ x \in Int /\ y \in Int
      BY <1>3, <1>4
    <3> QED
      BY <3>1
  <2> QED
    BY <1>4, <2>1 DEF ListedBefore
<1>5. CASE x \in t \ s
  <2>1. ASSUME NEW y \in s \ t PROVE x < y
    <3>1. x <= y /\ x # y /\ x \in Int /\ y \in Int
      BY <1>3, <1>5
    <3> QED
      BY <3>1
  <2> QED
    BY <1>5, <2>1 DEF ListedBefore
<1> QED
  BY <1>3, <1>4, <1>5

\* The first of the sets that change the selection.
FirstListed(W) == CHOOSE s \in W : \A t \in W \ {s} : ListedBefore(s, t)

\* Finitely many sets of facts have a first one in the listing.
LEMMA FirstListedExists ==
  ASSUME NEW W, IsFiniteSet(W), W # {}, \A s \in W : s \in SUBSET Int /\ IsFiniteSet(s)
  PROVE  FirstListed(W) \in W
<1> DEFINE first(s, V) == \A t \in V \ {s} : ListedBefore(s, t)
           P == {V \in SUBSET W : V # {} => \E s \in V : first(s, V)}
<1>1. {} \in P
  OBVIOUS
<1>2. ASSUME NEW V \in P, NEW x \in W \ V PROVE V \cup {x} \in P
  <2> SUFFICES \E s \in V \cup {x} : first(s, V \cup {x})
    OBVIOUS
  <2>1. CASE V = {}
    BY <2>1
  <2>2. CASE V # {}
    <3>1. PICK s \in V : first(s, V)
      BY <2>2
    <3>2. V \in SUBSET W /\ x # s
      OBVIOUS
    <3>3. ListedBefore(s, x) \/ ListedBefore(x, s)
      BY <3>1, <3>2, ListedTotal
    <3>4. CASE ListedBefore(s, x)
      <4>1. first(s, V \cup {x})
        BY <3>1, <3>4
      <4> QED
        BY <4>1
    <3>5. CASE ListedBefore(x, s)
      <4>1. \A t \in V : ListedBefore(x, t)
        <5> SUFFICES ASSUME NEW t \in V PROVE ListedBefore(x, t)
          OBVIOUS
        <5>1. CASE t = s
          BY <3>5, <5>1
        <5>2. CASE t # s
          <6>1. ListedBefore(s, t)
            BY <3>1, <5>2
          <6>2. x \in SUBSET Int /\ s \in SUBSET Int /\ t \in SUBSET Int
            BY <3>2
          <6> QED
            BY <3>5, <6>1, <6>2, ListedTransitive
        <5> QED
          BY <5>1, <5>2
      <4>2. first(x, V \cup {x})
        BY <4>1
      <4> QED
        BY <4>2
    <3> QED
      BY <3>3, <3>4, <3>5
  <2> QED
    BY <2>1, <2>2
<1>3. W \in P
  <2>1. P \in SUBSET SUBSET W
    OBVIOUS
  <2> HIDE DEF P
  <2> QED
    BY <1>1, <1>2, <2>1, FiniteSubsetInduction
<1>4. \E s \in W : \A t \in W \ {s} : ListedBefore(s, t)
  BY <1>3
<1> QED
  BY <1>4 DEF FirstListed

(***************************************************************************)
(* The search for a counterfactual.                                        *)
(***************************************************************************)
Selects(in) == evaluate_decision_graph_once(in).rank.selected
Changes(in, s) == Selects(Without(in, s)) # Selects(in)
Limit(in) == Min({CounterfactualLimit, Cardinality(PrivateIds(in))})
Winners(in, n) == {s \in SUBSET PrivateIds(in) : Cardinality(s) <= n /\ Changes(in, s)}

\* Every set of fewer than n facts was tried, and none changes the selection.
Reaching(in, n) ==
    /\ n \in Nat /\ n <= Limit(in)
    /\ \A s \in SUBSET PrivateIds(in) : Cardinality(s) < n => ~Changes(in, s)

\* The search ends at n.
Reached(in, n) == Reaching(in, n) /\ (Winners(in, n) # {} \/ n = Limit(in))

\* The cardinality the search ends at.
FoundAt(in) == CHOOSE n \in Nat : Reached(in, n)

\* What the search reports of the sets it found.
Found(in, W) ==
    IF W = {} THEN NoCounterfactual
    ELSE [removed |-> FirstListed(W), alternatives |-> W \ {FirstListed(W)},
          after |-> Rerun(Without(in, FirstListed(W)),
                          evaluate_decision_graph_once(Without(in, FirstListed(W)))),
          gates |-> _changed_gate_ids(evaluate_decision_graph_once(in),
                                      evaluate_decision_graph_once(Without(in, FirstListed(W))))]

CounterfactualOf(in) == Found(in, Winners(in, FoundAt(in)))

Anonymous(in) == Without(in, {f.id : f \in {g \in in.facts : g.private}})
GenericOf(in) == Rerun(Anonymous(in), evaluate_decision_graph_once(Anonymous(in)))

\* The private facts of a buyer are finitely many.
LEMMA PrivateFinite ==
  ASSUME NEW in, DecisionGraphInput(in)
  PROVE  PrivateIds(in) \in SUBSET Int /\ IsFiniteSet(PrivateIds(in))
<1> DEFINE F == {g \in in.facts : g.private /\ g.id \notin in.removed}
           h == [f \in F |-> f.id]
           T == PrivateIds(in)
<1>1. T = {f.id : f \in F}
  BY DEF PrivateIds
<1>2. \A f \in in.facts : f.id \in Int
  BY DEF DecisionGraphInput, FrozenFact
<1>3. F \in SUBSET in.facts
  OBVIOUS
<1>4. IsFiniteSet(F)
  <2> HIDE DEF F
  <2> QED
    BY <1>3, InputFinite, FS_Subset
<1>5. IsFiniteSet(DOMAIN h) /\ \A y \in T : \E x \in DOMAIN h : y = h[x]
  BY <1>1, <1>4
<1>6. T \in SUBSET Int
  BY <1>1, <1>2
<1> HIDE DEF h, T
<1>7. IsFiniteSet(T)
  BY <1>5, FiniteCover
<1> QED
  BY <1>6, <1>7 DEF T

\* The search for a counterfactual ends at the limit or when all facts are removed.
LEMMA LimitType ==
  ASSUME NEW in, DecisionGraphInput(in)
  PROVE  /\ Limit(in) \in Nat /\ Limit(in) <= CounterfactualLimit
         /\ \A s \in SUBSET PrivateIds(in) :
              /\ IsFiniteSet(s) /\ Cardinality(s) \in Nat
              /\ Cardinality(s) <= CounterfactualLimit => Cardinality(s) <= Limit(in)
<1> DEFINE n == Cardinality(PrivateIds(in))  k == CounterfactualLimit  S == {k, n}
<1>1. IsFiniteSet(PrivateIds(in))
  BY PrivateFinite
<1>2. n \in Nat /\ k \in Nat
  BY <1>1, FS_CardinalityType, LimitAssumption
<1>3. \A s \in SUBSET PrivateIds(in) : IsFiniteSet(s) /\ Cardinality(s) \in Nat /\ Cardinality(s) <= n
  BY <1>1, FS_Subset, FS_CardinalityType
<1> HIDE DEF n, k
<1>4. IsFiniteSet(S)
  <2>1. IsFiniteSet({k} \cup {n})
    BY FS_Singleton, FS_Union
  <2>2. S = {k} \cup {n}
    OBVIOUS
  <2> QED
    BY <2>1, <2>2
<1>5. S \in SUBSET Int /\ S # {} /\ k \in S /\ n \in S
  BY <1>2
<1>6. Limit(in) = Min(S)
  BY DEF Limit, n, k
<1>7. Min(S) \in S /\ Min(S) <= k /\ Min(S) <= n
  <2> HIDE DEF S
  <2> QED
    BY <1>4, <1>5, Extrema
<1> QED
  BY <1>2, <1>3, <1>6, <1>7 DEF k

\* Removing nothing changes nothing.
LEMMA WithoutNothing ==
  ASSUME NEW in, DecisionGraphInput(in)
  PROVE  Without(in, {}) = in /\ ~Changes(in, {})
<1>1. in = [x \in InputFields |-> in[x]]
  BY DEF DecisionGraphInput
<1>2. Without(in, {}) = [in EXCEPT !.removed = in.removed]
  BY DEF Without
<1>3. [in EXCEPT !.removed = in.removed] = in
  BY <1>1
<1> QED
  BY <1>2, <1>3 DEF Changes

\* The search ends at one cardinality only.
LEMMA ReachUnique ==
  ASSUME NEW in, DecisionGraphInput(in), NEW n, Reached(in, n)
  PROVE  FoundAt(in) = n
<1>1. ASSUME NEW i, NEW j, Reached(in, i), Reached(in, j), i < j PROVE FALSE
  <2>1. i \in Nat /\ j \in Nat /\ j <= Limit(in) /\ Limit(in) \in Nat
    BY <1>1, LimitType DEF Reached, Reaching
  <2>2. i # Limit(in)
    BY <1>1, <2>1
  <2>3. PICK s \in Winners(in, i) : TRUE
    BY <1>1, <2>2 DEF Reached
  <2>4. s \in SUBSET PrivateIds(in) /\ Cardinality(s) <= i /\ Changes(in, s)
    BY DEF Winners
  <2>5. Cardinality(s) \in Nat
    BY <2>4, LimitType
  <2>6. Cardinality(s) < j
    BY <1>1, <2>1, <2>4, <2>5
  <2> QED
    BY <1>1, <2>4, <2>6 DEF Reached, Reaching
<1>2. n \in Nat
  BY DEF Reached, Reaching
<1>3. FoundAt(in) \in Nat /\ Reached(in, FoundAt(in))
  BY <1>2 DEF FoundAt
<1> QED
  BY <1>1, <1>2, <1>3

\* The search starts, and goes on to the next cardinality.
LEMMA ReachStarts ==
  ASSUME NEW in, DecisionGraphInput(in)
  PROVE  Reaching(in, 0) /\ Winners(in, 0) = {}
<1>1. Limit(in) \in Nat /\ \A s \in SUBSET PrivateIds(in) : IsFiniteSet(s) /\ Cardinality(s) \in Nat
  BY LimitType
<1>2. Winners(in, 0) = {}
  <2> SUFFICES ASSUME NEW s \in SUBSET PrivateIds(in), Cardinality(s) <= 0, Changes(in, s) PROVE FALSE
    BY DEF Winners
  <2>1. Cardinality(s) = 0
    BY <1>1
  <2>2. s = {}
    BY <1>1, <2>1, FS_EmptySet
  <2> QED
    BY <2>2, WithoutNothing
<1> QED
  BY <1>1, <1>2 DEF Reaching

\* One more cardinality tried: the sets that change the selection are those just found.
LEMMA ReachGrows ==
  ASSUME NEW in, DecisionGraphInput(in), NEW n, Reaching(in, n), Winners(in, n) = {}, n < Limit(in)
  PROVE  /\ Reaching(in, n + 1)
         /\ Winners(in, n + 1) = {s \in SUBSET PrivateIds(in) : Cardinality(s) = n + 1 /\ Changes(in, s)}
<1>1. n \in Nat /\ Limit(in) \in Nat
  BY LimitType DEF Reaching
<1>2. \A s \in SUBSET PrivateIds(in) : Cardinality(s) \in Nat
  BY LimitType
<1>3. \A s \in SUBSET PrivateIds(in) : Cardinality(s) <= n => ~Changes(in, s)
  BY DEF Winners
<1>4. Reaching(in, n + 1)
  <2>1. n + 1 \in Nat /\ n + 1 <= Limit(in)
    BY <1>1
  <2>2. \A s \in SUBSET PrivateIds(in) : Cardinality(s) < n + 1 => Cardinality(s) <= n
    BY <1>1, <1>2
  <2> QED
    BY <1>3, <2>1, <2>2 DEF Reaching
<1>5. \A s \in SUBSET PrivateIds(in) : Cardinality(s) <= n + 1 => Cardinality(s) <= n \/ Cardinality(s) = n + 1
  BY <1>1, <1>2
<1>6. \A s \in SUBSET PrivateIds(in) : Cardinality(s) = n + 1 => Cardinality(s) <= n + 1
  BY <1>1, <1>2
<1> QED
  BY <1>3, <1>4, <1>5, <1>6 DEF Winners

\* What a counterfactual says of the input it was searched for.
Minimal(in, removed) ==
    LET small == {s \in SUBSET PrivateIds(in) : Cardinality(s) <= CounterfactualLimit}
    IN  IF removed = {} THEN \A s \in small : ~Changes(in, s)
        ELSE /\ removed \in small /\ Changes(in, removed)
             /\ \A s \in small : Changes(in, s) => Cardinality(removed) <= Cardinality(s)

\* Where the search ends what it reports is minimal.
LEMMA FoundIsMinimal ==
  ASSUME NEW in, DecisionGraphInput(in), NEW n, Reached(in, n)
  PROVE  Minimal(in, Found(in, Winners(in, n)).removed)
<1> DEFINE W == Winners(in, n)
           small == {s \in SUBSET PrivateIds(in) : Cardinality(s) <= CounterfactualLimit}
<1>1. n \in Nat /\ n <= Limit(in) /\ Limit(in) \in Nat /\ Limit(in) <= CounterfactualLimit
  BY LimitType DEF Reached, Reaching
<1>2. /\ PrivateIds(in) \in SUBSET Int /\ IsFiniteSet(PrivateIds(in))
      /\ \A s \in SUBSET PrivateIds(in) :
           /\ IsFiniteSet(s) /\ Cardinality(s) \in Nat
           /\ Cardinality(s) <= CounterfactualLimit => Cardinality(s) <= Limit(in)
  BY LimitType, PrivateFinite
<1>3. CASE W = {}
  <2>1. Found(in, W).removed = {}
    BY <1>3 DEF Found, NoCounterfactual
  <2>2. n = Limit(in)
    BY <1>3 DEF Reached
  <2>3. \A s \in small : ~Changes(in, s)
    BY <1>2, <1>3, <2>2 DEF Winners
  <2> QED
    BY <2>1, <2>3 DEF Minimal
<1>4. CASE W # {}
  <2> DEFINE c == FirstListed(W)
  <2>1. Found(in, W).removed = c
    BY <1>4 DEF Found
  <2>2. c \in W
    <3>1. W \in SUBSET SUBSET PrivateIds(in)
      BY DEF Winners
    <3>2. IsFiniteSet(SUBSET PrivateIds(in))
      BY <1>2, FS_SUBSET
    <3> HIDE DEF W
    <3>3. IsFiniteSet(W)
      BY <3>1, <3>2, FS_Subset
    <3>4. \A s \in W : s \in SUBSET Int /\ IsFiniteSet(s)
      BY <1>2, <3>1
    <3> QED
      BY <1>4, <3>3, <3>4, FirstListedExists
  <2> HIDE DEF c
  <2>3. c \in SUBSET PrivateIds(in) /\ Cardinality(c) <= n /\ Changes(in, c)
    BY <2>2 DEF Winners
  <2>4. c # {}
    BY <2>3, WithoutNothing
  <2>5. c \in small /\ Cardinality(c) \in Nat
    <3>1. CounterfactualLimit \in Nat /\ Cardinality(c) \in Nat
      BY <1>2, <2>3, LimitAssumption
    <3>2. Cardinality(c) <= CounterfactualLimit
      BY <1>1, <2>3, <3>1
    <3> QED
      BY <2>3, <3>1, <3>2
  <2>6. ASSUME NEW s \in small, Changes(in, s) PROVE Cardinality(c) <= Cardinality(s)
    <3>1. Cardinality(s) \in Nat /\ ~(Cardinality(s) < n)
      BY <1>2, <2>6 DEF Reached, Reaching
    <3> QED
      BY <1>1, <2>3, <2>5, <3>1
  <2> QED
    BY <2>1, <2>3, <2>4, <2>5, <2>6 DEF Minimal
<1> QED
  BY <1>3, <1>4

\* How far the search is.
SearchedOK ==
    /\ stage \in {"recall", "assess", "plan", "rank", "generic"} =>
         search = NoSearch /\ counterfactual = NoCounterfactual
    /\ stage = "search" => /\ counterfactual = NoCounterfactual /\ Reaching(input, search.reached)
                           /\ search.winners = Winners(input, search.reached)
    /\ stage \in {"search", "ledger", "persist"} => generic = GenericOf(input)
    /\ stage \in {"ledger", "persist"} =>
         counterfactual = CounterfactualOf(input) /\ Reached(input, FoundAt(input))

\* The invariant of the engine.
EngineOK == DecisionGraphInput(input) /\ stage \in StageNames /\ BaseOK /\ StageOK /\ SearchedOK

\* What the engine holds once the search is over is a minimal counterfactual.
LEMMA CounterfactualHolds ==
  ASSUME EngineOK
  PROVE  CounterfactualIsMinimal
<1> SUFFICES ASSUME stage = "ledger" PROVE CounterfactualIsMinimal
  BY DEF CounterfactualIsMinimal
<1> DEFINE small == {s \in SUBSET PrivateIds(input) : Cardinality(s) <= CounterfactualLimit}
           changes(s) ==
             evaluate_decision_graph_once(Without(input, s)).rank.selected # base.rank.selected
           changing == {s \in small : changes(s)}
           removed == counterfactual.removed
<1>1. /\ DecisionGraphInput(input) /\ base = evaluate_decision_graph_once(input)
      /\ generic = GenericOf(input) /\ counterfactual = CounterfactualOf(input)
      /\ Reached(input, FoundAt(input))
  BY DEF EngineOK, StageOK, SearchedOK
<1>2. \A s : changes(s) <=> Changes(input, s)
  BY <1>1 DEF Changes, Selects
<1>3. Minimal(input, removed)
  BY <1>1, FoundIsMinimal DEF CounterfactualOf
<1>4. generic.rank.selected # base.rank.selected => Changes(input, PrivateIds(input))
  <2>1. Anonymous(input) = Without(input, PrivateIds(input))
    <3>1. input.removed \cup {f.id : f \in {g \in input.facts : g.private}}
            = input.removed \cup PrivateIds(input)
      BY DEF PrivateIds
    <3> QED
      BY <3>1 DEF Anonymous, Without
  <2>2. generic.rank = evaluate_decision_graph_once(Anonymous(input)).rank
    BY <1>1 DEF GenericOf, Rerun
  <2> QED
    BY <1>1, <2>1, <2>2 DEF Changes, Selects
<1>5. CASE removed = {}
  <2>1. \A s \in small : ~Changes(input, s)
    BY <1>3, <1>5 DEF Minimal
  <2>2. changing = {}
    BY <1>2, <2>1
  <2>3. PrivateIds(input) \in small => generic.rank.selected = base.rank.selected
    BY <1>4, <2>1
  <2> QED
    BY <1>5, <2>2, <2>3 DEF CounterfactualIsMinimal
<1>6. CASE removed # {}
  <2>1. /\ removed \in small /\ Changes(input, removed)
        /\ \A s \in small : Changes(input, s) => Cardinality(removed) <= Cardinality(s)
    BY <1>3, <1>6 DEF Minimal
  <2>2. removed \in changing /\ \A s \in changing : Cardinality(removed) <= Cardinality(s)
    BY <1>2, <2>1
  <2> QED
    BY <1>6, <2>2 DEF CounterfactualIsMinimal
<1> QED
  BY <1>5, <1>6

\* An evaluation that raises keeps what it held.
LEMMA FailedKeeps ==
  ASSUME EngineOK, stage' = "failed", base' = base, input' = input
  PROVE  EngineOK'
<1>1. BaseOK'
  BY DEF EngineOK, BaseOK
<1> QED
  BY <1>1 DEF EngineOK, StageOK, SearchedOK, StageNames

\* The generic evaluation starts the search at the beginning.
LEMMA GenericKeeps ==
  ASSUME EngineOK, EvaluateGeneric
  PROVE  EngineOK'
<1>1. /\ input' = input /\ base' = base /\ search' = search /\ counterfactual' = counterfactual
      /\ stage = "generic"
      /\ stage' = "failed" \/ (stage' = "search" /\ generic' = GenericOf(input))
  BY DEF EvaluateGeneric, GenericOf, Anonymous
<1>2. CASE stage' = "failed"
  BY <1>1, <1>2, FailedKeeps
<1>3. CASE stage' = "search" /\ generic' = GenericOf(input)
  <2>1. BaseOK' /\ StageOK'
    BY <1>1, <1>3 DEF EngineOK, BaseOK, StageOK
  <2>2. search.reached = 0 /\ search.winners = {} /\ counterfactual = NoCounterfactual
    BY <1>1 DEF EngineOK, SearchedOK, NoSearch
  <2>3. Reaching(input, 0) /\ Winners(input, 0) = {}
    BY ReachStarts DEF EngineOK
  <2>4. SearchedOK'
    BY <1>1, <1>3, <2>2, <2>3 DEF SearchedOK
  <2> QED
    BY <1>1, <1>3, <2>1, <2>4 DEF EngineOK, StageNames
<1> QED
  BY <1>1, <1>2, <1>3

\* Trying one more cardinality keeps the search where it should be.
LEMMA SearchStepKeeps ==
  ASSUME EngineOK, SearchCardinality
  PROVE  EngineOK' /\ input' = input
<1> DEFINE private == PrivateIds(input)
           tried == {s \in SUBSET private : Cardinality(s) = search.reached + 1}
           selects(s) == evaluate_decision_graph_once(Without(input, s)).rank.selected
<1>1. /\ input' = input /\ base' = base /\ generic' = generic /\ counterfactual' = counterfactual
      /\ stage = "search" /\ search.winners = {} /\ search.reached < Limit(input)
      /\ \/ stage' = "failed"
         \/ /\ stage' = stage
            /\ search' = [reached |-> search.reached + 1,
                          winners |-> search.winners \cup {s \in tried : selects(s) # base.rank.selected}]
  BY DEF SearchCardinality, SearchGoesOn, Limit
<1>2. CASE stage' = "failed"
  BY <1>1, <1>2, FailedKeeps
<1>3. CASE /\ stage' = stage
           /\ search' = [reached |-> search.reached + 1,
                         winners |-> search.winners \cup {s \in tried : selects(s) # base.rank.selected}]
  <2>1. /\ DecisionGraphInput(input) /\ base = evaluate_decision_graph_once(input)
        /\ generic = GenericOf(input) /\ counterfactual = NoCounterfactual
        /\ Reaching(input, search.reached) /\ search.winners = Winners(input, search.reached)
    BY <1>1 DEF EngineOK, StageOK, SearchedOK
  <2>2. BaseOK' /\ StageOK'
    BY <1>1, <1>3 DEF EngineOK, BaseOK, StageOK
  <2>3. /\ Reaching(input, search.reached + 1)
        /\ Winners(input, search.reached + 1) =
             {s \in SUBSET PrivateIds(input) : Cardinality(s) = search.reached + 1 /\ Changes(input, s)}
    BY <1>1, <2>1, ReachGrows
  <2>4. search'.reached = search.reached + 1 /\ search'.winners = Winners(input, search.reached + 1)
    <3>1. \A s : selects(s) # base.rank.selected <=> Changes(input, s)
      BY <2>1 DEF Changes, Selects
    <3>2. {s \in tried : selects(s) # base.rank.selected} =
             {s \in SUBSET PrivateIds(input) : Cardinality(s) = search.reached + 1 /\ Changes(input, s)}
      BY <3>1
    <3>3. search'.winners = {s \in tried : selects(s) # base.rank.selected}
      BY <1>1, <1>3
    <3> QED
      BY <1>3, <2>3, <3>2, <3>3
  <2>5. SearchedOK'
    BY <1>1, <1>3, <2>1, <2>3, <2>4 DEF SearchedOK
  <2> QED
    BY <1>1, <1>3, <2>2, <2>5 DEF EngineOK, StageNames
<1> QED
  BY <1>1, <1>2, <1>3

\* Recording the counterfactual ends the search where it should.
LEMMA RecordKeeps ==
  ASSUME EngineOK, RecordCounterfactual
  PROVE  EngineOK' /\ input' = input
<1> DEFINE W == search.winners
<1>1. /\ DecisionGraphInput(input) /\ base = evaluate_decision_graph_once(input)
      /\ generic = GenericOf(input) /\ counterfactual = NoCounterfactual
      /\ Reaching(input, search.reached) /\ W = Winners(input, search.reached)
  BY DEF EngineOK, StageOK, SearchedOK, RecordCounterfactual
<1>2. /\ input' = input /\ base' = base /\ generic' = generic /\ stage = "search" /\ stage' = "ledger"
      /\ ~SearchGoesOn(Limit(input))
  BY DEF RecordCounterfactual, Limit
<1>3. counterfactual' = Found(input, W)
  BY <1>1 DEF RecordCounterfactual, Found, FirstListed
<1>4. Reached(input, search.reached)
  <2>1. Limit(input) \in Nat /\ search.reached \in Nat /\ search.reached <= Limit(input)
    BY <1>1, LimitType DEF Reaching
  <2>2. W # {} \/ ~(search.reached < Limit(input))
    BY <1>2 DEF SearchGoesOn
  <2> QED
    BY <1>1, <2>1, <2>2 DEF Reached
<1>5. FoundAt(input) = search.reached
  BY <1>1, <1>4, ReachUnique
<1>6. counterfactual' = CounterfactualOf(input) /\ Reached(input, FoundAt(input))
  BY <1>1, <1>3, <1>4, <1>5 DEF CounterfactualOf
<1>7. BaseOK' /\ StageOK'
  BY <1>1, <1>2 DEF EngineOK, BaseOK, StageOK
<1>8. SearchedOK'
  BY <1>1, <1>2, <1>6 DEF SearchedOK
<1> QED
  BY <1>1, <1>2, <1>7, <1>8 DEF EngineOK, StageNames

\* Every stage of an evaluation keeps the engine sound and its input the same.
LEMMA StagesKeep ==
  ASSUME EngineOK,
         \/ RecallAndDeduplicate \/ AssessEvidence \/ BuildSolutionPlans \/ RankAndFrontiers
         \/ EvaluateGeneric \/ SearchCardinality \/ RecordCounterfactual
  PROVE  EngineOK' /\ input' = input /\ stage' \notin {"persist", "written", "conflict"}
<1>1. CASE RecallAndDeduplicate \/ AssessEvidence \/ BuildSolutionPlans \/ RankAndFrontiers
  <2>1. BaseOK' /\ StageOK' /\ input' = input
    BY <1>1, StageKeeps DEF EngineOK
  <2>2. /\ stage \in {"recall", "assess", "plan", "rank"}
        /\ stage' \in {"assess", "plan", "rank", "generic", "failed"}
        /\ search' = search /\ counterfactual' = counterfactual
    BY <1>1 DEF RecallAndDeduplicate, AssessEvidence, BuildSolutionPlans, RankAndFrontiers, Stage
  <2>3. SearchedOK'
    BY <2>2 DEF EngineOK, SearchedOK
  <2> QED
    BY <2>1, <2>2, <2>3 DEF EngineOK, StageNames
<1>2. CASE EvaluateGeneric
  BY <1>2, GenericKeeps DEF EvaluateGeneric
<1>3. CASE SearchCardinality
  BY <1>3, SearchStepKeeps DEF SearchCardinality
<1>4. CASE RecordCounterfactual
  BY <1>4, RecordKeeps DEF RecordCounterfactual
<1> QED
  BY <1>1, <1>2, <1>3, <1>4

\* Compiling the ledger keeps the engine sound.
LEMMA LedgerKeeps ==
  ASSUME EngineOK, BuildDecisionLedger
  PROVE  EngineOK'
<1>1. /\ input' = input /\ base' = base /\ generic' = generic /\ search' = search
      /\ counterfactual' = counterfactual /\ stage = "ledger" /\ stage' \in {"failed", "persist"}
  BY DEF BuildDecisionLedger
<1>2. BaseOK' /\ StageOK'
  BY <1>1 DEF EngineOK, BaseOK, StageOK
<1>3. SearchedOK'
  BY <1>1 DEF EngineOK, SearchedOK
<1> QED
  BY <1>1, <1>2, <1>3 DEF EngineOK, StageNames

\* Writing a decision keeps the engine sound.
LEMMA PersistKeeps ==
  ASSUME EngineOK, PersistBaseGraph
  PROVE  EngineOK' /\ stage = "persist" /\ stage' \in {"failed", "written", "conflict"} /\ input' = input
<1>1. /\ input' = input /\ base' = base
      /\ stage = "persist" /\ stage' \in {"failed", "written", "conflict"}
  BY DEF PersistBaseGraph
<1>2. BaseOK' /\ StageOK'
  BY <1>1 DEF EngineOK, BaseOK, StageOK
<1>3. SearchedOK'
  BY <1>1 DEF SearchedOK
<1> QED
  BY <1>1, <1>2, <1>3 DEF EngineOK, StageNames

\* A new evaluation starts, or the old one is forgotten.
LEMMA ResetKeeps ==
  ASSUME NEW in, DecisionGraphInput(in), NEW to \in {"recall", "written"}, Reset(in, to)
  PROVE  EngineOK'
<1>1. /\ input' = in /\ stage' = to /\ base' = NoEvaluation /\ search' = NoSearch
      /\ counterfactual' = NoCounterfactual
  BY DEF Reset
<1>2. BaseOK' /\ StageOK' /\ SearchedOK'
  BY <1>1 DEF BaseOK, StageOK, SearchedOK
<1> QED
  BY <1>1, <1>2 DEF EngineOK, StageNames

(***************************************************************************)
(* Binding weights to an input.                                            *)
(***************************************************************************)
Bound(c, weights) == [c EXCEPT !.weight = IF c.id \in DOMAIN weights THEN weights[c.id] ELSE @]

Divides(in) == \A p \in in.evidencePolicies : Unit % p.sla = 0

\* What is known of the input of a decision.
InputOK(in) == DecisionGraphInput(in) /\ Blocks(in) /\ Divides(in) /\ in.removed = {}

\* A criterion with a bound weight is a criterion, the same but for its weight.
LEMMA BoundCriterion ==
  ASSUME NEW c, PreferenceCriterion(c), NEW weights,
         \A id \in DOMAIN weights : weights[id] \in 1..5
  PROVE  /\ PreferenceCriterion(Bound(c, weights))
         /\ \A x \in CriterionFields \ {"weight"} : Bound(c, weights)[x] = c[x]
         /\ Bound(c, weights).weight = IF c.id \in DOMAIN weights THEN weights[c.id] ELSE c.weight
         /\ Bound(c, weights).id = c.id
<1> DEFINE b == Bound(c, weights)
           w == IF c.id \in DOMAIN weights THEN weights[c.id] ELSE c.weight
<1>1. c = [x \in CriterionFields |-> c[x]]
  BY DEF PreferenceCriterion
<1>2. w \in 1..5
  BY DEF PreferenceCriterion
<1>3. b = [c EXCEPT !.weight = w]
  BY DEF Bound
<1> HIDE DEF w, b
<1>4. b = [x \in CriterionFields |-> IF x = "weight" THEN w ELSE c[x]]
  BY <1>1, <1>3 DEF CriterionFields
<1>5. "weight" \in CriterionFields
  BY DEF CriterionFields
<1>6. (\A x \in CriterionFields \ {"weight"} : b[x] = c[x]) /\ b.weight = w
  BY <1>4, <1>5
<1>7. /\ b.id = c.id /\ b.coverageWeight = c.coverageWeight /\ b.normalization = c.normalization
      /\ b.aggregation = c.aggregation /\ b.unknown = c.unknown /\ b.prior = c.prior
      /\ b.points = c.points /\ b.expected = c.expected
  BY <1>6 DEF CriterionFields
<1>8. b = [x \in CriterionFields |-> b[x]]
  BY <1>4
<1>9. PreferenceCriterion(b)
  BY <1>2, <1>6, <1>7, <1>8 DEF PreferenceCriterion
<1> QED
  BY <1>6, <1>7, <1>9 DEF b, w

\* Binding weights changes the criteria of an input and nothing else.
LEMMA BindParts ==
  ASSUME NEW in, DecisionGraphInput(in), NEW weights
  PROVE  /\ \A x \in InputFields \ {"preferences"} : _bind_graph_input(in, weights)[x] = in[x]
         /\ _bind_graph_input(in, weights).preferences = {Bound(c, weights) : c \in in.preferences}
         /\ _bind_graph_input(in, weights) =
              [x \in InputFields |-> _bind_graph_input(in, weights)[x]]
<1> DEFINE out == _bind_graph_input(in, weights)
           bound == {Bound(c, weights) : c \in in.preferences}
<1>1. in = [x \in InputFields |-> in[x]]
  BY DEF DecisionGraphInput
<1>2. out = [in EXCEPT !.preferences = bound]
  BY DEF _bind_graph_input, Bound
<1> HIDE DEF out, bound
<1>3. "preferences" \in InputFields
  BY DEF InputFields, Collections
<1>4. out = [x \in InputFields |-> IF x = "preferences" THEN bound ELSE in[x]]
  BY <1>1, <1>2
<1>5. (\A x \in InputFields \ {"preferences"} : out[x] = in[x]) /\ out.preferences = bound
  BY <1>3, <1>4
<1>6. out = [x \in InputFields |-> out[x]]
  BY <1>4
<1> QED
  BY <1>5, <1>6 DEF out, bound

\* The same, field by field.
LEMMA BindFields ==
  ASSUME NEW in, DecisionGraphInput(in), NEW weights
  PROVE  LET out == _bind_graph_input(in, weights)
         IN  /\ out.facts = in.facts /\ out.records = in.records /\ out.offers = in.offers
             /\ out.evidence = in.evidence /\ out.evidencePolicies = in.evidencePolicies
             /\ out.gates = in.gates /\ out.riskRules = in.riskRules /\ out.current = in.current
             /\ out.outcomes = in.outcomes /\ out.now = in.now /\ out.removed = in.removed
             /\ out.policy = in.policy /\ out.aliases = in.aliases
             /\ out.riskComplete = in.riskComplete
<1> DEFINE out == _bind_graph_input(in, weights)
<1>1. \A x \in InputFields \ {"preferences"} : out[x] = in[x]
  BY BindParts
<1> HIDE DEF out
<1>2. {"facts", "records", "offers", "evidence", "evidencePolicies", "gates", "riskRules", "current",
       "outcomes", "now", "removed", "policy", "aliases", "riskComplete"}
        \subseteq InputFields \ {"preferences"}
  BY DEF InputFields, Collections
<1>3. /\ out.facts = in.facts /\ out.records = in.records /\ out.offers = in.offers
      /\ out.evidence = in.evidence /\ out.evidencePolicies = in.evidencePolicies
      /\ out.gates = in.gates /\ out.riskRules = in.riskRules /\ out.current = in.current
      /\ out.outcomes = in.outcomes /\ out.now = in.now /\ out.removed = in.removed
      /\ out.policy = in.policy /\ out.aliases = in.aliases
      /\ out.riskComplete = in.riskComplete
  BY <1>1, <1>2
<1> QED
  BY <1>3 DEF out

\* An input with weights from one to five bound is an input.
LEMMA BindKeeps ==
  ASSUME NEW in, InputOK(in), NEW weights, \A id \in DOMAIN weights : weights[id] \in 1..5
  PROVE  InputOK(_bind_graph_input(in, weights))
<1> DEFINE out == _bind_graph_input(in, weights)
           bound == {Bound(c, weights) : c \in in.preferences}
           g == [c \in in.preferences |-> Bound(c, weights)]
<1>0. DecisionGraphInput(in)
  BY DEF InputOK
<1>1. /\ out.facts = in.facts /\ out.records = in.records /\ out.offers = in.offers
      /\ out.evidence = in.evidence /\ out.evidencePolicies = in.evidencePolicies
      /\ out.gates = in.gates /\ out.riskRules = in.riskRules /\ out.current = in.current
      /\ out.outcomes = in.outcomes /\ out.now = in.now /\ out.removed = in.removed
      /\ out.policy = in.policy /\ out.aliases = in.aliases
      /\ out.riskComplete = in.riskComplete
  BY <1>0, BindFields
<1>2. /\ \A x \in InputFields \ {"preferences"} : out[x] = in[x]
      /\ out.preferences = bound /\ out = [x \in InputFields |-> out[x]]
  BY <1>0, BindParts
<1>3. IsFiniteSet(bound)
  <2>1. IsFiniteSet(DOMAIN g) /\ \A y \in bound : \E x \in DOMAIN g : y = g[x]
    BY <1>0, InputFinite
  <2> HIDE DEF bound, g
  <2> QED
    BY <2>1, FiniteCover
<1>4. \A c \in in.preferences : PreferenceCriterion(c)
  BY <1>0, InputRows
<1>5. \A b \in bound : PreferenceCriterion(b)
  BY <1>4, BoundCriterion
<1>6. \A b, d \in bound : b.id = d.id => b = d
  <2>1. \A c \in in.preferences : Bound(c, weights).id = c.id
    BY <1>4, BoundCriterion
  <2>2. \A c, d \in in.preferences : c.id = d.id => c = d
    BY <1>0, InputKeys
  <2> QED
    BY <2>1, <2>2
<1> HIDE DEF out, bound
<1>7. \A x \in Collections : IsFiniteSet(out[x])
  <2> SUFFICES ASSUME NEW x \in Collections PROVE IsFiniteSet(out[x])
    OBVIOUS
  <2>1. CASE x = "preferences"
    BY <1>2, <1>3, <2>1
  <2>2. CASE x # "preferences"
    <3>1. out[x] = in[x]
      BY <1>2, <2>2 DEF InputFields
    <3> QED
      BY <1>0, <3>1 DEF DecisionGraphInput
  <2> QED
    BY <2>1, <2>2
<1>8. /\ out.now \in Int
      /\ IsFiniteSet(DOMAIN out.aliases) /\ \A x \in DOMAIN out.aliases : out.aliases[x] \in Int
      /\ \A f \in out.facts : FrozenFact(f)
      /\ \A r \in out.records : RawCandidateRecord(r)
      /\ \A o \in out.offers : o.id \in Int /\ OfferCost(o)
      /\ \A e \in out.evidence : EvidenceRecord(e)
      /\ \A p \in out.evidencePolicies : EvidencePolicy(p)
      /\ \A h \in out.gates : GateRule(h)
      /\ \A r \in out.riskRules : RiskRule(r)
      /\ \A a \in out.current : CurrentActionRecord(a)
      /\ \A o \in out.outcomes : OutcomeObservation(o)
      /\ RecallPolicy(out.policy)
  BY <1>0, <1>1 DEF DecisionGraphInput
<1>9. \A c \in out.preferences : PreferenceCriterion(c)
  BY <1>2, <1>5
<1>10. Unique(out.preferences, LAMBDA x : x.id)
  BY <1>2, <1>6 DEF Unique
<1>11. \A group \in {out.facts, out.records, out.offers, out.evidence, out.gates, out.preferences,
                     out.riskRules, out.current} : Unique(group, LAMBDA x : x.id)
  <2> SUFFICES ASSUME NEW group \in {out.facts, out.records, out.offers, out.evidence, out.gates,
                                     out.preferences, out.riskRules, out.current},
                      NEW r \in group, NEW t \in group, r.id = t.id
               PROVE  r = t
    BY DEF Unique
  <2>1. CASE group = out.preferences
    BY <1>2, <1>6, <2>1
  <2>2. CASE group # out.preferences
    <3>1. group \in {in.facts, in.records, in.offers, in.evidence, in.gates, in.riskRules, in.current}
      BY <1>1, <2>2
    <3> QED
      BY <1>0, <3>1, InputKeys
  <2> QED
    BY <2>1, <2>2
<1>12. Unique(out.evidencePolicies, LAMBDA p : p.field)
  BY <1>0, <1>1 DEF DecisionGraphInput, Unique
<1>13. DecisionGraphInput(out)
  BY <1>2, <1>7, <1>8, <1>9, <1>11, <1>12 DEF DecisionGraphInput
<1>14. Blocks(out) /\ Divides(out) /\ out.removed = {}
  BY <1>1 DEF InputOK, Blocks, Divides
<1> QED
  BY <1>13, <1>14 DEF InputOK, out

(***************************************************************************)
(* What is stored of a decision.                                           *)
(***************************************************************************)
\* What is stored of the decision on an input.
Recorded(in, labels) ==
    [run |-> [input |-> _input_payload(in),
              payload |-> evaluation_canonical_payload(in, evaluate_decision_graph_once(in))],
     ledger |-> build_decision_ledger(in, evaluate_decision_graph_once(in),
                                      <<CounterfactualOf(in), GenericOf(in)>>, labels)]

\* Every score of a plan is the score of a preference, under its weight.
LEMMA PlanScores ==
  ASSUME NEW in, DecisionGraphInput(in), NEW p \in FrozenPlans(in), NEW s \in p.scores
  PROVE  \E c \in in.preferences : s.id = c.id /\ s.weight = c.weight
<1> DEFINE recall == recall_and_deduplicate(in)
           A == FrozenAssessments(in)
<1>1. PICK m \in Materials(in, recall) : p = Plan(in, m, A)
  BY DEF FrozenPlans, build_solution_plans
<1>2. p.scores = _score_components(in, m, A)
  BY <1>1 DEF Plan, EvaluatedPlan, _material_dimensions, ScoredDimensions, Dimensions
<1>3. PICK c \in Scored(in, m) : s = Score(in, m, A, c)
  BY <1>2, ScoresAre
<1>4. c \in in.preferences
  BY DEF Scored
<1>5. s.id = c.id /\ s.weight = c.weight
  BY <1>3 DEF Score
<1> QED
  BY <1>4, <1>5

\* The weights read back from a ledger are those of the criteria it was computed with.
LEMMA LedgerWeights ==
  ASSUME NEW in, DecisionGraphInput(in), NEW labels
  PROVE  LET w == _ledger_preference_weights(Recorded(in, labels).ledger)
         IN  /\ \A id \in DOMAIN w : \E c \in in.preferences : c.id = id /\ w[id] = c.weight
             /\ \A id \in DOMAIN w : w[id] \in 1..5
<1> DEFINE ledger == Recorded(in, labels).ledger
           w == _ledger_preference_weights(ledger)
           S == UNION {p.scores : p \in ledger.plans}
           e == evaluate_decision_graph_once(in)
<1>1. ledger.plans = {_solution_plan(in, e, p) : p \in e.plans}
  BY DEF Recorded, build_decision_ledger
<1>2. e.plans = FrozenPlans(in)
  BY EvaluationParts
<1> HIDE DEF ledger, e
<1>3. \A p : _solution_plan(in, e, p).scores = p.scores
  BY DEF _solution_plan
<1>4. \A s \in S : \E p \in FrozenPlans(in) : s \in p.scores
  BY <1>1, <1>2, <1>3
<1>5. \A s \in S : \E c \in in.preferences : s.id = c.id /\ s.weight = c.weight
  BY <1>4, PlanScores
<1>6. w = [id \in {c.id : c \in S} |-> (CHOOSE c \in S : c.id = id).weight]
  BY DEF _ledger_preference_weights, Weights
<1> HIDE DEF S, w
<1>7. ASSUME NEW id \in DOMAIN w PROVE \E c \in in.preferences : c.id = id /\ w[id] = c.weight
  <2>1. DOMAIN w = {c.id : c \in S}
    BY <1>6
  <2>2. PICK s \in S : s.id = id
    BY <1>7, <2>1
  <2> DEFINE t == CHOOSE c \in S : c.id = id
  <2>3. t \in S /\ t.id = id
    BY <2>2
  <2>4. w[id] = t.weight
    BY <1>6, <1>7, <2>1
  <2> HIDE DEF t
  <2> QED
    BY <1>5, <2>3, <2>4
<1>8. \A id \in DOMAIN w : w[id] \in 1..5
  BY <1>7, InputRows DEF PreferenceCriterion
<1> QED
  BY <1>7, <1>8 DEF w, ledger

\* An input is known by its digests.
LEMMA DigestsProve ==
  ASSUME NEW a, InputOK(a), NEW b, InputOK(b), _input_payload(a) = _input_payload(b)
  PROVE  a = b
<1> DEFINE f == _frozen_input_hashes(a)  g == _frozen_input_hashes(b)
<1>1. a.now = b.now /\ f = g
  BY DEF _input_payload
<1>2. _active_buyer_facts(a) = a.facts /\ _active_buyer_facts(b) = b.facts
  BY DEF InputOK, _active_buyer_facts
<1>3. /\ f.buyer_facts = a.facts /\ f.candidate_records = a.records /\ f.offers = a.offers
      /\ f.evidence = a.evidence /\ f.evidence_policies = a.evidencePolicies
      /\ f.gates = a.gates /\ f.preferences = a.preferences
      /\ f.risk_rules[1] = a.riskComplete /\ f.risk_rules[2] = a.riskRules
      /\ f.current_actions = a.current /\ f.identity_normalization = a.aliases
      /\ f.outcome_observations = a.outcomes /\ f.recall_policy = a.policy
  BY <1>2 DEF _frozen_input_hashes
<1>4. /\ g.buyer_facts = b.facts /\ g.candidate_records = b.records /\ g.offers = b.offers
      /\ g.evidence = b.evidence /\ g.evidence_policies = b.evidencePolicies
      /\ g.gates = b.gates /\ g.preferences = b.preferences
      /\ g.risk_rules[1] = b.riskComplete /\ g.risk_rules[2] = b.riskRules
      /\ g.current_actions = b.current /\ g.identity_normalization = b.aliases
      /\ g.outcome_observations = b.outcomes /\ g.recall_policy = b.policy
  BY <1>2 DEF _frozen_input_hashes
<1> HIDE DEF f, g
<1>5. /\ a.facts = b.facts /\ a.records = b.records /\ a.offers = b.offers
      /\ a.evidence = b.evidence /\ a.evidencePolicies = b.evidencePolicies
      /\ a.gates = b.gates /\ a.preferences = b.preferences /\ a.riskComplete = b.riskComplete
      /\ a.riskRules = b.riskRules /\ a.current = b.current /\ a.aliases = b.aliases
      /\ a.outcomes = b.outcomes /\ a.policy = b.policy /\ a.removed = b.removed
  BY <1>1, <1>3, <1>4 DEF InputOK
<1>6. \A x \in InputFields : a[x] = b[x]
  BY <1>1, <1>5 DEF InputFields, Collections
<1>7. a = [x \in InputFields |-> a[x]] /\ b = [x \in InputFields |-> b[x]]
  BY DEF InputOK, DecisionGraphInput
<1> QED
  BY <1>6, <1>7

\* Two bindings of one source that give its criteria the same weights are the same.
LEMMA SameBinding ==
  ASSUME NEW source, InputOK(source), NEW v, NEW w,
         \A c \in source.preferences : Bound(c, v) = Bound(c, w)
  PROVE  _bind_graph_input(source, v) = _bind_graph_input(source, w)
<1>1. {Bound(c, v) : c \in source.preferences} = {Bound(c, w) : c \in source.preferences}
  OBVIOUS
<1> QED
  BY <1>1 DEF _bind_graph_input, Bound

\* A server whose source yields the decision's input under its own weights yields it under the
\* weights of the ledger, unless a weight was changed that the ledger does not keep.
LEMMA OwnInput ==
  ASSUME NEW source, InputOK(source), NEW d, InputOK(d), NEW w,
         \A id \in DOMAIN w : \E c \in d.preferences : c.id = id /\ w[id] = c.weight,
         \A id \in DOMAIN w : w[id] \in 1..5,
         _bind_graph_input(source, Weights(d.preferences)) = d,
         \A c \in d.preferences : c.id \notin DOMAIN w => c \in source.preferences
  PROVE  _bind_graph_input(source, w) = d
<1> DEFINE v == Weights(d.preferences)
<1>1. DecisionGraphInput(source) /\ DecisionGraphInput(d)
  BY DEF InputOK
<1>2. /\ \A c \in source.preferences : PreferenceCriterion(c)
      /\ \A c \in d.preferences : PreferenceCriterion(c)
      /\ \A c, e \in d.preferences : c.id = e.id => c = e
      /\ \A c, e \in source.preferences : c.id = e.id => c = e
  BY <1>1, InputRows, InputKeys
<1>3. \A c \in d.preferences : c.weight \in 1..5
  BY <1>2 DEF PreferenceCriterion
<1>4. v = [id \in {c.id : c \in d.preferences} |-> (CHOOSE c \in d.preferences : c.id = id).weight]
  BY DEF Weights
<1>5. d.preferences = {Bound(c, v) : c \in source.preferences}
  BY <1>1, BindParts
<1> HIDE DEF v
<1>6. \A c \in d.preferences : c.id \in DOMAIN v /\ v[c.id] = c.weight
  <2> SUFFICES ASSUME NEW c \in d.preferences PROVE c.id \in DOMAIN v /\ v[c.id] = c.weight
    OBVIOUS
  <2>1. c.id \in {e.id : e \in d.preferences}
    OBVIOUS
  <2>2. (CHOOSE e \in d.preferences : e.id = c.id) = c
    BY <1>2
  <2> QED
    BY <1>4, <2>1, <2>2
<1>7. \A id \in DOMAIN v : v[id] \in 1..5
  <2> SUFFICES ASSUME NEW id \in DOMAIN v PROVE v[id] \in 1..5
    OBVIOUS
  <2>1. PICK c \in d.preferences : c.id = id
    BY <1>4
  <2> QED
    BY <1>3, <1>6, <2>1
<1>8. ASSUME NEW c \in source.preferences PROVE Bound(c, w) = Bound(c, v)
  <2> DEFINE b == Bound(c, v)
  <2>1. b \in d.preferences /\ b.id = c.id
    BY <1>2, <1>5, <1>7, BoundCriterion
  <2>2. c.id \in DOMAIN v /\ v[c.id] = b.weight
    BY <1>6, <2>1
  <2> HIDE DEF b
  <2>3. CASE c.id \in DOMAIN w
    <3>1. PICK e \in d.preferences : e.id = c.id /\ w[c.id] = e.weight
      BY <2>3
    <3>2. e = b
      BY <1>2, <2>1, <3>1
    <3>3. w[c.id] = v[c.id]
      BY <2>2, <3>1, <3>2
    <3> QED
      BY <2>2, <2>3, <3>3 DEF Bound
  <2>4. CASE c.id \notin DOMAIN w
    <3>1. b \in source.preferences
      BY <2>1, <2>4
    <3>2. b = c
      BY <1>2, <2>1, <3>1
    <3>3. Bound(c, w) = [c EXCEPT !.weight = c.weight]
      BY <2>4 DEF Bound
    <3>4. c = [x \in CriterionFields |-> c[x]]
      BY <1>2 DEF PreferenceCriterion
    <3>5. [c EXCEPT !.weight = c.weight] = c
      BY <3>4
    <3> QED
      BY <3>2, <3>3, <3>5 DEF b
  <2> QED
    BY <2>3, <2>4
<1>9. _bind_graph_input(source, w) = _bind_graph_input(source, v)
  BY <1>8, SameBinding
<1> QED
  BY <1>9 DEF v

(***************************************************************************)
(* The decision and the requests about it.                                 *)
(***************************************************************************)
\* What was stored is a function of the decided input, but for the labels of the server.
IsStored == stored = Recorded(decided, stored.ledger.labels) /\ Reached(decided, FoundAt(decided))

\* An evaluation in the database is that of an input.
Held(w) == \E in : InputOK(in) /\ w = build_evaluation_graph_write(in, evaluate_decision_graph_once(in))

\* The invariant of the requests.
ReplayOK ==
    /\ InputOK(decided) /\ InputOK(input) /\ decided \in Inputs /\ fixture \in Releases(decided)
    /\ task.kind \in {"decide", "discover", "replay", "explain", "verify", "simulate", "done"}
    /\ task.kind = "decide" =>
         input = decided /\ reply = NoReply /\ simulations = {} /\ claims = {}
    /\ stage \in {"persist", "conflict"} => task.kind \in {"decide", "discover"}
    /\ stage = "written" => task.kind \in {"decide", "discover", "done"}
    /\ stage = "written" /\ task.kind # "discover" => input = decided
    /\ \A w \in rows : Held(w)
    /\ task.kind = "done" => stage = "written"
    /\ task.kind # "decide" \/ stage = "written" => IsStored
    /\ task.kind \in {"replay", "explain", "verify"} => input = _demo_graph_input
    /\ task.kind \in {"verify", "simulate"} => ValidWeights(task.body)
    /\ task.kind = "simulate" => input = _bind_graph_input(decided, task.body.overrides)

\* A fixture is an input the decision could be made from.
LEMMA ReleasedSource ==
  ASSUME NEW in \in Inputs, NEW f \in Releases(in)
  PROVE  InputOK(f.source)
<1>1. DecisionGraphInput(f.source) /\ Blocks(f.source) /\ Precise(f.source) /\ f.source.removed = {}
  BY ReleasesAssumption
<1>2. Divides(f.source)
  BY <1>1 DEF Precise, Divides
<1> QED
  BY <1>1, <1>2 DEF InputOK

\* So is what the source kept with the brief compiles to.
LEMMA KeptSource ==
  ASSUME NEW in \in Inputs
  PROVE  InputOK(Snapshot(in))
<1>1. /\ DecisionGraphInput(Snapshot(in)) /\ Blocks(Snapshot(in)) /\ Precise(Snapshot(in))
      /\ Snapshot(in).removed = {}
  BY SnapshotAssumption
<1>2. Divides(Snapshot(in))
  BY <1>1 DEF Precise, Divides
<1> QED
  BY <1>1, <1>2 DEF InputOK

\* The input the service rebuilds for a stored decision is an input.
LEMMA DemoInput ==
  ASSUME ReplayOK, IsStored
  PROVE  InputOK(_demo_graph_input)
<1> DEFINE w == _ledger_preference_weights(stored.ledger)
<1>1. InputOK(fixture.source)
  BY ReleasedSource DEF ReplayOK
<1>2. \A id \in DOMAIN w : w[id] \in 1..5
  <2>1. DecisionGraphInput(decided) /\ stored = Recorded(decided, stored.ledger.labels)
    BY DEF ReplayOK, InputOK, IsStored
  <2> QED
    BY <2>1, LedgerWeights
<1> HIDE DEF w
<1>3. InputOK(_bind_graph_input(fixture.source, w))
  BY <1>1, <1>2, BindKeeps
<1> QED
  BY <1>3 DEF _demo_graph_input, w

\* A request is answered.
LEMMA AnswerKeeps ==
  ASSUME EngineOK, ReplayOK, task.kind # "decide" \/ stage = "written", NEW a, Answer(a)
  PROVE  /\ EngineOK' /\ ReplayOK'
         /\ decided' = decided /\ stored' = stored /\ fixture' = fixture /\ reply' = a
<1>1. /\ task' = [kind |-> "done"] /\ Reset(decided, "written") /\ reply' = a
      /\ decided' = decided /\ fixture' = fixture /\ stored' = stored
  BY DEF Answer
<1>2. DecisionGraphInput(decided) /\ InputOK(decided) /\ IsStored
  BY DEF ReplayOK, InputOK
<1>3. EngineOK'
  BY <1>1, <1>2, ResetKeeps
<1>4. input' = decided /\ stage' = "written" /\ task'.kind = "done" /\ rows' = rows
  BY <1>1 DEF Reset
<1>5. IsStored'
  BY <1>1, <1>2 DEF IsStored
<1>6. ReplayOK'
  BY <1>1, <1>2, <1>4, <1>5 DEF ReplayOK
<1> QED
  BY <1>1, <1>3, <1>6

\* An answer that promises nothing.
LEMMA PlainAnswer ==
  ASSUME ReplayIsExact, decided' = decided, stored' = stored,
         simulations' = simulations, claims' = claims,
         reply'.verdict \notin {"REPLAYED", "REPLAY_INPUT_UNAVAILABLE", "EXPLAINED"}
  PROVE  ReplayIsExact'
<1>1. SimulationsHold
  BY DEF ReplayIsExact
<1>2. SimulationsHold'
  BY <1>1 DEF SimulationsHold, Unique
<1>3. VerifiedReplayAgrees' /\ OwnDecisionReplays' /\ ExplanationsHold'
  BY DEF VerifiedReplayAgrees, OwnDecisionReplays, ExplanationsHold
<1> QED
  BY <1>2, <1>3 DEF ReplayIsExact

\* What a step that leaves the requests alone keeps.
LEMMA ExactKept ==
  ASSUME ReplayIsExact, decided' = decided, stored' = stored, reply' = reply,
         simulations' = simulations, claims' = claims
  PROVE  ReplayIsExact'
<1>1. SimulationsHold /\ VerifiedReplayAgrees /\ OwnDecisionReplays /\ ExplanationsHold
  BY DEF ReplayIsExact
<1>2. SimulationsHold'
  BY <1>1 DEF SimulationsHold, Unique
<1>3. VerifiedReplayAgrees'
  BY <1>1 DEF VerifiedReplayAgrees
<1>4. OwnDecisionReplays'
  BY <1>1 DEF OwnDecisionReplays
<1>5. ExplanationsHold'
  BY <1>1 DEF ExplanationsHold
<1> QED
  BY <1>2, <1>3, <1>4, <1>5 DEF ReplayIsExact

\* A rerun that reaches the ledger found what the engine finds for its input.
LEMMA RerunFound ==
  ASSUME EngineOK, stage = "ledger"
  PROVE  /\ base = evaluate_decision_graph_once(input) /\ generic = GenericOf(input)
         /\ counterfactual = CounterfactualOf(input) /\ Sound(input)
  BY DEF EngineOK, StageOK, SearchedOK

\* A rerun whose digests are those of the run had the decision's own input.
LEMMA VerifiedIsOwn ==
  ASSUME ReplayOK, IsStored, _verified_demo_replay_source
  PROVE  input = decided
<1>1. _input_payload(decided) = _input_payload(input)
  <2>1. stored.run.input = _input_payload(decided)
    BY DEF IsStored, Recorded
  <2>2. stored.run.input = _input_payload(input)
    BY DEF _verified_demo_replay_source
  <2> QED
    BY <2>1, <2>2
<1> QED
  BY <1>1, DigestsProve DEF ReplayOK

\* A replay that compares equal was of the decided input.
LEMMA CompareIsExact ==
  ASSUME EngineOK, ReplayOK, ReplayIsExact, CompareReplay
  PROVE  ReplayIsExact'
<1> DEFINE old == stored.ledger
           new == build_decision_ledger(input, base, <<counterfactual, generic>>, fixture.labels)
<1>1. /\ stage = "ledger" /\ task.kind = "replay" /\ _verified_demo_replay_source
      /\ simulations' = simulations /\ claims' = claims
      /\ decided' = decided /\ stored' = stored /\ reply' = Compared(old, new)
  BY DEF CompareReplay, Answer
<1>2. IsStored
  BY <1>1 DEF ReplayOK
<1>3. input = decided
  BY <1>1, <1>2, VerifiedIsOwn
<1>4. /\ base = evaluate_decision_graph_once(decided)
      /\ <<counterfactual, generic>> = <<CounterfactualOf(decided), GenericOf(decided)>>
  BY <1>1, <1>3, RerunFound
<1> DEFINE made(l) == build_decision_ledger(decided, evaluate_decision_graph_once(decided),
                                             <<CounterfactualOf(decided), GenericOf(decided)>>, l)
<1>5. old = made(stored.ledger.labels) /\ new = made(fixture.labels)
  BY <1>2, <1>3, <1>4 DEF IsStored, Recorded
<1>6. \A l : /\ made(l).labels = l /\ made(l).ranked = made(stored.ledger.labels).ranked
             /\ made(l).results = made(stored.ledger.labels).results
             /\ made(l).counterfactual = made(stored.ledger.labels).counterfactual
  BY DEF build_decision_ledger
<1> HIDE DEF old, new, made
<1>7. /\ old.ranked = new.ranked /\ old.results = new.results
      /\ old.counterfactual = new.counterfactual
      /\ old = new <=> fixture.labels = stored.ledger.labels
  BY <1>5, <1>6
<1>8. CASE old.selected = <<>>
  <2>1. reply'.verdict = "INTERNAL"
    BY <1>1, <1>8 DEF Compared, Said
  <2> QED
    BY <1>1, <2>1, PlainAnswer
<1>9. CASE old.selected # <<>>
  <2>1. /\ reply'.verdict = "REPLAYED" /\ reply'.by = fixture
        /\ reply'.ordering <=> old.ranked = new.ranked
        /\ reply'.statuses <=> Statuses(old.results) = Statuses(new.results)
        /\ reply'.counterfactual <=> old.counterfactual = new.counterfactual
        /\ reply'.byteStable <=> old = new
    <3>1. reply' = [verdict |-> "REPLAYED", by |-> fixture,
                    ordering |-> old.ranked = new.ranked,
                    statuses |-> Statuses(old.results) = Statuses(new.results),
                    counterfactual |-> old.counterfactual = new.counterfactual,
                    byteStable |-> old = new]
      BY <1>1, <1>9 DEF Compared
    <3> QED
      BY <3>1
  <2>2. VerifiedReplayAgrees'
    BY <1>1, <1>7, <2>1 DEF VerifiedReplayAgrees
  <2>3. OwnDecisionReplays' /\ ExplanationsHold'
    BY <2>1 DEF OwnDecisionReplays, ExplanationsHold
  <2>4. SimulationsHold'
    BY <1>1 DEF ReplayIsExact, SimulationsHold, Unique
  <2> QED
    BY <2>2, <2>3, <2>4 DEF ReplayIsExact
<1> QED
  BY <1>8, <1>9

\* A replay is refused only when the digests do not prove the input.
LEMMA RefusalIsJust ==
  ASSUME EngineOK, ReplayOK, ReplayIsExact, RefuseReplay
  PROVE  ReplayIsExact'
<1> DEFINE w == _ledger_preference_weights(stored.ledger)
           source == fixture.source
           lost == {c \in decided.preferences : c.id \notin DOMAIN w}
<1>1. /\ stage = "ledger" /\ task.kind \in {"replay", "explain", "verify"}
      /\ ~_verified_demo_replay_source
      /\ simulations' = simulations /\ claims' = claims /\ decided' = decided /\ stored' = stored
      /\ reply' = [verdict |-> "REPLAY_INPUT_UNAVAILABLE", by |-> fixture]
  BY DEF RefuseReplay, Answer, Said
<1>2. IsStored /\ input = _demo_graph_input /\ InputOK(decided) /\ InputOK(source)
  BY <1>1, ReleasedSource DEF ReplayOK
<1>3. ASSUME _bind_graph_input(source, Weights(decided.preferences)) = decided,
             \A c \in lost : c \in source.preferences
      PROVE  FALSE
  <2>1. /\ \A id \in DOMAIN w : \E c \in decided.preferences : c.id = id /\ w[id] = c.weight
        /\ \A id \in DOMAIN w : w[id] \in 1..5
    <3>1. DecisionGraphInput(decided) /\ stored = Recorded(decided, stored.ledger.labels)
      BY <1>2 DEF InputOK, IsStored
    <3> QED
      BY <3>1, LedgerWeights
  <2>2. \A c \in decided.preferences : c.id \notin DOMAIN w => c \in source.preferences
    BY <1>3
  <2> HIDE DEF w, source
  <2>3. _bind_graph_input(source, w) = decided
    BY <1>2, <1>3, <2>1, <2>2, OwnInput
  <2>4. input = decided
    BY <1>2, <2>3 DEF _demo_graph_input, w, source
  <2>5. base = evaluate_decision_graph_once(decided)
    BY <1>1, <2>4, RerunFound
  <2>6. stored.run.input = _input_payload(input)
    BY <1>2, <2>4 DEF IsStored, Recorded
  <2>7. stored.run.payload = evaluation_canonical_payload(input, base)
    BY <1>2, <2>4, <2>5 DEF IsStored, Recorded
  <2> QED
    BY <1>1, <2>6, <2>7 DEF _verified_demo_replay_source
<1>4. OwnDecisionReplays'
  <2>1. reply'.by = fixture
    BY <1>1
  <2> QED
    BY <1>1, <1>3, <2>1 DEF OwnDecisionReplays
<1>5. VerifiedReplayAgrees' /\ ExplanationsHold'
  BY <1>1 DEF VerifiedReplayAgrees, ExplanationsHold
<1>6. SimulationsHold'
  BY <1>1 DEF ReplayIsExact, SimulationsHold, Unique
<1> QED
  BY <1>4, <1>5, <1>6 DEF ReplayIsExact

\* The product of a selected plan is the last of what its id names.
LEMMA SelectedProduct ==
  ASSUME NEW in, InputOK(in), Sound(in), NEW plans, plans = FrozenPlans(in),
         NEW id, id = rank_and_frontiers(plans).selected, id # <<>>
  PROVE  Last((CHOOSE p \in plans : p.id = id).components) = Last(id)
<1>1. ArePlans(plans) /\ \A p \in plans : IsBuilt(p)
  BY EvaluatedPlans DEF InputOK
<1>2. Selection(plans) \in Rankable(plans) /\ id = Selection(plans).id
  BY <1>1, SomethingSelected
<1>3. Selection(plans) \in plans
  BY <1>2 DEF Rankable, EligiblePlans
<1> DEFINE p == CHOOSE p \in plans : p.id = id
<1>4. p \in plans /\ p.id = id
  BY <1>2, <1>3
<1> HIDE DEF p
<1> DEFINE a == p.action  c == p.components
<1>5. /\ a \in {ActionNames[n] : n \in DOMAIN ActionNames} /\ c \in Seq(Int) /\ c # <<>>
      /\ id = _plan_id(a, c)
  BY <1>1, <1>4 DEF IsBuilt
<1> HIDE DEF a, c
<1>6. Len(id) = Len(c) + 1 /\ \A i \in 1..Len(c) : id[i + 1] = c[i]
  BY <1>5, PlanIdType
<1>7. Len(c) \in 1..Len(c)
  BY <1>5
<1>8. id[Len(id)] = c[Len(c)]
  BY <1>6, <1>7
<1> QED
  BY <1>8 DEF Last, c, p

\* An explanation that is given is of the decided input.
LEMMA ExplanationIsExact ==
  ASSUME EngineOK, ReplayOK, ReplayIsExact, Explain
  PROVE  ReplayIsExact'
<1>1. /\ stage = "ledger" /\ task.kind = "explain" /\ _verified_demo_replay_source
      /\ simulations' = simulations /\ claims' = claims /\ decided' = decided /\ stored' = stored
      /\ reply' = Explained
  BY DEF Explain, Answer
<1>2. IsStored /\ InputOK(decided)
  BY <1>1 DEF ReplayOK
<1>3. input = decided
  BY <1>1, <1>2, VerifiedIsOwn
<1>4. base = evaluate_decision_graph_once(decided) /\ Sound(decided)
  BY <1>1, <1>3, RerunFound
<1>5. CASE <<>> \in {generic.rank.selected, base.rank.selected}
  <2>1. reply'.verdict = "DECISION_SELECTION_UNAVAILABLE"
    BY <1>1, <1>5 DEF Explained, Said
  <2> QED
    BY <1>1, <2>1, PlainAnswer
<1>6. CASE <<>> \notin {generic.rank.selected, base.rank.selected}
  <2> DEFINE removed == CounterfactualOf(decided).removed
             few == {s \in SUBSET PrivateIds(decided) : Cardinality(s) <= CounterfactualLimit}
  <2>1. /\ reply'.verdict = "EXPLAINED" /\ reply'.product = Chosen(base.rank.selected)
        /\ reply'.decisive = stored.ledger.counterfactual[1].removed
    BY <1>1, <1>6 DEF Explained
  <2>2. /\ stored.ledger.counterfactual[1] = CounterfactualOf(decided)
        /\ stored.ledger.selected = evaluate_decision_graph_once(decided).rank.selected
    <3>1. stored = Recorded(decided, stored.ledger.labels)
      BY <1>2 DEF IsStored
    <3>2. \A l : /\ Recorded(decided, l).ledger.counterfactual = <<CounterfactualOf(decided), GenericOf(decided)>>
                 /\ Recorded(decided, l).ledger.selected = evaluate_decision_graph_once(decided).rank.selected
      BY DEF Recorded, build_decision_ledger
    <3> QED
      BY <3>1, <3>2
  <2>3. reply'.product = Last(stored.ledger.selected)
    <3>1. base.plans = FrozenPlans(decided) /\ base.rank = rank_and_frontiers(FrozenPlans(decided))
      BY <1>4, EvaluationParts
    <3>2. Chosen(base.rank.selected) = Last(base.rank.selected)
      BY <1>2, <1>4, <1>6, <3>1, SelectedProduct DEF Chosen
    <3> QED
      BY <1>4, <2>1, <2>2, <3>2
  <2>4. Minimal(decided, removed)
    BY <1>2, FoundIsMinimal DEF IsStored, InputOK, CounterfactualOf
  <2>5. /\ removed # {} => Selects(Without(decided, removed)) # Selects(decided)
        /\ removed = {} => \A s \in few : Selects(Without(decided, s)) = Selects(decided)
    BY <2>4 DEF Minimal, Changes
  <2>6. ExplanationsHold'
    BY <1>1, <2>1, <2>2, <2>3, <2>5 DEF ExplanationsHold, Selects
  <2>7. VerifiedReplayAgrees' /\ OwnDecisionReplays'
    BY <2>1 DEF VerifiedReplayAgrees, OwnDecisionReplays
  <2>8. SimulationsHold'
    BY <1>1 DEF ReplayIsExact, SimulationsHold, Unique
  <2> QED
    BY <2>6, <2>7, <2>8 DEF ReplayIsExact
<1> QED
  BY <1>5, <1>6

\* What a simulation is to report.
SeenBy(body) ==
    IF body.mode = "GENERIC_REQUEST_ONLY"
    THEN Without(_bind_graph_input(decided, body.overrides), PrivateIds(decided))
    ELSE _bind_graph_input(decided, body.overrides)

\* What a simulation reports is the ranking of the input it is about.
LEMMA ReportedRank ==
  ASSUME EngineOK, ReplayOK, stage = "ledger", task.kind = "simulate"
  PROVE  Reported = evaluate_decision_graph_once(SeenBy(task.body)).rank
<1>1. input = _bind_graph_input(decided, task.body.overrides) /\ InputOK(decided)
  BY DEF ReplayOK
<1>2. base = evaluate_decision_graph_once(input) /\ generic = GenericOf(input)
  BY RerunFound
<1>3. CASE task.body.mode = "GENERIC_REQUEST_ONLY"
  <2>1. input.facts = decided.facts
    BY <1>1, BindFields DEF InputOK
  <2>2. {f.id : f \in {g \in input.facts : g.private}} = PrivateIds(decided)
    BY <1>1, <2>1 DEF InputOK, PrivateIds
  <2>3. Anonymous(input) = SeenBy(task.body)
    BY <1>1, <1>3, <2>2 DEF Anonymous, SeenBy
  <2>4. generic.rank = evaluate_decision_graph_once(Anonymous(input)).rank
    BY <1>2 DEF GenericOf, Rerun
  <2> QED
    BY <1>3, <2>3, <2>4 DEF Reported
<1>4. CASE task.body.mode # "GENERIC_REQUEST_ONLY"
  BY <1>1, <1>2, <1>4 DEF Reported, SeenBy
<1> QED
  BY <1>3, <1>4

\* A simulation that is recorded is of the decided input with the asked-for weights.
LEMMA SimulationIsExact ==
  ASSUME EngineOK, ReplayOK, ReplayIsExact, RecordSimulation
  PROVE  ReplayIsExact'
<1> DEFINE body == task.body
           same == {s \in simulations : s.body = body}
           fresh == [body |-> body, order |-> Reported.ranked, selected |-> Reported.selected]
           result == IF same # {} THEN CHOOSE s \in same : TRUE ELSE fresh
           used == {c \in claims : c.key = task.key}
           claim == [key |-> task.key, response |-> result]
<1>1. /\ stage = "ledger" /\ task.kind = "simulate" /\ decided' = decided /\ stored' = stored
      /\ reply'.verdict \in {"SIMULATED", "IDEMPOTENCY_CONFLICT"}
      /\ \/ used = {} /\ simulations' = simulations \cup {result} /\ claims' = claims \cup {claim}
         \/ simulations' = simulations /\ claims' = claims
  BY DEF RecordSimulation, Answer, Said
<1>2. CASE simulations' = simulations /\ claims' = claims
  BY <1>1, <1>2, PlainAnswer
<1>3. CASE used = {} /\ simulations' = simulations \cup {result} /\ claims' = claims \cup {claim}
  <2> DEFINE holds(s) == LET rank == evaluate_decision_graph_once(SeenBy(s.body)).rank
                         IN  s.order = rank.ranked /\ s.selected = rank.selected
  <2>1. /\ \A s \in simulations : holds(s)
        /\ \A s, t \in simulations : s.body = t.body => s = t
        /\ \A c, d \in claims : c.key = d.key => c = d
    BY DEF ReplayIsExact, SimulationsHold, SeenBy, Unique
  <2>2. result \in simulations \/ (same = {} /\ result = fresh)
    OBVIOUS
  <2>3. holds(fresh) /\ fresh.body = body
    BY <1>1, ReportedRank
  <2>4. claim.key = task.key
    OBVIOUS
  <2> HIDE DEF fresh, result, claim
  <2>5. \A s \in simulations' : holds(s)
    BY <1>3, <2>1, <2>2, <2>3
  <2>6. \A s, t \in simulations' : s.body = t.body => s = t
    BY <1>3, <2>1, <2>2, <2>3
  <2>7. \A c, d \in claims' : c.key = d.key => c = d
    BY <1>3, <2>1, <2>4
  <2>8. SimulationsHold'
    BY <1>1, <2>5, <2>6, <2>7 DEF SimulationsHold, SeenBy, Unique
  <2>9. VerifiedReplayAgrees' /\ OwnDecisionReplays' /\ ExplanationsHold'
    BY <1>1 DEF VerifiedReplayAgrees, OwnDecisionReplays, ExplanationsHold
  <2> QED
    BY <2>8, <2>9 DEF ReplayIsExact
<1> QED
  BY <1>1, <1>2, <1>3

\* The inductive invariant.
IInv == EngineOK /\ ReplayOK /\ ReplayIsExact

\* The initial states satisfy the inductive invariant.
LEMMA InitHolds ==
  ASSUME ReplayInit
  PROVE  IInv
<1>1. /\ input \in Inputs /\ decided = input /\ fixture \in Releases(input)
      /\ rows = {} /\ stage = "recall" /\ base = NoEvaluation /\ search = NoSearch
      /\ counterfactual = NoCounterfactual /\ task = [kind |-> "decide"]
      /\ reply = NoReply /\ simulations = {} /\ claims = {}
  BY DEF ReplayInit, Init
<1>2. InputOK(input)
  <2>1. DecisionGraphInput(input) /\ Blocks(input) /\ input.removed = {}
    BY <1>1, InputsAssumption, GatesAssumption
  <2>2. Precise(input)
    BY <1>1, PrecisionAssumption
  <2>3. Divides(input)
    BY <2>2 DEF Precise, Divides
  <2> QED
    BY <2>1, <2>3 DEF InputOK
<1>3. EngineOK
  <2>1. BaseOK /\ StageOK /\ SearchedOK
    BY <1>1 DEF BaseOK, StageOK, SearchedOK
  <2> QED
    BY <1>1, <1>2, <2>1 DEF EngineOK, StageNames, InputOK
<1>4. ReplayOK
  BY <1>1, <1>2 DEF ReplayOK
<1>5. ReplayIsExact
  BY <1>1 DEF ReplayIsExact, VerifiedReplayAgrees, OwnDecisionReplays, ExplanationsHold,
              SimulationsHold, Unique, NoReply
<1> QED
  BY <1>3, <1>4, <1>5 DEF IInv

\* The stages of an evaluation preserve the inductive invariant.
LEMMA StagesHold ==
  ASSUME IInv, Stages
  PROVE  IInv'
<1>1. /\ \/ RecallAndDeduplicate \/ AssessEvidence \/ BuildSolutionPlans \/ RankAndFrontiers
         \/ EvaluateGeneric \/ SearchCardinality \/ RecordCounterfactual
      /\ decided' = decided /\ fixture' = fixture /\ task' = task /\ stored' = stored
      /\ reply' = reply /\ simulations' = simulations /\ claims' = claims
  BY DEF Stages, outside
<1>2. EngineOK' /\ input' = input /\ stage' \notin {"persist", "written", "conflict"}
  BY <1>1, StagesKeep DEF IInv
<1>3. stage # "written" /\ rows' = rows
  BY <1>1 DEF RecallAndDeduplicate, AssessEvidence, BuildSolutionPlans, RankAndFrontiers, Stage,
              EvaluateGeneric, SearchCardinality, RecordCounterfactual
<1>4. IsStored' <=> IsStored
  BY <1>1 DEF IsStored
<1>5. _demo_graph_input' = _demo_graph_input
  BY <1>1 DEF _demo_graph_input
<1>6. ReplayOK'
  BY <1>1, <1>2, <1>3, <1>4, <1>5 DEF IInv, ReplayOK
<1>7. ReplayIsExact'
  BY <1>1, ExactKept DEF IInv
<1> QED
  BY <1>2, <1>6, <1>7 DEF IInv

\* Compiling the ledger preserves it.
LEMMA CompileHolds ==
  ASSUME IInv, CompileLedger
  PROVE  IInv'
<1>1. /\ task.kind \in {"decide", "discover"} /\ BuildDecisionLedger
      /\ decided' = decided /\ fixture' = fixture /\ task' = task /\ stored' = stored
      /\ reply' = reply /\ simulations' = simulations /\ claims' = claims
  BY DEF CompileLedger, outside
<1>2. EngineOK'
  BY <1>1, LedgerKeeps DEF IInv
<1>3. input' = input /\ stage = "ledger" /\ stage' \in {"failed", "persist"} /\ rows' = rows
  BY <1>1 DEF BuildDecisionLedger
<1>4. ReplayOK'
  <2>1. IsStored' <=> IsStored
    BY <1>1 DEF IsStored
  <2> QED
    BY <1>1, <1>3, <2>1 DEF IInv, ReplayOK
<1>5. ReplayIsExact'
  BY <1>1, ExactKept DEF IInv
<1> QED
  BY <1>2, <1>4, <1>5 DEF IInv

\* What a write adds to the database is the evaluation of its input.
LEMMA WriteIsHeld ==
  ASSUME EngineOK, ReplayOK, PersistBaseGraph
  PROVE  \A w \in rows' : Held(w)
<1> DEFINE write == build_evaluation_graph_write(input, base)
<1>1. stage = "persist" /\ rows' \in {rows, rows \cup {write}}
  BY DEF PersistBaseGraph
<1>2. base = evaluate_decision_graph_once(input) /\ InputOK(input) /\ \A w \in rows : Held(w)
  BY <1>1 DEF EngineOK, StageOK, ReplayOK
<1>3. Held(write)
  BY <1>2 DEF Held
<1> HIDE DEF write
<1> QED
  BY <1>1, <1>2, <1>3

\* Writing the decision, and remembering what was decided, preserves it.
LEMMA WriteHolds ==
  ASSUME IInv, WriteDecision
  PROVE  IInv'
<1>1. /\ task.kind = "decide" /\ PersistBaseGraph
      /\ decided' = decided /\ fixture' = fixture /\ task' = task
      /\ reply' = reply /\ simulations' = simulations /\ claims' = claims
  BY DEF WriteDecision
<1>2. EngineOK' /\ stage = "persist" /\ stage' \in {"failed", "written", "conflict"} /\ input' = input
  BY <1>1, PersistKeeps DEF IInv
<1>3. input = decided /\ reply = NoReply /\ simulations = {} /\ claims = {}
  BY <1>1 DEF IInv, ReplayOK
<1>4. ASSUME stage' = "written" PROVE IsStored'
  <2>1. /\ base = evaluate_decision_graph_once(decided) /\ generic = GenericOf(decided)
        /\ counterfactual = CounterfactualOf(decided) /\ Reached(decided, FoundAt(decided))
    BY <1>2, <1>3 DEF IInv, EngineOK, StageOK, SearchedOK
  <2>2. stored' = Recorded(decided, fixture.labels)
    BY <1>3, <1>4, <2>1 DEF WriteDecision, Recorded
  <2>3. stored'.ledger.labels = fixture.labels
    BY <2>2 DEF Recorded, build_decision_ledger
  <2> QED
    BY <1>1, <2>1, <2>2, <2>3 DEF IsStored
<1>5. ReplayOK'
  <2>1. \A w \in rows' : Held(w)
    BY <1>1, WriteIsHeld DEF IInv
  <2> QED
    BY <1>1, <1>2, <1>3, <1>4, <2>1 DEF IInv, ReplayOK
<1>6. reply' = NoReply /\ simulations' = {} /\ claims' = {}
  BY <1>1, <1>3
<1>7. ReplayIsExact'
  BY <1>6 DEF ReplayIsExact, VerifiedReplayAgrees, OwnDecisionReplays, ExplanationsHold,
              SimulationsHold, Unique, NoReply
<1> QED
  BY <1>2, <1>5, <1>7 DEF IInv

\* A release of the service with other fixtures preserves it.
LEMMA ReleaseHolds ==
  ASSUME IInv, Release
  PROVE  IInv'
<1>1. /\ stage = "written" /\ task.kind # "discover"
      /\ fixture' \in Releases(decided) /\ UNCHANGED vars
      /\ decided' = decided /\ task' = task /\ stored' = stored
      /\ reply' = reply /\ simulations' = simulations /\ claims' = claims
  BY DEF Release, Quiet
<1>2. /\ input' = input /\ stage' = stage /\ base' = base /\ generic' = generic /\ search' = search
      /\ counterfactual' = counterfactual /\ rows' = rows
  BY <1>1 DEF vars
<1>3. EngineOK'
  BY <1>2 DEF IInv, EngineOK, BaseOK, StageOK, SearchedOK
<1>4. IsStored' <=> IsStored
  BY <1>1 DEF IsStored
<1>5. ReplayOK'
  BY <1>1, <1>2, <1>4 DEF IInv, ReplayOK
<1>6. ReplayIsExact'
  BY <1>1, ExactKept DEF IInv
<1> QED
  BY <1>3, <1>5, <1>6 DEF IInv

\* A request that begins preserves it.
LEMMA BeginHolds ==
  ASSUME IInv, NEW request, Begin(request),
         \/ request.kind \in {"replay", "explain"}
         \/ request.kind = "verify" /\ ValidWeights(request.body)
  PROVE  IInv'
<1>1. /\ stage = "written" /\ task' = request /\ Reset(_demo_graph_input, "recall")
      /\ decided' = decided /\ fixture' = fixture /\ stored' = stored
      /\ reply' = reply /\ simulations' = simulations /\ claims' = claims
  BY DEF Begin, Quiet
<1>2. IsStored
  BY <1>1 DEF IInv, ReplayOK
<1>3. InputOK(_demo_graph_input)
  BY <1>2, DemoInput DEF IInv
<1>4. EngineOK'
  BY <1>1, <1>3, ResetKeeps DEF InputOK
<1>5. input' = _demo_graph_input /\ stage' = "recall" /\ rows' = rows
  BY <1>1 DEF Reset
<1>6. _demo_graph_input' = _demo_graph_input
  BY <1>1 DEF _demo_graph_input
<1>7. IsStored'
  BY <1>1, <1>2 DEF IsStored
<1>8. ReplayOK'
  BY <1>1, <1>3, <1>5, <1>6, <1>7 DEF IInv, ReplayOK, ValidWeights
<1>9. ReplayIsExact'
  BY <1>1, ExactKept DEF IInv
<1> QED
  BY <1>4, <1>8, <1>9 DEF IInv

\* Another discovery of the brief preserves it.
LEMMA DiscoverHolds ==
  ASSUME IInv, DiscoverAgain
  PROVE  IInv'
<1>1. /\ stage = "written" /\ task' = [kind |-> "discover"] /\ Reset(Snapshot(decided), "recall")
      /\ decided' = decided /\ fixture' = fixture /\ stored' = stored
      /\ reply' = reply /\ simulations' = simulations /\ claims' = claims
  BY DEF DiscoverAgain, Quiet
<1>2. IsStored
  BY <1>1 DEF IInv, ReplayOK
<1>3. InputOK(Snapshot(decided))
  BY KeptSource DEF IInv, ReplayOK
<1>4. EngineOK'
  BY <1>1, <1>3, ResetKeeps DEF InputOK
<1>5. input' = Snapshot(decided) /\ stage' = "recall" /\ rows' = rows /\ task'.kind = "discover"
  BY <1>1 DEF Reset
<1>6. IsStored'
  BY <1>1, <1>2 DEF IsStored
<1>7. ReplayOK'
  BY <1>1, <1>3, <1>5, <1>6 DEF IInv, ReplayOK
<1>8. ReplayIsExact'
  BY <1>1, ExactKept DEF IInv
<1> QED
  BY <1>4, <1>7, <1>8 DEF IInv

\* So does its write.
LEMMA RewriteHolds ==
  ASSUME IInv, WriteDiscovery
  PROVE  IInv'
<1>1. /\ task.kind = "discover" /\ PersistBaseGraph
      /\ decided' = decided /\ fixture' = fixture /\ task' = task /\ stored' = stored
      /\ reply' = reply /\ simulations' = simulations /\ claims' = claims
  BY DEF WriteDiscovery, outside
<1>2. EngineOK' /\ stage = "persist" /\ stage' \in {"failed", "written", "conflict"} /\ input' = input
  BY <1>1, PersistKeeps DEF IInv
<1>3. \A w \in rows' : Held(w)
  BY <1>1, WriteIsHeld DEF IInv
<1>4. IsStored' <=> IsStored
  BY <1>1 DEF IsStored
<1>5. ReplayOK'
  BY <1>1, <1>2, <1>3, <1>4 DEF IInv, ReplayOK
<1>6. ReplayIsExact'
  BY <1>1, ExactKept DEF IInv
<1> QED
  BY <1>2, <1>5, <1>6 DEF IInv

\* A request that is answered with neither a replay nor an explanation preserves it.
LEMMA RefusalHolds ==
  ASSUME IInv, NEW verdict, verdict \notin {"REPLAYED", "REPLAY_INPUT_UNAVAILABLE", "EXPLAINED"},
         Answer(Said(verdict)), simulations' = simulations, claims' = claims,
         task.kind # "decide" \/ stage = "written"
  PROVE  IInv'
<1>1. /\ EngineOK' /\ ReplayOK' /\ decided' = decided /\ stored' = stored
      /\ reply' = Said(verdict)
  BY AnswerKeeps DEF IInv
<1>2. reply'.verdict = verdict
  BY <1>1 DEF Said
<1>3. ReplayIsExact'
  BY <1>1, <1>2, PlainAnswer DEF IInv
<1> QED
  BY <1>1, <1>3 DEF IInv

\* The rerun of a simulation preserves it.
LEMMA SimulateHolds ==
  ASSUME IInv, Simulate
  PROVE  IInv'
<1>1. /\ stage = "ledger" /\ task.kind = "verify" /\ _verified_demo_replay_source
      /\ task' = [task EXCEPT !.kind = "simulate"]
      /\ Reset(_bind_graph_input(input, task.body.overrides), "recall")
      /\ decided' = decided /\ fixture' = fixture /\ stored' = stored
      /\ reply' = reply /\ simulations' = simulations /\ claims' = claims
  BY DEF Simulate
<1>2. IsStored /\ ValidWeights(task.body) /\ InputOK(decided)
  BY <1>1 DEF IInv, ReplayOK
<1>3. input = decided
  BY <1>1, <1>2, VerifiedIsOwn DEF IInv
<1> DEFINE in == _bind_graph_input(decided, task.body.overrides)
<1>4. InputOK(in)
  BY <1>2, BindKeeps DEF ValidWeights
<1> HIDE DEF in
<1>5. Reset(in, "recall")
  BY <1>1, <1>3 DEF in
<1>6. EngineOK'
  BY <1>4, <1>5, ResetKeeps DEF InputOK
<1>7. input' = in /\ stage' = "recall" /\ rows' = rows
  BY <1>5 DEF Reset
<1>8. IsStored'
  BY <1>1, <1>2 DEF IsStored
<1>9. ReplayOK'
  <2>1. task'.kind = "simulate" /\ task'.body = task.body
    <3>1. "kind" \in DOMAIN task \/ "kind" \notin DOMAIN task
      OBVIOUS
    <3> QED
      BY <1>1
  <2>2. ValidWeights(task'.body) /\ input' = _bind_graph_input(decided', task'.body.overrides)
    BY <1>1, <1>2, <1>7, <2>1 DEF in
  <2> QED
    BY <1>1, <1>4, <1>7, <1>8, <2>1, <2>2 DEF IInv, ReplayOK
<1>10. ReplayIsExact'
  BY <1>1, ExactKept DEF IInv
<1> QED
  BY <1>6, <1>9, <1>10 DEF IInv

\* Every answer that says something of the decision preserves it.
LEMMA AnswersHold ==
  ASSUME IInv, RefuseReplay \/ CompareReplay \/ Explain \/ RecordSimulation
  PROVE  IInv'
<1>1. EngineOK /\ ReplayOK /\ ReplayIsExact
  BY DEF IInv
<1>2. ReplayIsExact'
  BY <1>1, RefusalIsJust, CompareIsExact, ExplanationIsExact, SimulationIsExact
<1>3. PICK a : Answer(a) /\ task.kind # "decide"
  <2>1. CASE RefuseReplay
    BY <2>1 DEF RefuseReplay
  <2>2. CASE CompareReplay
    BY <2>2 DEF CompareReplay
  <2>3. CASE Explain
    BY <2>3 DEF Explain
  <2>4. CASE RecordSimulation
    <3>1. task.kind = "simulate" /\ (Answer(Said("SIMULATED")) \/ Answer(Said("IDEMPOTENCY_CONFLICT")))
      BY <2>4 DEF RecordSimulation
    <3> QED
      BY <3>1
  <2> QED
    BY <2>1, <2>2, <2>3, <2>4
<1>4. EngineOK' /\ ReplayOK'
  BY <1>1, <1>3, AnswerKeeps
<1> QED
  BY <1>2, <1>4 DEF IInv

\* Every refusal preserves it.
LEMMA RefusalsHold ==
  ASSUME IInv,
         (\E body \in Bodies : RefuseWeights(body)) \/ FailRequest \/ RefuseCriterion
           \/ RefusePlanless \/ AnswerDiscovery
  PROVE  IInv'
<1>1. PICK verdict \in {"SIMULATION_WEIGHT_INVALID", "INTERNAL", "SIMULATION_CRITERION_UNKNOWN",
                        "SIMULATION_NO_EXECUTABLE_PLAN", "DISCOVERED", "DATABASE_UNAVAILABLE"} :
        /\ Answer(Said(verdict)) /\ simulations' = simulations /\ claims' = claims
        /\ task.kind # "decide" \/ stage = "written"
  <2>1. CASE \E body \in Bodies : RefuseWeights(body)
    BY <2>1 DEF RefuseWeights, Quiet
  <2>2. CASE FailRequest
    BY <2>2 DEF FailRequest
  <2>3. CASE RefuseCriterion
    BY <2>3 DEF RefuseCriterion
  <2>4. CASE RefusePlanless
    BY <2>4 DEF RefusePlanless
  <2>5. CASE AnswerDiscovery
    BY <2>5 DEF AnswerDiscovery
  <2> QED
    BY <2>1, <2>2, <2>3, <2>4, <2>5
<1>2. verdict \notin {"REPLAYED", "REPLAY_INPUT_UNAVAILABLE", "EXPLAINED"}
  BY <1>1
<1> QED
  BY <1>1, <1>2, RefusalHolds

\* Every request preserves it.
LEMMA RequestsHold ==
  ASSUME IInv, BeginReplay \/ BeginExplanation \/ \E body \in Bodies, key \in Keys : BeginSimulation(body, key)
  PROVE  IInv'
<1>1. PICK request : /\ Begin(request)
                     /\ \/ request.kind \in {"replay", "explain"}
                        \/ request.kind = "verify" /\ ValidWeights(request.body)
  <2>1. CASE BeginReplay
    <3>1. Begin([kind |-> "replay"]) /\ [kind |-> "replay"].kind = "replay"
      BY <2>1 DEF BeginReplay
    <3> QED
      BY <3>1
  <2>2. CASE BeginExplanation
    <3>1. Begin([kind |-> "explain"]) /\ [kind |-> "explain"].kind = "explain"
      BY <2>2 DEF BeginExplanation
    <3> QED
      BY <3>1
  <2>3. ASSUME NEW body \in Bodies, NEW key \in Keys, BeginSimulation(body, key)
        PROVE  \E request : /\ Begin(request)
                            /\ \/ request.kind \in {"replay", "explain"}
                               \/ request.kind = "verify" /\ ValidWeights(request.body)
    <3> DEFINE request == [kind |-> "verify", body |-> body, key |-> key]
    <3>1. Begin(request) /\ ValidWeights(body)
      BY <2>3 DEF BeginSimulation
    <3>2. request.kind = "verify" /\ request.body = body
      OBVIOUS
    <3> HIDE DEF request
    <3> QED
      BY <3>1, <3>2
  <2> QED
    BY <2>1, <2>2, <2>3
<1> QED
  BY <1>1, BeginHolds

\* A stuttering step preserves it.
LEMMA NothingHappens ==
  ASSUME IInv, UNCHANGED replayVars
  PROVE  IInv'
<1>1. /\ input' = input /\ stage' = stage /\ base' = base /\ generic' = generic /\ search' = search
      /\ counterfactual' = counterfactual /\ rows' = rows /\ decided' = decided
      /\ fixture' = fixture /\ task' = task /\ stored' = stored /\ reply' = reply /\ simulations' = simulations
      /\ claims' = claims
  BY DEF replayVars, vars, outside
<1>2. EngineOK'
  BY <1>1 DEF IInv, EngineOK, BaseOK, StageOK, SearchedOK
<1>3. ReplayOK'
  BY <1>1 DEF IInv, ReplayOK, IsStored, _demo_graph_input
<1>4. ReplayIsExact'
  BY <1>1, ExactKept DEF IInv
<1> QED
  BY <1>2, <1>3, <1>4 DEF IInv

\* Every step preserves the inductive invariant.
LEMMA NextHolds ==
  ASSUME IInv, [ReplayNext]_replayVars
  PROVE  IInv'
<1>1. CASE Stages
  BY <1>1, StagesHold
<1>2. CASE CompileLedger
  BY <1>2, CompileHolds
<1>3. CASE WriteDecision
  BY <1>3, WriteHolds
<1>4. CASE Release
  BY <1>4, ReleaseHolds
<1>5. CASE BeginReplay \/ BeginExplanation
             \/ \E body \in Bodies, key \in Keys : BeginSimulation(body, key)
  BY <1>5, RequestsHold
<1>6. CASE (\E body \in Bodies : RefuseWeights(body)) \/ FailRequest \/ RefuseCriterion
             \/ RefusePlanless \/ AnswerDiscovery
  BY <1>6, RefusalsHold
<1>7. CASE RefuseReplay \/ CompareReplay \/ Explain \/ RecordSimulation
  BY <1>7, AnswersHold
<1>8. CASE Simulate
  BY <1>8, SimulateHolds
<1>9. CASE UNCHANGED replayVars
  BY <1>9, NothingHappens
<1>10. CASE DiscoverAgain
  BY <1>10, DiscoverHolds
<1>11. CASE WriteDiscovery
  BY <1>11, RewriteHolds
<1> QED
  BY <1>1, <1>2, <1>3, <1>4, <1>5, <1>6, <1>7, <1>8, <1>9, <1>10, <1>11 DEF ReplayNext

\* In every reachable state of the engine and of the requests about its stored decision the
\* inductive invariant holds.
THEOREM EngineSound == ReplaySpec => []IInv
<1>1. ReplayInit => IInv
  BY InitHolds
<1>2. IInv /\ [ReplayNext]_replayVars => IInv'
  BY NextHolds
<1> QED
  BY <1>1, <1>2, PTL DEF ReplaySpec

\* In every reachable state the stage is known and satisfactions, risk, cost, coverage and age
\* keep their ends in order, whatever facts and evidence graph_v1.py computes them from.
THEOREM EngineTypeCorrect == ReplaySpec => []EngineTypeOK
<1>1. IInv => EngineTypeOK
  BY BaseIsTyped DEF IInv, EngineOK
<1> QED
  BY <1>1, EngineSound, PTL

\* In every reachable state a selection is called STABLE exactly when every eligible competitor
\* loses to it however the uncertain quantities turn out.
THEOREM StableMeansFirstHolds == ReplaySpec => []StableMeansFirst
<1>1. IInv => StableMeansFirst
  BY BaseIsStable DEF IInv, EngineOK
<1> QED
  BY <1>1, EngineSound, PTL

\* In every reachable state the counterfactual that was reported is the smallest set of private
\* facts whose removal changes the selection, and none is reported only when there is none.
THEOREM CounterfactualMinimal == ReplaySpec => []CounterfactualIsMinimal
<1>1. IInv => CounterfactualIsMinimal
  BY CounterfactualHolds DEF IInv
<1> QED
  BY <1>1, EngineSound, PTL

\* In every reachable state what a replay, an explanation or a simulation answered is what the
\* engine computes of the decided input, and a refusal is justified.
THEOREM ReplayExact == ReplaySpec => []ReplayIsExact
<1>1. IInv => ReplayIsExact
  BY DEF IInv
<1> QED
  BY <1>1, EngineSound, PTL

\* The precedence lists every candidate status once.
LEMMA StatusRange ==
         /\ Range(StatusPrecedence) = CandidateStatus
         /\ \A s \in CandidateStatus : StatusRank(s) \in Nat
         /\ \A r, s \in CandidateStatus : StatusRank(r) = StatusRank(s) => r = s
<1>1. DOMAIN StatusPrecedence = 1..11
  BY DEF StatusPrecedence
<1>2. Range(StatusPrecedence) = {StatusPrecedence[n] : n \in 1..11}
  BY <1>1 DEF Range
<1>3. {StatusPrecedence[n] : n \in 1..11} = CandidateStatus
  BY DEF StatusPrecedence, CandidateStatus
<1>4. ASSUME NEW s \in CandidateStatus
      PROVE  StatusRank(s) \in 1..11 /\ StatusPrecedence[StatusRank(s)] = s
  <2>1. PICK n \in 1..11 : StatusPrecedence[n] = s
    BY <1>3
  <2> QED
    BY <1>1, <2>1 DEF StatusRank
<1> QED
  BY <1>2, <1>3, <1>4

\* The status a plan gets is one of the reasons its gates give, or the plan is eligible.
LEMMA PrimaryStatus ==
  ASSUME NEW gates, \A g \in gates : g.reasons \in SUBSET CandidateStatus
  PROVE  LET status == _primary_status(gates)
         IN  /\ status \in CandidateStatus
             /\ (\A g \in gates : g.reasons = {}) => status = "ELIGIBLE"
             /\ (\E g \in gates : g.reasons # {}) => \E g \in gates : status \in g.reasons
<1> DEFINE reasons == UNION {g.reasons : g \in gates}
           ranks == {StatusRank(r) : r \in reasons}
<1>1. reasons \in SUBSET CandidateStatus
  OBVIOUS
<1>2. _primary_status(gates) =
        IF reasons = {} THEN "ELIGIBLE"
        ELSE CHOOSE r \in reasons : \A s \in reasons : StatusRank(r) <= StatusRank(s)
  BY DEF _primary_status
<1>3. "ELIGIBLE" \in CandidateStatus
  BY DEF CandidateStatus
<1>4. (\A g \in gates : g.reasons = {}) <=> reasons = {}
  OBVIOUS
<1>5. \A r \in reasons : \E g \in gates : r \in g.reasons
  OBVIOUS
<1> HIDE DEF reasons
<1>6. ASSUME reasons # {} PROVE \E r \in reasons : \A s \in reasons : StatusRank(r) <= StatusRank(s)
  <2>1. ranks \in SUBSET Nat /\ ranks # {}
    BY <1>1, <1>6, StatusRange
  <2>2. PICK n \in ranks : \A k \in ranks : n <= k
    BY <2>1, LeastNatural
  <2> QED
    BY <2>2
<1> QED
  BY <1>1, <1>2, <1>3, <1>4, <1>5, <1>6

\* What can be wrong with a bundle.
BundleIssues == Issues \cup {"MISSING_REQUIRED_DEPENDENCY_OFFER", "INCOMPARABLE_DEPENDENCY_COST"}

\* What is known of a gate of a plan.
IsGate(g) == g.truth \in {"TRUE", "FALSE", "UNKNOWN", "CONFLICT"} /\ g.reasons \in SUBSET CandidateStatus

\* Every gate has a truth and gives known reasons, and a plan has each gate once.
LEMMA RuleType ==
  ASSUME NEW in, NEW gate, gate.blocked \in CandidateStatus, NEW m, NEW assessments
  PROVE  LET g == _evaluate_gate(in, gate, m, assessments)
         IN  IsGate(g) /\ g.gate = <<"rule", gate.id>>
<1> DEFINE parts == {SellerRuleEvidence(gate, assessments)} \cup
             {IF gate.blocked = "SEIL_PASS" THEN SellerPredicate(in, p)
              ELSE BuyerPredicate(m, p, assessments) : p \in gate.predicates}
           known == CandidateStatus
<1>1. SellerRuleEvidence(gate, assessments).reasons \in SUBSET known
  BY DEF SellerRuleEvidence, CandidateStatus
<1>2. \A p : SellerPredicate(in, p).reasons \in SUBSET known
  BY DEF SellerPredicate, CandidateStatus
<1>3. \A p : BuyerPredicate(m, p, assessments).reasons \in SUBSET known
  BY DEF BuyerPredicate, CandidateStatus
<1>4. \A x \in parts : x.reasons \in SUBSET known
  BY <1>1, <1>2, <1>3
<1> HIDE DEF parts
<1>5. (UNION {x.reasons : x \in parts}) \in SUBSET known
  BY <1>4
<1>6. LET g == GateOutcome(gate, parts)
      IN  IsGate(g) /\ g.gate = <<"rule", gate.id>>
  BY <1>5 DEF GateOutcome, IsGate
<1> QED
  BY <1>6 DEF _evaluate_gate, parts

\* Every gate of a plan has a truth value and reasons, and is told apart by its name.
LEMMA GatesType ==
  ASSUME NEW in, DecisionGraphInput(in), NEW m, m.issues \in SUBSET BundleIssues, NEW assessments
  PROVE  LET gates == evaluate_gates(in, m, assessments)
         IN  /\ \A g \in gates : IsGate(g)
             /\ \A g, h \in gates : g.gate = h.gate => g = h
<1> DEFINE rules == {h \in in.gates : _gate_applies(in, h, m)}
           rule(g) == _evaluate_gate(in, g, m, assessments)
           available == _availability_gate(m)
<1>1. \A g \in rules : IsGate(rule(g)) /\ rule(g).gate = <<"rule", g.id>>
  BY RuleType, InputRows DEF GateRule
<1>2. IsGate(available) /\ available.gate = <<"availability", 0>>
  BY DEF _availability_gate, IsGate, CandidateStatus
<1>3. \A g \in _authority_gate(m) : IsGate(g) /\ g.gate = <<"authority", 0>>
  BY DEF _authority_gate, IsGate, CandidateStatus
<1>4. \A g \in _dependency_gates(m) : IsGate(g) /\ \E issue \in BundleIssues : g.gate = <<issue, 0>>
  BY DEF _dependency_gates, IsGate, CandidateStatus
<1>5. \A g, h \in _dependency_gates(m) : g.gate = h.gate => g = h
  BY DEF _dependency_gates
<1>6. \A g, h \in _authority_gate(m) : g = h
  BY DEF _authority_gate
<1>7. \A g, h \in rules : rule(g).gate = rule(h).gate => rule(g) = rule(h)
  <2>1. \A g, h \in rules : g.id = h.id => g = h
    BY InputKeys
  <2> HIDE DEF rules, rule
  <2> QED
    BY <1>1, <2>1
<1>8. evaluate_gates(in, m, assessments) =
        {available} \cup _dependency_gates(m) \cup _authority_gate(m) \cup {rule(g) : g \in rules}
  BY DEF evaluate_gates
<1> HIDE DEF rules, rule, available
<1>9. \A g \in evaluate_gates(in, m, assessments) : IsGate(g)
  BY <1>1, <1>2, <1>3, <1>4, <1>8
<1>10. \A issue \in BundleIssues : issue \notin {"availability", "authority", "rule"}
  BY DEF BundleIssues, Issues
<1>11. ASSUME NEW g \in evaluate_gates(in, m, assessments),
              NEW h \in evaluate_gates(in, m, assessments), g.gate = h.gate
       PROVE  g = h
  <2>1. \A x \in evaluate_gates(in, m, assessments) :
          \/ x = available /\ x.gate[1] = "availability"
          \/ x \in _dependency_gates(m) /\ x.gate[1] \in BundleIssues
          \/ x \in _authority_gate(m) /\ x.gate[1] = "authority"
          \/ x.gate[1] = "rule" /\ \E k \in rules : x = rule(k)
    BY <1>1, <1>2, <1>3, <1>4, <1>8
  <2> QED
    BY <1>5, <1>6, <1>7, <1>10, <1>11, <2>1
<1> QED
  BY <1>9, <1>11

\* No product is twice in a bundle, and what is wrong with it has a name.
LEMMA MaterialShape ==
  ASSUME NEW in, DecisionGraphInput(in), NEW recall, IsRecall(recall), NEW m \in Materials(in, recall)
  PROVE  /\ m.issues \in SUBSET BundleIssues
         /\ \A i, j \in DOMAIN m.components : m.components[i] = m.components[j] => i = j
<1>1. ASSUME NEW root \in recall.representatives, m = PackMaterial(in, recall, root)
      PROVE  /\ m.issues \in SUBSET BundleIssues
             /\ \A i, j \in DOMAIN m.components : m.components[i] = m.components[j] => i = j
  <2> DEFINE s == closure(recall, root)
             records == s.ordered
             bill == _combined_cost(in, records)
  <2>1. SearchOK(recall, root, s)
    BY ClosureOK
  <2>2. /\ s.issues \in SUBSET Issues
        /\ \A i, j \in DOMAIN records : records[i].product = records[j].product => i = j
    BY <2>1 DEF SearchOK, SearchType, Searches, SearchOnce
  <2>3. bill.issues \in SUBSET {"MISSING_REQUIRED_DEPENDENCY_OFFER", "INCOMPARABLE_DEPENDENCY_COST"}
    BY DEF _combined_cost
  <2>4. /\ m.components = [i \in DOMAIN records |-> records[i].product]
        /\ m.issues = s.issues \cup bill.issues
    BY <1>1 DEF PackMaterial, ClosedMaterial, BundleMaterial
  <2> HIDE DEF s, bill
  <2>5. m.issues \in SUBSET BundleIssues
    BY <2>2, <2>3, <2>4 DEF BundleIssues
  <2>6. \A i, j \in DOMAIN m.components : m.components[i] = m.components[j] => i = j
    BY <2>2, <2>4
  <2> QED
    BY <2>5, <2>6
<1>2. ASSUME NEW a \in in.current, m = _current_material(a)
      PROVE  /\ m.issues \in SUBSET BundleIssues
             /\ \A i, j \in DOMAIN m.components : m.components[i] = m.components[j] => i = j
  BY <1>2 DEF _current_material
<1> QED
  BY <1>1, <1>2 DEF Materials

\* The state of a score is one of four.
LEMMA ScoreState ==
  ASSUME NEW in, NEW m, NEW assessments, NEW c
  PROVE  Score(in, m, assessments, c).state \in EvidenceStates
<1> DEFINE field == _field_state(m.facts, c.field, assessments)
<1>1. \A states, several : StateOf(states, several) \in EvidenceStates
  BY DEF StateOf, EvidenceStates
<1>2. field.state \in EvidenceStates
  BY <1>1 DEF _field_state
<1> HIDE DEF field
<1>3. OutcomeScore(in, c, m, field, assessments).state \in EvidenceStates
  <2>1. "UNKNOWN" \in EvidenceStates
    BY DEF EvidenceStates
  <2> QED
    BY <1>1, <2>1 DEF OutcomeScore
<1>4. FieldScore(c, field).state = field.state
  BY DEF FieldScore
<1>5. Score(in, m, assessments, c).state = IF c.normalization = "OUTCOME_RATE"
        THEN OutcomeScore(in, c, m, field, assessments).state ELSE FieldScore(c, field).state
  BY DEF Score, field
<1> QED
  BY <1>2, <1>3, <1>4, <1>5

\* What the tables ask of a plan and its rows.
IsRecordable(p) ==
    /\ p.lifecycle \in {"RESOLUTION_PENDING", "EXECUTABLE", "BLOCKED"}
    /\ p.status \in CandidateStatus
    /\ \A i, j \in DOMAIN p.components : p.components[i] = p.components[j] => i = j
    /\ \A g \in p.gates : IsGate(g)
    /\ \A g, h \in p.gates : g.gate = h.gate => g = h
    /\ \A s \in p.scores : s.state \in EvidenceStates
    /\ \A s, t \in p.scores : s.id = t.id => s = t
    /\ p.hard[1] \in Int

\* A plan has finitely many gates.
LEMMA GatesFinite ==
  ASSUME NEW in, DecisionGraphInput(in), NEW m, m.issues \in SUBSET BundleIssues, NEW assessments
  PROVE  IsFiniteSet(evaluate_gates(in, m, assessments))
<1> DEFINE rules == {h \in in.gates : _gate_applies(in, h, m)}
           rule == [g \in rules |-> _evaluate_gate(in, g, m, assessments)]
           R == {_evaluate_gate(in, g, m, assessments) : g \in rules}
           issue == [x \in m.issues |-> [gate |-> <<x, 0>>, truth |-> "FALSE",
                                         reasons |-> {"SIRA_INELIGIBLE"}, resolution |-> {}]]
           D == _dependency_gates(m)
           A == _authority_gate(m)
<1>1. evaluate_gates(in, m, assessments) = {_availability_gate(m)} \cup D \cup A \cup R
  BY DEF evaluate_gates
<1>2. rules \in SUBSET in.gates /\ IsFiniteSet(in.gates)
  BY InputFinite
<1>3. DOMAIN rule = rules /\ \A y \in R : \E x \in DOMAIN rule : y = rule[x]
  OBVIOUS
<1>4. DOMAIN issue = m.issues /\ \A y \in D : \E x \in DOMAIN issue : y = issue[x]
  BY DEF _dependency_gates
<1>5. IsFiniteSet(BundleIssues)
  <2> DEFINE f == <<"CYCLIC_COMPONENT_DEPENDENCY", "MISSING_REQUIRED_COMPONENT",
                    "AMBIGUOUS_REQUIRED_COMPONENT", "MISSING_REQUIRED_DEPENDENCY_OFFER",
                    "INCOMPARABLE_DEPENDENCY_COST">>
             n == 5
  <2>1. n \in Int /\ DOMAIN f = 1..n /\ \A y \in BundleIssues : \E x \in DOMAIN f : y = f[x]
    BY DEF BundleIssues, Issues
  <2> HIDE DEF f, n
  <2>2. IsFiniteSet(1..n)
    BY <2>1, FS_Interval
  <2> QED
    BY <2>1, <2>2, FiniteCover
<1>6. IsFiniteSet(A)
  BY FS_EmptySet, FS_Singleton DEF _authority_gate
<1> HIDE DEF rules, rule, R, issue, D, A
<1>7. IsFiniteSet(R)
  BY <1>2, <1>3, FS_Subset, FiniteCover
<1>8. IsFiniteSet(D)
  BY <1>4, <1>5, FS_Subset, FiniteCover
<1>9. IsFiniteSet({_availability_gate(m)})
  BY FS_Singleton
<1> QED
  BY <1>1, <1>6, <1>7, <1>8, <1>9, FS_Union

\* The satisfied hard gates are counted.
LEMMA HardCoverageType ==
  ASSUME NEW in, NEW gates, IsFiniteSet(gates)
  PROVE  HardCoverage(in, gates)[1] \in Int
<1> DEFINE seller == {<<"rule", g.id>> : g \in {h \in in.gates : h.blocked = "SEIL_PASS"}}
           hard == {g \in gates : /\ g.gate \notin seller
                                  /\ g.gate \notin {<<"availability", 0>>, <<"authority", 0>>}}
           met == {g \in hard : g.truth = "TRUE"}
<1>1. HardCoverage(in, gates) = IF hard = {} THEN <<1, 1>> ELSE <<Cardinality(met), Cardinality(hard)>>
  BY DEF HardCoverage
<1>2. met \in SUBSET gates
  OBVIOUS
<1> HIDE DEF met, hard
<1>3. Cardinality(met) \in Nat
  BY <1>2, FS_Subset, FS_CardinalityType
<1> QED
  BY <1>1, <1>3

\* The plan of a material can be recorded.
LEMMA PlanRecordable ==
  ASSUME NEW in, DecisionGraphInput(in), NEW recall, IsRecall(recall),
         NEW m \in Materials(in, recall), NEW assessments
  PROVE  IsRecordable(Plan(in, m, assessments))
<1> DEFINE p == Plan(in, m, assessments)
           gates == evaluate_gates(in, m, assessments)
           scores == _score_components(in, m, assessments)
<1>1. m.issues \in SUBSET BundleIssues
        /\ \A i, j \in DOMAIN m.components : m.components[i] = m.components[j] => i = j
  BY MaterialShape
<1>2. /\ \A g \in gates : IsGate(g)
      /\ \A g, h \in gates : g.gate = h.gate => g = h
  BY <1>1, GatesType
<1>3. _primary_status(gates) \in CandidateStatus
  BY <1>2, PrimaryStatus DEF IsGate
<1>4. \A status, bounded, resolution : Lifecycle(status, bounded, resolution) \in
        {"RESOLUTION_PENDING", "EXECUTABLE", "BLOCKED"}
  BY DEF Lifecycle
<1>5. /\ \A s \in scores : s.state \in EvidenceStates
      /\ \A s, t \in scores : s.id = t.id => s = t
  <2>1. \A c \in Scored(in, m) : Score(in, m, assessments, c).id = c.id
    BY DEF Score
  <2>2. \A c, d \in Scored(in, m) : c.id = d.id => c = d
    BY InputKeys DEF Scored
  <2> HIDE DEF scores
  <2>3. scores = {Score(in, m, assessments, c) : c \in Scored(in, m)}
    BY ScoresAre DEF scores
  <2> QED
    BY <2>1, <2>2, <2>3, ScoreState
<1>6. _material_dimensions(in, m, assessments).scores = scores
  BY DEF _material_dimensions, ScoredDimensions, Dimensions
<1>9. IsFiniteSet(gates)
  BY <1>1, GatesFinite
<1> HIDE DEF gates, scores
<1>10. HardCoverage(in, gates)[1] \in Int
  BY <1>9, HardCoverageType
<1>7. p = EvaluatedPlan(in, m, gates, _material_dimensions(in, m, assessments))
  BY DEF Plan, gates
<1>8. /\ p.status = _primary_status(gates) /\ p.gates = gates /\ p.components = m.components
      /\ p.scores = scores /\ p.hard = HardCoverage(in, gates)
      /\ p.lifecycle \in {"RESOLUTION_PENDING", "EXECUTABLE", "BLOCKED"}
  BY <1>4, <1>6, <1>7 DEF EvaluatedPlan
<1> HIDE DEF p
<1> QED
  BY <1>1, <1>2, <1>3, <1>5, <1>8, <1>10 DEF IsRecordable, p

\* The plans of an input can be recorded.
LEMMA PlansRecordable ==
  ASSUME NEW in, DecisionGraphInput(in)
  PROVE  \A p \in FrozenPlans(in) : IsRecordable(p)
<1>1. \A p \in FrozenPlans(in) : \E m \in Materials(in, recall_and_deduplicate(in)) :
        p = Plan(in, m, FrozenAssessments(in))
  BY DEF FrozenPlans, build_solution_plans
<1> QED
  BY <1>1, RecallType, PlanRecordable

\* A piece of evidence is assessed once for a field.
LEMMA AssessmentsRecordable ==
  ASSUME NEW in, DecisionGraphInput(in), ~AssessmentRaises(in, recall_and_deduplicate(in))
  PROVE  /\ \A a \in FrozenAssessments(in) : a.state \in EvidenceStates
         /\ \A a, b \in FrozenAssessments(in) : a.evidence = b.evidence /\ a.field = b.field => a = b
<1> DEFINE pairs == MaterialPairs(in, recall_and_deduplicate(in))
<1>1. FrozenAssessments(in) = {Assessment(in, x) : x \in pairs}
  BY AssessmentsAre DEF FrozenAssessments
<1>2. \A x \in pairs : PolicyFor(in, x[2]) # {}
  BY DEF AssessmentRaises
<1> HIDE DEF pairs
<1>3. ASSUME NEW x \in pairs
      PROVE  /\ Assessment(in, x).evidence = x[1] /\ Assessment(in, x).field = x[2]
             /\ Assessment(in, x).state \in EvidenceStates
  <2> DEFINE e == CHOOSE e \in EvidenceFor(in, x[1]) : TRUE
             q == CHOOSE p \in PolicyFor(in, x[2]) : TRUE
  <2>1. q.field = x[2]
    BY <1>2 DEF PolicyFor
  <2>2. CASE EvidenceFor(in, x[1]) = {}
    <3>1. Assessment(in, x) = MissingAssessment(x[1], x[2])
      BY <2>2 DEF Assessment
    <3> QED
      BY <3>1 DEF MissingAssessment, EvidenceStates
  <2>3. CASE EvidenceFor(in, x[1]) # {}
    <3>1. e.id = x[1]
      BY <2>3 DEF EvidenceFor
    <3>2. Assessment(in, x) = _assessment(in, e, q)
      BY <2>3 DEF Assessment
    <3> HIDE DEF e, q
    <3> QED
      BY <2>1, <3>1, <3>2 DEF _assessment, EvidenceStates
  <2> QED
    BY <2>2, <2>3
<1>4. \A x, y : x[1] = y[1] /\ x[2] = y[2] => Assessment(in, x) = Assessment(in, y)
  BY DEF Assessment
<1> QED
  BY <1>1, <1>3, <1>4

\* The positions of the members of a finite set of numbers.
LEMMA PositionsDiffer ==
  ASSUME NEW S \in SUBSET Int, IsFiniteSet(S)
  PROVE  /\ \A x \in S : Position(S, x) \in Nat /\ Position(S, x) < Cardinality(S)
         /\ \A x, y \in S : Position(S, x) = Position(S, y) => x = y
<1> DEFINE below(x) == {y \in S : y < x}
<1>1. \A x : Position(S, x) = Cardinality(below(x))
  BY DEF Position
<1>2. ASSUME NEW x \in S
      PROVE  /\ below(x) \in SUBSET S /\ below(x) # S
             /\ \A y \in S : y < x => below(y) \in SUBSET below(x) /\ below(y) # below(x)
  <2>1. x \in Int /\ x \notin below(x) /\ below(x) \in SUBSET S
    OBVIOUS
  <2>2. ASSUME NEW y \in S, y < x PROVE below(y) \in SUBSET below(x) /\ below(y) # below(x)
    <3>1. y \in below(x) /\ y \notin below(y)
      BY <2>2
    <3>2. \A z \in below(y) : z \in below(x)
      BY <2>1, <2>2
    <3> QED
      BY <3>1, <3>2
  <2> QED
    BY <2>1, <2>2
<1> HIDE DEF below
<1>3. \A x \in S : IsFiniteSet(below(x)) /\ Cardinality(below(x)) \in Nat /\ Cardinality(S) \in Nat
  BY <1>2, FS_Subset, FS_CardinalityType
<1>4. \A x \in S : Cardinality(below(x)) < Cardinality(S)
  BY <1>2, <1>3, FS_Subset
<1>5. \A x \in S : \A y \in S : y < x => Cardinality(below(y)) < Cardinality(below(x))
  BY <1>2, <1>3, FS_Subset
<1> QED
  BY <1>1, <1>3, <1>4, <1>5

\* The candidate set members of an input whose sources do not clash pass their constraints.
LEMMA MembersAdmitted ==
  ASSUME NEW in, DecisionGraphInput(in), ~SourcesClash(in), NEW e
  PROVE  candidate_set_members_admit(_candidate_members(in, e))
<1> DEFINE merged == {x.record : x \in e.recall.merges}
           excluded == {x.record : x \in e.recall.exclusions}
           records == {r.id : r \in in.records}
           actions == {a.id : a \in in.current}
           identity(id) == CHOOSE k \in e.recall.identities : id \in k.records
           pack(r) == [source |-> r.id, kind |-> "PACK", ordinal |-> Position(records, r.id),
                       version |-> r.version,
                       identity |-> IF r.id \in excluded THEN <<r.id>> ELSE identity(r.id).key,
                       disposition |-> IF r.id \in excluded THEN "EXCLUDED"
                                       ELSE IF r.id \in merged THEN "DEDUPLICATED"
                                       ELSE "INCLUDED"]
           act(a) == [source |-> a.id, kind |-> MemberKind(a.action), identity |-> <<a.instance>>,
                      ordinal |-> Cardinality(records) + Position(actions, a.id), version |-> None,
                      disposition |-> "INCLUDED"]
           recs == _candidate_members(in, e)
<1>1. recs = {pack(r) : r \in in.records} \cup {act(a) : a \in in.current}
  BY DEF _candidate_members
<1>2. \A r \in in.records :
        /\ pack(r).source = r.id /\ pack(r).kind = "PACK"
        /\ pack(r).ordinal = Position(records, r.id) /\ pack(r).version = r.version
        /\ pack(r).disposition \in {"INCLUDED", "EXCLUDED", "DEDUPLICATED"}
  OBVIOUS
<1>3. \A a \in in.current :
        /\ act(a).source = a.id /\ act(a).kind \in {"CURRENT_STACK", "CONTRACT_ACTION", "NO_ACTION"}
        /\ act(a).ordinal = Cardinality(records) + Position(actions, a.id)
        /\ act(a).version = None /\ act(a).disposition = "INCLUDED"
  BY DEF MemberKind
<1>4. records \in SUBSET Int /\ actions \in SUBSET Int
  BY InputRows DEF RawCandidateRecord, CurrentActionRecord
<1>5. records \cap actions = {}
  BY DEF SourcesClash
<1>6. /\ \A a, b \in in.current : a.id = b.id => a = b
      /\ \A r, s \in in.records : r.id = s.id => r = s
  BY InputKeys
<1>7. (\A a \in in.current : a.id \in actions) /\ \A r \in in.records : r.id \in records
  OBVIOUS
<1>16. \A r \in in.records : r.version >= 1
  BY InputRows DEF RawCandidateRecord
<1>8. IsFiniteSet(records)
  <2> DEFINE f == [r \in in.records |-> r.id]
  <2>1. IsFiniteSet(DOMAIN f) /\ \A y \in records : \E x \in DOMAIN f : y = f[x]
    BY InputFinite
  <2> HIDE DEF f, records
  <2> QED
    BY <2>1, FiniteCover
<1>9. IsFiniteSet(actions)
  <2> DEFINE f == [r \in in.current |-> r.id]
  <2>1. IsFiniteSet(DOMAIN f) /\ \A y \in actions : \E x \in DOMAIN f : y = f[x]
    BY InputFinite
  <2> HIDE DEF f, actions
  <2> QED
    BY <2>1, FiniteCover
<1> HIDE DEF records, actions, pack, act, recs
<1>10. /\ \A x \in records : Position(records, x) \in Nat /\ Position(records, x) < Cardinality(records)
       /\ \A x, y \in records : Position(records, x) = Position(records, y) => x = y
  BY <1>4, <1>8, PositionsDiffer
<1>11. /\ \A x \in actions : Position(actions, x) \in Nat
       /\ \A x, y \in actions : Position(actions, x) = Position(actions, y) => x = y
  BY <1>4, <1>9, PositionsDiffer
<1>12. Cardinality(records) \in Nat
  BY <1>8, FS_CardinalityType
<1>13. \A m, n \in recs : m.source = n.source => m = n
  BY <1>1, <1>2, <1>3, <1>5, <1>6, <1>7
<1>14. \A m, n \in recs : m.ordinal = n.ordinal => m = n
  BY <1>1, <1>2, <1>3, <1>6, <1>7, <1>10, <1>11, <1>12
<1>15. \A m \in recs : /\ m.kind \in MemberKinds
                       /\ m.disposition \in {"INCLUDED", "EXCLUDED", "DEDUPLICATED"}
                       /\ m.ordinal >= 0
                       /\ m.version = None \/ m.version >= 1
  <2>1. \A m \in recs : /\ m.kind \in MemberKinds
                        /\ m.disposition \in {"INCLUDED", "EXCLUDED", "DEDUPLICATED"}
                        /\ m.version = None \/ m.version >= 1
    BY <1>1, <1>2, <1>3, <1>16 DEF MemberKinds
  <2>2. \A m \in recs : m.ordinal >= 0
    BY <1>1, <1>2, <1>3, <1>7, <1>10, <1>11, <1>12
  <2> QED
    BY <2>1, <2>2
<1> QED
  BY <1>13, <1>14, <1>15 DEF candidate_set_members_admit, Unique, recs

\* The identity merges pass their constraints.
LEMMA MergesAdmitted ==
  ASSUME NEW in, DecisionGraphInput(in)
  PROVE  identity_merges_admit(recall_and_deduplicate(in).merges)
<1> DEFINE merges == recall_and_deduplicate(in).merges
<1>1. merges = UNION {{[key |-> k, record |-> r.id] : r \in Alike(in, k) \ {LeastRecord(Alike(in, k))}} :
                        k \in {_identity_key(in, r) : r \in Kept(in)}}
  BY DEF recall_and_deduplicate, Kept, Alike
<1> HIDE DEF merges
<1>2. \A x \in merges : \E r \in in.records : x = [key |-> _identity_key(in, r), record |-> r.id]
  BY <1>1 DEF Alike, Kept
<1>3. \A r, s \in in.records : r.id = s.id => r = s
  BY InputKeys
<1>4. \A x, y \in merges : x.record = y.record => x = y
  BY <1>2, <1>3
<1> QED
  BY <1>4 DEF identity_merges_admit, Unique, merges

\* The plans an evaluation of its own can be recorded with.
Recordable(e) ==
    /\ ArePlans(e.plans) /\ \A p \in e.plans : IsBuilt(p) /\ IsRecordable(p)
    /\ \A p, q \in e.plans : p.id = q.id => p = q
    /\ e.rank = rank_and_frontiers(e.plans)

\* The row of one plan.
PlanRow(e, p) ==
    [plan |-> p.id, action |-> p.action, status |-> p.status, lifecycle |-> p.lifecycle,
     rank |-> RankPosition(e, p), selected |-> p.id = e.rank.selected,
     ordering |-> Marks(e, p).ordering, resolution |-> Marks(e, p).resolution,
     quote |-> Marks(e, p).quote, autonomous |-> Marks(e, p).autonomous]

\* The rows of the plans, field by field.
LEMMA PlanRows ==
  ASSUME NEW e
  PROVE  /\ _solution_plan_records(e) = {PlanRow(e, p) : p \in e.plans}
         /\ \A p : /\ PlanRow(e, p).plan = p.id /\ PlanRow(e, p).status = p.status
                   /\ PlanRow(e, p).action = p.action
                   /\ PlanRow(e, p).lifecycle = p.lifecycle /\ PlanRow(e, p).rank = RankPosition(e, p)
                   /\ PlanRow(e, p).selected <=> p.id = e.rank.selected
<1>1. _solution_plan_records(e) = {PlanRow(e, p) : p \in e.plans}
  BY DEF _solution_plan_records, PlanRow
<1>2. \A p : /\ PlanRow(e, p).plan = p.id /\ PlanRow(e, p).status = p.status
             /\ PlanRow(e, p).action = p.action
             /\ PlanRow(e, p).lifecycle = p.lifecycle /\ PlanRow(e, p).rank = RankPosition(e, p)
  BY DEF PlanRow
<1>3. \A p : PlanRow(e, p).selected = (p.id = e.rank.selected)
  BY DEF PlanRow
<1> QED
  BY <1>1, <1>2, <1>3, Zenon

\* A plan's rank is where its id stands in the ranking, or 0.
LEMMA RankPositionType ==
  ASSUME NEW e, Recordable(e), NEW p \in e.plans
  PROVE  /\ RankPosition(e, p) \in Nat
         /\ RankPosition(e, p) # 0 => e.rank.ranked[RankPosition(e, p)] = p.id
<1> DEFINE places == {n \in DOMAIN e.rank.ranked : e.rank.ranked[n] = p.id} \cup {0}
           k == Cardinality(Rankable(e.plans))
<1>1. e.rank.ranked = ranked_ids(e.plans)
  <2>1. e.rank = rank_and_frontiers(e.plans)
    BY DEF Recordable
  <2>2. rank_and_frontiers(e.plans).ranked = ranked_ids(e.plans)
    BY DEF rank_and_frontiers
  <2> QED
    BY <2>1, <2>2
<1>2. k \in Nat
  <2>1. Rankable(e.plans) \in SUBSET e.plans /\ IsFiniteSet(e.plans)
    BY DEF Rankable, EligiblePlans, Recordable, ArePlans
  <2> QED
    BY <2>1, FS_Subset, FS_CardinalityType
<1>3. DOMAIN e.rank.ranked = 1..k
  BY <1>1 DEF ranked_ids
<1>4. places \in SUBSET (0..k) /\ places # {}
  BY <1>2, <1>3
<1> HIDE DEF places, k
<1>5. IsFiniteSet(0..k)
  <2>1. 0 \in Int /\ k \in Int
    BY <1>2
  <2> QED
    BY <2>1, FS_Interval
<1>6. IsFiniteSet(places)
  BY <1>4, <1>5, FS_Subset
<1>7. places \in SUBSET Int
  BY <1>2, <1>4
<1>8. Max(places) \in places
  BY <1>4, <1>6, <1>7, Extrema
<1>9. Max(places) \in Nat
  <2>1. \A x \in places : x \in Nat
    BY <1>2, <1>4
  <2> QED
    BY <1>8, <2>1
<1> QED
  BY <1>8, <1>9 DEF RankPosition, places

\* The selected id is the id of one plan, or no id.
LEMMA SelectedId ==
  ASSUME NEW e, Recordable(e)
  PROVE  /\ e.rank.selected = <<>> => \A p \in e.plans : p.id # <<>>
         /\ e.rank.selected # <<>> => \E p \in e.plans : p.id = e.rank.selected
<1>1. ArePlans(e.plans) /\ \A p \in e.plans : IsBuilt(p)
  BY DEF Recordable
<1>2. ASSUME NEW p \in e.plans PROVE p.id # <<>>
  <2>1. /\ p.id = _plan_id(p.action, p.components) /\ p.components \in Seq(Int)
        /\ p.action \in {ActionNames[n] : n \in DOMAIN ActionNames}
    BY <1>1 DEF IsBuilt
  <2>2. Len(_plan_id(p.action, p.components)) = Len(p.components) + 1
    BY <2>1, PlanIdType
  <2>3. Len(p.components) \in Nat
    BY <2>1
  <2>4. Len(p.id) # 0
    BY <2>1, <2>2, <2>3
  <2> QED
    BY <2>4
<1>3. LET rank == rank_and_frontiers(e.plans)
      IN  /\ rank.selected # <<>> <=> Rankable(e.plans) # {}
          /\ Rankable(e.plans) # {} =>
               Selection(e.plans) \in Rankable(e.plans) /\ rank.selected = Selection(e.plans).id
  BY <1>1, SomethingSelected
<1>4. Rankable(e.plans) \in SUBSET e.plans
  BY DEF Rankable, EligiblePlans
<1>5. e.rank = rank_and_frontiers(e.plans)
  BY DEF Recordable
<1> QED
  BY <1>2, <1>3, <1>4, <1>5

\* The rows of the plans pass their constraints and the cross-checks on the selected one.
LEMMA PlansAdmitted ==
  ASSUME NEW e, Recordable(e)
  PROVE  LET recs == _solution_plan_records(e)
             chosen == {p \in recs : p.selected}
             placed == {p \in recs : p.rank # 0}
         IN  /\ evaluation_solution_plans_admit(recs)
             /\ IF e.rank.selected = <<>> THEN chosen = {}
                ELSE Cardinality(chosen) = 1 /\ \A p \in chosen : p.plan = e.rank.selected
             /\ Unique(placed, LAMBDA p : p.rank)
             /\ {p.plan : p \in recs} = {p.id : p \in e.plans}
<1> DEFINE recs == _solution_plan_records(e)
           chosen == {p \in recs : p.selected}
           placed == {p \in recs : p.rank # 0}
           row(p) == PlanRow(e, p)
<1>1. /\ recs = {row(p) : p \in e.plans}
      /\ \A p \in e.plans : /\ row(p).plan = p.id /\ row(p).status = p.status
                            /\ row(p).action = p.action
                            /\ row(p).lifecycle = p.lifecycle /\ row(p).rank = RankPosition(e, p)
  BY PlanRows
<1>10. \A p \in e.plans : row(p).selected <=> p.id = e.rank.selected
  BY PlanRows
<1> HIDE DEF row, recs
<1>2. \A p, q \in e.plans : p.id = q.id => p = q
  BY DEF Recordable
<1>3. chosen = {row(p) : p \in {q \in e.plans : q.id = e.rank.selected}}
  BY <1>1, <1>10, Zenon
<1>4. \A r, s \in recs : r.plan = s.plan => r = s
  BY <1>1, <1>2
<1>5. \A r \in recs : /\ r.lifecycle \in {"CANDIDATE", "RESOLUTION_PENDING", "EXECUTABLE", "BLOCKED"}
                      /\ r.status \in Range(StatusPrecedence) /\ r.action \in Range(ActionNames)
                      /\ r.rank = 0 \/ r.rank >= 1
  <2>1. \A p \in e.plans : /\ p.lifecycle \in {"RESOLUTION_PENDING", "EXECUTABLE", "BLOCKED"}
                            /\ p.status \in CandidateStatus
    BY DEF Recordable, IsRecordable
  <2>2. \A p \in e.plans : p.action \in Range(ActionNames)
    BY DEF Recordable, IsBuilt, Range
  <2>3. \A p \in e.plans : RankPosition(e, p) = 0 \/ RankPosition(e, p) >= 1
    BY RankPositionType
  <2> QED
    BY <1>1, <2>1, <2>2, <2>3, StatusRange
<1>6. evaluation_solution_plans_admit(recs)
  BY <1>4, <1>5 DEF evaluation_solution_plans_admit, Unique
<1>7. IF e.rank.selected = <<>> THEN chosen = {}
      ELSE Cardinality(chosen) = 1 /\ \A p \in chosen : p.plan = e.rank.selected
  <2>1. CASE e.rank.selected = <<>>
    BY <1>3, <2>1, SelectedId
  <2>2. CASE e.rank.selected # <<>>
    <3>1. PICK p \in e.plans : p.id = e.rank.selected
      BY <2>2, SelectedId
    <3>2. {q \in e.plans : q.id = e.rank.selected} = {p}
      BY <1>2, <3>1
    <3>3. chosen = {row(p)}
      BY <1>3, <3>2
    <3>4. Cardinality(chosen) = 1
      BY <3>3, FS_Singleton
    <3>5. \A r \in chosen : r.plan = e.rank.selected
      BY <1>1, <3>1, <3>3
    <3> QED
      BY <2>2, <3>4, <3>5
  <2> QED
    BY <2>1, <2>2
<1>8. \A r, s \in placed : r.rank = s.rank => r = s
  <2>1. ASSUME NEW p \in e.plans, NEW q \in e.plans, RankPosition(e, p) # 0,
               RankPosition(e, p) = RankPosition(e, q)
        PROVE  p = q
    BY <1>2, <2>1, RankPositionType
  <2> QED
    BY <1>1, <2>1
<1>9. {p.plan : p \in recs} = {p.id : p \in e.plans}
  BY <1>1
<1> QED
  BY <1>6, <1>7, <1>8, <1>9 DEF Unique, recs

\* The rows of the components pass their constraints.
LEMMA ComponentsAdmitted ==
  ASSUME NEW in, NEW e, Recordable(e)
  PROVE  LET recs == _plan_components(in, e)
         IN  /\ solution_plan_components_admit(recs)
             /\ \A r \in recs : r.plan \in {p.id : p \in e.plans}
<1> DEFINE row(p, i) == [plan |-> p.id, component |-> p.components[i], ordinal |-> i - 1,
                         action |-> p.action,
                         from |-> _component_source(in, e, p, p.components[i])]
           recs == _plan_components(in, e)
<1>1. recs = UNION {{row(p, i) : i \in DOMAIN p.components} : p \in e.plans}
  BY DEF _plan_components
<1>2. \A p, i : row(p, i).plan = p.id /\ row(p, i).component = p.components[i]
                  /\ row(p, i).ordinal = i - 1 /\ row(p, i).action = p.action
                  /\ row(p, i).from = _component_source(in, e, p, p.components[i])
  OBVIOUS
<1> HIDE DEF row, recs
<1>3. \A r \in recs : \E p \in e.plans : \E i \in DOMAIN p.components : r = row(p, i)
  BY <1>1
<1>4. ASSUME NEW p \in e.plans
      PROVE  /\ \A q \in e.plans : p.id = q.id => p = q
             /\ \A i \in DOMAIN p.components : i \in Int /\ i >= 1
             /\ p.action \in Range(ActionNames)
             /\ \A i, j \in DOMAIN p.components : p.components[i] = p.components[j] => i = j
  <2>1. p.components \in Seq(Int) /\ p.action \in Range(ActionNames)
    BY DEF Recordable, IsBuilt, Range
  <2> QED
    BY <2>1 DEF Recordable, IsRecordable
<1>5. ASSUME NEW r \in recs, NEW s \in recs, r.plan = s.plan,
             r.component = s.component \/ r.ordinal = s.ordinal
      PROVE  r = s
  <2>1. PICK p \in e.plans : \E i \in DOMAIN p.components : r = row(p, i)
    BY <1>3
  <2>2. PICK q \in e.plans : \E i \in DOMAIN q.components : s = row(q, i)
    BY <1>3
  <2>3. PICK i \in DOMAIN p.components : r = row(p, i)
    BY <2>1
  <2>4. PICK j \in DOMAIN q.components : s = row(q, j)
    BY <2>2
  <2>5. p = q
    BY <1>2, <1>4, <1>5, <2>3, <2>4
  <2>6. i = j
    BY <1>2, <1>4, <1>5, <2>3, <2>4, <2>5
  <2> QED
    BY <2>3, <2>4, <2>5, <2>6
<1>6. \A r \in recs : r.plan \in {p.id : p \in e.plans}
  BY <1>2, <1>3
<1>8. \A r \in recs : r.action \in Range(ActionNames) /\ r.from.kind \in MemberKinds /\ r.ordinal >= 0
  <2>1. \A p, c : _component_source(in, e, p, c).kind \in MemberKinds
    BY DEF _component_source, MemberKind, MemberKinds
  <2> QED
    BY <1>2, <1>3, <1>4, <2>1
<1>7. solution_plan_components_admit(recs)
  BY <1>5, <1>8 DEF solution_plan_components_admit, Unique
<1> QED
  BY <1>6, <1>7 DEF recs

\* The rows of the gates pass their constraints.
LEMMA GatesAdmitted ==
  ASSUME NEW e, Recordable(e)
  PROVE  LET recs == _gate_results(e)
         IN  /\ decision_gate_results_admit(recs)
             /\ \A r \in recs : r.plan \in {p.id : p \in e.plans}
<1> DEFINE row(p, g) == [plan |-> p.id, gate |-> g.gate, truth |-> g.truth,
                         derived |-> IF g.reasons = {} THEN "NONE" ELSE _primary_status({g}),
                         primary |-> p.status \in g.reasons]
           recs == _gate_results(e)
<1>1. recs = UNION {{row(p, g) : g \in p.gates} : p \in e.plans}
  BY DEF _gate_results
<1>2. \A p, g : /\ row(p, g).plan = p.id /\ row(p, g).gate = g.gate /\ row(p, g).truth = g.truth
                /\ row(p, g).derived = IF g.reasons = {} THEN "NONE" ELSE _primary_status({g})
  OBVIOUS
<1> HIDE DEF row, recs
<1>3. \A r \in recs : \E p \in e.plans : \E g \in p.gates : r = row(p, g)
  BY <1>1
<1>4. ASSUME NEW p \in e.plans
      PROVE  /\ \A q \in e.plans : p.id = q.id => p = q
             /\ \A g \in p.gates : IsGate(g)
             /\ \A g, h \in p.gates : g.gate = h.gate => g = h
  BY DEF Recordable, IsRecordable
<1>5. \A g : IsGate(g) => _primary_status({g}) \in CandidateStatus
  BY PrimaryStatus DEF IsGate
<1>6. ASSUME NEW r \in recs, NEW s \in recs, r.plan = s.plan, r.gate = s.gate
      PROVE  r = s
  <2>1. PICK p \in e.plans : \E g \in p.gates : r = row(p, g)
    BY <1>3
  <2>2. PICK q \in e.plans : \E g \in q.gates : s = row(q, g)
    BY <1>3
  <2>3. PICK g \in p.gates : r = row(p, g)
    BY <2>1
  <2>4. PICK h \in q.gates : s = row(q, h)
    BY <2>2
  <2>5. p = q
    BY <1>2, <1>4, <1>6, <2>3, <2>4
  <2>6. g = h
    BY <1>2, <1>4, <1>6, <2>3, <2>4, <2>5
  <2> QED
    BY <2>3, <2>4, <2>5, <2>6
<1>7. \A r \in recs : /\ r.truth \in {"TRUE", "FALSE", "UNKNOWN", "CONFLICT"}
                      /\ r.derived = "NONE" \/ r.derived \in Range(StatusPrecedence)
  <2>1. \A p \in e.plans : \A g \in p.gates :
          /\ g.truth \in {"TRUE", "FALSE", "UNKNOWN", "CONFLICT"}
          /\ _primary_status({g}) \in CandidateStatus
    BY <1>4, <1>5 DEF IsGate
  <2>2. Range(StatusPrecedence) = CandidateStatus
    BY StatusRange
  <2>3. ASSUME NEW r \in recs
        PROVE  /\ r.truth \in {"TRUE", "FALSE", "UNKNOWN", "CONFLICT"}
               /\ r.derived = "NONE" \/ r.derived \in CandidateStatus
    <3>1. PICK p \in e.plans : \E g \in p.gates : r = row(p, g)
      BY <1>3
    <3>2. PICK g \in p.gates : r = row(p, g)
      BY <3>1
    <3> QED
      BY <1>2, <2>1, <3>2
  <2> QED
    BY <2>2, <2>3
<1>8. \A r \in recs : r.plan \in {p.id : p \in e.plans}
  BY <1>2, <1>3
<1>9. decision_gate_results_admit(recs)
  BY <1>6, <1>7 DEF decision_gate_results_admit, Unique
<1> QED
  BY <1>8, <1>9 DEF recs

\* The rows of the scores pass their constraints.
LEMMA ScoresAdmitted ==
  ASSUME NEW e, Recordable(e)
  PROVE  LET recs == _score_rows(e)
         IN  /\ score_components_admit(recs)
             /\ \A s \in recs : 0 <= s.sat.low /\ s.sat.low <= s.sat.high /\ s.sat.high <= Unit
             /\ \A r \in recs : r.plan \in {p.id : p \in e.plans}
<1> DEFINE row(p, s) == [plan |-> p.id, criterion |-> s.id, weight |-> s.weight,
                         coverageWeight |-> s.coverageWeight, sat |-> s.sat, state |-> s.state]
           recs == _score_rows(e)
<1>1. recs = UNION {{row(p, s) : s \in p.scores} : p \in e.plans}
  BY DEF _score_rows
<1>2. \A p, s : /\ row(p, s).plan = p.id /\ row(p, s).criterion = s.id /\ row(p, s).weight = s.weight
                /\ row(p, s).coverageWeight = s.coverageWeight /\ row(p, s).sat = s.sat
                /\ row(p, s).state = s.state
  OBVIOUS
<1> HIDE DEF row, recs
<1>3. \A r \in recs : \E p \in e.plans : \E s \in p.scores : r = row(p, s)
  BY <1>1
<1>4. ASSUME NEW p \in e.plans
      PROVE  /\ \A q \in e.plans : p.id = q.id => p = q
             /\ \A s \in p.scores : IsScore(s) /\ s.state \in EvidenceStates
             /\ \A s, t \in p.scores : s.id = t.id => s = t
  BY DEF Recordable, IsRecordable, IsBuilt
<1>5. ASSUME NEW r \in recs, NEW s \in recs, r.plan = s.plan, r.criterion = s.criterion
      PROVE  r = s
  <2>1. PICK p \in e.plans : \E x \in p.scores : r = row(p, x)
    BY <1>3
  <2>2. PICK q \in e.plans : \E x \in q.scores : s = row(q, x)
    BY <1>3
  <2>3. PICK x \in p.scores : r = row(p, x)
    BY <2>1
  <2>4. PICK y \in q.scores : s = row(q, y)
    BY <2>2
  <2>5. p = q
    BY <1>2, <1>4, <1>5, <2>3, <2>4
  <2>6. x = y
    BY <1>2, <1>4, <1>5, <2>3, <2>4, <2>5
  <2> QED
    BY <2>3, <2>4, <2>5, <2>6
<1>6. ASSUME NEW r \in recs
      PROVE  /\ r.weight \in 1..5 /\ r.coverageWeight \in 1..5
             /\ r.sat.low \in 0..Unit /\ r.sat.high \in 0..Unit /\ r.sat.low <= r.sat.high
             /\ r.state \in EvidenceStates
  <2>1. PICK p \in e.plans : \E x \in p.scores : r = row(p, x)
    BY <1>3
  <2>2. PICK x \in p.scores : r = row(p, x)
    BY <2>1
  <2>3. IsScore(x) /\ x.state \in EvidenceStates
    BY <1>4
  <2> QED
    BY <1>2, <2>2, <2>3 DEF IsScore, IsSat
<1>7. score_components_admit(recs)
  BY <1>5, <1>6 DEF score_components_admit, Unique, EvidenceStates
<1>8. \A s \in recs : 0 <= s.sat.low /\ s.sat.low <= s.sat.high /\ s.sat.high <= Unit
  BY <1>6, UnitAssumption
<1>9. \A r \in recs : r.plan \in {p.id : p \in e.plans}
  BY <1>2, <1>3
<1> QED
  BY <1>7, <1>8, <1>9 DEF recs

\* A ranking is stable, unstable or undetermined.
LEMMA StabilityNames ==
  ASSUME NEW plans
  PROVE  rank_and_frontiers(plans).stability \in RankStabilities
<1> DEFINE others == {p \in EligiblePlans(plans) : p.id # Selection(plans).id}
<1>1. assess_rank_stability(Selection(plans), others).status \in RankStabilities
  BY DEF assess_rank_stability, RankStabilities
<1>2. CASE ranked_ids(plans) # <<>>
  <2>1. rank_and_frontiers(plans).stability = assess_rank_stability(Selection(plans), others).status
    BY <1>2 DEF rank_and_frontiers
  <2> QED
    BY <1>1, <2>1
<1>3. CASE ranked_ids(plans) = <<>>
  <2>1. rank_and_frontiers(plans).stability = "UNDETERMINED"
    BY <1>3 DEF rank_and_frontiers
  <2> QED
    BY <2>1 DEF RankStabilities
<1> QED
  BY <1>2, <1>3

\* The rows of the robustness frontiers pass their constraints.
LEMMA FrontiersAdmitted ==
  ASSUME NEW e, Recordable(e)
  PROVE  LET recs == _robustness_frontiers(e)
         IN  /\ robustness_frontiers_admit(recs)
             /\ \A r \in recs : r.plan \in {p.id : p \in e.plans}
<1> DEFINE beats(p) == IF p.id = e.rank.selected THEN "FALSE"
                       ELSE IF e.rank.stability = "UNDETERMINED" THEN "UNKNOWN"
                       ELSE IF Marks(e, p).ordering THEN "TRUE" ELSE "FALSE"
           row(p, kind, member, can) == [plan |-> p.id, kind |-> kind, member |-> member,
                                         beats |-> can, stability |-> e.rank.stability]
           ordering(p) == row(p, "ORDERING", Marks(e, p).ordering, beats(p))
           resolution(p) == row(p, "RESOLUTION", Marks(e, p).resolution, "UNKNOWN")
           unbounded(p) == row(p, "BOUND_UNAVAILABLE", p.id \in e.rank.unavailable, "UNKNOWN")
           recs == _robustness_frontiers(e)
<1>1. recs = UNION {{ordering(p), resolution(p), unbounded(p)} : p \in e.plans}
  BY DEF _robustness_frontiers
<1>2. \A p \in e.plans :
             /\ ordering(p).plan = p.id /\ ordering(p).kind = "ORDERING"
             /\ resolution(p).plan = p.id /\ resolution(p).kind = "RESOLUTION"
             /\ unbounded(p).plan = p.id /\ unbounded(p).kind = "BOUND_UNAVAILABLE"
             /\ ordering(p).stability = e.rank.stability /\ resolution(p).stability = e.rank.stability
             /\ unbounded(p).stability = e.rank.stability
  BY Zenon
<1> HIDE DEF ordering, resolution, unbounded, recs
<1>3. \A r \in recs : \E p \in e.plans : r = ordering(p) \/ r = resolution(p) \/ r = unbounded(p)
  BY <1>1
<1>4. \A p, q \in e.plans : p.id = q.id => p = q
  BY DEF Recordable
<1>5. ASSUME NEW r \in recs, NEW s \in recs, r.plan = s.plan, r.kind = s.kind
      PROVE  r = s
  <2>1. PICK p \in e.plans : r = ordering(p) \/ r = resolution(p) \/ r = unbounded(p)
    BY <1>3
  <2>2. PICK q \in e.plans : s = ordering(q) \/ s = resolution(q) \/ s = unbounded(q)
    BY <1>3
  <2>3. p = q
    BY <1>2, <1>4, <1>5, <2>1, <2>2
  <2> QED
    BY <1>2, <1>5, <2>1, <2>2, <2>3
<1>8. e.rank.stability \in RankStabilities
  BY StabilityNames DEF Recordable
<1>6. \A r \in recs : /\ r.kind \in {"ORDERING", "RESOLUTION", "BOUND_UNAVAILABLE"}
                      /\ r.stability \in RankStabilities
                      /\ r.plan \in {p.id : p \in e.plans}
  BY <1>2, <1>3, <1>8
<1>7. robustness_frontiers_admit(recs)
  BY <1>5, <1>6 DEF robustness_frontiers_admit, Unique
<1> QED
  BY <1>6, <1>7 DEF recs

\* What is asked of one row of bounds.
IsBound(b) ==
    /\ b.status = "AVAILABLE" => b.values.low <= b.values.base /\ b.values.base <= b.values.high
    /\ b.money <=> b.kind = "MONEY"
    /\ \/ b.status = "AVAILABLE" /\ b.given /\ ~b.reason
       \/ b.status = "BOUND_UNAVAILABLE" /\ b.reason
    /\ b.kind \in {"RATIO", "RISK_ORDINAL", "MONEY", "COUNT"}
    /\ b.kind = "RISK_ORDINAL" /\ b.status = "AVAILABLE" =>
         {b.values.low, b.values.base, b.values.high} \subseteq 0..3

\* What a bound's values are, of which kind and if they are known.
ValuesFit(kind, known, values) ==
    /\ known => values.low <= values.base /\ values.base <= values.high
    /\ kind = "RISK_ORDINAL" => {values.low, values.base, values.high} \subseteq 0..3

\* The row of one ordering bound.
LEMMA BoundRow ==
  ASSUME NEW p, NEW dimension, NEW kind \in {"RATIO", "RISK_ORDINAL", "MONEY"},
         NEW known, NEW values, ValuesFit(kind, known, values),
         NEW b, b = _score_bound(p, dimension, kind, known, values)
  PROVE  IsBound(b) /\ b.plan = p.id /\ b.dimension = dimension
<1>1. /\ b.plan = p.id /\ b.dimension = dimension /\ b.kind = kind /\ b.values = values
      /\ b.status = IF known THEN "AVAILABLE" ELSE "BOUND_UNAVAILABLE"
  BY Zenon DEF _score_bound
<1>2. b.money <=> kind = "MONEY"
  BY Zenon DEF _score_bound
<1>3. (b.given <=> known) /\ (b.reason <=> ~known)
  BY Zenon DEF _score_bound
<1>4. b.status = "AVAILABLE" => known
  BY <1>1
<1>5. \/ b.status = "AVAILABLE" /\ b.given /\ ~b.reason
      \/ b.status = "BOUND_UNAVAILABLE" /\ b.reason
  BY <1>1, <1>3, Zenon
<1>6. IsBound(b)
  BY <1>1, <1>2, <1>4, <1>5 DEF IsBound, ValuesFit
<1> QED
  BY <1>1, <1>6

\* The base of a bound that has none of its own lies between its ends.
LEMMA MidpointOrdered ==
  ASSUME NEW b, Ordered(b)
  PROVE  Midpoint(b).low <= Midpoint(b).base /\ Midpoint(b).base <= Midpoint(b).high
  BY DEF Ordered, Midpoint

\* The rows of the ordering bounds pass their constraints.
LEMMA BoundsAdmitted ==
  ASSUME NEW e, Recordable(e)
  PROVE  LET recs == _score_bounds(e)
         IN  /\ score_bounds_admit(recs)
             /\ \A b \in recs : b.status = "AVAILABLE" =>
                  b.values.low <= b.values.base /\ b.values.base <= b.values.high
             /\ \A r \in recs : r.plan \in {p.id : p \in e.plans}
<1> DEFINE yes == TRUE
           priced(p) == None \notin {p.bounds.cost.low, p.bounds.cost.base, p.bounds.cost.high}
           b1(p) == _score_bound(p, "PREFERENCE", "RATIO", p.preferred, Midpoint(p.bounds.preference))
           b2(p) == _score_bound(p, "STACK_RISK", "RISK_ORDINAL", p.riskKnown, p.bounds.risk)
           b3(p) == _score_bound(p, "TCO", "MONEY", priced(p), p.bounds.cost)
           b4(p) == _score_bound(p, "DECISION_MATERIAL_COVERAGE", "RATIO", yes,
                                 Midpoint(p.bounds.coverage))
           b5(p) == _score_bound(p, "EVIDENCE_AGE", "RATIO", yes, Midpoint(p.bounds.age))
           b6(p) == _score_bound(p, "HARD_COVERAGE", "RATIO", yes, Fixed(p.hard[1]))
           b7(p) == _score_bound(p, "UNIVERSE_COVERAGE", "RATIO", yes, Fixed(Cardinality(e.plans)))
           recs == _score_bounds(e)
           is(b, p, d) == IsBound(b) /\ b.plan = p.id /\ b.dimension = d
           dimensions == {"PREFERENCE", "STACK_RISK", "TCO", "DECISION_MATERIAL_COVERAGE",
                          "EVIDENCE_AGE", "HARD_COVERAGE", "UNIVERSE_COVERAGE"}
<1>1. recs = UNION {{b1(p), b2(p), b3(p), b4(p), b5(p), b6(p), b7(p)} : p \in e.plans}
  BY DEF _score_bounds
<1> HIDE DEF yes
<1>2. ASSUME NEW p \in e.plans
      PROVE  /\ is(b1(p), p, "PREFERENCE") /\ is(b2(p), p, "STACK_RISK") /\ is(b3(p), p, "TCO")
             /\ is(b4(p), p, "DECISION_MATERIAL_COVERAGE") /\ is(b5(p), p, "EVIDENCE_AGE")
             /\ is(b6(p), p, "HARD_COVERAGE") /\ is(b7(p), p, "UNIVERSE_COVERAGE")
  <2>1. IsBuilt(p)
    BY DEF Recordable
  <2>2. is(b1(p), p, "PREFERENCE")
    <3>1. Ordered(p.bounds.preference)
      BY <2>1 DEF IsBuilt
    <3>2. ValuesFit("RATIO", p.preferred, Midpoint(p.bounds.preference))
      BY <3>1, MidpointOrdered DEF ValuesFit
    <3> QED
      BY <3>2, BoundRow
  <2>3. is(b2(p), p, "STACK_RISK")
    <3>1. ValuesFit("RISK_ORDINAL", p.riskKnown, p.bounds.risk)
      BY <2>1 DEF IsBuilt, RiskBounds, ValuesFit
    <3> QED
      BY <3>1, BoundRow
  <2>4. is(b3(p), p, "TCO")
    <3>1. ValuesFit("MONEY", priced(p), p.bounds.cost)
      BY <2>1 DEF IsBuilt, ValuesFit
    <3> HIDE DEF priced
    <3> QED
      BY <3>1, BoundRow
  <2>5. is(b4(p), p, "DECISION_MATERIAL_COVERAGE")
    <3>1. Ordered(p.bounds.coverage)
      BY <2>1 DEF IsBuilt
    <3>2. ValuesFit("RATIO", yes, Midpoint(p.bounds.coverage))
      BY <3>1, MidpointOrdered DEF ValuesFit
    <3> QED
      BY <3>2, BoundRow
  <2>6. is(b5(p), p, "EVIDENCE_AGE")
    <3>1. Ordered(p.bounds.age)
      BY <2>1 DEF IsBuilt
    <3>2. ValuesFit("RATIO", yes, Midpoint(p.bounds.age))
      BY <3>1, MidpointOrdered DEF ValuesFit
    <3> QED
      BY <3>2, BoundRow
  <2>7. is(b6(p), p, "HARD_COVERAGE")
    <3>1. p.hard[1] \in Int
      BY DEF Recordable, IsRecordable
    <3>2. ValuesFit("RATIO", yes, Fixed(p.hard[1]))
      BY <3>1 DEF Fixed, ValuesFit
    <3> QED
      BY <3>2, BoundRow
  <2>8. is(b7(p), p, "UNIVERSE_COVERAGE")
    <3> DEFINE n == Cardinality(e.plans)
    <3>1. n \in Nat
      BY FS_CardinalityType DEF Recordable, ArePlans
    <3> HIDE DEF n
    <3>2. ValuesFit("RATIO", yes, Fixed(n))
      BY <3>1 DEF Fixed, ValuesFit
    <3> QED
      BY <3>2, BoundRow DEF n
  <2> QED
    BY <2>2, <2>3, <2>4, <2>5, <2>6, <2>7, <2>8
<1> HIDE DEF b1, b2, b3, b4, b5, b6, b7, recs
<1>3. \A r \in recs : \E p \in e.plans :
        r = b1(p) \/ r = b2(p) \/ r = b3(p) \/ r = b4(p) \/ r = b5(p) \/ r = b6(p) \/ r = b7(p)
  BY <1>1
<1>4. \A p, q \in e.plans : p.id = q.id => p = q
  BY DEF Recordable
<1>5. ASSUME NEW r \in recs, NEW s \in recs, r.plan = s.plan, r.dimension = s.dimension
      PROVE  r = s
  <2>1. PICK p \in e.plans :
          r = b1(p) \/ r = b2(p) \/ r = b3(p) \/ r = b4(p) \/ r = b5(p) \/ r = b6(p) \/ r = b7(p)
    BY <1>3
  <2>2. PICK q \in e.plans :
          s = b1(q) \/ s = b2(q) \/ s = b3(q) \/ s = b4(q) \/ s = b5(q) \/ s = b6(q) \/ s = b7(q)
    BY <1>3
  <2>3. r.plan = p.id /\ s.plan = q.id
    BY <1>2, <2>1, <2>2
  <2>4. p = q
    BY <1>4, <1>5, <2>3
  <2> QED
    BY <1>2, <1>5, <2>1, <2>2, <2>4
<1>6. \A r \in recs : IsBound(r) /\ r.plan \in {p.id : p \in e.plans} /\ r.dimension \in dimensions
  BY <1>2, <1>3
<1>7. score_bounds_admit(recs)
  BY <1>5, <1>6 DEF score_bounds_admit, Unique, IsBound
<1>8. \A b \in recs : b.status = "AVAILABLE" =>
        b.values.low <= b.values.base /\ b.values.base <= b.values.high
  BY <1>6 DEF IsBound
<1> QED
  BY <1>6, <1>7, <1>8 DEF recs

\* The rows of the assessments pass their constraints.
LEMMA AssessmentsAdmitted ==
  ASSUME NEW in, NEW e, \A a \in e.assessments : a.state \in EvidenceStates,
         \A a, b \in e.assessments : a.evidence = b.evidence /\ a.field = b.field => a = b
  PROVE  evidence_assessments_admit(_evidence_assessments(in, e))
<1> DEFINE supports(a) == {c.id : c \in {d \in in.preferences :
             /\ d.field = a.field
             /\ \E p \in e.plans : \E s \in p.scores : s.id = d.id /\ a.evidence \in s.evidence}}
           row(a) == [evidence |-> a.evidence, field |-> a.field, state |-> a.state,
                      timed |-> a.timed, age |-> a.age, supports |-> supports(a)]
           recs == _evidence_assessments(in, e)
<1>1. recs = {row(a) : a \in e.assessments}
  BY DEF _evidence_assessments
<1> HIDE DEF supports
<1>2. \A a : row(a).evidence = a.evidence /\ row(a).field = a.field /\ row(a).state = a.state
  OBVIOUS
<1> HIDE DEF row, recs
<1>3. \A r, s \in recs : r.evidence = s.evidence /\ r.field = s.field => r = s
  BY <1>1, <1>2
<1>4. \A r \in recs : r.state \in EvidenceStates
  BY <1>1, <1>2
<1> QED
  BY <1>3, <1>4 DEF evidence_assessments_admit, Unique, EvidenceStates, recs

\* Whatever the engine computed of an input is accepted by the repository and by all the tables
\* but the one of the runs.
LEMMA WriteAdmitted ==
  ASSUME NEW in, DecisionGraphInput(in), Sound(in), NEW e, e = evaluate_decision_graph_once(in),
         ~_ledger_document_raises(e), ~SourcesClash(in)
  PROVE  LET write == build_evaluation_graph_write(in, e)
         IN  /\ add_evaluation_graph_accepts(write)
             /\ \A held : TablesAdmit(held, write) <=> evaluation_runs_admit(held, write.run)
<1> DEFINE write == build_evaluation_graph_write(in, e)
           plans == _solution_plan_records(e)
           ids == {p.id : p \in e.plans}
           chosen == {p \in plans : p.selected}
           placed == {p \in plans : p.rank # 0}
           accepted == IF e.rank.selected = <<>> THEN chosen = {}
                       ELSE Cardinality(chosen) = 1 /\ \A p \in chosen : p.plan = e.rank.selected
<1>1. /\ e.plans = FrozenPlans(in) /\ e.rank = rank_and_frontiers(FrozenPlans(in))
      /\ e.recall = recall_and_deduplicate(in) /\ e.assessments = FrozenAssessments(in)
  BY EvaluationParts
<1>2. Recordable(e)
  <2>1. ArePlans(e.plans) /\ \A p \in e.plans : IsBuilt(p)
    BY <1>1, EvaluatedPlans
  <2>2. \A p \in e.plans : IsRecordable(p)
    BY <1>1, PlansRecordable
  <2>3. \A p, q \in e.plans : p.id = q.id => p = q
    BY DEF _ledger_document_raises, Unique
  <2> QED
    BY <1>1, <2>1, <2>2, <2>3 DEF Recordable
<1>3. /\ write.selected = e.rank.selected
      /\ write.members = _candidate_members(in, e) /\ write.merges = e.recall.merges
      /\ write.plans = plans /\ write.components = _plan_components(in, e)
      /\ write.gates = _gate_results(e) /\ write.assessments = _evidence_assessments(in, e)
      /\ write.scores = _score_rows(e) /\ write.bounds = _score_bounds(e)
      /\ write.frontiers = _robustness_frontiers(e)
  BY DEF build_evaluation_graph_write
<1>4. /\ evaluation_solution_plans_admit(plans) /\ accepted /\ Unique(placed, LAMBDA p : p.rank)
      /\ {p.plan : p \in plans} = ids
  BY <1>2, PlansAdmitted
<1>5. /\ solution_plan_components_admit(_plan_components(in, e))
      /\ \A r \in _plan_components(in, e) : r.plan \in ids
  BY <1>2, ComponentsAdmitted
<1>6. decision_gate_results_admit(_gate_results(e)) /\ \A r \in _gate_results(e) : r.plan \in ids
  BY <1>2, GatesAdmitted
<1>7. /\ score_components_admit(_score_rows(e)) /\ \A r \in _score_rows(e) : r.plan \in ids
      /\ \A s \in _score_rows(e) : 0 <= s.sat.low /\ s.sat.low <= s.sat.high /\ s.sat.high <= Unit
  BY <1>2, ScoresAdmitted
<1>8. /\ score_bounds_admit(_score_bounds(e)) /\ \A r \in _score_bounds(e) : r.plan \in ids
      /\ \A b \in _score_bounds(e) : b.status = "AVAILABLE" =>
            b.values.low <= b.values.base /\ b.values.base <= b.values.high
  BY <1>2, BoundsAdmitted
<1>9. /\ robustness_frontiers_admit(_robustness_frontiers(e))
      /\ \A r \in _robustness_frontiers(e) : r.plan \in ids
  BY <1>2, FrontiersAdmitted
<1>10. candidate_set_members_admit(_candidate_members(in, e))
  BY MembersAdmitted
<1>11. identity_merges_admit(e.recall.merges)
  BY <1>1, MergesAdmitted
<1>12. evidence_assessments_admit(_evidence_assessments(in, e))
  <2>1. ~AssessmentRaises(in, recall_and_deduplicate(in))
    BY DEF Sound
  <2>2. /\ \A a \in e.assessments : a.state \in EvidenceStates
        /\ \A a, b \in e.assessments : a.evidence = b.evidence /\ a.field = b.field => a = b
    BY <1>1, <2>1, AssessmentsRecordable
  <2> QED
    BY <2>2, AssessmentsAdmitted
<1> HIDE DEF write, plans, ids
<1>13. \A held : TablesAdmit(held, write) <=> evaluation_runs_admit(held, write.run)
  BY <1>3, <1>4, <1>5, <1>6, <1>7, <1>8, <1>9, <1>10, <1>11, <1>12 DEF TablesAdmit
<1>14. add_evaluation_graph_accepts(write)
  <2>1. Unique(plans, LAMBDA p : p.plan)
    BY <1>4 DEF evaluation_solution_plans_admit
  <2>2. \A r \in write.gates \cup write.components \cup write.scores \cup write.bounds
                   \cup write.frontiers : r.plan \in {p.plan : p \in write.plans}
    BY <1>3, <1>4, <1>5, <1>6, <1>7, <1>8, <1>9
  <2>3. /\ \A b \in write.bounds : b.status = "AVAILABLE" =>
              b.values.low <= b.values.base /\ b.values.base <= b.values.high
        /\ \A s \in write.scores : 0 <= s.sat.low /\ s.sat.low <= s.sat.high /\ s.sat.high <= Unit
    BY <1>3, <1>7, <1>8
  <2>4. /\ Unique(write.plans, LAMBDA p : p.plan)
        /\ IF write.selected = <<>> THEN {p \in write.plans : p.selected} = {}
           ELSE /\ Cardinality({p \in write.plans : p.selected}) = 1
                /\ \A p \in {p \in write.plans : p.selected} : p.plan = write.selected
        /\ Unique({p \in write.plans : p.rank # 0}, LAMBDA p : p.rank)
    BY <1>3, <1>4, <2>1
  <2> QED
    BY <2>2, <2>3, <2>4 DEF add_evaluation_graph_accepts
<1> QED
  BY <1>13, <1>14 DEF write

\* A run is refused only by the run of the same input, whose rows are then the same.
LEMMA OnlyItselfClashes ==
  ASSUME NEW in, InputOK(in), NEW held, \A w \in held : Held(w),
         NEW write, write = build_evaluation_graph_write(in, evaluate_decision_graph_once(in)),
         ~evaluation_runs_admit(held, write.run)
  PROVE  write \in held
<1> DEFINE e(x) == evaluate_decision_graph_once(x)
           made(x) == build_evaluation_graph_write(x, e(x))
<1>1. \A x : /\ made(x).run.input = _input_payload(x)
             /\ made(x).run.payload = evaluation_canonical_payload(x, e(x))
             /\ made(x).run.stability = e(x).rank.stability
  BY DEF build_evaluation_graph_write
<1>2. write.run.stability \in RankStabilities
  BY <1>1, EvaluationParts, StabilityNames
<1>3. PICK w \in held : w.run.input = write.run.input \/ w.run.payload = write.run.payload
  BY <1>2 DEF evaluation_runs_admit
<1>4. PICK x : InputOK(x) /\ w = made(x)
  BY DEF Held
<1> HIDE DEF e
<1>5. _input_payload(x) = _input_payload(in)
  <2>1. ASSUME evaluation_canonical_payload(x, e(x)) = evaluation_canonical_payload(in, e(in))
        PROVE  _input_payload(x) = _input_payload(in)
    <3> DEFINE c(y) == evaluation_canonical_payload(y, e(y))
    <3>1. \A y : /\ c(y).evaluatedAt = y.now /\ c(y).frozen = _frozen_input_hashes(y)
                 /\ c(y).removed = y.removed
      BY DEF evaluation_canonical_payload
    <3>2. c(x) = c(in)
      BY <2>1
    <3> HIDE DEF c
    <3>3. /\ x.now = in.now /\ _frozen_input_hashes(x) = _frozen_input_hashes(in)
          /\ x.removed = in.removed
      BY <3>1, <3>2
    <3> QED
      BY <3>3 DEF _input_payload
  <2>2. write = made(in)
    BY DEF e
  <2> HIDE DEF made
  <2> QED
    BY <1>1, <1>3, <1>4, <2>1, <2>2
<1>6. x = in
  BY <1>4, <1>5, DigestsProve
<1> QED
  BY <1>4, <1>6 DEF e

\* A write of what the engine computed is refused only when it is in the database.
LEMMA PersistAdmitted ==
  ASSUME EngineOK, ReplayOK, PersistBaseGraph, stage' = "conflict"
  PROVE  build_evaluation_graph_write(input', base') \in rows'
<1>1. stage = "persist" /\ input' = input /\ base' = base /\ rows' = rows
  BY DEF PersistBaseGraph
<1>2. base = evaluate_decision_graph_once(input) /\ Sound(input) /\ InputOK(input)
  BY <1>1 DEF EngineOK, StageOK, ReplayOK
<1> DEFINE write == build_evaluation_graph_write(input, base)
<1>3. ~_ledger_document_raises(base) /\ ~SourcesClash(input) =>
        /\ add_evaluation_graph_accepts(write)
        /\ TablesAdmit(rows, write) <=> evaluation_runs_admit(rows, write.run)
  BY <1>2, WriteAdmitted DEF InputOK
<1> HIDE DEF write
<1>4. stage' = IF _ledger_document_raises(base) \/ SourcesClash(input) THEN "failed"
               ELSE IF add_evaluation_graph_accepts(write) /\ TablesAdmit(rows, write) THEN "written"
               ELSE "conflict"
  BY DEF PersistBaseGraph, write
<1>5. ~evaluation_runs_admit(rows, write.run)
  BY <1>3, <1>4
<1>6. \A w \in rows : Held(w)
  BY DEF ReplayOK
<1>7. write \in rows
  BY <1>2, <1>5, <1>6, OnlyItselfClashes DEF write
<1> QED
  BY <1>1, <1>7 DEF write

\* No step leads to any other constraint violation.
LEMMA StaysWritable ==
  ASSUME IInv, WriteMeetsSchema, [ReplayNext]_replayVars
  PROVE  WriteMeetsSchema'
<1> USE DEF IInv
<1>0. ASSUME stage' # "conflict" PROVE WriteMeetsSchema'
  BY <1>0 DEF WriteMeetsSchema
<1>1. CASE Stages
  <2>1. stage' \notin {"persist", "written", "conflict"}
    BY <1>1, StagesKeep DEF Stages
  <2> QED
    BY <1>0, <2>1
<1>2. CASE CompileLedger
  BY <1>0, <1>2 DEF CompileLedger, BuildDecisionLedger
<1>3. CASE WriteDecision \/ WriteDiscovery
  <2>1. PersistBaseGraph
    BY <1>3 DEF WriteDecision, WriteDiscovery
  <2> QED
    BY <2>1, PersistAdmitted DEF WriteMeetsSchema
<1>4. CASE Release \/ UNCHANGED replayVars
  BY <1>4 DEF Release, replayVars, vars, WriteMeetsSchema
<1>5. ASSUME NEW in, NEW to \in {"recall", "written"}, Reset(in, to) PROVE WriteMeetsSchema'
  BY <1>0, <1>5 DEF Reset
<1>6. CASE BeginReplay \/ BeginExplanation \/ DiscoverAgain
             \/ \E body \in Bodies, key \in Keys : BeginSimulation(body, key)
  BY <1>5, <1>6 DEF BeginReplay, BeginExplanation, BeginSimulation, Begin, DiscoverAgain
<1>7. CASE Simulate
  BY <1>5, <1>7 DEF Simulate
<1>8. ASSUME NEW a, Answer(a) PROVE WriteMeetsSchema'
  BY <1>5, <1>8 DEF Answer
<1>9. CASE (\E body \in Bodies : RefuseWeights(body)) \/ FailRequest \/ RefuseCriterion
             \/ RefusePlanless \/ AnswerDiscovery
  BY <1>8, <1>9 DEF RefuseWeights, FailRequest, RefuseCriterion, RefusePlanless, AnswerDiscovery
<1>10. CASE RefuseReplay \/ CompareReplay \/ Explain \/ RecordSimulation
  BY <1>8, <1>10 DEF RefuseReplay, CompareReplay, Explain, RecordSimulation
<1> QED
  BY <1>1, <1>2, <1>3, <1>4, <1>6, <1>7, <1>9, <1>10 DEF ReplayNext

\* In every reachable state, a decision that the engine computed and the ledger compiler accepted
\* was refused by a cross-check of the repository or a constraint of a table only if the database
\* holds that very evaluation already.
THEOREM OnlyRepetitionsRefused == ReplaySpec => []WriteMeetsSchema
<1>1. ReplayInit => WriteMeetsSchema
  BY DEF ReplayInit, Init, WriteMeetsSchema
<1>2. IInv /\ WriteMeetsSchema /\ [ReplayNext]_replayVars => WriteMeetsSchema'
  BY StaysWritable
<1> QED
  BY <1>1, <1>2, EngineSound, PTL DEF ReplaySpec

(***************************************************************************)
(* What an eligible plan proves.                                           *)
(***************************************************************************)
\* Evidence whose age ratio is within the limit was observed within the time limit.
LEMMA AgeWithinLimit ==
  ASSUME NEW sla \in Nat \ {0}, Unit % sla = 0, NEW d \in Int, (Unit * d) \div sla <= Unit
  PROVE  d <= sla
<1> DEFINE k == Unit \div sla
<1>1. Unit \in Nat \ {0}
  BY UnitAssumption
<1>2. k \in Int /\ Unit = sla * k
  BY <1>1
<1> HIDE DEF k
<1>3. sla <= Unit
  <2>1. k >= 1
    <3>1. CASE k <= 0
      <4>1. sla * k <= sla * 0
        BY <1>2, <3>1, TimesMonotone
      <4> QED
        BY <1>1, <1>2, <4>1
    <3> QED
      BY <1>2, <3>1
  <2>2. sla * 1 <= sla * k
    BY <1>2, <2>1, TimesMonotone
  <2> QED
    BY <1>2, <2>2
<1>4. ASSUME d >= sla + 1 PROVE FALSE
  <2>1. Unit * (sla + 1) <= Unit * d /\ Unit * d \in Int
    BY <1>1, <1>4, TimesMonotone
  <2>2. (Unit + 1) * sla <= Unit * (sla + 1)
    BY <1>1, <1>3
  <2>3. (Unit + 1) * sla \in Int /\ (Unit + 1) * sla <= Unit * d
    BY <1>1, <2>1, <2>2
  <2>4. ((Unit + 1) * sla) \div sla <= (Unit * d) \div sla /\ (Unit * d) \div sla \in Int
    BY <2>1, <2>3, DivMonotone
  <2>5. ((Unit + 1) * sla) \div sla = Unit + 1
    BY <1>1
  <2> QED
    BY <1>1, <2>4, <2>5
<1> QED
  BY <1>4

\* Evidence that is acceptable was seen by somebody its policy admits, recently enough.
LEMMA AcceptedIsVouched ==
  ASSUME NEW in, DecisionGraphInput(in), Divides(in),
         ~AssessmentRaises(in, recall_and_deduplicate(in)),
         NEW a \in FrozenAssessments(in), a.state = "ACCEPTABLE"
  PROVE  \E e \in in.evidence, q \in in.evidencePolicies :
           /\ e.id = a.evidence /\ q.field = a.field
           /\ e.source \in q.sources /\ e.method \in q.methods /\ q.scope \in {"*", e.scope}
           /\ e.reconstructable /\ e.lower # None /\ in.now - e.lower <= q.sla
<1> DEFINE pairs == MaterialPairs(in, recall_and_deduplicate(in))
<1>1. PICK x \in pairs : a = Assessment(in, x)
  BY AssessmentsAre DEF FrozenAssessments
<1>2. PolicyFor(in, x[2]) # {}
  BY DEF AssessmentRaises
<1> HIDE DEF pairs
<1> DEFINE e == CHOOSE e \in EvidenceFor(in, x[1]) : TRUE
           q == CHOOSE p \in PolicyFor(in, x[2]) : TRUE
<1>3. EvidenceFor(in, x[1]) # {}
  <2>1. CASE EvidenceFor(in, x[1]) = {}
    <3>1. a.state = "UNKNOWN"
      BY <1>1, <2>1 DEF Assessment, MissingAssessment
    <3> QED
      BY <3>1
  <2> QED
    BY <2>1
<1>4. e \in in.evidence
  BY <1>3 DEF EvidenceFor
<1>5. q \in in.evidencePolicies
  BY <1>2 DEF PolicyFor
<1>6. a = _assessment(in, e, q)
  BY <1>1, <1>3 DEF Assessment
<1> HIDE DEF e, q
<1> DEFINE age == evidence_age_bounds(in, e, q)
           admitted == /\ e.source \in q.sources /\ e.method \in q.methods
                       /\ _scope_matches(q.scope, e.scope) /\ e.reconstructable
<1>7. /\ a.evidence = e.id /\ a.field = q.field
      /\ e.lower # None /\ ~(age.high > Unit) /\ admitted
  <2>1. a.evidence = e.id /\ a.field = q.field
    BY <1>6 DEF _assessment
  <2>2. a.state = IF e.disputed \/ e.revoked THEN "CONFLICT"
                  ELSE IF e.lower # None
                          /\ (IF e.lower # None THEN age ELSE [low |-> 0, high |-> 0]).high > Unit
                  THEN "STALE"
                  ELSE IF ~admitted \/ ~(e.lower # None) THEN "UNKNOWN"
                  ELSE "ACCEPTABLE"
    BY <1>6 DEF _assessment
  <2> HIDE DEF admitted, age
  <2> QED
    BY <2>1, <2>2
<1>8. age.high = (Unit * (in.now - e.lower)) \div q.sla
  BY DEF evidence_age_bounds
<1>9. e.lower \in Int /\ in.now \in Int /\ q.sla \in Nat \ {0} /\ Unit % q.sla = 0
  BY <1>4, <1>5, InputRows DEF EvidenceRecord, EvidencePolicy, Divides
<1>10. (Unit * (in.now - e.lower)) \div q.sla \in Int
  <2>1. Unit * (in.now - e.lower) \in Int
    BY <1>9, UnitAssumption
  <2> QED
    BY <1>9, <2>1
<1>11. (Unit * (in.now - e.lower)) \div q.sla <= Unit
  BY <1>7, <1>8, <1>10, UnitAssumption
<1>12. in.now - e.lower <= q.sla
  <2>1. in.now - e.lower \in Int
    BY <1>9
  <2> QED
    BY <1>9, <1>11, <2>1, AgeWithinLimit
<1> QED
  BY <1>4, <1>5, <1>7, <1>12 DEF _scope_matches

\* Evidence that is disputed or revoked is assessed as a conflict wherever it is cited.
LEMMA DisputedIsConflict ==
  ASSUME NEW in, DecisionGraphInput(in), NEW x, NEW e \in in.evidence, e.id = x[1],
         e.disputed \/ e.revoked
  PROVE  Assessment(in, x).state = "CONFLICT"
<1>1. EvidenceFor(in, x[1]) = {e}
  BY InputKeys DEF EvidenceFor
<1>2. Assessment(in, x) = _assessment(in, e, CHOOSE p \in PolicyFor(in, x[2]) : TRUE)
  BY <1>1 DEF Assessment
<1> QED
  BY <1>2 DEF _assessment

\* What the merged facts of a group say is what some record of it states.
LEMMA MergedFactsStated ==
  ASSUME NEW group, NEW component
  PROVE  LET facts == _merge_facts(group, component)
         IN  /\ \A f \in facts : f.component = component
             /\ \A f \in facts : \E g \in Stated(group, f.field) : g.value = f.value
             /\ \A f \in facts : \A id \in f.evidence :
                  \E g \in Stated(group, f.field) : g.value = f.value /\ id \in g.evidence
             /\ \A field : \A g \in Stated(group, field) : \E f \in facts :
                  f.field = field /\ f.value = g.value /\ g.evidence \subseteq f.evidence
<1> DEFINE stated == UNION {r.facts : r \in group}
           cited(f) == UNION {g.evidence : g \in {h \in stated : h.field = f.field /\ h.value = f.value}}
           merged(f) == [field |-> f.field, value |-> f.value, component |-> component,
                         evidence |-> cited(f)]
           facts == _merge_facts(group, component)
<1>1. facts = {merged(f) : f \in stated}
  BY DEF _merge_facts
<1>2. \A field : Stated(group, field) = {f \in stated : f.field = field}
  BY DEF Stated
<1>3. \A f \in stated : \A id \in cited(f) : \E g \in stated :
        g.field = f.field /\ g.value = f.value /\ id \in g.evidence
  OBVIOUS
<1>4. \A f \in stated : f.evidence \subseteq cited(f)
  OBVIOUS
<1> HIDE DEF cited, stated
<1>5. \A f : /\ merged(f).field = f.field /\ merged(f).value = f.value
             /\ merged(f).component = component /\ merged(f).evidence = cited(f)
  OBVIOUS
<1> HIDE DEF merged, facts
<1>6. \A f \in facts : f.component = component
  BY <1>1, <1>5
<1>7. \A f \in facts : \E g \in Stated(group, f.field) : g.value = f.value
  BY <1>1, <1>2, <1>5
<1>8. ASSUME NEW f \in facts, NEW id \in f.evidence
      PROVE  \E g \in Stated(group, f.field) : g.value = f.value /\ id \in g.evidence
  <2>1. PICK h \in stated : f = merged(h)
    BY <1>1
  <2>2. f.field = h.field /\ f.value = h.value /\ id \in cited(h)
    BY <1>5, <1>8, <2>1
  <2>3. PICK g \in stated : g.field = h.field /\ g.value = h.value /\ id \in g.evidence
    BY <1>3, <2>2
  <2> QED
    BY <1>2, <2>2, <2>3
<1>9. ASSUME NEW field, NEW g \in Stated(group, field)
      PROVE  \E f \in facts : f.field = field /\ f.value = g.value /\ g.evidence \subseteq f.evidence
  <2>1. g \in stated /\ g.field = field
    BY <1>2
  <2>2. merged(g) \in facts
    BY <1>1, <2>1
  <2> QED
    BY <1>4, <1>5, <2>1, <2>2
<1> QED
  BY <1>6, <1>7, <1>8, <1>9 DEF facts

\* What is said of a field depends on the facts about it only.
LEMMA FieldStateSame ==
  ASSUME NEW X, NEW Y, NEW field, {f \in X : f.field = field} = {f \in Y : f.field = field},
         NEW assessments
  PROVE  _field_state(X, field, assessments) = _field_state(Y, field, assessments)
  BY DEF _field_state

\* The representative of the records of one key.
Rep(in, k) == Representative(in, k, Alike(in, k))

\* A field that is accepted with a value is settled among the records of the representative.
LEMMA AcceptedIsSettled ==
  ASSUME NEW in, DecisionGraphInput(in), Divides(in),
         ~AssessmentRaises(in, recall_and_deduplicate(in)),
         NEW k, Rep(in, k) \in recall_and_deduplicate(in).representatives, NEW field,
         _field_state(Rep(in, k).facts, field, FrozenAssessments(in)).state = "ACCEPTABLE",
         _field_state(Rep(in, k).facts, field, FrozenAssessments(in)).values # {}
  PROVE  /\ Settled(in, Alike(in, k), field)
         /\ _field_state(Rep(in, k).facts, field, FrozenAssessments(in)).values =
              {f.value : f \in Stated(Alike(in, k), field)}
<1> DEFINE recall == recall_and_deduplicate(in)
           rep == Rep(in, k)
           group == Alike(in, k)
           stated == Stated(group, field)
           A == FrozenAssessments(in)
           matching == {f \in rep.facts : f.field = field}
           cited == UNION {f.evidence : f \in matching}
           assessed == {a \in A : a.field = field /\ a.evidence \in cited}
           values == {f.value : f \in matching}
           fs == _field_state(rep.facts, field, A)
<1>1. rep.facts = _merge_facts(group, k[2])
  BY DEF Representative, Rep
<1>2. /\ \A f \in rep.facts : \E g \in Stated(group, f.field) : g.value = f.value
      /\ \A f \in rep.facts : \A id \in f.evidence :
           \E g \in Stated(group, f.field) : g.value = f.value /\ id \in g.evidence
      /\ \A g \in stated : \E f \in rep.facts :
           f.field = field /\ f.value = g.value /\ g.evidence \subseteq f.evidence
  BY <1>1, MergedFactsStated
<1>3. /\ fs.values = values
      /\ fs.state = StateOf({a.state : a \in assessed}, Cardinality(values) > 1)
  BY DEF _field_state
<1>4. /\ ~(Cardinality(values) > 1) /\ values # {}
      /\ \E a \in assessed : a.state = "ACCEPTABLE"
      /\ \A a \in assessed : a.state # "CONFLICT"
  <2> HIDE DEF assessed, values, fs
  <2>1. fs.state = "ACCEPTABLE" /\ fs.values # {}
    BY DEF fs
  <2> QED
    BY <1>3, <2>1 DEF StateOf
<1>5. Cardinality(values) = 1
  <2>1. IsFiniteSet(rep.facts)
    BY RecallType DEF IsRecall, IsRepresentative
  <2>2. IsFiniteSet(fs.values)
    BY <2>1, FieldStateType
  <2> HIDE DEF values, fs
  <2>3. IsFiniteSet(values)
    BY <1>3, <2>2
  <2>4. Cardinality(values) \in Nat /\ Cardinality(values) # 0
    BY <1>4, <2>3, FS_CardinalityType, FS_EmptySet
  <2> QED
    BY <1>4, <2>4
<1>6. values = {f.value : f \in stated}
  <2>1. \A v \in values : \E f \in stated : f.value = v
    BY <1>2
  <2>2. \A f \in stated : f.value \in values
    BY <1>2
  <2> QED
    BY <2>1, <2>2
<1>7. \E f \in stated : Vouched(in, f)
  <2>1. PICK a \in assessed : a.state = "ACCEPTABLE"
    BY <1>4
  <2>2. a \in A /\ a.field = field /\ a.evidence \in cited
    OBVIOUS
  <2>3. PICK e \in in.evidence, q \in in.evidencePolicies :
          /\ e.id = a.evidence /\ q.field = a.field
          /\ e.source \in q.sources /\ e.method \in q.methods /\ q.scope \in {"*", e.scope}
          /\ e.reconstructable /\ e.lower # None /\ in.now - e.lower <= q.sla
    BY <2>1, <2>2, AcceptedIsVouched
  <2>4. PICK f \in rep.facts : f.field = field /\ a.evidence \in f.evidence
    BY <2>2
  <2>5. PICK g \in Stated(group, f.field) : a.evidence \in g.evidence
    BY <1>2, <2>4
  <2>6. g \in stated /\ g.field = field
    BY <2>4, <2>5 DEF Stated
  <2>7. Vouched(in, g)
    BY <2>2, <2>3, <2>5, <2>6 DEF Vouched
  <2> QED
    BY <2>6, <2>7
<1>8. ASSUME NEW f \in stated, NEW e \in in.evidence, e.id \in f.evidence, e.disputed \/ e.revoked
      PROVE  FALSE
  <2>1. PICK g \in rep.facts : g.field = field /\ f.evidence \subseteq g.evidence
    BY <1>2
  <2> DEFINE x == <<e.id, field>>
  <2>2. x \in MaterialPairs(in, recall)
    <3>1. g \in UNION {r.facts : r \in recall.representatives}
      OBVIOUS
    <3>2. e.id \in g.evidence
      BY <1>8, <2>1
    <3>3. \A h \in (UNION {r.facts : r \in recall.representatives}) : \A id \in h.evidence :
            <<id, h.field>> \in MaterialPairs(in, recall)
      BY DEF MaterialPairs
    <3> HIDE DEF recall, rep
    <3> QED
      BY <2>1, <3>1, <3>2, <3>3
  <2>3. Assessment(in, x).state = "CONFLICT"
    BY <1>8, DisputedIsConflict
  <2>4. Assessment(in, x) \in A
    BY <2>2, AssessmentsAre DEF FrozenAssessments
  <2>5. Assessment(in, x).field = field /\ Assessment(in, x).evidence = e.id
    <3> DEFINE q == CHOOSE p \in PolicyFor(in, x[2]) : TRUE
    <3>1. PolicyFor(in, x[2]) # {}
      BY <2>2 DEF AssessmentRaises
    <3>2. q.field = field
      BY <3>1 DEF PolicyFor
    <3>3. EvidenceFor(in, e.id) = {e}
      BY InputKeys DEF EvidenceFor
    <3>4. Assessment(in, x) = _assessment(in, e, q)
      BY <3>3 DEF Assessment
    <3> HIDE DEF q, x
    <3> QED
      BY <3>2, <3>4 DEF _assessment
  <2>6. Assessment(in, x) \in assessed
    BY <1>8, <2>1, <2>4, <2>5
  <2> QED
    BY <1>4, <2>3, <2>6
<1>9. Settled(in, group, field)
  <2>1. Cardinality({f.value : f \in stated}) = 1
    BY <1>5, <1>6
  <2> HIDE DEF group
  <2> QED
    BY <1>7, <1>8, <2>1 DEF Settled
<1> QED
  BY <1>3, <1>6, <1>9

\* Every representative stands for the records of its key, of which there are some.
LEMMA RepParts ==
  ASSUME NEW in, DecisionGraphInput(in), NEW rep \in recall_and_deduplicate(in).representatives
  PROVE  /\ rep = Rep(in, rep.key) /\ rep.product = rep.key[2]
         /\ Alike(in, rep.key) # {} /\ IsFiniteSet(Alike(in, rep.key))
         /\ \A f \in rep.facts : f.component = rep.product
         /\ \A r \in Alike(in, rep.key) :
              /\ r \in in.records /\ _canonical(in, r.product) = rep.product
              /\ r.requires \subseteq rep.requires /\ r.sellerGates \subseteq rep.sellerGates
<1>1. PICK r \in Kept(in) : rep = Rep(in, _identity_key(in, r))
  BY RecallParts DEF Rep
<1> DEFINE k == _identity_key(in, r)
<1>2. rep.key = k /\ rep.product = k[2] /\ rep.facts = _merge_facts(Alike(in, k), k[2])
  BY <1>1 DEF Rep, Representative
<1>3. r \in Alike(in, k) /\ IsFiniteSet(Alike(in, k))
  BY RepresentativeType
<1>4. \A f \in rep.facts : f.component = rep.product
  BY <1>2, MergedFactsStated
<1>5. /\ rep.requires = UNION {x.requires : x \in Alike(in, k)}
      /\ rep.sellerGates = UNION {x.sellerGates : x \in Alike(in, k)}
  BY <1>1 DEF Rep, Representative
<1>6. \A x \in Alike(in, k) : /\ x \in in.records /\ _canonical(in, x.product) = k[2]
                              /\ x.requires \subseteq rep.requires /\ x.sellerGates \subseteq rep.sellerGates
  BY <1>5, IdentityType DEF Alike, Kept
<1> HIDE DEF k
<1> QED
  BY <1>1, <1>2, <1>3, <1>4, <1>6 DEF k

\* The bundle of a plan: the records of the i-th component are those of the i-th representative.
LEMMA BundleRecords ==
  ASSUME NEW in, DecisionGraphInput(in), NEW root \in recall_and_deduplicate(in).representatives,
         NEW records, records = closure(recall_and_deduplicate(in), root).ordered,
         NEW p, p.src = root.key, p.components = [i \in DOMAIN records |-> records[i].product],
         NEW i \in DOMAIN p.components
  PROVE  RecordsOf(in, p, i) = Alike(in, records[i].key)
<1> DEFINE recall == recall_and_deduplicate(in)
           s == closure(recall, root)
<1>1. IsRecall(recall)
  BY RecallType
<1>2. SearchOK(recall, root, s) /\ s.stack = <<>>
  BY <1>1, ClosureOK
<1>3. /\ records \in Seq(recall.representatives) /\ records # <<>> /\ Last(records) = root
      /\ \A j \in DOMAIN records : \/ ByProduct(recall, records[j].product) = {records[j]}
                                   \/ j = Len(records)
  BY <1>2 DEF SearchOK, SearchType, Searches, SearchRoot
<1> HIDE DEF recall, s
<1>4. /\ Len(records) \in Nat \ {0} /\ DOMAIN records = 1..Len(records)
      /\ records[Len(records)] = root
  BY <1>3, EmptySeq DEF Last
<1>5. Len(p.components) = Len(records) /\ i \in 1..Len(records) /\ records[i] \in recall.representatives
  BY <1>3, <1>4
<1>6. p.components[i] = records[i].product
  OBVIOUS
<1>7. RecordsOf(in, p, i) =
        {r \in Kept(in) : IF i = Len(records) THEN _identity_key(in, r) = root.key
                          ELSE _canonical(in, r.product) = records[i].product}
  BY <1>5, <1>6 DEF RecordsOf, Kept
<1>8. CASE i = Len(records)
  BY <1>4, <1>7, <1>8 DEF Alike
<1>9. CASE i # Len(records)
  <2>1. ByProduct(recall, records[i].product) = {records[i]}
    BY <1>3, <1>4, <1>5, <1>9
  <2>2. ASSUME NEW r \in Kept(in), _canonical(in, r.product) = records[i].product
        PROVE  _identity_key(in, r) = records[i].key
    <3> DEFINE k == _identity_key(in, r)
    <3>1. Rep(in, k) \in recall.representatives
      BY RecallParts DEF Rep, recall
    <3>2. Rep(in, k).key = k /\ Rep(in, k).product = k[2]
      BY DEF Rep, Representative
    <3>3. k[2] = _canonical(in, r.product)
      BY IdentityType DEF Kept
    <3> HIDE DEF k
    <3>4. Rep(in, k) \in ByProduct(recall, records[i].product)
      BY <2>2, <3>1, <3>2, <3>3 DEF ByProduct
    <3> QED
      BY <2>1, <3>2, <3>4 DEF k
  <2>3. \A r \in Alike(in, records[i].key) : _canonical(in, r.product) = records[i].product
    BY <1>5, RepParts DEF recall
  <2> QED
    BY <1>7, <1>9, <2>2, <2>3 DEF Alike
<1> QED
  BY <1>8, <1>9

\* What the components of a bundle say of a field, each on its own.
OwnStates(records, field, A) == {_field_state(records[i].facts, field, A) : i \in DOMAIN records}

\* The facts a gate sees of one component are those of its representative.
LEMMA BundleStates ==
  ASSUME NEW in, DecisionGraphInput(in), NEW root \in recall_and_deduplicate(in).representatives,
         NEW records, records = closure(recall_and_deduplicate(in), root).ordered,
         NEW m, m = PackMaterial(in, recall_and_deduplicate(in), root),
         NEW field, field # CostField, NEW A
  PROVE  _component_field_states(m, field, A) = OwnStates(records, field, A)
<1> DEFINE recall == recall_and_deduplicate(in)
           s == closure(recall, root)
           raw == UNION {r.facts : r \in Range(records)}
           other == {f \in raw : f.field # CostField}
           bill == _combined_cost(in, records)
           priceEvidence == UNION {f.evidence : f \in {g \in raw : g.field = CostField}}
           price == IF bill.cost.base = None THEN {}
                    ELSE {[field |-> CostField, value |-> <<"num", bill.cost.base>>,
                           component |-> c, evidence |-> priceEvidence] :
                            c \in {r.product : r \in Range(records)}}
<1>1. SearchOK(recall, root, s) /\ s.stack = <<>>
  BY RecallType, ClosureOK
<1>2. /\ records \in Seq(recall.representatives) /\ records # <<>>
      /\ \A i, j \in DOMAIN records : records[i].product = records[j].product => i = j
  BY <1>1 DEF SearchOK, SearchType, Searches, SearchRoot, SearchOnce
<1>3. /\ m.components = [i \in DOMAIN records |-> records[i].product]
      /\ m.gateFacts = other \cup price
  BY DEF PackMaterial, ClosedMaterial, BundleMaterial
<1>4. \A f \in price : f.field = CostField
  <2> HIDE DEF bill, priceEvidence
  <2> QED
    OBVIOUS
<1> HIDE DEF price, recall, s
<1>5. /\ Len(records) \in Nat \ {0} /\ DOMAIN records = 1..Len(records)
      /\ Len(m.components) = Len(records) /\ DOMAIN m.components = DOMAIN records
  BY <1>2, <1>3, EmptySeq
<1>6. Range(records) = {records[i] : i \in DOMAIN records}
  BY DEF Range
<1>7. \A i \in DOMAIN records : \A f \in records[i].facts : f.component = records[i].product
  BY <1>2, <1>5, RepParts DEF recall
<1>8. \A f \in raw : \E i \in DOMAIN records : f \in records[i].facts
  BY <1>6
<1>9. \A i \in DOMAIN records : records[i].facts \subseteq raw
  BY <1>6
<1> HIDE DEF raw
<1>10. ASSUME NEW i \in DOMAIN records
       PROVE  _field_state({f \in m.gateFacts : f.component = records[i].product}, field, A)
                = _field_state(records[i].facts, field, A)
  <2> DEFINE X == {f \in m.gateFacts : f.component = records[i].product}
  <2>1. {f \in X : f.field = field} = {f \in records[i].facts : f.field = field}
    BY <1>2, <1>3, <1>4, <1>7, <1>8, <1>9
  <2> HIDE DEF X
  <2> QED
    BY <2>1, FieldStateSame DEF X
<1>11. CASE Len(records) = 1
  <2>1. DOMAIN records = {1}
    BY <1>5, <1>11
  <2>2. {f \in m.gateFacts : f.field = field} = {f \in records[1].facts : f.field = field}
    BY <1>3, <1>4, <1>8, <1>9, <2>1
  <2>3. _field_state(m.gateFacts, field, A) = _field_state(records[1].facts, field, A)
    BY <2>2, FieldStateSame
  <2>4. _component_field_states(m, field, A) = {_field_state(m.gateFacts, field, A)}
    BY <1>5, <1>11 DEF _component_field_states
  <2> QED
    BY <2>1, <2>3, <2>4 DEF OwnStates
<1>12. CASE Len(records) # 1
  <2> DEFINE at(c) == _field_state({f \in m.gateFacts : f.component = c}, field, A)
             own(i) == _field_state(records[i].facts, field, A)
  <2>1. _component_field_states(m, field, A) = {at(c) : c \in Range(m.components)}
    BY <1>5, <1>12 DEF _component_field_states
  <2>2. Range(m.components) = {records[i].product : i \in DOMAIN records}
    BY <1>3, <1>5 DEF Range
  <2>3. \A i \in DOMAIN records : at(records[i].product) = own(i)
    BY <1>10
  <2> HIDE DEF at, own
  <2>4. {at(c) : c \in {records[i].product : i \in DOMAIN records}} = {own(i) : i \in DOMAIN records}
    BY <2>3
  <2> QED
    BY <2>1, <2>2, <2>4 DEF own, OwnStates
<1> QED
  BY <1>11, <1>12

\* No reason a gate gives is a status a plan is eligible with.
LEMMA ReasonsStop ==
  ASSUME NEW in, DecisionGraphInput(in), Blocks(in), NEW m, NEW assessments
  PROVE  \A g \in evaluate_gates(in, m, assessments) : g.reasons \cap Eligible = {}
<1> DEFINE stops(reasons) == reasons \cap Eligible = {}
<1>1. ASSUME NEW gate \in in.gates PROVE stops(_evaluate_gate(in, gate, m, assessments).reasons)
  <2> DEFINE parts == {SellerRuleEvidence(gate, assessments)} \cup
               {IF gate.blocked = "SEIL_PASS" THEN SellerPredicate(in, p)
                ELSE BuyerPredicate(m, p, assessments) : p \in gate.predicates}
  <2>1. stops(SellerRuleEvidence(gate, assessments).reasons)
    BY DEF SellerRuleEvidence, Eligible
  <2>2. \A p : stops(SellerPredicate(in, p).reasons)
    BY DEF SellerPredicate, Eligible
  <2>3. \A p : stops(BuyerPredicate(m, p, assessments).reasons)
    BY DEF BuyerPredicate, Eligible
  <2>4. \A x \in parts : stops(x.reasons)
    BY <2>1, <2>2, <2>3
  <2> HIDE DEF parts
  <2>5. stops(UNION {x.reasons : x \in parts})
    BY <2>4
  <2>6. gate.blocked \notin Eligible
    BY DEF Blocks
  <2>7. \E b \in SUBSET {gate.blocked} :
          GateOutcome(gate, parts).reasons = (UNION {x.reasons : x \in parts}) \cup b
    BY DEF GateOutcome
  <2>8. stops(GateOutcome(gate, parts).reasons)
    BY <2>5, <2>6, <2>7
  <2> QED
    BY <2>8 DEF _evaluate_gate, parts
<1>2. stops(_availability_gate(m).reasons)
  BY DEF _availability_gate, Eligible
<1>3. \A g \in _authority_gate(m) : stops(g.reasons)
  BY DEF _authority_gate, Eligible
<1>4. \A g \in _dependency_gates(m) : stops(g.reasons)
  BY DEF _dependency_gates, Eligible
<1> QED
  BY <1>1, <1>2, <1>3, <1>4 DEF evaluate_gates

\* A plan is eligible when no gate gives a reason against it.
LEMMA EligibleUnopposed ==
  ASSUME NEW in, DecisionGraphInput(in), Blocks(in), NEW m, m.issues \in SUBSET BundleIssues,
         NEW assessments, _primary_status(evaluate_gates(in, m, assessments)) \in Eligible
  PROVE  /\ \A g \in evaluate_gates(in, m, assessments) : g.reasons = {}
         /\ m.available /\ m.issues = {} /\ m.authority \in {"NONE", "SELLER_SEALED"}
<1> DEFINE gates == evaluate_gates(in, m, assessments)
<1>1. \A g \in gates : IsGate(g) /\ g.reasons \cap Eligible = {}
  BY GatesType, ReasonsStop
<1>2. \A g \in gates : g.reasons \in SUBSET CandidateStatus
  BY <1>1 DEF IsGate
<1>3. (\E g \in gates : g.reasons # {}) => \E g \in gates : _primary_status(gates) \in g.reasons
  BY <1>2, PrimaryStatus
<1>4. \A g \in gates : g.reasons = {}
  BY <1>1, <1>3
<1>5. /\ _availability_gate(m) \in gates /\ _dependency_gates(m) \subseteq gates
      /\ _authority_gate(m) \subseteq gates
  BY DEF evaluate_gates
<1> HIDE DEF gates
<1>6. m.available
  <2>1. _availability_gate(m).reasons = {}
    BY <1>4, <1>5
  <2> QED
    BY <2>1 DEF _availability_gate
<1>7. m.issues = {}
  <2>1. \A issue \in m.issues :
          [gate |-> <<issue, 0>>, truth |-> "FALSE", reasons |-> {"SIRA_INELIGIBLE"},
           resolution |-> {}] \in gates
    BY <1>5 DEF _dependency_gates
  <2> QED
    BY <1>4, <2>1
<1>8. m.authority \in {"NONE", "SELLER_SEALED"}
  BY <1>4, <1>5 DEF _authority_gate
<1> QED
  BY <1>4, <1>6, <1>7, <1>8 DEF gates

\* The weakest authority of a bundle is the strongest only where all are.
LEMMA FloorSealed ==
  ASSUME NEW S, S # {}, \A r \in S : r.authority \in DOMAIN AuthorityRank
  PROVE  /\ _authority_floor(S) \in DOMAIN AuthorityRank
         /\ _authority_floor(S) = "SELLER_SEALED" => \A r \in S : r.authority = "SELLER_SEALED"
<1> DEFINE below == {2 - AuthorityRank[r.authority] : r \in S}
           floor(r) == \A s \in S : AuthorityRank[s.authority] <= AuthorityRank[r.authority]
<1>1. \A x \in DOMAIN AuthorityRank : /\ AuthorityRank[x] \in 0..2
                                      /\ AuthorityRank[x] = 0 <=> x = "SELLER_SEALED"
  BY DEF AuthorityRank
<1>2. below \in SUBSET Nat /\ below # {}
  BY <1>1
<1>3. PICK n \in below : \A k \in below : n <= k
  BY <1>2, LeastNatural
<1>4. PICK r \in S : n = 2 - AuthorityRank[r.authority]
  BY <1>3
<1>5. floor(r)
  BY <1>1, <1>3, <1>4
<1> DEFINE weakest == CHOOSE x \in S : floor(x)
<1>6. weakest \in S /\ floor(weakest)
  BY <1>5
<1>7. _authority_floor(S) = weakest.authority
  BY DEF _authority_floor
<1> HIDE DEF weakest
<1> QED
  BY <1>1, <1>6, <1>7

\* What a seller's rule that gives no reason has found: the buyer disclosed what it asks for.
LEMMA SellerRuleHolds ==
  ASSUME NEW in, NEW gate, GateRule(gate), gate.blocked = "SEIL_PASS", NEW m, NEW A,
         _evaluate_gate(in, gate, m, A).reasons = {}
  PROVE  NotDeclined(in, gate)
<1> DEFINE met(q) == _predicate_matches(_buyer_value(in, q.field), q)
           rule == SellerRuleEvidence(gate, A)
           parts == {rule} \cup {SellerPredicate(in, q) : q \in gate.predicates}
           truths == UNION {x.truths : x \in parts}
           unmet == IF gate.mode = "REQUIRE_MATCH" THEN "FALSE" \in truths
                    ELSE truths \cap {"CONFLICT", "FALSE", "UNKNOWN"} = {}
           blocked == "CONFLICT" \notin truths /\ unmet
<1>1. _evaluate_gate(in, gate, m, A) = GateOutcome(gate, parts)
  BY DEF _evaluate_gate
<1>2. GateOutcome(gate, parts).reasons =
        (UNION {x.reasons : x \in parts}) \cup (IF blocked THEN {gate.blocked} ELSE {})
  BY DEF GateOutcome
<1>3. rule.reasons = {} => rule.truths = {}
  BY DEF SellerRuleEvidence
<1>4. \A q \in gate.predicates : SellerPredicate(in, q).reasons = {} =>
        /\ q.field \in KnownFields(in)
        /\ SellerPredicate(in, q).truths = {IF met(q) THEN "TRUE" ELSE "FALSE"}
  <2> HIDE DEF met
  <2> QED
    BY DEF SellerPredicate, met
<1>5. rule \in parts /\ \A q \in gate.predicates : SellerPredicate(in, q) \in parts
  OBVIOUS
<1>6. \A x \in parts : x = rule \/ \E q \in gate.predicates : x = SellerPredicate(in, q)
  OBVIOUS
<1> HIDE DEF met, rule, parts
<1>7. (\A x \in parts : x.reasons = {}) /\ ~blocked
  <2>1. (UNION {x.reasons : x \in parts}) \cup (IF blocked THEN {gate.blocked} ELSE {}) = {}
    BY <1>1, <1>2
  <2> HIDE DEF blocked
  <2>2. UNION {x.reasons : x \in parts} = {} /\ ~blocked
    BY <2>1
  <2> QED
    BY <2>2
<1>8. /\ \A q \in gate.predicates : q.field \in KnownFields(in)
      /\ \A q \in gate.predicates :
           SellerPredicate(in, q).truths = {IF met(q) THEN "TRUE" ELSE "FALSE"}
      /\ rule.truths = {}
  BY <1>3, <1>4, <1>5, <1>7
<1>9. \A t \in truths : \E q \in gate.predicates : t = IF met(q) THEN "TRUE" ELSE "FALSE"
  BY <1>6, <1>8
<1>10. \A q \in gate.predicates : ~met(q) => "FALSE" \in truths
  BY <1>5, <1>8
<1> HIDE DEF truths
<1>11. CASE gate.mode = "REQUIRE_MATCH"
  <2>1. "CONFLICT" \notin truths
    BY <1>9
  <2>2. "FALSE" \notin truths
    BY <1>7, <1>11, <2>1
  <2>3. \A q \in gate.predicates : met(q)
    BY <1>10, <2>2
  <2> QED
    BY <1>8, <1>11, <2>3 DEF NotDeclined, met
<1>12. CASE gate.mode # "REQUIRE_MATCH"
  <2>1. "CONFLICT" \notin truths
    BY <1>9
  <2>2. truths \cap {"CONFLICT", "FALSE", "UNKNOWN"} # {}
    BY <1>7, <1>12, <2>1
  <2>3. \E q \in gate.predicates : ~met(q)
    BY <1>9, <2>2
  <2> QED
    BY <1>8, <1>12, <2>3 DEF NotDeclined, met
<1> QED
  BY <1>11, <1>12

\* What a buyer's rule that gives no reason has found: every field it is about is accepted in
\* every component.
LEMMA BuyerRuleHolds ==
  ASSUME NEW in, NEW gate, GateRule(gate), gate.blocked # "SEIL_PASS", NEW m, NEW A,
         _evaluate_gate(in, gate, m, A).reasons = {}
  PROVE  LET fields(q) == _component_field_states(m, q.field, A)
             holds(f, q) == \A v \in f.values : _predicate_matches(v, q)
         IN  /\ \A q \in gate.predicates : \A f \in fields(q) :
                  f.state \notin {"CONFLICT", "STALE", "UNKNOWN"} /\ f.values # {}
             /\ IF gate.mode = "REQUIRE_MATCH"
                THEN \A q \in gate.predicates : \A f \in fields(q) : holds(f, q)
                ELSE \E q \in gate.predicates : \E f \in fields(q) : ~holds(f, q)
<1> DEFINE fields(q) == _component_field_states(m, q.field, A)
           holds(f, q) == \A v \in f.values : _predicate_matches(v, q)
           rule == SellerRuleEvidence(gate, A)
           part(q) == BuyerPredicate(m, q, A)
           parts == {rule} \cup {part(q) : q \in gate.predicates}
           truths == UNION {x.truths : x \in parts}
           unmet == IF gate.mode = "REQUIRE_MATCH" THEN "FALSE" \in truths
                    ELSE truths \cap {"CONFLICT", "FALSE", "UNKNOWN"} = {}
           blocked == "CONFLICT" \notin truths /\ unmet
<1>1. _evaluate_gate(in, gate, m, A) = GateOutcome(gate, parts)
  BY DEF _evaluate_gate
<1>2. GateOutcome(gate, parts).reasons =
        (UNION {x.reasons : x \in parts}) \cup (IF blocked THEN {gate.blocked} ELSE {})
  BY DEF GateOutcome
<1>3. rule.truths = {}
  BY DEF SellerRuleEvidence
<1>4. ASSUME NEW q \in gate.predicates, part(q).reasons = {}
      PROVE  /\ \A f \in fields(q) : f.state \notin {"CONFLICT", "STALE", "UNKNOWN"} /\ f.values # {}
             /\ part(q).truths = {IF holds(f, q) THEN "TRUE" ELSE "FALSE" : f \in fields(q)}
  <2> DEFINE F == fields(q)
             states == {f.state : f \in F}
             T == {IF holds(f, q) THEN "TRUE" ELSE "FALSE" : f \in F}
  <2>1. part(q) =
          IF "CONFLICT" \in states
          THEN [truths |-> {"CONFLICT"}, reasons |-> {"CONFLICTING_EVIDENCE"}]
          ELSE IF "STALE" \in states THEN [truths |-> {"UNKNOWN"}, reasons |-> {"STALE_EVIDENCE"}]
          ELSE IF "UNKNOWN" \in states \/ \E f \in F : f.values = {}
          THEN [truths |-> {"UNKNOWN"}, reasons |-> {"INSUFFICIENT_EVIDENCE"}]
          ELSE [truths |-> T, reasons |-> {}]
    BY DEF BuyerPredicate
  <2> HIDE DEF F, T
  <2>2. part(q).reasons = {}
    BY <1>4
  <2> HIDE DEF part
  <2>3. /\ "CONFLICT" \notin states /\ "STALE" \notin states /\ "UNKNOWN" \notin states
        /\ ~\E f \in F : f.values = {}
        /\ part(q).truths = T
    <3> HIDE DEF states
    <3> QED
      BY <2>1, <2>2
  <2>4. \A f \in F : f.state \notin {"CONFLICT", "STALE", "UNKNOWN"} /\ f.values # {}
    BY <2>3
  <2> QED
    BY <2>3, <2>4 DEF F, T
<1>5. rule \in parts /\ \A q \in gate.predicates : part(q) \in parts
  OBVIOUS
<1>6. \A x \in parts : x = rule \/ \E q \in gate.predicates : x = part(q)
  OBVIOUS
<1> HIDE DEF holds, rule, part, parts, fields
<1>7. (\A x \in parts : x.reasons = {}) /\ ~blocked
  <2>1. (UNION {x.reasons : x \in parts}) \cup (IF blocked THEN {gate.blocked} ELSE {}) = {}
    BY <1>1, <1>2
  <2> HIDE DEF blocked
  <2>2. UNION {x.reasons : x \in parts} = {} /\ ~blocked
    BY <2>1
  <2> QED
    BY <2>2
<1>8. \A q \in gate.predicates :
        /\ \A f \in fields(q) : f.state \notin {"CONFLICT", "STALE", "UNKNOWN"} /\ f.values # {}
        /\ part(q).truths = {IF holds(f, q) THEN "TRUE" ELSE "FALSE" : f \in fields(q)}
  BY <1>4, <1>5, <1>7
<1>9. \A t \in truths : \E q \in gate.predicates : \E f \in fields(q) :
        t = IF holds(f, q) THEN "TRUE" ELSE "FALSE"
  BY <1>3, <1>6, <1>8
<1>10. ASSUME NEW q \in gate.predicates, NEW f \in fields(q), ~holds(f, q) PROVE "FALSE" \in truths
  <2>1. "FALSE" \in part(q).truths
    BY <1>8, <1>10
  <2> QED
    BY <1>5, <2>1
<1> HIDE DEF truths
<1>11. "CONFLICT" \notin truths
  BY <1>9
<1>12. CASE gate.mode = "REQUIRE_MATCH"
  <2>1. "FALSE" \notin truths
    BY <1>7, <1>11, <1>12
  <2>2. \A q \in gate.predicates : \A f \in fields(q) : holds(f, q)
    BY <1>10, <2>1
  <2> QED
    BY <1>8, <1>12, <2>2 DEF fields, holds
<1>13. CASE gate.mode # "REQUIRE_MATCH"
  <2>1. truths \cap {"CONFLICT", "FALSE", "UNKNOWN"} # {}
    BY <1>7, <1>11, <1>13
  <2>2. \E q \in gate.predicates : \E f \in fields(q) : ~holds(f, q)
    BY <1>9, <2>1
  <2> QED
    BY <1>8, <1>13, <2>2 DEF fields, holds
<1> QED
  BY <1>12, <1>13

\* A plan from a pack is the bundle of one representative.
LEMMA PackPlan ==
  ASSUME NEW in, DecisionGraphInput(in), Blocks(in), NEW p \in FrozenPlans(in),
         p.status \in Eligible, p.pack
  PROVE  \E root \in recall_and_deduplicate(in).representatives :
           LET m == PackMaterial(in, recall_and_deduplicate(in), root)
               records == closure(recall_and_deduplicate(in), root).ordered
           IN  /\ p.src = root.key /\ p.action = m.action
               /\ p.components = [i \in DOMAIN records |-> records[i].product]
               /\ \A g \in evaluate_gates(in, m, FrozenAssessments(in)) : g.reasons = {}
               /\ \A r \in Range(records) : r.available
               /\ closure(recall_and_deduplicate(in), root).issues = {}
               /\ _authority_floor(Range(records)) \in {"NONE", "SELLER_SEALED"}
               /\ m.sellerGates = UNION {r.sellerGates : r \in Range(records)}
<1> DEFINE recall == recall_and_deduplicate(in)
           A == FrozenAssessments(in)
<1>1. PICK m \in Materials(in, recall) : p = Plan(in, m, A)
  BY DEF FrozenPlans, build_solution_plans
<1>2. /\ p.src = m.src /\ p.action = m.action /\ p.components = m.components
      /\ p.pack = (m.authority # "NONE")
      /\ p.status = _primary_status(evaluate_gates(in, m, A))
  BY <1>1 DEF Plan, EvaluatedPlan
<1>3. m.issues \in SUBSET BundleIssues
  BY RecallType, MaterialShape
<1>4. /\ \A g \in evaluate_gates(in, m, A) : g.reasons = {}
      /\ m.available /\ m.issues = {} /\ m.authority \in {"NONE", "SELLER_SEALED"}
  BY <1>2, <1>3, EligibleUnopposed
<1>5. PICK root \in recall.representatives : m = PackMaterial(in, recall, root)
  <2>1. \A a \in in.current : _current_material(a).authority = "NONE"
    BY DEF _current_material
  <2> QED
    BY <1>2, <2>1 DEF Materials
<1> DEFINE s == closure(recall, root)
<1>6. /\ m.src = root.key
      /\ m.components = [i \in DOMAIN s.ordered |-> s.ordered[i].product]
      /\ m.available = (\A r \in Range(s.ordered) : r.available)
      /\ m.authority = _authority_floor(Range(s.ordered))
      /\ m.sellerGates = UNION {r.sellerGates : r \in Range(s.ordered)}
      /\ m.issues = s.issues \cup _combined_cost(in, s.ordered).issues
  BY <1>5 DEF PackMaterial, ClosedMaterial, BundleMaterial
<1>7. s.issues = {}
  BY <1>4, <1>6
<1>8. \A r \in Range(s.ordered) : r.available
  BY <1>4, <1>6
<1> QED
  BY <1>2, <1>4, <1>5, <1>6, <1>7, <1>8

\* The records of a bundle whose search met no issue and whose seal is the seller's.
LEMMA BundleIsSealed ==
  ASSUME NEW in, DecisionGraphInput(in), NEW root \in recall_and_deduplicate(in).representatives,
         NEW records, records = closure(recall_and_deduplicate(in), root).ordered,
         closure(recall_and_deduplicate(in), root).issues = {},
         \A r \in Range(records) : r.available,
         _authority_floor(Range(records)) \in {"NONE", "SELLER_SEALED"},
         NEW i \in DOMAIN records
  PROVE  /\ records[i] \in recall_and_deduplicate(in).representatives
         /\ Alike(in, records[i].key) # {}
         /\ \A r \in Alike(in, records[i].key) :
              /\ r.status = "PUBLISHED" /\ r.available /\ r.authority = "SELLER_SEALED"
              /\ r.requires \subseteq {records[j].product : j \in 1..(i - 1)}
<1> DEFINE recall == recall_and_deduplicate(in)
           s == closure(recall, root)
           group(r) == Alike(in, r.key)
<1>1. SearchOK(recall, root, s)
  BY RecallType, ClosureOK
<1>2. /\ records \in Seq(recall.representatives) /\ records # <<>>
      /\ \A p \in records[i].requires : \E j \in 1..(i - 1) : records[j].product = p
  <2>1. SearchType(recall, s) /\ SearchRoot(recall, root, s) /\ SearchComplete(s) /\ s.stack = <<>>
    BY <1>1, RecallType, ClosureOK DEF SearchOK
  <2> QED
    BY <2>1 DEF SearchType, Searches, SearchRoot, SearchComplete
<1> HIDE DEF recall, s
<1>3. \A r \in Range(records) : r \in recall.representatives
  BY <1>2 DEF Range
<1>4. records[i] \in Range(records)
  BY DEF Range
<1>5. \A r \in recall.representatives :
        /\ r = Rep(in, r.key) /\ group(r) # {}
        /\ \A x \in group(r) : x \in in.records /\ x.requires \subseteq r.requires
  BY RepParts DEF recall
<1>6. \A r \in recall.representatives : \A x \in group(r) :
        RawCandidateRecord(x) /\ _recall_exclusion(in, x) = "NONE"
  BY <1>5, InputRows DEF Alike, Kept
<1>7. \A r \in recall.representatives :
        /\ r.authority = _authority_floor(group(r))
        /\ r.available = (\A x \in group(r) : x.available)
  <2> SUFFICES ASSUME NEW r \in recall.representatives
               PROVE  /\ r.authority = _authority_floor(group(r))
                      /\ r.available = (\A x \in group(r) : x.available)
    OBVIOUS
  <2> DEFINE k == r.key
  <2>1. r = Rep(in, k)
    BY <1>5
  <2> HIDE DEF k
  <2>2. /\ Rep(in, k).authority = _authority_floor(Alike(in, k))
        /\ Rep(in, k).available = (\A x \in Alike(in, k) : x.available)
    BY DEF Rep, Representative
  <2> QED
    BY <2>1, <2>2 DEF k
<1>8. \A r \in recall.representatives : \A x \in group(r) : x.authority \in DOMAIN AuthorityRank
  BY <1>6 DEF RawCandidateRecord
<1> HIDE DEF group
<1>9. \A r \in recall.representatives :
        /\ r.authority \in DOMAIN AuthorityRank
        /\ r.authority = "SELLER_SEALED" => \A x \in group(r) : x.authority = "SELLER_SEALED"
  <2> SUFFICES ASSUME NEW r \in recall.representatives
               PROVE  /\ r.authority \in DOMAIN AuthorityRank
                      /\ r.authority = "SELLER_SEALED" =>
                           \A x \in group(r) : x.authority = "SELLER_SEALED"
    OBVIOUS
  <2> DEFINE S == group(r)
  <2>1. S # {} /\ (\A x \in S : x.authority \in DOMAIN AuthorityRank) /\ r.authority = _authority_floor(S)
    BY <1>5, <1>7, <1>8
  <2> HIDE DEF S
  <2>2. /\ _authority_floor(S) \in DOMAIN AuthorityRank
        /\ _authority_floor(S) = "SELLER_SEALED" => \A x \in S : x.authority = "SELLER_SEALED"
    BY <2>1, FloorSealed
  <2> QED
    BY <2>1, <2>2 DEF S
<1>10. \A r \in Range(records) : r.authority = "SELLER_SEALED"
  <2> DEFINE S == Range(records)
  <2>1. S # {} /\ \A r \in S : r.authority \in DOMAIN AuthorityRank
    BY <1>3, <1>4, <1>9
  <2> HIDE DEF S
  <2>2. _authority_floor(S) \in DOMAIN AuthorityRank
    BY <2>1, FloorSealed
  <2>3. _authority_floor(S) = "SELLER_SEALED"
    BY <2>2 DEF AuthorityRank, S
  <2>4. \A r \in S : r.authority = "SELLER_SEALED"
    BY <2>1, <2>3, FloorSealed
  <2> QED
    BY <2>4 DEF S
<1>11. ASSUME NEW x \in group(records[i])
       PROVE  /\ x.status = "PUBLISHED" /\ x.available /\ x.authority = "SELLER_SEALED"
              /\ x.requires \subseteq {records[j].product : j \in 1..(i - 1)}
  <2>1. x.status = "PUBLISHED"
    BY <1>3, <1>4, <1>6 DEF RawCandidateRecord, _recall_exclusion
  <2>2. x.available
    BY <1>3, <1>4, <1>7
  <2>3. x.authority = "SELLER_SEALED"
    BY <1>3, <1>4, <1>9, <1>10
  <2>4. x.requires \subseteq records[i].requires
    BY <1>3, <1>4, <1>5
  <2> QED
    BY <1>2, <2>1, <2>2, <2>3, <2>4
<1> QED
  BY <1>3, <1>4, <1>5, <1>11 DEF group, recall

\* What is said of a field is one of four things.
LEMMA FieldStates ==
  ASSUME NEW facts, NEW field, NEW A
  PROVE  _field_state(facts, field, A).state \in EvidenceStates
<1>1. \A states, several : StateOf(states, several) \in EvidenceStates
  BY DEF StateOf, EvidenceStates
<1> QED
  BY <1>1 DEF _field_state

\* A buyer's rule without a reason against a bundle is proved of the raw records behind it.
LEMMA BuyerRuleProved ==
  ASSUME NEW in, DecisionGraphInput(in), Divides(in),
         ~AssessmentRaises(in, recall_and_deduplicate(in)),
         NEW root \in recall_and_deduplicate(in).representatives,
         NEW records, records = closure(recall_and_deduplicate(in), root).ordered,
         \A i \in DOMAIN records : records[i] \in recall_and_deduplicate(in).representatives,
         NEW gate \in in.gates, gate.blocked # "SEIL_PASS",
         NEW m, m = PackMaterial(in, recall_and_deduplicate(in), root),
         _evaluate_gate(in, gate, m, FrozenAssessments(in)).reasons = {}
  PROVE  Required(in, {Alike(in, records[i].key) : i \in DOMAIN records}, gate)
<1> DEFINE A == FrozenAssessments(in)
           bundle == {Alike(in, records[i].key) : i \in DOMAIN records}
           about == {q \in gate.predicates : q.field # CostField}
           fields(q) == _component_field_states(m, q.field, A)
           holds(f, q) == \A v \in f.values : _predicate_matches(v, q)
           own(i, q) == _field_state(records[i].facts, q.field, A)
           group(i) == Alike(in, records[i].key)
<1>1. GateRule(gate)
  BY InputRows
<1>2. /\ \A q \in gate.predicates : \A f \in fields(q) :
           f.state \notin {"CONFLICT", "STALE", "UNKNOWN"} /\ f.values # {}
      /\ IF gate.mode = "REQUIRE_MATCH"
         THEN \A q \in gate.predicates : \A f \in fields(q) : holds(f, q)
         ELSE \E q \in gate.predicates : \E f \in fields(q) : ~holds(f, q)
  BY <1>1, BuyerRuleHolds
<1>3. \A q \in about : fields(q) = {own(i, q) : i \in DOMAIN records}
  <2> SUFFICES ASSUME NEW q \in about PROVE fields(q) = {own(i, q) : i \in DOMAIN records}
    OBVIOUS
  <2> DEFINE field == q.field
  <2>1. field # CostField
    OBVIOUS
  <2> HIDE DEF field, A, own, fields, bundle, group, holds
  <2>2. _component_field_states(m, field, A) = OwnStates(records, field, A)
    BY <2>1, BundleStates
  <2> QED
    BY <2>2 DEF field, own, fields, OwnStates
<1> HIDE DEF fields, holds
<1>4. ASSUME NEW q \in about, NEW i \in DOMAIN records
      PROVE  /\ own(i, q).state = "ACCEPTABLE" /\ own(i, q).values # {}
  <2>1. own(i, q) \in fields(q)
    BY <1>3
  <2>2. own(i, q).state \in EvidenceStates
    BY FieldStates
  <2> HIDE DEF own
  <2> QED
    BY <1>2, <2>1, <2>2 DEF EvidenceStates
<1>5. ASSUME NEW q \in about, NEW i \in DOMAIN records
      PROVE  /\ Settled(in, group(i), q.field)
             /\ own(i, q).values = {f.value : f \in Stated(group(i), q.field)}
  <2> DEFINE k == records[i].key
             rep == records[i]
  <2>1. rep = Rep(in, k) /\ rep \in recall_and_deduplicate(in).representatives
    BY RepParts
  <2>2. own(i, q) = _field_state(Rep(in, k).facts, q.field, A)
    BY <2>1
  <2>3. Rep(in, k) \in recall_and_deduplicate(in).representatives
    BY <2>1
  <2>4. /\ _field_state(Rep(in, k).facts, q.field, A).state = "ACCEPTABLE"
        /\ _field_state(Rep(in, k).facts, q.field, A).values # {}
    BY <1>4, <2>2
  <2> DEFINE field == q.field
             fs == _field_state(Rep(in, k).facts, field, A)
  <2> HIDE DEF k, own, field
  <2>5. fs.state = "ACCEPTABLE" /\ fs.values # {}
    BY <2>4 DEF field
  <2>6. /\ Settled(in, Alike(in, k), field)
        /\ fs.values = {f.value : f \in Stated(Alike(in, k), field)}
    BY <2>3, <2>5, AcceptedIsSettled
  <2> QED
    BY <2>2, <2>6 DEF k, field
<1>6. \A q \in about : \A i \in DOMAIN records : holds(own(i, q), q) <=> Meets(group(i), q)
  <2> SUFFICES ASSUME NEW q \in about, NEW i \in DOMAIN records
               PROVE  holds(own(i, q), q) <=> Meets(group(i), q)
    OBVIOUS
  <2>1. own(i, q).values = {f.value : f \in Stated(group(i), q.field)}
    BY <1>5
  <2> HIDE DEF own, group
  <2> QED
    BY <2>1 DEF holds, Meets
<1>7. \A q \in about : \A x \in bundle : Settled(in, x, q.field)
  BY <1>5
<1> HIDE DEF own
<1>8. CASE gate.mode = "REQUIRE_MATCH"
  <2>1. \A q \in about : \A i \in DOMAIN records : Meets(group(i), q)
    BY <1>2, <1>3, <1>6, <1>8
  <2>2. \A q \in about : \A x \in bundle : Meets(x, q)
    BY <2>1
  <2> HIDE DEF bundle
  <2> QED
    BY <1>7, <1>8, <2>2 DEF Required, bundle
<1>9. CASE gate.mode # "REQUIRE_MATCH"
  <2>1. about = gate.predicates => \E q \in about : \E i \in DOMAIN records : ~Meets(group(i), q)
    BY <1>2, <1>3, <1>6, <1>9
  <2>2. about = gate.predicates => \E q \in about : \E x \in bundle : ~Meets(x, q)
    BY <2>1
  <2> QED
    BY <1>7, <1>9, <2>2 DEF Required
<1> QED
  BY <1>8, <1>9

\* What EligibleIsProved says of one plan.
Proved(in, p) ==
    LET records(i) == RecordsOf(in, p, i)
        bundle == {records(i) : i \in DOMAIN p.components}
    IN  /\ \A i \in DOMAIN p.components :
              /\ records(i) # {}
              /\ \A r \in records(i) :
                    /\ r.status = "PUBLISHED" /\ r.available /\ r.authority = "SELLER_SEALED"
                    /\ r.requires \subseteq {p.components[j] : j \in 1..(i - 1)}
        /\ \A g \in {h \in in.gates : Applies(in, h, p.action)} :
              IF g.blocked = "SEIL_PASS"
              THEN (\E r \in UNION bundle : g.id \in r.sellerGates) => NotDeclined(in, g)
              ELSE Required(in, bundle, g)

\* Every eligible plan from a pack is proved.
LEMMA PlanIsProved ==
  ASSUME NEW in, DecisionGraphInput(in), Blocks(in), Divides(in),
         ~AssessmentRaises(in, recall_and_deduplicate(in)),
         NEW p \in FrozenPlans(in), p.status \in Eligible, p.pack
  PROVE  Proved(in, p)
<1> DEFINE recall == recall_and_deduplicate(in)
           A == FrozenAssessments(in)
<1>1. PICK root \in recall.representatives :
         LET m == PackMaterial(in, recall, root)
             records == closure(recall, root).ordered
         IN  /\ p.src = root.key /\ p.action = m.action
             /\ p.components = [i \in DOMAIN records |-> records[i].product]
             /\ \A g \in evaluate_gates(in, m, A) : g.reasons = {}
             /\ \A r \in Range(records) : r.available
             /\ closure(recall, root).issues = {}
             /\ _authority_floor(Range(records)) \in {"NONE", "SELLER_SEALED"}
             /\ m.sellerGates = UNION {r.sellerGates : r \in Range(records)}
  BY PackPlan
<1> DEFINE m == PackMaterial(in, recall, root)
           records == closure(recall, root).ordered
           group(i) == Alike(in, records[i].key)
           bundle == {RecordsOf(in, p, i) : i \in DOMAIN p.components}
<1> HIDE DEF m, records
<1>2. /\ p.src = root.key /\ p.action = m.action
      /\ p.components = [i \in DOMAIN records |-> records[i].product]
      /\ \A g \in evaluate_gates(in, m, A) : g.reasons = {}
      /\ m.sellerGates = UNION {r.sellerGates : r \in Range(records)}
  BY <1>1 DEF m, records
<1>3. DOMAIN p.components = DOMAIN records
  BY <1>2
<1>4. \A i \in DOMAIN records : RecordsOf(in, p, i) = group(i)
  BY <1>2, <1>3, BundleRecords DEF records
<1>5. \A i \in DOMAIN records :
        /\ records[i] \in recall.representatives /\ group(i) # {}
        /\ \A r \in group(i) :
             /\ r.status = "PUBLISHED" /\ r.available /\ r.authority = "SELLER_SEALED"
             /\ r.requires \subseteq {records[j].product : j \in 1..(i - 1)}
  BY <1>1, BundleIsSealed DEF records
<1>6. ASSUME NEW i \in DOMAIN p.components
      PROVE  /\ RecordsOf(in, p, i) # {}
             /\ \A r \in RecordsOf(in, p, i) :
                  /\ r.status = "PUBLISHED" /\ r.available /\ r.authority = "SELLER_SEALED"
                  /\ r.requires \subseteq {p.components[j] : j \in 1..(i - 1)}
  <2>1. records \in Seq(recall.representatives)
    <3>1. SearchType(recall, closure(recall, root))
      BY RecallType, ClosureOK DEF SearchOK
    <3> QED
      BY <3>1 DEF SearchType, Searches, records
  <2>2. \A j \in 1..(i - 1) : j \in DOMAIN records
    BY <1>3, <2>1
  <2>3. \A j \in 1..(i - 1) : p.components[j] = records[j].product
    BY <1>2, <2>2
  <2> HIDE DEF group
  <2>4. {p.components[j] : j \in 1..(i - 1)} = {records[j].product : j \in 1..(i - 1)}
    BY <2>3
  <2> QED
    BY <1>3, <1>4, <1>5, <2>4
<1>7. bundle = {group(i) : i \in DOMAIN records}
  BY <1>3, <1>4
<1>8. ASSUME NEW g \in in.gates, Applies(in, g, p.action), g.blocked = "SEIL_PASS",
             NEW r \in UNION bundle, g.id \in r.sellerGates
      PROVE  NotDeclined(in, g)
  <2>1. PICK i \in DOMAIN records : r \in group(i)
    BY <1>7
  <2>2. r.sellerGates \subseteq records[i].sellerGates
    BY <1>5, <2>1, RepParts
  <2>3. g.id \in m.sellerGates
    BY <1>2, <1>8, <2>2 DEF Range
  <2>4. _evaluate_gate(in, g, m, A) \in evaluate_gates(in, m, A)
    BY <1>2, <1>8, <2>3 DEF evaluate_gates, _gate_applies
  <2>5. _evaluate_gate(in, g, m, A).reasons = {}
    BY <1>2, <2>4
  <2> QED
    BY <1>8, <2>5, InputRows, SellerRuleHolds
<1>9. ASSUME NEW g \in in.gates, Applies(in, g, p.action), g.blocked # "SEIL_PASS"
      PROVE  Required(in, bundle, g)
  <2>1. _evaluate_gate(in, g, m, A) \in evaluate_gates(in, m, A)
    BY <1>2, <1>9 DEF evaluate_gates, _gate_applies
  <2>2. _evaluate_gate(in, g, m, A).reasons = {}
    BY <1>2, <2>1
  <2>3. Required(in, {group(i) : i \in DOMAIN records}, g)
    BY <1>5, <1>9, <2>2, BuyerRuleProved DEF records, m
  <2> QED
    BY <1>7, <2>3
<1> QED
  BY <1>6, <1>8, <1>9 DEF Proved

\* In every reachable state: an eligible plan from a pack is proved of the raw input.
THEOREM EligiblePlansProved == ReplaySpec => []EligibleIsProved
<1>1. IInv => EligibleIsProved
  <2> SUFFICES ASSUME IInv PROVE EligibleIsProved
    OBVIOUS
  <2>1. InputOK(input) /\ BaseOK
    BY DEF IInv, ReplayOK, EngineOK
  <2>2. base.plans = {} \/ (base.plans = FrozenPlans(input) /\ Sound(input))
    BY <2>1, BaseParts DEF InputOK
  <2>3. \A p \in base.plans : p.status \in Eligible /\ p.pack => Proved(input, p)
    BY <2>1, <2>2, PlanIsProved DEF InputOK, Sound
  <2> QED
    BY <2>3 DEF EligibleIsProved, Proved
<1> QED
  BY <1>1, EngineSound, PTL
=============================================================================
