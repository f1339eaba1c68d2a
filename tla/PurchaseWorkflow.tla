-------------------------- MODULE PurchaseWorkflow --------------------------
(***************************************************************************)
(* The buyer's governed purchase: services/api/sira_api/service.py and     *)
(* surface_v2.py, over the tables of python/persistence/models.py.         *)
(*                                                                         *)
(* One purchase request is followed from its draft to a measured outcome:  *)
(* briefs and proposals to change them, decisions, the exact purchase      *)
(* intent, its staged approval, the payment handoff and the outcome.       *)
(* Every handler is one SERIALIZABLE transaction and so one action; a      *)
(* handler that raises rolls back and is no step.  The exceptions are      *)
(* approve, reject_approval and create_payment_handoff, which commit an    *)
(* expiry before they raise: the expire actions.  A second call with the   *)
(* same idempotency key returns the stored response and is a stuttering    *)
(* step, because claim and completion share the transaction.               *)
(*                                                                         *)
(* uq_decision_record_version and supersedes_id make the decisions of a    *)
(* request one chain: a decision is named by its version.  An intent, its  *)
(* approval and its handoff are unique per decision                        *)
(* (uq_purchase_intent_business_lock, uq_approval_exact_intent,            *)
(* uq_payment_handoff_approval) and are named by that version too.         *)
(***************************************************************************)
EXTENDS Integers, Sequences, FiniteSets

CONSTANTS
  Weights,         \* the preference weights a brief can carry
  TaxonomyWeight,  \* the weight the scenario's taxonomy declares
  Plans,           \* solution plans of the evaluation
  NoPlan,          \* no executable plan: selected_solution_plan_id is NULL
  BestPlan,        \* the plan the decision graph selects under a weight
  Supported,       \* the plans the decision room shows as SUPPORTED
  Paid, Quoted,    \* plans that need a payment; the one the quote is for
  Actors, Roles,   \* verified humans and the roles of the approval policy
  RolesOf,         \* the roles the identity provider verified for an actor
  RoleSeq,         \* approval_requirements of the brief, in policy order
  QuoteClockFixed, \* is the quote clock the frozen one of the fixtures?
  QuoteExpires,    \* quote_expires_at
  ApprovalTerm, HandoffTerm, OutcomeTerm,  \* 60 min, 15 min, checkpoint_days
  ClockSkew,       \* how far ahead an observation may be dated: 5 min
  MaxBriefs, MaxProposals, MaxDecisions, MaxOutcomes, MaxTime  \* bounds

ASSUME PlanAssumption ==
  /\ TaxonomyWeight \in Weights
  /\ NoPlan \notin Plans
  /\ BestPlan \in [Weights -> Plans \cup {NoPlan}]
  /\ Supported \subseteq Plans
  /\ Paid \subseteq Plans
  /\ Quoted \in Paid \cap Supported

ASSUME RoleAssumption ==
  /\ RoleSeq \in Seq(Roles)
  /\ RoleSeq # <<>>
  /\ \A i, j \in 1 .. Len(RoleSeq) : RoleSeq[i] = RoleSeq[j] => i = j
  /\ RolesOf \in [Actors -> SUBSET Roles]

ASSUME TermAssumption ==
  /\ QuoteClockFixed \in BOOLEAN
  /\ QuoteExpires \in Nat
  /\ ApprovalTerm \in Nat \ {0}
  /\ HandoffTerm \in Nat \ {0}
  /\ OutcomeTerm \in Nat \ {0}
  /\ ClockSkew \in Nat
  /\ MaxBriefs \in Nat \ {0}
  /\ MaxProposals \in Nat
  /\ MaxDecisions \in Nat \ {0}
  /\ MaxOutcomes \in Nat
  /\ MaxTime \in Nat

VARIABLES
  request,     \* PurchaseRequest
  nBriefs,     \* highest PurchaseBriefVersion.version
  briefs,      \* PurchaseBriefVersion rows
  proposals,   \* the undecided proposals inside CalibrationRun and
               \* CandidateFeedback; nothing reads one that was decided
  nDecisions,  \* highest DecisionRecord.version
  decisions,   \* DecisionRecord and its EvaluationRun, if it has its own
  discovered,  \* does the WorkflowRun (request, "discover") exist?
  intents,     \* PurchaseIntent
  approvals,   \* ApprovalRequest
  events,      \* ApprovalEvent rows of action APPROVE; no handler reads the others
  handoffs,    \* PaymentHandoff
  outcomes,    \* OutcomeCheckpoint
  actionRuns,  \* ActionRun: (decision, plan)
  outbox,      \* OutboxEvent, by event type and the key that makes it unique; the
               \* events that only echo a row's insertion are left out
  now          \* the service's clock

briefVars     == <<request, nBriefs, briefs, proposals>>
decisionVars  == <<nDecisions, decisions, discovered>>
authorityVars == <<intents, approvals, events, handoffs>>
vars == <<briefVars, decisionVars, authorityVars, outcomes, actionRuns, outbox, now>>

Versions == 1 .. MaxDecisions

RequestRow  == [status : {"NONE", "DRAFT", "DECISION_READY"}, evaluable : BOOLEAN]
BriefRow    == [status : {"NONE", "APPROVED", "SUPERSEDED"}, weight : Weights]
ProposalRow == [base : 0 .. MaxBriefs, weight : Weights]
DecisionRow == [kind : {"NONE", "EVALUATED", "SELECTED"}, brief : 0 .. MaxBriefs,
                weight : Weights, plan : Plans \cup {NoPlan}]

ApprovalStatus == {"PENDING", "APPROVED", "REJECTED", "REVOKED", "EXPIRED", "SUPERSEDED"}
IntentRow   == [status : ApprovalStatus \cup {"NONE", "NOT_REQUESTED"},
                source : 0 .. MaxDecisions]
ApprovalRow == [status : ApprovalStatus \cup {"NONE"}, roles : Seq(Roles), expires : Nat]
EventRow    == [version : Versions, actor : Actors, role : Roles]
HandoffRow  == [status : {"NONE", "READY", "OPENED", "CANCELLED"},
                expires : Nat, opened : Nat]
OutcomeRow  == [version : Versions, observed : Nat,
                state : {"MEASURING", "ACHIEVED", "NOT_ACHIEVED"}]
ActionRunRow == Versions \X Plans
\* The last field tells two events of one type apart: the new decision of an
\* approval.superseded, the observation of an outcome, 0 otherwise.
OutboxRow   == {"purchase_intent.locked", "approval.rejected", "approval.revoked",
                "approval.superseded", "payment_handoff.ready",
                "payment_handoff.opened", "outcome_checkpoint.recorded"}
               \X Versions \X Nat

NoIntent   == [status |-> "NONE", source |-> 0]
NoApproval == [status |-> "NONE", roles |-> <<>>, expires |-> 0]
NoHandoff  == [status |-> "NONE", expires |-> 0, opened |-> 0]
NoDecision == [kind |-> "NONE", brief |-> 0, weight |-> TaxonomyWeight, plan |-> NoPlan]
FirstBrief == [status |-> "APPROVED", weight |-> TaxonomyWeight]
NoBrief    == [status |-> "NONE", weight |-> TaxonomyWeight]

\* The database holds values of these types only.
TypeOK ==
  /\ request \in RequestRow
  /\ nBriefs \in 0 .. MaxBriefs
  /\ briefs \in [1 .. MaxBriefs -> BriefRow]
  /\ proposals \subseteq ProposalRow
  /\ nDecisions \in 0 .. MaxDecisions
  /\ decisions \in [Versions -> DecisionRow]
  /\ discovered \in BOOLEAN
  /\ intents \in [Versions -> IntentRow]
  /\ approvals \in [Versions -> ApprovalRow]
  /\ events \subseteq EventRow
  /\ handoffs \in [Versions -> HandoffRow]
  /\ outcomes \subseteq OutcomeRow
  /\ actionRuns \subseteq ActionRunRow
  /\ outbox \subseteq OutboxRow
  /\ now \in Nat

-----------------------------------------------------------------------------
(* What the handlers read.                                                 *)

\* The commercial terms of an evaluation exist only for a selected plan that
\* needs a payment, and only when the frozen quote is for that plan; a paid
\* plan the quote does not cover makes the evaluation raise.
Priceable(w) == BestPlan[w] \in Paid => BestPlan[w] = Quoted

\* A decision with an evaluation of its own, under brief b and weight w.
Evaluated(b, w) == [kind |-> "EVALUATED", brief |-> b, weight |-> w, plan |-> BestPlan[w]]

\* An evaluated decision owns one persisted evaluation graph, a selection none.
HasEvaluation(v) == decisions[v].kind = "EVALUATED"

\* uq_evaluation_run_input: one evaluation of a request per frozen input, and
\* the input of an evaluation is its brief and its weights.
FreshInput(b, w) == \A v \in 1 .. nDecisions :
  HasEvaluation(v) => ~(decisions[v].brief = b /\ decisions[v].weight = w)

\* lock_purchase_intent looks the selected plan up in the evaluation of
\* decision.supersedes_id, or of the decision itself when there is none.
PlanSource(v) == IF v = 1 THEN 1 ELSE v - 1

\* The plan row of an evaluation carries a Stackfile patch and terms only for
\* the plan that evaluation selected.
Purchasable(v, s) ==
  /\ HasEvaluation(s)
  /\ decisions[v].plan = decisions[s].plan
  /\ decisions[v].plan = Quoted

\* _require_current_decision
Current(v) == v = nDecisions

QuoteNow == IF QuoteClockFixed THEN 0 ELSE now

ApprovalExpired(v) == approvals[v].expires <= now \/ QuoteExpires <= QuoteNow

\* Mutant of HandoffExpiry: the rest of the quote's life with its sign turned.
HandoffExpirySwapped(v) ==
  LET offer == now + (QuoteNow - QuoteExpires)
  IN  IF offer < approvals[v].expires THEN offer ELSE approvals[v].expires
HandoffExpiry(v) ==
  LET offer == now + (QuoteExpires - QuoteNow)
      until == IF approvals[v].expires < offer THEN approvals[v].expires ELSE offer
  IN  IF until < now + HandoffTerm THEN until ELSE now + HandoffTerm

Holds(a, r) == r \in RolesOf[a]
Required(r) == \E i \in 1 .. Len(RoleSeq) : RoleSeq[i] = r

\* record_approval_event takes events for an open request only.
Open(v) == approvals[v].status \in {"PENDING", "APPROVED"}

\* The next stage of the frozen policy is r's, and a holds r.
MayDecideStage(v, a, r) ==
  /\ Holds(a, r)
  /\ Len(approvals[v].roles) < Len(RoleSeq)
  /\ RoleSeq[Len(approvals[v].roles) + 1] = r

\* Mutant of SetAuthority: the copy in the intent is forgotten.
SetAuthorityOnce(v, s) ==
  /\ approvals' = [approvals EXCEPT ![v].status = s]
  /\ UNCHANGED intents

SetAuthority(v, s) ==
  /\ approvals' = [approvals EXCEPT ![v].status = s]
  /\ intents' = [intents EXCEPT ![v].status = s]

-----------------------------------------------------------------------------
(* The request, its briefs and the proposals to change them.               *)

create_purchase_request(scenario) ==
  /\ request.status = "NONE"
  /\ request' = [status |-> "DRAFT", evaluable |-> scenario]
  /\ nBriefs' = IF scenario THEN 1 ELSE 0
  /\ briefs' = IF scenario THEN [briefs EXCEPT ![1] = FirstBrief] ELSE briefs
  /\ UNCHANGED <<proposals, decisionVars, authorityVars, outcomes,
                 actionRuns, outbox, now>>

Propose(base, w) ==
  /\ Cardinality(proposals) < MaxProposals
  /\ proposals' = proposals \cup {[base |-> base, weight |-> w]}
  /\ UNCHANGED <<request, nBriefs, briefs, decisionVars, authorityVars, outcomes,
                 actionRuns, outbox, now>>

\* The proposal of a calibration run targets the newest brief.
run_calibration(w) ==
  /\ nBriefs > 0
  /\ Propose(nBriefs, w)

\* The proposal inside a candidate action's feedback does too.
candidate_action(w) ==
  /\ nBriefs > 0
  /\ Propose(nBriefs, w)

\* Feedback on a solution option needs a decision, and stores its proposal
\* without a base brief.
feedback(w) ==
  /\ nDecisions > 0
  /\ Propose(0, w)

-----------------------------------------------------------------------------
(* Decisions.                                                              *)

AppendDecision(row) ==
  /\ nDecisions < MaxDecisions
  /\ nDecisions' = nDecisions + 1
  /\ decisions' = [decisions EXCEPT ![nDecisions + 1] = row]

\* The last part of discover: the request is ready and its run is on record.
CompleteDiscovery ==
  /\ request' = [request EXCEPT !.status = "DECISION_READY"]
  /\ discovered' = TRUE

\* The discovery workflow compiles its graph input from the source snapshot of
\* the newest brief, whose preferences come from the taxonomy.  Nothing bound to
\* an older decision is touched, and uq_workflow_identity allows one run.
discover ==
  /\ request.status # "NONE" /\ request.evaluable
  /\ ~discovered
  /\ FreshInput(nBriefs, TaxonomyWeight)
  /\ Priceable(TaxonomyWeight)
  /\ AppendDecision(Evaluated(nBriefs, TaxonomyWeight))
  /\ CompleteDiscovery
  /\ UNCHANGED <<nBriefs, briefs, proposals, authorityVars,
                 outcomes, actionRuns, outbox, now>>

\* supersede_intents_for_decision_change, for the new decision n.
Bound(s)  == s \in {"NOT_REQUESTED", "PENDING", "APPROVED"}
supersede_intents_for_decision_change(n) ==
  LET old     == {v \in Versions : v # n /\ intents[v].status # "NONE"}
      lost    == {v \in old : Bound(intents[v].status)}
      dropped == {v \in old : handoffs[v].status = "READY"}
  IN  /\ intents' = [v \in Versions |->
           IF v \in lost THEN [intents[v] EXCEPT !.status = "SUPERSEDED"] ELSE intents[v]]
      /\ approvals' = [v \in Versions |->
           IF v \in lost /\ approvals[v].status \in {"PENDING", "APPROVED"}
           THEN [approvals[v] EXCEPT !.status = "SUPERSEDED"] ELSE approvals[v]]
      /\ handoffs' = [v \in Versions |->
           IF v \in dropped THEN [handoffs[v] EXCEPT !.status = "CANCELLED"] ELSE handoffs[v]]
      /\ outbox' = outbox \cup {<<"approval.superseded", v, n>> : v \in lost \cup dropped}

\* A decided proposal is looked up in the calibration runs of its base brief,
\* then in the feedback that names the brief.
_find_proposal(p) == p \in proposals /\ p.base > 0

\* decide_proposal, up to the change: a proposal not decided yet, on a brief
\* still in force.
Decidable(p) == _find_proposal(p) /\ briefs[p.base].status = "APPROVED"

\* The next brief, with the proposed weight.
_apply_proposal_changes(w) == [status |-> "APPROVED", weight |-> w]

\* Mutant of accept_proposal: the base brief may be superseded already.
accept_proposal_stale(p) ==
  /\ _find_proposal(p)
  /\ nBriefs < MaxBriefs
  /\ FreshInput(nBriefs + 1, p.weight)
  /\ Priceable(p.weight)
  /\ nBriefs' = nBriefs + 1
  /\ briefs' = [briefs EXCEPT ![p.base].status = "SUPERSEDED",
                              ![nBriefs + 1] = _apply_proposal_changes(p.weight)]
  /\ AppendDecision(Evaluated(nBriefs + 1, p.weight))
  /\ supersede_intents_for_decision_change(nDecisions + 1)
  /\ proposals' = proposals \ {p}
  /\ UNCHANGED <<request, discovered, events, outcomes, actionRuns, now>>

\* An accepted proposal makes a new brief and a decision evaluated under it,
\* and takes back whatever the older decisions authorised.
accept_proposal(p) ==
  /\ Decidable(p)
  /\ nBriefs < MaxBriefs
  /\ FreshInput(nBriefs + 1, p.weight)
  /\ Priceable(p.weight)
  /\ nBriefs' = nBriefs + 1
  /\ briefs' = [briefs EXCEPT ![p.base].status = "SUPERSEDED",
                              ![nBriefs + 1] = _apply_proposal_changes(p.weight)]
  /\ AppendDecision(Evaluated(nBriefs + 1, p.weight))
  /\ supersede_intents_for_decision_change(nDecisions + 1)
  /\ proposals' = proposals \ {p}
  /\ UNCHANGED <<request, discovered, events, outcomes,
                 actionRuns, now>>

reject_proposal(p) ==
  /\ Decidable(p)
  /\ proposals' = proposals \ {p}
  /\ UNCHANGED <<request, nBriefs, briefs, decisionVars, authorityVars,
                 outcomes, actionRuns, outbox, now>>

\* Mutant of select_plan: the older intents are not superseded.
select_plan_alone(plan) ==
  /\ nDecisions > 0
  /\ plan \in Supported
  /\ AppendDecision([decisions[nDecisions] EXCEPT !.kind = "SELECTED", !.plan = plan])
  /\ UNCHANGED <<briefVars, discovered, authorityVars, outcomes, actionRuns, outbox, now>>

\* The buyer's explicit choice is a decision of its own without an evaluation
\* of its own: it copies the source's ledger.
select_plan(plan) ==
  /\ nDecisions > 0
  /\ plan \in Supported
  /\ AppendDecision([decisions[nDecisions] EXCEPT !.kind = "SELECTED", !.plan = plan])
  /\ supersede_intents_for_decision_change(nDecisions + 1)
  /\ UNCHANGED <<briefVars, discovered, events, outcomes, actionRuns, now>>

\* The run binds the plan row of the evaluation that the selection froze, which
\* must belong to the decision or to the one it supersedes.
start_action_run ==
  /\ nDecisions > 1
  /\ decisions[nDecisions].kind = "SELECTED"
  /\ HasEvaluation(nDecisions - 1)
  /\ <<nDecisions, decisions[nDecisions].plan>> \notin actionRuns
  /\ actionRuns' = actionRuns \cup {<<nDecisions, decisions[nDecisions].plan>>}
  /\ UNCHANGED <<briefVars, decisionVars, authorityVars, outcomes, outbox, now>>

-----------------------------------------------------------------------------
(* Intent, approval and handoff.                                           *)

lock_purchase_intent ==
  LET v == nDecisions
      s == PlanSource(v)
  IN  /\ v > 0
      /\ intents[v].status = "NONE"
      /\ Purchasable(v, s)
      /\ intents' = [intents EXCEPT ![v] = [status |-> "NOT_REQUESTED", source |-> s]]
      /\ outbox' = outbox \cup {<<"purchase_intent.locked", v, 0>>}
      /\ UNCHANGED <<briefVars, decisionVars, approvals, events, handoffs, outcomes,
                     actionRuns, now>>

\* Mutant of create_approval_request: a request may follow one that ended.
create_approval_request_again(v) ==
  /\ Current(v)
  /\ QuoteExpires > QuoteNow
  /\ intents[v].status # "NONE"
  /\ approvals' = [approvals EXCEPT ![v] = [status |-> "PENDING", roles |-> <<>>,
                                            expires |-> now + ApprovalTerm]]
  /\ intents' = [intents EXCEPT ![v].status = "PENDING"]
  /\ UNCHANGED <<briefVars, decisionVars, events, handoffs, outcomes, actionRuns, outbox, now>>

create_approval_request(v) ==
  /\ Current(v)
  /\ QuoteExpires > QuoteNow
  /\ intents[v].status = "NOT_REQUESTED"
  /\ approvals' = [approvals EXCEPT ![v] = [status |-> "PENDING", roles |-> <<>>,
                                            expires |-> now + ApprovalTerm]]
  /\ intents' = [intents EXCEPT ![v].status = "PENDING"]
  /\ UNCHANGED <<briefVars, decisionVars, events, handoffs, outcomes, actionRuns, outbox, now>>

\* approve and reject_approval on an expired request: whatever its status was,
\* EXPIRED is committed before the caller gets the error.
expire_on_decision(v) ==
  /\ Current(v)
  /\ approvals[v].status # "NONE"
  /\ ApprovalExpired(v)
  /\ SetAuthority(v, "EXPIRED")
  /\ UNCHANGED <<briefVars, decisionVars, events, handoffs, outcomes, actionRuns, outbox, now>>

\* The first transaction of create_payment_handoff.  It does not ask whether the
\* decision is current.
expire_before_handoff(v) ==
  /\ approvals[v].status = "APPROVED" /\ intents[v].status = "APPROVED"
  /\ ApprovalExpired(v)
  /\ SetAuthority(v, "EXPIRED")
  /\ UNCHANGED <<briefVars, decisionVars, events, handoffs, outcomes, actionRuns, outbox, now>>

\* Mutant of approve: no look for an earlier approval by the same actor.
approve_again(v, a, r) ==
  /\ Current(v)
  /\ Open(v)
  /\ ~ApprovalExpired(v)
  /\ MayDecideStage(v, a, r)
  /\ events' = events \cup {[version |-> v, actor |-> a, role |-> r]}
  /\ LET roles == Append(approvals[v].roles, r)
         s     == IF roles = RoleSeq THEN "APPROVED" ELSE approvals[v].status
     IN  /\ approvals' = [approvals EXCEPT ![v].roles = roles, ![v].status = s]
         /\ intents' = IF roles = RoleSeq
                       THEN [intents EXCEPT ![v].status = "APPROVED"] ELSE intents
  /\ UNCHANGED <<briefVars, decisionVars, handoffs, outcomes, actionRuns, outbox, now>>

approve(v, a, r) ==
  /\ Current(v)
  /\ Open(v)
  /\ ~ApprovalExpired(v)
  /\ MayDecideStage(v, a, r)
  /\ ~\E e \in events : e.version = v /\ e.actor = a
  /\ events' = events \cup {[version |-> v, actor |-> a, role |-> r]}
  /\ LET roles == Append(approvals[v].roles, r)
         s     == IF roles = RoleSeq THEN "APPROVED" ELSE approvals[v].status
     IN  /\ approvals' = [approvals EXCEPT ![v].roles = roles, ![v].status = s]
         /\ intents' = IF roles = RoleSeq
                       THEN [intents EXCEPT ![v].status = "APPROVED"] ELSE intents
  /\ UNCHANGED <<briefVars, decisionVars, handoffs, outcomes, actionRuns,
                 outbox, now>>

reject_approval(v, a, r) ==
  /\ Current(v)
  /\ Open(v)
  /\ ~ApprovalExpired(v)
  /\ MayDecideStage(v, a, r)
  /\ SetAuthority(v, "REJECTED")
  /\ outbox' = outbox \cup {<<"approval.rejected", v, 0>>}
  /\ UNCHANGED <<briefVars, decisionVars, events, handoffs, outcomes, actionRuns, now>>

\* Mutant of revoke_approval: the prepared handoff is left behind.
revoke_approval_only(v, a, r) ==
  /\ Current(v)
  /\ Open(v)
  /\ Holds(a, r) /\ Required(r)
  /\ SetAuthority(v, "REVOKED")
  /\ outbox' = outbox \cup {<<"approval.revoked", v, 0>>}
  /\ UNCHANGED <<briefVars, decisionVars, events, handoffs, outcomes, actionRuns, now>>

\* Any holder of a required role may revoke, at any stage and after the expiry.
revoke_approval(v, a, r) ==
  /\ Current(v)
  /\ Open(v)
  /\ Holds(a, r) /\ Required(r)
  /\ SetAuthority(v, "REVOKED")
  /\ handoffs' = IF handoffs[v].status = "READY"
                 THEN [handoffs EXCEPT ![v].status = "CANCELLED"] ELSE handoffs
  /\ outbox' = outbox \cup {<<"approval.revoked", v, 0>>}
  /\ UNCHANGED <<briefVars, decisionVars, events, outcomes, actionRuns, now>>

\* The second transaction of create_payment_handoff; an existing handoff is
\* returned as it is.
create_payment_handoff(v) ==
  /\ Current(v)
  /\ intents[v].status = "APPROVED" /\ approvals[v].status = "APPROVED"
  /\ ~ApprovalExpired(v)
  /\ handoffs[v].status = "NONE"
  /\ handoffs' = [handoffs EXCEPT ![v] = [status |-> "READY", expires |-> HandoffExpiry(v),
                                          opened |-> 0]]
  /\ outbox' = outbox \cup {<<"payment_handoff.ready", v, 0>>}
  /\ UNCHANGED <<briefVars, decisionVars, intents, approvals, events, outcomes,
                 actionRuns, now>>

\* Opening asks for the approval and for the handoff's own term, not for the
\* decision to be current.
open_payment_handoff(v) ==
  /\ intents[v].status = "APPROVED" /\ approvals[v].status = "APPROVED"
  /\ handoffs[v].status = "READY"
  /\ now < handoffs[v].expires
  /\ handoffs' = [handoffs EXCEPT ![v].status = "OPENED", ![v].opened = now]
  /\ outbox' = outbox \cup {<<"payment_handoff.opened", v, 0>>}
  /\ UNCHANGED <<briefVars, decisionVars, intents, approvals, events, outcomes,
                 actionRuns, now>>

OutcomeState(v, at, reached) ==
  IF at < handoffs[v].opened + OutcomeTerm THEN "MEASURING"
  ELSE IF reached THEN "ACHIEVED" ELSE "NOT_ACHIEVED"

\* One row and one event per checkpoint hash.
AddCheckpoint(row) ==
  /\ row \notin outcomes
  /\ outcomes' = outcomes \cup {row}
  /\ outbox' = outbox \cup {<<"outcome_checkpoint.recorded", row.version, row.observed>>}

record_outcome_checkpoint(v, at, reached) ==
  /\ Cardinality(outcomes) < MaxOutcomes
  /\ handoffs[v].status = "OPENED"
  /\ at <= now + ClockSkew
  /\ at >= handoffs[v].opened
  /\ AddCheckpoint([version |-> v, observed |-> at, state |-> OutcomeState(v, at, reached)])
  /\ UNCHANGED <<briefVars, decisionVars, authorityVars, actionRuns, now>>

Tick ==
  /\ now < MaxTime
  /\ now' = now + 1
  /\ UNCHANGED <<briefVars, decisionVars, authorityVars, outcomes, actionRuns, outbox>>

-----------------------------------------------------------------------------
(* A tenant starts empty, or as reset_demo leaves it: every row of the     *)
(* tenant deleted, then one request with its brief and its first decision. *)

EmptyTenant ==
  /\ request = [status |-> "NONE", evaluable |-> FALSE]
  /\ nBriefs = 0
  /\ briefs = [b \in 1 .. MaxBriefs |-> NoBrief]
  /\ nDecisions = 0
  /\ decisions = [v \in Versions |-> NoDecision]

\* The rows reset_demo inserts after it has deleted the tenant's.
DemoRows ==
  /\ request = [status |-> "DECISION_READY", evaluable |-> TRUE]
  /\ nBriefs = 1
  /\ briefs = [b \in 1 .. MaxBriefs |->
                 IF b = 1 THEN FirstBrief ELSE NoBrief]
  /\ nDecisions = 1
  /\ decisions = [v \in Versions |->
                    IF v = 1 THEN Evaluated(1, TaxonomyWeight) ELSE NoDecision]

reset_demo == Priceable(TaxonomyWeight) /\ DemoRows

Init ==
  /\ EmptyTenant \/ reset_demo
  /\ proposals = {}
  /\ discovered = FALSE
  /\ intents = [v \in Versions |-> NoIntent]
  /\ approvals = [v \in Versions |-> NoApproval]
  /\ events = {}
  /\ handoffs = [v \in Versions |-> NoHandoff]
  /\ outcomes = {}
  /\ actionRuns = {}
  /\ outbox = {}
  /\ now = 0

RequestNext ==
  \/ \E scenario \in BOOLEAN : create_purchase_request(scenario)
  \/ \E w \in Weights : run_calibration(w) \/ candidate_action(w) \/ feedback(w)
  \/ \E p \in ProposalRow : accept_proposal(p) \/ reject_proposal(p)

DecisionNext ==
  \/ discover
  \/ \E plan \in Plans : select_plan(plan)
  \/ start_action_run

AuthorityNext ==
  \/ lock_purchase_intent
  \/ \E v \in Versions :
       \/ create_approval_request(v)
       \/ expire_on_decision(v)
       \/ expire_before_handoff(v)
       \/ create_payment_handoff(v)
       \/ open_payment_handoff(v)
       \/ \E a \in Actors, r \in Roles :
            approve(v, a, r) \/ reject_approval(v, a, r) \/ revoke_approval(v, a, r)
       \/ \E at \in 0 .. MaxTime, reached \in BOOLEAN :
            record_outcome_checkpoint(v, at, reached)

Next == RequestNext \/ DecisionNext \/ AuthorityNext \/ Tick

Spec == Init /\ [][Next]_vars

-----------------------------------------------------------------------------
(* Properties.                                                             *)

\* The approval status is stored twice, in the intent and in the request for
\* approval, and a dozen handlers write both or one of them.  The copies agree,
\* and an intent without a request was never pending or approved.
StatusCopiesAgree == \A v \in Versions :
  IF approvals[v].status = "NONE"
  THEN intents[v].status \in {"NONE", "NOT_REQUESTED", "SUPERSEDED"}
  ELSE intents[v].status = approvals[v].status

\* Separation of duties: behind an approved purchase stand approvals for every
\* required role, each by a holder of the role, and no actor gave two of them.
FourEyes == \A v \in Versions : approvals[v].status = "APPROVED" =>
  LET given == {e \in events : e.version = v}
  IN  /\ \A i \in 1 .. Len(RoleSeq) : \E e \in given : e.role = RoleSeq[i]
      /\ \A e \in given : Holds(e.actor, e.role)
      /\ \A e, f \in given : e.actor = f.actor => e = f

\* A handoff that can still be opened belongs to an approved intent; the one
\* exception is an approval that ran out, which leaves its handoff READY.
ReadyIsAuthorised == \A v \in Versions :
  handoffs[v].status = "READY" => intents[v].status \in {"APPROVED", "EXPIRED"}

\* open_payment_handoff never looks at the approval's or the quote's expiry; no
\* handoff is opened past either all the same.
OpenedInTerm == \A v \in Versions : handoffs[v].status = "OPENED" =>
  /\ handoffs[v].opened < approvals[v].expires
  /\ ~QuoteClockFixed => handoffs[v].opened < QuoteExpires

\* A handoff stands for authority that is in force when it is used: it is READY
\* only under an approval, and was opened only within every term (hazards of
\* revocation, expiry and supersession between preparation and opening).
HandoffsAuthorised == ReadyIsAuthorised /\ OpenedInTerm

\* However proposals on one brief race, exactly the newest brief is in force and
\* the newest decision was made under it.
NewestBriefInForce ==
  /\ \A b \in 1 .. MaxBriefs : briefs[b].status = "APPROVED" <=> b = nBriefs
  /\ nDecisions > 0 => decisions[nDecisions].brief = nBriefs

\* A purchase that was taken back by a person or by a newer decision, and a
\* cancelled handoff, left an event that says so.
WithdrawalAnnounced == \A v \in Versions :
  \/ intents[v].status \in {"REJECTED", "REVOKED", "SUPERSEDED"}
  \/ handoffs[v].status = "CANCELLED"
  => \E t \in {"approval.rejected", "approval.revoked", "approval.superseded"},
        n \in 0 .. MaxDecisions : <<t, v, n>> \in outbox

\* What an older decision authorised is taken back when a newer one is made.
\* The discovery run is the one exception: authority outlives its decision only
\* when every newer decision came from the discovery workflow.
OnlyDiscoveryKeepsAuthority == \A v \in Versions :
  Bound(intents[v].status) =>
    \/ v = nDecisions
    \/ /\ v = nDecisions - 1
       /\ discovered
       /\ decisions[nDecisions].kind = "EVALUATED"
       /\ decisions[nDecisions].weight = TaxonomyWeight

\* A change of decision or a withdrawal leaves neither silent nor stale authority
\* behind: what it ends is announced, and what it does not end is the newest.
WithdrawalIsComplete == WithdrawalAnnounced /\ OnlyDiscoveryKeepsAuthority

\* "Invalidate executable state bound to older Decision versions atomically":
\* an intent that can still be approved or paid belongs to the newest decision.
AuthorityIsCurrent == \A v \in Versions : Bound(intents[v].status) => v = nDecisions

\* The transitions domain/state_machines.py allows an approval.
AllowedApproval ==
  {<<"NONE", "PENDING">>}
  \cup {"PENDING"} \X {"APPROVED", "REJECTED", "REVOKED", "EXPIRED", "SUPERSEDED"}
  \cup {"APPROVED"} \X {"REVOKED", "SUPERSEDED"}

\* A rejected, revoked or expired approval is terminal.
ApprovalTransitionsAllowed == [][\A v \in Versions :
  approvals'[v].status # approvals[v].status =>
    <<approvals[v].status, approvals'[v].status>> \in AllowedApproval]_vars

-----------------------------------------------------------------------------
(* The purchase implements the authority a human can rely on: granted once,*)
(* spent at most once and only while granted, never back once withdrawn.   *)

Grant(v) == IF handoffs[v].status = "OPENED" THEN "spent"
            ELSE IF intents[v].status = "APPROVED" THEN "granted"
            ELSE IF intents[v].status \in {"NONE", "NOT_REQUESTED", "PENDING"} THEN "none"
            ELSE "withdrawn"

Authority == INSTANCE PaymentAuthority
               WITH Items <- Versions, grant <- [v \in Versions |-> Grant(v)]

\* The abstract specification, as a property of the detailed one.
ImplementsAuthority == Authority!Spec
=============================================================================
