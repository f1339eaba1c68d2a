----------------------- MODULE PurchaseWorkflowProofs -----------------------
(***************************************************************************)
(* Theorems of PurchaseWorkflow, for every policy, every set of plans and  *)
(* actors, every term and any number of briefs, proposals and decisions.   *)
(***************************************************************************)
EXTENDS PurchaseWorkflow, TLAPS

USE DEF briefVars, decisionVars, authorityVars

(***************************************************************************)
(* What the handlers write, row by row.                                    *)
(***************************************************************************)
\* A new status leaves the rest of an intent, an approval or a handoff alone.
LEMMA StatusUpdate ==
  ASSUME NEW s
  PROVE  /\ \A r \in IntentRow : [r EXCEPT !.status = s] = [status |-> s, source |-> r.source]
         /\ \A r \in ApprovalRow : [r EXCEPT !.status = s]
              = [status |-> s, roles |-> r.roles, expires |-> r.expires]
         /\ \A r \in HandoffRow : [r EXCEPT !.status = s]
              = [status |-> s, expires |-> r.expires, opened |-> r.opened]
  BY DEF IntentRow, ApprovalRow, HandoffRow

\* So do two fields of an approval, a decision or a handoff.
LEMMA StageUpdate ==
  ASSUME NEW x, NEW s, NEW r \in ApprovalRow
  PROVE  [r EXCEPT !.roles = x, !.status = s]
           = [status |-> s, roles |-> x, expires |-> r.expires]
<1>1. [r EXCEPT !.roles = x] = [status |-> r.status, roles |-> x, expires |-> r.expires]
  BY DEF ApprovalRow
<1>2. [[status |-> r.status, roles |-> x, expires |-> r.expires] EXCEPT !.status = s]
        = [status |-> s, roles |-> x, expires |-> r.expires]
  OBVIOUS
<1> QED
  BY <1>1, <1>2, Zenon

\* A selection copies its source, but for the kind and the plan.
LEMMA SelectionUpdate ==
  ASSUME NEW k, NEW p, NEW r \in DecisionRow
  PROVE  [r EXCEPT !.kind = k, !.plan = p]
           = [kind |-> k, brief |-> r.brief, weight |-> r.weight, plan |-> p]
<1>1. [r EXCEPT !.kind = k]
        = [kind |-> k, brief |-> r.brief, weight |-> r.weight, plan |-> r.plan]
  BY DEF DecisionRow
<1>2. [[kind |-> k, brief |-> r.brief, weight |-> r.weight, plan |-> r.plan] EXCEPT !.plan = p]
        = [kind |-> k, brief |-> r.brief, weight |-> r.weight, plan |-> p]
  OBVIOUS
<1> QED
  BY <1>1, <1>2, Zenon

\* An opened handoff keeps its term.
LEMMA OpenUpdate ==
  ASSUME NEW s, NEW at, NEW r \in HandoffRow
  PROVE  [r EXCEPT !.status = s, !.opened = at]
           = [status |-> s, expires |-> r.expires, opened |-> at]
<1>1. [r EXCEPT !.status = s] = [status |-> s, expires |-> r.expires, opened |-> r.opened]
  BY DEF HandoffRow
<1>2. [[status |-> s, expires |-> r.expires, opened |-> r.opened] EXCEPT !.opened = at]
        = [status |-> s, expires |-> r.expires, opened |-> at]
  OBVIOUS
<1> QED
  BY <1>1, <1>2, Zenon

\* The rows of the tables are rows.
LEMMA Rows ==
  ASSUME TypeOK, NEW v \in Versions
  PROVE  /\ decisions[v] \in DecisionRow
         /\ intents[v] \in IntentRow
         /\ approvals[v] \in ApprovalRow
         /\ handoffs[v] \in HandoffRow
  BY DEF TypeOK

\* Setting the status of an approval writes both copies, and nothing else.
LEMMA SetAuthorityEffect ==
  ASSUME TypeOK, NEW v \in Versions, NEW s \in ApprovalStatus, SetAuthority(v, s)
  PROVE  /\ intents' \in [Versions -> IntentRow]
         /\ approvals' \in [Versions -> ApprovalRow]
         /\ \A u \in Versions :
              /\ intents'[u].status = IF u = v THEN s ELSE intents[u].status
              /\ approvals'[u].status = IF u = v THEN s ELSE approvals[u].status
              /\ approvals'[u].roles = approvals[u].roles
              /\ approvals'[u].expires = approvals[u].expires
<1>1. approvals[v] \in ApprovalRow /\ intents[v] \in IntentRow
  BY Rows
<1>2. /\ approvals' = [approvals EXCEPT ![v] = [status |-> s, roles |-> approvals[v].roles,
                                                expires |-> approvals[v].expires]]
      /\ intents' = [intents EXCEPT ![v] = [status |-> s, source |-> intents[v].source]]
  BY <1>1, StatusUpdate, Zenon DEF SetAuthority
<1> QED
  BY <1>1, <1>2 DEF TypeOK, IntentRow, ApprovalRow

\* What supersede_intents_for_decision_change takes back for the new decision n,
\* and what it announces.
LEMMA SupersedeEffect ==
  ASSUME TypeOK, NEW n \in Versions, supersede_intents_for_decision_change(n)
  PROVE  /\ intents' \in [Versions -> IntentRow]
         /\ approvals' \in [Versions -> ApprovalRow]
         /\ handoffs' \in [Versions -> HandoffRow]
         /\ outbox' \subseteq OutboxRow /\ outbox \subseteq outbox'
         /\ \A u \in Versions :
              LET lost    == u # n /\ Bound(intents[u].status)
                  dropped == /\ u # n /\ intents[u].status # "NONE"
                             /\ handoffs[u].status = "READY"
              IN  /\ intents'[u].status = IF lost THEN "SUPERSEDED" ELSE intents[u].status
                  /\ approvals'[u].status = IF lost /\ Open(u)
                                            THEN "SUPERSEDED" ELSE approvals[u].status
                  /\ approvals'[u].roles = approvals[u].roles
                  /\ approvals'[u].expires = approvals[u].expires
                  /\ handoffs'[u].status = IF dropped THEN "CANCELLED" ELSE handoffs[u].status
                  /\ handoffs'[u].expires = handoffs[u].expires
                  /\ handoffs'[u].opened = handoffs[u].opened
                  /\ lost \/ dropped => <<"approval.superseded", u, n>> \in outbox'
<1> DEFINE lost(u)    == u # n /\ Bound(intents[u].status)
           dropped(u) == u # n /\ intents[u].status # "NONE" /\ handoffs[u].status = "READY"
<1>1. \A u \in Versions : /\ intents[u] \in IntentRow
                          /\ approvals[u] \in ApprovalRow
                          /\ handoffs[u] \in HandoffRow
  BY Rows
<1>2. intents' = [u \in Versions |->
        IF lost(u) THEN [status |-> "SUPERSEDED", source |-> intents[u].source] ELSE intents[u]]
  BY <1>1, StatusUpdate, ZenonT(30) DEF supersede_intents_for_decision_change, Bound
<1>3. approvals' = [u \in Versions |->
        IF lost(u) /\ Open(u)
        THEN [status |-> "SUPERSEDED", roles |-> approvals[u].roles,
              expires |-> approvals[u].expires] ELSE approvals[u]]
  <2>1. approvals' = [u \in Versions |->
          IF lost(u) /\ Open(u)
          THEN [approvals[u] EXCEPT !.status = "SUPERSEDED"] ELSE approvals[u]]
    BY DEF supersede_intents_for_decision_change, Open, Bound
  <2> QED
    BY <1>1, <2>1, StatusUpdate, Zenon
<1>4. handoffs' = [u \in Versions |->
        IF dropped(u) THEN [status |-> "CANCELLED", expires |-> handoffs[u].expires,
                            opened |-> handoffs[u].opened] ELSE handoffs[u]]
  BY <1>1, StatusUpdate DEF supersede_intents_for_decision_change
<1>5. \A u \in Versions : lost(u) \/ dropped(u) => <<"approval.superseded", u, n>> \in outbox'
  BY DEF supersede_intents_for_decision_change, Bound
<1>6. outbox' \subseteq OutboxRow /\ outbox \subseteq outbox'
  BY DEF supersede_intents_for_decision_change, TypeOK, OutboxRow, Versions
<1>7. intents' \in [Versions -> IntentRow]
  BY <1>1, <1>2 DEF IntentRow, ApprovalStatus
<1>8. approvals' \in [Versions -> ApprovalRow]
  BY <1>1, <1>3 DEF ApprovalRow, ApprovalStatus
<1>9. handoffs' \in [Versions -> HandoffRow]
  BY <1>1, <1>4 DEF HandoffRow
<1> QED
  BY <1>1, <1>2, <1>3, <1>4, <1>5, <1>6, <1>7, <1>8, <1>9

\* A lock makes one intent, of the newest decision, that nobody asked to approve.
LEMMA LockEffect ==
  ASSUME TypeOK, lock_purchase_intent
  PROVE  /\ nDecisions \in Versions
         /\ intents[nDecisions].status = "NONE"
         /\ intents' \in [Versions -> IntentRow]
         /\ outbox' \subseteq OutboxRow /\ outbox \subseteq outbox'
         /\ \A u \in Versions : intents'[u].status =
              IF u = nDecisions THEN "NOT_REQUESTED" ELSE intents[u].status
<1>1. nDecisions \in Versions /\ nDecisions > 0
  BY TermAssumption DEF lock_purchase_intent, TypeOK, Versions
<1>2. PlanSource(nDecisions) \in 0 .. MaxDecisions
  BY <1>1, TermAssumption DEF PlanSource, Versions
<1>3. intents' = [intents EXCEPT ![nDecisions] =
                    [status |-> "NOT_REQUESTED", source |-> PlanSource(nDecisions)]]
  BY DEF lock_purchase_intent
<1>4. outbox' \subseteq OutboxRow /\ outbox \subseteq outbox'
  BY <1>1 DEF lock_purchase_intent, TypeOK, OutboxRow
<1>5. intents' \in [Versions -> IntentRow]
  BY <1>1, <1>2, <1>3 DEF TypeOK, IntentRow
<1>6. \A u \in Versions : intents'[u].status =
        IF u = nDecisions THEN "NOT_REQUESTED" ELSE intents[u].status
  BY <1>1, <1>3 DEF TypeOK
<1> QED
  BY <1>1, <1>4, <1>5, <1>6 DEF lock_purchase_intent

\* A request for approval starts at the first stage, for one term.
LEMMA RequestEffect ==
  ASSUME TypeOK, NEW v \in Versions, create_approval_request(v)
  PROVE  /\ intents' \in [Versions -> IntentRow]
         /\ approvals' \in [Versions -> ApprovalRow]
         /\ approvals'[v] = [status |-> "PENDING", roles |-> <<>>,
                             expires |-> now + ApprovalTerm]
         /\ \A u \in Versions :
              /\ intents'[u].status = IF u = v THEN "PENDING" ELSE intents[u].status
              /\ u # v => approvals'[u] = approvals[u]
<1>1. approvals[v] \in ApprovalRow /\ intents[v] \in IntentRow
  BY Rows
<1>2. /\ approvals' = [approvals EXCEPT ![v] = [status |-> "PENDING", roles |-> <<>>,
                                                expires |-> now + ApprovalTerm]]
      /\ intents' = [intents EXCEPT ![v] = [status |-> "PENDING", source |-> intents[v].source]]
  BY <1>1, StatusUpdate, Zenon DEF create_approval_request
<1>3. now + ApprovalTerm \in Nat
  BY TermAssumption DEF TypeOK
<1> QED
  BY <1>1, <1>2, <1>3 DEF TypeOK, IntentRow, ApprovalRow, ApprovalStatus

\* An approval adds its stage, and completes the request when it was the last.
LEMMA ApproveEffect ==
  ASSUME TypeOK, NEW v \in Versions, NEW a \in Actors, NEW r \in Roles, approve(v, a, r)
  PROVE  LET roles == Append(approvals[v].roles, r)
         IN  /\ intents' \in [Versions -> IntentRow]
             /\ approvals' \in [Versions -> ApprovalRow]
             /\ approvals'[v].roles = roles
             /\ approvals'[v].expires = approvals[v].expires
             /\ approvals'[v].status = IF roles = RoleSeq THEN "APPROVED"
                                       ELSE approvals[v].status
             /\ intents'[v].status = IF roles = RoleSeq THEN "APPROVED" ELSE intents[v].status
             /\ \A u \in Versions : u # v => /\ intents'[u] = intents[u]
                                             /\ approvals'[u] = approvals[u]
<1> DEFINE roles == Append(approvals[v].roles, r)
           s     == IF roles = RoleSeq THEN "APPROVED" ELSE approvals[v].status
           t     == IF roles = RoleSeq THEN "APPROVED" ELSE intents[v].status
<1>1. approvals[v] \in ApprovalRow /\ intents[v] \in IntentRow
  BY Rows
<1>2. /\ roles \in Seq(Roles)
      /\ s \in ApprovalStatus \cup {"NONE"}
      /\ t \in ApprovalStatus \cup {"NONE", "NOT_REQUESTED"}
  BY <1>1 DEF ApprovalRow, IntentRow, ApprovalStatus
<1>3. approvals' = [approvals EXCEPT ![v] = [status |-> s, roles |-> roles,
                                             expires |-> approvals[v].expires]]
  <2>1. [approvals[v] EXCEPT !.roles = roles, !.status = s]
          = [status |-> s, roles |-> roles, expires |-> approvals[v].expires]
    BY <1>1, StageUpdate, Zenon
  <2>2. approvals' = [approvals EXCEPT ![v] = [approvals[v] EXCEPT !.roles = roles, !.status = s]]
    BY <1>1, Zenon DEF approve, TypeOK
  <2> QED
    BY <2>1, <2>2, Zenon
<1>4. intents' = [intents EXCEPT ![v] = [status |-> t, source |-> intents[v].source]]
  <2>1. CASE roles = RoleSeq
    BY <1>1, <2>1, StatusUpdate, Zenon DEF approve
  <2>2. CASE roles # RoleSeq
    <3>1. intents' = intents /\ t = intents[v].status
      BY <2>2 DEF approve
    <3> HIDE DEF t
    <3> QED
      BY <1>1, <3>1 DEF TypeOK, IntentRow
  <2> QED
    BY <2>1, <2>2
<1> HIDE DEF roles, s, t
<1>5. /\ intents' \in [Versions -> IntentRow]
      /\ approvals' \in [Versions -> ApprovalRow]
      /\ approvals'[v].roles = roles
      /\ approvals'[v].expires = approvals[v].expires
      /\ approvals'[v].status = s
      /\ intents'[v].status = t
      /\ \A u \in Versions : u # v => intents'[u] = intents[u] /\ approvals'[u] = approvals[u]
  BY <1>1, <1>2, <1>3, <1>4 DEF TypeOK, IntentRow, ApprovalRow
<1> QED
  BY <1>5 DEF roles, s, t

\* Opening writes the state and the time of one handoff.
LEMMA OpenEffect ==
  ASSUME TypeOK, NEW v \in Versions, open_payment_handoff(v)
  PROVE  /\ handoffs' \in [Versions -> HandoffRow]
         /\ outbox' \subseteq OutboxRow /\ outbox \subseteq outbox'
         /\ handoffs'[v].status = "OPENED"
         /\ handoffs'[v].expires = handoffs[v].expires
         /\ handoffs'[v].opened = now
         /\ \A u \in Versions : u # v => handoffs'[u] = handoffs[u]
<1>1. handoffs[v] \in HandoffRow
  BY Rows
<1>2. handoffs' = [handoffs EXCEPT ![v] = [status |-> "OPENED", expires |-> handoffs[v].expires,
                                           opened |-> now]]
  <2>1. handoffs' = [handoffs EXCEPT ![v] =
                       [handoffs[v] EXCEPT !.status = "OPENED", !.opened = now]]
    BY <1>1, Zenon DEF open_payment_handoff, TypeOK
  <2> QED
    BY <1>1, <2>1, OpenUpdate, Zenon
<1>3. outbox' \subseteq OutboxRow /\ outbox \subseteq outbox'
  BY DEF open_payment_handoff, TypeOK, OutboxRow
<1> QED
  BY <1>1, <1>2, <1>3 DEF TypeOK, HandoffRow

\* A revocation takes a prepared handoff back, and writes no other.
LEMMA RevokeEffect ==
  ASSUME TypeOK, NEW v \in Versions, NEW a \in Actors, NEW r \in Roles, revoke_approval(v, a, r)
  PROVE  /\ handoffs' \in [Versions -> HandoffRow]
         /\ \A u \in Versions :
              /\ handoffs'[u].status = IF u = v /\ handoffs[u].status = "READY"
                                       THEN "CANCELLED" ELSE handoffs[u].status
              /\ handoffs'[u].expires = handoffs[u].expires
              /\ handoffs'[u].opened = handoffs[u].opened
<1>1. handoffs[v] \in HandoffRow
  BY Rows
<1>2. CASE handoffs[v].status = "READY"
  <2>1. handoffs' = [handoffs EXCEPT ![v] = [status |-> "CANCELLED",
                       expires |-> handoffs[v].expires, opened |-> handoffs[v].opened]]
    BY <1>1, <1>2, StatusUpdate, Zenon DEF revoke_approval
  <2> QED
    BY <1>1, <1>2, <2>1 DEF TypeOK, HandoffRow
<1>3. CASE handoffs[v].status # "READY"
  BY <1>3 DEF revoke_approval, TypeOK
<1> QED
  BY <1>2, <1>3

\* A handoff that is prepared in time ends at a natural time, not after the
\* approval, and not after the quote when the quote's clock runs.
LEMMA HandoffExpiryBound ==
  ASSUME TypeOK, NEW v \in Versions, ~ApprovalExpired(v)
  PROVE  /\ HandoffExpiry(v) \in Nat
         /\ HandoffExpiry(v) <= approvals[v].expires
         /\ ~QuoteClockFixed => HandoffExpiry(v) <= QuoteExpires
<1>1. approvals[v].expires \in Nat /\ now \in Nat
  BY DEF TypeOK, ApprovalRow
<1> QED
  BY <1>1, TermAssumption DEF ApprovalExpired, HandoffExpiry, QuoteNow

\* A prepared handoff is READY, within the terms of its approval.
LEMMA PrepareEffect ==
  ASSUME TypeOK, NEW v \in Versions, create_payment_handoff(v)
  PROVE  /\ handoffs' \in [Versions -> HandoffRow]
         /\ outbox' \subseteq OutboxRow /\ outbox \subseteq outbox'
         /\ handoffs'[v].status = "READY" /\ handoffs'[v].expires = HandoffExpiry(v)
         /\ \A u \in Versions : u # v => handoffs'[u] = handoffs[u]
<1>1. HandoffExpiry(v) \in Nat
  BY HandoffExpiryBound DEF create_payment_handoff
<1>2. outbox' \subseteq OutboxRow /\ outbox \subseteq outbox'
  BY DEF create_payment_handoff, TypeOK, OutboxRow
<1> QED
  BY <1>1, <1>2 DEF create_payment_handoff, TypeOK, HandoffRow

\* A decision appended to the chain is the newest, and a row like the others.
LEMMA AppendEffect ==
  ASSUME TypeOK, NEW row \in DecisionRow, AppendDecision(row)
  PROVE  /\ nDecisions + 1 \in Versions
         /\ nDecisions' = nDecisions + 1
         /\ nDecisions' \in 0 .. MaxDecisions
         /\ decisions' \in [Versions -> DecisionRow]
         /\ decisions'[nDecisions + 1] = row
         /\ \A u \in Versions : u # nDecisions + 1 => decisions'[u] = decisions[u]
  BY TermAssumption DEF AppendDecision, TypeOK, Versions

\* An evaluation is a decision row.
LEMMA EvaluatedType ==
  ASSUME NEW b \in 0 .. MaxBriefs, NEW w \in Weights
  PROVE  Evaluated(b, w) \in DecisionRow
  BY PlanAssumption DEF Evaluated, DecisionRow

\* An accepted proposal: the new brief, the new decision under it.
LEMMA AcceptEffect ==
  ASSUME TypeOK, NEW p \in ProposalRow, accept_proposal(p)
  PROVE  /\ nBriefs' = nBriefs + 1 /\ nBriefs' \in 1 .. MaxBriefs
         /\ briefs' \in [1 .. MaxBriefs -> BriefRow]
         /\ p.base \in 1 .. MaxBriefs /\ briefs[p.base].status = "APPROVED"
         /\ \A b \in 1 .. MaxBriefs : briefs'[b].status =
              IF b = nBriefs + 1 THEN "APPROVED"
              ELSE IF b = p.base THEN "SUPERSEDED" ELSE briefs[b].status
         /\ Evaluated(nBriefs + 1, p.weight) \in DecisionRow
         /\ AppendDecision(Evaluated(nBriefs + 1, p.weight))
         /\ nDecisions + 1 \in Versions
         /\ supersede_intents_for_decision_change(nDecisions + 1)
<1>1. nBriefs + 1 \in 0 .. MaxBriefs /\ nBriefs + 1 \in 1 .. MaxBriefs
  BY TermAssumption DEF accept_proposal, TypeOK
<1>2. p.weight \in Weights /\ p.base \in 1 .. MaxBriefs
  BY TermAssumption DEF ProposalRow, accept_proposal, Decidable, _find_proposal
<1>3. Evaluated(nBriefs + 1, p.weight) \in DecisionRow
  BY <1>1, <1>2, EvaluatedType
<1>4. /\ AppendDecision(Evaluated(nBriefs + 1, p.weight))
      /\ supersede_intents_for_decision_change(nDecisions + 1)
  BY DEF accept_proposal
<1>5. nDecisions + 1 \in Versions
  BY <1>3, <1>4, AppendEffect
<1> DEFINE q   == [status |-> "SUPERSEDED", weight |-> briefs[p.base].weight]
           new == [status |-> "APPROVED", weight |-> p.weight]
<1>6. briefs' = [[briefs EXCEPT ![p.base] = q] EXCEPT ![nBriefs + 1] = new]
  <2>1. briefs[p.base] \in BriefRow
    BY <1>2 DEF TypeOK
  <2>2. [briefs[p.base] EXCEPT !.status = "SUPERSEDED"] = q
    BY <2>1 DEF BriefRow
  <2> QED
    BY <2>2, Zenon DEF accept_proposal, _apply_proposal_changes
<1>7. q \in BriefRow /\ new \in BriefRow /\ q.status = "SUPERSEDED" /\ new.status = "APPROVED"
  BY <1>2 DEF TypeOK, BriefRow
<1> HIDE DEF q, new
<1>8. /\ briefs' \in [1 .. MaxBriefs -> BriefRow]
      /\ \A b \in 1 .. MaxBriefs : briefs'[b] =
           IF b = nBriefs + 1 THEN new ELSE IF b = p.base THEN q ELSE briefs[b]
  BY <1>1, <1>2, <1>6, <1>7 DEF TypeOK
<1> QED
  BY <1>1, <1>2, <1>3, <1>4, <1>5, <1>7, <1>8 DEF accept_proposal, Decidable

\* A selection: a copy of the newest decision with the plan that was chosen.
LEMMA SelectEffect ==
  ASSUME TypeOK, NEW plan \in Plans, select_plan(plan)
  PROVE  /\ nDecisions \in Versions /\ nDecisions + 1 \in Versions
         /\ nDecisions' = nDecisions + 1 /\ nDecisions' \in 0 .. MaxDecisions
         /\ decisions' \in [Versions -> DecisionRow]
         /\ decisions'[nDecisions + 1].kind = "SELECTED"
         /\ decisions'[nDecisions + 1].plan = plan
         /\ decisions'[nDecisions + 1].brief = decisions[nDecisions].brief
         /\ \A u \in Versions : u # nDecisions + 1 => decisions'[u] = decisions[u]
         /\ supersede_intents_for_decision_change(nDecisions + 1)
<1> DEFINE d   == decisions[nDecisions]
           row == [kind |-> "SELECTED", brief |-> d.brief, weight |-> d.weight, plan |-> plan]
<1>1. nDecisions \in Versions /\ d \in DecisionRow
  BY TermAssumption DEF select_plan, TypeOK, Versions
<1>2. row \in DecisionRow
  BY <1>1 DEF DecisionRow
<1>3. AppendDecision(row) /\ supersede_intents_for_decision_change(nDecisions + 1)
  BY <1>1, SelectionUpdate, ZenonT(30) DEF select_plan
<1>4. /\ row.kind = "SELECTED" /\ row.plan = plan /\ row.brief = d.brief
  OBVIOUS
<1> HIDE DEF row
<1> QED
  BY <1>1, <1>2, <1>3, <1>4, AppendEffect

\* The discovery: an evaluation under the newest brief and the taxonomy's weight.
LEMMA DiscoverEffect ==
  ASSUME TypeOK, discover
  PROVE  /\ nDecisions + 1 \in Versions
         /\ nDecisions' = nDecisions + 1 /\ nDecisions' \in 0 .. MaxDecisions
         /\ decisions' \in [Versions -> DecisionRow]
         /\ decisions'[nDecisions + 1] = Evaluated(nBriefs, TaxonomyWeight)
         /\ \A u \in Versions : u # nDecisions + 1 => decisions'[u] = decisions[u]
         /\ request' \in RequestRow /\ request'.status = "DECISION_READY"
<1>1. Evaluated(nBriefs, TaxonomyWeight) \in DecisionRow
  BY EvaluatedType, PlanAssumption DEF TypeOK
<1>2. request' = [status |-> "DECISION_READY", evaluable |-> request.evaluable]
  BY DEF discover, CompleteDiscovery, TypeOK, RequestRow
<1>3. request' \in RequestRow /\ request'.status = "DECISION_READY"
  BY <1>2 DEF TypeOK, RequestRow
<1> QED
  BY <1>1, <1>3, AppendEffect DEF discover

(***************************************************************************)
(* Type correctness.                                                       *)
(***************************************************************************)
\* A selection is of a plan, so start_action_run binds one.
SelectionHasPlan == \A v \in Versions :
  decisions[v].kind = "SELECTED" => decisions[v].plan \in Plans

Tables == TypeOK /\ SelectionHasPlan

\* Every handler keeps the tables well typed.
LEMMA TypeStep == Tables /\ [Next]_vars => Tables'
<1> SUFFICES ASSUME Tables, [Next]_vars PROVE Tables'
  OBVIOUS
<1>a. TypeOK /\ SelectionHasPlan
  BY DEF Tables
<1>1. ASSUME NEW scenario \in BOOLEAN, create_purchase_request(scenario) PROVE Tables'
  BY <1>1, <1>a, TermAssumption, PlanAssumption
     DEF create_purchase_request, Tables, SelectionHasPlan, TypeOK, RequestRow, BriefRow, FirstBrief
<1>2. ASSUME NEW w \in Weights, run_calibration(w) \/ candidate_action(w) \/ feedback(w)
      PROVE  Tables'
  BY <1>2, <1>a, TermAssumption
     DEF run_calibration, candidate_action, feedback, Propose, Tables, SelectionHasPlan, TypeOK,
         ProposalRow
<1>3. ASSUME NEW p \in ProposalRow, accept_proposal(p) PROVE Tables'
  <2>1. /\ nBriefs' \in 1 .. MaxBriefs
        /\ briefs' \in [1 .. MaxBriefs -> BriefRow]
        /\ Evaluated(nBriefs + 1, p.weight) \in DecisionRow
        /\ AppendDecision(Evaluated(nBriefs + 1, p.weight))
        /\ nDecisions + 1 \in Versions
        /\ supersede_intents_for_decision_change(nDecisions + 1)
    BY <1>3, <1>a, AcceptEffect
  <2>2. /\ nDecisions' \in 0 .. MaxDecisions
        /\ decisions' \in [Versions -> DecisionRow]
        /\ decisions'[nDecisions + 1].kind = "EVALUATED"
        /\ \A u \in Versions : u # nDecisions + 1 => decisions'[u] = decisions[u]
    BY <1>a, <2>1, AppendEffect DEF Evaluated
  <2>3. /\ intents' \in [Versions -> IntentRow]
        /\ approvals' \in [Versions -> ApprovalRow]
        /\ handoffs' \in [Versions -> HandoffRow]
        /\ outbox' \subseteq OutboxRow
    BY <1>a, <2>1, SupersedeEffect
  <2>4. TypeOK'
    BY <1>3, <1>a, <2>1, <2>2, <2>3 DEF accept_proposal, TypeOK
  <2>5. SelectionHasPlan'
    BY <1>a, <2>1, <2>2 DEF SelectionHasPlan
  <2> QED
    BY <2>4, <2>5 DEF Tables
<1>4. ASSUME NEW p \in ProposalRow, reject_proposal(p) PROVE Tables'
  BY <1>4, <1>a DEF reject_proposal, Tables, SelectionHasPlan, TypeOK
<1>5. CASE discover
  <2>1. TypeOK'
    BY <1>5, <1>a, DiscoverEffect DEF discover, CompleteDiscovery, TypeOK
  <2>2. SelectionHasPlan'
    BY <1>5, <1>a, DiscoverEffect DEF SelectionHasPlan, Evaluated
  <2> QED
    BY <2>1, <2>2 DEF Tables
<1>6. ASSUME NEW plan \in Plans, select_plan(plan) PROVE Tables'
  <2>1. /\ nDecisions + 1 \in Versions
        /\ supersede_intents_for_decision_change(nDecisions + 1)
    BY <1>6, <1>a, SelectEffect
  <2>2. /\ intents' \in [Versions -> IntentRow]
        /\ approvals' \in [Versions -> ApprovalRow]
        /\ handoffs' \in [Versions -> HandoffRow]
        /\ outbox' \subseteq OutboxRow
    BY <1>a, <2>1, SupersedeEffect
  <2>3. TypeOK'
    BY <1>6, <1>a, <2>2, SelectEffect DEF select_plan, TypeOK
  <2>4. SelectionHasPlan'
    BY <1>6, <1>a, SelectEffect DEF SelectionHasPlan
  <2> QED
    BY <2>3, <2>4 DEF Tables
<1>7. CASE start_action_run
  <2>1. nDecisions \in Versions
    BY <1>7, <1>a, TermAssumption DEF start_action_run, TypeOK, Versions
  <2>2. decisions[nDecisions].plan \in Plans
    BY <1>7, <1>a, <2>1 DEF start_action_run, SelectionHasPlan
  <2> QED
    BY <1>7, <1>a, <2>1, <2>2
       DEF start_action_run, Tables, SelectionHasPlan, TypeOK, ActionRunRow
<1>8. CASE lock_purchase_intent
  BY <1>8, <1>a, LockEffect DEF lock_purchase_intent, Tables, SelectionHasPlan, TypeOK
<1>9. ASSUME NEW v \in Versions, create_approval_request(v) PROVE Tables'
  BY <1>9, <1>a, RequestEffect DEF create_approval_request, Tables, SelectionHasPlan, TypeOK
<1>10. ASSUME NEW v \in Versions, expire_on_decision(v) \/ expire_before_handoff(v)
       PROVE  Tables'
  <2>1. SetAuthority(v, "EXPIRED") /\ "EXPIRED" \in ApprovalStatus
    BY <1>10 DEF expire_on_decision, expire_before_handoff, ApprovalStatus
  <2>2. intents' \in [Versions -> IntentRow] /\ approvals' \in [Versions -> ApprovalRow]
    BY <1>a, <2>1, SetAuthorityEffect
  <2> QED
    BY <1>10, <1>a, <2>2
       DEF expire_on_decision, expire_before_handoff, Tables, SelectionHasPlan, TypeOK
<1>11. ASSUME NEW v \in Versions, create_payment_handoff(v) PROVE Tables'
  BY <1>11, <1>a, PrepareEffect DEF create_payment_handoff, Tables, SelectionHasPlan, TypeOK
<1>12. ASSUME NEW v \in Versions, open_payment_handoff(v) PROVE Tables'
  BY <1>12, <1>a, OpenEffect DEF open_payment_handoff, Tables, SelectionHasPlan, TypeOK
<1>13. ASSUME NEW v \in Versions, NEW a \in Actors, NEW r \in Roles, approve(v, a, r)
       PROVE  Tables'
  <2>1. intents' \in [Versions -> IntentRow] /\ approvals' \in [Versions -> ApprovalRow]
    BY <1>13, <1>a, ApproveEffect
  <2>2. events' \subseteq EventRow
    BY <1>13, <1>a DEF approve, TypeOK, EventRow
  <2> QED
    BY <1>13, <1>a, <2>1, <2>2 DEF approve, Tables, SelectionHasPlan, TypeOK
<1>14. ASSUME NEW v \in Versions, NEW a \in Actors, NEW r \in Roles, reject_approval(v, a, r)
       PROVE  Tables'
  <2>1. SetAuthority(v, "REJECTED") /\ "REJECTED" \in ApprovalStatus
    BY <1>14 DEF reject_approval, ApprovalStatus
  <2>2. intents' \in [Versions -> IntentRow] /\ approvals' \in [Versions -> ApprovalRow]
    BY <1>a, <2>1, SetAuthorityEffect
  <2>3. outbox' \subseteq OutboxRow
    BY <1>14, <1>a DEF reject_approval, TypeOK, OutboxRow
  <2> QED
    BY <1>14, <1>a, <2>2, <2>3 DEF reject_approval, Tables, SelectionHasPlan, TypeOK
<1>15. ASSUME NEW v \in Versions, NEW a \in Actors, NEW r \in Roles, revoke_approval(v, a, r)
       PROVE  Tables'
  <2>1. SetAuthority(v, "REVOKED") /\ "REVOKED" \in ApprovalStatus
    BY <1>15 DEF revoke_approval, ApprovalStatus
  <2>2. intents' \in [Versions -> IntentRow] /\ approvals' \in [Versions -> ApprovalRow]
    BY <1>a, <2>1, SetAuthorityEffect
  <2>3. outbox' \subseteq OutboxRow
    BY <1>15, <1>a DEF revoke_approval, TypeOK, OutboxRow
  <2>4. handoffs' \in [Versions -> HandoffRow]
    BY <1>15, <1>a, RevokeEffect
  <2> QED
    BY <1>15, <1>a, <2>2, <2>3, <2>4 DEF revoke_approval, Tables, SelectionHasPlan, TypeOK
<1>16. ASSUME NEW v \in Versions, NEW at \in 0 .. MaxTime, NEW reached \in BOOLEAN,
              record_outcome_checkpoint(v, at, reached)
       PROVE  Tables'
  BY <1>16, <1>a, TermAssumption DEF record_outcome_checkpoint, AddCheckpoint, OutcomeState,
     Tables, SelectionHasPlan, TypeOK, OutcomeRow, OutboxRow
<1>17. CASE Tick
  BY <1>17, <1>a DEF Tick, Tables, SelectionHasPlan, TypeOK
<1>18. CASE UNCHANGED vars
  BY <1>18, <1>a DEF vars, Tables, SelectionHasPlan, TypeOK
<1> QED
  BY <1>1, <1>2, <1>3, <1>4, <1>5, <1>6, <1>7, <1>8, <1>9, <1>10, <1>11, <1>12, <1>13, <1>14,
     <1>15, <1>16, <1>17, <1>18 DEF Next, RequestNext, DecisionNext, AuthorityNext

(***************************************************************************)
(* The inductive invariant.                                                *)
(***************************************************************************)
\* The stages of a request follow the policy's order, each on an event by a
\* holder of its role; nobody gave two; a completed request has every stage.
StagesBacked == \A v \in Versions :
  /\ Len(approvals[v].roles) <= Len(RoleSeq)
  /\ \A i \in 1 .. Len(approvals[v].roles) :
       \E e \in events : e.version = v /\ e.role = RoleSeq[i]
  /\ \A e \in events : e.version = v => Holds(e.actor, e.role)
  /\ \A e, f \in events : e.version = v /\ f.version = v /\ e.actor = f.actor => e = f
  /\ approvals[v].status = "NONE" => \A e \in events : e.version # v
  /\ approvals[v].status = "APPROVED" => Len(approvals[v].roles) = Len(RoleSeq)

\* A handoff has an approval, and a handoff that can be opened ends within the
\* approval's term and within the quote's.
HandoffTerms == \A v \in Versions :
  /\ handoffs[v].status # "NONE" => approvals[v].status # "NONE"
  /\ handoffs[v].status = "READY" =>
       /\ handoffs[v].expires <= approvals[v].expires
       /\ ~QuoteClockFixed => handoffs[v].expires <= QuoteExpires

\* Briefs and decisions belong to a request.
RequestFirst == request.status = "NONE" => nBriefs = 0 /\ nDecisions = 0

\* An intent belongs to a decision that was made.
IntentOfDecision == \A v \in Versions : intents[v].status # "NONE" => v <= nDecisions

AuthorityInv == StatusCopiesAgree /\ StagesBacked /\ HandoffTerms /\ HandoffsAuthorised
BriefInv     == RequestFirst /\ NewestBriefInForce
ChangeInv    == IntentOfDecision /\ WithdrawalIsComplete

Inv == Tables /\ AuthorityInv /\ BriefInv /\ ChangeInv

\* The steps that concern intents, approvals, events and handoffs: the others
\* leave all four alone, and a change of decision is a supersession.
LEMMA AuthoritySteps ==
  ASSUME Tables, [Next]_vars
  PROVE  \/ UNCHANGED authorityVars
         \/ \E n \in Versions : supersede_intents_for_decision_change(n) /\ UNCHANGED events
         \/ lock_purchase_intent
         \/ \E v \in Versions :
              \/ create_approval_request(v)
              \/ expire_on_decision(v) \/ expire_before_handoff(v)
              \/ create_payment_handoff(v)
              \/ open_payment_handoff(v)
              \/ \E a \in Actors, r \in Roles :
                   approve(v, a, r) \/ reject_approval(v, a, r) \/ revoke_approval(v, a, r)
<1>a. TypeOK
  BY DEF Tables
<1>1. ASSUME NEW p \in ProposalRow, accept_proposal(p)
      PROVE  \E n \in Versions : supersede_intents_for_decision_change(n) /\ UNCHANGED events
  <2>1. nDecisions + 1 \in Versions /\ supersede_intents_for_decision_change(nDecisions + 1)
    BY <1>1, <1>a, AcceptEffect
  <2>2. UNCHANGED events
    BY <1>1 DEF accept_proposal
  <2> QED
    BY <2>1, <2>2
<1>2. ASSUME NEW plan \in Plans, select_plan(plan)
      PROVE  \E n \in Versions : supersede_intents_for_decision_change(n) /\ UNCHANGED events
  <2>1. nDecisions + 1 \in Versions /\ supersede_intents_for_decision_change(nDecisions + 1)
    BY <1>2, <1>a, SelectEffect
  <2>2. UNCHANGED events
    BY <1>2 DEF select_plan
  <2> QED
    BY <2>1, <2>2
<1>3. ASSUME NEW scenario \in BOOLEAN, create_purchase_request(scenario)
      PROVE  UNCHANGED authorityVars
  BY <1>3 DEF create_purchase_request
<1>4. ASSUME NEW w \in Weights, run_calibration(w) \/ candidate_action(w) \/ feedback(w)
      PROVE  UNCHANGED authorityVars
  BY <1>4 DEF run_calibration, candidate_action, feedback, Propose
<1>5. ASSUME NEW p \in ProposalRow, reject_proposal(p) PROVE UNCHANGED authorityVars
  BY <1>5 DEF reject_proposal
<1>6. ASSUME discover \/ start_action_run \/ Tick \/ UNCHANGED vars
      PROVE  UNCHANGED authorityVars
  BY <1>6 DEF discover, start_action_run, Tick, vars
<1>7. ASSUME NEW v \in Versions, NEW at \in 0 .. MaxTime, NEW reached \in BOOLEAN,
             record_outcome_checkpoint(v, at, reached)
      PROVE  UNCHANGED authorityVars
  BY <1>7 DEF record_outcome_checkpoint
<1> QED
  BY <1>1, <1>2, <1>3, <1>4, <1>5, <1>6, <1>7, Zenon
     DEF Next, RequestNext, DecisionNext, AuthorityNext

\* Both copies of the status move together.
LEMMA CopiesStep ==
  ASSUME Tables, StatusCopiesAgree, [Next]_vars
  PROVE  StatusCopiesAgree'
<1>a. TypeOK
  BY DEF Tables
<1>1. CASE UNCHANGED authorityVars
  BY <1>1 DEF StatusCopiesAgree
<1>2. ASSUME NEW n \in Versions, supersede_intents_for_decision_change(n) PROVE StatusCopiesAgree'
  <2>1. \A u \in Versions : approvals[u].status \in ApprovalStatus \cup {"NONE"}
    BY <1>a DEF TypeOK, ApprovalRow
  <2>2. \A u \in Versions : LET lost == u # n /\ Bound(intents[u].status) IN
          /\ intents'[u].status = IF lost THEN "SUPERSEDED" ELSE intents[u].status
          /\ approvals'[u].status = IF lost /\ Open(u) THEN "SUPERSEDED" ELSE approvals[u].status
    BY <1>2, <1>a, SupersedeEffect
  <2> QED
    BY <2>1, <2>2 DEF StatusCopiesAgree, Bound, Open, ApprovalStatus
<1>3. CASE lock_purchase_intent
  BY <1>3, <1>a, LockEffect DEF StatusCopiesAgree, lock_purchase_intent
<1>4. ASSUME NEW v \in Versions, create_approval_request(v) PROVE StatusCopiesAgree'
  BY <1>4, <1>a, RequestEffect DEF StatusCopiesAgree
<1>5. ASSUME NEW v \in Versions, NEW s \in ApprovalStatus, SetAuthority(v, s)
      PROVE  StatusCopiesAgree'
  BY <1>5, <1>a, SetAuthorityEffect DEF StatusCopiesAgree, ApprovalStatus
<1>6. ASSUME NEW v \in Versions, expire_on_decision(v) \/ expire_before_handoff(v)
      PROVE  StatusCopiesAgree'
  BY <1>5, <1>6 DEF expire_on_decision, expire_before_handoff, ApprovalStatus
<1>7. ASSUME NEW v \in Versions, create_payment_handoff(v) \/ open_payment_handoff(v)
      PROVE  StatusCopiesAgree'
  BY <1>7 DEF create_payment_handoff, open_payment_handoff, StatusCopiesAgree
<1>8. ASSUME NEW v \in Versions, NEW a \in Actors, NEW r \in Roles, approve(v, a, r)
      PROVE  StatusCopiesAgree'
  <2>1. approvals[v].status # "NONE"
    BY <1>8 DEF approve, Open
  <2> QED
    BY <1>8, <1>a, <2>1, ApproveEffect DEF StatusCopiesAgree
<1>9. ASSUME NEW v \in Versions, NEW a \in Actors, NEW r \in Roles,
             reject_approval(v, a, r) \/ revoke_approval(v, a, r)
      PROVE  StatusCopiesAgree'
  BY <1>5, <1>9 DEF reject_approval, revoke_approval, ApprovalStatus
<1> QED
  BY <1>1, <1>2, <1>3, <1>4, <1>6, <1>7, <1>8, <1>9, AuthoritySteps

\* A stage that is still open belongs to a pending request.
LEMMA OpenStage ==
  ASSUME Tables, StagesBacked, NEW v \in Versions, NEW a \in Actors, NEW r \in Roles,
         Open(v), MayDecideStage(v, a, r)
  PROVE  approvals[v].status = "PENDING"
<1>1. Len(approvals[v].roles) \in Nat /\ Len(RoleSeq) \in Nat
  BY RoleAssumption DEF Tables, TypeOK, ApprovalRow
<1> QED
  BY <1>1 DEF StagesBacked, Open, MayDecideStage

\* The stages stay backed by events.
LEMMA StagesStep ==
  ASSUME Tables, StatusCopiesAgree, StagesBacked, [Next]_vars
  PROVE  StagesBacked'
<1>a. TypeOK
  BY DEF Tables
<1>b. \A u \in Versions : Len(approvals[u].roles) \in Nat
  BY <1>a DEF TypeOK, ApprovalRow
<1>1. CASE UNCHANGED authorityVars
  BY <1>1 DEF StagesBacked
<1>2. ASSUME NEW n \in Versions, supersede_intents_for_decision_change(n), UNCHANGED events
      PROVE  StagesBacked'
  <2>1. \A u \in Versions :
          /\ approvals'[u].roles = approvals[u].roles
          /\ approvals'[u].status = approvals[u].status
             \/ approvals'[u].status = "SUPERSEDED"
    BY <1>2, <1>a, SupersedeEffect
  <2> QED
    BY <1>2, <2>1 DEF StagesBacked
<1>3. CASE lock_purchase_intent
  BY <1>3 DEF lock_purchase_intent, StagesBacked
<1>4. ASSUME NEW v \in Versions, create_approval_request(v) PROVE StagesBacked'
  <2>1. \A e \in events : e.version # v
    <3>1. approvals[v].status \in ApprovalStatus \cup {"NONE"}
      BY <1>a DEF TypeOK, ApprovalRow
    <3> QED
      BY <1>4, <3>1
         DEF create_approval_request, StatusCopiesAgree, StagesBacked, ApprovalStatus
  <2>2. approvals'[v].roles = <<>> /\ approvals'[v].status = "PENDING"
    BY <1>4, <1>a, RequestEffect
  <2>3. \A u \in Versions : u # v => approvals'[u] = approvals[u]
    BY <1>4, <1>a, RequestEffect
  <2>4. events' = events
    BY <1>4 DEF create_approval_request
  <2>5. Len(RoleSeq) \in Nat
    BY RoleAssumption
  <2>6. ASSUME NEW u \in Versions, u # v PROVE StagesBacked!(u)'
    BY <2>3, <2>4, <2>6 DEF StagesBacked
  <2>7. StagesBacked!(v)'
    BY <2>1, <2>2, <2>4, <2>5
  <2> QED
    BY <2>6, <2>7 DEF StagesBacked
<1>5. ASSUME NEW v \in Versions, NEW s \in ApprovalStatus \ {"APPROVED"}, SetAuthority(v, s),
             UNCHANGED events
      PROVE  StagesBacked'
  <2>1. \A u \in Versions :
          /\ approvals'[u].roles = approvals[u].roles
          /\ approvals'[u].status = approvals[u].status
             \/ approvals'[u].status = s
    BY <1>5, <1>a, SetAuthorityEffect
  <2> QED
    BY <1>5, <2>1 DEF StagesBacked, ApprovalStatus
<1>6. ASSUME NEW v \in Versions, expire_on_decision(v) \/ expire_before_handoff(v)
      PROVE  StagesBacked'
  BY <1>5, <1>6 DEF expire_on_decision, expire_before_handoff, ApprovalStatus
<1>7. ASSUME NEW v \in Versions, create_payment_handoff(v) \/ open_payment_handoff(v)
      PROVE  StagesBacked'
  BY <1>7 DEF create_payment_handoff, open_payment_handoff, StagesBacked
<1>8. ASSUME NEW v \in Versions, NEW a \in Actors, NEW r \in Roles, approve(v, a, r)
      PROVE  StagesBacked'
  <2> DEFINE new == [version |-> v, actor |-> a, role |-> r]
             k   == Len(approvals[v].roles)
  <2>1. /\ approvals[v].status = "PENDING"
        /\ Holds(a, r) /\ k < Len(RoleSeq) /\ RoleSeq[k + 1] = r
    BY <1>8, OpenStage DEF approve, MayDecideStage
  <2>2. events' = events \cup {new} /\ \A e \in events : e.version = v => e.actor # a
    BY <1>8 DEF approve
  <2>3. new.version = v /\ new.actor = a /\ new.role = r
    OBVIOUS
  <2> HIDE DEF new
  <2>4. approvals[v].roles \in Seq(Roles) /\ Len(RoleSeq) \in Nat
    BY <1>a, RoleAssumption DEF TypeOK, ApprovalRow
  <2>5. /\ Len(approvals'[v].roles) = k + 1
        /\ approvals'[v].status \in {"PENDING", "APPROVED"}
        /\ approvals'[v].status = "APPROVED" => k + 1 = Len(RoleSeq)
    <3>1. Len(Append(approvals[v].roles, r)) = k + 1
      BY <2>4
    <3> QED
      BY <1>8, <1>a, <2>1, <3>1, ApproveEffect
  <2>6. \A u \in Versions : u # v => approvals'[u] = approvals[u]
    BY <1>8, <1>a, ApproveEffect
  <2>7. ASSUME NEW u \in Versions, u # v PROVE StagesBacked!(u)'
    BY <2>2, <2>3, <2>6, <2>7 DEF StagesBacked
  <2>8. StagesBacked!(v)'
    <3>1. k + 1 <= Len(RoleSeq)
      BY <1>b, <2>1, <2>4
    <3>2. \A i \in 1 .. k + 1 : \E e \in events' : e.version = v /\ e.role = RoleSeq[i]
      BY <1>b, <2>1, <2>2, <2>3 DEF StagesBacked
    <3>3. \A e \in events' : e.version = v => Holds(e.actor, e.role)
      BY <2>1, <2>2, <2>3 DEF StagesBacked
    <3>4. \A e, f \in events' : e.version = v /\ f.version = v /\ e.actor = f.actor => e = f
      BY <2>2, <2>3 DEF StagesBacked
    <3> QED
      BY <2>5, <3>1, <3>2, <3>3, <3>4
  <2> QED
    BY <2>7, <2>8 DEF StagesBacked
<1>9. ASSUME NEW v \in Versions, NEW a \in Actors, NEW r \in Roles,
             reject_approval(v, a, r) \/ revoke_approval(v, a, r)
      PROVE  StagesBacked'
  BY <1>5, <1>9 DEF reject_approval, revoke_approval, ApprovalStatus
<1> QED
  BY <1>1, <1>2, <1>3, <1>4, <1>6, <1>7, <1>8, <1>9, AuthoritySteps

\* Preparing, using and taking back a handoff keeps it within its authority.
LEMMA HandoffStep ==
  ASSUME Tables, AuthorityInv, [Next]_vars
  PROVE  HandoffTerms' /\ HandoffsAuthorised'
<1> DEFINE OK(u) == /\ HandoffTerms!(u)
                    /\ ReadyIsAuthorised!(u)
                    /\ OpenedInTerm!(u)
<1> SUFFICES ASSUME NEW u \in Versions PROVE OK(u)'
  BY DEF HandoffTerms, HandoffsAuthorised, ReadyIsAuthorised, OpenedInTerm
<1>a. TypeOK
  BY DEF Tables
<1>b. OK(u) /\ StatusCopiesAgree!(u)
  BY DEF AuthorityInv, HandoffTerms, HandoffsAuthorised, ReadyIsAuthorised, OpenedInTerm,
     StatusCopiesAgree
<1>c. /\ approvals[u].status \in ApprovalStatus \cup {"NONE"}
      /\ approvals[u].expires \in Nat /\ now \in Nat
      /\ handoffs[u].expires \in Nat /\ handoffs[u].opened \in Nat
  BY <1>a DEF TypeOK, ApprovalRow, HandoffRow
<1>1. CASE UNCHANGED authorityVars
  BY <1>1, <1>b
<1>2. ASSUME NEW n \in Versions, supersede_intents_for_decision_change(n) PROVE OK(u)'
  <2>1. LET lost    == u # n /\ Bound(intents[u].status)
            dropped == u # n /\ intents[u].status # "NONE" /\ handoffs[u].status = "READY"
        IN  /\ intents'[u].status = IF lost THEN "SUPERSEDED" ELSE intents[u].status
            /\ approvals'[u].status = IF lost /\ Open(u)
                                      THEN "SUPERSEDED" ELSE approvals[u].status
            /\ approvals'[u].expires = approvals[u].expires
            /\ handoffs'[u].status = IF dropped THEN "CANCELLED" ELSE handoffs[u].status
            /\ handoffs'[u].expires = handoffs[u].expires
            /\ handoffs'[u].opened = handoffs[u].opened
    BY <1>2, <1>a, SupersedeEffect
  <2> QED
    BY <1>b, <2>1
<1>3. CASE lock_purchase_intent
  <2>1. intents'[u].status = intents[u].status \/ intents[u].status = "NONE"
    BY <1>3, <1>a, LockEffect
  <2>2. UNCHANGED <<approvals, handoffs>>
    BY <1>3 DEF lock_purchase_intent
  <2> QED
    BY <1>b, <2>1, <2>2
<1>4. ASSUME NEW v \in Versions, create_approval_request(v) PROVE OK(u)'
  <2>1. UNCHANGED handoffs /\ intents[v].status = "NOT_REQUESTED"
    BY <1>4 DEF create_approval_request
  <2>2. CASE u = v
    <3>1. approvals[v].status = "NONE"
      BY <1>b, <1>c, <2>1, <2>2 DEF ApprovalStatus
    <3> QED
      BY <1>b, <2>1, <2>2, <3>1
  <2>3. CASE u # v
    <3>1. approvals'[u] = approvals[u] /\ intents'[u].status = intents[u].status
      BY <1>4, <1>a, <2>3, RequestEffect
    <3> QED
      BY <1>b, <2>1, <3>1
  <2> QED
    BY <2>2, <2>3
<1>5. ASSUME NEW v \in Versions, NEW s \in ApprovalStatus, SetAuthority(v, s), UNCHANGED handoffs,
             s = "EXPIRED" \/ handoffs[v].status # "READY"
      PROVE  OK(u)'
  <2>1. /\ intents'[u].status = IF u = v THEN s ELSE intents[u].status
        /\ approvals'[u].status = IF u = v THEN s ELSE approvals[u].status
        /\ approvals'[u].expires = approvals[u].expires
    BY <1>5, <1>a, SetAuthorityEffect
  <2> QED
    BY <1>5, <1>b, <2>1 DEF ApprovalStatus
<1>6. ASSUME NEW v \in Versions, expire_on_decision(v) \/ expire_before_handoff(v)
      PROVE  OK(u)'
  <2>1. /\ SetAuthority(v, "EXPIRED") /\ UNCHANGED handoffs
        /\ "EXPIRED" \in ApprovalStatus
    BY <1>6 DEF expire_on_decision, expire_before_handoff, ApprovalStatus
  <2> QED
    BY <1>5, <2>1
<1>7. ASSUME NEW v \in Versions, create_payment_handoff(v) PROVE OK(u)'
  <2>1. /\ UNCHANGED <<intents, approvals>>
        /\ intents[v].status = "APPROVED" /\ approvals[v].status = "APPROVED"
        /\ ~ApprovalExpired(v)
    BY <1>7 DEF create_payment_handoff
  <2>2. CASE u = v
    <3>1. handoffs'[v].status = "READY" /\ handoffs'[v].expires = HandoffExpiry(v)
      BY <1>7, <1>a, PrepareEffect
    <3>2. /\ HandoffExpiry(v) <= approvals[v].expires
          /\ ~QuoteClockFixed => HandoffExpiry(v) <= QuoteExpires
      BY <1>a, <2>1, HandoffExpiryBound
    <3> QED
      BY <2>1, <2>2, <3>1, <3>2
  <2>3. CASE u # v
    <3>1. handoffs'[u] = handoffs[u]
      BY <1>7, <1>a, <2>3, PrepareEffect
    <3> QED
      BY <1>b, <2>1, <3>1
  <2> QED
    BY <2>2, <2>3
<1>8. ASSUME NEW v \in Versions, open_payment_handoff(v) PROVE OK(u)'
  <2>1. /\ UNCHANGED <<intents, approvals>>
        /\ approvals[v].status = "APPROVED" /\ handoffs[v].status = "READY"
        /\ now < handoffs[v].expires
    BY <1>8 DEF open_payment_handoff
  <2>2. CASE u = v
    <3>1. handoffs'[v].status = "OPENED" /\ handoffs'[v].opened = now
      BY <1>8, <1>a, OpenEffect
    <3> QED
      BY <1>b, <1>c, <2>1, <2>2, <3>1, TermAssumption
  <2>3. CASE u # v
    <3>1. handoffs'[u] = handoffs[u]
      BY <1>8, <1>a, <2>3, OpenEffect
    <3> QED
      BY <1>b, <2>1, <3>1
  <2> QED
    BY <2>2, <2>3
<1>9. ASSUME NEW v \in Versions, NEW a \in Actors, NEW r \in Roles, approve(v, a, r)
      PROVE  OK(u)'
  <2>1. UNCHANGED handoffs /\ approvals[v].status = "PENDING"
    BY <1>9, OpenStage DEF approve, AuthorityInv
  <2>2. CASE u = v
    <3>1. /\ intents'[u].status = "APPROVED" \/ intents'[u].status = intents[u].status
          /\ approvals'[u].status = "APPROVED" \/ approvals'[u].status = approvals[u].status
          /\ approvals'[u].expires = approvals[u].expires
      BY <1>9, <1>a, <2>2, ApproveEffect
    <3> QED
      BY <1>b, <2>1, <3>1
  <2>3. CASE u # v
    <3>1. approvals'[u] = approvals[u] /\ intents'[u] = intents[u]
      BY <1>9, <1>a, <2>3, ApproveEffect
    <3> QED
      BY <1>b, <2>1, <3>1
  <2> QED
    BY <2>2, <2>3
<1>10. ASSUME NEW v \in Versions, NEW a \in Actors, NEW r \in Roles, reject_approval(v, a, r)
       PROVE  OK(u)'
  <2>1. /\ SetAuthority(v, "REJECTED") /\ UNCHANGED handoffs
        /\ "REJECTED" \in ApprovalStatus
    BY <1>10 DEF reject_approval, ApprovalStatus
  <2>2. approvals[v].status = "PENDING"
    BY <1>10, OpenStage DEF reject_approval, AuthorityInv
  <2>3. handoffs[v].status # "READY"
    BY <2>2 DEF AuthorityInv, StatusCopiesAgree, HandoffsAuthorised, ReadyIsAuthorised
  <2> QED
    BY <1>5, <2>1, <2>3
<1>11. ASSUME NEW v \in Versions, NEW a \in Actors, NEW r \in Roles, revoke_approval(v, a, r)
       PROVE  OK(u)'
  <2>1. SetAuthority(v, "REVOKED") /\ "REVOKED" \in ApprovalStatus
    BY <1>11 DEF revoke_approval, ApprovalStatus
  <2>2. /\ intents'[u].status = IF u = v THEN "REVOKED" ELSE intents[u].status
        /\ approvals'[u].status = IF u = v THEN "REVOKED" ELSE approvals[u].status
        /\ approvals'[u].expires = approvals[u].expires
    BY <1>a, <2>1, SetAuthorityEffect
  <2>3. /\ handoffs'[u].status = IF u = v /\ handoffs[u].status = "READY"
                                 THEN "CANCELLED" ELSE handoffs[u].status
        /\ handoffs'[u].expires = handoffs[u].expires
        /\ handoffs'[u].opened = handoffs[u].opened
    BY <1>11, <1>a, RevokeEffect
  <2> QED
    BY <1>b, <2>2, <2>3
<1> QED
  BY <1>1, <1>2, <1>3, <1>4, <1>6, <1>7, <1>8, <1>9, <1>10, <1>11, AuthoritySteps

\* Deciding an approval and handling a payment change neither brief nor decision.
LEMMA AuthorityKeepsDecision ==
  ASSUME AuthorityNext
  PROVE  UNCHANGED <<briefVars, decisionVars>>
<1>1. CASE lock_purchase_intent
  BY <1>1 DEF lock_purchase_intent
<1>2. ASSUME NEW v \in Versions,
             \/ create_approval_request(v)
             \/ expire_on_decision(v) \/ expire_before_handoff(v)
             \/ create_payment_handoff(v) \/ open_payment_handoff(v)
      PROVE  UNCHANGED <<briefVars, decisionVars>>
  BY <1>2 DEF create_approval_request, expire_on_decision, expire_before_handoff,
     create_payment_handoff, open_payment_handoff
<1>3. ASSUME NEW v \in Versions, NEW a \in Actors, NEW r \in Roles,
             approve(v, a, r) \/ reject_approval(v, a, r) \/ revoke_approval(v, a, r)
      PROVE  UNCHANGED <<briefVars, decisionVars>>
  BY <1>3 DEF approve, reject_approval, revoke_approval
<1>4. ASSUME NEW v \in Versions, NEW at \in 0 .. MaxTime, NEW reached \in BOOLEAN,
             record_outcome_checkpoint(v, at, reached)
      PROVE  UNCHANGED <<briefVars, decisionVars>>
  BY <1>4 DEF record_outcome_checkpoint
<1> QED
  BY <1>1, <1>2, <1>3, <1>4, Zenon DEF AuthorityNext

\* Exactly the newest brief is in force, whatever proposals raced for it.
LEMMA BriefStep ==
  ASSUME Tables, BriefInv, [Next]_vars
  PROVE  BriefInv'
<1> USE DEF BriefInv, RequestFirst
<1>a. TypeOK
  BY DEF Tables
<1>b. nBriefs \in Nat /\ nDecisions \in Nat /\ MaxBriefs \in Nat
  BY <1>a, TermAssumption DEF TypeOK
<1>1. ASSUME NEW scenario \in BOOLEAN, create_purchase_request(scenario) PROVE BriefInv'
  <2>1. nBriefs = 0 /\ nDecisions = 0 /\ nDecisions' = 0 /\ request'.status = "DRAFT"
    BY <1>1 DEF create_purchase_request
  <2>2. CASE scenario
    <3>1. nBriefs' = 1 /\ briefs' = [briefs EXCEPT ![1] = FirstBrief]
      BY <1>1, <2>2 DEF create_purchase_request
    <3>2. FirstBrief.status = "APPROVED"
      BY DEF FirstBrief
    <3> QED
      BY <1>a, <2>1, <3>1, <3>2, TermAssumption DEF NewestBriefInForce, TypeOK
  <2>3. CASE ~scenario
    <3>1. nBriefs' = 0 /\ briefs' = briefs
      BY <1>1, <2>3 DEF create_purchase_request
    <3> QED
      BY <2>1, <3>1 DEF NewestBriefInForce
  <2> QED
    BY <2>2, <2>3
<1>2. ASSUME NEW w \in Weights, run_calibration(w) \/ candidate_action(w) \/ feedback(w)
      PROVE  BriefInv'
  BY <1>2 DEF run_calibration, candidate_action, feedback, Propose, NewestBriefInForce
<1>3. ASSUME NEW p \in ProposalRow, accept_proposal(p) PROVE BriefInv'
  <2> DEFINE row == Evaluated(nBriefs + 1, p.weight)
  <2>1. /\ nBriefs' = nBriefs + 1 /\ nBriefs' \in 1 .. MaxBriefs
        /\ p.base \in 1 .. MaxBriefs /\ briefs[p.base].status = "APPROVED"
        /\ \A b \in 1 .. MaxBriefs : briefs'[b].status =
             IF b = nBriefs + 1 THEN "APPROVED"
             ELSE IF b = p.base THEN "SUPERSEDED" ELSE briefs[b].status
        /\ row \in DecisionRow
        /\ AppendDecision(row)
    BY <1>3, <1>a, AcceptEffect
  <2>2. p.base = nBriefs
    BY <2>1 DEF NewestBriefInForce
  <2>3. \A b \in 1 .. MaxBriefs : briefs'[b].status = "APPROVED" <=> b = nBriefs'
    BY <1>b, <2>1, <2>2 DEF NewestBriefInForce
  <2>4. row.brief = nBriefs + 1
    BY DEF Evaluated
  <2> HIDE DEF row
  <2>5. nDecisions' = nDecisions + 1 /\ decisions'[nDecisions + 1] = row
    BY <1>a, <2>1, AppendEffect
  <2>6. request' = request /\ request.status # "NONE"
    BY <1>3, <1>b, <2>1, <2>2 DEF accept_proposal
  <2> QED
    BY <2>1, <2>3, <2>4, <2>5, <2>6 DEF NewestBriefInForce
<1>4. ASSUME NEW p \in ProposalRow, reject_proposal(p) PROVE BriefInv'
  BY <1>4 DEF reject_proposal, NewestBriefInForce
<1>5. CASE discover
  <2>1. UNCHANGED <<nBriefs, briefs>>
    BY <1>5 DEF discover
  <2>2. /\ nDecisions' = nDecisions + 1
        /\ decisions'[nDecisions + 1] = Evaluated(nBriefs, TaxonomyWeight)
        /\ request'.status = "DECISION_READY"
    BY <1>5, <1>a, DiscoverEffect
  <2> QED
    BY <2>1, <2>2 DEF NewestBriefInForce, Evaluated
<1>6. ASSUME NEW plan \in Plans, select_plan(plan) PROVE BriefInv'
  <2>1. UNCHANGED <<nBriefs, briefs, request>> /\ nDecisions > 0
    BY <1>6 DEF select_plan
  <2>2. /\ nDecisions' = nDecisions + 1
        /\ decisions'[nDecisions + 1].brief = decisions[nDecisions].brief
    BY <1>6, <1>a, SelectEffect
  <2> QED
    BY <1>b, <2>1, <2>2 DEF NewestBriefInForce
<1>7. CASE start_action_run
  BY <1>7 DEF start_action_run, NewestBriefInForce
<1>8. CASE AuthorityNext
  BY <1>8, AuthorityKeepsDecision DEF NewestBriefInForce
<1>9. CASE Tick
  BY <1>9 DEF Tick, NewestBriefInForce
<1>10. CASE UNCHANGED vars
  BY <1>10 DEF vars, NewestBriefInForce
<1> QED
  BY <1>1, <1>2, <1>3, <1>4, <1>5, <1>6, <1>7, <1>8, <1>9, <1>10, Zenon
     DEF Next, RequestNext, DecisionNext

\* A change of decision ends and announces what the older decisions authorised;
\* a withdrawal announces itself.
LEMMA ChangeStep ==
  ASSUME Tables, AuthorityInv, ChangeInv, [Next]_vars
  PROVE  ChangeInv'
<1> DEFINE Ended(u)     == \/ intents[u].status \in {"REJECTED", "REVOKED", "SUPERSEDED"}
                           \/ handoffs[u].status = "CANCELLED"
           Announced(u) == \E t \in {"approval.rejected", "approval.revoked",
                                     "approval.superseded"}, n \in 0 .. MaxDecisions :
                             <<t, u, n>> \in outbox
           Newest(u)    == \/ u = nDecisions
                           \/ /\ u = nDecisions - 1
                              /\ discovered
                              /\ decisions[nDecisions].kind = "EVALUATED"
                              /\ decisions[nDecisions].weight = TaxonomyWeight
           OK(u)        == /\ intents[u].status # "NONE" => u <= nDecisions
                           /\ Ended(u) => Announced(u)
                           /\ Bound(intents[u].status) => Newest(u)
<1> SUFFICES ASSUME NEW u \in Versions PROVE OK(u)'
  BY DEF ChangeInv, IntentOfDecision, WithdrawalIsComplete, WithdrawalAnnounced,
     OnlyDiscoveryKeepsAuthority
<1>a. TypeOK
  BY DEF Tables
<1>b. OK(u)
  BY DEF ChangeInv, IntentOfDecision, WithdrawalIsComplete, WithdrawalAnnounced,
     OnlyDiscoveryKeepsAuthority
<1>c. u \in Nat /\ nDecisions \in Nat /\ MaxDecisions \in Nat /\ nDecisions <= MaxDecisions
  BY <1>a, TermAssumption DEF TypeOK, Versions
<1>d. Announced(u) /\ outbox \subseteq outbox' => Announced(u)'
  OBVIOUS
<1>e. ASSUME NEW t \in {"approval.rejected", "approval.revoked", "approval.superseded"},
             NEW n \in 0 .. MaxDecisions, <<t, u, n>> \in outbox'
      PROVE  Announced(u)'
  BY <1>e
<1>f. UNCHANGED <<nDecisions, decisions, discovered>> => (Newest(u) <=> Newest(u)')
  OBVIOUS
<1> HIDE DEF Announced, Newest
<1>1. ASSUME UNCHANGED <<intents, handoffs, decisionVars>>, outbox \subseteq outbox' PROVE OK(u)'
  BY <1>1, <1>b, <1>d, <1>f
<1>2. ASSUME supersede_intents_for_decision_change(nDecisions + 1),
             nDecisions + 1 \in Versions, nDecisions' = nDecisions + 1
      PROVE  OK(u)'
  <2>1. /\ outbox \subseteq outbox'
        /\ LET lost    == u # nDecisions + 1 /\ Bound(intents[u].status)
               dropped == /\ u # nDecisions + 1 /\ intents[u].status # "NONE"
                          /\ handoffs[u].status = "READY"
           IN  /\ intents'[u].status = IF lost THEN "SUPERSEDED" ELSE intents[u].status
               /\ handoffs'[u].status = IF dropped THEN "CANCELLED" ELSE handoffs[u].status
               /\ lost \/ dropped => <<"approval.superseded", u, nDecisions + 1>> \in outbox'
    BY <1>2, <1>a, SupersedeEffect
  <2>2. nDecisions + 1 \in 0 .. MaxDecisions
    BY <1>2, TermAssumption DEF Versions
  <2>3. intents'[u].status # "NONE" => u <= nDecisions'
    BY <1>2, <1>b, <1>c, <2>1 DEF Bound
  <2>4. Ended(u)' => Announced(u)'
    BY <1>b, <1>d, <1>e, <2>1, <2>2
  <2>5. Bound(intents'[u].status) => Newest(u)'
    <3>1. Bound(intents'[u].status) => u = nDecisions + 1
      BY <2>1 DEF Bound
    <3> QED
      BY <1>2, <3>1 DEF Newest
  <2> QED
    BY <2>3, <2>4, <2>5 DEF Bound
<1>3. ASSUME NEW p \in ProposalRow, accept_proposal(p) PROVE OK(u)'
  <2>1. /\ nDecisions + 1 \in Versions
        /\ supersede_intents_for_decision_change(nDecisions + 1)
    BY <1>3, <1>a, AcceptEffect
  <2>2. nDecisions' = nDecisions + 1
    BY <1>3 DEF accept_proposal, AppendDecision
  <2> QED
    BY <1>2, <2>1, <2>2
<1>4. ASSUME NEW plan \in Plans, select_plan(plan) PROVE OK(u)'
  <2>1. /\ nDecisions + 1 \in Versions /\ nDecisions' = nDecisions + 1
        /\ supersede_intents_for_decision_change(nDecisions + 1)
    BY <1>4, <1>a, SelectEffect
  <2> QED
    BY <1>2, <2>1
<1>5. CASE discover
  <2>1. UNCHANGED <<intents, handoffs, outbox>> /\ ~discovered /\ discovered' = TRUE
    BY <1>5 DEF discover, CompleteDiscovery
  <2>2. /\ nDecisions' = nDecisions + 1
        /\ decisions'[nDecisions + 1] = Evaluated(nBriefs, TaxonomyWeight)
    BY <1>5, <1>a, DiscoverEffect
  <2>3. Newest(u) => u = nDecisions
    BY <2>1 DEF Newest
  <2>4. u = nDecisions => Newest(u)'
    BY <1>c, <2>1, <2>2 DEF Newest, Evaluated
  <2> QED
    BY <1>b, <1>c, <1>d, <2>1, <2>2, <2>3, <2>4
<1>6. CASE lock_purchase_intent
  <2>1. UNCHANGED <<handoffs, decisionVars>>
    BY <1>6 DEF lock_purchase_intent
  <2>2. /\ outbox \subseteq outbox'
        /\ intents'[u].status = IF u = nDecisions THEN "NOT_REQUESTED" ELSE intents[u].status
    BY <1>6, <1>a, LockEffect
  <2> QED
    BY <1>b, <1>c, <1>d, <1>f, <2>1, <2>2 DEF Bound, Newest
<1>7. ASSUME NEW v \in Versions, create_approval_request(v) PROVE OK(u)'
  <2>1. UNCHANGED <<handoffs, decisionVars, outbox>> /\ v = nDecisions
    BY <1>7 DEF create_approval_request, Current
  <2>2. intents'[u].status = IF u = v THEN "PENDING" ELSE intents[u].status
    BY <1>7, <1>a, RequestEffect
  <2> QED
    BY <1>b, <1>c, <1>d, <1>f, <2>1, <2>2 DEF Bound, Newest
<1>8. ASSUME NEW v \in Versions, expire_on_decision(v) \/ expire_before_handoff(v)
      PROVE  OK(u)'
  <2>1. /\ UNCHANGED <<handoffs, decisionVars, outbox>> /\ approvals[v].status # "NONE"
        /\ SetAuthority(v, "EXPIRED") /\ "EXPIRED" \in ApprovalStatus
    BY <1>8 DEF expire_on_decision, expire_before_handoff, ApprovalStatus
  <2>2. intents'[u].status = IF u = v THEN "EXPIRED" ELSE intents[u].status
    BY <1>a, <2>1, SetAuthorityEffect
  <2>3. intents[v].status # "NONE"
    BY <2>1 DEF AuthorityInv, StatusCopiesAgree
  <2> QED
    BY <1>b, <1>d, <1>f, <2>1, <2>2, <2>3 DEF Bound
<1>9. ASSUME NEW v \in Versions, create_payment_handoff(v) PROVE OK(u)'
  <2>1. UNCHANGED <<intents, decisionVars>>
    BY <1>9 DEF create_payment_handoff
  <2>2. /\ outbox \subseteq outbox'
        /\ handoffs'[u].status = "READY" \/ handoffs'[u].status = handoffs[u].status
    BY <1>9, <1>a, PrepareEffect
  <2> QED
    BY <1>b, <1>d, <1>f, <2>1, <2>2
<1>10. ASSUME NEW v \in Versions, open_payment_handoff(v) PROVE OK(u)'
  <2>1. UNCHANGED <<intents, decisionVars>>
    BY <1>10 DEF open_payment_handoff
  <2>2. /\ outbox \subseteq outbox'
        /\ handoffs'[u].status = "OPENED" \/ handoffs'[u].status = handoffs[u].status
    BY <1>10, <1>a, OpenEffect
  <2> QED
    BY <1>b, <1>d, <1>f, <2>1, <2>2
<1>11. ASSUME NEW v \in Versions, NEW a \in Actors, NEW r \in Roles, approve(v, a, r)
       PROVE  OK(u)'
  <2>1. /\ UNCHANGED <<handoffs, decisionVars, outbox>>
        /\ v = nDecisions
    BY <1>11 DEF approve, Current
  <2>2. \/ intents'[u].status = intents[u].status
        \/ u = v /\ intents'[u].status = "APPROVED"
    BY <1>11, <1>a, ApproveEffect
  <2> QED
    BY <1>b, <1>c, <1>d, <1>f, <2>1, <2>2 DEF Bound, Newest
<1>12. ASSUME NEW v \in Versions, NEW a \in Actors, NEW r \in Roles, reject_approval(v, a, r)
       PROVE  OK(u)'
  <2>1. /\ UNCHANGED <<handoffs, decisionVars>> /\ v = nDecisions
        /\ SetAuthority(v, "REJECTED") /\ "REJECTED" \in ApprovalStatus
        /\ outbox \subseteq outbox' /\ <<"approval.rejected", v, 0>> \in outbox'
    BY <1>12 DEF reject_approval, Current, ApprovalStatus
  <2>2. intents'[u].status = IF u = v THEN "REJECTED" ELSE intents[u].status
    BY <1>a, <2>1, SetAuthorityEffect
  <2>3. u = v => Announced(u)'
    BY <1>c, <1>e, <2>1
  <2> QED
    BY <1>b, <1>c, <1>d, <1>f, <2>1, <2>2, <2>3 DEF Bound
<1>13. ASSUME NEW v \in Versions, NEW a \in Actors, NEW r \in Roles, revoke_approval(v, a, r)
       PROVE  OK(u)'
  <2>1. /\ UNCHANGED decisionVars /\ v = nDecisions
        /\ SetAuthority(v, "REVOKED") /\ "REVOKED" \in ApprovalStatus
        /\ outbox \subseteq outbox' /\ <<"approval.revoked", v, 0>> \in outbox'
    BY <1>13 DEF revoke_approval, Current, ApprovalStatus
  <2>2. intents'[u].status = IF u = v THEN "REVOKED" ELSE intents[u].status
    BY <1>a, <2>1, SetAuthorityEffect
  <2>3. u # v => handoffs'[u].status = handoffs[u].status
    BY <1>13, <1>a, RevokeEffect
  <2>4. u = v => Announced(u)'
    BY <1>c, <1>e, <2>1
  <2> QED
    BY <1>b, <1>c, <1>d, <1>f, <2>1, <2>2, <2>3, <2>4 DEF Bound
<1>14. ASSUME NEW scenario \in BOOLEAN, create_purchase_request(scenario) PROVE OK(u)'
  BY <1>1, <1>14 DEF create_purchase_request
<1>15. ASSUME NEW w \in Weights, run_calibration(w) \/ candidate_action(w) \/ feedback(w)
       PROVE  OK(u)'
  BY <1>1, <1>15 DEF run_calibration, candidate_action, feedback, Propose
<1>16. ASSUME NEW p \in ProposalRow, reject_proposal(p) PROVE OK(u)'
  BY <1>1, <1>16 DEF reject_proposal
<1>17. ASSUME start_action_run \/ Tick \/ UNCHANGED vars PROVE OK(u)'
  BY <1>1, <1>17 DEF start_action_run, Tick, vars
<1>18. ASSUME NEW v \in Versions, NEW at \in 0 .. MaxTime, NEW reached \in BOOLEAN,
              record_outcome_checkpoint(v, at, reached)
       PROVE  OK(u)'
  BY <1>1, <1>18 DEF record_outcome_checkpoint, AddCheckpoint
<1> HIDE DEF OK
<1> QED
  BY <1>3, <1>4, <1>5, <1>6, <1>7, <1>8, <1>9, <1>10, <1>11, <1>12, <1>13, <1>14, <1>15, <1>16,
     <1>17, <1>18 DEF Next, RequestNext, DecisionNext, AuthorityNext

\* A tenant starts in the invariant, empty or as reset_demo leaves it.
LEMMA InitInv == Init => Inv
<1> SUFFICES ASSUME Init PROVE Inv
  OBVIOUS
<1>1. Tables
  <2>1. /\ request \in RequestRow
        /\ nBriefs \in 0 .. MaxBriefs
        /\ nDecisions \in 0 .. MaxDecisions
    <3>1. CASE EmptyTenant
      BY <3>1, TermAssumption DEF EmptyTenant, RequestRow
    <3>2. CASE DemoRows
      BY <3>2, TermAssumption DEF DemoRows, RequestRow
    <3> QED
      BY <3>1, <3>2 DEF Init, reset_demo
  <2>2. briefs \in [1 .. MaxBriefs -> BriefRow]
    BY PlanAssumption DEF Init, EmptyTenant, reset_demo, DemoRows, BriefRow, NoBrief, FirstBrief
  <2>3. NoDecision \in DecisionRow /\ Evaluated(1, TaxonomyWeight) \in DecisionRow
    BY EvaluatedType, PlanAssumption, TermAssumption DEF NoDecision, DecisionRow
  <2>4. NoDecision.kind # "SELECTED" /\ Evaluated(1, TaxonomyWeight).kind # "SELECTED"
    BY DEF NoDecision, Evaluated
  <2>5. decisions \in [Versions -> DecisionRow] /\ SelectionHasPlan
    BY <2>3, <2>4 DEF Init, EmptyTenant, reset_demo, DemoRows, SelectionHasPlan
  <2>6. /\ intents \in [Versions -> IntentRow]
        /\ approvals \in [Versions -> ApprovalRow]
        /\ handoffs \in [Versions -> HandoffRow]
    BY TermAssumption DEF Init, IntentRow, NoIntent, ApprovalRow, NoApproval, HandoffRow,
       NoHandoff
  <2> QED
    BY <2>1, <2>2, <2>5, <2>6 DEF Init, Tables, TypeOK
<1>2. AuthorityInv
  <2>1. Len(<<>>) = 0 /\ Len(RoleSeq) \in Nat
    BY RoleAssumption
  <2>2. \A v \in Versions : /\ intents[v].status = "NONE"
                            /\ approvals[v].status = "NONE" /\ approvals[v].roles = <<>>
                            /\ handoffs[v].status = "NONE"
    BY DEF Init, NoIntent, NoApproval, NoHandoff
  <2>3. StagesBacked
    BY <2>1, <2>2 DEF Init, StagesBacked
  <2> QED
    BY <2>2, <2>3 DEF AuthorityInv, StatusCopiesAgree, HandoffTerms, HandoffsAuthorised,
       ReadyIsAuthorised, OpenedInTerm
<1>3. BriefInv
  <2>1. CASE EmptyTenant
    BY <2>1, TermAssumption DEF EmptyTenant, NoBrief, BriefInv, RequestFirst, NewestBriefInForce
  <2>2. CASE DemoRows
    <3>1. 1 \in Versions /\ 1 \in 1 .. MaxBriefs
      BY TermAssumption DEF Versions
    <3> QED
      BY <2>2, <3>1 DEF DemoRows, NoBrief, FirstBrief, Evaluated, BriefInv, RequestFirst,
         NewestBriefInForce
  <2> QED
    BY <2>1, <2>2 DEF Init, reset_demo
<1>4. ChangeInv
  BY DEF Init, NoIntent, NoHandoff, ChangeInv, IntentOfDecision, WithdrawalIsComplete,
     WithdrawalAnnounced, OnlyDiscoveryKeepsAuthority, Bound
<1> QED
  BY <1>1, <1>2, <1>3, <1>4 DEF Inv

\* Every step preserves it.
LEMMA InvStep == Inv /\ [Next]_vars => Inv'
<1> SUFFICES ASSUME Inv, [Next]_vars PROVE Inv'
  OBVIOUS
<1>1. Tables'
  BY TypeStep DEF Inv
<1>2. AuthorityInv'
  BY CopiesStep, StagesStep, HandoffStep DEF Inv, AuthorityInv
<1>3. BriefInv'
  BY BriefStep DEF Inv
<1>4. ChangeInv'
  BY ChangeStep DEF Inv
<1> QED
  BY <1>1, <1>2, <1>3, <1>4 DEF Inv

\* Init, and every step, keep the invariant.
THEOREM Invariance == Spec => []Inv
  BY InitInv, InvStep, PTL DEF Spec

(***************************************************************************)
(* The theorems.                                                           *)
(***************************************************************************)
\* The purchase tables hold values of their types only.
THEOREM TypeCorrect == Spec => []TypeOK
<1>1. Inv => TypeOK
  BY DEF Inv, Tables
<1> QED
  BY <1>1, Invariance, PTL

\* The approval status is stored in the intent and in the request for approval;
\* the copies agree whatever handlers wrote them.
THEOREM CopiesAgree == Spec => []StatusCopiesAgree
<1>1. Inv => StatusCopiesAgree
  BY DEF Inv, AuthorityInv
<1> QED
  BY <1>1, Invariance, PTL

\* Behind an approved purchase stand events for every required role, each by a
\* holder of the role, no two by one actor (approve).
THEOREM SeparationOfDuties == Spec => []FourEyes
<1>1. Inv => FourEyes
  BY DEF Inv, AuthorityInv, StagesBacked, FourEyes
<1> QED
  BY <1>1, Invariance, PTL

\* A handoff can be opened only under an approval that was given, and none was
\* opened past the approval's or the quote's term (open_payment_handoff).
THEOREM HandoffAuthority == Spec => []HandoffsAuthorised
<1>1. Inv => HandoffsAuthorised
  BY DEF Inv, AuthorityInv
<1> QED
  BY <1>1, Invariance, PTL

\* However proposals race, exactly the newest brief is in force and the newest
\* decision was made under it (decide_proposal).
THEOREM BriefInForce == Spec => []NewestBriefInForce
<1>1. Inv => NewestBriefInForce
  BY DEF Inv, BriefInv
<1> QED
  BY <1>1, Invariance, PTL

\* A withdrawal and a change of decision are announced, and leave authority with
\* the newest decision, or with its predecessor when a discovery came after it.
THEOREM WithdrawalComplete == Spec => []WithdrawalIsComplete
<1>1. Inv => WithdrawalIsComplete
  BY DEF Inv, ChangeInv
<1> QED
  BY <1>1, Invariance, PTL

(***************************************************************************)
(* The purchase implements PaymentAuthority.                               *)
(***************************************************************************)
\* A step that leaves each authority as it was, or withdraws it, is a step or a
\* stutter of the abstract specification.
LEMMA WithdrawStep ==
  ASSUME \A u \in Versions :
           \/ Grant(u)' = Grant(u)
           \/ Grant(u) \in {"none", "granted"} /\ Grant(u)' = "withdrawn"
  PROVE  Authority!Next
<1> DEFINE S == {u \in Versions : Grant(u)' # Grant(u)}
           g == [u \in Versions |-> Grant(u)]
<1>1. S \in SUBSET Versions
  OBVIOUS
<1>2. \A u \in S : g[u] \in {"none", "granted"}
  OBVIOUS
<1>3. g' = [u \in Versions |-> IF u \in S THEN "withdrawn" ELSE g[u]]
  OBVIOUS
<1>4. Authority!Withdraw(S)
  BY <1>2, <1>3 DEF Authority!Withdraw
<1> QED
  BY <1>1, <1>4 DEF Authority!Next

\* Every step of the purchase is a step of the authority, or leaves it alone.
LEMMA AuthorityStep ==
  ASSUME Inv, [Next]_vars
  PROVE  [Authority!Next]_([v \in Versions |-> Grant(v)])
<1> DEFINE g == [u \in Versions |-> Grant(u)]
<1>a. Tables /\ TypeOK /\ StatusCopiesAgree /\ StagesBacked
  BY DEF Inv, Tables, AuthorityInv
<1>b. \A u \in Versions : intents[u].status \in ApprovalStatus \cup {"NONE", "NOT_REQUESTED"}
  BY <1>a DEF TypeOK, IntentRow
<1>1. CASE UNCHANGED authorityVars
  BY <1>1 DEF Grant
<1>2. ASSUME NEW n \in Versions, supersede_intents_for_decision_change(n) PROVE Authority!Next
  <2>1. \A u \in Versions :
          /\ \/ intents'[u].status = intents[u].status
             \/ Bound(intents[u].status) /\ intents'[u].status = "SUPERSEDED"
          /\ \/ handoffs'[u].status = handoffs[u].status
             \/ handoffs[u].status = "READY" /\ handoffs'[u].status = "CANCELLED"
    BY <1>2, <1>a, SupersedeEffect
  <2> QED
    BY <2>1, WithdrawStep DEF Grant, Bound
<1>3. CASE lock_purchase_intent
  <2>1. /\ UNCHANGED handoffs
        /\ \A u \in Versions :
             \/ intents'[u].status = intents[u].status
             \/ intents[u].status = "NONE" /\ intents'[u].status = "NOT_REQUESTED"
    BY <1>3, <1>a, LockEffect DEF lock_purchase_intent
  <2> QED
    BY <2>1, WithdrawStep DEF Grant
<1>4. ASSUME NEW v \in Versions, create_approval_request(v) PROVE Authority!Next
  <2>1. /\ UNCHANGED handoffs
        /\ \A u \in Versions :
             \/ intents'[u].status = intents[u].status
             \/ intents[u].status = "NOT_REQUESTED" /\ intents'[u].status = "PENDING"
    BY <1>4, <1>a, RequestEffect DEF create_approval_request
  <2> QED
    BY <2>1, WithdrawStep DEF Grant
<1>5. ASSUME NEW v \in Versions, NEW s \in {"EXPIRED", "REJECTED", "REVOKED"}, SetAuthority(v, s),
             \A u \in Versions : (handoffs'[u].status = "OPENED") <=> (handoffs[u].status = "OPENED")
      PROVE  Authority!Next
  <2>1. \A u \in Versions : intents'[u].status = IF u = v THEN s ELSE intents[u].status
    BY <1>5, <1>a, SetAuthorityEffect DEF ApprovalStatus
  <2> QED
    BY <1>5, <1>b, <2>1, WithdrawStep DEF Grant, ApprovalStatus
<1>6. ASSUME NEW v \in Versions, expire_on_decision(v) \/ expire_before_handoff(v)
      PROVE  Authority!Next
  <2>1. SetAuthority(v, "EXPIRED") /\ UNCHANGED handoffs
    BY <1>6 DEF expire_on_decision, expire_before_handoff
  <2> QED
    BY <1>5, <2>1
<1>7. ASSUME NEW v \in Versions, create_payment_handoff(v) PROVE Authority!Next
  <2>1. /\ UNCHANGED intents
        /\ handoffs[v].status = "NONE"
    BY <1>7 DEF create_payment_handoff
  <2>2. \A u \in Versions : \/ handoffs'[u] = handoffs[u]
                            \/ u = v /\ handoffs'[u].status = "READY"
    BY <1>7, <1>a, PrepareEffect
  <2> QED
    BY <2>1, <2>2, WithdrawStep DEF Grant
<1>8. ASSUME NEW v \in Versions, open_payment_handoff(v) PROVE Authority!Next
  <2>1. /\ UNCHANGED intents
        /\ handoffs[v].status = "READY" /\ intents[v].status = "APPROVED"
    BY <1>8 DEF open_payment_handoff
  <2>2. /\ handoffs'[v].status = "OPENED"
        /\ \A u \in Versions : u # v => handoffs'[u] = handoffs[u]
    BY <1>8, <1>a, OpenEffect
  <2>3. g[v] = "granted" /\ g' = [g EXCEPT ![v] = "spent"]
    BY <2>1, <2>2 DEF Grant
  <2> QED
    BY <2>3 DEF Authority!Next, Authority!Spend
<1>9. ASSUME NEW v \in Versions, NEW a \in Actors, NEW r \in Roles, approve(v, a, r)
      PROVE  Authority!Next
  <2>1. UNCHANGED handoffs /\ approvals[v].status = "PENDING"
    BY <1>9, <1>a, OpenStage DEF approve
  <2>2. intents[v].status = "PENDING"
    BY <1>a, <2>1 DEF StatusCopiesAgree
  <2>3. /\ intents'[v].status \in {"PENDING", "APPROVED"}
        /\ \A u \in Versions : u # v => intents'[u] = intents[u]
    BY <1>9, <1>a, <2>2, ApproveEffect
  <2>4. CASE intents'[v].status = "PENDING" \/ handoffs[v].status = "OPENED"
    BY <2>1, <2>2, <2>3, <2>4, WithdrawStep DEF Grant
  <2>5. CASE intents'[v].status = "APPROVED" /\ handoffs[v].status # "OPENED"
    <3>1. g[v] = "none" /\ g' = [g EXCEPT ![v] = "granted"]
      BY <2>1, <2>2, <2>3, <2>5 DEF Grant
    <3> QED
      BY <3>1 DEF Authority!Next, Authority!Give
  <2> QED
    BY <2>3, <2>4, <2>5
<1>10. ASSUME NEW v \in Versions, NEW a \in Actors, NEW r \in Roles, reject_approval(v, a, r)
       PROVE  Authority!Next
  <2>1. SetAuthority(v, "REJECTED") /\ UNCHANGED handoffs
    BY <1>10 DEF reject_approval
  <2> QED
    BY <1>5, <2>1
<1>11. ASSUME NEW v \in Versions, NEW a \in Actors, NEW r \in Roles, revoke_approval(v, a, r)
       PROVE  Authority!Next
  <2>1. SetAuthority(v, "REVOKED")
    BY <1>11 DEF revoke_approval
  <2>2. \A u \in Versions : (handoffs'[u].status = "OPENED") <=> (handoffs[u].status = "OPENED")
    BY <1>11, <1>a, RevokeEffect
  <2> QED
    BY <1>5, <2>1, <2>2
<1> QED
  BY <1>a, <1>1, <1>2, <1>3, <1>4, <1>6, <1>7, <1>8, <1>9, <1>10, <1>11, AuthoritySteps

\* The staged approval and the handoff implement an authority that is granted at
\* most once, spent at most once while it stands, and never comes back.
THEOREM PurchaseImplementsAuthority == Spec => ImplementsAuthority
<1>1. Init => Authority!Init
  BY DEF Init, NoIntent, NoHandoff, Grant, Authority!Init
<1>2. Inv /\ [Next]_vars => [Authority!Next]_([v \in Versions |-> Grant(v)])
  BY AuthorityStep
<1> QED
  BY <1>1, <1>2, Invariance, PTL DEF Spec, ImplementsAuthority, Authority!Spec
=============================================================================
