----------------------- MODULE BilateralExchangeProofs -----------------------
(***************************************************************************)
(* Theorems of BilateralExchange, for any number of handlers, keys and     *)
(* unapplied commands, and every term of offers, approvals and handoffs.   *)
(***************************************************************************)
EXTENDS BilateralExchange, TLAPS

(***************************************************************************)
(* The inductive invariant.                                                *)
(***************************************************************************)
\* The rows, as the tables hold them.
Tables ==
  /\ case \in CaseRow
  /\ transitions \in Seq(TransitionRow)
  /\ commands \in [Keys -> CommandRow]
  /\ offers \in Seq(OfferRow)
  /\ approval \in ApprovalRow
  /\ handoff \in HandoffRow
  /\ buyerView \subseteq ProjectionRow
  /\ sellerView \subseteq ProjectionRow
  /\ calls \in [Callers -> {NoCall} \cup CallRow]
  /\ clock \in 0 .. MaxTime

\* The case stands where its log ended.
LogReachesCase ==
  case.state = IF transitions = <<>> THEN "CREATED" ELSE transitions[Len(transitions)].to

\* A handler owes the seller a projection the buyer already has.
Owed == \A c \in Callers : calls[c] # NoCall =>
  /\ calls[c].expected <= case.version
  /\ calls[c].stage = "PUBLISH" =>
       /\ calls[c].projection \in buyerView
       /\ calls[c].projection.version \in 1 .. case.version

\* What was lost are versions of the case.
LostVersions == lost \subseteq 1 .. case.version

HistoryInv == PartiesSeeHistory /\ LogReachesCase /\ Owed /\ LostVersions

\* The newest offer was made by one party and accepted by the other after it had
\* become current.
Agreement == \E i \in DOMAIN transitions :
  /\ transitions[i].type \in {"ACCEPT_OFFER", "ACCEPT_COUNTER"}
  /\ Owner[transitions[i].type] = Other(offers[Len(offers)].proposer)
  /\ \A j \in DOMAIN transitions :
       transitions[j].type \in {"PROPOSE_OFFER", "COUNTER_OFFER"} => j < i

\* What the state of the case says of the offers, the approval and the handoff.
DealInv ==
  /\ case.state \in {"CREATED", "REQUIREMENT_RELEASED", "EVIDENCE_RELEASED"} => Len(offers) = 0
  /\ case.state = "OFFERED" => Len(offers) = 1
  /\ case.state = "COUNTERED" => Len(offers) = 2
  /\ Len(offers) <= 2
  /\ Len(offers) > 0 => offers[Len(offers)].status # "SUPERSEDED"
  /\ case.state \in {"AGREED_PENDING_APPROVAL", "APPROVED_FOR_HANDOFF"}
       => Len(offers) > 0 /\ Agreement
  /\ case.state # "APPROVED_FOR_HANDOFF" => approval = NoApproval /\ handoff = NoHandoff
  /\ case.state = "APPROVED_FOR_HANDOFF" => approval.offer = Len(offers)
  /\ HandoffWithinAuthority

Inv == Tables /\ HistoryInv /\ DealInv

(***************************************************************************)
(* What the transactions write.                                            *)
(***************************************************************************)
\* A call that is under way is not the absence of one.
LEMMA CallIsSome ==
  ASSUME NEW r \in CallRow
  PROVE  r # NoCall
  BY DEF CallRow, NoCall

\* The coordinator's table, read by command.
LEMMA TableRows ==
  ASSUME NEW s, NEW type, NEW n, <<s, type, n>> \in Transitions
  PROVE  /\ s \in States /\ n \in States /\ s # "APPROVED_FOR_HANDOFF"
         /\ type = "RELEASE_REQUIREMENT" => s = "CREATED" /\ n = "REQUIREMENT_RELEASED"
         /\ type = "PUBLISH_EVIDENCE" => s = "REQUIREMENT_RELEASED" /\ n = "EVIDENCE_RELEASED"
         /\ type = "PROPOSE_OFFER" => s = "EVIDENCE_RELEASED" /\ n = "OFFERED"
         /\ type = "COUNTER_OFFER" => s = "OFFERED" /\ n = "COUNTERED"
         /\ type = "ACCEPT_OFFER" => s = "OFFERED" /\ n = "AGREED_PENDING_APPROVAL"
         /\ type = "ACCEPT_COUNTER" => s = "COUNTERED" /\ n = "AGREED_PENDING_APPROVAL"
         /\ type = "APPROVE_HANDOFF" =>
              s = "AGREED_PENDING_APPROVAL" /\ n = "APPROVED_FOR_HANDOFF"
  BY DEF Transitions, States

\* The command types are the seven the handlers issue.
LEMMA SevenCommands ==
  CommandTypes = {"RELEASE_REQUIREMENT", "PUBLISH_EVIDENCE", "PROPOSE_OFFER", "COUNTER_OFFER",
                  "ACCEPT_OFFER", "ACCEPT_COUNTER", "APPROVE_HANDOFF"}
  BY DEF CommandTypes, Owner

\* A command the table has for the state of the case.
InTable(type) == \E t \in Transitions : t[1] = case.state /\ t[2] = type

\* The coordinator state a command compiles to is the next version of the case.
LEMMA CompiledRow ==
  ASSUME case \in CaseRow, NEW type \in CommandTypes, NEW o \in Nat, InTable(type)
  PROVE  /\ Compiled(type, o) \in CaseRow
         /\ Compiled(type, o).version = case.version + 1
         /\ <<case.state, type, Compiled(type, o).state>> \in Transitions
<1> DEFINE t == CHOOSE t \in Transitions : t[1] = case.state /\ t[2] = type
<1>1. t \in Transitions /\ t[1] = case.state /\ t[2] = type
  BY DEF InTable
<1>2. \A u \in Transitions : u = <<u[1], u[2], u[3]>> /\ u[3] \in States
  <2> TAKE u \in Transitions
  <2>1. u = <<u[1], u[2], u[3]>>
    BY DEF Transitions
  <2>2. u[3] \in States
    BY DEF Transitions, States
  <2> QED
    BY <2>1, <2>2
<1> DEFINE next == [state |-> t[3], version |-> case.version + 1,
                    evidence |-> case.evidence \/ type = "PUBLISH_EVIDENCE",
                    offer |-> IF type \in {"PROPOSE_OFFER", "COUNTER_OFFER"}
                              THEN o ELSE case.offer,
                    approved |-> case.approved \/ type = "APPROVE_HANDOFF"]
<1>3. Compiled(type, o) = next
  BY DEF Compiled
<1> HIDE DEF t
<1>4. t[3] \in States /\ <<case.state, type, t[3]>> \in Transitions
  BY <1>1, <1>2
<1>5. next \in CaseRow /\ next.version = case.version + 1 /\ next.state = t[3]
  BY <1>4 DEF CaseRow
<1> HIDE DEF next
<1> QED
  BY <1>3, <1>4, <1>5

\* Every applied command: the case, the log and the buyer's projection move, and
\* the handler owes the seller the new version.
Advance(c, k, type, o) ==
  /\ InTable(type)
  /\ Apply(k, type, o)
  /\ OweSeller(c, k, o, type)
  /\ calls[c] # NoCall => calls[c].stage = "APPLY"
  /\ UNCHANGED <<sellerView, lost>>

\* What an applied command leaves.
LEMMA AdvanceEffect ==
  ASSUME Tables, NEW c \in Callers, NEW k \in Keys, NEW type \in CommandTypes, NEW o \in Nat,
         Advance(c, k, type, o)
  PROVE  /\ case' \in CaseRow /\ case'.version = case.version + 1
         /\ <<case.state, type, case'.state>> \in Transitions
         /\ transitions' \in Seq(TransitionRow) /\ Len(transitions') = Len(transitions) + 1
         /\ \A i \in 1 .. Len(transitions) :
              transitions'[i] = transitions[i] /\ transitions[i].command # k
         /\ transitions'[Len(transitions) + 1].command = k
         /\ transitions'[Len(transitions) + 1].type = type
         /\ transitions'[Len(transitions) + 1].from = case.state
         /\ transitions'[Len(transitions) + 1].to = case'.state
         /\ buyerView' = Published(buyerView, case')
         /\ calls' \in [Callers -> {NoCall} \cup CallRow]
         /\ calls'[c] # NoCall /\ calls'[c].stage = "PUBLISH"
         /\ calls'[c].projection = case' /\ calls'[c].expected = case.version
         /\ \A d \in Callers : d # c => calls'[d] = calls[d]
<1> DEFINE next == Compiled(type, o)
           row  == [command |-> k, type |-> type, from |-> case.state, to |-> next.state]
           call == [key |-> k, stage |-> "PUBLISH", expected |-> case.version,
                    projection |-> next]
<1>1. /\ next \in CaseRow /\ next.version = case.version + 1
      /\ <<case.state, type, next.state>> \in Transitions
  BY CompiledRow DEF Advance, Tables
<1>2. /\ case' = next /\ transitions' = Append(transitions, row)
      /\ buyerView' = Published(buyerView, next)
      /\ calls' = [calls EXCEPT ![c] = call]
      /\ \A i \in DOMAIN transitions : transitions[i].command # k
  BY DEF Advance, Apply, OweSeller, Applied
<1> HIDE DEF next
<1>3. row \in TransitionRow /\ call \in CallRow
  BY <1>1 DEF TransitionRow, CallRow, CaseRow, ProjectionRow, Tables
<1>4. /\ row.command = k /\ row.type = type /\ row.from = case.state /\ row.to = next.state
      /\ call.stage = "PUBLISH" /\ call.projection = next /\ call.expected = case.version
  OBVIOUS
<1>5. call # NoCall
  BY <1>3, CallIsSome
<1> HIDE DEF row, call
<1>6. transitions \in Seq(TransitionRow) /\ calls \in [Callers -> {NoCall} \cup CallRow]
  BY DEF Tables
<1>7. /\ transitions' \in Seq(TransitionRow) /\ Len(transitions') = Len(transitions) + 1
      /\ \A i \in 1 .. Len(transitions) : transitions'[i] = transitions[i]
      /\ transitions'[Len(transitions) + 1] = row
      /\ DOMAIN transitions = 1 .. Len(transitions)
  BY <1>2, <1>3, <1>6
<1>8. /\ calls' \in [Callers -> {NoCall} \cup CallRow] /\ calls'[c] = call
      /\ \A d \in Callers : d # c => calls'[d] = calls[d]
  BY <1>2, <1>3, <1>6
<1> QED
  BY <1>1, <1>2, <1>4, <1>5, <1>7, <1>8

\* A command of a handler is such a step.
LEMMA CommandAdvances ==
  ASSUME NEW c, NEW k, NEW type, NEW party, NEW x, NEW o, Command(c, k, type, party, x, o)
  PROVE  /\ Advance(c, k, type, o)
         /\ commands' = [commands EXCEPT ![k] = type]
         /\ UNCHANGED clock
  BY DEF Command, Advance, Compiles, InTable

\* A stored offer supersedes the older ones and is the newest.
LEMMA StoreEffect ==
  ASSUME Tables, NEW o \in OfferRow, StoreOffer(o)
  PROVE  /\ offers' \in Seq(OfferRow) /\ Len(offers') = Len(offers) + 1
         /\ offers'[Len(offers) + 1] = o
         /\ \A i \in 1 .. Len(offers) : offers'[i].status = "SUPERSEDED"
<1> DEFINE old(r) == [proposer |-> r.proposer, status |-> "SUPERSEDED", expires |-> r.expires]
           q      == [i \in DOMAIN offers |-> old(offers[i])]
<1>1. /\ DOMAIN offers = 1 .. Len(offers) /\ Len(offers) \in Nat
      /\ \A i \in DOMAIN offers : offers[i] \in OfferRow
  BY DEF Tables
<1>2. \A r \in OfferRow : [r EXCEPT !.status = "SUPERSEDED"] = old(r)
  BY DEF OfferRow
<1>3. offers' = Append(q, o)
  BY <1>1, <1>2, Zenon DEF StoreOffer
<1>4. q \in [1 .. Len(offers) -> OfferRow]
  BY <1>1 DEF OfferRow
<1>5. q \in Seq(OfferRow) /\ Len(q) = Len(offers)
  BY <1>1, <1>4
<1>6. \A i \in 1 .. Len(offers) : q[i].status = "SUPERSEDED"
  BY <1>1
<1> HIDE DEF q
<1> QED
  BY <1>1, <1>3, <1>5, <1>6

\* An approval marks its offer and changes no other.
LEMMA StoreApprovalEffect ==
  ASSUME Tables, NEW n \in DOMAIN offers, NEW term \in ApprovalTerms, StoreApproval(n, term)
  PROVE  /\ offers' \in Seq(OfferRow) /\ Len(offers') = Len(offers)
         /\ approval' \in ApprovalRow /\ approval'.offer = n
         /\ offers'[n].status = "APPROVED"
         /\ \A i \in 1 .. Len(offers) :
              /\ offers'[i].proposer = offers[i].proposer
              /\ i # n => offers'[i] = offers[i]
<1> DEFINE new == [proposer |-> offers[n].proposer, status |-> "APPROVED",
                   expires |-> offers[n].expires]
<1>1. offers \in Seq(OfferRow) /\ offers[n] \in OfferRow /\ n \in 1 .. Len(offers)
  BY DEF Tables
<1>2. [offers[n] EXCEPT !.status = "APPROVED"] = new
  BY <1>1 DEF OfferRow
<1>3. offers' = [offers EXCEPT ![n] = new]
  BY <1>2, Zenon DEF StoreApproval
<1>4. new \in OfferRow /\ new.status = "APPROVED" /\ new.proposer = offers[n].proposer
  BY <1>1 DEF OfferRow
<1> HIDE DEF new
<1>5. approval' = [offer |-> n, expires |-> clock + term] /\ clock + term \in Nat /\ n \in Nat
  BY <1>1, ExchangeAssumption DEF StoreApproval, Tables
<1>6. approval' \in ApprovalRow /\ approval'.offer = n
  BY <1>5 DEF ApprovalRow
<1> QED
  BY <1>1, <1>3, <1>4, <1>6

\* The least of three times is one of them, and no later than any.
LEMMA MinOfThree ==
  ASSUME NEW a \in Nat, NEW b \in Nat, NEW c \in Nat
  PROVE  /\ Min({a, b, c}) \in Nat
         /\ Min({a, b, c}) <= a /\ Min({a, b, c}) <= b /\ Min({a, b, c}) <= c
<1> DEFINE S == {a, b, c}
<1>1. \E x \in S : \A y \in S : x <= y
  OBVIOUS
<1>2. Min(S) \in S /\ \A y \in S : Min(S) <= y
  BY <1>1 DEF Min
<1> QED
  BY <1>2

\* The lesser of two times is one of them.
LEMMA MinOfTwo ==
  ASSUME NEW a \in Nat, NEW b \in Nat
  PROVE  Min({a, b}) \in {a, b}
<1>1. \E x \in {a, b} : \A y \in {a, b} : x <= y
  OBVIOUS
<1> QED
  BY <1>1 DEF Min

\* A stored handoff stands on the approved offer, within its terms.
LEMMA StoreHandoffEffect ==
  ASSUME Tables, NEW n \in DOMAIN offers, StoreHandoff(n)
  PROVE  /\ handoff' \in HandoffRow
         /\ handoff'.offer = n /\ handoff'.status = "READY"
         /\ handoff'.expires <= offers[n].expires /\ handoff'.expires <= approval.expires
<1>1. n \in Nat /\ clock \in Nat /\ offers[n].expires \in Nat /\ approval.expires \in Nat
  <2>1. n \in 1 .. Len(offers) /\ offers[n] \in OfferRow
    BY DEF Tables
  <2> QED
    BY <2>1, ExchangeAssumption DEF Tables, OfferRow, ApprovalRow
<1> DEFINE e == HandoffExpires(n)
<1>2. e \in Nat /\ e <= offers[n].expires /\ e <= approval.expires
  BY <1>1, MinOfThree, ExchangeAssumption DEF HandoffExpires
<1>3. handoff' = [offer |-> n, created |-> clock, expires |-> e, status |-> "READY",
                  openedAt |-> 0]
  BY DEF StoreHandoff, ExchangePaymentHandoff
<1> HIDE DEF e
<1> QED
  BY <1>1, <1>2, <1>3 DEF HandoffRow

\* Opening changes the status and the time of the handoff only.
LEMMA OpenEffect ==
  ASSUME Tables, Open
  PROVE  /\ handoff' \in HandoffRow
         /\ handoff'.offer = handoff.offer /\ handoff'.expires = handoff.expires
         /\ handoff'.status = "OPENED" /\ handoff'.openedAt = clock
<1> DEFINE r == [offer |-> handoff.offer, created |-> handoff.created, expires |-> handoff.expires,
                 status |-> "OPENED", openedAt |-> handoff.openedAt]
<1>1. handoff \in HandoffRow /\ clock \in Nat
  BY ExchangeAssumption DEF Tables
<1>2. [handoff EXCEPT !.status = "OPENED"] = r
  BY <1>1 DEF HandoffRow
<1>3. [r EXCEPT !.openedAt = clock]
        = [offer |-> handoff.offer, created |-> handoff.created, expires |-> handoff.expires,
           status |-> "OPENED", openedAt |-> clock]
  OBVIOUS
<1> HIDE DEF r
<1>4. handoff' = [offer |-> handoff.offer, created |-> handoff.created,
                  expires |-> handoff.expires, status |-> "OPENED", openedAt |-> clock]
  BY <1>2, <1>3, Zenon DEF Open
<1> QED
  BY <1>1, <1>4 DEF HandoffRow

(***************************************************************************)
(* The steps.                                                              *)
(***************************************************************************)
\* The type of command a party's offer is.
OfferType(p) == IF p = "BUYER" THEN "PROPOSE_OFFER" ELSE "COUNTER_OFFER"

\* The type of command an acceptance is.
AcceptType == IF case.state = "OFFERED" THEN "ACCEPT_OFFER" ELSE "ACCEPT_COUNTER"

\* The refusal of evidence: the handler ends without a trace.
Refused(c) ==
  /\ calls[c] # NoCall /\ calls[c].stage = "APPLY"
  /\ calls' = [calls EXCEPT ![c] = NoCall]
  /\ UNCHANGED <<caseVars, dealVars, commands, sellerView, lost, clock>>

\* Every step is an applied command, with what it does to the offers, or one that
\* leaves the case and its log alone.
LEMMA Steps ==
  ASSUME Tables, [Next]_vars
  PROVE  \/ \E c \in Callers, k \in Keys :
              \/ /\ Advance(c, k, "RELEASE_REQUIREMENT", 0)
                 /\ commands' = [commands EXCEPT ![k] = "RELEASE_REQUIREMENT"]
                 /\ UNCHANGED <<dealVars, clock>>
              \/ /\ Advance(c, k, "PUBLISH_EVIDENCE", 0)
                 /\ UNCHANGED <<commands, dealVars, clock>>
              \/ \E p \in Parties, x \in SeenVersions, t \in OfferTerms :
                   /\ ProposeOffer(c, k, p, x, t)
                   /\ Advance(c, k, OfferType(p), Len(offers) + 1)
                   /\ commands' = [commands EXCEPT ![k] = OfferType(p)]
                   /\ UNCHANGED <<approval, handoff, clock>>
              \/ \E p \in Parties, x \in SeenVersions, n \in DOMAIN offers :
                   /\ AcceptOffer(c, k, p, x, n)
                   /\ Advance(c, k, AcceptType, n)
                   /\ commands' = [commands EXCEPT ![k] = AcceptType]
                   /\ UNCHANGED <<dealVars, clock>>
              \/ \E x \in SeenVersions, n \in DOMAIN offers, t \in ApprovalTerms :
                   /\ ApproveOffer(c, k, x, n, t)
                   /\ Advance(c, k, "APPROVE_HANDOFF", n)
                   /\ commands' = [commands EXCEPT ![k] = "APPROVE_HANDOFF"]
                   /\ UNCHANGED <<handoff, clock>>
              \/ \E x \in SeenVersions : AppendEvidence(c, k, x)
         \/ \E c \in Callers : Refused(c) \/ PublishSeller(c) \/ StopHandler(c)
         \/ \E x \in SeenVersions, n \in DOMAIN offers : CreateHandoff(x, n)
         \/ OpenHandoff
         \/ Tick
         \/ UNCHANGED vars
<1>1. \A k \in ClientKeys : k \in Keys
  BY DEF ClientKeys
<1>2. ASSUME NEW c \in Callers, NEW k \in Keys, CreateCase(c, k)
      PROVE  /\ Advance(c, k, "RELEASE_REQUIREMENT", 0)
             /\ commands' = [commands EXCEPT ![k] = "RELEASE_REQUIREMENT"]
             /\ UNCHANGED <<dealVars, clock>>
  BY <1>2, CommandAdvances DEF CreateCase
<1>3. ASSUME NEW c \in Callers, NEW k \in Keys, NEW p \in Parties, NEW x, NEW t,
             ProposeOffer(c, k, p, x, t)
      PROVE  /\ Advance(c, k, OfferType(p), Len(offers) + 1)
             /\ commands' = [commands EXCEPT ![k] = OfferType(p)]
             /\ UNCHANGED <<approval, handoff, clock>>
  <2>1. Command(c, k, OfferType(p), p, x, Len(offers) + 1) /\ UNCHANGED <<approval, handoff>>
    BY <1>3 DEF ProposeOffer, OfferType
  <2> QED
    BY <2>1, CommandAdvances
<1>4. ASSUME NEW c \in Callers, NEW k \in Keys, NEW p \in Parties, NEW x, NEW n,
             AcceptOffer(c, k, p, x, n)
      PROVE  /\ Advance(c, k, AcceptType, n)
             /\ commands' = [commands EXCEPT ![k] = AcceptType]
             /\ UNCHANGED <<dealVars, clock>>
  <2>1. Command(c, k, AcceptType, p, x, n) /\ UNCHANGED dealVars
    BY <1>4 DEF AcceptOffer, AcceptType
  <2> QED
    BY <2>1, CommandAdvances
<1>5. ASSUME NEW c \in Callers, NEW k \in Keys, NEW x, NEW n, NEW t,
             ApproveOffer(c, k, x, n, t)
      PROVE  /\ Advance(c, k, "APPROVE_HANDOFF", n)
             /\ commands' = [commands EXCEPT ![k] = "APPROVE_HANDOFF"]
             /\ UNCHANGED <<handoff, clock>>
  BY <1>5, CommandAdvances DEF ApproveOffer
<1>6. ASSUME NEW c \in Callers, ApplyEvidence(c)
      PROVE  \/ Refused(c)
             \/ \E k \in Keys : /\ Advance(c, k, "PUBLISH_EVIDENCE", 0)
                                /\ UNCHANGED <<commands, dealVars, clock>>
  <2>1. calls[c] # NoCall /\ calls[c].stage = "APPLY"
    BY <1>6 DEF ApplyEvidence
  <2>2. calls[c].key \in Keys
    BY <2>1 DEF Tables, CallRow
  <2>3. CASE /\ Compiles("PUBLISH_EVIDENCE", "SELLER", calls[c].expected)
             /\ Apply(calls[c].key, "PUBLISH_EVIDENCE", 0)
             /\ OweSeller(c, calls[c].key, 0, "PUBLISH_EVIDENCE")
    BY <1>6, <2>1, <2>2, <2>3 DEF ApplyEvidence, Advance, Compiles, InTable
  <2>4. CASE calls' = [calls EXCEPT ![c] = NoCall] /\ UNCHANGED caseVars
    BY <1>6, <2>1, <2>4 DEF ApplyEvidence, Refused
  <2> QED
    BY <1>6, <2>3, <2>4 DEF ApplyEvidence
<1>7. CASE \E c \in Callers, k \in ClientKeys :
             \/ CreateCase(c, k)
             \/ \E x \in SeenVersions :
                  \/ AppendEvidence(c, k, x)
                  \/ \E p \in Parties, t \in OfferTerms : ProposeOffer(c, k, p, x, t)
                  \/ \E p \in Parties, n \in DOMAIN offers : AcceptOffer(c, k, p, x, n)
                  \/ \E n \in DOMAIN offers, t \in ApprovalTerms : ApproveOffer(c, k, x, n, t)
  <2>1. PICK c \in Callers, k \in Keys :
             \/ CreateCase(c, k)
             \/ \E x \in SeenVersions :
                  \/ AppendEvidence(c, k, x)
                  \/ \E p \in Parties, t \in OfferTerms : ProposeOffer(c, k, p, x, t)
                  \/ \E p \in Parties, n \in DOMAIN offers : AcceptOffer(c, k, p, x, n)
                  \/ \E n \in DOMAIN offers, t \in ApprovalTerms : ApproveOffer(c, k, x, n, t)
    BY <1>1, <1>7, Zenon
  <2>2. CASE CreateCase(c, k)
    BY <1>2, <2>2
  <2>3. CASE \E x \in SeenVersions : AppendEvidence(c, k, x)
    BY <2>3
  <2>4. CASE \E x \in SeenVersions, p \in Parties, t \in OfferTerms : ProposeOffer(c, k, p, x, t)
    BY <1>3, <2>4
  <2>5. CASE \E x \in SeenVersions, p \in Parties, n \in DOMAIN offers : AcceptOffer(c, k, p, x, n)
    BY <1>4, <2>5
  <2>6. CASE \E x \in SeenVersions, n \in DOMAIN offers, t \in ApprovalTerms :
               ApproveOffer(c, k, x, n, t)
    BY <1>5, <2>6
  <2> QED
    BY <2>1, <2>2, <2>3, <2>4, <2>5, <2>6, Zenon
<1> QED
  BY <1>6, <1>7, Zenon DEF Next

\* The rows of the exchange keep their types.
LEMMA TypeStep ==
  ASSUME Tables, [Next]_vars
  PROVE  Tables'
<1> USE DEF caseVars, dealVars
<1>1. ASSUME NEW c \in Callers, NEW k \in Keys, NEW type \in CommandTypes, NEW o \in Nat,
             Advance(c, k, type, o)
      PROVE  /\ case' \in CaseRow
             /\ transitions' \in Seq(TransitionRow)
             /\ buyerView' \subseteq ProjectionRow
             /\ sellerView' \subseteq ProjectionRow
             /\ calls' \in [Callers -> {NoCall} \cup CallRow]
  <2>1. /\ case' \in CaseRow /\ transitions' \in Seq(TransitionRow)
        /\ calls' \in [Callers -> {NoCall} \cup CallRow]
        /\ buyerView' = Published(buyerView, case')
    BY <1>1, AdvanceEffect
  <2> QED
    BY <1>1, <2>1 DEF Advance, Published, Tables, ProjectionRow
<1>2. ASSUME NEW k \in Keys, NEW type \in CommandTypes, commands' = [commands EXCEPT ![k] = type]
      PROVE  commands' \in [Keys -> CommandRow]
  BY <1>2 DEF Tables, CommandRow
<1>3. Len(offers) \in Nat /\ DOMAIN offers \subseteq Nat
  BY DEF Tables
<1>4. \A p \in Parties : OfferType(p) \in CommandTypes
  BY SevenCommands DEF OfferType
<1>5. AcceptType \in CommandTypes /\ "APPROVE_HANDOFF" \in CommandTypes
      /\ "RELEASE_REQUIREMENT" \in CommandTypes /\ "PUBLISH_EVIDENCE" \in CommandTypes
  BY SevenCommands DEF AcceptType
<1>6. ASSUME NEW c \in Callers, NEW k \in Keys, Advance(c, k, "RELEASE_REQUIREMENT", 0),
             commands' = [commands EXCEPT ![k] = "RELEASE_REQUIREMENT"],
             UNCHANGED <<dealVars, clock>>
      PROVE  Tables'
  BY <1>1, <1>2, <1>5, <1>6 DEF Tables
<1>7. ASSUME NEW c \in Callers, NEW k \in Keys, Advance(c, k, "PUBLISH_EVIDENCE", 0),
             UNCHANGED <<commands, dealVars, clock>>
      PROVE  Tables'
  BY <1>1, <1>5, <1>7 DEF Tables
<1>8. ASSUME NEW c \in Callers, NEW k \in Keys, NEW p \in Parties, NEW x, NEW t \in OfferTerms,
             ProposeOffer(c, k, p, x, t), Advance(c, k, OfferType(p), Len(offers) + 1),
             commands' = [commands EXCEPT ![k] = OfferType(p)],
             UNCHANGED <<approval, handoff, clock>>
      PROVE  Tables'
  <2>1. OfferVersion(p, clock + t) \in OfferRow
    BY ExchangeAssumption DEF OfferVersion, OfferRow, Tables
  <2>2. offers' \in Seq(OfferRow)
    BY <1>8, <2>1, StoreEffect DEF ProposeOffer
  <2>3. Len(offers) + 1 \in Nat
    BY <1>3
  <2> QED
    BY <1>1, <1>2, <1>4, <1>8, <2>2, <2>3 DEF Tables
<1>9. ASSUME NEW c \in Callers, NEW k \in Keys, NEW n \in DOMAIN offers,
             Advance(c, k, AcceptType, n),
             commands' = [commands EXCEPT ![k] = AcceptType], UNCHANGED <<dealVars, clock>>
      PROVE  Tables'
  BY <1>1, <1>2, <1>3, <1>5, <1>9 DEF Tables
<1>10. ASSUME NEW c \in Callers, NEW k \in Keys, NEW x, NEW n \in DOMAIN offers,
              NEW t \in ApprovalTerms,
              ApproveOffer(c, k, x, n, t), Advance(c, k, "APPROVE_HANDOFF", n),
              commands' = [commands EXCEPT ![k] = "APPROVE_HANDOFF"], UNCHANGED <<handoff, clock>>
       PROVE  Tables'
  <2>1. offers' \in Seq(OfferRow) /\ approval' \in ApprovalRow
    BY <1>10, StoreApprovalEffect DEF ApproveOffer
  <2> QED
    BY <1>1, <1>2, <1>3, <1>5, <1>10, <2>1 DEF Tables
<1>11. ASSUME NEW c \in Callers, NEW k \in Keys, NEW x \in SeenVersions, AppendEvidence(c, k, x)
       PROVE  Tables'
  <2>1. x \in Nat
    BY DEF SeenVersions, Tables, ProjectionRow, CaseRow
  <2>2. NewCase \in ProjectionRow
    BY DEF NewCase, ProjectionRow, CaseRow, States
  <2>3. [key |-> k, stage |-> "APPLY", expected |-> x, projection |-> NewCase] \in CallRow
    BY <2>1, <2>2 DEF CallRow
  <2>4. calls' \in [Callers -> {NoCall} \cup CallRow]
    BY <1>11, <2>3 DEF AppendEvidence, Tables
  <2>5. commands' \in [Keys -> CommandRow]
    BY <1>2, <1>5, <1>11 DEF AppendEvidence
  <2> QED
    BY <1>11, <2>4, <2>5 DEF AppendEvidence, Tables
<1>12. ASSUME NEW c \in Callers, calls' = [calls EXCEPT ![c] = NoCall]
       PROVE  calls' \in [Callers -> {NoCall} \cup CallRow]
  BY <1>12 DEF Tables
<1>13. ASSUME NEW c \in Callers, Refused(c) \/ StopHandler(c) PROVE Tables'
  BY <1>12, <1>13 DEF Refused, StopHandler, Tables
<1>14. ASSUME NEW c \in Callers, PublishSeller(c) PROVE Tables'
  <2>1. calls[c].projection \in ProjectionRow
    BY <1>14 DEF PublishSeller, Tables, CallRow
  <2>2. sellerView' \subseteq ProjectionRow
    BY <1>14, <2>1 DEF PublishSeller, Published, Tables
  <2> QED
    BY <1>12, <1>14, <2>2 DEF PublishSeller, Tables
<1>15. ASSUME NEW x, NEW n \in DOMAIN offers, CreateHandoff(x, n) PROVE Tables'
  BY <1>15, StoreHandoffEffect DEF CreateHandoff, Tables
<1>16. CASE OpenHandoff
  BY <1>16, OpenEffect DEF OpenHandoff, Tables
<1>17. CASE Tick
  BY <1>17, ExchangeAssumption DEF Tick, Tables
<1>18. CASE UNCHANGED vars
  BY <1>18 DEF vars, Tables
<1> HIDE DEF caseVars, dealVars
<1> QED
  BY <1>6, <1>7, <1>8, <1>9, <1>10, <1>11, <1>13, <1>14, <1>15, <1>16, <1>17, <1>18, Steps

(***************************************************************************)
(* The history of the case.                                                *)
(***************************************************************************)
\* The steps that concern the history of the case and who was shown it.
LEMMA HistorySteps ==
  ASSUME Tables, [Next]_vars
  PROVE  \/ \E c \in Callers, k \in Keys, type \in CommandTypes, o \in Nat :
              Advance(c, k, type, o)
         \/ \E c \in Callers, k \in Keys, x \in SeenVersions : AppendEvidence(c, k, x)
         \/ \E c \in Callers : Refused(c) \/ PublishSeller(c) \/ StopHandler(c)
         \/ UNCHANGED <<caseVars, sellerView, calls, lost>>
<1>1. Len(offers) + 1 \in Nat /\ DOMAIN offers \subseteq Nat
  BY DEF Tables
<1>2. /\ \A p \in Parties : OfferType(p) \in CommandTypes
      /\ AcceptType \in CommandTypes /\ "APPROVE_HANDOFF" \in CommandTypes
      /\ "RELEASE_REQUIREMENT" \in CommandTypes /\ "PUBLISH_EVIDENCE" \in CommandTypes
  BY SevenCommands DEF OfferType, AcceptType
<1>3. ASSUME NEW x, NEW n, CreateHandoff(x, n) PROVE UNCHANGED <<caseVars, sellerView, calls, lost>>
  BY <1>3 DEF CreateHandoff
<1>4. ASSUME OpenHandoff \/ Tick \/ UNCHANGED vars
      PROVE  UNCHANGED <<caseVars, sellerView, calls, lost>>
  BY <1>4 DEF OpenHandoff, Tick, vars, caseVars
<1> QED
  BY <1>1, <1>2, <1>3, <1>4, Steps

\* The log, the views and the debts to the seller stay true.
LEMMA HistoryStep ==
  ASSUME Tables, HistoryInv, [Next]_vars
  PROVE  HistoryInv'
<1> USE DEF HistoryInv, PartiesSeeHistory, caseVars
<1>a. /\ Len(transitions) \in Nat /\ DOMAIN transitions = 1 .. Len(transitions)
      /\ case.version \in Nat /\ case.version = Len(transitions) + 1
      /\ \A v \in buyerView : v \in CaseRow /\ v.version \in Nat /\ v.version <= case.version
      /\ \A c \in Callers : calls[c] # NoCall => calls[c] \in CallRow
  BY DEF Tables, CaseRow, ProjectionRow, LogExplainsCase, ViewsAreTrue
<1>1. ASSUME NEW c \in Callers, NEW k \in Keys, NEW type \in CommandTypes, NEW o \in Nat,
             Advance(c, k, type, o)
      PROVE  HistoryInv'
  <2>1. /\ case' \in CaseRow /\ case'.version = case.version + 1
        /\ transitions' \in Seq(TransitionRow) /\ Len(transitions') = Len(transitions) + 1
        /\ \A i \in 1 .. Len(transitions) :
             transitions'[i] = transitions[i] /\ transitions[i].command # k
        /\ transitions'[Len(transitions) + 1].command = k
        /\ transitions'[Len(transitions) + 1].from = case.state
        /\ transitions'[Len(transitions) + 1].to = case'.state
    BY <1>1, AdvanceEffect
  <2>2. /\ buyerView' = Published(buyerView, case')
        /\ calls'[c] # NoCall /\ calls'[c].stage = "PUBLISH"
        /\ calls'[c].projection = case' /\ calls'[c].expected = case.version
        /\ \A d \in Callers : d # c => calls'[d] = calls[d]
    BY <1>1, AdvanceEffect
  <2>3. /\ UNCHANGED <<sellerView, lost>>
        /\ calls[c] # NoCall => calls[c].stage = "APPLY"
    BY <1>1 DEF Advance
  <2>4. buyerView' = buyerView \cup {case'}
    BY <1>a, <2>1, <2>2 DEF Published
  <2>5. DOMAIN transitions' = 1 .. Len(transitions) + 1
    BY <2>1
  <2>6. LogExplainsCase'
    <3>1. case'.version = Len(transitions') + 1
      BY <1>a, <2>1
    <3>2. \A i \in DOMAIN transitions' :
            transitions'[i].from = IF i = 1 THEN "CREATED" ELSE transitions'[i - 1].to
      <4>1. ASSUME NEW i \in 1 .. Len(transitions)
            PROVE  transitions'[i].from = IF i = 1 THEN "CREATED" ELSE transitions'[i - 1].to
        BY <1>a, <2>1 DEF LogExplainsCase
      <4>2. transitions'[Len(transitions) + 1].from =
              IF Len(transitions) + 1 = 1 THEN "CREATED" ELSE transitions'[Len(transitions)].to
        <5>1. transitions = <<>> <=> Len(transitions) = 0
          BY DEF Tables
        <5> QED
          BY <1>a, <2>1, <5>1 DEF LogReachesCase
      <4> QED
        BY <1>a, <2>5, <4>1, <4>2
    <3>3. \A i, j \in DOMAIN transitions' :
            transitions'[i].command = transitions'[j].command => i = j
      BY <1>a, <2>1, <2>5 DEF LogExplainsCase
    <3> QED
      BY <3>1, <3>2, <3>3 DEF LogExplainsCase
  <2>7. ViewsAreTrue'
    BY <1>a, <2>1, <2>3, <2>4 DEF ViewsAreTrue
  <2>8. SellerLagsOnlyByLoss'
    BY <2>2, <2>3, <2>4 DEF SellerLagsOnlyByLoss
  <2>9. LogReachesCase'
    BY <1>a, <2>1 DEF LogReachesCase
  <2>10. Owed'
    <3>1. calls'[c].projection \in buyerView' /\ calls'[c].projection.version \in 1 .. case'.version
      BY <1>a, <2>1, <2>2, <2>4
    <3>2. calls'[c].expected <= case'.version
      BY <1>a, <2>1, <2>2
    <3>3. ASSUME NEW d \in Callers, d # c, calls'[d] # NoCall
          PROVE  /\ calls'[d].expected <= case'.version
                 /\ calls'[d].stage = "PUBLISH" =>
                      /\ calls'[d].projection \in buyerView'
                      /\ calls'[d].projection.version \in 1 .. case'.version
      <4>1. calls'[d] = calls[d] /\ calls[d] # NoCall /\ calls[d].expected \in Nat
        BY <1>a, <2>2, <3>3 DEF CallRow
      <4> QED
        BY <1>a, <2>1, <2>4, <4>1 DEF Owed
    <3> QED
      BY <3>1, <3>2, <3>3 DEF Owed
  <2>11. LostVersions'
    BY <1>a, <2>1, <2>3 DEF LostVersions
  <2> QED
    BY <2>6, <2>7, <2>8, <2>9, <2>10, <2>11
<1>2. ASSUME NEW c \in Callers, NEW k \in Keys, NEW x \in SeenVersions, AppendEvidence(c, k, x)
      PROVE  HistoryInv'
  <2> DEFINE row == [key |-> k, stage |-> "APPLY", expected |-> x, projection |-> NewCase]
  <2>1. /\ UNCHANGED <<case, transitions, buyerView, sellerView, lost>>
        /\ calls[c] = NoCall /\ calls' = [calls EXCEPT ![c] = row]
    BY <1>2 DEF AppendEvidence
  <2>2. x <= case.version
    BY <1>a DEF SeenVersions
  <2>3. row.stage = "APPLY" /\ row.expected = x
    OBVIOUS
  <2> HIDE DEF row
  <2>4. calls'[c] = row /\ \A d \in Callers : d # c => calls'[d] = calls[d]
    BY <2>1 DEF Tables
  <2>5. SellerLagsOnlyByLoss'
    BY <2>1, <2>4 DEF SellerLagsOnlyByLoss
  <2>6. Owed'
    BY <2>1, <2>2, <2>3, <2>4 DEF Owed
  <2> QED
    BY <2>1, <2>5, <2>6 DEF LogExplainsCase, ViewsAreTrue, LogReachesCase, LostVersions
<1>3. ASSUME NEW c \in Callers, calls' = [calls EXCEPT ![c] = NoCall], UNCHANGED caseVars
      PROVE  /\ calls'[c] = NoCall /\ \A d \in Callers : d # c => calls'[d] = calls[d]
             /\ LogExplainsCase' /\ LogReachesCase' /\ Owed'
  <2>1. calls'[c] = NoCall /\ \A d \in Callers : d # c => calls'[d] = calls[d]
    BY <1>3 DEF Tables
  <2> QED
    BY <1>3, <2>1 DEF LogExplainsCase, LogReachesCase, Owed
<1>4. ASSUME NEW c \in Callers, Refused(c) PROVE HistoryInv'
  <2>1. /\ calls[c].stage = "APPLY" /\ calls' = [calls EXCEPT ![c] = NoCall]
        /\ UNCHANGED <<caseVars, sellerView, lost>>
    BY <1>4 DEF Refused
  <2>2. SellerLagsOnlyByLoss'
    BY <1>3, <2>1 DEF SellerLagsOnlyByLoss
  <2> QED
    BY <1>3, <2>1, <2>2 DEF ViewsAreTrue, LostVersions
<1>5. ASSUME NEW c \in Callers, PublishSeller(c) PROVE HistoryInv'
  <2> DEFINE p == calls[c].projection
  <2>1. /\ calls[c] # NoCall /\ calls[c].stage = "PUBLISH"
        /\ sellerView' = Published(sellerView, p)
        /\ calls' = [calls EXCEPT ![c] = NoCall]
        /\ UNCHANGED <<caseVars, lost>>
    BY <1>5 DEF PublishSeller
  <2>2. p \in buyerView
    BY <2>1 DEF Owed
  <2>3. sellerView' = sellerView \cup {p}
    BY <2>1, <2>2 DEF Published, ViewsAreTrue
  <2>4. ViewsAreTrue'
    BY <2>1, <2>2, <2>3 DEF ViewsAreTrue
  <2>5. SellerLagsOnlyByLoss'
    BY <1>3, <2>1, <2>3 DEF SellerLagsOnlyByLoss
  <2> QED
    BY <1>3, <2>1, <2>4, <2>5 DEF LostVersions
<1>6. ASSUME NEW c \in Callers, StopHandler(c) PROVE HistoryInv'
  <2>1. /\ calls[c] # NoCall /\ calls' = [calls EXCEPT ![c] = NoCall]
        /\ lost' = IF calls[c].stage = "PUBLISH" THEN lost \cup {calls[c].projection.version}
                   ELSE lost
        /\ UNCHANGED <<caseVars, sellerView>>
    BY <1>6 DEF StopHandler
  <2>2. LostVersions'
    BY <2>1 DEF LostVersions, Owed
  <2>3. SellerLagsOnlyByLoss'
    BY <1>3, <2>1 DEF SellerLagsOnlyByLoss
  <2> QED
    BY <1>3, <2>1, <2>2, <2>3 DEF ViewsAreTrue
<1>7. CASE UNCHANGED <<caseVars, sellerView, calls, lost>>
  BY <1>7 DEF LogExplainsCase, ViewsAreTrue, SellerLagsOnlyByLoss, LogReachesCase, Owed,
     LostVersions
<1> HIDE DEF HistoryInv
<1> QED
  BY <1>1, <1>2, <1>4, <1>5, <1>6, <1>7, HistorySteps

(***************************************************************************)
(* The deal.                                                               *)
(***************************************************************************)
\* A command that is not an offer keeps an agreement on unchanged proposers.
LEMMA AgreementKept ==
  ASSUME Tables, Agreement,
         transitions' \in Seq(TransitionRow), Len(transitions') = Len(transitions) + 1,
         \A i \in 1 .. Len(transitions) : transitions'[i] = transitions[i],
         transitions'[Len(transitions) + 1].type \notin {"PROPOSE_OFFER", "COUNTER_OFFER"},
         Len(offers') = Len(offers), offers'[Len(offers)].proposer = offers[Len(offers)].proposer
  PROVE  Agreement'
<1>1. /\ DOMAIN transitions = 1 .. Len(transitions) /\ Len(transitions) \in Nat
      /\ DOMAIN transitions' = 1 .. Len(transitions) + 1
  BY DEF Tables
<1>2. PICK i \in 1 .. Len(transitions) :
        /\ transitions[i].type \in {"ACCEPT_OFFER", "ACCEPT_COUNTER"}
        /\ Owner[transitions[i].type] = Other(offers[Len(offers)].proposer)
        /\ \A j \in DOMAIN transitions :
             transitions[j].type \in {"PROPOSE_OFFER", "COUNTER_OFFER"} => j < i
  BY <1>1 DEF Agreement
<1>3. i \in DOMAIN transitions' /\ transitions'[i] = transitions[i]
  BY <1>1
<1>4. \A j \in DOMAIN transitions' :
        transitions'[j].type \in {"PROPOSE_OFFER", "COUNTER_OFFER"} => j < i
  BY <1>1, <1>2, SMTT(20)
<1> QED
  BY <1>2, <1>3, <1>4 DEF Agreement, Other

\* The deal follows the state of the case.
LEMMA DealStep ==
  ASSUME Tables, DealInv, [Next]_vars
  PROVE  DealInv'
<1> USE DEF caseVars, dealVars
<1>a. /\ Len(offers) \in Nat /\ DOMAIN offers = 1 .. Len(offers)
      /\ Len(transitions) \in Nat /\ DOMAIN transitions = 1 .. Len(transitions)
      /\ \A n \in DOMAIN offers : offers[n] \in OfferRow
  BY DEF Tables
<1>b. Len(offers) + 1 \in Nat /\ DOMAIN offers \subseteq Nat
  BY <1>a
<1>1. ASSUME NEW c \in Callers, NEW k \in Keys, NEW type \in CommandTypes,
             type \in {"RELEASE_REQUIREMENT", "PUBLISH_EVIDENCE"},
             Advance(c, k, type, 0), UNCHANGED dealVars
      PROVE  DealInv'
  <2>1. <<case.state, type, case'.state>> \in Transitions
    BY <1>1, AdvanceEffect
  <2>2. /\ case.state \in {"CREATED", "REQUIREMENT_RELEASED"}
        /\ case'.state \in {"REQUIREMENT_RELEASED", "EVIDENCE_RELEASED"}
    BY <1>1, <2>1, TableRows
  <2> QED
    BY <1>1, <2>2 DEF DealInv, HandoffWithinAuthority
<1>2. ASSUME NEW c \in Callers, NEW k \in Keys, NEW p \in Parties, NEW x, NEW t \in OfferTerms,
             ProposeOffer(c, k, p, x, t), Advance(c, k, OfferType(p), Len(offers) + 1),
             UNCHANGED <<approval, handoff>>
      PROVE  DealInv'
  <2>1. OfferType(p) \in {"PROPOSE_OFFER", "COUNTER_OFFER"} /\ OfferType(p) \in CommandTypes
    BY SevenCommands DEF OfferType
  <2>2. <<case.state, OfferType(p), case'.state>> \in Transitions
    BY <1>2, <1>b, <2>1, AdvanceEffect
  <2>3. \/ case.state = "EVIDENCE_RELEASED" /\ case'.state = "OFFERED"
        \/ case.state = "OFFERED" /\ case'.state = "COUNTERED"
    BY <2>1, <2>2, TableRows
  <2>4. OfferVersion(p, clock + t) \in OfferRow /\ OfferVersion(p, clock + t).status = "PENDING"
    BY ExchangeAssumption DEF OfferVersion, OfferRow, Tables
  <2>5. /\ Len(offers') = Len(offers) + 1
        /\ offers'[Len(offers) + 1].status = "PENDING"
    BY <1>2, <2>4, StoreEffect DEF ProposeOffer
  <2>6. handoff' = NoHandoff /\ approval' = NoApproval
    BY <1>2, <2>3 DEF DealInv
  <2> QED
    BY <1>a, <2>3, <2>5, <2>6 DEF DealInv, HandoffWithinAuthority
<1>3. ASSUME NEW c \in Callers, NEW k \in Keys, NEW p \in Parties, NEW x, NEW n \in DOMAIN offers,
             AcceptOffer(c, k, p, x, n), Advance(c, k, AcceptType, n), UNCHANGED dealVars
      PROVE  DealInv'
  <2>1. AcceptType \in {"ACCEPT_OFFER", "ACCEPT_COUNTER"} /\ AcceptType \in CommandTypes
    BY SevenCommands DEF AcceptType
  <2>2. /\ <<case.state, AcceptType, case'.state>> \in Transitions
        /\ transitions' \in Seq(TransitionRow) /\ Len(transitions') = Len(transitions) + 1
        /\ transitions'[Len(transitions) + 1].type = AcceptType
    BY <1>3, <1>b, <2>1, AdvanceEffect
  <2>3. /\ case.state \in {"OFFERED", "COUNTERED"}
        /\ case'.state = "AGREED_PENDING_APPROVAL"
    BY <2>1, <2>2, TableRows
  <2>4. Owner[AcceptType] = Other(offers[Len(offers)].proposer)
    BY <1>3 DEF AcceptOffer, Actionable, Command, Compiles, AcceptType
  <2>5. Agreement'
    <3> DEFINE i == Len(transitions) + 1
    <3>1. DOMAIN transitions' = 1 .. i
      BY <2>2
    <3>2. i \in DOMAIN transitions' /\ transitions'[i].type = AcceptType
      BY <1>a, <2>2, <3>1
    <3>3. \A j \in DOMAIN transitions' :
            transitions'[j].type \in {"PROPOSE_OFFER", "COUNTER_OFFER"} => j < i
      BY <1>a, <2>1, <3>1, <3>2
    <3>4. offers' = offers
      BY <1>3
    <3> HIDE DEF i
    <3> QED
      BY <2>1, <2>4, <3>2, <3>3, <3>4 DEF Agreement, Other
  <2> QED
    BY <1>3, <1>a, <2>3, <2>5 DEF DealInv, HandoffWithinAuthority
<1>4. ASSUME NEW c \in Callers, NEW k \in Keys, NEW x, NEW n \in DOMAIN offers,
             NEW t \in ApprovalTerms,
             ApproveOffer(c, k, x, n, t), Advance(c, k, "APPROVE_HANDOFF", n), UNCHANGED handoff
      PROVE  DealInv'
  <2>1. "APPROVE_HANDOFF" \in CommandTypes
    BY SevenCommands
  <2>2. /\ <<case.state, "APPROVE_HANDOFF", case'.state>> \in Transitions
        /\ transitions' \in Seq(TransitionRow) /\ Len(transitions') = Len(transitions) + 1
        /\ \A i \in 1 .. Len(transitions) : transitions'[i] = transitions[i]
        /\ transitions'[Len(transitions) + 1].type = "APPROVE_HANDOFF"
    BY <1>4, <1>b, <2>1, AdvanceEffect
  <2>3. case.state = "AGREED_PENDING_APPROVAL" /\ case'.state = "APPROVED_FOR_HANDOFF"
    BY <2>2, TableRows
  <2>4. StoreApproval(n, t) /\ n = Len(offers)
    BY <1>4 DEF ApproveOffer, StoreApproval, Authorizes
  <2>5. /\ Len(offers') = Len(offers) /\ approval'.offer = n
        /\ offers'[n].status = "APPROVED" /\ offers'[n].proposer = offers[n].proposer
    BY <1>a, <2>4, StoreApprovalEffect
  <2>6. Agreement'
    <3>1. Agreement
      BY <2>3 DEF DealInv
    <3>2. transitions'[Len(transitions) + 1].type \notin {"PROPOSE_OFFER", "COUNTER_OFFER"}
      BY <2>2
    <3> QED
      BY <2>2, <2>4, <2>5, <3>1, <3>2, AgreementKept
  <2>7. handoff' = NoHandoff
    BY <1>4, <2>3 DEF DealInv
  <2> QED
    BY <1>a, <2>3, <2>4, <2>5, <2>6, <2>7 DEF DealInv, HandoffWithinAuthority
<1>5. ASSUME UNCHANGED <<case, transitions, dealVars>> PROVE DealInv'
  BY <1>5 DEF DealInv, Agreement, HandoffWithinAuthority
<1>6. ASSUME NEW c \in Callers, NEW k \in Keys, NEW x, AppendEvidence(c, k, x) PROVE DealInv'
  BY <1>5, <1>6 DEF AppendEvidence
<1>7. ASSUME NEW c \in Callers, Refused(c) \/ PublishSeller(c) \/ StopHandler(c) PROVE DealInv'
  BY <1>5, <1>7 DEF Refused, PublishSeller, StopHandler
<1>8. ASSUME NEW x, NEW n \in DOMAIN offers, CreateHandoff(x, n) PROVE DealInv'
  <2>1. /\ UNCHANGED <<case, transitions, offers, approval>>
        /\ case.state = "APPROVED_FOR_HANDOFF" /\ approval.offer = n /\ StoreHandoff(n)
    BY <1>8 DEF CreateHandoff
  <2>2. /\ handoff'.offer = n /\ handoff'.status = "READY"
        /\ handoff'.expires <= offers[n].expires /\ handoff'.expires <= approval.expires
    BY <2>1, StoreHandoffEffect
  <2>3. handoff'.expires <= Min({offers[n].expires, approval.expires})
    <3>1. offers[n].expires \in Nat /\ approval.expires \in Nat
      BY <1>a DEF Tables, OfferRow, ApprovalRow
    <3> QED
      BY <2>2, <3>1, MinOfTwo
  <2>4. HandoffWithinAuthority'
    BY <2>1, <2>2, <2>3 DEF HandoffWithinAuthority
  <2> QED
    BY <2>1, <2>4 DEF DealInv, Agreement
<1>9. CASE OpenHandoff
  <2>1. /\ UNCHANGED <<case, transitions, offers, approval>> /\ handoff # NoHandoff
        /\ clock < handoff.expires /\ Open
    BY <1>9 DEF OpenHandoff, Open
  <2>2. /\ handoff'.offer = handoff.offer /\ handoff'.expires = handoff.expires
        /\ handoff'.status = "OPENED" /\ handoff'.openedAt = clock
    BY <2>1, OpenEffect
  <2>3. HandoffWithinAuthority'
    BY <2>1, <2>2 DEF HandoffWithinAuthority, DealInv
  <2> QED
    BY <2>1, <2>3 DEF DealInv, Agreement
<1>10. CASE Tick \/ UNCHANGED vars
  BY <1>5, <1>10 DEF Tick, vars
<1> HIDE DEF caseVars, dealVars, DealInv
<1>11. "RELEASE_REQUIREMENT" \in CommandTypes /\ "PUBLISH_EVIDENCE" \in CommandTypes
  BY SevenCommands
<1> QED
  BY <1>1, <1>2, <1>3, <1>4, <1>6, <1>7, <1>8, <1>9, <1>10, <1>11, Steps

\* A new case is in the invariant.
LEMMA InitInv == Init => Inv
<1> SUFFICES ASSUME Init PROVE Inv
  OBVIOUS
<1>1. Tables
  <2>1. NewCase \in CaseRow /\ NoApproval \in ApprovalRow /\ NoHandoff \in HandoffRow
    BY DEF NewCase, CaseRow, States, NoApproval, ApprovalRow, NoHandoff, HandoffRow
  <2> QED
    BY <2>1, ExchangeAssumption DEF Init, Tables, CommandRow
<1>2. /\ transitions = <<>> /\ offers = <<>> /\ Len(<<>>) = 0 /\ DOMAIN <<>> = {}
      /\ buyerView = {} /\ sellerView = {} /\ lost = {}
      /\ case.state = "CREATED" /\ case.version = 1
      /\ \A c \in Callers : calls[c] = NoCall
      /\ approval = NoApproval /\ handoff = NoHandoff
  BY DEF Init, NewCase
<1>3. HistoryInv
  BY <1>2 DEF HistoryInv, PartiesSeeHistory, LogExplainsCase, ViewsAreTrue, SellerLagsOnlyByLoss,
     LogReachesCase, Owed, LostVersions
<1>4. DealInv
  BY <1>2 DEF DealInv, HandoffWithinAuthority
<1> QED
  BY <1>1, <1>3, <1>4 DEF Inv

\* Every transaction preserves it.
LEMMA InvStep == Inv /\ [Next]_vars => Inv'
  BY TypeStep, HistoryStep, DealStep DEF Inv

\* Every reachable state of the exchange is in the invariant.
THEOREM Invariance == Spec => []Inv
  BY InitInv, InvStep, PTL DEF Spec

(***************************************************************************)
(* The theorems.                                                           *)
(***************************************************************************)
\* The rows of the exchange have their types; no handler under way is ahead of
\* the case, and what was lost are versions it had.
THEOREM TypeCorrect == Spec => []ExchangeTypeOK
<1>1. Inv => ExchangeTypeOK
  BY DEF Inv, Tables, HistoryInv, Owed, LostVersions, ExchangeTypeOK
<1> QED
  BY <1>1, Invariance, PTL

\* The log explains the case, both parties read states it really had, and a
\* version the seller lacks is on its way or was lost with its handler.
THEOREM HistoryIsShown == Spec => []PartiesSeeHistory
<1>1. Inv => PartiesSeeHistory
  BY DEF Inv, HistoryInv
<1> QED
  BY <1>1, Invariance, PTL

\* An approval stands for the newest offer, which one party made and the other
\* accepted; a handoff stands on it and within its terms.
THEOREM PaymentIsAgreed == Spec => []PaymentBindsAgreement
<1>1. Inv => PaymentBindsAgreement
  <2> SUFFICES ASSUME Inv PROVE PaymentBindsAgreement
    OBVIOUS
  <2>1. ASSUME approval # NoApproval PROVE approval.offer = Len(offers) /\ Agreement
    BY <2>1 DEF Inv, DealInv
  <2> QED
    BY <2>1 DEF Inv, DealInv, PaymentBindsAgreement, ApprovalBindsAgreement, Agreement
<1> QED
  BY <1>1, Invariance, PTL

(***************************************************************************)
(* The exchange implements PaymentAuthority.                               *)
(***************************************************************************)
\* Every step gives, spends or withdraws one authority, or leaves all alone.
LEMMA AuthorityStep ==
  ASSUME Inv, [Next]_vars
  PROVE  [Authority!Next]_([n \in {1, 2} |-> Grant(n)])
<1> USE DEF dealVars
<1> DEFINE g    == [n \in {1, 2} |-> Grant(n)]
           Goal == [Authority!Next]_g
<1>a. Tables /\ DealInv
  BY DEF Inv
<1>b. /\ Len(offers) \in Nat /\ DOMAIN offers = 1 .. Len(offers) /\ Len(offers) <= 2
      /\ Len(offers) + 1 \in Nat /\ DOMAIN offers \subseteq Nat
  BY <1>a DEF Tables, DealInv
<1>c. NoApproval.offer = 0 /\ NoHandoff.offer = 0
  BY DEF NoApproval, NoHandoff
<1>1. ASSUME UNCHANGED dealVars PROVE Goal
  BY <1>1 DEF Grant
<1>2. ASSUME NEW c \in Callers, NEW k \in Keys, NEW p \in Parties, NEW x, NEW t \in OfferTerms,
             ProposeOffer(c, k, p, x, t), UNCHANGED <<approval, handoff>>
      PROVE  Goal
  <2>1. OfferVersion(p, clock + t) \in OfferRow /\ OfferVersion(p, clock + t).status = "PENDING"
    BY <1>a, ExchangeAssumption DEF OfferVersion, OfferRow, Tables
  <2>2. /\ offers' \in Seq(OfferRow) /\ Len(offers') = Len(offers) + 1
        /\ offers'[Len(offers) + 1].status = "PENDING"
        /\ \A i \in 1 .. Len(offers) : offers'[i].status = "SUPERSEDED"
    BY <1>2, <1>a, <2>1, StoreEffect DEF ProposeOffer
  <2>3. DOMAIN offers' = 1 .. Len(offers) + 1
    BY <2>2
  <2>4. /\ approval.offer = 0 /\ handoff.offer = 0 /\ approval'.offer = 0 /\ handoff'.offer = 0
        /\ Len(offers) = IF p = "BUYER" THEN 0 ELSE 1
    BY <1>2, <1>a, <1>c DEF ProposeOffer, DealInv
  <2>5. CASE Len(offers) = 0
    <3>1. \A n \in {1, 2} : Grant(n) = "none" /\ Grant(n)' = "none"
      BY <1>b, <2>2, <2>3, <2>4, <2>5 DEF Grant
    <3> QED
      BY <3>1
  <2>6. CASE Len(offers) = 1
    <3>1. offers[1].status # "SUPERSEDED"
      BY <1>a, <2>6 DEF DealInv
    <3>2. /\ Grant(1) = "none" /\ Grant(1)' = "withdrawn"
          /\ Grant(2) = "none" /\ Grant(2)' = "none"
      <4>1. /\ 1 \in DOMAIN offers /\ 2 \notin DOMAIN offers
            /\ 1 \in DOMAIN offers' /\ 2 \in DOMAIN offers'
            /\ offers'[1].status = "SUPERSEDED" /\ offers'[2].status = "PENDING"
        BY <1>b, <2>2, <2>3, <2>6
      <4> QED
        BY <2>4, <3>1, <4>1 DEF Grant
    <3>3. Authority!Withdraw({1})
      BY <3>2 DEF Authority!Withdraw
    <3> QED
      BY <3>3 DEF Authority!Next
  <2> QED
    BY <2>4, <2>5, <2>6
<1>3. ASSUME NEW c \in Callers, NEW k \in Keys, NEW x, NEW n \in DOMAIN offers,
             NEW t \in ApprovalTerms,
             ApproveOffer(c, k, x, n, t), Advance(c, k, "APPROVE_HANDOFF", n), UNCHANGED handoff
      PROVE  Goal
  <2>1. case.state = "AGREED_PENDING_APPROVAL"
    <3>1. <<case.state, "APPROVE_HANDOFF", case'.state>> \in Transitions
      BY <1>3, <1>a, <1>b, AdvanceEffect, SevenCommands
    <3> QED
      BY <3>1, TableRows
  <2>2. approval.offer = 0 /\ handoff.offer = 0
    BY <1>a, <1>c, <2>1 DEF DealInv
  <2>3. StoreApproval(n, t) /\ n = Len(offers)
    BY <1>3 DEF ApproveOffer, StoreApproval, Authorizes
  <2>4. /\ offers' \in Seq(OfferRow) /\ Len(offers') = Len(offers) /\ approval'.offer = n
        /\ \A i \in 1 .. Len(offers) : i # n => offers'[i] = offers[i]
    BY <1>a, <2>3, StoreApprovalEffect
  <2>5. DOMAIN offers' = DOMAIN offers
    BY <1>b, <2>4
  <2>6. n \in {1, 2} /\ offers[n].status # "SUPERSEDED"
    BY <1>a, <1>b, <2>3 DEF DealInv
  <2>7. Grant(n) = "none" /\ Grant(n)' = "granted"
    BY <1>3, <1>b, <2>2, <2>4, <2>5, <2>6 DEF Grant
  <2>8. \A m \in {1, 2} : m # n => Grant(m)' = Grant(m)
    BY <1>3, <1>b, <2>2, <2>4, <2>5 DEF Grant
  <2>9. g[n] = "none" /\ g' = [g EXCEPT ![n] = "granted"]
    BY <2>6, <2>7, <2>8
  <2>10. Authority!Give(n)
    BY <2>9 DEF Authority!Give
  <2> QED
    BY <2>6, <2>10 DEF Authority!Next
<1>4. ASSUME NEW x, NEW n \in DOMAIN offers, CreateHandoff(x, n) PROVE Goal
  <2>1. /\ UNCHANGED <<offers, approval>> /\ StoreHandoff(n) /\ handoff = NoHandoff
    BY <1>4 DEF CreateHandoff, StoreHandoff
  <2>2. handoff'.status = "READY"
    BY <1>a, <2>1, StoreHandoffEffect
  <2>3. handoff.status = "READY"
    BY <2>1 DEF NoHandoff
  <2> QED
    BY <2>1, <2>2, <2>3 DEF Grant
<1>5. ASSUME OpenHandoff PROVE Goal
  <2> DEFINE n == handoff.offer
  <2>1. /\ UNCHANGED <<offers, approval>> /\ Open
        /\ handoff # NoHandoff /\ handoff.status = "READY"
    BY <1>5 DEF OpenHandoff, Open
  <2>2. case.state = "APPROVED_FOR_HANDOFF"
    BY <1>a, <2>1 DEF DealInv
  <2>3. n = approval.offer /\ n = Len(offers) /\ Len(offers) > 0
    BY <1>a, <2>1, <2>2 DEF DealInv, HandoffWithinAuthority
  <2>4. handoff'.offer = n /\ handoff'.status = "OPENED"
    BY <1>a, <2>1, OpenEffect
  <2>5. n \in {1, 2} /\ n \in DOMAIN offers
    BY <1>b, <2>3
  <2>6. g[n] = "granted" /\ g' = [g EXCEPT ![n] = "spent"]
    BY <2>1, <2>3, <2>4, <2>5 DEF Grant
  <2>7. Authority!Spend(n)
    BY <2>6 DEF Authority!Spend
  <2> QED
    BY <2>5, <2>7 DEF Authority!Next
<1>6. ASSUME NEW c \in Callers, NEW k \in Keys, NEW x, AppendEvidence(c, k, x) PROVE Goal
  BY <1>1, <1>6 DEF AppendEvidence
<1>7. ASSUME NEW c \in Callers, Refused(c) \/ PublishSeller(c) \/ StopHandler(c)
      PROVE  Goal
  BY <1>1, <1>7 DEF Refused, PublishSeller, StopHandler
<1>8. ASSUME Tick \/ UNCHANGED vars PROVE Goal
  BY <1>1, <1>8 DEF Tick, vars
<1> HIDE DEF g, dealVars, Goal
<1>9. Goal
  BY <1>a, <1>1, <1>2, <1>3, <1>4, <1>5, <1>6, <1>7, <1>8, Steps
<1> QED
  BY <1>9 DEF g, Goal

\* The approval of an offer and its handoff implement an authority that is granted
\* at most once, spent at most once while it stands, and never comes back.
THEOREM ExchangeGrantsOnce == Spec => ExchangeImplementsAuthority
<1>1. Init => Authority!Init
  BY DEF Init, Grant, Authority!Init
<1>2. Inv /\ [Next]_vars => [Authority!Next]_([n \in {1, 2} |-> Grant(n)])
  BY AuthorityStep
<1> QED
  BY <1>1, <1>2, Invariance, PTL DEF Spec, ExchangeImplementsAuthority, Authority!Spec
=============================================================================
