-------------------------- MODULE BilateralExchange --------------------------
(***************************************************************************)
(* One exchange case between a buyer and a seller (ExchangeService over     *)
(* BilateralRepository).  The case and its log live in the buyer's tenant;  *)
(* a command of either party is compiled against the case there, and the    *)
(* same transaction writes the buyer's projection.  The seller's projection *)
(* is written by a second transaction, in the seller's tenant, so a handler *)
(* that stops in between leaves it out.  The seller's evidence takes three  *)
(* transactions: the command row, the case, the projection.                 *)
(*                                                                          *)
(* A command is identified by its idempotency key.  A key the log already   *)
(* has is answered with the caller's newest projection and changes nothing. *)
(***************************************************************************)
EXTENDS Naturals, Sequences, FiniteSets, FiniteSetsExt

CONSTANTS
  Callers,        \* request handlers that may be under way
  MaxKeys,        \* bound on the idempotency keys clients use
  MaxUnapplied,   \* bound on the evidence commands recorded and not applied
  RouteExpires,   \* expiry of the requirement brief and of the route capability
  OfferTerms,     \* how long after now an offer's expiry may be set
  ApprovalTerms,  \* how long after now an approval's expiry may be set
  HandoffTerm,    \* fifteen minutes
  MaxTime         \* bound on the clock

ASSUME ExchangeAssumption ==
  /\ MaxKeys \in Nat /\ MaxUnapplied \in Nat /\ RouteExpires \in Nat /\ MaxTime \in Nat
  /\ HandoffTerm \in Nat \ {0}
  /\ OfferTerms \subseteq Nat /\ ApprovalTerms \subseteq Nat \ {0}

VARIABLES
  case,         \* the coordinator's state
  transitions,  \* the append-only log of applied commands
  commands,     \* commands[k]: the type of the command row with key k
  offers,       \* the offer versions, oldest first
  approval,     \* the approval row, or NoApproval
  handoff,      \* the external handoff row, or NoHandoff
  buyerView,    \* the buyer's projections
  sellerView,   \* the seller's projections
  calls,        \* calls[c]: the command a handler has under way
  lost,         \* history: versions whose handler stopped before the seller saw them
  clock

vars == <<case, transitions, commands, offers, approval, handoff, buyerView,
          sellerView, calls, lost, clock>>

caseVars == <<case, transitions, buyerView>>
dealVars == <<offers, approval, handoff>>

Parties == {"BUYER", "SELLER"}
Other(p) == IF p = "BUYER" THEN "SELLER" ELSE "BUYER"
Keys == 1..MaxKeys

Owner == [RELEASE_REQUIREMENT |-> "BUYER", PUBLISH_EVIDENCE |-> "SELLER",
          PROPOSE_OFFER |-> "BUYER", COUNTER_OFFER |-> "SELLER",
          ACCEPT_OFFER |-> "SELLER", ACCEPT_COUNTER |-> "BUYER",
          APPROVE_HANDOFF |-> "SYSTEM"]
CommandTypes == DOMAIN Owner

States == {"CREATED", "REQUIREMENT_RELEASED", "EVIDENCE_RELEASED", "OFFERED",
           "COUNTERED", "AGREED_PENDING_APPROVAL", "APPROVED_FOR_HANDOFF"}

\* The table of the coordinator: <<state, command, next state>>.  REJECT and
\* EXPIRE, which it also knows, are issued by no handler.
Transitions ==
  {<<"CREATED", "RELEASE_REQUIREMENT", "REQUIREMENT_RELEASED">>,
   <<"REQUIREMENT_RELEASED", "PUBLISH_EVIDENCE", "EVIDENCE_RELEASED">>,
   <<"EVIDENCE_RELEASED", "PROPOSE_OFFER", "OFFERED">>,
   <<"OFFERED", "COUNTER_OFFER", "COUNTERED">>,
   <<"OFFERED", "ACCEPT_OFFER", "AGREED_PENDING_APPROVAL">>,
   <<"COUNTERED", "ACCEPT_COUNTER", "AGREED_PENDING_APPROVAL">>,
   <<"AGREED_PENDING_APPROVAL", "APPROVE_HANDOFF", "APPROVED_FOR_HANDOFF">>}

CaseRow == [state: States, version: Nat, evidence: BOOLEAN, offer: Nat, approved: BOOLEAN]
TransitionRow == [command: Keys, type: CommandTypes, from: States, to: States]
OfferRow == [proposer: Parties, status: {"PENDING", "APPROVED", "SUPERSEDED"}, expires: Nat]
ApprovalRow == [offer: Nat, expires: Nat]
HandoffRow == [offer: Nat, created: Nat, expires: Nat,
               status: {"READY", "OPENED"}, openedAt: Nat]
\* A projection carries what the state of the case is, for either party.
ProjectionRow == CaseRow
CallRow == [key: Keys, stage: {"APPLY", "PUBLISH"}, expected: Nat, projection: ProjectionRow]

NoApproval == [offer |-> 0, expires |-> 0]
NoHandoff == [offer |-> 0, created |-> 0, expires |-> 0, status |-> "READY", openedAt |-> 0]
NewCase == [state |-> "CREATED", version |-> 1, evidence |-> FALSE,
            offer |-> 0, approved |-> FALSE]
NoCall == <<>>
NoCommand == "NONE"
\* What is kept of a command besides its key.
CommandRow == CommandTypes \cup {NoCommand}

Init ==
  /\ case = NewCase
  /\ transitions = <<>>
  /\ commands = [k \in Keys |-> NoCommand]
  /\ offers = <<>>
  /\ approval = NoApproval
  /\ handoff = NoHandoff
  /\ buyerView = {}
  /\ sellerView = {}
  /\ calls = [c \in Callers |-> NoCall]
  /\ lost = {}
  /\ clock = 0

-----------------------------------------------------------------------------
\* A route capability of this case that has not expired.
RouteOpen == clock < RouteExpires

Applied(k) == \E i \in DOMAIN transitions : transitions[i].command = k

\* The command row is new, or the same command tried again.
MayAppend(k, type) == commands[k] \in {NoCommand, type}

\* compile_party_command accepts the command at this version of the case.
Compiles(type, party, expected) ==
  /\ Owner[type] = party
  /\ expected = case.version
  /\ \E t \in Transitions : t[1] = case.state /\ t[2] = type

\* The next coordinator state, which both projections show.
Compiled(type, offer) ==
  [state |-> (CHOOSE t \in Transitions : t[1] = case.state /\ t[2] = type)[3],
   version |-> case.version + 1,
   evidence |-> case.evidence \/ type = "PUBLISH_EVIDENCE",
   offer |-> IF type \in {"PROPOSE_OFFER", "COUNTER_OFFER"} THEN offer ELSE case.offer,
   approved |-> case.approved \/ type = "APPROVE_HANDOFF"]

\* publish_projection: a version is written once, with one content.
Published(view, projection) ==
  IF \E v \in view : v.version = projection.version THEN view ELSE view \cup {projection}

\* Mutant of Apply: the case moves and the buyer is not shown.
ApplyUnseen(k, type, offer) ==
  LET next == Compiled(type, offer) IN
  /\ ~Applied(k)
  /\ case' = next
  /\ transitions' = Append(transitions,
       [command |-> k, type |-> type, from |-> case.state, to |-> next.state])
  /\ buyerView' = buyerView

\* apply_command with the buyer's projection: the case, the log and the
\* projection move together; the seller's projection is left to the handler.
Apply(k, type, offer) ==
  LET next == Compiled(type, offer) IN
  /\ ~Applied(k)
  /\ case' = next
  /\ transitions' = Append(transitions,
       [command |-> k, type |-> type, from |-> case.state, to |-> next.state])
  /\ buyerView' = Published(buyerView, next)

\* What the handler still has to publish in the seller's tenant.
OweSeller(c, k, offer, type) ==
  calls' = [calls EXCEPT ![c] = [key |-> k, stage |-> "PUBLISH", expected |-> case.version,
                                 projection |-> Compiled(type, offer)]]

\* A command whose row, transition and buyer's projection are one transaction.
Command(c, k, type, party, expected, offer) ==
  /\ calls[c] = NoCall
  /\ MayAppend(k, type)
  /\ Compiles(type, party, expected)
  /\ Apply(k, type, offer)
  /\ commands' = [commands EXCEPT ![k] = type]
  /\ OweSeller(c, k, offer, type)
  /\ UNCHANGED <<sellerView, lost, clock>>

\* The buyer releases the requirement brief; a case that exists is returned.
CreateCase(c, k) ==
  /\ clock < RouteExpires
  /\ Command(c, k, "RELEASE_REQUIREMENT", "BUYER", 1, 0)
  /\ UNCHANGED dealVars

\* First transaction of the seller's evidence, in the seller's tenant.
AppendEvidence(c, k, expected) ==
  /\ RouteOpen
  /\ calls[c] = NoCall
  /\ case.version > 1
  /\ ~Applied(k)
  /\ MayAppend(k, "PUBLISH_EVIDENCE")
  /\ Cardinality({j \in Keys \ {k} : commands[j] # NoCommand /\ ~Applied(j)}) < MaxUnapplied
  /\ commands' = [commands EXCEPT ![k] = "PUBLISH_EVIDENCE"]
  /\ calls' = [calls EXCEPT ![c] = [key |-> k, stage |-> "APPLY", expected |-> expected,
                                    projection |-> NewCase]]
  /\ UNCHANGED <<caseVars, dealVars, sellerView, lost, clock>>

\* Second transaction, in the buyer's: applied, or refused as a conflict.
ApplyEvidence(c) ==
  LET u == calls[c] IN
  /\ u # NoCall
  /\ u.stage = "APPLY"
  /\ \/ /\ Compiles("PUBLISH_EVIDENCE", "SELLER", u.expected)
        /\ Apply(u.key, "PUBLISH_EVIDENCE", 0)
        /\ OweSeller(c, u.key, 0, "PUBLISH_EVIDENCE")
     \/ /\ ~Compiles("PUBLISH_EVIDENCE", "SELLER", u.expected) \/ Applied(u.key)
        /\ calls' = [calls EXCEPT ![c] = NoCall]
        /\ UNCHANGED caseVars
  /\ UNCHANGED <<commands, dealVars, sellerView, lost, clock>>

OfferVersion(party, expires) == [proposer |-> party, status |-> "PENDING", expires |-> expires]

\* A counteroffer answers the newest offer, and the parties alternate.
Counters(offer) == offers # <<>> => offer.proposer = Other(offers[Len(offers)].proposer)

\* The newest offer becomes SUPERSEDED, unless it is approved.
StoreOffer(offer) ==
  /\ Counters(offer)
  /\ \A i \in DOMAIN offers : offers[i].status # "APPROVED"
  /\ offers' = Append([i \in DOMAIN offers |-> [offers[i] EXCEPT !.status = "SUPERSEDED"]],
                      offer)

\* The stage decides whether this is a first offer or the counteroffer that
\* supersedes it.
ProposeOffer(c, k, party, expected, term) ==
  LET type == IF party = "BUYER" THEN "PROPOSE_OFFER" ELSE "COUNTER_OFFER"
  IN
  /\ RouteOpen
  /\ case.state = IF party = "BUYER" THEN "EVIDENCE_RELEASED" ELSE "OFFERED"
  /\ StoreOffer(OfferVersion(party, clock + term))
  /\ Command(c, k, type, party, expected, Len(offers) + 1)
  /\ UNCHANGED <<approval, handoff>>

\* assert_actionable: its recipient, before it expires.
Actionable(offer, party) == party = Other(offer.proposer) /\ clock < offer.expires

\* Only the recipient of the newest offer accepts it, before it expires.
AcceptOffer(c, k, party, expected, n) ==
  /\ RouteOpen
  /\ offers # <<>>
  /\ n = Len(offers)
  /\ Actionable(offers[n], party)
  /\ Command(c, k, IF case.state = "OFFERED" THEN "ACCEPT_OFFER" ELSE "ACCEPT_COUNTER",
             party, expected, n)
  /\ UNCHANGED dealVars

\* Mutant of Authorizes: no look for the newest offer.
AuthorizesAnyVersion(n) == clock < offers[n].expires

\* OfferApproval.authorize: the newest offer, unexpired.
Authorizes(n) ==
  /\ n = Len(offers)
  /\ clock < offers[n].expires

\* The approval row of an offer is written once and marks the offer.
StoreApproval(n, term) ==
  /\ approval.offer # n
  /\ Authorizes(n)
  /\ approval' = [offer |-> n, expires |-> clock + term]
  /\ offers' = [offers EXCEPT ![n].status = "APPROVED"]

\* The buyer approves; the command is the system's.
ApproveOffer(c, k, expected, n, term) ==
  /\ RouteOpen
  /\ n \in DOMAIN offers
  /\ StoreApproval(n, term)
  /\ Command(c, k, "APPROVE_HANDOFF", "SYSTEM", expected, n)
  /\ UNCHANGED handoff

\* Mutant of PublishSeller: the handler answers without the second transaction.
PublishSellerSkipped(c) ==
  LET u == calls[c] IN
  /\ u # NoCall
  /\ u.stage = "PUBLISH"
  /\ calls' = [calls EXCEPT ![c] = NoCall]
  /\ UNCHANGED <<caseVars, dealVars, commands, sellerView, lost, clock>>

\* Last transaction of a command, in the seller's tenant.
PublishSeller(c) ==
  LET u == calls[c] IN
  /\ u # NoCall
  /\ u.stage = "PUBLISH"
  /\ sellerView' = Published(sellerView, u.projection)
  /\ calls' = [calls EXCEPT ![c] = NoCall]
  /\ UNCHANGED <<caseVars, dealVars, commands, lost, clock>>

\* The process stops, or the transaction in the seller's tenant fails.  A
\* later try of the same key finds the command applied and publishes nothing.
StopHandler(c) ==
  LET u == calls[c] IN
  /\ u # NoCall
  /\ calls' = [calls EXCEPT ![c] = NoCall]
  /\ lost' = IF u.stage = "PUBLISH" THEN lost \cup {u.projection.version} ELSE lost
  /\ UNCHANGED <<caseVars, dealVars, commands, sellerView, clock>>

-----------------------------------------------------------------------------
\* Mutant of HandoffExpires: the approval's expiry is ignored.
HandoffExpiresOwn(n) == Min({clock + HandoffTerm, offers[n].expires})

\* Fifteen minutes, cut to the offer's and the approval's expiry.
HandoffExpires(n) == Min({clock + HandoffTerm, offers[n].expires, approval.expires})

ExchangePaymentHandoff(n, expires) ==
  [offer |-> n, created |-> clock, expires |-> expires, status |-> "READY", openedAt |-> 0]

\* A second call makes the same handoff only at the same time: the creation
\* time is part of its identity, and any other is refused.
StoreHandoff(n) ==
  /\ handoff = NoHandoff
  /\ HandoffExpires(n) > clock
  /\ handoff' = ExchangePaymentHandoff(n, HandoffExpires(n))

\* The case is approved at the version the buyer saw.
CreateHandoff(expected, n) ==
  /\ RouteOpen
  /\ case.version = expected
  /\ case.state = "APPROVED_FOR_HANDOFF"
  /\ n \in DOMAIN offers
  /\ approval.offer = n
  /\ offers[n].status = "APPROVED"
  /\ StoreHandoff(n)
  /\ UNCHANGED <<caseVars, commands, offers, approval, sellerView, calls, lost, clock>>

\* Mutant of Open: a handoff past its time is closed.
OpenOrExpire ==
  /\ handoff # NoHandoff
  /\ handoff.status = "READY"
  /\ handoff' = [handoff EXCEPT !.status = IF clock < handoff.expires THEN "OPENED" ELSE "EXPIRED",
                                !.openedAt = clock]

\* An opened handoff is returned again, without a change.
Open ==
  /\ handoff # NoHandoff
  /\ handoff.status = "READY"
  /\ clock < handoff.expires
  /\ handoff' = [handoff EXCEPT !.status = "OPENED", !.openedAt = clock]

\* Only the buyer opens it, through a live route.
OpenHandoff ==
  /\ RouteOpen
  /\ Open
  /\ UNCHANGED <<caseVars, commands, offers, approval, sellerView, calls, lost, clock>>

Tick ==
  /\ clock < MaxTime
  /\ clock' = clock + 1
  /\ UNCHANGED <<caseVars, commands, dealVars, sellerView, calls, lost>>

\* Clients take new keys in order, or retry one.  The retry of an applied key
\* changes nothing, so only the others matter.
ClientKeys == {k \in Keys : ~Applied(k) /\ \A j \in 1..(k - 1) : commands[j] # NoCommand}
\* A client is at most one version behind the buyer's tenant.
SeenVersions == {v.version : v \in {w \in buyerView : w.version + 1 >= case.version}}

Next ==
  \/ \E c \in Callers, k \in ClientKeys :
       \/ CreateCase(c, k)
       \/ \E x \in SeenVersions :
            \/ AppendEvidence(c, k, x)
            \/ \E p \in Parties, t \in OfferTerms : ProposeOffer(c, k, p, x, t)
            \/ \E p \in Parties, n \in DOMAIN offers : AcceptOffer(c, k, p, x, n)
            \/ \E n \in DOMAIN offers, t \in ApprovalTerms : ApproveOffer(c, k, x, n, t)
  \/ \E c \in Callers : ApplyEvidence(c) \/ PublishSeller(c) \/ StopHandler(c)
  \/ \E x \in SeenVersions, n \in DOMAIN offers : CreateHandoff(x, n)
  \/ OpenHandoff
  \/ Tick

\* A handler that is not stopped goes on after each of its transactions.
Spec == /\ Init /\ [][Next]_vars
        /\ \A c \in Callers : WF_vars(ApplyEvidence(c)) /\ WF_vars(PublishSeller(c))

-----------------------------------------------------------------------------
\* The types of the rows.  A handoff past its time stays READY: no row is ever
\* EXPIRED or CANCELLED, although the enumeration has both.
ExchangeTypeOK ==
  /\ case \in CaseRow
  /\ \A i \in DOMAIN transitions : transitions[i] \in TransitionRow
  /\ \A k \in Keys : commands[k] \in CommandRow
  /\ \A i \in DOMAIN offers : offers[i] \in OfferRow
  /\ approval \in ApprovalRow
  /\ handoff \in HandoffRow
  /\ \A v \in buyerView \cup sellerView : v \in ProjectionRow
  /\ \A c \in Callers : calls[c] = NoCall \/ calls[c] \in CallRow
  /\ \A c \in Callers : calls[c] # NoCall => calls[c].expected <= case.version
  /\ lost \subseteq 1..case.version
  /\ clock \in 0..MaxTime

\* The log explains the case: one transition per version, each starting where
\* the one before it ended, and no key applied twice.
LogExplainsCase ==
  /\ case.version = Len(transitions) + 1
  /\ \A i \in DOMAIN transitions :
       transitions[i].from = IF i = 1 THEN "CREATED" ELSE transitions[i - 1].to
  /\ \A i, j \in DOMAIN transitions :
       transitions[i].command = transitions[j].command => i = j

\* The buyer reads the case as it is; the seller reads a state it really had.
ViewsAreTrue ==
  /\ buyerView # {} => case \in buyerView
  /\ \A v \in buyerView : v.version <= case.version
  /\ \A v, w \in buyerView : v.version = w.version => v = w
  /\ sellerView \subseteq buyerView

\* A version the seller has not been shown is on its way or was lost with the
\* handler that owed it.
SellerLagsOnlyByLoss ==
  \A v \in buyerView :
    \/ v \in sellerView
    \/ v.version \in lost
    \/ \E c \in Callers : calls[c] # NoCall /\ calls[c].stage = "PUBLISH"
                                            /\ calls[c].projection = v

\* What each party reads is the history of the case, and what the seller lacks
\* is accounted for: the three conjuncts above.
PartiesSeeHistory == LogExplainsCase /\ ViewsAreTrue /\ SellerLagsOnlyByLoss

\* The approval stands for the newest offer, which both parties agreed on: one
\* made it and the other accepted it, after it had become current.
ApprovalBindsAgreement ==
  approval # NoApproval =>
    /\ approval.offer = Len(offers)
    /\ \E i \in DOMAIN transitions :
         /\ transitions[i].type \in {"ACCEPT_OFFER", "ACCEPT_COUNTER"}
         /\ Owner[transitions[i].type] = Other(offers[approval.offer].proposer)
         /\ \A j \in DOMAIN transitions :
              transitions[j].type \in {"PROPOSE_OFFER", "COUNTER_OFFER"} => j < i

\* A handoff outlives neither the offer nor the approval it stands on, and is
\* opened while it stands.
HandoffWithinAuthority ==
  handoff # NoHandoff =>
    /\ handoff.offer = approval.offer
    /\ handoff.expires <= Min({offers[handoff.offer].expires, approval.expires})
    /\ handoff.status = "OPENED" => handoff.openedAt < handoff.expires

\* Payment stands on an agreement that holds: both conjuncts above.
PaymentBindsAgreement == ApprovalBindsAgreement /\ HandoffWithinAuthority

\* The seller catches up again and again: every version the case has reached
\* is in the seller's tenant, or was lost with its handler.
SellerCatchesUp ==
  []<>(\A v \in buyerView : v \in sellerView \/ v.version \in lost)

\* "Each party reads its own projection": when no handler is under way, the
\* seller's newest projection is the case.
SellerReadsCase ==
  ((\A c \in Callers : calls[c] = NoCall) /\ case.version > 1) => case \in sellerView

-----------------------------------------------------------------------------
(* The exchange gives, spends and withdraws the authority to pay for an     *)
(* offer the way the purchase workflow does for an intent.                  *)
Grant(n) == IF n \notin DOMAIN offers THEN "none"
            ELSE IF handoff.offer = n /\ handoff.status = "OPENED" THEN "spent"
            ELSE IF approval.offer = n THEN "granted"
            ELSE IF offers[n].status = "SUPERSEDED" THEN "withdrawn"
            ELSE "none"

Authority == INSTANCE PaymentAuthority
               WITH Items <- {1, 2}, grant <- [n \in {1, 2} |-> Grant(n)]

\* The abstract specification, as a property of the exchange.
ExchangeImplementsAuthority == Authority!Spec
=============================================================================
