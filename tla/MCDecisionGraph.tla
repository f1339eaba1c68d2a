--------------------------- MODULE MCDecisionGraph ---------------------------
(***************************************************************************)
(* Frozen inputs for model checking: six families, each varying what one   *)
(* part of the engine tells apart, and a seventh whose decisions are       *)
(* replayed and simulated by servers of several releases.                  *)
(***************************************************************************)
EXTENDS EvaluationReplay

Yes == <<"flag", TRUE>>
No  == <<"flag", FALSE>>

\* Evidence observed at time 2 (fresh at 4) unless said otherwise; the time limit is 2.
Seen(id) == [id |-> id, source |-> "vendor", method |-> "audit", scope |-> "all",
             reconstructable |-> TRUE, lower |-> 2, upper |-> 3,
             disputed |-> FALSE, revoked |-> FALSE]
Doubts(e) == {[e EXCEPT !.disputed = TRUE], [e EXCEPT !.revoked = TRUE],
              [e EXCEPT !.lower = 1], [e EXCEPT !.lower = None, !.upper = None],
              [e EXCEPT !.source = "blog"], [e EXCEPT !.method = "hearsay"],
              [e EXCEPT !.scope = "pilot"], [e EXCEPT !.reconstructable = FALSE]}

States(field, value, evidence) == [field |-> field, value |-> value, evidence |-> evidence]

Record(id, product, requires, facts) ==
    [id |-> id, version |-> 1, seller |-> 1, product |-> product, edition |-> 2, region |-> 4,
     offer |-> 200 + product, authority |-> "SELLER_SEALED", available |-> TRUE,
     facts |-> facts, sellerGates |-> {}, categories |-> {"crm"}, jtbds |-> {"sell"},
     status |-> "PUBLISHED", requires |-> requires]

Offer(id, low, mid, high) ==
    [id |-> id, low |-> low, base |-> mid, high |-> high, currency |-> "USD", horizon |-> 1,
     items |-> <<[fee |-> TRUE, low |-> low, base |-> mid, high |-> high]>>, payment |-> TRUE]
Free(n) == [low |-> n, base |-> n, high |-> n, currency |-> "USD", horizon |-> 1,
            items |-> <<>>, payment |-> FALSE]

Policy(field) == [field |-> field, sources |-> {"vendor"}, methods |-> {"audit"},
                  scope |-> "all", sla |-> 2]

BuyerGate(id, field, sources) ==
    [id |-> id, predicates |-> {[field |-> field, op |-> "eq", value |-> Yes]},
     mode |-> "REQUIRE_MATCH", blocked |-> "SIRA_INELIGIBLE", sources |-> sources,
     actions |-> {"REPLACE"}, claims |-> {}, resolution |-> {}]
SellerGate(id, field, sources, backing) ==
    [id |-> id, predicates |-> {[field |-> field, op |-> "gte", value |-> <<"num", 2>>]},
     mode |-> "BLOCK_ON_MATCH", blocked |-> "SEIL_PASS", sources |-> sources,
     actions |-> {"REPLACE"}, claims |-> backing, resolution |-> {"ASK_SELLER"}]

Wants(id, field, weight, unknown) ==
    [id |-> id, field |-> field, weight |-> weight, coverageWeight |-> weight,
     normalization |-> "BOOLEAN_EQUALS", expected |-> Yes, sources |-> {}, actions |-> {},
     points |-> {}, unknown |-> unknown, prior |-> None, resolvable |-> TRUE,
     aggregation |-> "ALL"]

Buyer(id, field, value, private) ==
    [id |-> id, field |-> field, value |-> <<"num", value>>, private |-> private]

Keep(id, action, instance, cost, facts) ==
    [id |-> id, action |-> action, instance |-> instance, facts |-> facts, cost |-> cost,
     available |-> TRUE, resolution |-> {}]

Plain ==
    [now |-> 4, facts |-> {Buyer(401, "seats", 1, FALSE)}, removed |-> {}, records |-> {},
     policy |-> [on |-> FALSE, category |-> "crm", jtbd |-> "sell", regions |-> {4}],
     aliases |-> [x \in {} |-> x],
     evidence |-> {}, evidencePolicies |-> {Policy("cap"), Policy("sso"), Policy("seats")},
     gates |-> {BuyerGate(501, "cap", {401})},
     preferences |-> {Wants(601, "cap", 1, Unit)},
     riskRules |-> {}, riskComplete |-> TRUE,
     current |-> {Keep(701, "NO_ACTION", 21, Free(0), {})},
     outcomes |-> {}, offers |-> {Offer(210 + n, 4, 4, 4) : n \in 1..5}]

(***************************************************************************)
(* What is proved: one product whose evidence, duplicate and seller rule   *)
(* vary.                                                                   *)
(***************************************************************************)
Proofs ==
    LET one == Record(101, 11, {}, {States("cap", Yes, {301})})
        twin(value, version) ==
            [Record(102, 11, {}, {States("cap", value, {302})})
               EXCEPT !.version = version, !.offer = 212]
        twins == {twin(v, n) : v \in {Yes, No}, n \in {1, 2}}
                   \cup {[twin(Yes, 2) EXCEPT !.available = FALSE],
                         [twin(Yes, 2) EXCEPT !.authority = "PLATFORM_COMPILED"],
                         [twin(Yes, 2) EXCEPT !.authority = "EXTERNAL_UNSEALED"],
                         [twin(No, 2) EXCEPT !.status = "REVOKED"],
                         [twin(No, 2) EXCEPT !.status = "SUPERSEDED"],
                         [twin(Yes, 2) EXCEPT !.region = 5],
                         [twin(Yes, 2) EXCEPT !.sellerGates = {502}]}
        pairs == (Doubts(Seen(301)) \cup {Seen(301)}) \X (Doubts(Seen(302)) \cup {Seen(302)})
        rules == {{}} \cup {{SellerGate(502, f, {}, c)} : f \in {"seats", "budget"}, c \in {{}, {302}}}
                   \cup {{[SellerGate(502, "seats", {}, {}) EXCEPT !.mode = "REQUIRE_MATCH"]},
                         {[BuyerGate(503, "cap", {401}) EXCEPT !.mode = "BLOCK_ON_MATCH"]}}
    IN  {[Plain EXCEPT !.evidence = Range(e), !.records = {one}] : e \in pairs}
          \cup {[Plain EXCEPT !.evidence = Range(e), !.records = {one, t}] :
                  e \in pairs, t \in twins}
          \cup {[Plain EXCEPT !.evidence = Range(e), !.records = {one, twin(Yes, 2)},
                              !.gates = @ \cup r, !.facts = @ \cup b,
                              !.records = {[one EXCEPT !.sellerGates = {502}], twin(Yes, 2)}] :
                  e \in {x \in pairs : x[1] = Seen(301)}, r \in rules,
                  b \in {{}, {Buyer(402, "seats", 3, FALSE)}, {Buyer(402, "budget", 1, TRUE)}}}

(***************************************************************************)
(* What belongs together: every dependency graph over four products.       *)
(***************************************************************************)
Bundles ==
    LET edges == {<<11, 12>>, <<11, 13>>, <<12, 13>>, <<12, 14>>, <<13, 14>>, <<13, 11>>,
                  <<14, 15>>}
        needs(g, p) == {x[2] : x \in {y \in g : y[1] = p}}
        product(g, p, value) ==
            Record(90 + p, p, needs(g, p), {States("cap", value, {301})})
        twin(g) == [product(g, 14, Yes) EXCEPT !.id = 120, !.edition = 3]
    IN  {[Plain EXCEPT !.evidence = {Seen(301)}, !.offers = o,
                       !.records = {product(g, p, Yes) : p \in 11..13}
                                      \cup {product(g, 14, v)} \cup t] :
           g \in SUBSET edges, v \in {Yes, No}, t \in {{}} \cup {{twin({})}},
           o \in {Plain.offers, {Offer(210 + n, n, n, n) : n \in 1..3},
                  {Offer(210 + n, 1, 1, 1) : n \in 1..3}
                    \cup {[Offer(214, 1, 1, 1) EXCEPT !.currency = "EUR"]}}}

(***************************************************************************)
(* What comes first: three plans with uncertain cost, risk and             *)
(* satisfaction.                                                           *)
(***************************************************************************)
Rankings ==
    LET costs == {Free(1), [Free(2) EXCEPT !.low = 1, !.high = 3]}
        risks == {[low |-> 0, base |-> 0, high |-> 0], [low |-> 0, base |-> 1, high |-> 2],
                  [low |-> 2, base |-> 2, high |-> 2]}
        proofs == {{States("sso", Yes, {301})}, {States("sso", Yes, {302})},
                   {States("sso", No, {301})}}
        shape == costs \X risks \X proofs
        rule(id, action, risk) ==
            [id |-> id, actions |-> {action}, conditional |-> FALSE,
             predicate |-> [field |-> "sso", op |-> "eq", value |-> Yes],
             risk |-> risk, missing |-> risk]
        keep(id, action, instance, x) ==
            Keep(id, action, instance, x[1],
                 {[field |-> f.field, value |-> f.value, evidence |-> f.evidence,
                   component |-> instance] : f \in x[3]})
    IN  {[Plain EXCEPT !.gates = {}, !.offers = {},
                       !.evidence = {Seen(301), [Seen(302) EXCEPT !.lower = 1]},
                       !.preferences = {Wants(601, "sso", 1, Unit)},
                       !.riskRules = {rule(801, "REUSE_EXISTING", x[2]),
                                      rule(802, "RENEW", y[2]), rule(803, "NO_ACTION", z[2])},
                       !.current = {keep(701, "REUSE_EXISTING", 21, x), keep(702, "RENEW", 22, y),
                                    keep(703, "NO_ACTION", 23, z)}] :
           x \in shape, y \in shape, z \in {<<Free(2), r, p>> : r \in risks, p \in proofs}}

(***************************************************************************)
(* What depends on what the buyer keeps private: gates that hold only      *)
(* while the facts they come from are known.                               *)
(***************************************************************************)
Secrets ==
    LET ids == 402..405
        few == {s \in SUBSET ids : Cardinality(s) \in 1..2}
        best == Record(101, 11, {}, {States("cap", Yes, {301}), States("sso", No, {301})})
        good == Record(102, 12, {}, {States("cap", No, {301}), States("sso", No, {301})})
        facts == Plain.facts \cup {Buyer(n, "seats", n - 401, TRUE) : n \in ids}
        start == [Plain EXCEPT !.evidence = {Seen(301)}, !.records = {best, good}, !.facts = facts]
    IN  {[start EXCEPT !.gates = {BuyerGate(501, "sso", s), BuyerGate(502, "sso", t),
                                 BuyerGate(503, "cap", u)}] : s \in few, t \in few, u \in few}
          \cup {[start EXCEPT !.gates = {BuyerGate(500 + n - 401, "sso", {n}) : n \in ids}],
                [start EXCEPT !.records = {[best EXCEPT !.sellerGates = {504}], good},
                             !.gates = {SellerGate(504, "seats", {}, {})}],
                \* the best product, in euros, comes in only where one fact is hidden
                [start EXCEPT !.records = {[best EXCEPT !.sellerGates = {504}]},
                             !.gates = {BuyerGate(501, "sso", {402}),
                                        SellerGate(504, "size", {}, {})},
                             !.facts = Plain.facts \cup {Buyer(402, "seats", 1, TRUE),
                                                         Buyer(403, "size", 1, TRUE)},
                             !.offers = {[Offer(211, 1, 1, 1) EXCEPT !.currency = "EUR"]}],
                [start EXCEPT !.gates = {BuyerGate(501, "sso", {402})},
                             !.offers = {Offer(211, 1, 1, 1), Offer(212, 1, 1, 1)},
                             !.current = {Keep(701, "NO_ACTION", 21,
                                               [Free(0) EXCEPT !.currency = "EUR"], {})}]}

(***************************************************************************)
(* How a bundle's facts become one: aggregations, kinds of value, outcome  *)
(* rates and conditional risks.                                            *)
(***************************************************************************)
Aggregations ==
    LET values == {<<Yes, Yes>>, <<Yes, No>>, <<<<"num", 1>>, <<"num", 2>>>>,
                   <<<<"set", {"a"}>>, <<"set", {"b"}>>>>, <<Yes, <<"num", 1>>>>}
        criteria == {[Wants(602, "sso", 2, Unit) EXCEPT !.aggregation = how] :
                       how \in {"SUM", "MIN", "MAX", "UNION", "ALL", "ANY", "PRIMARY_COMPONENT"}}
        reads(c) == {[c EXCEPT !.normalization = "SET_CONTAINS_ALL", !.expected = <<"set", {"a", "b"}>>],
                     [c EXCEPT !.normalization = "LOWER_IS_BETTER",
                               !.points = {[maximum |-> 1, sat |-> Unit],
                                           [maximum |-> 2, sat |-> Unit \div 2]}],
                     [c EXCEPT !.normalization = "OUTCOME_RATE", !.prior = Unit \div 2],
                     [c EXCEPT !.normalization = "OUTCOME_RATE", !.prior = 0], c,
                     [c EXCEPT !.unknown = None, !.resolvable = FALSE]}
        rule(m) == [id |-> 801, actions |-> {"REPLACE"}, conditional |-> TRUE,
                    predicate |-> [field |-> "sso", op |-> "eq", value |-> Yes],
                    risk |-> [low |-> 1, base |-> 1, high |-> 1], missing |-> m]
        missing == {[low |-> 0, base |-> 1, high |-> 3], [low |-> None, base |-> None, high |-> None]}
        rate == [subject |-> 11, criterion |-> 602, value |-> Unit \div 2, evidence |-> {301},
                 sources |-> {}]
        part(id, p, requires, value) ==
            Record(id, p, requires, {States("cap", Yes, {301}), States("sso", value, {301})})
    IN  {[Plain EXCEPT !.evidence = {Seen(301)},
                       !.records = {part(101, 11, {12}, v[1]), part(102, 12, {}, v[2])},
                       !.preferences = @ \cup {d}, !.riskRules = {rule(m)}, !.outcomes = o] :
           v \in values, d \in UNION {reads(c) : c \in criteria}, m \in missing,
           o \in {{}, {rate}, {[rate EXCEPT !.evidence = {302}]}}}

(***************************************************************************)
(* What raises: alias cycles, unknown and future evidence, fields without  *)
(* a policy, amounts out of order, names used twice.                       *)
(***************************************************************************)
Failures ==
    LET one == Record(101, 11, {}, {States("cap", Yes, {301})})
        good == [Plain EXCEPT !.evidence = {Seen(301)}, !.records = {one}]
    IN  {good,
         [good EXCEPT !.aliases = [x \in {11, 12} |-> 23 - x]],
         [good EXCEPT !.aliases = [x \in {11} |-> 12]],
         [good EXCEPT !.aliases = [x \in {5} |-> 4], !.policy.on = TRUE,
                      !.records = {[one EXCEPT !.region = 5]}],
         [good EXCEPT !.policy.on = TRUE, !.policy.regions = {5}],
         [good EXCEPT !.policy.on = TRUE, !.policy.category = "erp"],
         [good EXCEPT !.policy.on = TRUE, !.policy.jtbd = "hire"],
         [good EXCEPT !.evidence = {}],
         [good EXCEPT !.evidence = {[Seen(301) EXCEPT !.upper = 5]}],
         [good EXCEPT !.evidencePolicies = {Policy("sso")}],
         [good EXCEPT !.offers = {Offer(211, 4, 3, 4)}],
         [good EXCEPT !.offers = {Offer(211, None, None, None)}],
         [good EXCEPT !.offers = {[Offer(211, 1, 1, 1) EXCEPT !.items = <<>>]}],
         [good EXCEPT !.current = {[c EXCEPT !.id = 101] : c \in @}],
         [good EXCEPT !.records = {[one EXCEPT !.edition = 2], [one EXCEPT !.id = 102, !.edition = 3]}],
         [good EXCEPT !.current = @ \cup {Keep(702, "CANCEL", 22, Free(0), {}),
                                          Keep(703, "REUSE_EXISTING", 22, Free(1), {})},
                      !.riskComplete = FALSE],
         [good EXCEPT !.preferences = {}]}

(***************************************************************************)
(* What is replayed: the brief weighs criterion 601 at 2 where the fixture *)
(* says 1; criterion 603 is about an action nobody plans, so no ledger     *)
(* keeps its weight; the third selects another product where the private   *)
(* facts are hidden; the last selects nothing.                             *)
(***************************************************************************)
Replayed ==
    LET ids == 402..403
        best == Record(101, 11, {}, {States("cap", Yes, {301}), States("sso", No, {301})})
        good == Record(102, 12, {}, {States("cap", Yes, {301}), States("sso", Yes, {301})})
        weak == Record(102, 12, {}, {States("cap", No, {301}), States("sso", Yes, {301})})
        unscored(weight) == [Wants(603, "sso", weight, Unit) EXCEPT !.actions = {"CANCEL"}]
        start == [Plain EXCEPT !.evidence = {Seen(301)}, !.records = {best, good},
                               !.gates = {BuyerGate(501, "sso", {402})},
                               !.facts = @ \cup {Buyer(n, "seats", n - 401, TRUE) : n \in ids},
                               !.offers = {Offer(211, 1, 1, 1), Offer(212, 2, 2, 2)},
                               !.preferences = {Wants(601, "cap", 2, Unit),
                                                Wants(602, "sso", 1, Unit)}]
    IN  {start,
         [start EXCEPT !.preferences = @ \cup {unscored(2)}],
         [start EXCEPT !.gates = {BuyerGate(501, "sso", {402, 403})}, !.records = {best, weak}],
         [start EXCEPT !.gates = {BuyerGate(501, "seats", {401})}, !.current = {}]}

\* The fixture of the decision and what later releases make of it: other product names, a fact
\* no longer private, offers in a currency that cannot be compared.
MCReleases(in) ==
    LET shipped == _bind_graph_input(in, [id \in 601..603 |-> 1])
        public == {[f EXCEPT !.private = FALSE] : f \in {g \in in.facts : g.id = 402}}
        sources == {shipped,
                    [shipped EXCEPT !.facts = {f \in @ : f.id # 402} \cup public],
                    [shipped EXCEPT !.offers = {[o EXCEPT !.currency = "EUR"] : o \in @}]}
    IN  IF in \in Replayed
        THEN {[source |-> s, labels |-> 1] : s \in sources} \cup {[source |-> shipped, labels |-> 2]}
        ELSE {[source |-> in, labels |-> 1]}

\* The source kept with the brief has the weights of the fixture.
MCSnapshot(in) ==
    IF in \in Replayed THEN _bind_graph_input(in, [id \in 601..603 |-> 1]) ELSE in

MCMaxRequests(in) == IF in \in Replayed THEN 2 ELSE 0

MCBodies ==
    {[mode |-> "COMPANY_AWARE", overrides |-> <<>>],
     [mode |-> "GENERIC_REQUEST_ONLY", overrides |-> [id \in {602} |-> 4]],
     [mode |-> "COMPANY_AWARE", overrides |-> [id \in {601} |-> 6]],
     [mode |-> "COMPANY_AWARE", overrides |-> [id \in {604} |-> 2]]}

MCInputs ==
    Proofs \cup Bundles \cup Rankings \cup Secrets \cup Aggregations \cup Failures \cup Replayed
=============================================================================
