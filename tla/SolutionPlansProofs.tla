------------------------ MODULE SolutionPlansProofs ------------------------
(***************************************************************************)
(* Theorems of the ranking (PlanRanking): the ordering keys order any      *)
(* plans, the first plan exists, and a selection called STABLE is first    *)
(* however the uncertain quantities turn out.  Lemmas about the stages     *)
(* before it (EvidenceRecall, SolutionPlans), for any frozen input: sums,  *)
(* recall, the dependency search, materials, assessments, scores and       *)
(* bounds, up to the plans the ranking is about.                           *)
(***************************************************************************)
EXTENDS SolutionPlans, FiniteSetTheorems, SequenceTheorems, WellFoundedInduction, TLAPS

(***************************************************************************)
(* LexLess is a strict total order.                                        *)
(***************************************************************************)
\* A set of naturals has a least member: the initial segments up to its members are
\* finite sets, of which one contains no other.
LEMMA LeastNatural ==
  ASSUME NEW T \in SUBSET Nat, T # {}
  PROVE  \E n \in T : \A k \in T : n <= k
<1> DEFINE R == StrictSubsetOrdering(Nat)
           S == {1 .. n : n \in T}
<1>1. IsWellFoundedOn(R, FiniteSubsetsOf(Nat))
  BY FS_StrictSubsetOrderingWellFounded
<1>2. S \subseteq FiniteSubsetsOf(Nat)
  <2> SUFFICES ASSUME NEW n \in T PROVE 1 .. n \in FiniteSubsetsOf(Nat)
    OBVIOUS
  <2>1. 1 \in Int /\ n \in Int
    OBVIOUS
  <2>2. IsFiniteSet(1 .. n) /\ 1 .. n \subseteq Nat
    BY <2>1, FS_Interval
  <2> QED
    BY <2>2 DEF FiniteSubsetsOf
<1>3. S # {}
  OBVIOUS
<1> HIDE DEF R, S
<1>4. PICK x \in S : \A y \in S : ~ (<<y, x>> \in R)
  BY <1>1, <1>2, <1>3, WFMin
<1>5. PICK n \in T : x = 1 .. n
  BY DEF S
<1>6. ASSUME NEW k \in T, k < n PROVE FALSE
  <2>1. 1 .. k \in S /\ 1 .. k \subseteq Nat /\ 1 .. n \subseteq Nat
    BY <1>6 DEF S
  <2>2. 1 .. k \subseteq 1 .. n /\ n \in 1 .. n /\ n \notin 1 .. k
    BY <1>6
  <2>3. <<1 .. k, 1 .. n>> \in R
    BY <2>1, <2>2 DEF R, StrictSubsetOrdering
  <2> QED
    BY <1>4, <1>5, <2>1, <2>3
<1> QED
  BY <1>5, <1>6

\* No key is before itself.
LEMMA LexIrreflexive ==
  ASSUME NEW a \in Seq(Int)
  PROVE  ~ LexLess(a, a)
  BY DEF LexLess

\* Keys compare by their first difference.
LEMMA LexTransitive ==
  ASSUME NEW a \in Seq(Int), NEW b \in Seq(Int), NEW c \in Seq(Int), LexLess(a, b), LexLess(b, c)
  PROVE  LexLess(a, c)
<1>1. PICK i \in 1 .. Len(b) : i <= Len(a) + 1 /\ (\A j \in 1 .. (i - 1) : a[j] = b[j]) /\ (i <= Len(a) => a[i] < b[i])
  BY DEF LexLess
<1>2. PICK k \in 1 .. Len(c) : k <= Len(b) + 1 /\ (\A j \in 1 .. (k - 1) : b[j] = c[j]) /\ (k <= Len(b) => b[k] < c[k])
  BY DEF LexLess
<1>3. CASE i < k
  <2>1. i \in 1 .. Len(c) /\ b[i] = c[i] /\ \A j \in 1 .. (i - 1) : a[j] = c[j]
    BY <1>1, <1>2, <1>3
  <2> QED
    BY <1>1, <2>1 DEF LexLess
<1>4. CASE k <= i
  <2>1. k <= Len(a) + 1 /\ \A j \in 1 .. (k - 1) : a[j] = c[j]
    BY <1>1, <1>2, <1>4
  <2>2. k <= Len(a) => a[k] < c[k]
    <3> SUFFICES ASSUME k <= Len(a) PROVE a[k] < c[k]
      OBVIOUS
    <3>1. k \in 1 .. Len(a) /\ k \in 1 .. Len(b) /\ k \in 1 .. Len(c)
      BY <1>4
    <3>2. a[k] \in Int /\ b[k] \in Int /\ c[k] \in Int
      BY <3>1
    <3>3. b[k] < c[k]
      BY <1>2, <3>1
    <3>4. CASE k = i
      BY <1>1, <3>2, <3>3, <3>4
    <3>5. CASE k < i
      <4>1. k \in 1 .. (i - 1)
        BY <3>1, <3>5
      <4>2. a[k] = b[k]
        BY <1>1, <4>1
      <4> QED
        BY <3>3, <4>2
    <3> QED
      BY <1>4, <3>4, <3>5
  <2> QED
    BY <2>1, <2>2 DEF LexLess
<1> QED
  BY <1>3, <1>4

\* Of two different keys one is before the other: the first place where they differ, or
\* the first place that only one of them has, decides.
LEMMA LexTotal ==
  ASSUME NEW a \in Seq(Int), NEW b \in Seq(Int), a # b
  PROVE  LexLess(a, b) \/ LexLess(b, a)
<1> DEFINE T == {n \in Nat \ {0} : \/ n \in 1 .. Len(a) /\ n \in 1 .. Len(b) /\ a[n] # b[n]
                                   \/ n \in 1 .. Len(a) /\ n \notin 1 .. Len(b)
                                   \/ n \notin 1 .. Len(a) /\ n \in 1 .. Len(b)}
<1>1. T # {}
  <2>1. SUFFICES ASSUME T = {} PROVE a = b
    OBVIOUS
  <2>2. Len(a) \in Nat /\ Len(b) \in Nat
    OBVIOUS
  <2>3. Len(a) = Len(b)
    <3>1. ASSUME Len(a) < Len(b) PROVE FALSE
      <4>1. Len(b) \in T
        BY <2>2, <3>1
      <4> QED
        BY <2>1, <4>1
    <3>2. ASSUME Len(b) < Len(a) PROVE FALSE
      <4>1. Len(a) \in T
        BY <2>2, <3>2
      <4> QED
        BY <2>1, <4>1
    <3> QED
      BY <2>2, <3>1, <3>2
  <2>4. ASSUME NEW n \in 1 .. Len(a), a[n] # b[n] PROVE FALSE
    <3>1. n \in T
      BY <2>3, <2>4
    <3> QED
      BY <2>1, <3>1
  <2> QED
    BY <2>3, <2>4
<1>2. T \in SUBSET Nat
  OBVIOUS
<1>3. PICK n \in T : \A k \in T : n <= k
  <2> HIDE DEF T
  <2> QED
    BY <1>1, <1>2, LeastNatural
<1>4. n \in Nat \ {0} /\ Len(a) \in Nat /\ Len(b) \in Nat
  OBVIOUS
<1>5. ASSUME NEW j \in 1 .. (n - 1) PROVE j \in 1 .. Len(a) /\ j \in 1 .. Len(b) /\ a[j] = b[j]
  <2>1. j \notin T /\ j \in Nat \ {0}
    BY <1>3, <1>4, <1>5
  <2>2. j \in 1 .. Len(a) \/ j \in 1 .. Len(b)
    BY <1>3, <1>4, <1>5
  <2> QED
    BY <2>1, <2>2
<1>6. n <= Len(a) + 1 /\ n <= Len(b) + 1
  <2>1. CASE n = 1
    BY <1>4, <2>1
  <2>2. CASE n # 1
    <3>1. n - 1 \in 1 .. (n - 1)
      BY <1>4, <2>2
    <3>2. n - 1 \in 1 .. Len(a) /\ n - 1 \in 1 .. Len(b)
      BY <1>5, <3>1
    <3> QED
      BY <1>4, <3>2
  <2> QED
    BY <2>1, <2>2
<1>7. CASE n \in 1 .. Len(a) /\ n \in 1 .. Len(b)
  <2>1. a[n] \in Int /\ b[n] \in Int /\ a[n] # b[n]
    BY <1>7
  <2>2. a[n] < b[n] \/ b[n] < a[n]
    BY <2>1
  <2> HIDE DEF T
  <2> QED
    BY <1>5, <1>6, <1>7, <2>1, <2>2 DEF LexLess
<1>8. CASE n \in 1 .. Len(a) /\ n \notin 1 .. Len(b)
  <2>1. ~ n <= Len(b)
    BY <1>4, <1>8
  <2> HIDE DEF T
  <2> QED
    BY <1>5, <1>6, <1>8, <2>1 DEF LexLess
<1>9. CASE n \notin 1 .. Len(a) /\ n \in 1 .. Len(b)
  <2>1. ~ n <= Len(a)
    BY <1>4, <1>9
  <2> HIDE DEF T
  <2> QED
    BY <1>5, <1>6, <1>9, <2>1 DEF LexLess
<1> QED
  BY <1>7, <1>8, <1>9

(***************************************************************************)
(* Keys.                                                                   *)
(***************************************************************************)
\* Six numbers and an id.
IsKey(k, s, u, r, c, v, g, id) ==
  /\ k \in Seq(Int) /\ Len(k) = 6 + Len(id)
  /\ k[1] = s /\ k[2] = u /\ k[3] = r /\ k[4] = c /\ k[5] = v /\ k[6] = g
  /\ \A j \in 7 .. Len(k) : k[j] = id[j - 6]

\* What KeyAt concatenates is such a key.
LEMMA KeyShape ==
  ASSUME NEW s \in Int, NEW u \in Int, NEW r \in Int, NEW c \in Int, NEW v \in Int, NEW g \in Int,
         NEW id \in Seq(Int)
  PROVE  IsKey(<<s, u, r, c, v, g>> \o id, s, u, r, c, v, g, id)
<1> DEFINE h == <<s, u, r, c, v, g>>
           k == h \o id
<1>1. /\ h \in Seq(Int) /\ Len(h) = 6
      /\ h[1] = s /\ h[2] = u /\ h[3] = r /\ h[4] = c /\ h[5] = v /\ h[6] = g
  OBVIOUS
<1> HIDE DEF h
<1>2. /\ k \in Seq(Int) /\ Len(k) = Len(h) + Len(id)
      /\ \A j \in 1 .. Len(h) + Len(id) : k[j] = IF j <= Len(h) THEN h[j] ELSE id[j - Len(h)]
  BY <1>1, ConcatProperties
<1>3. Len(id) \in Nat
  OBVIOUS
<1> HIDE DEF k
<1>a. \A j \in 1 .. Len(k) : k[j] = IF j <= 6 THEN h[j] ELSE id[j - 6]
  BY <1>1, <1>2
<1>b. Len(k) = 6 + Len(id)
  BY <1>1, <1>2
<1>4. ASSUME NEW j \in 7 .. Len(k) PROVE k[j] = id[j - 6]
  <2>1. j \in 1 .. Len(k) /\ ~ (j <= 6)
    BY <1>3, <1>b
  <2> QED
    BY <1>a, <2>1
<1>5. ASSUME NEW j \in 1 .. 6 PROVE k[j] = h[j]
  <2>1. j \in 1 .. Len(k) /\ j <= 6
    BY <1>3, <1>b
  <2> QED
    BY <1>a, <2>1
<1>6. k[1] = s /\ k[2] = u /\ k[3] = r /\ k[4] = c /\ k[5] = v /\ k[6] = g
  BY <1>1, <1>5
<1>7. IsKey(k, s, u, r, c, v, g, id)
  BY <1>1, <1>2, <1>4, <1>6 DEF IsKey
<1> QED
  BY <1>7 DEF h, k

\* Keys that end in different ids differ.
LEMMA KeysDiffer ==
  ASSUME NEW k \in Seq(Int), NEW l \in Seq(Int), NEW i \in Seq(Int), NEW j \in Seq(Int),
         Len(k) = 6 + Len(i), Len(l) = 6 + Len(j),
         \A n \in 7 .. Len(k) : k[n] = i[n - 6],
         \A n \in 7 .. Len(l) : l[n] = j[n - 6],
         k = l
  PROVE  i = j
<1>1. Len(i) = Len(j) /\ Len(i) \in Nat
  OBVIOUS
<1>2. ASSUME NEW n \in 1 .. Len(i) PROVE i[n] = j[n]
  <2>1. n + 6 \in 7 .. Len(k) /\ (n + 6) - 6 = n
    BY <1>1
  <2>2. k[n + 6] = i[n] /\ l[n + 6] = j[n]
    BY <1>1, <2>1
  <2> QED
    BY <2>2
<1> QED
  BY <1>1, <1>2, SeqEqual

\* A key that is nowhere greater is not after.
LEMMA NoGreater ==
  ASSUME NEW a \in Seq(Int), NEW b \in Seq(Int), Len(a) = Len(b), \A j \in 1 .. Len(a) : a[j] <= b[j]
  PROVE  a = b \/ LexLess(a, b)
<1> SUFFICES ASSUME LexLess(b, a) PROVE FALSE
  BY LexTotal
<1>1. PICK i \in 1 .. Len(a) : i <= Len(b) => b[i] < a[i]
  BY DEF LexLess
<1>2. a[i] \in Int /\ b[i] \in Int /\ a[i] <= b[i] /\ b[i] < a[i]
  BY <1>1
<1> QED
  BY <1>2

\* A key lies between two others when each of its six numbers does.
LEMMA Between ==
  ASSUME NEW s \in Int, NEW id \in Seq(Int),
         NEW u \in Int, NEW r \in Int, NEW c \in Int, NEW v \in Int, NEW g \in Int,
         NEW uu \in Int, NEW rr \in Int, NEW cc \in Int, NEW vv \in Int, NEW gg \in Int,
         u <= uu, r <= rr, c <= cc, v <= vv, g <= gg,
         NEW x, IsKey(x, s, u, r, c, v, g, id),
         NEW y, IsKey(y, s, uu, rr, cc, vv, gg, id)
  PROVE  x = y \/ LexLess(x, y)
<1>1. x \in Seq(Int) /\ y \in Seq(Int) /\ Len(x) = 6 + Len(id) /\ Len(y) = Len(x) /\ Len(id) \in Nat
  BY DEF IsKey
<1>a. \A j \in 7 .. Len(x) : x[j] = id[j - 6]
  BY DEF IsKey
<1>b. \A j \in 7 .. Len(x) : y[j] = id[j - 6]
  BY <1>1 DEF IsKey
<1>2. x[1] <= y[1] /\ x[2] <= y[2] /\ x[3] <= y[3] /\ x[4] <= y[4] /\ x[5] <= y[5] /\ x[6] <= y[6]
  BY DEF IsKey
<1>3. ASSUME NEW j \in 1 .. Len(x) PROVE x[j] <= y[j]
  <2>1. j \in {1, 2, 3, 4, 5, 6} \/ j \in 7 .. Len(x)
    BY <1>1
  <2>2. x[j] \in Int
    BY <1>1
  <2>3. ASSUME j \in 7 .. Len(x) PROVE x[j] <= y[j]
    <3>1. x[j] = y[j]
      BY <1>a, <1>b, <2>3
    <3> QED
      BY <2>2, <3>1
  <2>4. ASSUME j \in {1, 2, 3, 4, 5, 6} PROVE x[j] <= y[j]
    BY <1>2, <2>4
  <2> QED
    BY <2>1, <2>3, <2>4
<1> QED
  BY <1>1, <1>3, NoGreater

\* The orderings a plan can have when every quantity lies anywhere between its bounds.
Outcomes(p) ==
  LET b == p.bounds
      span(q) == q.low .. q.high
  IN  {KeyAt(p, u, r, c, v, a) : u \in span(b.preference), r \in span(b.risk), c \in span(b.cost),
                                 v \in span(b.coverage), a \in span(b.age)}

\* Both envelopes are outcomes, and every outcome lies between them.
LEMMA Envelopes ==
  ASSUME NEW p, IsPlan(p), p.bounded
  PROVE  /\ conservative_envelope_key(p) \in Realisations(p)
         /\ optimistic_envelope_key(p) \in Realisations(p)
         /\ authoritative_ordering_key(p) \in Outcomes(p)
         /\ Realisations(p) \subseteq Outcomes(p)
         /\ \A x \in Outcomes(p) :
              /\ x \in Seq(Int) /\ Len(x) = 6 + Len(p.id) /\ \A j \in 7 .. Len(x) : x[j] = p.id[j - 6]
              /\ x = conservative_envelope_key(p) \/ LexLess(x, conservative_envelope_key(p))
              /\ x = optimistic_envelope_key(p) \/ LexLess(optimistic_envelope_key(p), x)
<1> DEFINE b == p.bounds
           s == status_rank(p)
           id == p.id
           ul == b.preference.low
           uh == b.preference.high
           rl == b.risk.low
           rh == b.risk.high
           cl == b.cost.low
           ch == b.cost.high
           vl == b.coverage.low
           vh == b.coverage.high
           gl == b.age.low
           gh == b.age.high
           con == conservative_envelope_key(p)
           opt == optimistic_envelope_key(p)
           aut == authoritative_ordering_key(p)
           rb == b.risk.base
           cb == b.cost.base
<1>1. /\ ul \in Int /\ uh \in Int /\ ul <= uh
      /\ rl \in Int /\ rh \in Int /\ rl <= rh
      /\ cl \in Int /\ ch \in Int /\ cl <= ch
      /\ vl \in Int /\ vh \in Int /\ vl <= vh
      /\ gl \in Int /\ gh \in Int /\ gl <= gh
      /\ id \in Seq(Int) /\ s \in Int
      /\ rb \in rl .. rh /\ cb \in cl .. ch
  BY DEF IsPlan, status_rank
<1>2. /\ con = KeyAt(p, ul, rh, ch, vl, gh)
      /\ opt = KeyAt(p, uh, rl, cl, vh, gl)
      /\ aut = KeyAt(p, ul, rb, cb, vl, gh)
  BY DEF conservative_envelope_key, optimistic_envelope_key, authoritative_ordering_key
<1>3. Outcomes(p) = {KeyAt(p, u, r, c, v, a) : u \in ul .. uh, r \in rl .. rh, c \in cl .. ch,
                                               v \in vl .. vh, a \in gl .. gh}
  BY DEF Outcomes
<1>4. Realisations(p) = {KeyAt(p, u, r, c, v, a) : u \in {ul, uh}, r \in {rl, rh}, c \in {cl, ch},
                                                   v \in {vl, vh}, a \in {gl, gh}}
  BY DEF Realisations
<1>k. ASSUME NEW u, NEW r, NEW c, NEW v, NEW g PROVE KeyAt(p, u, r, c, v, g) = <<s, -u, r, c, -v, g>> \o id
  BY DEF KeyAt
<1> HIDE DEF b, s, id, ul, uh, rl, rh, cl, ch, vl, vh, gl, gh, con, opt, aut, rb, cb
<1>5. con \in Realisations(p) /\ opt \in Realisations(p)
  <2>1. /\ ul \in {ul, uh} /\ uh \in {ul, uh} /\ rl \in {rl, rh} /\ rh \in {rl, rh} /\ cl \in {cl, ch} /\ ch \in {cl, ch}
        /\ vl \in {vl, vh} /\ vh \in {vl, vh} /\ gl \in {gl, gh} /\ gh \in {gl, gh}
    OBVIOUS
  <2> QED
    BY <1>2, <1>4, <2>1
<1>6. /\ {ul, uh} \subseteq ul .. uh /\ {rl, rh} \subseteq rl .. rh /\ {cl, ch} \subseteq cl .. ch
      /\ {vl, vh} \subseteq vl .. vh /\ {gl, gh} \subseteq gl .. gh
  BY <1>1
<1>7. Realisations(p) \subseteq Outcomes(p)
  BY <1>3, <1>4, <1>6
<1>8. aut \in Outcomes(p)
  <2>1. ul \in ul .. uh /\ vl \in vl .. vh /\ gh \in gl .. gh /\ rb \in rl .. rh /\ cb \in cl .. ch
    BY <1>1
  <2> QED
    BY <1>2, <1>3, <2>1
<1>9. ASSUME NEW x \in Outcomes(p)
      PROVE  /\ x \in Seq(Int) /\ Len(x) = 6 + Len(id) /\ \A j \in 7 .. Len(x) : x[j] = id[j - 6]
             /\ x = con \/ LexLess(x, con)
             /\ x = opt \/ LexLess(opt, x)
  <2>1. PICK u \in ul .. uh, r \in rl .. rh, c \in cl .. ch, v \in vl .. vh, g \in gl .. gh :
               x = KeyAt(p, u, r, c, v, g)
    BY <1>3
  <2>2. /\ u \in Int /\ ul <= u /\ u <= uh /\ r \in Int /\ rl <= r /\ r <= rh /\ c \in Int /\ cl <= c /\ c <= ch
        /\ v \in Int /\ vl <= v /\ v <= vh /\ g \in Int /\ gl <= g /\ g <= gh
    BY <1>1
  <2>3. -u \in Int /\ -v \in Int /\ -ul \in Int /\ -vl \in Int /\ -uh \in Int /\ -vh \in Int
        /\ -uh <= -u /\ -u <= -ul /\ -vh <= -v /\ -v <= -vl
    BY <1>1, <2>2
  <2>4. /\ IsKey(x, s, -u, r, c, -v, g, id)
        /\ IsKey(con, s, -ul, rh, ch, -vl, gh, id)
        /\ IsKey(opt, s, -uh, rl, cl, -vh, gl, id)
    <3>1. /\ x = <<s, -u, r, c, -v, g>> \o id
          /\ con = <<s, -ul, rh, ch, -vl, gh>> \o id
          /\ opt = <<s, -uh, rl, cl, -vh, gl>> \o id
      BY <1>2, <1>k, <2>1
    <3> QED
      BY <1>1, <2>2, <2>3, <3>1, KeyShape
  <2>5. x = con \/ LexLess(x, con)
    BY <1>1, <2>2, <2>3, <2>4, Between
  <2>6. x = opt \/ LexLess(opt, x)
    BY <1>1, <2>2, <2>3, <2>4, Between
  <2> QED
    BY <2>4, <2>5, <2>6 DEF IsKey
<1> QED
  BY <1>5, <1>7, <1>8, <1>9 DEF con, opt, aut, id

(***************************************************************************)
(* Ranks.                                                                  *)
(***************************************************************************)
\* The plans that can be ranked are finitely many and have bounds and a key of numbers.
LEMMA RankablePlans ==
  ASSUME NEW plans, ArePlans(plans)
  PROVE  /\ IsFiniteSet(Rankable(plans))
         /\ \A p \in Rankable(plans) : /\ p \in plans /\ IsPlan(p) /\ p.bounded
                                       /\ authoritative_ordering_key(p) \in Seq(Int)
<1>1. IsFiniteSet(plans) /\ Rankable(plans) \in SUBSET plans
  BY DEF ArePlans, Rankable, EligiblePlans
<1>2. IsFiniteSet(Rankable(plans))
  BY <1>1, FS_Subset
<1>3. ASSUME NEW p \in Rankable(plans) PROVE p \in plans /\ IsPlan(p) /\ p.bounded
  BY DEF ArePlans, Rankable, EligiblePlans
<1>4. ASSUME NEW p \in Rankable(plans) PROVE authoritative_ordering_key(p) \in Seq(Int)
  BY <1>3, Envelopes
<1> QED
  BY <1>2, <1>3, <1>4

\* Plans of one key have one id.
LEMMA OneKeyOneId ==
  ASSUME NEW p, IsPlan(p), p.bounded, NEW q, IsPlan(q), q.bounded,
         authoritative_ordering_key(p) = authoritative_ordering_key(q)
  PROVE  p.id = q.id
<1> DEFINE k == authoritative_ordering_key(p)
           l == authoritative_ordering_key(q)
<1>1. /\ k \in Seq(Int) /\ Len(k) = 6 + Len(p.id) /\ \A j \in 7 .. Len(k) : k[j] = p.id[j - 6]
  BY Envelopes
<1>2. /\ l \in Seq(Int) /\ Len(l) = 6 + Len(q.id) /\ \A j \in 7 .. Len(l) : l[j] = q.id[j - 6]
  BY Envelopes
<1>3. p.id \in Seq(Int) /\ q.id \in Seq(Int) /\ k = l
  BY DEF IsPlan
<1> HIDE DEF k, l
<1> QED
  BY <1>1, <1>2, <1>3, KeysDiffer

\* RanksBefore is a strict total order of the plans that can be ranked.
LEMMA RankIsOrder ==
  ASSUME NEW plans, ArePlans(plans), NEW p \in Rankable(plans), NEW q \in Rankable(plans)
  PROVE  /\ ~ RanksBefore(p, p)
         /\ p # q => RanksBefore(p, q) \/ RanksBefore(q, p)
         /\ \A r \in Rankable(plans) : RanksBefore(p, q) /\ RanksBefore(q, r) => RanksBefore(p, r)
<1> DEFINE key(x) == authoritative_ordering_key(x)
<1>1. \A x \in Rankable(plans) : key(x) \in Seq(Int) /\ x.src \in Seq(Int) /\ x \in plans /\ IsPlan(x) /\ x.bounded
  BY RankablePlans DEF IsPlan
<1>2. \A x, y : RanksBefore(x, y) <=> LexLess(key(x), key(y)) \/ (key(x) = key(y) /\ LexLess(x.src, y.src))
  BY DEF RanksBefore
<1>3. p # q /\ key(p) = key(q) => p.src # q.src
  BY <1>1, OneKeyOneId DEF ArePlans
<1> HIDE DEF key
<1>4. ~ RanksBefore(p, p)
  BY <1>1, <1>2, LexIrreflexive
<1>5. p # q => RanksBefore(p, q) \/ RanksBefore(q, p)
  <2>1. CASE key(p) # key(q)
    BY <1>1, <1>2, <2>1, LexTotal
  <2>2. CASE key(p) = key(q)
    BY <1>1, <1>2, <1>3, <2>2, LexTotal
  <2> QED
    BY <2>1, <2>2
<1>6. ASSUME NEW r \in Rankable(plans), RanksBefore(p, q), RanksBefore(q, r) PROVE RanksBefore(p, r)
  <2>1. \/ LexLess(key(p), key(q)) /\ LexLess(key(q), key(r))
        \/ LexLess(key(p), key(q)) /\ key(q) = key(r)
        \/ key(p) = key(q) /\ LexLess(key(q), key(r))
        \/ key(p) = key(q) /\ key(q) = key(r) /\ LexLess(p.src, q.src) /\ LexLess(q.src, r.src)
    BY <1>2, <1>6
  <2>2. ASSUME LexLess(key(p), key(q)), LexLess(key(q), key(r)) PROVE LexLess(key(p), key(r))
    BY <1>1, <2>2, LexTransitive
  <2>3. ASSUME LexLess(p.src, q.src), LexLess(q.src, r.src) PROVE LexLess(p.src, r.src)
    BY <1>1, <2>3, LexTransitive
  <2> QED
    BY <1>2, <2>1, <2>2, <2>3
<1> QED
  BY <1>4, <1>5, <1>6

\* The ranks follow the order, and are numbers between 1 and the number of plans.
LEMMA RankIsMonotone ==
  ASSUME NEW plans, ArePlans(plans), NEW p \in Rankable(plans), NEW q \in Rankable(plans)
  PROVE  /\ RankOf(plans, p) \in 1 .. Cardinality(Rankable(plans))
         /\ RanksBefore(p, q) <=> RankOf(plans, p) < RankOf(plans, q)
<1> DEFINE S == Rankable(plans)
           ahead(x) == {y \in S : RanksBefore(y, x)}
<1>1. IsFiniteSet(S)
  BY RankablePlans
<1>2. \A x, y \in S : /\ ~ RanksBefore(x, x)
                      /\ x # y => RanksBefore(x, y) \/ RanksBefore(y, x)
                      /\ \A r \in S : RanksBefore(x, y) /\ RanksBefore(y, r) => RanksBefore(x, r)
  BY RankIsOrder
<1>3. \A x : RankOf(plans, x) = 1 + Cardinality(ahead(x))
  BY DEF RankOf
<1> HIDE DEF S
<1>4. ASSUME NEW x \in S
      PROVE  IsFiniteSet(ahead(x)) /\ Cardinality(ahead(x)) \in Nat /\ Cardinality(ahead(x)) < Cardinality(S)
  <2>1. ahead(x) \in SUBSET S /\ x \notin ahead(x)
    BY <1>2
  <2> HIDE DEF ahead
  <2>2. /\ IsFiniteSet(ahead(x)) /\ Cardinality(ahead(x)) <= Cardinality(S)
        /\ Cardinality(S) = Cardinality(ahead(x)) => S = ahead(x)
    BY <1>1, <2>1, FS_Subset
  <2>3. Cardinality(S) # Cardinality(ahead(x))
    BY <2>1, <2>2
  <2>4. Cardinality(S) \in Nat /\ Cardinality(ahead(x)) \in Nat
    BY <1>1, <2>2, FS_CardinalityType
  <2> QED
    BY <2>2, <2>3, <2>4
<1>5. Cardinality(S) \in Nat
  BY <1>1, FS_CardinalityType
<1>6. ASSUME NEW x \in S, NEW y \in S, RanksBefore(x, y) PROVE Cardinality(ahead(x)) < Cardinality(ahead(y))
  <2>1. ahead(x) \in SUBSET ahead(y) /\ x \in ahead(y) /\ x \notin ahead(x)
    BY <1>2, <1>6
  <2>2. IsFiniteSet(ahead(y)) /\ Cardinality(ahead(x)) \in Nat /\ Cardinality(ahead(y)) \in Nat
    BY <1>4
  <2> HIDE DEF ahead
  <2>3. /\ Cardinality(ahead(x)) <= Cardinality(ahead(y))
        /\ Cardinality(ahead(y)) = Cardinality(ahead(x)) => ahead(y) = ahead(x)
    BY <2>1, <2>2, FS_Subset
  <2> QED
    BY <2>1, <2>2, <2>3
<1>7. p \in S /\ q \in S
  BY DEF S
<1> HIDE DEF ahead
<1>8. RankOf(plans, p) \in 1 .. Cardinality(S)
  BY <1>3, <1>4, <1>5, <1>7
<1>9. RanksBefore(p, q) => RankOf(plans, p) < RankOf(plans, q)
  BY <1>3, <1>4, <1>6, <1>7
<1>10. ASSUME RankOf(plans, p) < RankOf(plans, q) PROVE RanksBefore(p, q)
  <2>1. Cardinality(ahead(p)) < Cardinality(ahead(q)) /\ Cardinality(ahead(p)) \in Nat /\ Cardinality(ahead(q)) \in Nat
    BY <1>3, <1>4, <1>7, <1>10
  <2>2. p # q /\ ~ RanksBefore(q, p)
    BY <1>6, <1>7, <2>1
  <2> QED
    BY <1>2, <1>7, <2>2
<1> QED
  BY <1>8, <1>9, <1>10 DEF S

\* The list that rank_and_frontiers builds from the sorted plans has each plan that can be
\* ranked in exactly one place, and a plan comes earlier exactly when its key (and, for equal
\* keys, its source) is less.
THEOREM RankingIsComplete ==
  ASSUME NEW plans, ArePlans(plans)
  PROVE  /\ \A n \in 1 .. Cardinality(Rankable(plans)) :
              \E p \in Rankable(plans) : /\ RankOf(plans, p) = n
                                         /\ \A q \in Rankable(plans) : RankOf(plans, q) = n => q = p
         /\ \A p, q \in Rankable(plans) : RanksBefore(p, q) <=> RankOf(plans, p) < RankOf(plans, q)
<1> DEFINE S == Rankable(plans)
           N == 1 .. Cardinality(S)
           f == [p \in S |-> RankOf(plans, p)]
<1>1. IsFiniteSet(S)
  BY RankablePlans
<1>2. \A p, q \in S : /\ RankOf(plans, p) \in N
                      /\ RanksBefore(p, q) <=> RankOf(plans, p) < RankOf(plans, q)
                      /\ p # q => RanksBefore(p, q) \/ RanksBefore(q, p)
  BY RankIsMonotone, RankIsOrder
<1>3. \A p, q \in S : RankOf(plans, p) = RankOf(plans, q) => p = q
  BY <1>2
<1>4. f \in Injection(S, N)
  BY <1>2, <1>3 DEF Injection, IsInjective
<1>5. Cardinality(S) \in Nat
  BY <1>1, FS_CardinalityType
<1>6. IsFiniteSet(N) /\ Cardinality(N) = Cardinality(S)
  <2> DEFINE n == Cardinality(S)
  <2>1. n \in Int /\ 1 \in Int /\ n \in Nat
    BY <1>5
  <2> HIDE DEF n
  <2>2. IsFiniteSet(1 .. n) /\ Cardinality(1 .. n) = IF 1 > n THEN 0 ELSE n - 1 + 1
    BY <2>1, FS_Interval
  <2>3. IsFiniteSet(1 .. n) /\ Cardinality(1 .. n) = n
    BY <2>1, <2>2
  <2> QED
    BY <2>3 DEF n
<1> HIDE DEF S, N
<1>7. f \in Surjection(S, N)
  <2> HIDE DEF f
  <2> QED
    BY <1>4, <1>6, FS_Injection
<1>8. \A n \in N : \E p \in S : RankOf(plans, p) = n
  BY <1>7 DEF Surjection
<1> QED
  BY <1>2, <1>3, <1>8 DEF S, N

\* The selection exists whenever some plan can be ranked, and it is before every other.
THEOREM SelectionIsFirst ==
  ASSUME NEW plans, ArePlans(plans), Rankable(plans) # {}
  PROVE  /\ Selection(plans) \in Rankable(plans)
         /\ \A q \in Rankable(plans) : q # Selection(plans) => RanksBefore(Selection(plans), q)
<1>1. IsFiniteSet(Rankable(plans))
  BY RankablePlans
<1>2. 1 \in 1 .. Cardinality(Rankable(plans))
  <2>1. Cardinality(Rankable(plans)) \in Nat /\ Cardinality(Rankable(plans)) # 0
    BY <1>1, FS_CardinalityType, FS_EmptySet
  <2> QED
    BY <2>1
<1>3. \E p \in Rankable(plans) : RankOf(plans, p) = 1
  BY <1>2, RankingIsComplete
<1>4. Selection(plans) \in Rankable(plans) /\ RankOf(plans, Selection(plans)) = 1
  BY <1>3 DEF Selection
<1>5. ASSUME NEW q \in Rankable(plans), q # Selection(plans) PROVE RanksBefore(Selection(plans), q)
  <2>1. RankOf(plans, q) \in Nat /\ RankOf(plans, q) >= 1
    BY <1>4, RankIsMonotone
  <2>2. ~ RanksBefore(q, Selection(plans))
    BY <1>4, <2>1, RankIsMonotone
  <2> QED
    BY <1>4, <1>5, <2>2, RankIsOrder
<1> QED
  BY <1>4, <1>5

(***************************************************************************)
(* Stability.                                                              *)
(***************************************************************************)
\* Comparing the best case of one plan with the worst case of the other settles every case
\* in between, because a key grows with each of its numbers.
LEMMA EnvelopesDecide ==
  ASSUME NEW p, IsPlan(p), p.bounded, NEW q, IsPlan(q), q.bounded, p.id # q.id
  PROVE  /\ (~ LexLess(optimistic_envelope_key(q), conservative_envelope_key(p))) =>
              \A x \in Outcomes(p), y \in Outcomes(q) : LexLess(x, y)
         /\ (\A x \in Realisations(p), y \in Realisations(q) : LexLess(x, y)) =>
              ~ LexLess(optimistic_envelope_key(q), conservative_envelope_key(p))
<1> DEFINE con == conservative_envelope_key(p)
           opt == optimistic_envelope_key(q)
<1>1. /\ con \in Realisations(p) /\ Realisations(p) \subseteq Outcomes(p)
      /\ \A x \in Outcomes(p) :
           /\ x \in Seq(Int) /\ Len(x) = 6 + Len(p.id) /\ \A j \in 7 .. Len(x) : x[j] = p.id[j - 6]
           /\ x = con \/ LexLess(x, con)
  BY Envelopes
<1>2. /\ opt \in Realisations(q) /\ Realisations(q) \subseteq Outcomes(q)
      /\ \A y \in Outcomes(q) :
           /\ y \in Seq(Int) /\ Len(y) = 6 + Len(q.id) /\ \A j \in 7 .. Len(y) : y[j] = q.id[j - 6]
           /\ y = opt \/ LexLess(opt, y)
  BY Envelopes
<1>3. p.id \in Seq(Int) /\ q.id \in Seq(Int)
  BY DEF IsPlan
<1> HIDE DEF con, opt
<1>4. con \in Seq(Int) /\ opt \in Seq(Int)
  BY <1>1, <1>2
<1>5. con # opt
  <2>1. Len(con) = 6 + Len(p.id) /\ \A j \in 7 .. Len(con) : con[j] = p.id[j - 6]
    BY <1>1
  <2>2. Len(opt) = 6 + Len(q.id) /\ \A j \in 7 .. Len(opt) : opt[j] = q.id[j - 6]
    BY <1>2
  <2>3. con = opt => p.id = q.id
    BY <1>3, <1>4, <2>1, <2>2, KeysDiffer
  <2> QED
    BY <2>3
<1>6. ASSUME ~ LexLess(opt, con), NEW x \in Outcomes(p), NEW y \in Outcomes(q) PROVE LexLess(x, y)
  <2>1. LexLess(con, opt)
    BY <1>4, <1>5, <1>6, LexTotal
  <2>2. x \in Seq(Int) /\ y \in Seq(Int) /\ (x = con \/ LexLess(x, con)) /\ (y = opt \/ LexLess(opt, y))
    BY <1>1, <1>2
  <2>3. LexLess(x, opt)
    BY <1>4, <2>1, <2>2, LexTransitive
  <2> QED
    BY <1>4, <2>2, <2>3, LexTransitive
<1>7. ASSUME \A x \in Realisations(p), y \in Realisations(q) : LexLess(x, y), LexLess(opt, con) PROVE FALSE
  <2>1. LexLess(con, opt)
    BY <1>1, <1>2, <1>7
  <2>2. LexLess(con, con)
    BY <1>4, <1>7, <2>1, LexTransitive
  <2> QED
    BY <1>4, <2>2, LexIrreflexive
<1> QED
  BY <1>6, <1>7 DEF con, opt

\* assess_rank_stability compares one pair of keys for each competitor.  That is enough:
\* STABLE is reported exactly when every competitor has bounds and loses at all combinations
\* of the ends of the bounds.
THEOREM StableIsFirst ==
  ASSUME NEW plans, ArePlans(plans), Rankable(plans) # {}
  PROVE  rank_and_frontiers(plans).stability = "STABLE" <=> FirstHoweverItTurnsOut(plans)
<1> DEFINE s == Selection(plans)
           others == {p \in EligiblePlans(plans) : p.id # s.id}
           A == assess_rank_stability(s, others)
<1>1. s \in Rankable(plans) /\ s \in plans /\ IsPlan(s) /\ s.bounded
  BY SelectionIsFirst, RankablePlans
<1>2. \A p \in others : IsPlan(p) /\ p.id # s.id
  BY DEF ArePlans, EligiblePlans
<1>3. ranked_ids(plans) # <<>>
  <2>1. IsFiniteSet(Rankable(plans))
    BY RankablePlans
  <2>2. Cardinality(Rankable(plans)) \in Nat /\ Cardinality(Rankable(plans)) # 0
    BY <2>1, FS_CardinalityType, FS_EmptySet
  <2>3. DOMAIN ranked_ids(plans) = 1 .. Cardinality(Rankable(plans)) /\ 1 \in 1 .. Cardinality(Rankable(plans))
    BY <2>2 DEF ranked_ids
  <2>4. 1 \notin DOMAIN <<>>
    OBVIOUS
  <2> QED
    BY <2>3, <2>4
<1>4. rank_and_frontiers(plans).stability = A.status
  BY <1>3 DEF rank_and_frontiers
<1>5. A.status = "STABLE" <=>
        \A p \in others : p.bounded /\ ~ LexLess(optimistic_envelope_key(p), conservative_envelope_key(s))
  BY <1>1 DEF assess_rank_stability
<1>6. FirstHoweverItTurnsOut(plans) <=>
        \A p \in others : p.bounded /\ \A x \in Realisations(s), y \in Realisations(p) : LexLess(x, y)
  BY DEF FirstHoweverItTurnsOut
<1> HIDE DEF s, others, A
<1>7. ASSUME NEW p \in others, p.bounded
      PROVE  ~ LexLess(optimistic_envelope_key(p), conservative_envelope_key(s)) <=>
               \A x \in Realisations(s), y \in Realisations(p) : LexLess(x, y)
  <2>1. Realisations(s) \subseteq Outcomes(s) /\ Realisations(p) \subseteq Outcomes(p)
    BY <1>1, <1>2, <1>7, Envelopes
  <2> QED
    BY <1>1, <1>2, <1>7, <2>1, EnvelopesDecide
<1> QED
  BY <1>4, <1>5, <1>6, <1>7

\* A selection reported STABLE is before every competitor not only at the ends of the bounds
\* but for all values between them.
THEOREM StableInBetween ==
  ASSUME NEW plans, ArePlans(plans), Rankable(plans) # {},
         rank_and_frontiers(plans).stability = "STABLE",
         NEW p \in EligiblePlans(plans), p.id # Selection(plans).id
  PROVE  p.bounded /\ \A x \in Outcomes(Selection(plans)), y \in Outcomes(p) : LexLess(x, y)
<1>1. FirstHoweverItTurnsOut(plans)
  BY StableIsFirst
<1>2. p.bounded /\ \A x \in Realisations(Selection(plans)), y \in Realisations(p) : LexLess(x, y)
  BY <1>1 DEF FirstHoweverItTurnsOut
<1>3. IsPlan(Selection(plans)) /\ Selection(plans).bounded
  BY SelectionIsFirst, RankablePlans
<1>4. IsPlan(p)
  BY DEF ArePlans, EligiblePlans
<1> QED
  BY <1>2, <1>3, <1>4, EnvelopesDecide

\* Induction on the naturals, for a set.
LEMMA NatSetInduction ==
  ASSUME NEW P \in SUBSET Nat, 0 \in P, \A n \in P : n + 1 \in P
  PROVE  P = Nat
<1> SUFFICES ASSUME Nat \ P # {} PROVE FALSE
  OBVIOUS
<1>1. PICK n \in Nat \ P : \A k \in Nat \ P : n <= k
  BY LeastNatural
<1>2. n # 0 /\ n - 1 \in Nat /\ n - 1 \notin Nat \ P
  BY <1>1
<1> QED
  BY <1>1, <1>2

\* What is true of the empty set and of a set with one element more is true of a finite set.
LEMMA FiniteSubsetInduction ==
  ASSUME NEW S, IsFiniteSet(S), NEW P \in SUBSET SUBSET S, {} \in P,
         \A T \in P : \A x \in S \ T : T \cup {x} \in P
  PROVE  S \in P
<1> DEFINE Q == {n \in Nat : \A T \in SUBSET S : Cardinality(T) = n => T \in P}
<1>1. 0 \in Q
  <2> SUFFICES ASSUME NEW T \in SUBSET S, Cardinality(T) = 0 PROVE T \in P
    OBVIOUS
  <2> QED
    BY FS_Subset, FS_EmptySet
<1>2. ASSUME NEW n \in Q PROVE n + 1 \in Q
  <2> SUFFICES ASSUME NEW T \in SUBSET S, Cardinality(T) = n + 1 PROVE T \in P
    OBVIOUS
  <2>1. IsFiniteSet(T) /\ T # {}
    BY FS_Subset, FS_EmptySet
  <2>2. PICK x \in T : TRUE
    BY <2>1
  <2>3. Cardinality(T \ {x}) = Cardinality(T) - 1
    BY <2>1, <2>2, FS_RemoveElement
  <2>4. Cardinality(T \ {x}) = n /\ T \ {x} \in SUBSET S
    BY <2>3
  <2>5. T \ {x} \in P
    BY <2>4
  <2>6. (T \ {x}) \cup {x} = T /\ x \in S \ (T \ {x})
    BY <2>2
  <2> QED
    BY <2>5, <2>6
<1> HIDE DEF Q
<1>3. Q = Nat
  <2>1. Q \in SUBSET Nat
    BY DEF Q
  <2> QED
    BY <1>1, <1>2, <2>1, NatSetInduction
<1> QED
  BY <1>3, FS_CardinalityType DEF Q

\* The values of a function on a finite set are finitely many.
LEMMA FiniteRange ==
  ASSUME NEW f, IsFiniteSet(DOMAIN f)
  PROVE  IsFiniteSet({f[x] : x \in DOMAIN f})
<1> DEFINE S == DOMAIN f  T == {f[x] : x \in S}  g == [x \in S |-> f[x]]
<1>1. g \in Surjection(S, T)
  BY DEF Surjection
<1> HIDE DEF g, T
<1>2. IsFiniteSet(T)
  BY <1>1, FS_Surjection
<1> QED
  BY <1>2 DEF T

\* A finite set of numbers that is not empty has a greatest and a least member.
LEMMA Extrema ==
  ASSUME NEW S \in SUBSET Int, IsFiniteSet(S), S # {}
  PROVE  /\ Max(S) \in S /\ \A x \in S : x <= Max(S)
         /\ Min(S) \in S /\ \A x \in S : Min(S) <= x
<1> DEFINE P == {T \in SUBSET S : T # {} => /\ \E m \in T : \A x \in T : x <= m
                                           /\ \E m \in T : \A x \in T : m <= x}
<1>1. {} \in P
  OBVIOUS
<1>2. ASSUME NEW T \in P, NEW y \in S \ T PROVE T \cup {y} \in P
  <2>1. CASE T = {}
    BY <2>1
  <2>2. CASE T # {}
    <3>1. PICK m \in T : \A x \in T : x <= m
      BY <2>2
    <3>2. PICK k \in T : \A x \in T : k <= x
      BY <2>2
    <3>3. m \in Int /\ k \in Int /\ y \in Int /\ T \subseteq Int
      OBVIOUS
    <3>4. \E n \in T \cup {y} : \A x \in T \cup {y} : x <= n
      <4>1. CASE m <= y
        BY <3>1, <3>3, <4>1
      <4>2. CASE y <= m
        BY <3>1, <3>3, <4>2
      <4> QED
        BY <3>3, <4>1, <4>2
    <3>5. \E n \in T \cup {y} : \A x \in T \cup {y} : n <= x
      <4>1. CASE k <= y
        BY <3>2, <3>3, <4>1
      <4>2. CASE y <= k
        BY <3>2, <3>3, <4>2
      <4> QED
        BY <3>3, <4>1, <4>2
    <3> QED
      BY <3>4, <3>5
  <2> QED
    BY <2>1, <2>2
<1> HIDE DEF P
<1>3. S \in P
  <2>1. P \in SUBSET SUBSET S
    BY DEF P
  <2> QED
    BY <1>1, <1>2, <2>1, FiniteSubsetInduction
<1>4. (\E m \in S : \A x \in S : m >= x) /\ (\E m \in S : \A x \in S : m <= x)
  <2>1. (\E m \in S : \A x \in S : x <= m) /\ (\E m \in S : \A x \in S : m <= x)
    BY <1>3 DEF P
  <2> QED
    BY <2>1
<1>5. Max(S) \in S /\ \A x \in S : Max(S) >= x
  BY <1>4 DEF Max
<1>6. Min(S) \in S /\ \A x \in S : Min(S) <= x
  BY <1>4 DEF Min
<1> QED
  BY <1>5, <1>6

(***************************************************************************)
(* Sums.                                                                   *)
(***************************************************************************)
\* The partial sums of a function, by the subsets of its domain.
IsPartialSum(f, g) ==
    g = [s \in SUBSET DOMAIN f |->
            IF s = {} THEN 0 ELSE f[CHOOSE x \in s : TRUE] + g[s \ {CHOOSE x \in s : TRUE}]]

\* The partial sums of a function.
PartialSum(f) == CHOOSE g : IsPartialSum(f, g)

\* A sum over a function is the last of its partial sums.
LEMMA SumIsPartialSum ==
  ASSUME NEW f
  PROVE  SumFunction(f) = PartialSum(f)[DOMAIN f]
  BY DEF SumFunction, SumFunctionOnSet, FoldFunctionOnSet, MapThenFoldSet, PartialSum, IsPartialSum

\* The partial sums exist: they are defined from the smaller subsets to the larger.
LEMMA PartialSumExists ==
  ASSUME NEW f, IsFiniteSet(DOMAIN f)
  PROVE  IsPartialSum(f, PartialSum(f))
<1> DEFINE D == DOMAIN f
           step(g, s) == IF s = {} THEN 0
                         ELSE f[CHOOSE x \in s : TRUE] + g[s \ {CHOOSE x \in s : TRUE}]
           Small(n) == {s \in SUBSET D : Cardinality(s) <= n}
           P == {n \in Nat : \E g : \A s \in Small(n) : g[s] = step(g, s)}
<1>0. \A s \in SUBSET D : IsFiniteSet(s) /\ Cardinality(s) \in Nat
  BY FS_Subset, FS_CardinalityType
<1>1. 0 \in P
  <2>1. \A s \in Small(0) : s = {}
    BY <1>0, FS_EmptySet
  <2>2. \A s \in Small(0) : [t \in {{}} |-> 0][s] = step([t \in {{}} |-> 0], s)
    BY <2>1
  <2> QED
    BY <2>2
<1>2. ASSUME NEW n \in P PROVE n + 1 \in P
  <2>1. PICK g : \A s \in Small(n) : g[s] = step(g, s)
    OBVIOUS
  <2> DEFINE h == [s \in SUBSET D |-> IF Cardinality(s) <= n THEN g[s] ELSE step(g, s)]
  <2>2. ASSUME NEW s \in Small(n + 1) PROVE h[s] = step(h, s)
    <3>1. CASE s = {}
      <4>1. Cardinality(s) <= n
        BY <3>1, FS_EmptySet
      <4> QED
        BY <2>1, <3>1, <4>1
    <3>2. CASE s # {}
      <4> DEFINE x == CHOOSE x \in s : TRUE
                 t == s \ {x}
      <4>1. x \in s
        BY <3>2
      <4>2. Cardinality(t) = Cardinality(s) - 1
        BY <1>0, <4>1, FS_RemoveElement
      <4>3. t \in SUBSET D /\ Cardinality(t) <= n
        BY <1>0, <4>2
      <4>4. h[t] = g[t]
        BY <4>3
      <4>5. h[s] = step(g, s)
        BY <2>1
      <4> QED
        BY <3>2, <4>4, <4>5
    <3> QED
      BY <3>1, <3>2
  <2> HIDE DEF h, step, Small
  <2>3. \E k : \A s \in Small(n + 1) : k[s] = step(k, s)
    BY <2>2
  <2>4. n + 1 \in Nat
    BY DEF P
  <2> QED
    BY <2>3, <2>4
<1> HIDE DEF P
<1>3. Cardinality(D) \in P
  <2>1. P \in SUBSET Nat
    BY DEF P
  <2>2. P = Nat
    BY <1>1, <1>2, <2>1, NatSetInduction
  <2> QED
    BY <2>2, FS_CardinalityType
<1>4. PICK g : \A s \in Small(Cardinality(D)) : g[s] = step(g, s)
  BY <1>3 DEF P
<1>5. \A s \in SUBSET D : s \in Small(Cardinality(D))
  BY FS_Subset
<1> DEFINE h == [s \in SUBSET D |-> g[s]]
<1>6. ASSUME NEW s \in SUBSET D PROVE h[s] = step(h, s)
  <2>1. g[s] = step(g, s)
    BY <1>4, <1>5
  <2>2. s \ {CHOOSE x \in s : TRUE} \in SUBSET D
    OBVIOUS
  <2> QED
    BY <2>1, <2>2
<1>7. h = [s \in SUBSET D |-> step(h, s)]
  BY <1>6
<1>8. IsPartialSum(f, h)
  BY <1>7 DEF IsPartialSum
<1> QED
  BY <1>8 DEF PartialSum

\* The partial sums of a function over the subsets of a finite domain, one step at a time.
LEMMA PartialSumSteps ==
  ASSUME NEW f, IsFiniteSet(DOMAIN f), NEW s \in SUBSET DOMAIN f
  PROVE  PartialSum(f)[s] =
           IF s = {} THEN 0
           ELSE f[CHOOSE x \in s : TRUE] + PartialSum(f)[s \ {CHOOSE x \in s : TRUE}]
<1>1. IsPartialSum(f, PartialSum(f))
  BY PartialSumExists
<1> QED
  BY <1>1 DEF IsPartialSum

\* The partial sum of s from those of its subsets.
SumStep(f, g, s) ==
    IF s = {} THEN 0 ELSE f[CHOOSE x \in s : TRUE] + g[s \ {CHOOSE x \in s : TRUE}]

\* The same, for all subsets of a named domain.
LEMMA PartialSumStepsOn ==
  ASSUME NEW D, NEW f, DOMAIN f = D, IsFiniteSet(D)
  PROVE  \A s \in SUBSET D : PartialSum(f)[s] = SumStep(f, PartialSum(f), s)
<1>1. IsFiniteSet(DOMAIN f)
  OBVIOUS
<1>2. \A s \in SUBSET DOMAIN f : PartialSum(f)[s] = SumStep(f, PartialSum(f), s)
  BY <1>1, PartialSumSteps DEF SumStep
<1> QED
  BY <1>2, Zenon

\* Sums of numbers are numbers.
LEMMA SumType ==
  ASSUME NEW f, IsFiniteSet(DOMAIN f), \A x \in DOMAIN f : f[x] \in Int
  PROVE  SumFunction(f) \in Int
<1> DEFINE D == DOMAIN f
           g == PartialSum(f)
           P == {n \in Nat : \A s \in SUBSET D : Cardinality(s) = n => g[s] \in Int}
<1>0. \A s \in SUBSET D : IsFiniteSet(s) /\ Cardinality(s) \in Nat
  BY FS_Subset, FS_CardinalityType
<1>s. \A s \in SUBSET D : g[s] = IF s = {} THEN 0
           ELSE f[CHOOSE x \in s : TRUE] + g[s \ {CHOOSE x \in s : TRUE}]
  BY PartialSumSteps
<1> HIDE DEF g
<1>1. 0 \in P
  BY <1>0, <1>s, FS_EmptySet
<1>2. ASSUME NEW n \in P PROVE n + 1 \in P
  <2> SUFFICES ASSUME NEW s \in SUBSET D, Cardinality(s) = n + 1 PROVE g[s] \in Int
    OBVIOUS
  <2> DEFINE x == CHOOSE x \in s : TRUE
  <2>n. n \in Nat /\ Cardinality({}) = 0
    BY FS_EmptySet DEF P
  <2>0. s # {}
    <3> SUFFICES ASSUME s = {} PROVE FALSE
      OBVIOUS
    <3> HIDE DEF P
    <3> QED
      BY <2>n
  <2>1. s # {} /\ x \in s
    BY <2>0
  <2>2. Cardinality(s \ {x}) = Cardinality(s) - 1
    BY <1>0, <2>1, FS_RemoveElement
  <2>3. g[s \ {x}] \in Int
    BY <2>2
  <2>4. g[s] = f[x] + g[s \ {x}] /\ f[x] \in Int
    BY <1>s, <2>1
  <2> HIDE DEF x
  <2> QED
    BY <2>3, <2>4
<1> HIDE DEF P
<1>3. P = Nat
  <2>1. P \in SUBSET Nat
    BY DEF P
  <2> QED
    BY <1>1, <1>2, <2>1, NatSetInduction
<1>4. g[D] \in Int
  BY <1>0, <1>3 DEF P
<1> QED
  BY <1>4, SumIsPartialSum DEF g

\* A sum of larger numbers is larger.
LEMMA SumMonotone ==
  ASSUME NEW D, IsFiniteSet(D), NEW f, NEW h, DOMAIN f = D, DOMAIN h = D,
         \A x \in D : f[x] \in Int /\ h[x] \in Int /\ f[x] <= h[x]
  PROVE  /\ SumFunction(f) \in Int /\ SumFunction(h) \in Int
         /\ SumFunction(f) <= SumFunction(h)
<1> DEFINE g == PartialSum(f)
           k == PartialSum(h)
           P == {n \in Nat : \A s \in SUBSET D : Cardinality(s) = n =>
                                g[s] \in Int /\ k[s] \in Int /\ g[s] <= k[s]}
<1>0. \A s \in SUBSET D : IsFiniteSet(s) /\ Cardinality(s) \in Nat
  BY FS_Subset, FS_CardinalityType
<1>s. \A s \in SUBSET D : g[s] = IF s = {} THEN 0
           ELSE f[CHOOSE x \in s : TRUE] + g[s \ {CHOOSE x \in s : TRUE}]
  <2>1. \A s \in SUBSET D : PartialSum(f)[s] = SumStep(f, PartialSum(f), s)
    BY PartialSumStepsOn
  <2> QED
    BY <2>1 DEF SumStep
<1>t. \A s \in SUBSET D : k[s] = IF s = {} THEN 0
           ELSE h[CHOOSE x \in s : TRUE] + k[s \ {CHOOSE x \in s : TRUE}]
  <2>1. \A s \in SUBSET D : PartialSum(h)[s] = SumStep(h, PartialSum(h), s)
    BY PartialSumStepsOn
  <2> QED
    BY <2>1 DEF SumStep
<1> HIDE DEF g, k
<1>1. 0 \in P
  <2> SUFFICES ASSUME NEW s \in SUBSET D, Cardinality(s) = 0
               PROVE  g[s] \in Int /\ k[s] \in Int /\ g[s] <= k[s]
    OBVIOUS
  <2>1. s = {}
    BY <1>0, FS_EmptySet
  <2>2. g[s] = 0 /\ k[s] = 0
    BY <1>s, <1>t, <2>1, Zenon
  <2> QED
    BY <2>2
<1>2. ASSUME NEW n \in P PROVE n + 1 \in P
  <2> SUFFICES ASSUME NEW s \in SUBSET D, Cardinality(s) = n + 1
               PROVE  g[s] \in Int /\ k[s] \in Int /\ g[s] <= k[s]
    OBVIOUS
  <2> DEFINE x == CHOOSE x \in s : TRUE
  <2>n. n \in Nat /\ Cardinality({}) = 0
    BY FS_EmptySet DEF P
  <2>0. s # {}
    <3> SUFFICES ASSUME s = {} PROVE FALSE
      OBVIOUS
    <3> HIDE DEF P
    <3> QED
      BY <2>n
  <2>1. s # {} /\ x \in s
    BY <2>0
  <2>2. Cardinality(s \ {x}) = Cardinality(s) - 1
    BY <1>0, <2>1, FS_RemoveElement
  <2>3. g[s \ {x}] \in Int /\ k[s \ {x}] \in Int /\ g[s \ {x}] <= k[s \ {x}]
    BY <2>2
  <2>4. g[s] = f[x] + g[s \ {x}] /\ k[s] = h[x] + k[s \ {x}]
    BY <1>s, <1>t, <2>1
  <2>5. f[x] \in Int /\ h[x] \in Int /\ f[x] <= h[x]
    BY <2>1
  <2> HIDE DEF x
  <2> QED
    BY <2>3, <2>4, <2>5
<1> HIDE DEF P
<1>3. P = Nat
  <2>1. P \in SUBSET Nat
    BY DEF P
  <2> QED
    BY <1>1, <1>2, <2>1, NatSetInduction
<1>4. g[D] \in Int /\ k[D] \in Int /\ g[D] <= k[D]
  BY <1>0, <1>3 DEF P
<1>5. SumFunction(f) = g[D] /\ SumFunction(h) = k[D]
  BY SumIsPartialSum DEF g, k
<1> QED
  BY <1>4, <1>5

\* A sum of positive numbers is positive, if there are any.
LEMMA SumPositive ==
  ASSUME NEW f, IsFiniteSet(DOMAIN f), DOMAIN f # {}, \A x \in DOMAIN f : f[x] \in Nat \ {0}
  PROVE  SumFunction(f) \in Nat \ {0}
<1> DEFINE D == DOMAIN f
           g == PartialSum(f)
           P == {n \in Nat : \A s \in SUBSET D : Cardinality(s) = n =>
                                g[s] \in Nat /\ (s # {} => g[s] # 0)}
<1>0. \A s \in SUBSET D : IsFiniteSet(s) /\ Cardinality(s) \in Nat
  BY FS_Subset, FS_CardinalityType
<1>s. \A s \in SUBSET D : g[s] = IF s = {} THEN 0
           ELSE f[CHOOSE x \in s : TRUE] + g[s \ {CHOOSE x \in s : TRUE}]
  BY PartialSumSteps
<1> HIDE DEF g
<1>1. 0 \in P
  BY <1>0, <1>s, FS_EmptySet
<1>2. ASSUME NEW n \in P PROVE n + 1 \in P
  <2> SUFFICES ASSUME NEW s \in SUBSET D, Cardinality(s) = n + 1 PROVE g[s] \in Nat /\ g[s] # 0
    OBVIOUS
  <2> DEFINE x == CHOOSE x \in s : TRUE
  <2>n. n \in Nat /\ Cardinality({}) = 0
    BY FS_EmptySet DEF P
  <2>0. s # {}
    <3> SUFFICES ASSUME s = {} PROVE FALSE
      OBVIOUS
    <3> HIDE DEF P
    <3> QED
      BY <2>n
  <2>1. s # {} /\ x \in s
    BY <2>0
  <2>2. Cardinality(s \ {x}) = Cardinality(s) - 1
    BY <1>0, <2>1, FS_RemoveElement
  <2>3. g[s \ {x}] \in Nat
    BY <2>2
  <2>4. g[s] = f[x] + g[s \ {x}] /\ f[x] \in Nat \ {0}
    BY <1>s, <2>1
  <2> HIDE DEF x
  <2> QED
    BY <2>3, <2>4
<1> HIDE DEF P
<1>3. P = Nat
  <2>1. P \in SUBSET Nat
    BY DEF P
  <2> QED
    BY <1>1, <1>2, <2>1, NatSetInduction
<1>4. g[D] \in Nat \ {0}
  BY <1>0, <1>3 DEF P
<1> QED
  BY <1>4, SumIsPartialSum DEF g

\* The first T values of applying g over and over, from a.
Iterates(f, a, g, T) == f[0] = a /\ \A n \in 1..T : f[n] = g[f[n - 1]]

\* A function that maps a set to itself can be applied as often as one likes.
LEMMA IteratesExist ==
  ASSUME NEW S, NEW a \in S, NEW g \in [S -> S], NEW T \in Nat
  PROVE  \E f \in [0..T -> S] : Iterates(f, a, g, T)
<1> DEFINE P == {k \in Nat : \E f \in [0..k -> S] : f[0] = a /\ \A n \in 1..k : f[n] = g[f[n - 1]]}
<1>1. 0 \in P
  <2> DEFINE h == [n \in 0..0 |-> a]
  <2>1. h \in [0..0 -> S] /\ h[0] = a /\ \A n \in 1..0 : h[n] = g[h[n - 1]]
    OBVIOUS
  <2> HIDE DEF h
  <2> QED
    BY <2>1
<1>2. ASSUME NEW k \in P PROVE k + 1 \in P
  <2>1. PICK f \in [0..k -> S] : f[0] = a /\ \A n \in 1..k : f[n] = g[f[n - 1]]
    OBVIOUS
  <2>0. k \in Nat
    OBVIOUS
  <2> DEFINE h == [n \in 0..(k + 1) |-> IF n = k + 1 THEN g[f[k]] ELSE f[n]]
  <2>2. h \in [0..(k + 1) -> S]
    BY <2>0, <2>1
  <2>3. h[0] = a
    BY <2>0, <2>1
  <2>4. ASSUME NEW n \in 1..(k + 1) PROVE h[n] = g[h[n - 1]]
    <3>1. CASE n = k + 1
      BY <2>0, <3>1
    <3>2. CASE n \in 1..k
      BY <2>0, <2>1, <3>2
    <3> QED
      BY <2>0, <3>1, <3>2
  <2> HIDE DEF h
  <2> QED
    BY <2>0, <2>2, <2>3, <2>4
<1> HIDE DEF P
<1>3. P = Nat
  <2>1. P \in SUBSET Nat
    BY DEF P
  <2> QED
    BY <1>1, <1>2, <2>1, NatSetInduction
<1> QED
  BY <1>3 DEF P, Iterates

(***************************************************************************)
(* Recall.                                                                 *)
(***************************************************************************)
\* Following the alias table from a name ends at a name.
LEMMA FollowedType ==
  ASSUME NEW aliases, IsFiniteSet(DOMAIN aliases), \A x \in DOMAIN aliases : aliases[x] \in Int,
         NEW name \in Int
  PROVE  Followed(aliases, name) \in Int
<1> DEFINE T == Cardinality(DOMAIN aliases)
           to(x) == IF x \in DOMAIN aliases THEN aliases[x] ELSE x
           g == [x \in Int |-> to(x)]
           Steps(f) == f = [n \in 0..T |-> IF n = 0 THEN name ELSE to(f[n - 1])]
<1>0. T \in Nat
  BY FS_CardinalityType
<1>1. g \in [Int -> Int]
  OBVIOUS
<1> HIDE DEF T
<1>2. PICK f \in [0..T -> Int] : f[0] = name /\ \A n \in 1..T : f[n] = g[f[n - 1]]
  <2> HIDE DEF g
  <2>1. \E f \in [0..T -> Int] : Iterates(f, name, g, T)
    BY <1>0, <1>1, IteratesExist, Zenon
  <2> QED
    BY <2>1 DEF Iterates
<1>3. Steps(f)
  <2>1. ASSUME NEW n \in 0..T PROVE f[n] = IF n = 0 THEN name ELSE to(f[n - 1])
    <3>1. CASE n = 0
      BY <1>2, <3>1
    <3>2. CASE n # 0
      <4>1. n \in 1..T /\ n - 1 \in 0..T
        BY <1>0, <3>2
      <4> QED
        BY <1>2, <3>2, <4>1
    <3> QED
      BY <3>1, <3>2
  <2> QED
    BY <2>1, <1>2
<1> DEFINE h == CHOOSE k : Steps(k)
<1>4. Steps(h)
  <2> HIDE DEF Steps
  <2> QED
    BY <1>3
<1>5. Followed(aliases, name) = h[T]
  BY DEF Followed, T
<1> HIDE DEF h
<1> DEFINE P == {n \in Nat : n <= T => h[n] \in Int}
<1>6. 0 \in P
  BY <1>0, <1>4
<1>7. ASSUME NEW n \in P PROVE n + 1 \in P
  <2> SUFFICES ASSUME n + 1 <= T PROVE h[n + 1] \in Int
    OBVIOUS
  <2>1. n \in Nat /\ n + 1 \in 0..T /\ n + 1 # 0 /\ (n + 1) - 1 = n /\ n <= T
    BY <1>0
  <2>2. h[n] \in Int
    BY <2>1
  <2>3. h[n + 1] = to(h[n])
    BY <1>4, <2>1
  <2> QED
    BY <2>2, <2>3
<1> HIDE DEF P
<1>8. P = Nat
  <2>1. P \in SUBSET Nat
    BY DEF P
  <2> QED
    BY <1>6, <1>7, <2>1, NatSetInduction
<1> QED
  BY <1>0, <1>5, <1>8 DEF P

\* Sums over sequences are sums over functions.
LEMMA SumSeqIsSum ==
  ASSUME NEW s
  PROVE  SumSeq(s) = SumFunction(s)
  BY DEF SumSeq, FoldSeq, FoldFunction, SumFunction, SumFunctionOnSet

\* What a finite set's members are mapped to is finite.
LEMMA FiniteCover ==
  ASSUME NEW f, IsFiniteSet(DOMAIN f), NEW T, \A y \in T : \E x \in DOMAIN f : y = f[x]
  PROVE  IsFiniteSet(T)
<1>1. IsFiniteSet({f[x] : x \in DOMAIN f})
  BY FiniteRange
<1>2. T \in SUBSET {f[x] : x \in DOMAIN f}
  OBVIOUS
<1> QED
  BY <1>1, <1>2, FS_Subset

\* What __post_init__ says of the keys of an input's collections.
LEMMA InputKeys ==
  ASSUME NEW in, DecisionGraphInput(in)
  PROVE  /\ \A r, s \in in.records : r.id = s.id => r = s
         /\ \A r, s \in in.offers : r.id = s.id => r = s
         /\ \A r, s \in in.evidence : r.id = s.id => r = s
         /\ \A r, s \in in.gates : r.id = s.id => r = s
         /\ \A r, s \in in.preferences : r.id = s.id => r = s
         /\ \A r, s \in in.facts : r.id = s.id => r = s
         /\ \A r, s \in in.riskRules : r.id = s.id => r = s
         /\ \A r, s \in in.current : r.id = s.id => r = s
         /\ \A r, s \in in.evidencePolicies : r.field = s.field => r = s
  BY DEF DecisionGraphInput, Unique

\* What an input guarantees of each of its rows.
LEMMA InputRows ==
  ASSUME NEW in, DecisionGraphInput(in)
  PROVE  /\ in.now \in Int
         /\ \A r \in in.records : RawCandidateRecord(r)
         /\ \A o \in in.offers : o.id \in Int /\ OfferCost(o)
         /\ \A e \in in.evidence : EvidenceRecord(e)
         /\ \A p \in in.evidencePolicies : EvidencePolicy(p)
         /\ \A g \in in.gates : GateRule(g)
         /\ \A c \in in.preferences : PreferenceCriterion(c)
         /\ \A r \in in.riskRules : RiskRule(r)
         /\ \A a \in in.current : CurrentActionRecord(a)
         /\ \A o \in in.outcomes : OutcomeObservation(o)
         /\ \A f \in in.facts : FrozenFact(f)
  BY DEF DecisionGraphInput

\* The collections of an input are finite.
LEMMA InputFinite ==
  ASSUME NEW in, DecisionGraphInput(in)
  PROVE  /\ IsFiniteSet(in.records) /\ IsFiniteSet(in.offers) /\ IsFiniteSet(in.evidence)
         /\ IsFiniteSet(in.gates) /\ IsFiniteSet(in.preferences) /\ IsFiniteSet(in.riskRules)
         /\ IsFiniteSet(in.current) /\ IsFiniteSet(in.outcomes) /\ IsFiniteSet(in.facts)
<1>1. \A x \in Collections : IsFiniteSet(in[x])
  BY DEF DecisionGraphInput
<1> QED
  BY <1>1 DEF Collections

\* A name that is followed ends at a name.
LEMMA CanonicalType ==
  ASSUME NEW in, DecisionGraphInput(in), NEW name \in Int
  PROVE  _canonical(in, name) \in Int
<1>1. IsFiniteSet(DOMAIN in.aliases) /\ \A x \in DOMAIN in.aliases : in.aliases[x] \in Int
  BY DEF DecisionGraphInput
<1> QED
  BY <1>1, FollowedType DEF _canonical

\* The records that are recalled, and those of one identity.
Kept(in) == {r \in in.records : _recall_exclusion(in, r) = "NONE"}
Alike(in, key) == {r \in Kept(in) : _identity_key(in, r) = key}

\* The representatives and the identities of a recall, by the groups they come from.
LEMMA RecallParts ==
  ASSUME NEW in
  PROVE  /\ recall_and_deduplicate(in).representatives =
              {Representative(in, k, Alike(in, k)) : k \in {_identity_key(in, r) : r \in Kept(in)}}
         /\ recall_and_deduplicate(in).identities =
              {[key |-> k, records |-> {r.id : r \in Alike(in, k)}] :
                  k \in {_identity_key(in, r) : r \in Kept(in)}}
  BY DEF recall_and_deduplicate, Kept, Alike

\* An identity key has four names, the second is that of the product.
LEMMA IdentityType ==
  ASSUME NEW in, DecisionGraphInput(in), NEW r \in in.records
  PROVE  /\ _identity_key(in, r) \in Seq(Int)
         /\ Len(_identity_key(in, r)) = 4
         /\ _identity_key(in, r)[2] = _canonical(in, r.product)
         /\ _identity_key(in, r)[2] \in Int
<1>1. {r.seller, r.product, r.edition, r.region} \subseteq Int
  BY DEF DecisionGraphInput, RawCandidateRecord
<1>2. /\ _canonical(in, r.seller) \in Int /\ _canonical(in, r.product) \in Int
      /\ _canonical(in, r.edition) \in Int /\ _canonical(in, r.region) \in Int
  BY <1>1, CanonicalType
<1> QED
  BY <1>2 DEF _identity_key

\* A representative: its key names it, and it requires finitely many products.
IsRepresentative(r) ==
    /\ r.key \in Seq(Int) /\ Len(r.key) = 4
    /\ r.product = r.key[2] /\ r.product \in Int
    /\ r.requires \in SUBSET Int /\ IsFiniteSet(r.requires)
    /\ IsFiniteSet(r.facts) /\ \A f \in r.facts : IsFiniteSet(f.evidence)

\* The merged facts of a finite group are finite, and so is what each cites.
LEMMA MergedFacts ==
  ASSUME NEW group, IsFiniteSet(group),
         \A r \in group : IsFiniteSet(r.facts) /\ \A f \in r.facts : IsFiniteSet(f.evidence),
         NEW component
  PROVE  /\ IsFiniteSet(_merge_facts(group, component))
         /\ \A f \in _merge_facts(group, component) : IsFiniteSet(f.evidence)
<1> DEFINE stated == UNION {r.facts : r \in group}
           merged(f) == [field |-> f.field, value |-> f.value, component |-> component,
               evidence |-> UNION {g.evidence : g \in {h \in stated :
                                h.field = f.field /\ h.value = f.value}}]
<1>1. IsFiniteSet(stated)
  <2> DEFINE g == [r \in group |-> r.facts]  T == {r.facts : r \in group}
  <2>1. \A y \in T : \E x \in DOMAIN g : y = g[x]
    OBVIOUS
  <2>2. IsFiniteSet(DOMAIN g)
    OBVIOUS
  <2>3. IsFiniteSet(T)
    <3> HIDE DEF g, T
    <3> QED
      BY <2>1, <2>2, FiniteCover
  <2>4. \A x \in T : IsFiniteSet(x)
    OBVIOUS
  <2> HIDE DEF T
  <2>5. IsFiniteSet(UNION T)
    BY <2>3, <2>4, FS_UNION
  <2> QED
    BY <2>5 DEF T
<1>2. _merge_facts(group, component) = {merged(f) : f \in stated}
  BY DEF _merge_facts
<1>3. \A f \in stated : IsFiniteSet(f.evidence)
  OBVIOUS
<1> HIDE DEF stated
<1>4. IsFiniteSet({merged(f) : f \in stated})
  <2> DEFINE g == [f \in stated |-> merged(f)]  T == {merged(f) : f \in stated}
  <2> HIDE DEF merged
  <2>1. \A y \in T : \E x \in DOMAIN g : y = g[x]
    OBVIOUS
  <2>2. IsFiniteSet(DOMAIN g)
    BY <1>1
  <2> HIDE DEF g, T
  <2>3. IsFiniteSet(T)
    BY <2>1, <2>2, FiniteCover
  <2> QED
    BY <2>3 DEF T
<1>5. ASSUME NEW f \in stated PROVE IsFiniteSet(merged(f).evidence)
  <2> DEFINE like == {h \in stated : h.field = f.field /\ h.value = f.value}
             g == [h \in like |-> h.evidence]
             T == {h.evidence : h \in like}
  <2>1. IsFiniteSet(like)
    BY <1>1, FS_Subset
  <2>2. \A y \in T : \E x \in DOMAIN g : y = g[x]
    OBVIOUS
  <2>3. IsFiniteSet(DOMAIN g)
    BY <2>1
  <2>4. \A x \in T : IsFiniteSet(x)
    BY <1>3
  <2>5. merged(f).evidence = UNION T
    OBVIOUS
  <2> HIDE DEF g, T
  <2>6. IsFiniteSet(T)
    BY <2>2, <2>3, FiniteCover
  <2>7. IsFiniteSet(UNION T)
    BY <2>4, <2>6, FS_UNION
  <2> QED
    BY <2>5, <2>7
<1> QED
  BY <1>2, <1>4, <1>5

\* Finitely many finite sets have finitely many members.
LEMMA FiniteUnion ==
  ASSUME NEW f, IsFiniteSet(DOMAIN f), \A x \in DOMAIN f : IsFiniteSet(f[x]),
         NEW T, \A y \in T : \E x \in DOMAIN f : y \in f[x]
  PROVE  IsFiniteSet(T)
<1> DEFINE S == {f[x] : x \in DOMAIN f}
<1>1. IsFiniteSet(S)
  BY FiniteRange
<1>2. \A s \in S : IsFiniteSet(s)
  OBVIOUS
<1>3. T \in SUBSET UNION S
  OBVIOUS
<1> HIDE DEF S
<1>4. IsFiniteSet(UNION S)
  BY <1>1, <1>2, FS_UNION
<1> QED
  BY <1>3, <1>4, FS_Subset

\* The group of a kept record is finite and has a representative.
LEMMA RepresentativeType ==
  ASSUME NEW in, DecisionGraphInput(in), NEW r \in Kept(in)
  PROVE  LET k == _identity_key(in, r)
         IN  /\ IsRepresentative(Representative(in, k, Alike(in, k)))
             /\ r \in Alike(in, k) /\ IsFiniteSet(Alike(in, k))
<1> DEFINE k == _identity_key(in, r)
           group == Alike(in, k)
           rep == Representative(in, k, group)
<1>1. r \in in.records /\ r \in group /\ group \in SUBSET in.records
  BY DEF Kept, Alike
<1>2. k \in Seq(Int) /\ Len(k) = 4 /\ k[2] \in Int
  BY <1>1, IdentityType
<1>3. IsFiniteSet(group)
  BY <1>1, InputFinite, FS_Subset
<1>4. \A s \in group : /\ s.requires \in SUBSET Int /\ IsFiniteSet(s.requires)
                       /\ IsFiniteSet(s.facts) /\ \A f \in s.facts : IsFiniteSet(f.evidence)
  BY <1>1, InputRows DEF RawCandidateRecord, ProductFact
<1>5. rep.key = k /\ rep.product = k[2] /\ rep.requires = UNION {s.requires : s \in group}
      /\ rep.facts = _merge_facts(group, k[2])
  BY DEF Representative
<1> HIDE DEF group, rep, k
<1>6. IsFiniteSet(rep.requires)
  <2> DEFINE f == [s \in group |-> s.requires]
  <2>1. IsFiniteSet(DOMAIN f) /\ \A x \in DOMAIN f : IsFiniteSet(f[x])
    BY <1>3, <1>4
  <2>2. \A y \in rep.requires : \E x \in DOMAIN f : y \in f[x]
    BY <1>5
  <2> HIDE DEF f
  <2> QED
    BY <2>1, <2>2, FiniteUnion
<1>7. IsFiniteSet(rep.facts) /\ \A f \in rep.facts : IsFiniteSet(f.evidence)
  BY <1>3, <1>4, <1>5, MergedFacts
<1>8. rep.requires \in SUBSET Int
  BY <1>4, <1>5
<1>9. IsRepresentative(rep)
  BY <1>2, <1>5, <1>6, <1>7, <1>8 DEF IsRepresentative
<1> QED
  BY <1>1, <1>3, <1>9 DEF group, rep, k

\* What recall promises the later stages.
IsRecall(recall) ==
    /\ IsFiniteSet(recall.representatives)
    /\ \A r \in recall.representatives : IsRepresentative(r)
    /\ \A r, s \in recall.representatives : r.key = s.key => r = s

\* Recall yields finitely many representatives, one for each key.
LEMMA RecallType ==
  ASSUME NEW in, DecisionGraphInput(in)
  PROVE  IsRecall(recall_and_deduplicate(in))
<1> DEFINE reps == recall_and_deduplicate(in).representatives
           rep(k) == Representative(in, k, Alike(in, k))
           keys == {_identity_key(in, r) : r \in Kept(in)}
<1>1. reps = {rep(k) : k \in keys}
  BY RecallParts
<1>2. \A k \in keys : rep(k).key = k
  BY DEF Representative
<1>3. \A k \in keys : IsRepresentative(rep(k))
  BY RepresentativeType
<1>4. IsFiniteSet(Kept(in))
  <2>1. Kept(in) \in SUBSET in.records
    BY DEF Kept
  <2> QED
    BY <2>1, InputFinite, FS_Subset
<1>5. IsFiniteSet(reps)
  <2> DEFINE f == [r \in Kept(in) |-> rep(_identity_key(in, r))]
  <2> HIDE DEF rep
  <2>1. IsFiniteSet(DOMAIN f) /\ \A y \in reps : \E x \in DOMAIN f : y = f[x]
    BY <1>1, <1>4
  <2> HIDE DEF f, reps
  <2> QED
    BY <2>1, FiniteCover
<1> HIDE DEF rep, keys, reps
<1>6. (\A r \in reps : IsRepresentative(r)) /\ \A r, s \in reps : r.key = s.key => r = s
  BY <1>1, <1>2, <1>3
<1> QED
  BY <1>5, <1>6 DEF IsRecall, reps

(***************************************************************************)
(* The depth-first search.                                                 *)
(***************************************************************************)
Issues == {"CYCLIC_COMPONENT_DEPENDENCY", "MISSING_REQUIRED_COMPONENT",
           "AMBIGUOUS_REQUIRED_COMPONENT"}

\* The visits under way and the records placed.
Frames(recall) == [rep : recall.representatives, todo : SUBSET Int]

\* The states of the search.
Searches(recall) ==
    [ordered : Seq(recall.representatives), issues : SUBSET Issues, visiting : SUBSET Int,
     visited : SUBSET Int, stack : Seq(Frames(recall))]

\* A visit seeks what its record requires.
SearchType(recall, s) ==
    /\ s \in Searches(recall)
    /\ \A i \in DOMAIN s.stack : s.stack[i].todo \subseteq s.stack[i].rep.requires

\* A product is being visited, or placed, or neither, and at most once.
SearchOnce(s) ==
    /\ s.visiting = {s.stack[i].rep.product : i \in DOMAIN s.stack}
    /\ s.visited = {s.ordered[i].product : i \in DOMAIN s.ordered}
    /\ s.visiting \cap s.visited = {}
    /\ \A i, j \in DOMAIN s.stack : s.stack[i].rep.product = s.stack[j].rep.product => i = j
    /\ \A i, j \in DOMAIN s.ordered : s.ordered[i].product = s.ordered[j].product => i = j

\* The root is the first visit and the last record; every other record is the only one of its
\* product.
SearchRoot(recall, root, s) ==
    /\ s.stack # <<>> => s.stack[1].rep = root
    /\ s.stack = <<>> => s.ordered # <<>> /\ Last(s.ordered) = root
    /\ \A i \in DOMAIN s.stack : i > 1 => ByProduct(recall, s.stack[i].rep.product) = {s.stack[i].rep}
    /\ \A i \in DOMAIN s.ordered :
          \/ ByProduct(recall, s.ordered[i].product) = {s.ordered[i]}
          \/ s.stack = <<>> /\ i = Len(s.ordered)

\* Without an issue every record comes after what it requires.
SearchComplete(s) ==
    s.issues = {} =>
        /\ \A i \in DOMAIN s.ordered : \A p \in s.ordered[i].requires :
              \E j \in 1..(i - 1) : s.ordered[j].product = p
        /\ \A i \in DOMAIN s.stack : \A p \in s.stack[i].rep.requires \ s.stack[i].todo :
              p \in s.visited \/ (i < Len(s.stack) /\ p = s.stack[i + 1].rep.product)

\* The invariant of the search.
SearchOK(recall, root, s) ==
    SearchType(recall, s) /\ SearchOnce(s) /\ SearchRoot(recall, root, s) /\ SearchComplete(s)

\* A sequence that is not empty, without its last element.
LEMMA FrontLast ==
  ASSUME NEW S, NEW s \in Seq(S), s # <<>>
  PROVE  /\ Len(s) \in Nat \ {0} /\ DOMAIN s = 1..Len(s)
         /\ Front(s) \in Seq(S) /\ Len(Front(s)) = Len(s) - 1
         /\ \A i \in 1..(Len(s) - 1) : Front(s)[i] = s[i]
         /\ Last(s) = s[Len(s)] /\ Last(s) \in S
<1>1. Len(s) \in Nat \ {0} /\ DOMAIN s = 1..Len(s) /\ s[Len(s)] \in S
  BY EmptySeq
<1> DEFINE n == Len(s) - 1
<1>2. n \in 0..Len(s) /\ 1 \in 1..(Len(s) + 1)
  BY <1>1
<1>3. /\ SubSeq(s, 1, n) \in Seq(S) /\ Len(SubSeq(s, 1, n)) = n
      /\ \A i \in 1..n : SubSeq(s, 1, n)[i] = s[i]
  BY <1>1, <1>2
<1> QED
  BY <1>1, <1>3 DEF Front, Last

\* A search with other values in some of its fields.
LEMMA SearchUpdates ==
  ASSUME NEW recall, NEW s \in Searches(recall), NEW a \in Seq(Frames(recall)),
         NEW b \in SUBSET Int, NEW c \in SUBSET Int, NEW d \in Seq(recall.representatives),
         NEW e \in SUBSET Issues
  PROVE  /\ [s EXCEPT !.stack = a, !.visiting = b, !.visited = c, !.ordered = d] \in Searches(recall)
         /\ [s EXCEPT !.stack = a] \in Searches(recall)
         /\ [s EXCEPT !.issues = e] \in Searches(recall)
         /\ [s EXCEPT !.visiting = b, !.stack = a] \in Searches(recall)
<1> DEFINE S == Seq(Frames(recall))
           R == Seq(recall.representatives)
           I == SUBSET Int
           J == SUBSET Issues
           T == [ordered : R, issues : J, visiting : I, visited : I, stack : S]
<1>1. s \in T /\ a \in S /\ b \in I /\ c \in I /\ d \in R /\ e \in J
  BY DEF Searches
<1> HIDE DEF S, R, I, J
<1>2. [s EXCEPT !.stack = a, !.visiting = b, !.visited = c, !.ordered = d] \in T
  BY <1>1
<1>3. [s EXCEPT !.stack = a] \in T
  BY <1>1
<1>4. [s EXCEPT !.issues = e] \in T
  BY <1>1
<1>5. [s EXCEPT !.visiting = b, !.stack = a] \in T
  BY <1>1
<1> QED
  BY <1>2, <1>3, <1>4, <1>5 DEF Searches, S, R, I, J

\* The innermost visit returns.
LEMMA LeaveKeeps ==
  ASSUME NEW recall, IsRecall(recall), NEW root, NEW s, SearchOK(recall, root, s),
         s.stack # <<>>, Last(s.stack).todo = {}
  PROVE  SearchOK(recall, root, Leave(s))
<1> DEFINE reps == recall.representatives
           F == Frames(recall)
           n == Len(s.stack)
           k == Len(s.ordered)
           rep == s.stack[n].rep
           t == Leave(s)
<1>1. /\ s.stack \in Seq(F) /\ s.ordered \in Seq(reps) /\ s.issues \in SUBSET Issues
      /\ s.visiting \in SUBSET Int /\ s.visited \in SUBSET Int
  BY DEF SearchOK, SearchType, Searches
<1>2. /\ n \in Nat \ {0} /\ DOMAIN s.stack = 1..n
      /\ Front(s.stack) \in Seq(F) /\ Len(Front(s.stack)) = n - 1
      /\ \A i \in 1..(n - 1) : Front(s.stack)[i] = s.stack[i]
      /\ Last(s.stack) = s.stack[n] /\ s.stack[n] \in F
  <2> DEFINE stack == s.stack
  <2>1. stack \in Seq(F) /\ stack # <<>>
    BY <1>1
  <2> HIDE DEF stack, F
  <2>2. /\ Len(stack) \in Nat \ {0} /\ DOMAIN stack = 1..Len(stack)
        /\ Front(stack) \in Seq(F) /\ Len(Front(stack)) = Len(stack) - 1
        /\ \A i \in 1..(Len(stack) - 1) : Front(stack)[i] = stack[i]
        /\ Last(stack) = stack[Len(stack)] /\ Last(stack) \in F
    BY <2>1, FrontLast
  <2> QED
    BY <2>2 DEF stack
<1>3. k \in Nat /\ DOMAIN s.ordered = 1..k
  BY <1>1
<1>4. rep \in reps /\ rep.product \in Int /\ s.stack[n].todo = {}
  BY <1>2 DEF Frames, IsRecall, IsRepresentative
<1>5. /\ t \in Searches(recall) /\ t.stack = Front(s.stack) /\ t.visiting = s.visiting \ {rep.product}
      /\ t.visited = s.visited \cup {rep.product} /\ t.ordered = Append(s.ordered, rep)
      /\ t.issues = s.issues
  <2>1. s \in Searches(recall)
    BY DEF SearchOK, SearchType
  <2>2. /\ t.stack = Front(s.stack) /\ t.visiting = s.visiting \ {rep.product}
        /\ t.visited = s.visited \cup {rep.product} /\ t.ordered = Append(s.ordered, rep)
        /\ t.issues = s.issues
    BY <1>2, <2>1 DEF Leave, Searches
  <2>3. Append(s.ordered, rep) \in Seq(reps)
    BY <1>1, <1>4, AppendProperties
  <2>4. s.visiting \ {rep.product} \in SUBSET Int /\ s.visited \cup {rep.product} \in SUBSET Int
    BY <1>1, <1>4
  <2>5. t \in Searches(recall)
    <3> DEFINE a == Front(s.stack)
               b == s.visiting \ {rep.product}
               c == s.visited \cup {rep.product}
               d == Append(s.ordered, rep)
    <3>1. t = [s EXCEPT !.stack = a, !.visiting = b, !.visited = c, !.ordered = d]
      BY <1>2 DEF Leave
    <3>2. a \in Seq(Frames(recall)) /\ b \in SUBSET Int /\ c \in SUBSET Int
          /\ d \in Seq(recall.representatives) /\ s.issues \in SUBSET Issues
      BY <1>1, <1>2, <2>3, <2>4
    <3> HIDE DEF a, b, c, d, t
    <3>3. [s EXCEPT !.stack = a, !.visiting = b, !.visited = c, !.ordered = d] \in Searches(recall)
      BY <2>1, <3>2, SearchUpdates
    <3> QED
      BY <3>1, <3>3, Zenon
  <2> QED
    BY <2>2, <2>5
<1>6. /\ Len(t.stack) = n - 1 /\ DOMAIN t.stack = 1..(n - 1)
      /\ \A i \in 1..(n - 1) : t.stack[i] = s.stack[i]
  BY <1>2, <1>5
<1>7. /\ Len(t.ordered) = k + 1 /\ DOMAIN t.ordered = 1..(k + 1)
      /\ \A i \in 1..k : t.ordered[i] = s.ordered[i]
      /\ t.ordered[k + 1] = rep /\ Last(t.ordered) = rep /\ t.ordered # <<>>
  BY <1>1, <1>3, <1>4, <1>5, AppendProperties DEF Last
<1> HIDE DEF n, k, t
<1>8. SearchType(recall, t)
  BY <1>2, <1>5, <1>6 DEF SearchOK, SearchType
<1>9. SearchOnce(t)
  <2>1. /\ s.visiting = {s.stack[i].rep.product : i \in 1..n}
        /\ s.visited = {s.ordered[i].product : i \in 1..k}
        /\ s.visiting \cap s.visited = {}
        /\ \A i, j \in 1..n : s.stack[i].rep.product = s.stack[j].rep.product => i = j
        /\ \A i, j \in 1..k : s.ordered[i].product = s.ordered[j].product => i = j
    BY <1>2, <1>3 DEF SearchOK, SearchOnce
  <2>2. t.visiting = {t.stack[i].rep.product : i \in 1..(n - 1)}
    BY <1>2, <1>5, <1>6, <2>1
  <2>3. t.visited = {t.ordered[i].product : i \in 1..(k + 1)}
    <3>1. 1..(k + 1) = 1..k \cup {k + 1}
      BY <1>3
    <3> QED
      BY <1>5, <1>7, <2>1, <3>1
  <2>4. \A i, j \in 1..(n - 1) : t.stack[i].rep.product = t.stack[j].rep.product => i = j
    <3>1. \A i \in 1..(n - 1) : i \in 1..n /\ t.stack[i] = s.stack[i]
      BY <1>2, <1>6
    <3> QED
      BY <2>1, <3>1
  <2>5. rep.product \in s.visiting
    BY <1>2, <2>1
  <2>6. \A i \in 1..k : s.ordered[i].product # rep.product
    BY <2>1, <2>5
  <2>7. \A i, j \in 1..(k + 1) : t.ordered[i].product = t.ordered[j].product => i = j
    <3> SUFFICES ASSUME NEW i \in 1..(k + 1), NEW j \in 1..(k + 1),
                        t.ordered[i].product = t.ordered[j].product
                 PROVE  i = j
      OBVIOUS
    <3>1. CASE i \in 1..k /\ j \in 1..k
      BY <1>7, <2>1, <3>1
    <3>2. CASE i = k + 1 /\ j \in 1..k
      BY <1>7, <2>6, <3>2
    <3>3. CASE i \in 1..k /\ j = k + 1
      BY <1>7, <2>6, <3>3
    <3> QED
      BY <1>3, <3>1, <3>2, <3>3
  <2>8. t.visiting \cap t.visited = {}
    BY <1>5, <2>1
  <2> QED
    BY <1>6, <1>7, <2>2, <2>3, <2>4, <2>7, <2>8 DEF SearchOnce
<1>10. SearchRoot(recall, root, t)
  <2>1. /\ s.stack[1].rep = root
        /\ \A i \in 1..n : i > 1 => ByProduct(recall, s.stack[i].rep.product) = {s.stack[i].rep}
        /\ \A i \in 1..k : ByProduct(recall, s.ordered[i].product) = {s.ordered[i]}
    BY <1>2, <1>3 DEF SearchOK, SearchRoot
  <2>2. t.stack = <<>> <=> n = 1
    BY <1>2, <1>5, <1>6
  <2>3. t.stack = <<>> => Last(t.ordered) = root
    BY <1>7, <2>1, <2>2
  <2>4. t.stack # <<>> => t.stack[1].rep = root
    BY <1>2, <1>6, <2>1, <2>2
  <2>5. ASSUME NEW i \in 1..(n - 1), i > 1
        PROVE  ByProduct(recall, t.stack[i].rep.product) = {t.stack[i].rep}
    <3>1. i \in 1..n /\ t.stack[i] = s.stack[i]
      BY <1>2, <1>6
    <3> QED
      BY <2>1, <2>5, <3>1
  <2>6. ASSUME NEW i \in 1..(k + 1)
        PROVE  \/ ByProduct(recall, t.ordered[i].product) = {t.ordered[i]}
               \/ t.stack = <<>> /\ i = Len(t.ordered)
    <3>1. CASE i \in 1..k
      BY <1>7, <2>1, <3>1
    <3>2. CASE i = k + 1 /\ n > 1
      <4>1. n \in 1..n /\ n > 1 /\ t.ordered[i] = s.stack[n].rep
        BY <1>2, <1>7, <3>2
      <4> QED
        BY <2>1, <4>1
    <3>3. CASE i = k + 1 /\ n = 1
      BY <1>7, <2>2, <3>3
    <3> QED
      BY <1>2, <1>3, <3>1, <3>2, <3>3
  <2> QED
    BY <1>6, <1>7, <2>3, <2>4, <2>5, <2>6 DEF SearchRoot
<1>11. SearchComplete(t)
  <2> SUFFICES ASSUME s.issues = {} PROVE SearchComplete(t)
    BY <1>5 DEF SearchComplete
  <2>1. /\ \A i \in 1..k : \A p \in s.ordered[i].requires : \E j \in 1..(i - 1) : s.ordered[j].product = p
        /\ \A i \in 1..n : \A p \in s.stack[i].rep.requires \ s.stack[i].todo :
              p \in s.visited \/ (i < n /\ p = s.stack[i + 1].rep.product)
    BY <1>2, <1>3 DEF SearchOK, SearchComplete, n
  <2>2. s.visited = {s.ordered[i].product : i \in 1..k}
    BY <1>3 DEF SearchOK, SearchOnce
  <2>3. ASSUME NEW i \in 1..(k + 1), NEW p \in t.ordered[i].requires
        PROVE  \E j \in 1..(i - 1) : t.ordered[j].product = p
    <3>1. CASE i \in 1..k
      <4>1. PICK j \in 1..(i - 1) : s.ordered[j].product = p
        BY <1>7, <2>1, <3>1
      <4>2. j \in 1..k
        BY <1>3, <3>1
      <4> QED
        BY <1>7, <4>1, <4>2
    <3>2. CASE i = k + 1
      <4>1. p \in rep.requires
        BY <1>7, <3>2
      <4>2. p \in s.visited
        BY <1>2, <1>4, <2>1, <4>1
      <4>3. PICK j \in 1..k : s.ordered[j].product = p
        BY <2>2, <4>2
      <4> QED
        <5>1. j \in 1..(i - 1) /\ t.ordered[j] = s.ordered[j]
          BY <1>3, <1>7, <3>2
        <5> QED
          BY <4>3, <5>1
    <3> QED
      BY <1>3, <3>1, <3>2
  <2>4. ASSUME NEW i \in 1..(n - 1), NEW p \in t.stack[i].rep.requires \ t.stack[i].todo
        PROVE  p \in t.visited \/ (i < n - 1 /\ p = t.stack[i + 1].rep.product)
    <3>1. p \in s.visited \/ p = s.stack[i + 1].rep.product
      <4>1. i \in 1..n /\ t.stack[i] = s.stack[i]
        BY <1>2, <1>6
      <4> QED
        BY <2>1, <4>1
    <3>2. CASE p \in s.visited
      BY <1>5, <3>2
    <3>3. CASE p = s.stack[i + 1].rep.product /\ i + 1 = n
      BY <1>5, <3>3
    <3>4. CASE p = s.stack[i + 1].rep.product /\ i < n - 1
      <4>1. i + 1 \in 1..(n - 1)
        BY <1>2, <3>4
      <4> QED
        BY <1>6, <3>4, <4>1
    <3> QED
      BY <1>2, <3>1, <3>2, <3>3, <3>4
  <2> QED
    BY <1>6, <1>7, <2>3, <2>4 DEF SearchComplete
<1> QED
  BY <1>8, <1>9, <1>10, <1>11 DEF SearchOK, t

\* The length and the places of a sequence with one more element.
LEMMA AppendAt ==
  ASSUME NEW S, NEW seq \in Seq(S), NEW elt \in S, NEW k \in Nat, Len(seq) = k
  PROVE  /\ Append(seq, elt) \in Seq(S) /\ Len(Append(seq, elt)) = k + 1
         /\ DOMAIN Append(seq, elt) = 1..(k + 1) /\ Append(seq, elt) # <<>>
         /\ \A i \in 1..k : Append(seq, elt)[i] = seq[i]
         /\ Append(seq, elt)[k + 1] = elt
  BY AppendProperties

\* The innermost visit has one product less to look for.
Dropped(stack, product) == Append(Front(stack), [Last(stack) EXCEPT !.todo = @ \ {product}])

\* The stack after the innermost visit struck a product off: only that changed.
LEMMA TopReplaced ==
  ASSUME NEW recall, NEW stack \in Seq(Frames(recall)), stack # <<>>, NEW product
  PROVE  LET n == Len(stack)
             new == Dropped(stack, product)
         IN  /\ new \in Seq(Frames(recall)) /\ n \in Nat \ {0} /\ Len(new) = n
             /\ DOMAIN stack = 1..n /\ DOMAIN new = 1..n
             /\ \A i \in 1..n : new[i].rep = stack[i].rep
             /\ \A i \in 1..n : i # n => new[i].todo = stack[i].todo
             /\ new[n].todo = stack[n].todo \ {product}
<1> DEFINE n == Len(stack)
           x == [Last(stack) EXCEPT !.todo = @ \ {product}]
           f == Front(stack)
           new == Dropped(stack, product)
<1>1. /\ n \in Nat \ {0} /\ DOMAIN stack = 1..n
      /\ f \in Seq(Frames(recall)) /\ Len(f) = n - 1
      /\ \A i \in 1..(n - 1) : f[i] = stack[i]
      /\ Last(stack) = stack[n] /\ stack[n] \in Frames(recall)
  BY FrontLast
<1>2. x \in Frames(recall) /\ x.rep = stack[n].rep /\ x.todo = stack[n].todo \ {product}
  BY <1>1 DEF Frames
<1>0. new = Append(f, x)
  BY DEF Dropped
<1> HIDE DEF n, x, f, new
<1>3. /\ new \in Seq(Frames(recall)) /\ Len(new) = (n - 1) + 1
      /\ DOMAIN new = 1..((n - 1) + 1)
      /\ \A i \in 1..(n - 1) : new[i] = f[i]
      /\ new[(n - 1) + 1] = x
  <2>1. n - 1 \in Nat
    BY <1>1
  <2> QED
    BY <1>0, <1>1, <1>2, <2>1, AppendAt
<1>4. (n - 1) + 1 = n
  BY <1>1
<1>5. new[n] = x /\ Len(new) = n /\ DOMAIN new = 1..n
  BY <1>3, <1>4
<1>6. \A i \in 1..n : i # n => new[i] = stack[i]
  BY <1>1, <1>3
<1>7. \A i \in 1..n : new[i].rep = stack[i].rep
  BY <1>2, <1>5, <1>6
<1>8. \A i \in 1..n : i # n => new[i].todo = stack[i].todo
  BY <1>6
<1>9. new[n].todo = stack[n].todo \ {product}
  BY <1>2, <1>5
<1> QED
  BY <1>1, <1>3, <1>5, <1>7, <1>8, <1>9 DEF n, new

\* A required product that is placed already, or an issue.
LEMMA DropKeeps ==
  ASSUME NEW recall, IsRecall(recall), NEW root, NEW s, SearchOK(recall, root, s),
         s.stack # <<>>, NEW product \in Last(s.stack).todo,
         NEW t \in Searches(recall), t.ordered = s.ordered, t.visiting = s.visiting,
         t.visited = s.visited, s.issues \subseteq t.issues,
         t.issues # {} \/ product \in s.visited,
         t.stack = Dropped(s.stack, product)
  PROVE  SearchOK(recall, root, t)
<1> DEFINE n == Len(s.stack)
<1>1. s.stack \in Seq(Frames(recall)) /\ s.ordered \in Seq(recall.representatives)
  BY DEF SearchOK, SearchType, Searches
<1>2. /\ n \in Nat \ {0} /\ Len(t.stack) = n
      /\ DOMAIN s.stack = 1..n /\ DOMAIN t.stack = 1..n
      /\ \A i \in 1..n : t.stack[i].rep = s.stack[i].rep
      /\ \A i \in 1..n : i # n => t.stack[i].todo = s.stack[i].todo
      /\ t.stack[n].todo = s.stack[n].todo \ {product}
  BY <1>1, TopReplaced
<1>3. t.stack # <<>>
  BY <1>2
<1> HIDE DEF n
<1>4. SearchType(recall, t)
  BY <1>2 DEF SearchOK, SearchType
<1>5. SearchOnce(t)
  <2>1. /\ s.visiting = {s.stack[i].rep.product : i \in 1..n}
        /\ s.visited = {s.ordered[i].product : i \in DOMAIN s.ordered}
        /\ s.visiting \cap s.visited = {}
        /\ \A i, j \in 1..n : s.stack[i].rep.product = s.stack[j].rep.product => i = j
        /\ \A i, j \in DOMAIN s.ordered : s.ordered[i].product = s.ordered[j].product => i = j
    BY <1>2 DEF SearchOK, SearchOnce
  <2>2. {t.stack[i].rep.product : i \in 1..n} = {s.stack[i].rep.product : i \in 1..n}
    BY <1>2
  <2>3. \A i, j \in 1..n : t.stack[i].rep.product = t.stack[j].rep.product => i = j
    BY <1>2, <2>1
  <2> QED
    <3>1. t.visiting = {t.stack[i].rep.product : i \in DOMAIN t.stack}
      BY <1>2, <2>1, <2>2
    <3>2. t.visited = {t.ordered[i].product : i \in DOMAIN t.ordered}
      BY <2>1
    <3>3. t.visiting \cap t.visited = {}
      BY <2>1
    <3>4. \A i, j \in DOMAIN t.stack : t.stack[i].rep.product = t.stack[j].rep.product => i = j
      BY <1>2, <2>3
    <3>5. \A i, j \in DOMAIN t.ordered : t.ordered[i].product = t.ordered[j].product => i = j
      BY <2>1
    <3> QED
      BY <3>1, <3>2, <3>3, <3>4, <3>5, Zenon DEF SearchOnce
<1>6. SearchRoot(recall, root, t)
  <2>1. /\ s.stack[1].rep = root
        /\ \A i \in 1..n : i > 1 => ByProduct(recall, s.stack[i].rep.product) = {s.stack[i].rep}
        /\ \A i \in DOMAIN s.ordered : ByProduct(recall, s.ordered[i].product) = {s.ordered[i]}
    BY <1>2 DEF SearchOK, SearchRoot
  <2>2. t.stack[1].rep = root
    BY <1>2, <2>1
  <2>3. \A i \in 1..n : i > 1 => ByProduct(recall, t.stack[i].rep.product) = {t.stack[i].rep}
    BY <1>2, <2>1
  <2> QED
    BY <1>2, <1>3, <2>1, <2>2, <2>3 DEF SearchRoot
<1>7. SearchComplete(t)
  <2> SUFFICES ASSUME t.issues = {} PROVE SearchComplete(t)
    BY DEF SearchComplete
  <2>1. /\ \A i \in DOMAIN s.ordered : \A p \in s.ordered[i].requires :
              \E j \in 1..(i - 1) : s.ordered[j].product = p
        /\ \A i \in 1..n : \A p \in s.stack[i].rep.requires \ s.stack[i].todo :
              p \in s.visited \/ (i < n /\ p = s.stack[i + 1].rep.product)
    BY <1>2 DEF SearchOK, SearchComplete, n
  <2>2. ASSUME NEW i \in 1..n, NEW p \in t.stack[i].rep.requires \ t.stack[i].todo
        PROVE  p \in t.visited \/ (i < n /\ p = t.stack[i + 1].rep.product)
    <3>1. CASE p = product
      BY <3>1
    <3>2. CASE p # product
      <4>1. p \in s.stack[i].rep.requires \ s.stack[i].todo
        BY <1>2, <3>2
      <4>2. p \in s.visited \/ (i < n /\ p = s.stack[i + 1].rep.product)
        BY <2>1, <4>1
      <4>3. i < n => i + 1 \in 1..n
        BY <1>2
      <4> QED
        BY <1>2, <4>2, <4>3
    <3> QED
      BY <3>1, <3>2
  <2> QED
    BY <1>2, <2>1, <2>2 DEF SearchComplete
<1> QED
  BY <1>4, <1>5, <1>6, <1>7 DEF SearchOK

\* A required product that is neither being visited nor placed.
LEMMA PushKeeps ==
  ASSUME NEW recall, IsRecall(recall), NEW root, NEW s, SearchOK(recall, root, s),
         s.stack # <<>>, NEW product \in Last(s.stack).todo,
         NEW m \in recall.representatives, ByProduct(recall, product) = {m},
         product \notin s.visiting, product \notin s.visited,
         NEW t \in Searches(recall), t.ordered = s.ordered, t.visiting = s.visiting \cup {product},
         t.visited = s.visited, t.issues = s.issues,
         t.stack = Append(Dropped(s.stack, product), [rep |-> m, todo |-> m.requires])
  PROVE  SearchOK(recall, root, t)
<1> DEFINE n == Len(s.stack)
           u == Dropped(s.stack, product)
           x == [rep |-> m, todo |-> m.requires]
<1>1. s.stack \in Seq(Frames(recall)) /\ s.ordered \in Seq(recall.representatives)
  BY DEF SearchOK, SearchType, Searches
<1>2. /\ u \in Seq(Frames(recall)) /\ n \in Nat \ {0} /\ Len(u) = n
      /\ DOMAIN s.stack = 1..n /\ DOMAIN u = 1..n
      /\ \A i \in 1..n : u[i].rep = s.stack[i].rep
      /\ \A i \in 1..n : i # n => u[i].todo = s.stack[i].todo
      /\ u[n].todo = s.stack[n].todo \ {product}
  BY <1>1, TopReplaced
<1>3. x \in Frames(recall) /\ x.rep = m /\ x.todo = m.requires /\ m.product = product
  BY DEF Frames, IsRecall, IsRepresentative, ByProduct
<1>4. /\ Len(t.stack) = n + 1 /\ DOMAIN t.stack = 1..(n + 1)
      /\ \A i \in 1..n : t.stack[i] = u[i]
      /\ t.stack[n + 1] = x
  <2> HIDE DEF u, x
  <2>1. t.stack = Append(u, x)
    BY DEF u, x
  <2> DEFINE F == Frames(recall)
  <2>2. u \in Seq(F) /\ x \in F /\ n \in Nat /\ Len(u) = n
    BY <1>2, <1>3
  <2> HIDE DEF n, F
  <2>3. /\ Len(Append(u, x)) = n + 1 /\ DOMAIN Append(u, x) = 1..(n + 1)
        /\ \A i \in 1..n : Append(u, x)[i] = u[i]
        /\ Append(u, x)[n + 1] = x
    BY <2>2, AppendAt
  <2> QED
    BY <2>1, <2>3
<1> HIDE DEF n, u, x
<1>5. t.stack # <<>> /\ 1..(n + 1) = 1..n \cup {n + 1} /\ n + 1 \notin 1..n
  BY <1>2, <1>4
<1>6. SearchType(recall, t)
  <2>1. \A i \in 1..n : u[i].todo \subseteq u[i].rep.requires
    <3>1. \A i \in 1..n : s.stack[i].todo \subseteq s.stack[i].rep.requires
      BY <1>2 DEF SearchOK, SearchType
    <3> QED
      BY <1>2, <3>1
  <2>2. \A i \in 1..(n + 1) : t.stack[i].todo \subseteq t.stack[i].rep.requires
    BY <1>3, <1>4, <1>5, <2>1
  <2> QED
    BY <1>4, <2>2 DEF SearchType
<1>7. SearchOnce(t)
  <2>1. /\ s.visiting = {s.stack[i].rep.product : i \in 1..n}
        /\ s.visited = {s.ordered[i].product : i \in DOMAIN s.ordered}
        /\ s.visiting \cap s.visited = {}
        /\ \A i, j \in 1..n : s.stack[i].rep.product = s.stack[j].rep.product => i = j
        /\ \A i, j \in DOMAIN s.ordered : s.ordered[i].product = s.ordered[j].product => i = j
    BY <1>2 DEF SearchOK, SearchOnce
  <2>2. \A i \in 1..n : t.stack[i].rep = s.stack[i].rep
    BY <1>2, <1>4
  <2>3. t.stack[n + 1].rep.product = product
    BY <1>3, <1>4
  <2>4. t.visiting = {t.stack[i].rep.product : i \in 1..(n + 1)}
    <3>1. {t.stack[i].rep.product : i \in 1..(n + 1)} =
            {t.stack[i].rep.product : i \in 1..n} \cup {t.stack[n + 1].rep.product}
      BY <1>5
    <3>2. {t.stack[i].rep.product : i \in 1..n} = {s.stack[i].rep.product : i \in 1..n}
      BY <2>2
    <3> QED
      BY <2>1, <2>3, <3>1, <3>2
  <2>5. \A i \in 1..n : s.stack[i].rep.product # product
    BY <2>1
  <2>6. \A i, j \in 1..(n + 1) : t.stack[i].rep.product = t.stack[j].rep.product => i = j
    <3> SUFFICES ASSUME NEW i \in 1..(n + 1), NEW j \in 1..(n + 1),
                        t.stack[i].rep.product = t.stack[j].rep.product
                 PROVE  i = j
      OBVIOUS
    <3>1. CASE i \in 1..n /\ j \in 1..n
      BY <2>1, <2>2, <3>1
    <3>2. CASE i = n + 1 /\ j \in 1..n
      BY <2>2, <2>3, <2>5, <3>2
    <3>3. CASE i \in 1..n /\ j = n + 1
      BY <2>2, <2>3, <2>5, <3>3
    <3> QED
      BY <1>5, <3>1, <3>2, <3>3
  <2>7. t.visiting \cap t.visited = {}
    BY <2>1
  <2> QED
    <3>1. t.visiting = {t.stack[i].rep.product : i \in DOMAIN t.stack}
      BY <1>4, <2>4
    <3>2. t.visited = {t.ordered[i].product : i \in DOMAIN t.ordered}
      BY <2>1
    <3>3. \A i, j \in DOMAIN t.stack : t.stack[i].rep.product = t.stack[j].rep.product => i = j
      BY <1>4, <2>6
    <3>4. \A i, j \in DOMAIN t.ordered : t.ordered[i].product = t.ordered[j].product => i = j
      BY <2>1
    <3> QED
      BY <2>7, <3>1, <3>2, <3>3, <3>4, Zenon DEF SearchOnce
<1>8. SearchRoot(recall, root, t)
  <2>1. /\ s.stack[1].rep = root
        /\ \A i \in 1..n : i > 1 => ByProduct(recall, s.stack[i].rep.product) = {s.stack[i].rep}
        /\ \A i \in DOMAIN s.ordered : ByProduct(recall, s.ordered[i].product) = {s.ordered[i]}
    BY <1>2 DEF SearchOK, SearchRoot
  <2>2. \A i \in 1..n : t.stack[i].rep = s.stack[i].rep
    BY <1>2, <1>4
  <2>3. t.stack[1].rep = root
    BY <1>2, <2>1, <2>2
  <2>4. ASSUME NEW i \in 1..(n + 1), i > 1
        PROVE  ByProduct(recall, t.stack[i].rep.product) = {t.stack[i].rep}
    <3>1. CASE i \in 1..n
      BY <2>1, <2>2, <2>4, <3>1
    <3>2. CASE i = n + 1
      BY <1>3, <1>4, <3>2
    <3> QED
      BY <1>5, <3>1, <3>2
  <2> QED
    BY <1>4, <1>5, <2>1, <2>3, <2>4 DEF SearchRoot
<1>9. SearchComplete(t)
  <2> SUFFICES ASSUME t.issues = {} PROVE SearchComplete(t)
    BY DEF SearchComplete
  <2>1. /\ \A i \in DOMAIN s.ordered : \A p \in s.ordered[i].requires :
              \E j \in 1..(i - 1) : s.ordered[j].product = p
        /\ \A i \in 1..n : \A p \in s.stack[i].rep.requires \ s.stack[i].todo :
              p \in s.visited \/ (i < n /\ p = s.stack[i + 1].rep.product)
    BY <1>2 DEF SearchOK, SearchComplete, n
  <2>2. ASSUME NEW i \in 1..(n + 1), NEW p \in t.stack[i].rep.requires \ t.stack[i].todo
        PROVE  p \in t.visited \/ (i < n + 1 /\ p = t.stack[i + 1].rep.product)
    <3>0. i \in 1..n
      BY <1>3, <1>4, <1>5
    <3>1. CASE p = product /\ i = n
      BY <1>2, <1>3, <1>4, <3>1
    <3>2. CASE p # product \/ i # n
      <4>1. p \in s.stack[i].rep.requires \ s.stack[i].todo
        BY <1>2, <1>4, <3>0, <3>2
      <4>2. p \in s.visited \/ (i < n /\ p = s.stack[i + 1].rep.product)
        BY <2>1, <3>0, <4>1
      <4>3. i < n => i + 1 \in 1..n
        BY <1>2, <3>0
      <4>4. i < n => t.stack[i + 1].rep = s.stack[i + 1].rep
        BY <1>2, <1>4, <4>3
      <4>5. n \in Int /\ i \in Int /\ (i < n => i < n + 1)
        BY <1>2, <3>0
      <4> QED
        BY <4>2, <4>4, <4>5
    <3> QED
      BY <3>1, <3>2
  <2> QED
    BY <1>4, <2>1, <2>2 DEF SearchComplete
<1> QED
  BY <1>6, <1>7, <1>8, <1>9 DEF SearchOK

(***************************************************************************)
(* The search comes to an end: a record that is not placed, or a product   *)
(* that is still to be looked for, goes with every turn.                   *)
(***************************************************************************)
Names(recall) == UNION {r.requires : r \in recall.representatives}

\* The representatives not placed yet, and those entered.
Unplaced(recall, s) == recall.representatives \ {s.ordered[i] : i \in DOMAIN s.ordered}

Entered(s) == {s.ordered[i] : i \in DOMAIN s.ordered} \cup {s.stack[i].rep : i \in DOMAIN s.stack}

\* What some entered or unentered record still seeks.
Unsought(recall, s) ==
    {x \in recall.representatives \X Names(recall) :
        \/ x[1] \notin Entered(s)
        \/ \E i \in DOMAIN s.stack : s.stack[i].rep = x[1] /\ x[2] \in s.stack[i].todo}

\* One of the two gets smaller, the other no larger.
Shrinks(recall, s, t) ==
    /\ Unplaced(recall, t) \subseteq Unplaced(recall, s)
    /\ Unsought(recall, t) \subseteq Unsought(recall, s)
    /\ \/ \E x \in Unplaced(recall, s) : x \notin Unplaced(recall, t)
       \/ \E x \in Unsought(recall, s) : x \notin Unsought(recall, t)

\* A visit that returns leaves less to do: its record is placed.
LEMMA LeaveShrinks ==
  ASSUME NEW recall, IsRecall(recall), NEW root, NEW s, SearchOK(recall, root, s),
         s.stack # <<>>, Last(s.stack).todo = {}
  PROVE  Shrinks(recall, s, Leave(s))
<1> DEFINE reps == recall.representatives
           F == Frames(recall)
           n == Len(s.stack)
           k == Len(s.ordered)
           rep == s.stack[n].rep
           t == Leave(s)
<1>1. /\ s.stack \in Seq(F) /\ s.ordered \in Seq(reps) /\ s \in Searches(recall)
  BY DEF SearchOK, SearchType, Searches
<1>2. /\ n \in Nat \ {0} /\ DOMAIN s.stack = 1..n
      /\ Front(s.stack) \in Seq(F) /\ Len(Front(s.stack)) = n - 1
      /\ \A i \in 1..(n - 1) : Front(s.stack)[i] = s.stack[i]
      /\ Last(s.stack) = s.stack[n] /\ s.stack[n] \in F
  <2>1. s.stack \in Seq(F)
    BY <1>1
  <2>2. /\ n \in Nat \ {0} /\ DOMAIN s.stack = 1..n
        /\ Front(s.stack) \in Seq(F) /\ Len(Front(s.stack)) = n - 1
        /\ \A i \in 1..(n - 1) : Front(s.stack)[i] = s.stack[i]
        /\ Last(s.stack) = s.stack[n] /\ Last(s.stack) \in F
    BY <2>1, FrontLast
  <2> QED
    BY <2>2
<1>3. k \in Nat /\ DOMAIN s.ordered = 1..k
  BY <1>1
<1>4. rep \in reps
  BY <1>2 DEF Frames
<1>5. t.stack = Front(s.stack) /\ t.ordered = Append(s.ordered, rep)
  BY <1>1, <1>2 DEF Leave, Searches
<1>6. DOMAIN t.stack = 1..(n - 1) /\ \A i \in 1..(n - 1) : t.stack[i] = s.stack[i]
  BY <1>2, <1>5
<1> HIDE DEF rep, t
<1>7. /\ DOMAIN t.ordered = 1..(k + 1) /\ t.ordered[k + 1] = rep
      /\ \A i \in 1..k : t.ordered[i] = s.ordered[i]
  <2> HIDE DEF k
  <2>1. Len(s.ordered) = k
    BY DEF k
  <2> QED
    BY <1>1, <1>3, <1>4, <1>5, <2>1, AppendAt
<1> HIDE DEF n, k
<1>8. {t.ordered[i] : i \in DOMAIN t.ordered} = {s.ordered[i] : i \in DOMAIN s.ordered} \cup {rep}
  <2>1. 1..(k + 1) = 1..k \cup {k + 1}
    BY <1>3
  <2> QED
    BY <1>3, <1>7, <2>1
<1>9. rep \in {s.stack[i].rep : i \in DOMAIN s.stack}
  BY <1>2 DEF rep
<1>10. {s.stack[i].rep : i \in DOMAIN s.stack} = {t.stack[i].rep : i \in DOMAIN t.stack} \cup {rep}
  <2>1. 1..n = 1..(n - 1) \cup {n}
    BY <1>2
  <2> QED
    BY <1>2, <1>6, <2>1 DEF rep
<1>11. rep \notin {s.ordered[i] : i \in DOMAIN s.ordered}
  <2>1. rep.product \in s.visiting
    BY <1>9 DEF SearchOK, SearchOnce
  <2>2. rep.product \notin s.visited
    BY <2>1 DEF SearchOK, SearchOnce
  <2> QED
    BY <2>2 DEF SearchOK, SearchOnce
<1>12. Entered(t) = Entered(s)
  BY <1>8, <1>10 DEF Entered
<1>13. Unsought(recall, t) \subseteq Unsought(recall, s)
  <2> SUFFICES ASSUME NEW x \in Unsought(recall, t), x[1] \in Entered(s)
               PROVE  x \in Unsought(recall, s)
    BY <1>12 DEF Unsought
  <2>1. PICK i \in 1..(n - 1) : t.stack[i].rep = x[1] /\ x[2] \in t.stack[i].todo
    BY <1>6, <1>12 DEF Unsought
  <2>2. i \in DOMAIN s.stack /\ t.stack[i] = s.stack[i]
    BY <1>2, <1>6
  <2> QED
    BY <2>1, <2>2 DEF Unsought
<1>14. rep \in Unplaced(recall, s) /\ Unplaced(recall, t) = Unplaced(recall, s) \ {rep}
  BY <1>4, <1>8, <1>11 DEF Unplaced
<1> QED
  BY <1>13, <1>14 DEF Shrinks, t

\* A product that is not entered leaves less to do: it is struck off.
LEMMA DropShrinks ==
  ASSUME NEW recall, IsRecall(recall), NEW root, NEW s, SearchOK(recall, root, s),
         s.stack # <<>>, NEW product \in Last(s.stack).todo,
         NEW t, t.ordered = s.ordered, t.stack = Dropped(s.stack, product)
  PROVE  Shrinks(recall, s, t)
<1> DEFINE n == Len(s.stack)
           rep == s.stack[n].rep
<1>1. s.stack \in Seq(Frames(recall)) /\ s.ordered \in Seq(recall.representatives)
  BY DEF SearchOK, SearchType, Searches
<1>2. /\ n \in Nat \ {0} /\ Len(t.stack) = n
      /\ DOMAIN s.stack = 1..n /\ DOMAIN t.stack = 1..n
      /\ \A i \in 1..n : t.stack[i].rep = s.stack[i].rep
      /\ \A i \in 1..n : i # n => t.stack[i].todo = s.stack[i].todo
      /\ t.stack[n].todo = s.stack[n].todo \ {product}
  BY <1>1, TopReplaced
<1>3. n \in 1..n /\ product \in s.stack[n].todo /\ rep \in recall.representatives
      /\ s.stack[n].todo \subseteq rep.requires
  <2>1. n \in 1..n /\ product \in s.stack[n].todo
    BY <1>2 DEF Last
  <2>2. s.stack[n] \in Frames(recall)
    BY <1>1, <2>1
  <2>3. s.stack[n].todo \subseteq rep.requires
    BY <1>2, <2>1 DEF SearchOK, SearchType
  <2> QED
    BY <2>1, <2>2, <2>3 DEF Frames
<1>4. \A i \in 1..n : s.stack[i].rep = rep => i = n
  BY <1>2, <1>3 DEF SearchOK, SearchOnce
<1> HIDE DEF n, rep
<1>5. Entered(t) = Entered(s) /\ rep \in Entered(s)
  <2>1. {t.stack[i].rep : i \in 1..n} = {s.stack[i].rep : i \in 1..n}
    BY <1>2
  <2>2. rep \in {s.stack[i].rep : i \in 1..n}
    BY <1>3 DEF rep
  <2> QED
    BY <1>2, <2>1, <2>2 DEF Entered
<1>6. Unsought(recall, t) \subseteq Unsought(recall, s)
  <2> SUFFICES ASSUME NEW x \in Unsought(recall, t), x[1] \in Entered(s)
               PROVE  x \in Unsought(recall, s)
    BY <1>5 DEF Unsought
  <2>1. PICK i \in 1..n : t.stack[i].rep = x[1] /\ x[2] \in t.stack[i].todo
    BY <1>2, <1>5 DEF Unsought
  <2>2. s.stack[i].rep = x[1] /\ x[2] \in s.stack[i].todo
    BY <1>2, <2>1
  <2> QED
    BY <1>2, <2>2 DEF Unsought
<1>7. <<rep, product>> \in Unsought(recall, s)
  <2>1. <<rep, product>> \in recall.representatives \X Names(recall)
    BY <1>3 DEF Names
  <2> QED
    BY <1>2, <1>3, <2>1 DEF Unsought, rep
<1>8. <<rep, product>> \notin Unsought(recall, t)
  BY <1>2, <1>4, <1>5 DEF Unsought
<1>9. Unplaced(recall, t) = Unplaced(recall, s)
  BY DEF Unplaced
<1> QED
  BY <1>6, <1>7, <1>8, <1>9 DEF Shrinks

\* A product that is entered leaves less to do: it is struck off, and the new visit only
\* seeks what was unsought.
LEMMA PushShrinks ==
  ASSUME NEW recall, IsRecall(recall), NEW root, NEW s, SearchOK(recall, root, s),
         s.stack # <<>>, NEW product \in Last(s.stack).todo,
         NEW m \in recall.representatives, m.product = product,
         product \notin s.visiting, product \notin s.visited,
         NEW t, t.ordered = s.ordered,
         t.stack = Append(Dropped(s.stack, product), [rep |-> m, todo |-> m.requires])
  PROVE  Shrinks(recall, s, t)
<1> DEFINE n == Len(s.stack)
           u == Dropped(s.stack, product)
           x == [rep |-> m, todo |-> m.requires]
           r == [ordered |-> s.ordered, stack |-> u]
<1>0. Shrinks(recall, s, r)
  <2>1. r.ordered = s.ordered /\ r.stack = u
    OBVIOUS
  <2> HIDE DEF r
  <2> QED
    BY <2>1, DropShrinks
<1>1. s.stack \in Seq(Frames(recall))
  BY DEF SearchOK, SearchType, Searches
<1>2. /\ u \in Seq(Frames(recall)) /\ n \in Nat \ {0} /\ Len(u) = n /\ DOMAIN u = 1..n
      /\ DOMAIN s.stack = 1..n
      /\ \A i \in 1..n : u[i].rep = s.stack[i].rep
  BY <1>1, TopReplaced
<1>3. x \in Frames(recall) /\ x.rep = m /\ x.todo = m.requires
  BY DEF Frames, IsRecall, IsRepresentative
<1>4. /\ DOMAIN t.stack = 1..(n + 1) /\ \A i \in 1..n : t.stack[i] = u[i]
      /\ t.stack[n + 1] = x
  <2> HIDE DEF u, x
  <2>1. t.stack = Append(u, x)
    BY DEF u, x
  <2>2. n \in Nat /\ u \in Seq(Frames(recall)) /\ Len(u) = n /\ x \in Frames(recall)
    BY <1>2, <1>3
  <2> HIDE DEF n
  <2>3. /\ DOMAIN Append(u, x) = 1..(n + 1) /\ \A i \in 1..n : Append(u, x)[i] = u[i]
        /\ Append(u, x)[n + 1] = x
    BY <2>2, AppendAt
  <2> QED
    BY <2>1, <2>3
<1> HIDE DEF n, x
<1>5. r.ordered = s.ordered /\ r.stack = u
  OBVIOUS
<1> HIDE DEF r, u
<1>6. m \notin Entered(s)
  <2>1. \A i \in DOMAIN s.ordered : s.ordered[i] # m
    BY DEF SearchOK, SearchOnce
  <2>2. \A i \in DOMAIN s.stack : s.stack[i].rep # m
    BY DEF SearchOK, SearchOnce
  <2> QED
    BY <2>1, <2>2 DEF Entered
<1>7. Entered(t) = Entered(r) \cup {m} /\ m \notin Entered(r)
  <2>1. 1..(n + 1) = 1..n \cup {n + 1}
    BY <1>2
  <2>2. {t.stack[i].rep : i \in 1..(n + 1)} = {u[i].rep : i \in 1..n} \cup {m}
    BY <1>3, <1>4, <2>1
  <2>3. {u[i].rep : i \in 1..n} = {s.stack[i].rep : i \in 1..n}
    BY <1>2
  <2>4. {t.stack[i].rep : i \in DOMAIN t.stack} = {r.stack[i].rep : i \in DOMAIN r.stack} \cup {m}
    BY <1>2, <1>4, <1>5, <2>2, <2>3
  <2>5. Entered(t) = Entered(r) \cup {m}
    BY <1>5, <2>4 DEF Entered
  <2>6. {r.stack[i].rep : i \in DOMAIN r.stack} = {s.stack[i].rep : i \in DOMAIN s.stack}
    BY <1>2, <1>5, <2>3
  <2>7. Entered(r) = Entered(s)
    BY <1>5, <2>6 DEF Entered
  <2> QED
    BY <1>6, <2>5, <2>7
<1>8. Unsought(recall, t) \subseteq Unsought(recall, r)
  <2> SUFFICES ASSUME NEW y \in Unsought(recall, t) PROVE y \in Unsought(recall, r)
    OBVIOUS
  <2>0. y \in recall.representatives \X Names(recall)
    BY DEF Unsought
  <2>1. CASE y[1] \notin Entered(t)
    BY <1>7, <2>0, <2>1 DEF Unsought
  <2>2. CASE y[1] = m
    BY <1>7, <2>0, <2>2 DEF Unsought
  <2>3. CASE y[1] \in Entered(t) /\ y[1] # m
    <3>1. PICK i \in 1..(n + 1) : t.stack[i].rep = y[1] /\ y[2] \in t.stack[i].todo
      BY <1>4, <2>3 DEF Unsought
    <3>2. i # n + 1
      BY <1>3, <1>4, <2>3, <3>1
    <3>3. i \in 1..n
      BY <1>2, <3>2
    <3>4. u[i].rep = y[1] /\ y[2] \in u[i].todo
      BY <1>4, <3>1, <3>3
    <3> QED
      BY <1>2, <1>5, <2>0, <3>3, <3>4 DEF Unsought
  <2> QED
    BY <2>1, <2>2, <2>3
<1>9. Unplaced(recall, t) = Unplaced(recall, r)
  BY <1>5 DEF Unplaced
<1> QED
  BY <1>0, <1>8, <1>9 DEF Shrinks

\* One product the innermost visit requires.
LEMMA RequireKeeps ==
  ASSUME NEW recall, IsRecall(recall), NEW root, NEW s, SearchOK(recall, root, s),
         s.stack # <<>>, Last(s.stack).todo # {}
  PROVE  /\ SearchOK(recall, root, Require(recall, s))
         /\ Shrinks(recall, s, Require(recall, s))
<1> DEFINE top == Last(s.stack)
           product == Min(top.todo)
           matches == ByProduct(recall, product)
           a == Dropped(s.stack, product)
           rest == [s EXCEPT !.stack = a]
           t == Require(recall, s)
<1>1. s \in Searches(recall) /\ s.stack \in Seq(Frames(recall)) /\ s.issues \in SUBSET Issues
      /\ s.visiting \in SUBSET Int /\ s.visited \in SUBSET Int
      /\ s.ordered \in Seq(recall.representatives)
  BY DEF SearchOK, SearchType, Searches
<1>2. product \in top.todo /\ product \in Int
  <2>1. /\ Len(s.stack) \in DOMAIN s.stack /\ top = s.stack[Len(s.stack)] /\ top \in Frames(recall)
    <3>1. Len(s.stack) \in Nat \ {0} /\ DOMAIN s.stack = 1..Len(s.stack)
          /\ Last(s.stack) = s.stack[Len(s.stack)] /\ Last(s.stack) \in Frames(recall)
      BY <1>1, FrontLast
    <3> QED
      BY <3>1
  <2>2. top.todo \subseteq top.rep.requires
    BY <2>1 DEF SearchOK, SearchType
  <2>3. top.rep.requires \in SUBSET Int /\ IsFiniteSet(top.rep.requires)
    BY <2>1 DEF Frames, IsRecall, IsRepresentative
  <2>4. top.todo \in SUBSET Int /\ IsFiniteSet(top.todo)
    BY <2>2, <2>3, FS_Subset
  <2> HIDE DEF top
  <2>5. top.todo # {}
    BY DEF top
  <2> QED
    BY <2>4, <2>5, Extrema
<1>3. a \in Seq(Frames(recall))
  BY <1>1, TopReplaced
<1>4. rest \in Searches(recall)
  <2> HIDE DEF a
  <2> QED
    BY <1>1, <1>3, SearchUpdates
<1>5. /\ rest.ordered = s.ordered /\ rest.visiting = s.visiting /\ rest.visited = s.visited
      /\ rest.issues = s.issues /\ rest.stack = a
  <2> HIDE DEF a
  <2> QED
    BY <1>1 DEF Searches
<1>6. t = IF matches = {}
          THEN [rest EXCEPT !.issues = @ \cup {"MISSING_REQUIRED_COMPONENT"}]
          ELSE IF Cardinality(matches) > 1
          THEN [rest EXCEPT !.issues = @ \cup {"AMBIGUOUS_REQUIRED_COMPONENT"}]
          ELSE Visit(rest, CHOOSE m \in matches : TRUE)
  BY DEF Require, Dropped
<1> HIDE DEF t, rest, a, product, top
<1> SUFFICES SearchOK(recall, root, t) /\ Shrinks(recall, s, t)
  BY DEF t
<1>7. ASSUME NEW e \in Issues, t = [rest EXCEPT !.issues = @ \cup {e}]
      PROVE  SearchOK(recall, root, t) /\ Shrinks(recall, s, t)
  <2> DEFINE new == s.issues \cup {e}
  <2>1. new \in SUBSET Issues /\ new # {} /\ s.issues \subseteq new
    BY <1>1
  <2>2. t = [rest EXCEPT !.issues = new]
    BY <1>5, <1>7
  <2> HIDE DEF new
  <2>3. t \in Searches(recall)
    BY <1>1, <1>3, <1>4, <2>1, <2>2, SearchUpdates
  <2>4. /\ t.ordered = s.ordered /\ t.visiting = s.visiting /\ t.visited = s.visited
        /\ t.issues = new /\ t.stack = a
    BY <1>4, <1>5, <2>2 DEF Searches
  <2>5. t.stack = Dropped(s.stack, product)
    BY <2>4 DEF a
  <2>6. product \in Last(s.stack).todo /\ t.issues # {} /\ s.issues \subseteq t.issues
    BY <1>2, <2>1, <2>4 DEF top
  <2>7. SearchOK(recall, root, t)
    BY <2>3, <2>4, <2>5, <2>6, DropKeeps
  <2>8. Shrinks(recall, s, t)
    BY <2>4, <2>5, <2>6, DropShrinks
  <2> QED
    BY <2>7, <2>8
<1>8. CASE matches = {}
  BY <1>6, <1>7, <1>8 DEF Issues
<1>9. CASE matches # {} /\ Cardinality(matches) > 1
  BY <1>6, <1>7, <1>9 DEF Issues
<1>10. CASE matches # {} /\ ~(Cardinality(matches) > 1)
  <2> DEFINE m == CHOOSE m \in matches : TRUE
  <2>1. m \in matches /\ m \in recall.representatives /\ m.product = product
    BY <1>10 DEF ByProduct
  <2>2. matches = {m}
    <3>1. IsFiniteSet(matches)
      <4>1. matches \in SUBSET recall.representatives
        BY DEF ByProduct
      <4> QED
        BY <4>1, FS_Subset DEF IsRecall
    <3> HIDE DEF matches
    <3>2. Cardinality(matches) = 1
      <4>1. Cardinality(matches) \in Nat /\ Cardinality(matches) # 0
        BY <1>10, <3>1, FS_CardinalityType, FS_EmptySet
      <4> QED
        BY <1>10, <4>1
    <3>3. PICK x : matches = {x}
      BY <3>1, <3>2, FS_Singleton
    <3> QED
      BY <2>1, <3>3
  <2>3. t = Visit(rest, m)
    BY <1>6, <1>10
  <2>4. m.requires \in SUBSET Int /\ m.product \in Int
    BY <2>1 DEF IsRecall, IsRepresentative
  <2> HIDE DEF m, matches
  <2>5. CASE product \in s.visiting
    <3>1. t = [rest EXCEPT !.issues = @ \cup {"CYCLIC_COMPONENT_DEPENDENCY"}]
      BY <1>5, <2>1, <2>3, <2>5 DEF Visit
    <3> QED
      BY <1>7, <3>1 DEF Issues
  <2>6. CASE product \notin s.visiting /\ product \in s.visited
    <3>1. t = rest
      BY <1>5, <2>1, <2>3, <2>6 DEF Visit, Placed
    <3>2. t.stack = Dropped(s.stack, product) /\ product \in Last(s.stack).todo
      BY <1>2, <1>5, <3>1 DEF a, top
    <3>3. SearchOK(recall, root, t)
      BY <1>4, <1>5, <2>6, <3>1, <3>2, DropKeeps
    <3>4. Shrinks(recall, s, t)
      BY <1>5, <3>1, <3>2, DropShrinks
    <3> QED
      BY <3>3, <3>4
  <2>7. CASE product \notin s.visiting /\ product \notin s.visited
    <3> DEFINE b == s.visiting \cup {product}
               c == Append(a, [rep |-> m, todo |-> m.requires])
    <3>1. t = [rest EXCEPT !.visiting = b, !.stack = c]
      BY <1>5, <2>1, <2>3, <2>7 DEF Visit, Placed
    <3>2. c \in Seq(Frames(recall))
      <4>1. [rep |-> m, todo |-> m.requires] \in Frames(recall)
        BY <2>1, <2>4 DEF Frames
      <4> QED
        BY <1>3, <4>1, AppendProperties
    <3>3. b \in SUBSET Int
      BY <1>1, <1>2
    <3>c. c = Append(Dropped(s.stack, product), [rep |-> m, todo |-> m.requires])
      BY DEF a
    <3> HIDE DEF b, c
    <3>4. t \in Searches(recall)
      BY <1>1, <1>4, <3>1, <3>2, <3>3, SearchUpdates
    <3>5. /\ t.ordered = s.ordered /\ t.visiting = b /\ t.visited = s.visited
          /\ t.issues = s.issues /\ t.stack = c
      BY <1>4, <1>5, <3>1 DEF Searches
    <3>6. t.stack = Append(Dropped(s.stack, product), [rep |-> m, todo |-> m.requires])
      BY <3>5, <3>c
    <3>7. t.visiting = s.visiting \cup {product} /\ product \in Last(s.stack).todo
          /\ ByProduct(recall, product) = {m}
      BY <1>2, <2>2, <3>5 DEF b, top, matches
    <3>8. SearchOK(recall, root, t)
      BY <2>1, <2>7, <3>4, <3>5, <3>6, <3>7, PushKeeps
    <3>9. Shrinks(recall, s, t)
      BY <2>1, <2>7, <3>5, <3>6, <3>7, PushShrinks
    <3> QED
      BY <3>8, <3>9
  <2> QED
    BY <2>5, <2>6, <2>7
<1> QED
  BY <1>8, <1>9, <1>10

\* A turn of the search keeps its invariant and, until it is over, leaves less to do.
LEMMA AdvanceKeeps ==
  ASSUME NEW recall, IsRecall(recall), NEW root, NEW s, SearchOK(recall, root, s)
  PROVE  /\ SearchOK(recall, root, Advance(recall, s))
         /\ s.stack # <<>> => Shrinks(recall, s, Advance(recall, s))
         /\ s.stack = <<>> => Advance(recall, s) = s
<1>1. CASE s.stack = <<>>
  BY <1>1 DEF Advance
<1>2. CASE s.stack # <<>> /\ Last(s.stack).todo = {}
  BY <1>2, LeaveKeeps, LeaveShrinks DEF Advance
<1>3. CASE s.stack # <<>> /\ Last(s.stack).todo # {}
  BY <1>3, RequireKeeps DEF Advance
<1> QED
  BY <1>1, <1>2, <1>3

\* How much is left to do.
Work(recall, s) == Cardinality(Unplaced(recall, s)) + Cardinality(Unsought(recall, s))

\* The representatives and the products they name are finite, so the turns are a number.
LEMMA FiniteNames ==
  ASSUME NEW recall, IsRecall(recall)
  PROVE  /\ IsFiniteSet(recall.representatives) /\ IsFiniteSet(Names(recall))
         /\ Turns(recall) = Cardinality(recall.representatives) * (1 + Cardinality(Names(recall)))
<1> DEFINE f == [r \in recall.representatives |-> r.requires]
<1>1. IsFiniteSet(DOMAIN f) /\ \A x \in DOMAIN f : IsFiniteSet(f[x])
  BY DEF IsRecall, IsRepresentative
<1>2. \A y \in Names(recall) : \E x \in DOMAIN f : y \in f[x]
  BY DEF Names
<1> HIDE DEF f
<1>3. IsFiniteSet(Names(recall))
  BY <1>1, <1>2, FiniteUnion
<1> QED
  BY <1>3 DEF IsRecall, Turns, Names

\* What is left to do is a natural number, never more than the turns.
LEMMA WorkType ==
  ASSUME NEW recall, IsRecall(recall), NEW s
  PROVE  /\ IsFiniteSet(Unplaced(recall, s)) /\ IsFiniteSet(Unsought(recall, s))
         /\ Work(recall, s) \in Nat /\ Work(recall, s) <= Turns(recall)
         /\ Turns(recall) \in Nat
<1> DEFINE R == recall.representatives  N == Names(recall)
<1>1. IsFiniteSet(R) /\ IsFiniteSet(N)
  BY FiniteNames
<1>2. Unplaced(recall, s) \in SUBSET R /\ Unsought(recall, s) \in SUBSET (R \X N)
  BY DEF Unplaced, Unsought
<1>t. Turns(recall) = Cardinality(R) * (1 + Cardinality(N))
  BY FiniteNames
<1> HIDE DEF R, N
<1>3. IsFiniteSet(R \X N) /\ Cardinality(R \X N) = Cardinality(R) * Cardinality(N)
  BY <1>1, FS_Product
<1>4. /\ IsFiniteSet(Unplaced(recall, s)) /\ Cardinality(Unplaced(recall, s)) <= Cardinality(R)
      /\ IsFiniteSet(Unsought(recall, s)) /\ Cardinality(Unsought(recall, s)) <= Cardinality(R \X N)
  BY <1>1, <1>2, <1>3, FS_Subset
<1>5. /\ Cardinality(Unplaced(recall, s)) \in Nat /\ Cardinality(Unsought(recall, s)) \in Nat
      /\ Cardinality(R) \in Nat /\ Cardinality(N) \in Nat /\ Cardinality(R \X N) \in Nat
  BY <1>1, <1>3, <1>4, FS_CardinalityType
<1>6. ASSUME NEW r \in Nat, NEW n \in Nat
      PROVE  r * (1 + n) = r + r * n /\ r * (1 + n) \in Nat
  OBVIOUS
<1>7. Turns(recall) = Cardinality(R) + Cardinality(R \X N) /\ Turns(recall) \in Nat
  BY <1>3, <1>5, <1>6, <1>t
<1> QED
  BY <1>4, <1>5, <1>7 DEF Work

\* Less to do is one turn less at least.
LEMMA WorkShrinks ==
  ASSUME NEW recall, IsRecall(recall), NEW s, NEW t, Shrinks(recall, s, t)
  PROVE  Work(recall, t) <= Work(recall, s) - 1
<1> DEFINE A == Unplaced(recall, s)  B == Unsought(recall, s)
           C == Unplaced(recall, t)  D == Unsought(recall, t)
<1>1. IsFiniteSet(A) /\ IsFiniteSet(B) /\ IsFiniteSet(C) /\ IsFiniteSet(D)
  BY WorkType
<1>2. C \in SUBSET A /\ D \in SUBSET B /\ (C # A \/ D # B)
  BY DEF Shrinks
<1> HIDE DEF A, B, C, D
<1>3. /\ Cardinality(C) <= Cardinality(A) /\ (Cardinality(A) = Cardinality(C) => A = C)
      /\ Cardinality(D) <= Cardinality(B) /\ (Cardinality(B) = Cardinality(D) => B = D)
  BY <1>1, <1>2, FS_Subset
<1>4. /\ Cardinality(A) \in Nat /\ Cardinality(B) \in Nat
      /\ Cardinality(C) \in Nat /\ Cardinality(D) \in Nat
  BY <1>1, FS_CardinalityType
<1>5. Cardinality(C) + Cardinality(D) <= Cardinality(A) + Cardinality(B) - 1
  <2> DEFINE a == Cardinality(A)  b == Cardinality(B)
             c == Cardinality(C)  d == Cardinality(D)
  <2>1. c <= a /\ d <= b /\ (a # c \/ b # d)
    BY <1>2, <1>3
  <2>2. a \in Nat /\ b \in Nat /\ c \in Nat /\ d \in Nat
    BY <1>4
  <2> HIDE DEF a, b, c, d
  <2>3. c + d <= a + b - 1
    BY <2>1, <2>2
  <2> QED
    BY <2>3 DEF a, b, c, d
<1>6. Work(recall, t) = Cardinality(C) + Cardinality(D)
  BY DEF Work, C, D
<1>7. Work(recall, s) = Cardinality(A) + Cardinality(B)
  BY DEF Work, A, B
<1> QED
  BY <1>4, <1>5, <1>6, <1>7

\* The search that has just entered the root.
LEMMA RootEntered ==
  ASSUME NEW recall, IsRecall(recall), NEW root \in recall.representatives
  PROVE  SearchOK(recall, root, Visit(NoSearchYet, root))
<1> DEFINE x == [rep |-> root, todo |-> root.requires]
           t == Visit(NoSearchYet, root)
<1>1. root.requires \in SUBSET Int /\ root.product \in Int
  BY DEF IsRecall, IsRepresentative
<1>2. x \in Frames(recall)
  BY <1>1 DEF Frames
<1>3. t = [ordered |-> <<>>, issues |-> {}, visiting |-> {root.product}, visited |-> {},
           stack |-> <<x>>]
  <2> DEFINE a == [ordered |-> <<>>, issues |-> {}, visiting |-> {}, visited |-> {}, stack |-> <<>>]
  <2>1. a.visiting = {} /\ a.visited = {} /\ a.stack = <<>>
    OBVIOUS
  <2>2. NoSearchYet = a
    BY DEF NoSearchYet
  <2>3. Visit(a, root) = [a EXCEPT !.visiting = {root.product}, !.stack = <<x>>]
    <3> HIDE DEF a, x
    <3>1. Append(<<>>, x) = <<x>> /\ {} \cup {root.product} = {root.product}
      OBVIOUS
    <3> QED
      BY <2>1, <3>1 DEF Visit, Placed, x
  <2> QED
    BY <2>2, <2>3
<1>4. /\ t.ordered = <<>> /\ t.issues = {} /\ t.visiting = {root.product} /\ t.visited = {}
      /\ t.stack = <<x>>
  BY <1>3
<1>5. x.rep = root /\ x.todo = root.requires
  OBVIOUS
<1>6. /\ <<x>> \in Seq(Frames(recall)) /\ DOMAIN <<x>> = {1} /\ <<x>>[1] = x /\ <<x>> # <<>>
      /\ Len(<<x>>) = 1
  <2> HIDE DEF x
  <2> QED
    BY <1>2
<1>7. t \in Searches(recall)
  <2> HIDE DEF x, t
  <2> QED
    BY <1>1, <1>3, <1>6 DEF Searches
<1> HIDE DEF t, x
<1>8. SearchType(recall, t)
  BY <1>4, <1>5, <1>6, <1>7 DEF SearchType
<1>9. SearchOnce(t)
  <2>1. {t.stack[i].rep.product : i \in DOMAIN t.stack} = {root.product}
    BY <1>4, <1>5, <1>6
  <2>2. DOMAIN t.ordered = {}
    BY <1>4
  <2> QED
    <3>1. t.visited = {t.ordered[i].product : i \in DOMAIN t.ordered}
      BY <1>4, <2>2
    <3>2. \A i, j \in DOMAIN t.stack : t.stack[i].rep.product = t.stack[j].rep.product => i = j
      BY <1>4, <1>6
    <3>3. t.visiting \cap t.visited = {}
      BY <1>4
    <3> QED
      BY <1>4, <2>1, <2>2, <3>1, <3>2, <3>3, Zenon DEF SearchOnce
<1>10. SearchRoot(recall, root, t)
  <2>1. DOMAIN t.ordered = {}
    BY <1>4
  <2> QED
    BY <1>4, <1>5, <1>6, <2>1 DEF SearchRoot
<1>11. SearchComplete(t)
  <2>1. DOMAIN t.ordered = {}
    BY <1>4
  <2> QED
    BY <1>4, <1>5, <1>6, <2>1 DEF SearchComplete
<1> QED
  BY <1>8, <1>9, <1>10, <1>11 DEF SearchOK, t

\* While a visit is under way there is work left.
LEMMA WorkLeft ==
  ASSUME NEW recall, IsRecall(recall), NEW root, NEW s, SearchOK(recall, root, s), s.stack # <<>>
  PROVE  Work(recall, s) # 0
<1>1. s.stack \in Seq(Frames(recall))
  BY DEF SearchOK, SearchType, Searches
<1>2. 1 \in DOMAIN s.stack /\ s.stack[1] \in Frames(recall)
  <2>1. Len(s.stack) \in Nat \ {0} /\ DOMAIN s.stack = 1..Len(s.stack)
    BY <1>1, FrontLast
  <2> QED
    BY <1>1, <2>1
<1>3. s.stack[1].rep.product \in s.visiting /\ s.stack[1].rep.product \notin s.visited
  BY <1>2 DEF SearchOK, SearchOnce
<1>4. s.stack[1].rep \in Unplaced(recall, s)
  BY <1>2, <1>3 DEF SearchOK, SearchOnce, Unplaced, Frames
<1>5. IsFiniteSet(Unplaced(recall, s)) /\ IsFiniteSet(Unsought(recall, s))
  BY WorkType
<1>6. Cardinality(Unplaced(recall, s)) \in Nat \ {0} /\ Cardinality(Unsought(recall, s)) \in Nat
  BY <1>4, <1>5, FS_CardinalityType, FS_EmptySet
<1> QED
  BY <1>6 DEF Work

\* The depth-first search from a root ends with everything it could place in order.
LEMMA ClosureOK ==
  ASSUME NEW recall, IsRecall(recall), NEW root \in recall.representatives
  PROVE  SearchOK(recall, root, closure(recall, root)) /\ closure(recall, root).stack = <<>>
<1> DEFINE T == Turns(recall)
           S == {s \in Searches(recall) : SearchOK(recall, root, s)}
           a == Visit(NoSearchYet, root)
           g == [s \in S |-> Advance(recall, s)]
           Steps(f) == f = [n \in 0..T |-> IF n = 0 THEN a ELSE Advance(recall, f[n - 1])]
<1>0. T \in Nat
  BY WorkType
<1>1. a \in S
  <2> HIDE DEF a
  <2>1. SearchOK(recall, root, a)
    BY RootEntered DEF a
  <2> QED
    BY <2>1 DEF SearchOK, SearchType
<1>2. \A s \in S : Advance(recall, s) \in S
  <2> SUFFICES ASSUME NEW s \in S PROVE Advance(recall, s) \in S
    OBVIOUS
  <2>1. SearchOK(recall, root, Advance(recall, s))
    BY AdvanceKeeps
  <2> QED
    BY <2>1 DEF SearchOK, SearchType
<1> HIDE DEF T, S, a
<1>3. g \in [S -> S]
  BY <1>2
<1>4. PICK f \in [0..T -> S] : Iterates(f, a, g, T)
  <2> HIDE DEF g
  <2> QED
    BY <1>0, <1>1, <1>3, IteratesExist
<1>5. Steps(f)
  <2>1. ASSUME NEW n \in 0..T PROVE f[n] = IF n = 0 THEN a ELSE Advance(recall, f[n - 1])
    <3>1. CASE n = 0
      BY <1>4, <3>1 DEF Iterates
    <3>2. CASE n # 0
      <4>1. n \in 1..T /\ n - 1 \in 0..T
        BY <1>0, <3>2
      <4>2. f[n] = g[f[n - 1]] /\ f[n - 1] \in S
        BY <1>4, <4>1 DEF Iterates
      <4> QED
        BY <3>2, <4>2
    <3> QED
      BY <3>1, <3>2
  <2> QED
    BY <1>4, <2>1
<1> DEFINE h == CHOOSE k : Steps(k)
<1>6. Steps(h)
  <2> HIDE DEF Steps
  <2> QED
    BY <1>5
<1>7. closure(recall, root) = h[T]
  BY DEF closure, T, a
<1> HIDE DEF h
<1> DEFINE Good(n) == /\ SearchOK(recall, root, h[n])
                      /\ h[n].stack = <<>> \/ Work(recall, h[n]) <= T - n
           P == {n \in Nat : n <= T => Good(n)}
<1>8. 0 \in P
  <2>1. h[0] = a
    BY <1>0, <1>6
  <2>2. SearchOK(recall, root, a)
    BY <1>1 DEF S
  <2>3. Work(recall, a) <= T - 0
    BY <1>0, WorkType DEF T
  <2> QED
    BY <2>1, <2>2, <2>3
<1>9. ASSUME NEW n \in P PROVE n + 1 \in P
  <2> SUFFICES ASSUME n + 1 <= T PROVE Good(n + 1)
    OBVIOUS
  <2>1. n \in Nat /\ n + 1 \in 0..T /\ n + 1 # 0 /\ (n + 1) - 1 = n /\ n <= T
    BY <1>0
  <2>2. SearchOK(recall, root, h[n]) /\ (h[n].stack = <<>> \/ Work(recall, h[n]) <= T - n)
    <3>1. Good(n)
      <4> HIDE DEF Good
      <4> QED
        BY <2>1
    <3> QED
      BY <3>1
  <2>3. h[n + 1] = Advance(recall, h[n])
    BY <1>6, <2>1
  <2>4. /\ SearchOK(recall, root, h[n + 1])
        /\ h[n].stack # <<>> => Shrinks(recall, h[n], h[n + 1])
        /\ h[n].stack = <<>> => h[n + 1] = h[n]
    BY <2>2, <2>3, AdvanceKeeps
  <2> HIDE DEF P, Steps
  <2>5. CASE h[n].stack = <<>>
    BY <2>4, <2>5
  <2>6. CASE h[n].stack # <<>>
    <3>1. Work(recall, h[n + 1]) <= Work(recall, h[n]) - 1
      BY <2>4, <2>6, WorkShrinks
    <3>2. Work(recall, h[n + 1]) \in Nat /\ Work(recall, h[n]) \in Nat
      BY WorkType
    <3> QED
      BY <1>0, <2>1, <2>2, <2>4, <2>6, <3>1, <3>2
  <2> QED
    BY <2>5, <2>6
<1> HIDE DEF P
<1>10. P = Nat
  <2>1. P \in SUBSET Nat
    BY DEF P
  <2> QED
    BY <1>8, <1>9, <2>1, NatSetInduction
<1>11. SearchOK(recall, root, h[T]) /\ (h[T].stack = <<>> \/ Work(recall, h[T]) <= T - T)
  <2>1. Good(T)
    <3> HIDE DEF Good
    <3> QED
      BY <1>0, <1>10 DEF P
  <2> QED
    BY <2>1
<1>12. h[T].stack = <<>>
  <2> SUFFICES ASSUME h[T].stack # <<>> PROVE FALSE
    OBVIOUS
  <2>1. Work(recall, h[T]) # 0
    BY <1>11, WorkLeft
  <2>2. Work(recall, h[T]) \in Nat
    BY WorkType
  <2> HIDE DEF Steps
  <2> QED
    BY <1>0, <1>11, <2>1, <2>2
<1> QED
  BY <1>7, <1>11, <1>12

(***************************************************************************)
(* Plan materials.                                                         *)
(***************************************************************************)
LEMMA OfferType ==
  ASSUME NEW in, DecisionGraphInput(in), NEW name, OffersFor(in, name) # {}
  PROVE  OfferOf(in, name) \in in.offers /\ OfferCost(OfferOf(in, name))
<1> DEFINE S == OffersFor(in, name)
           ids == {o.id : o \in S}
           f == [o \in S |-> o.id]
<1>1. S \in SUBSET in.offers
  BY DEF OffersFor
<1>2. IsFiniteSet(S) /\ \A o \in S : o.id \in Int
  BY <1>1, InputFinite, InputRows, FS_Subset
<1> HIDE DEF S
<1>3. IsFiniteSet(DOMAIN f) /\ \A y \in ids : \E x \in DOMAIN f : y = f[x]
  BY <1>2
<1>4. ids \in SUBSET Int /\ ids # {}
  BY <1>2 DEF S
<1>5. IsFiniteSet(ids)
  <2> HIDE DEF f, ids
  <2> QED
    BY <1>3, FiniteCover
<1>6. Max(ids) \in ids /\ \A x \in ids : x <= Max(ids)
  <2> HIDE DEF ids
  <2> QED
    BY <1>4, <1>5, Extrema
<1>7. \E o \in S : \A p \in S : p.id <= o.id
  BY <1>6
<1>8. OfferOf(in, name) \in S
  BY <1>7 DEF OfferOf, S
<1> QED
  BY <1>1, <1>8, InputRows

\* A total is an amount or unknown.
LEMMA TotalType ==
  ASSUME NEW f, IsFiniteSet(DOMAIN f), \A x \in DOMAIN f : f[x] \in Int, NEW n
  PROVE  Total(f, n) \in Int
  BY SumType DEF Total, None

\* What a bundle costs is a number, or None.
LEMMA CombinedCostType ==
  ASSUME NEW in, DecisionGraphInput(in), NEW R, NEW records \in Seq(R)
  PROVE  LET cost == _combined_cost(in, records).cost
         IN  cost.low \in Int /\ cost.base \in Int /\ cost.high \in Int
<1> DEFINE priced == {i \in DOMAIN records : OffersFor(in, records[i].offer) # {}}
           costs == [i \in priced |-> OfferOf(in, records[i].offer)]
           amounts(field) == [i \in priced |-> costs[i][field]]
           total(field) == Total(amounts(field), Len(records))
           cost == _combined_cost(in, records).cost
<1>1. Len(records) \in Nat /\ DOMAIN records = 1..Len(records)
  OBVIOUS
<1>2. IsFiniteSet(priced)
  <2>1. priced \in SUBSET (1..Len(records)) /\ IsFiniteSet(1..Len(records))
    BY <1>1, FS_Interval
  <2> QED
    BY <2>1, FS_Subset
<1>3. \A i \in priced : costs[i].low \in Int /\ costs[i].base \in Int /\ costs[i].high \in Int
  BY OfferType DEF OfferCost
<1>4. CASE Len(records) = 1 /\ priced # {}
  <2>1. 1 \in priced
    BY <1>1, <1>4
  <2>2. cost = costs[1]
    BY <1>4 DEF _combined_cost
  <2> QED
    BY <1>3, <2>1, <2>2
<1>5. CASE ~(Len(records) = 1 /\ priced # {})
  <2>1. cost.low = total("low") /\ cost.base = total("base") /\ cost.high = total("high")
    BY <1>5 DEF _combined_cost
  <2>2. ASSUME NEW field \in {"low", "base", "high"} PROVE total(field) \in Int
    <3>1. IsFiniteSet(DOMAIN amounts(field)) /\ \A x \in DOMAIN amounts(field) : amounts(field)[x] \in Int
      BY <1>2, <1>3
    <3> HIDE DEF amounts
    <3> QED
      BY <3>1, TotalType
  <2> HIDE DEF total, cost
  <2> QED
    BY <2>1, <2>2 DEF cost
<1> QED
  BY <1>4, <1>5

\* An aggregation yields one value or none.
LEMMA AggregatedFinite ==
  ASSUME NEW how, NEW values
  PROVE  IsFiniteSet(Aggregated(how, values))
<1> DEFINE A == Aggregated(how, values)
<1>1. A = {} \/ \E x : A = {x}
  BY DEF Aggregated
<1> SUFFICES IsFiniteSet(A)
  OBVIOUS
<1> HIDE DEF A
<1>2. CASE A = {}
  <2>1. IsFiniteSet({})
    BY FS_EmptySet
  <2> QED
    BY <1>2, <2>1
<1>3. CASE \E x : A = {x}
  <2>1. PICK x : A = {x}
    BY <1>3
  <2>2. IsFiniteSet({x})
    BY FS_Singleton
  <2> QED
    BY <2>1, <2>2
<1> QED
  BY <1>1, <1>2, <1>3

\* The facts of a bundle are finitely many, aggregated or not.
LEMMA AggregatedFactsFinite ==
  ASSUME NEW in, DecisionGraphInput(in), NEW R, NEW records \in Seq(R), records # <<>>,
         \A r \in R : IsFiniteSet(r.facts)
  PROVE  /\ IsFiniteSet(_aggregate_preference_facts(in, records))
         /\ IsFiniteSet(UNION {r.facts : r \in Range(records)})
<1> DEFINE raw == UNION {r.facts : r \in Range(records)}
           fields == {c.field : c \in in.preferences}
           criterion(field) == CHOOSE c \in in.preferences :
              c.field = field /\ \A d \in in.preferences : d.field = field => d.id <= c.id
           stated(field, i) == {f \in records[i].facts : f.field = field}
           how(field) == criterion(field).aggregation
           single(field) == \A i \in DOMAIN records : Cardinality(stated(field, i)) = 1
           facts(field) == [i \in DOMAIN records |-> CHOOSE f \in stated(field, i) : TRUE]
           value(field) == Aggregated(how(field), [i \in DOMAIN records |-> facts(field)[i].value])
           fact(field, v) == [field |-> field, value |-> v, component |-> Last(records).product,
                       evidence |-> UNION {f.evidence : f \in Range(facts(field))}]
           bundle(field) ==
              IF how(field) = "PRIMARY_COMPONENT" THEN stated(field, Len(records))
                ELSE IF single(field) /\ value(field) # {}
                THEN {fact(field, v) : v \in value(field)}
                ELSE UNION {stated(field, i) : i \in DOMAIN records}
           all == _aggregate_preference_facts(in, records)
           bundled == UNION {bundle(x) : x \in fields}
<1>0. Len(records) \in Nat \ {0} /\ DOMAIN records = 1..Len(records)
  BY EmptySeq
<1>1. IsFiniteSet(raw)
  <2> DEFINE f == [i \in DOMAIN records |-> records[i].facts]
  <2>1. IsFiniteSet(DOMAIN f)
    BY <1>0, FS_Interval
  <2>2. \A x \in DOMAIN f : IsFiniteSet(f[x])
    OBVIOUS
  <2>3. \A y \in raw : \E x \in DOMAIN f : y \in f[x]
    BY DEF Range
  <2> HIDE DEF f, raw
  <2> QED
    BY <2>1, <2>2, <2>3, FiniteUnion
<1>2. all = IF Len(records) = 1 THEN raw ELSE {f \in raw : f.field \notin fields} \cup bundled
  BY DEF _aggregate_preference_facts
<1>3. CASE Len(records) = 1
  BY <1>1, <1>2, <1>3
<1>4. CASE Len(records) # 1
  <2> HIDE DEF fact, value, how, single
  <2>1. \A field \in fields, i \in DOMAIN records : stated(field, i) \in SUBSET raw
    BY DEF Range
  <2>2. ASSUME NEW field \in fields PROVE IsFiniteSet(bundle(field))
    <3>1. IsFiniteSet(UNION {stated(field, i) : i \in DOMAIN records})
      <4>1. UNION {stated(field, i) : i \in DOMAIN records} \in SUBSET raw
        BY <2>1
      <4> HIDE DEF raw, stated
      <4> QED
        BY <1>1, <4>1, FS_Subset
    <3>2. IsFiniteSet(stated(field, Len(records)))
      <4>0. Len(records) \in DOMAIN records
        BY <1>0
      <4>1. stated(field, Len(records)) \in SUBSET raw
        BY <2>1, <4>0
      <4> HIDE DEF raw, stated
      <4> QED
        BY <1>1, <4>1, FS_Subset
    <3>3. IsFiniteSet({fact(field, v) : v \in value(field)})
      <4> DEFINE T == {fact(field, v) : v \in value(field)}
                 g == [v \in value(field) |-> fact(field, v)]
      <4>1. IsFiniteSet(value(field))
        BY AggregatedFinite DEF value
      <4>2. IsFiniteSet(DOMAIN g) /\ \A y \in T : \E x \in DOMAIN g : y = g[x]
        BY <4>1
      <4> HIDE DEF g, T
      <4>3. IsFiniteSet(T)
        BY <4>2, FiniteCover
      <4> QED
        BY <4>3 DEF T
    <3> HIDE DEF stated
    <3> QED
      BY <3>1, <3>2, <3>3
  <2> HIDE DEF bundle
  <2>3. IsFiniteSet(bundled)
    <3> DEFINE g == [c \in in.preferences |-> bundle(c.field)]
    <3>1. IsFiniteSet(DOMAIN g) /\ \A x \in DOMAIN g : IsFiniteSet(g[x])
      BY <2>2, InputFinite
    <3>2. \A y \in bundled : \E x \in DOMAIN g : y \in g[x]
      OBVIOUS
    <3> HIDE DEF g, bundled
    <3> QED
      BY <3>1, <3>2, FiniteUnion
  <2>4. IsFiniteSet({f \in raw : f.field \notin fields})
    <3>1. {f \in raw : f.field \notin fields} \in SUBSET raw
      OBVIOUS
    <3> HIDE DEF raw
    <3> QED
      BY <1>1, <3>1, FS_Subset
  <2> HIDE DEF raw, bundled, fields
  <2>5. IsFiniteSet({f \in raw : f.field \notin fields} \cup bundled)
    BY <2>3, <2>4, FS_Union
  <2> QED
    BY <1>1, <1>2, <1>4, <2>5 DEF raw
<1> QED
  BY <1>3, <1>4

\* What a plan is built from.
IsMaterial(m) ==
    /\ m.src \in Seq(Int) /\ m.components \in Seq(Int) /\ m.components # <<>>
    /\ m.action \in {ActionNames[n] : n \in DOMAIN ActionNames}
    /\ IsFiniteSet(m.facts)
    /\ m.cost.low \in Int /\ m.cost.base \in Int /\ m.cost.high \in Int

\* The material of a bundle is typed.
LEMMA PackMaterialType ==
  ASSUME NEW in, DecisionGraphInput(in), NEW recall, IsRecall(recall),
         NEW root \in recall.representatives
  PROVE  IsMaterial(PackMaterial(in, recall, root))
<1> DEFINE s == closure(recall, root)
           records == s.ordered
           bill == _combined_cost(in, records)
           m == PackMaterial(in, recall, root)
           whole == _aggregate_preference_facts(in, records)
           other == {f \in whole : f.field # CostField}
           raw == UNION {r.facts : r \in Range(records)}
           priceEvidence == UNION {f.evidence : f \in {g \in raw : g.field = CostField}}
           tag == [field |-> CostField, value |-> <<"num", bill.cost.base>>,
                   component |-> root.product, evidence |-> priceEvidence]
           price == IF bill.cost.base = None THEN {} ELSE {tag}
<1>1. SearchOK(recall, root, s) /\ s.stack = <<>>
  BY ClosureOK
<1>2. records \in Seq(recall.representatives) /\ records # <<>>
  BY <1>1 DEF SearchOK, SearchType, Searches, SearchRoot
<1>3. /\ m.src = root.key /\ m.action = "REPLACE" /\ m.cost = bill.cost
      /\ m.components = [i \in DOMAIN records |-> records[i].product]
      /\ m.facts = other \cup price
  BY DEF PackMaterial, ClosedMaterial, BundleMaterial
<1> HIDE DEF m, s
<1>4. bill.cost.low \in Int /\ bill.cost.base \in Int /\ bill.cost.high \in Int
  BY <1>2, CombinedCostType
<1>5. \A r \in recall.representatives : r.product \in Int /\ IsFiniteSet(r.facts) /\ r.key \in Seq(Int)
  BY DEF IsRecall, IsRepresentative
<1>6. IsFiniteSet(whole)
  BY <1>2, <1>5, AggregatedFactsFinite
<1>7. IsFiniteSet(other)
  <2>1. other \in SUBSET whole
    OBVIOUS
  <2> HIDE DEF other, whole
  <2> QED
    BY <1>6, <2>1, FS_Subset
<1>8. IsFiniteSet(price)
  <2> HIDE DEF tag, bill
  <2> QED
    BY FS_EmptySet, FS_Singleton
<1>9. IsFiniteSet(m.facts)
  <2>1. m.facts = other \cup price
    BY <1>3
  <2> HIDE DEF other, price
  <2>2. IsFiniteSet(other \cup price)
    BY <1>7, <1>8, FS_Union
  <2> QED
    BY <2>1, <2>2
<1>10. m.components \in Seq(Int) /\ m.components # <<>>
  <2>1. Len(records) \in Nat \ {0} /\ DOMAIN records = 1..Len(records)
    BY <1>2, EmptySeq
  <2>2. \A i \in 1..Len(records) : records[i].product \in Int
    BY <1>2, <1>5, <2>1
  <2>3. m.components \in [1..Len(records) -> Int]
    BY <1>3, <2>1, <2>2
  <2>4. m.components \in Seq(Int) /\ Len(m.components) = Len(records)
    BY <2>1, <2>3
  <2> QED
    BY <2>1, <2>4
<1>11. "REPLACE" \in {ActionNames[n] : n \in DOMAIN ActionNames}
  BY DEF ActionNames
<1>12. m.src \in Seq(Int) /\ m.action = "REPLACE"
  BY <1>3, <1>5
<1>13. m.cost.low \in Int /\ m.cost.base \in Int /\ m.cost.high \in Int
  <2>1. m.cost = bill.cost
    BY <1>3
  <2> HIDE DEF bill
  <2> QED
    BY <1>4, <2>1
<1> QED
  BY <1>9, <1>10, <1>11, <1>12, <1>13 DEF IsMaterial, m

\* The material of an action on the current stack is typed.
LEMMA CurrentMaterialType ==
  ASSUME NEW in, DecisionGraphInput(in), NEW a \in in.current
  PROVE  IsMaterial(_current_material(a))
<1>1. CurrentActionRecord(a)
  BY InputRows
<1>2. a.action \in {ActionNames[n] : n \in DOMAIN ActionNames}
  BY <1>1 DEF CurrentActionRecord, Actions, QuoteActions, AutonomousActions, ActionNames
<1>3. /\ a.id \in Int /\ a.instance \in Int /\ IsFiniteSet(a.facts)
      /\ a.cost.low \in Int /\ a.cost.base \in Int /\ a.cost.high \in Int
  BY <1>1 DEF CurrentActionRecord, OfferCost
<1>4. /\ _current_material(a).src = <<a.id>> /\ _current_material(a).components = <<a.instance>>
      /\ _current_material(a).action = a.action /\ _current_material(a).facts = a.facts
      /\ _current_material(a).cost = a.cost
  BY DEF _current_material
<1>5. <<a.id>> \in Seq(Int) /\ <<a.instance>> \in Seq(Int) /\ <<a.instance>> # <<>>
  BY <1>3
<1> QED
  BY <1>2, <1>3, <1>4, <1>5 DEF IsMaterial

\* A material is known by its source.
LEMMA MaterialsType ==
  ASSUME NEW in, DecisionGraphInput(in), NEW recall, IsRecall(recall)
  PROVE  /\ IsFiniteSet(Materials(in, recall))
         /\ \A m \in Materials(in, recall) : IsMaterial(m)
         /\ \A m, k \in Materials(in, recall) : m.src = k.src => m = k
<1> DEFINE A == {PackMaterial(in, recall, r) : r \in recall.representatives}
           B == {_current_material(a) : a \in in.current}
<1>1. Materials(in, recall) = A \cup B
  BY DEF Materials
<1>2. IsFiniteSet(A)
  <2> DEFINE f == [r \in recall.representatives |-> PackMaterial(in, recall, r)]
  <2>1. IsFiniteSet(DOMAIN f) /\ \A y \in A : \E x \in DOMAIN f : y = f[x]
    BY DEF IsRecall
  <2> HIDE DEF f, A
  <2> QED
    BY <2>1, FiniteCover
<1>3. IsFiniteSet(B)
  <2> DEFINE f == [a \in in.current |-> _current_material(a)]
  <2>1. IsFiniteSet(DOMAIN f) /\ \A y \in B : \E x \in DOMAIN f : y = f[x]
    BY InputFinite
  <2> HIDE DEF f, B
  <2> QED
    BY <2>1, FiniteCover
<1>4. \A r \in recall.representatives : PackMaterial(in, recall, r).src = r.key /\ Len(r.key) = 4
  BY DEF PackMaterial, ClosedMaterial, BundleMaterial, IsRecall, IsRepresentative
<1>5. \A a \in in.current : _current_material(a).src = <<a.id>> /\ Len(<<a.id>>) = 1
  BY DEF _current_material
<1>6. (\A m \in A : Len(m.src) = 4) /\ (\A m \in B : Len(m.src) = 1)
  <2>1. \A m \in A : Len(m.src) = 4
    BY <1>4
  <2>2. \A m \in B : Len(m.src) = 1
    BY <1>5
  <2> QED
    BY <2>1, <2>2
<1>7. \A m, k \in A : m.src = k.src => m = k
  BY <1>4 DEF IsRecall
<1>8. \A m, k \in B : m.src = k.src => m = k
  <2> SUFFICES ASSUME NEW a \in in.current, NEW b \in in.current,
                      _current_material(a).src = _current_material(b).src
               PROVE  a = b
    OBVIOUS
  <2>1. <<a.id>> = <<b.id>>
    BY <1>5
  <2>2. a.id = b.id
    BY <2>1
  <2> QED
    BY <2>2, InputKeys
<1>9. \A m \in A \cup B : IsMaterial(m)
  BY PackMaterialType, CurrentMaterialType
<1> HIDE DEF A, B
<1>10. IsFiniteSet(A \cup B)
  BY <1>2, <1>3, FS_Union
<1>11. \A m, k \in A \cup B : m.src = k.src => m = k
  <2> SUFFICES ASSUME NEW m \in A \cup B, NEW k \in A \cup B, m.src = k.src PROVE m = k
    OBVIOUS
  <2>1. Len(m.src) = Len(k.src)
    OBVIOUS
  <2>2. (m \in A /\ k \in A) \/ (m \in B /\ k \in B)
    BY <1>6, <2>1
  <2> QED
    BY <1>7, <1>8, <2>2
<1> QED
  BY <1>1, <1>9, <1>10, <1>11

\* A product with a natural number keeps the order.
LEMMA TimesMonotone ==
  ASSUME NEW u \in Nat, NEW a \in Int, NEW b \in Int, a <= b
  PROVE  u * a \in Int /\ u * b \in Int /\ u * a <= u * b
<1>1. b - a \in Nat
  OBVIOUS
<1>2. u * (b - a) \in Nat
  BY <1>1
<1>3. u * b = u * a + u * (b - a)
  OBVIOUS
<1> QED
  BY <1>2, <1>3

\* A quotient of a larger number is larger.
LEMMA DivMonotone ==
  ASSUME NEW a \in Int, NEW b \in Int, NEW d \in Nat \ {0}, a <= b
  PROVE  a \div d \in Int /\ b \div d \in Int /\ a \div d <= b \div d
<1> DEFINE q == a \div d  r == b \div d  x == a % d  y == b % d
<1>1. q \in Int /\ r \in Int /\ x \in Int /\ y \in Int /\ 0 <= x /\ x < d /\ 0 <= y /\ y < d
  OBVIOUS
<1>2. a = d * q + x /\ b = d * r + y
  OBVIOUS
<1> HIDE DEF q, r, x, y
<1>3. ASSUME q > r PROVE FALSE
  <2>1. q = r + 1 + (q - r - 1) /\ q - r - 1 \in Nat
    BY <1>1, <1>3
  <2>2. d * q = d * r + d + d * (q - r - 1)
    BY <1>1, <2>1
  <2>3. d * (q - r - 1) \in Nat /\ d * r \in Int
    BY <1>1, <2>1
  <2> QED
    BY <1>1, <1>2, <2>2, <2>3
<1>4. q <= r
  BY <1>1, <1>3
<1> QED
  BY <1>1, <1>4 DEF q, r

(***************************************************************************)
(* Evidence.                                                               *)
(***************************************************************************)
IsAssessment(a) == a.age.low \in Int /\ a.age.high \in Int /\ a.age.low <= a.age.high

\* The age of evidence has its bounds in order, as evidence_age_bounds needs.
LEMMA AgeBounds ==
  ASSUME NEW in, DecisionGraphInput(in), NEW e \in in.evidence, NEW p \in in.evidencePolicies
  PROVE  IsAssessment(_assessment(in, e, p))
<1>1. e.lower \in Int /\ e.upper \in Int /\ e.lower <= e.upper /\ in.now \in Int /\ p.sla \in Nat \ {0}
  BY InputRows DEF EvidenceRecord, EvidencePolicy
<1>2. Unit \in Nat
  BY UnitAssumption
<1> DEFINE x == Unit * (in.now - e.upper)  y == Unit * (in.now - e.lower)
           age == evidence_age_bounds(in, e, p)
<1>3. in.now - e.upper <= in.now - e.lower /\ in.now - e.upper \in Int /\ in.now - e.lower \in Int
  BY <1>1
<1>4. x \in Int /\ y \in Int /\ x <= y
  BY <1>2, <1>3, TimesMonotone
<1>5. age.low = x \div p.sla /\ age.high = y \div p.sla
  BY DEF evidence_age_bounds
<1> HIDE DEF x, y, age
<1>6. age.low \in Int /\ age.high \in Int /\ age.low <= age.high
  BY <1>1, <1>4, <1>5, DivMonotone
<1>7. _assessment(in, e, p).age = IF e.lower # None THEN age ELSE [low |-> 0, high |-> 0]
  BY DEF _assessment, age
<1>8. CASE e.lower # None
  BY <1>6, <1>7, <1>8 DEF IsAssessment
<1>9. CASE e.lower = None
  BY <1>7, <1>9 DEF IsAssessment
<1> QED
  BY <1>8, <1>9

\* Finitely many pairs of evidence and field are assessed.
LEMMA PairsFinite ==
  ASSUME NEW in, DecisionGraphInput(in), NEW recall, IsRecall(recall)
  PROVE  IsFiniteSet(MaterialPairs(in, recall))
<1> DEFINE factsOf == (UNION {r.facts : r \in recall.representatives})
                        \cup (UNION {a.facts : a \in in.current})
           observed == {x \in in.outcomes \X in.preferences : x[1].criterion = x[2].id}
           A == UNION {{<<e, f.field>> : e \in f.evidence} : f \in factsOf}
           B == UNION {{<<e, x[2].field>> : e \in x[1].evidence} : x \in observed}
<1>1. MaterialPairs(in, recall) = A \cup B
  BY DEF MaterialPairs
<1>2. IsFiniteSet(factsOf) /\ \A f \in factsOf : IsFiniteSet(f.evidence)
  <2> DEFINE S == recall.representatives
             h == [r \in S |-> r.facts]
             k == [a \in in.current |-> a.facts]
             C == UNION {r.facts : r \in recall.representatives}
             D == UNION {a.facts : a \in in.current}
  <2>1. \A r \in S : IsFiniteSet(r.facts) /\ \A f \in r.facts : IsFiniteSet(f.evidence)
    BY DEF IsRecall, IsRepresentative
  <2>2. \A a \in in.current : IsFiniteSet(a.facts) /\ \A f \in a.facts : IsFiniteSet(f.evidence)
    BY InputRows DEF CurrentActionRecord, ProductFact
  <2>3. IsFiniteSet(C)
    <3>1. IsFiniteSet(DOMAIN h) /\ \A x \in DOMAIN h : IsFiniteSet(h[x])
      BY <2>1 DEF IsRecall
    <3>2. \A y \in C : \E x \in DOMAIN h : y \in h[x]
      OBVIOUS
    <3> HIDE DEF h, C
    <3> QED
      BY <3>1, <3>2, FiniteUnion
  <2>4. IsFiniteSet(D)
    <3>1. IsFiniteSet(DOMAIN k) /\ \A x \in DOMAIN k : IsFiniteSet(k[x])
      BY <2>2, InputFinite
    <3>2. \A y \in D : \E x \in DOMAIN k : y \in k[x]
      OBVIOUS
    <3> HIDE DEF k, D
    <3> QED
      BY <3>1, <3>2, FiniteUnion
  <2>5. \A f \in C \cup D : IsFiniteSet(f.evidence)
    BY <2>1, <2>2
  <2> HIDE DEF C, D
  <2>6. IsFiniteSet(C \cup D)
    BY <2>3, <2>4, FS_Union
  <2>7. factsOf = C \cup D
    BY DEF C, D
  <2> HIDE DEF factsOf
  <2> QED
    BY <2>5, <2>6, <2>7
<1>3. IsFiniteSet(observed) /\ \A x \in observed : IsFiniteSet(x[1].evidence)
  <2>1. IsFiniteSet(in.outcomes \X in.preferences)
    BY InputFinite, FS_Product
  <2>2. observed \in SUBSET (in.outcomes \X in.preferences)
    OBVIOUS
  <2>3. \A x \in observed : x[1] \in in.outcomes
    OBVIOUS
  <2>4. \A o \in in.outcomes : IsFiniteSet(o.evidence)
    BY InputRows DEF OutcomeObservation
  <2> HIDE DEF observed
  <2> QED
    BY <2>1, <2>2, <2>3, <2>4, FS_Subset
<1> HIDE DEF factsOf, observed
<1>4. ASSUME NEW S, IsFiniteSet(S), NEW v
      PROVE  IsFiniteSet({<<e, v>> : e \in S})
  <2> DEFINE g == [e \in S |-> <<e, v>>]
             T == {<<e, v>> : e \in S}
  <2>1. IsFiniteSet(DOMAIN g) /\ \A y \in T : \E x \in DOMAIN g : y = g[x]
    BY <1>4
  <2> HIDE DEF g, T
  <2>2. IsFiniteSet(T)
    BY <2>1, FiniteCover
  <2> QED
    BY <2>2 DEF T
<1>5. IsFiniteSet(A)
  <2> DEFINE g == [f \in factsOf |-> {<<e, f.field>> : e \in f.evidence}]
  <2>1. IsFiniteSet(DOMAIN g) /\ \A x \in DOMAIN g : IsFiniteSet(g[x])
    BY <1>2, <1>4
  <2>2. \A y \in A : \E x \in DOMAIN g : y \in g[x]
    OBVIOUS
  <2> HIDE DEF g, A
  <2> QED
    BY <2>1, <2>2, FiniteUnion
<1>6. IsFiniteSet(B)
  <2> DEFINE g == [x \in observed |-> {<<e, x[2].field>> : e \in x[1].evidence}]
  <2>1. IsFiniteSet(DOMAIN g) /\ \A x \in DOMAIN g : IsFiniteSet(g[x])
    BY <1>3, <1>4
  <2>2. \A y \in B : \E x \in DOMAIN g : y \in g[x]
    OBVIOUS
  <2> HIDE DEF g, B
  <2> QED
    BY <2>1, <2>2, FiniteUnion
<1> HIDE DEF A, B
<1> QED
  BY <1>1, <1>5, <1>6, FS_Union

\* The assessment of one pair.
Assessment(in, x) ==
    IF EvidenceFor(in, x[1]) = {} THEN MissingAssessment(x[1], x[2])
    ELSE _assessment(in, CHOOSE e \in EvidenceFor(in, x[1]) : TRUE,
                     CHOOSE p \in PolicyFor(in, x[2]) : TRUE)

\* The assessments are those of the pairs a decision can rest on.
LEMMA AssessmentsAre ==
  ASSUME NEW in, NEW recall
  PROVE  assess_evidence(in, recall) = {Assessment(in, x) : x \in MaterialPairs(in, recall)}
  BY DEF assess_evidence, Assessment

\* When nothing raises the assessments are finite and each has an age in order.
LEMMA AssessmentsType ==
  ASSUME NEW in, DecisionGraphInput(in), NEW recall, IsRecall(recall), ~AssessmentRaises(in, recall)
  PROVE  /\ IsFiniteSet(assess_evidence(in, recall))
         /\ \A a \in assess_evidence(in, recall) : IsAssessment(a)
<1> DEFINE P == MaterialPairs(in, recall)
           T == {Assessment(in, x) : x \in P}
           g == [x \in P |-> Assessment(in, x)]
<1>1. IsFiniteSet(DOMAIN g) /\ \A y \in T : \E x \in DOMAIN g : y = g[x]
  BY PairsFinite
<1>2. IsFiniteSet(T)
  <2> HIDE DEF g, T
  <2> QED
    BY <1>1, FiniteCover
<1>3. ASSUME NEW x \in P PROVE IsAssessment(Assessment(in, x))
  <2>1. CASE EvidenceFor(in, x[1]) = {}
    BY <2>1 DEF Assessment, MissingAssessment, IsAssessment
  <2>2. CASE EvidenceFor(in, x[1]) # {}
    <3> DEFINE e == CHOOSE e \in EvidenceFor(in, x[1]) : TRUE
               p == CHOOSE p \in PolicyFor(in, x[2]) : TRUE
    <3>1. e \in in.evidence
      BY <2>2 DEF EvidenceFor
    <3>2. p \in in.evidencePolicies
      BY DEF AssessmentRaises, PolicyFor
    <3>3. Assessment(in, x) = _assessment(in, e, p)
      BY <2>2 DEF Assessment
    <3> HIDE DEF e, p
    <3> QED
      BY <3>1, <3>2, <3>3, AgeBounds
  <2> QED
    BY <2>1, <2>2
<1> QED
  BY <1>2, <1>3, AssessmentsAre

(***************************************************************************)
(* Scores.                                                                 *)
(***************************************************************************)
IsSat(b) == b.low \in 0..Unit /\ b.high \in 0..Unit /\ b.low <= b.high

\* What is known of a score.
IsScore(s) == s.weight \in 1..5 /\ s.coverageWeight \in 1..5 /\ IsSat(s.sat)

\* A satisfaction is a part of the whole.
LEMMA NormalizationType ==
  ASSUME NEW c, PreferenceCriterion(c), NEW value
  PROVE  _normalization_value(c, value) \in 0..Unit
<1> DEFINE reached == {p \in c.points : value[2] <= p.maximum}
           least == CHOOSE p \in reached : \A q \in reached : p.maximum <= q.maximum
<1>1. Unit \in 0..Unit /\ 0 \in 0..Unit
  BY UnitAssumption
<1>2. ASSUME reached # {} PROVE least.sat \in 0..Unit
  <2>1. IsFiniteSet(c.points) /\ \A p \in c.points : p.maximum \in Int /\ p.sat \in 0..Unit
    BY DEF PreferenceCriterion
  <2> DEFINE g == [p \in reached |-> p.maximum]
             T == {p.maximum : p \in reached}
  <2>2. IsFiniteSet(reached)
    <3>1. reached \in SUBSET c.points
      OBVIOUS
    <3> HIDE DEF reached
    <3> QED
      BY <2>1, <3>1, FS_Subset
  <2>3. IsFiniteSet(DOMAIN g) /\ \A y \in T : \E x \in DOMAIN g : y = g[x]
    BY <2>2
  <2>4. T \in SUBSET Int /\ T # {}
    BY <1>2, <2>1
  <2>5. IsFiniteSet(T)
    <3> HIDE DEF g, T
    <3> QED
      BY <2>3, FiniteCover
  <2>6. Min(T) \in T /\ \A x \in T : Min(T) <= x
    <3> HIDE DEF T
    <3> QED
      BY <2>4, <2>5, Extrema
  <2>7. \E p \in reached : \A q \in reached : p.maximum <= q.maximum
    BY <2>6
  <2>8. least \in reached
    BY <2>7
  <2> QED
    BY <2>1, <2>8
<1>3. _normalization_value(c, value) \in {Unit, 0} \/ (reached # {} /\ _normalization_value(c, value) = least.sat)
  BY DEF _normalization_value
<1> HIDE DEF least, reached
<1> QED
  BY <1>1, <1>2, <1>3

\* What a criterion without proof is worth has its ends in order.
LEMMA UnprovedSat ==
  ASSUME NEW c, PreferenceCriterion(c)
  PROVE  IsSat(Unproved(c))
  BY UnitAssumption DEF IsSat, Unproved, PreferenceCriterion, None

\* What an observed outcome, or the prior, is worth has its ends in order.
LEMMA OutcomeSat ==
  ASSUME NEW in, DecisionGraphInput(in), NEW c, PreferenceCriterion(c),
         c.normalization = "OUTCOME_RATE", NEW m, NEW field, NEW assessments
  PROVE  IsSat(OutcomeScore(in, c, m, field, assessments).sat)
<1> DEFINE observed == _outcome_value(in, m.subject, c.id)
           seen == CHOOSE o \in observed : TRUE
           top == Max({c.prior, 0})
           sat == OutcomeScore(in, c, m, field, assessments).sat
<1>1. c.prior \in 0..Unit
  BY DEF PreferenceCriterion
<1>2. {c.prior, 0} \in SUBSET Int /\ {c.prior, 0} # {}
  BY <1>1
<1>3. IsFiniteSet({c.prior, 0})
  <2>1. IsFiniteSet({c.prior} \cup {0})
    BY FS_Singleton, FS_Union
  <2>2. {c.prior, 0} = {c.prior} \cup {0}
    OBVIOUS
  <2> QED
    BY <2>1, <2>2
<1>4. top \in 0..Unit
  <2>1. top \in {c.prior, 0}
    BY <1>2, <1>3, Extrema
  <2> QED
    BY <1>1, <2>1, UnitAssumption
<1>5. CASE observed = {}
  <2>1. sat = [low |-> top, high |-> top]
    BY <1>5 DEF OutcomeScore
  <2> HIDE DEF top, sat
  <2> QED
    BY <1>4, <2>1 DEF IsSat, sat
<1>6. CASE observed # {}
  <2>1. seen \in in.outcomes
    BY <1>6 DEF _outcome_value
  <2>2. seen.value \in 0..Unit
    BY <2>1, InputRows DEF OutcomeObservation
  <2>3. sat = [low |-> seen.value, high |-> seen.value] \/ sat = Unproved(c)
    BY <1>6 DEF OutcomeScore
  <2> HIDE DEF seen, sat
  <2>4. IsSat([low |-> seen.value, high |-> seen.value])
    BY <2>2 DEF IsSat
  <2> QED
    BY <2>3, <2>4, UnprovedSat DEF sat
<1> QED
  BY <1>5, <1>6

\* What the values of a field are worth has its ends in order.
LEMMA FieldSat ==
  ASSUME NEW c, PreferenceCriterion(c), NEW field, IsFiniteSet(field.values)
  PROVE  IsSat(FieldScore(c, field).sat)
<1> DEFINE worth == {_normalization_value(c, v) : v \in field.values}
           g == [v \in field.values |-> _normalization_value(c, v)]
           sat == FieldScore(c, field).sat
<1>1. worth \in SUBSET (0..Unit)
  BY NormalizationType
<1>2. IsFiniteSet(worth)
  <2>1. IsFiniteSet(DOMAIN g) /\ \A y \in worth : \E x \in DOMAIN g : y = g[x]
    OBVIOUS
  <2> HIDE DEF g, worth
  <2> QED
    BY <2>1, FiniteCover
<1>3. sat = Unproved(c) \/ (worth # {} /\ sat = [low |-> Min(worth), high |-> Max(worth)])
  BY DEF FieldScore
<1> HIDE DEF worth, sat
<1>4. CASE sat = Unproved(c)
  BY <1>4, UnprovedSat DEF sat
<1>5. CASE worth # {} /\ sat = [low |-> Min(worth), high |-> Max(worth)]
  <2>1. worth \in SUBSET Int
    BY <1>1
  <2>2. /\ Max(worth) \in worth /\ \A x \in worth : x <= Max(worth)
        /\ Min(worth) \in worth /\ \A x \in worth : Min(worth) <= x
    BY <1>2, <1>5, <2>1, Extrema
  <2>3. IsSat([low |-> Min(worth), high |-> Max(worth)])
    BY <1>1, <2>2 DEF IsSat
  <2> QED
    BY <1>5, <2>3 DEF sat
<1> QED
  BY <1>3, <1>4, <1>5

\* The score of one criterion.
Score(in, m, assessments, c) ==
    LET field == _field_state(m.facts, c.field, assessments)
        score == IF c.normalization = "OUTCOME_RATE"
                 THEN OutcomeScore(in, c, m, field, assessments) ELSE FieldScore(c, field)
    IN  [id |-> c.id, weight |-> c.weight, coverageWeight |-> c.coverageWeight,
         sat |-> score.sat, state |-> score.state, prior |-> score.prior,
         evidence |-> score.evidence, resolvable |-> c.resolvable,
         unbounded |-> score.unbounded \/ field.untimed]

Scored(in, m) == {d \in in.preferences : Applies(in, d, m.action)}

\* The scores are those of the criteria that apply.
LEMMA ScoresAre ==
  ASSUME NEW in, NEW m, NEW assessments
  PROVE  _score_components(in, m, assessments) = {Score(in, m, assessments, c) : c \in Scored(in, m)}
  BY DEF _score_components, Score, Scored

\* A field has finitely many values.
LEMMA FieldStateType ==
  ASSUME NEW facts, IsFiniteSet(facts), NEW field, NEW assessments
  PROVE  IsFiniteSet(_field_state(facts, field, assessments).values)
<1> DEFINE matching == {f \in facts : f.field = field}
           values == {f.value : f \in matching}
           g == [f \in matching |-> f.value]
<1>1. matching \in SUBSET facts
  OBVIOUS
<1>2. _field_state(facts, field, assessments).values = values
  BY DEF _field_state
<1>3. DOMAIN g = matching /\ \A y \in values : \E x \in DOMAIN g : y = g[x]
  OBVIOUS
<1> HIDE DEF matching, values, g
<1>4. IsFiniteSet(DOMAIN g)
  BY <1>1, <1>3, FS_Subset
<1> QED
  BY <1>2, <1>3, <1>4, FiniteCover

\* Every score has a positive weight and a satisfaction in order.
LEMMA ScoreType ==
  ASSUME NEW in, DecisionGraphInput(in), NEW m, IsFiniteSet(m.facts), NEW assessments,
         NEW c \in Scored(in, m)
  PROVE  IsScore(Score(in, m, assessments, c)) /\ Score(in, m, assessments, c).id = c.id
<1> DEFINE field == _field_state(m.facts, c.field, assessments)
           score == IF c.normalization = "OUTCOME_RATE"
                    THEN OutcomeScore(in, c, m, field, assessments) ELSE FieldScore(c, field)
           s == Score(in, m, assessments, c)
<1>1. PreferenceCriterion(c)
  BY InputRows DEF Scored
<1>2. c.weight \in 1..5 /\ c.coverageWeight \in 1..5
  BY <1>1 DEF PreferenceCriterion
<1>3. IsFiniteSet(field.values)
  BY FieldStateType
<1>4. s.id = c.id /\ s.weight = c.weight /\ s.coverageWeight = c.coverageWeight /\ s.sat = score.sat
  BY DEF Score
<1> HIDE DEF field, s
<1>5. IsSat(score.sat)
  <2>1. CASE c.normalization = "OUTCOME_RATE"
    BY <1>1, <2>1, OutcomeSat
  <2>2. CASE c.normalization # "OUTCOME_RATE"
    BY <1>1, <1>3, <2>2, FieldSat
  <2> QED
    BY <2>1, <2>2
<1> HIDE DEF score
<1> QED
  BY <1>2, <1>4, <1>5 DEF IsScore, s

\* The scores of a material are finite and typed.
LEMMA ScoresType ==
  ASSUME NEW in, DecisionGraphInput(in), NEW m, IsFiniteSet(m.facts), NEW assessments
  PROVE  /\ IsFiniteSet(_score_components(in, m, assessments))
         /\ \A s \in _score_components(in, m, assessments) : IsScore(s)
<1> DEFINE C == Scored(in, m)
           T == {Score(in, m, assessments, c) : c \in C}
           g == [c \in C |-> Score(in, m, assessments, c)]
<1>1. IsFiniteSet(C)
  <2>1. C \in SUBSET in.preferences
    BY DEF Scored
  <2> HIDE DEF C
  <2> QED
    BY <2>1, InputFinite, FS_Subset
<1>2. IsFiniteSet(DOMAIN g) /\ \A y \in T : \E x \in DOMAIN g : y = g[x]
  BY <1>1
<1>3. \A s \in T : IsScore(s)
  BY ScoreType
<1> HIDE DEF g, T
<1>4. IsFiniteSet(T)
  BY <1>2, FiniteCover
<1> QED
  BY <1>3, <1>4, ScoresAre DEF T

(***************************************************************************)
(* Ordering bounds.                                                        *)
(***************************************************************************)
Ordered(b) == b.low \in Int /\ b.high \in Int /\ b.low <= b.high

\* The weights of some criteria add up to a positive number.
LEMMA WeightPositive ==
  ASSUME NEW S, IsFiniteSet(S), S # {}, \A c \in S : c.weight \in 1..5
  PROVE  TotalWeight(S) \in Nat \ {0}
<1> DEFINE f == [c \in S |-> c.weight]
<1>1. IsFiniteSet(DOMAIN f) /\ DOMAIN f # {} /\ \A x \in DOMAIN f : f[x] \in Nat \ {0}
  OBVIOUS
<1>2. TotalWeight(S) = SumFunction(f)
  BY DEF TotalWeight
<1> HIDE DEF f
<1> QED
  BY <1>1, <1>2, SumPositive

\* The preference bounds are in order.
LEMMA PreferenceOrdered ==
  ASSUME NEW S, IsFiniteSet(S), S # {}, \A s \in S : IsScore(s)
  PROVE  Ordered(aggregate_preference_bounds(S))
<1> DEFINE f == [c \in S |-> c.weight * c.sat["low"]]
           h == [c \in S |-> c.weight * c.sat["high"]]
           w == TotalWeight(S)
           b == aggregate_preference_bounds(S)
<1>1. \A s \in S : s.weight \in 1..5 /\ IsSat(s.sat)
  BY DEF IsScore
<1>2. w \in Nat \ {0}
  BY <1>1, WeightPositive
<1>3. \A c \in S : f[c] \in Int /\ h[c] \in Int /\ f[c] <= h[c]
  <2> SUFFICES ASSUME NEW c \in S PROVE f[c] \in Int /\ h[c] \in Int /\ f[c] <= h[c]
    OBVIOUS
  <2>1. c.weight \in Nat /\ c.sat.low \in Int /\ c.sat.high \in Int /\ c.sat.low <= c.sat.high
    BY <1>1 DEF IsSat
  <2>2. /\ c.weight * c.sat.low \in Int /\ c.weight * c.sat.high \in Int
        /\ c.weight * c.sat.low <= c.weight * c.sat.high
    BY <2>1, TimesMonotone
  <2> QED
    BY <2>2
<1>4. DOMAIN f = S /\ DOMAIN h = S
  OBVIOUS
<1>5. b.low = (100 * SumFunction(f)) \div w /\ b.high = (100 * SumFunction(h)) \div w
  BY DEF aggregate_preference_bounds
<1> HIDE DEF f, h, w, b
<1>6. SumFunction(f) \in Int /\ SumFunction(h) \in Int /\ SumFunction(f) <= SumFunction(h)
  BY <1>3, <1>4, SumMonotone
<1>7. /\ 100 * SumFunction(f) \in Int /\ 100 * SumFunction(h) \in Int
      /\ 100 * SumFunction(f) <= 100 * SumFunction(h)
  BY <1>6
<1>8. b.low \in Int /\ b.high \in Int /\ b.low <= b.high
  BY <1>2, <1>5, <1>7, DivMonotone
<1> QED
  BY <1>8 DEF Ordered, b

\* The coverage bounds are in order.
LEMMA CoverageOrdered ==
  ASSUME NEW S, IsFiniteSet(S), \A c \in S : c.weight \in 1..5 /\ (c.conservative => c.optimistic)
  PROVE  Ordered(aggregate_coverage_bounds(S))
<1> DEFINE f == [c \in S |-> IF c["conservative"] THEN c.weight ELSE 0]
           h == [c \in S |-> IF c["optimistic"] THEN c.weight ELSE 0]
           w == TotalWeight(S)
           b == aggregate_coverage_bounds(S)
<1>1. CASE S = {}
  <2>1. b.low = Unit /\ b.high = Unit
    BY <1>1 DEF aggregate_coverage_bounds
  <2> QED
    BY <2>1, UnitAssumption DEF Ordered
<1>2. CASE S # {}
  <2>1. w \in Nat \ {0}
    BY <1>2, WeightPositive
  <2>2. \A c \in S : f[c] \in Int /\ h[c] \in Int /\ f[c] <= h[c]
    OBVIOUS
  <2>3. DOMAIN f = S /\ DOMAIN h = S
    OBVIOUS
  <2>4. b.low = (Unit * SumFunction(f)) \div w /\ b.high = (Unit * SumFunction(h)) \div w
    BY <1>2 DEF aggregate_coverage_bounds
  <2> HIDE DEF f, h, w, b
  <2>5. SumFunction(f) \in Int /\ SumFunction(h) \in Int /\ SumFunction(f) <= SumFunction(h)
    BY <2>2, <2>3, SumMonotone
  <2>6. /\ Unit * SumFunction(f) \in Int /\ Unit * SumFunction(h) \in Int
        /\ Unit * SumFunction(f) <= Unit * SumFunction(h)
    BY <2>5, UnitAssumption, TimesMonotone
  <2>7. b.low \in Int /\ b.high \in Int /\ b.low <= b.high
    BY <2>1, <2>4, <2>6, DivMonotone
  <2> QED
    BY <2>7 DEF Ordered, b
<1> QED
  BY <1>1, <1>2

\* The greatest upper end is no less than the greatest lower end.
LEMMA MaximaOrdered ==
  ASSUME NEW A \in SUBSET Int, IsFiniteSet(A), A # {}, NEW B \in SUBSET Int, IsFiniteSet(B), B # {},
         \A a \in A : \E b \in B : a <= b
  PROVE  Max(A) \in A /\ Max(B) \in B /\ Max(A) <= Max(B)
<1>1. Max(A) \in A /\ Max(B) \in B /\ \A x \in B : x <= Max(B)
  BY Extrema
<1>2. PICK b \in B : Max(A) <= b
  BY <1>1
<1>3. Max(A) \in Int /\ Max(B) \in Int /\ b \in Int /\ b <= Max(B)
  BY <1>1
<1> QED
  BY <1>1, <1>2, <1>3

\* The values of one end.
LEMMA EndsFinite ==
  ASSUME NEW S, IsFiniteSet(S), NEW end
  PROVE  IsFiniteSet({c[end] : c \in S})
<1> DEFINE f == [c \in S |-> c[end]]  T == {c[end] : c \in S}
<1>1. IsFiniteSet(DOMAIN f) /\ \A y \in T : \E x \in DOMAIN f : y = f[x]
  OBVIOUS
<1> HIDE DEF f, T
<1>2. IsFiniteSet(T)
  BY <1>1, FiniteCover
<1> QED
  BY <1>2 DEF T

\* The worst of finitely many risks is a risk in order.
LEMMA RiskOrdered ==
  ASSUME NEW S, IsFiniteSet(S), S # {}, \A c \in S : RiskBounds(c)
  PROVE  RiskBounds(aggregate_risk_bounds(S))
<1> DEFINE F == {c["low"] : c \in S}  G == {c["base"] : c \in S}  H == {c["high"] : c \in S}
           b == aggregate_risk_bounds(S)
<1>1. b.low = Max(F) /\ b.base = Max(G) /\ b.high = Max(H)
  BY DEF aggregate_risk_bounds
<1>2. IsFiniteSet(F) /\ IsFiniteSet(G) /\ IsFiniteSet(H)
  BY EndsFinite
<1>3. \A c \in S : /\ c["low"] \in 0..3 /\ c["base"] \in 0..3 /\ c["high"] \in 0..3
                   /\ c["low"] <= c["base"] /\ c["base"] <= c["high"]
  BY DEF RiskBounds
<1>4. F \in SUBSET (0..3) /\ G \in SUBSET (0..3) /\ H \in SUBSET (0..3)
  BY <1>3
<1>5. F # {} /\ G # {} /\ H # {}
  OBVIOUS
<1>6. (\A x \in F : \E y \in G : x <= y) /\ (\A x \in G : \E y \in H : x <= y)
  BY <1>3
<1> HIDE DEF F, G, H, b
<1>7. F \in SUBSET Int /\ G \in SUBSET Int /\ H \in SUBSET Int
  BY <1>4
<1>8. Max(F) \in F /\ Max(G) \in G /\ Max(F) <= Max(G)
  BY <1>2, <1>5, <1>6, <1>7, MaximaOrdered
<1>9. Max(H) \in H /\ Max(G) <= Max(H)
  BY <1>2, <1>5, <1>6, <1>7, MaximaOrdered
<1>10. b.low \in 0..3 /\ b.base \in 0..3 /\ b.high \in 0..3 /\ b.low <= b.base /\ b.base <= b.high
  BY <1>1, <1>4, <1>8, <1>9
<1> QED
  BY <1>10 DEF RiskBounds, b

\* The oldest of finitely many ages has its bounds in order.
LEMMA AgeOrdered ==
  ASSUME NEW S, IsFiniteSet(S), \A a \in S : Ordered(a)
  PROVE  Ordered(aggregate_evidence_age_bounds(S))
<1> DEFINE F == {c["low"] : c \in S}  H == {c["high"] : c \in S}
           b == aggregate_evidence_age_bounds(S)
<1>1. CASE S = {}
  <2>1. b.low = 0 /\ b.high = 0
    BY <1>1 DEF aggregate_evidence_age_bounds
  <2> QED
    BY <2>1 DEF Ordered
<1>2. CASE S # {}
  <2>1. b.low = Max(F) /\ b.high = Max(H)
    BY <1>2 DEF aggregate_evidence_age_bounds
  <2>2. IsFiniteSet(F) /\ IsFiniteSet(H)
    BY EndsFinite
  <2>3. \A c \in S : c["low"] \in Int /\ c["high"] \in Int /\ c["low"] <= c["high"]
    BY DEF Ordered
  <2>4. F \in SUBSET Int /\ H \in SUBSET Int /\ F # {} /\ H # {}
    BY <1>2, <2>3
  <2>5. \A x \in F : \E y \in H : x <= y
    BY <2>3
  <2> HIDE DEF F, H, b
  <2>6. Max(F) \in F /\ Max(H) \in H /\ Max(F) <= Max(H)
    BY <2>2, <2>4, <2>5, MaximaOrdered
  <2>7. b.low \in Int /\ b.high \in Int /\ b.low <= b.high
    BY <2>1, <2>4, <2>6
  <2> QED
    BY <2>7 DEF Ordered, b
<1> QED
  BY <1>1, <1>2

\* The risk of a material is in order, known or not.
LEMMA RiskBoundsType ==
  ASSUME NEW in, DecisionGraphInput(in), NEW m, NEW assessments
  PROVE  RiskBounds(_risk_bounds(in, m, assessments).risk)
<1> DEFINE field(r) == _field_state(m.facts, r.predicate.field, assessments)
           about == {r \in in.riskRules : m.action \in r.actions}
           proved(r) == field(r).state = "ACCEPTABLE" /\ field(r).values # {}
           open == {r \in about : r.conditional /\ ~proved(r)}
           met == {r \in about \ open :
                     r.conditional => \A v \in field(r).values : _predicate_matches(v, r.predicate)}
           A == {r.risk : r \in met}
           B == {r.missing : r \in open}
           lowest == [low |-> 0, base |-> 0, high |-> 0]
           risk == _risk_bounds(in, m, assessments).risk
           all == IF A \cup B = {} THEN {lowest} ELSE A \cup B
<1>1. RiskBounds(lowest)
  BY DEF RiskBounds
<1>2. met \in SUBSET in.riskRules /\ open \in SUBSET in.riskRules
  OBVIOUS
<1>3. \/ risk = lowest
      \/ (\A r \in open : r.missing.low # None) /\ risk = aggregate_risk_bounds(all)
  BY DEF _risk_bounds
<1>4. CASE risk = lowest
  BY <1>1, <1>4
<1>5. CASE (\A r \in open : r.missing.low # None) /\ risk = aggregate_risk_bounds(all)
  <2> HIDE DEF met, open
  <2> DEFINE g == [r \in met |-> r.risk]  h == [r \in open |-> r.missing]
  <2>1. IsFiniteSet(met) /\ IsFiniteSet(open)
    BY <1>2, InputFinite, FS_Subset
  <2>2. IsFiniteSet(DOMAIN g) /\ \A y \in A : \E x \in DOMAIN g : y = g[x]
    BY <2>1
  <2>3. IsFiniteSet(DOMAIN h) /\ \A y \in B : \E x \in DOMAIN h : y = h[x]
    BY <2>1
  <2>4. \A r \in in.riskRules : RiskRule(r)
    BY DEF DecisionGraphInput
  <2>5. \A y \in A : RiskBounds(y)
    BY <1>2, <2>4 DEF RiskRule
  <2>6. \A y \in B : RiskBounds(y)
    <3> SUFFICES ASSUME NEW r \in open PROVE RiskBounds(r.missing)
      OBVIOUS
    <3>1. RiskRule(r) /\ r.missing.low # None
      BY <1>2, <1>5, <2>4
    <3> QED
      BY <3>1 DEF RiskRule
  <2> HIDE DEF g, h, A, B, lowest
  <2>7. IsFiniteSet(A) /\ IsFiniteSet(B)
    BY <2>2, <2>3, FiniteCover
  <2>8. IsFiniteSet(A \cup B)
    BY <2>7, FS_Union
  <2>9. IsFiniteSet(all) /\ all # {} /\ \A y \in all : RiskBounds(y)
    BY <1>1, <2>5, <2>6, <2>8, FS_Singleton
  <2> HIDE DEF all
  <2> QED
    BY <1>5, <2>9, RiskOrdered
<1> HIDE DEF lowest, all, risk
<1> QED
  BY <1>3, <1>4, <1>5 DEF risk

\* The bounds of what a plan rests on are in order.
LEMMA CoverageAndAge ==
  ASSUME NEW scores, IsFiniteSet(scores), \A s \in scores : IsScore(s),
         NEW assessments, IsFiniteSet(assessments), \A a \in assessments : IsAssessment(a), NEW m
  PROVE  LET e == _coverage_and_age(scores, m, assessments)
         IN  Ordered(e.coverage) /\ Ordered(e.age)
<1> DEFINE sure(c) == c.state = "ACCEPTABLE" /\ ~c.prior
           entry(c) == [id |-> c.id, weight |-> c.coverageWeight, conservative |-> sure(c),
                        optimistic |-> sure(c) \/ (c.resolvable /\ c.state \in {"UNKNOWN", "STALE"})]
           criteria == {entry(c) : c \in scores}
           cited == (UNION {f.evidence : f \in m.facts}) \cup (UNION {c.evidence : c \in scores})
           material == {a \in assessments : a.evidence \in cited}
           timed == {b \in material : b.timed}
           ages == {a.age : a \in timed}
           e == _coverage_and_age(scores, m, assessments)
           f == [c \in scores |-> entry(c)]
           g == [a \in timed |-> a.age]
<1>1. e.coverage = aggregate_coverage_bounds(criteria) /\ e.age = aggregate_evidence_age_bounds(ages)
  BY DEF _coverage_and_age
<1>2. \A c \in criteria : c.weight \in 1..5 /\ (c.conservative => c.optimistic)
  <2> SUFFICES ASSUME NEW c \in scores
               PROVE  entry(c).weight \in 1..5 /\ (entry(c).conservative => entry(c).optimistic)
    OBVIOUS
  <2>1. entry(c).weight \in 1..5
    BY DEF IsScore
  <2>2. entry(c).conservative => entry(c).optimistic
    BY Zenon
  <2> QED
    BY <2>1, <2>2
<1>3. IsFiniteSet(DOMAIN f) /\ \A y \in criteria : \E x \in DOMAIN f : y = f[x]
  OBVIOUS
<1>4. timed \in SUBSET assessments
  OBVIOUS
<1>5. DOMAIN g = timed /\ \A y \in ages : \E x \in DOMAIN g : y = g[x]
  OBVIOUS
<1>6. \A a \in ages : Ordered(a)
  BY <1>4 DEF IsAssessment, Ordered
<1> HIDE DEF criteria, f, timed, g, ages, e
<1>7. IsFiniteSet(criteria)
  BY <1>3, FiniteCover
<1>8. IsFiniteSet(DOMAIN g)
  BY <1>4, <1>5, FS_Subset
<1>9. IsFiniteSet(ages)
  BY <1>5, <1>8, FiniteCover
<1>10. Ordered(e.coverage)
  BY <1>1, <1>2, <1>7, CoverageOrdered
<1>11. Ordered(e.age)
  BY <1>1, <1>6, <1>9, AgeOrdered
<1> QED
  BY <1>10, <1>11 DEF e

\* What building a plan establishes of it.
IsBuilt(p) ==
    /\ p.id = _plan_id(p.action, p.components)
    /\ p.action \in {ActionNames[n] : n \in DOMAIN ActionNames}
    /\ p.components \in Seq(Int) /\ p.components # <<>> /\ p.src \in Seq(Int)
    /\ IsFiniteSet(p.scores) /\ \A s \in p.scores : IsScore(s)
    /\ Ordered(p.bounds.preference) /\ RiskBounds(p.bounds.risk)
    /\ Ordered(p.bounds.coverage) /\ Ordered(p.bounds.age)
    /\ {p.bounds.cost.low, p.bounds.cost.base, p.bounds.cost.high} \in SUBSET Int
    /\ None \notin {p.bounds.cost.low, p.bounds.cost.base, p.bounds.cost.high} =>
         p.bounds.cost.low <= p.bounds.cost.base /\ p.bounds.cost.base <= p.bounds.cost.high
    /\ p.bounded => None \notin {p.bounds.cost.low, p.bounds.cost.base, p.bounds.cost.high}

\* A material whose cost does not raise yields a plan with all its bounds in order.
LEMMA PlanBuilt ==
  ASSUME NEW in, DecisionGraphInput(in), NEW m, IsMaterial(m), ~CostRaises(m.cost),
         NEW assessments, IsFiniteSet(assessments), \A a \in assessments : IsAssessment(a)
  PROVE  IsBuilt(Plan(in, m, assessments)) /\ Plan(in, m, assessments).src = m.src
<1> DEFINE p == Plan(in, m, assessments)
           scores == _score_components(in, m, assessments)
           risk == _risk_bounds(in, m, assessments)
           evidence == _coverage_and_age(scores, m, assessments)
           d == _material_dimensions(in, m, assessments)
           nothing == [low |-> 0, high |-> 0]
<1>1. IsFiniteSet(scores) /\ \A s \in scores : IsScore(s)
  BY ScoresType DEF IsMaterial
<1>2. RiskBounds(risk.risk)
  BY RiskBoundsType
<1>3. Ordered(evidence.coverage) /\ Ordered(evidence.age)
  BY <1>1, CoverageAndAge
<1>4. d = Dimensions(m, scores, risk, evidence)
  BY DEF _material_dimensions, ScoredDimensions
<1> HIDE DEF scores, risk, evidence
<1>5. /\ d.scores = scores /\ d.bounds.risk = risk.risk
      /\ d.bounds.cost = [low |-> m.cost.low, base |-> m.cost.base, high |-> m.cost.high]
      /\ d.bounds.coverage = evidence.coverage /\ d.bounds.age = evidence.age
      /\ d.bounds.preference = IF scores = {} THEN nothing ELSE aggregate_preference_bounds(scores)
      /\ d.bounded => _valid_cost(m)
  BY <1>4 DEF Dimensions
<1>6. Ordered(d.bounds.preference)
  <2>1. Ordered(nothing)
    BY DEF Ordered
  <2> HIDE DEF nothing, d
  <2>2. scores # {} => Ordered(aggregate_preference_bounds(scores))
    BY <1>1, PreferenceOrdered
  <2> QED
    BY <1>5, <2>1, <2>2
<1> HIDE DEF d
<1>7. /\ p.id = _plan_id(m.action, m.components) /\ p.action = m.action
      /\ p.components = m.components /\ p.src = m.src
      /\ p.scores = d.scores /\ p.bounds = d.bounds /\ p.bounded = d.bounded
  BY DEF Plan, EvaluatedPlan, d
<1> HIDE DEF p
<1>8. /\ p.bounds.cost.low = m.cost.low /\ p.bounds.cost.base = m.cost.base
      /\ p.bounds.cost.high = m.cost.high
  BY <1>5, <1>7
<1>9. /\ m.cost.low \in Int /\ m.cost.base \in Int /\ m.cost.high \in Int
      /\ None \notin {m.cost.low, m.cost.base, m.cost.high} =>
           m.cost.low <= m.cost.base /\ m.cost.base <= m.cost.high
      /\ _valid_cost(m) => None \notin {m.cost.low, m.cost.base, m.cost.high}
  BY DEF IsMaterial, CostRaises, _valid_cost
<1>10. /\ m.action \in {ActionNames[n] : n \in DOMAIN ActionNames}
       /\ m.components \in Seq(Int) /\ m.components # <<>> /\ m.src \in Seq(Int)
  BY DEF IsMaterial
<1>11. /\ p.bounds.risk = risk.risk /\ p.bounds.coverage = evidence.coverage
       /\ p.bounds.age = evidence.age /\ Ordered(p.bounds.preference)
       /\ p.bounded => _valid_cost(m)
  BY <1>5, <1>6, <1>7
<1>12. IsFiniteSet(p.scores) /\ \A s \in p.scores : IsScore(s)
  BY <1>1, <1>5, <1>7
<1>13. /\ {p.bounds.cost.low, p.bounds.cost.base, p.bounds.cost.high} \in SUBSET Int
       /\ None \notin {p.bounds.cost.low, p.bounds.cost.base, p.bounds.cost.high} =>
            p.bounds.cost.low <= p.bounds.cost.base /\ p.bounds.cost.base <= p.bounds.cost.high
       /\ p.bounded => None \notin {p.bounds.cost.low, p.bounds.cost.base, p.bounds.cost.high}
  BY <1>8, <1>9, <1>11
<1>14. IsBuilt(p)
  BY <1>2, <1>3, <1>7, <1>10, <1>11, <1>12, <1>13 DEF IsBuilt
<1> QED
  BY <1>7, <1>14 DEF p

\* The identifier of a plan is its action followed by its components.
LEMMA PlanIdType ==
  ASSUME NEW action \in {ActionNames[n] : n \in DOMAIN ActionNames}, NEW components \in Seq(Int)
  PROVE  /\ _plan_id(action, components) \in Seq(Int)
         /\ Len(_plan_id(action, components)) = Len(components) + 1
         /\ \A i \in 1..Len(components) : _plan_id(action, components)[i + 1] = components[i]
<1>1. \E n \in DOMAIN ActionNames : ActionNames[n] = action
  OBVIOUS
<1>2. ActionIndex(action) \in DOMAIN ActionNames
  BY <1>1 DEF ActionIndex
<1>3. DOMAIN ActionNames = 1..9
  BY DEF ActionNames
<1>4. ActionIndex(action) \in Int
  BY <1>2, <1>3
<1> DEFINE k == ActionIndex(action)
<1> HIDE DEF k
<1>5. k \in Int /\ _plan_id(action, components) = <<k>> \o components
  BY <1>4 DEF k, _plan_id
<1> QED
  BY <1>5

\* Such a plan is what the ranking asks of one.
LEMMA BuiltIsPlan ==
  ASSUME NEW p, IsBuilt(p)
  PROVE  IsPlan(p)
<1>1. p.id \in Seq(Int) /\ p.src \in Seq(Int)
  BY PlanIdType DEF IsBuilt
<1>2. /\ p.bounds.preference.low \in Int /\ p.bounds.preference.high \in Int
      /\ p.bounds.preference.low <= p.bounds.preference.high
      /\ p.bounds.coverage.low \in Int /\ p.bounds.coverage.high \in Int
      /\ p.bounds.coverage.low <= p.bounds.coverage.high
      /\ p.bounds.age.low \in Int /\ p.bounds.age.high \in Int
      /\ p.bounds.age.low <= p.bounds.age.high
  BY DEF IsBuilt, Ordered
<1>3. /\ p.bounds.risk.low \in Int /\ p.bounds.risk.high \in Int
      /\ p.bounds.risk.low <= p.bounds.risk.high
      /\ p.bounds.risk.base \in p.bounds.risk.low..p.bounds.risk.high
  BY DEF IsBuilt, RiskBounds
<1>4. p.bounded =>
        /\ p.bounds.cost.low \in Int /\ p.bounds.cost.high \in Int
        /\ p.bounds.cost.low <= p.bounds.cost.high
        /\ p.bounds.cost.base \in p.bounds.cost.low..p.bounds.cost.high
  BY DEF IsBuilt
<1> QED
  BY <1>1, <1>2, <1>3, <1>4 DEF IsPlan

\* When no cost raises the plans are finite, typed, and told apart by their sources.
LEMMA PlansBuilt ==
  ASSUME NEW in, DecisionGraphInput(in), NEW recall, IsRecall(recall), ~BuildRaises(in, recall),
         NEW assessments, IsFiniteSet(assessments), \A a \in assessments : IsAssessment(a)
  PROVE  LET plans == build_solution_plans(in, recall, assessments)
         IN  /\ ArePlans(plans) /\ \A p \in plans : IsBuilt(p)
             /\ \A p, q \in plans : p.src = q.src => p = q
<1> DEFINE plans == build_solution_plans(in, recall, assessments)
           M == Materials(in, recall)
           g == [m \in M |-> Plan(in, m, assessments)]
<1>1. plans = {Plan(in, m, assessments) : m \in M}
  BY DEF build_solution_plans
<1>2. IsFiniteSet(M) /\ (\A m \in M : IsMaterial(m)) /\ \A m, k \in M : m.src = k.src => m = k
  BY MaterialsType
<1>3. \A m \in M : ~CostRaises(m.cost)
  BY DEF BuildRaises
<1> HIDE DEF M, plans
<1>4. \A m \in M : IsBuilt(Plan(in, m, assessments)) /\ Plan(in, m, assessments).src = m.src
  BY <1>2, <1>3, PlanBuilt
<1>5. \A p \in plans : IsBuilt(p)
  BY <1>1, <1>4
<1>6. IsFiniteSet(plans)
  <2>1. IsFiniteSet(DOMAIN g) /\ \A y \in plans : \E x \in DOMAIN g : y = g[x]
    BY <1>1, <1>2
  <2> HIDE DEF g
  <2> QED
    BY <2>1, FiniteCover
<1>7. \A p, q \in plans : p.src = q.src => p = q
  BY <1>1, <1>2, <1>4
<1>8. \A p \in plans : IsPlan(p)
  BY <1>5, BuiltIsPlan
<1>9. ArePlans(plans)
  BY <1>6, <1>7, <1>8 DEF ArePlans
<1> QED
  BY <1>5, <1>7, <1>9 DEF plans
=============================================================================
