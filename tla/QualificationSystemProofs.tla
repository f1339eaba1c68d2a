---------------------- MODULE QualificationSystemProofs ----------------------
(***************************************************************************)
(* Theorems of QualificationSystem, for any number of organizations,       *)
(* missions, workers, messages, redeliveries, faults and deaths.  The      *)
(* system takes the kernel's transactions only, so what is proved of the   *)
(* kernel holds of it; the rest is about delivery.                         *)
(***************************************************************************)
EXTENDS QualificationSystem, QualificationKernelProofs, FiniteSetTheorems

(***************************************************************************)
(* The inductive invariant.                                                *)
(***************************************************************************)
MessageRow == [event : ReadyEvent, receives : Nat]
Sent == {s[1] : s \in sends}

MessageFields  == {"pc", "org", "event"}
RoundFields    == MessageFields \cup {"round"}
ChosenFields   == RoundFields \cup {"sel"}
AttemptFields  == ChosenFields \cup {"attempt"}
LeaseFields    == AttemptFields \cup {"generation"}

\* What a worker remembers, by program counter.
IsWorker(w) ==
  LET r == worker[w] IN
  /\ r.pc \in PC
  /\ r.pc \notin {"idle", "gone"} => r.org \in Orgs /\ r.event \in Sent
  /\ r.pc \in {"receipt", "completed", "record", "delete"} => DOMAIN r = MessageFields
  /\ r.pc \in {"load", "retrieve"} => DOMAIN r = RoundFields
  /\ r.pc = "prepare" => DOMAIN r = ChosenFields
  /\ r.pc = "claim" => DOMAIN r = AttemptFields
  /\ r.pc = "evaluate" => DOMAIN r = LeaseFields /\ LeaseOf(w) \in issued
  /\ r.pc \in {"prepare", "claim", "evaluate"} => r.sel \in Pins
  /\ r.pc \in {"claim", "evaluate"} => r.attempt \in Attempts /\ r.attempt[1] = r.event[1]

FeedFields == {"pc", "hint", "next"}
IsFeed(f) ==
  DOMAIN f = FeedFields /\ f.hint \in Hint /\ f.next \in 1 .. Len(OrgSeq) + 1 /\ f.pc = "apply"

SysTables ==
  /\ queue \in [Orgs -> Seq(MessageRow)]
  /\ holder \in [Orgs -> Owners \cup {NoOwner}]
  /\ sends \subseteq readyEvents \X (1 .. MaxSends)
  /\ dead \subseteq Sent /\ published \subseteq Sent /\ receipts \subseteq Sent
  /\ \A o \in Orgs : \A i \in DOMAIN queue[o] : queue[o][i].event \in Sent
  /\ DOMAIN worker = Owners /\ \A w \in Owners : IsWorker(w)
  /\ hints \subseteq Hint
  /\ feed = Idle \/ IsFeed(feed)
  /\ faults \in [worker: 0 .. MaxFaults, feed: 0 .. MaxFeedFaults]

\* A worker that holds the head of its group works on it, and deletes it only
\* with its receipt; so a message that was sent is somewhere.
HeadIsHeld ==
  \A w \in Owners : Running(w) /\ holder[worker[w].org] = w =>
    queue[worker[w].org] # <<>> /\ Head(queue[worker[w].org]).event = worker[w].event

DeletedIsReceived == \A w \in Owners : At(w, "delete") => worker[w].event \in receipts

SentIsSomewhere == \A e \in Sent : e \in receipts \/ InQueue(e) \/ e \in dead

Delivery == HeadIsHeld /\ DeletedIsReceived /\ SentIsSomewhere

EventsOf(m)  == {e \in readyEvents : e[1] = m}
Retired(m)   == {a \in Decided : a[1] = m /\ ~ current[a]}
IsCurrent(m) == \E a \in Attempts : a[1] = m /\ current[a]

\* An event is pending until a worker has a result to acknowledge it with.
Pending(e) == e \notin receipts /\ \A w \in Owners : At(w, "record") => worker[w].event # e

\* A mission has its creation's event and one for each retired decision, and
\* without a current decision one of them is pending.
EventsCounted ==
  \A m \in Missions :
    /\ IsFiniteSet(EventsOf(m))
    /\ mission[m] = "NONE" => EventsOf(m) = {}
    /\ Cardinality(EventsOf(m)) <= 1 + Cardinality(Retired(m))

WorkIsPending ==
  \A m \in Missions :
    /\ mission[m] = "READY" => ~ IsCurrent(m)
    /\ mission[m] # "NONE" /\ ~ IsCurrent(m) => \E e \in EventsOf(m) : Pending(e)

SysInv == Inv /\ SysTables /\ Delivery /\ EventsCounted /\ WorkIsPending

(***************************************************************************)
(* The system takes the kernel's transactions and no other.                *)
(***************************************************************************)
\* The steps that leave the database alone.
LEMMA OutsideSteps ==
  ASSUME \/ \E e : Publish(e) \/ MarkPublished(e)
         \/ \E o : VisibilityTimeout(o) \/ DeadLetter(o)
         \/ \E w, o : Receive(w, o)
         \/ \E w : \/ CheckReceipt(w) \/ CheckCompleted(w) \/ Load(w) \/ Retrieve(w)
                   \/ Record(w) \/ Delete(w) \/ Raise(w) \/ Fault(w) \/ Die(w)
         \/ \E h : FeedReceive(h)
         \/ FeedRaise \/ FeedDelete \/ FeedFault
  PROVE  UNCHANGED vars
  BY DEF Publish, MarkPublished, VisibilityTimeout, DeadLetter, Receive, CheckReceipt, CheckCompleted,
     Load, Retrieve, Record, Delete, Raise, Fault, Die, FeedReceive, FeedRaise, FeedDelete, FeedFault

\* What a worker or the consumer remembers is something the kernel's callers can hold.
LEMMA KernelStep ==
  ASSUME SysTables, [SysNext]_allVars
  PROVE  [Next]_vars
<1>1. ASSUME NEW w \in Owners, WorkerPrepare(w) PROVE Next
  <2>1. worker[w].sel \in Pins
    BY <1>1 DEF SysTables, IsWorker, WorkerPrepare, At
  <2> QED
    BY <1>1, <2>1 DEF WorkerPrepare, Next
<1>2. ASSUME NEW w \in Owners, WorkerClaim(w) PROVE Next
  <2>1. worker[w].attempt \in Attempts
    BY <1>2 DEF SysTables, IsWorker, WorkerClaim, At
  <2> QED
    BY <1>2, <2>1 DEF WorkerClaim, Next
<1>3. ASSUME NEW w \in Owners, WorkerDecide(w) \/ WorkerStale(w) PROVE Next
  <2>1. LeaseOf(w) \in issued
    BY <1>3 DEF SysTables, IsWorker, WorkerDecide, WorkerStale, At
  <2> QED
    BY <1>3, <2>1 DEF WorkerDecide, WorkerStale, Next
<1>4. ASSUME FeedApply PROVE Next \/ UNCHANGED vars
  <2>1. IsFeed(feed) /\ feed.next <= Len(OrgSeq)
    BY <1>4 DEF FeedApply, SysTables
  <2>2. FeedOrg \in Orgs
    BY <2>1, SystemAssumption DEF FeedOrg, IsFeed
  <2>3. feed.hint.product \in Products
    BY <2>1 DEF IsFeed, Hint
  <2> QED
    BY <1>4, <2>2, <2>3 DEF FeedApply, Next
<1>5. ASSUME NEW p \in Products, NEW i \in DOMAIN BundleSeq, SysActivate(p, i) PROVE Next
  <2>1. BundleSeq[i] \in Bundles
    BY SystemAssumption
  <2> QED
    BY <1>5, <2>1 DEF SysActivate, Next
<1>6. ASSUME Environment PROVE Next
  BY <1>6 DEF Environment, Next
<1>7. ASSUME UNCHANGED allVars PROVE UNCHANGED vars
  BY <1>7 DEF allVars
<1> QED
  BY <1>1, <1>2, <1>3, <1>4, <1>5, <1>6, <1>7, OutsideSteps
     DEF SysNext, Progress, Dispatcher, WorkerStep, FeedStep

\* Events and leases are only added.
LEMMA RowsGrow ==
  ASSUME [Next]_vars
  PROVE  readyEvents \subseteq readyEvents' /\ issued \subseteq issued'
<1> USE DEF catalogVars, missionVars, attemptVars, decisionVars, marketVars
<1>1. ASSUME NEW p, NEW b, Activate(p, b) PROVE UNCHANGED <<readyEvents, issued>>
  BY <1>1 DEF Activate
<1>2. ASSUME NEW m, CreateMission(m) PROVE readyEvents \subseteq readyEvents' /\ UNCHANGED issued
  BY <1>2 DEF CreateMission
<1>3. ASSUME NEW a, NEW sel, Prepare(a, sel) PROVE UNCHANGED <<readyEvents, issued>>
  BY <1>3 DEF Prepare
<1>4. ASSUME NEW a, NEW w, ClaimAndSnapshot(a, w) PROVE issued \subseteq issued' /\ UNCHANGED readyEvents
  BY <1>4 DEF ClaimAndSnapshot
<1>5. ASSUME NEW l, FinalizeStale(l) PROVE UNCHANGED <<readyEvents, issued>>
  BY <1>5 DEF FinalizeStale
<1>6. ASSUME NEW l, NEW p, FinalizeDecision(l, p) PROVE UNCHANGED <<readyEvents, issued>>
  BY <1>6 DEF FinalizeDecision
<1>7. ASSUME MarketNext PROVE UNCHANGED <<readyEvents, issued>>
  BY <1>7 DEF MarketNext, Approve, Reject, Respond, Consent, Introduce, IntroduceAgain
<1>8. ASSUME NEW o, NEW p, Invalidate(o, p) PROVE readyEvents \subseteq readyEvents' /\ UNCHANGED issued
  BY <1>8 DEF Invalidate
<1>9. ASSUME Tick \/ UNCHANGED vars PROVE UNCHANGED <<readyEvents, issued>>
  BY <1>9 DEF Tick, vars
<1> QED
  BY <1>1, <1>2, <1>3, <1>4, <1>5, <1>6, <1>7, <1>8, <1>9 DEF Next

(***************************************************************************)
(* What a worker's step leaves in its own record.                          *)
(***************************************************************************)
OnlyWorker(w) == DOMAIN worker' = Owners /\ \A v \in Owners : v # w => worker'[v] = worker[v]

\* Go writes one worker's record and no other.
LEMMA GoEffect ==
  ASSUME NEW w \in Owners, NEW rec, DOMAIN worker = Owners, Go(w, rec)
  PROVE  OnlyWorker(w) /\ worker'[w] = rec
  BY DEF Go, OnlyWorker

\* A record of a message, and of a round.
LEMMA MessageEffect ==
  ASSUME NEW w, NEW pc
  PROVE  LET r == Message(w, pc) IN
         DOMAIN r = MessageFields /\ r.pc = pc /\ r.org = worker[w].org /\ r.event = worker[w].event
  BY DEF Message, MessageFields

\* Round carries the message on, with the number of the round.
LEMMA RoundEffect ==
  ASSUME NEW w, NEW pc, NEW n
  PROVE  LET r == Round(w, pc, n) IN
         DOMAIN r = RoundFields /\ r.pc = pc /\ r.org = worker[w].org /\ r.event = worker[w].event
  BY DEF Round, RoundFields, MessageFields

\* A step of a worker's program, of the run loop around it or of the platform: the
\* worker goes on with its message or lets it go; it comes to deleting with a
\* receipt and to recording with a current decision of the mission.
Advances(w) ==
  /\ OnlyWorker(w) /\ IsWorker(w)'
  /\ \/ worker'[w].pc \in {"idle", "gone"}
     \/ Running(w) /\ worker'[w].org = worker[w].org /\ worker'[w].event = worker[w].event
  /\ worker'[w].pc = "delete" => worker[w].event \in receipts'
  /\ worker'[w].pc = "record" => \E a \in Attempts : a[1] = worker[w].event[1] /\ current'[a]
  /\ UNCHANGED <<queueVars, sends, published, feedVars>>
  /\ receipts' = receipts \/ (At(w, "record") /\ receipts' = receipts \cup {worker[w].event})

WorkerActs(w) ==
  \/ CheckReceipt(w) \/ CheckCompleted(w) \/ Load(w) \/ Retrieve(w) \/ WorkerPrepare(w)
  \/ WorkerClaim(w) \/ WorkerDecide(w) \/ WorkerStale(w) \/ Record(w) \/ Raise(w)
  \/ Fault(w) \/ Die(w)

\* Every step of a worker but receiving and deleting is of that kind.
LEMMA WorkerAdvances ==
  ASSUME TypeOK, SysTables, [Next]_vars, NEW w \in Owners, WorkerActs(w)
  PROVE  Advances(w)
<1> USE DEF workerOnly
<1> DEFINE r == worker[w]
<1>a. /\ DOMAIN worker = Owners /\ IsWorker(w)
      /\ readyEvents \subseteq readyEvents' /\ issued \subseteq issued'
  BY RowsGrow DEF SysTables
<1>b. ASSUME NEW rec, Go(w, rec) PROVE OnlyWorker(w) /\ worker'[w] = rec
  BY <1>a, <1>b, GoEffect
<1>c. ASSUME UNCHANGED sends PROVE Sent' = Sent
  BY <1>c DEF Sent
<1>d. ASSUME NEW pc \in {"completed", "record", "delete"}, Go(w, Message(w, pc)), Running(w),
             UNCHANGED <<queueVars, sends, published, feedVars>>,
             receipts' = receipts \/ (At(w, "record") /\ receipts' = receipts \cup {r.event}),
             pc = "delete" => r.event \in receipts',
             pc = "record" => \E a \in Attempts : a[1] = r.event[1] /\ current'[a]
      PROVE  Advances(w)
  <2>1. /\ OnlyWorker(w) /\ DOMAIN worker'[w] = MessageFields /\ worker'[w].pc = pc
        /\ worker'[w].org = r.org /\ worker'[w].event = r.event
    BY <1>b, <1>d, MessageEffect
  <2>2. r.org \in Orgs /\ r.event \in Sent /\ Sent' = Sent
    BY <1>a, <1>c, <1>d DEF IsWorker, Running
  <2>3. IsWorker(w)'
    BY <1>d, <2>1, <2>2 DEF IsWorker, PC
  <2> QED
    BY <1>d, <2>1, <2>3 DEF Advances
<1>e. ASSUME NEW pc \in {"load", "retrieve"}, NEW n, Go(w, Round(w, pc, n)), Running(w),
             UNCHANGED <<queueVars, sends, published, feedVars, receipts>>
      PROVE  Advances(w)
  <2>1. /\ OnlyWorker(w) /\ DOMAIN worker'[w] = RoundFields /\ worker'[w].pc = pc
        /\ worker'[w].org = r.org /\ worker'[w].event = r.event
    BY <1>b, <1>e, RoundEffect
  <2>2. r.org \in Orgs /\ r.event \in Sent /\ Sent' = Sent
    BY <1>a, <1>c, <1>e DEF IsWorker, Running
  <2>3. IsWorker(w)'
    BY <1>e, <2>1, <2>2 DEF IsWorker, PC
  <2> QED
    BY <1>e, <2>1, <2>3 DEF Advances
<1>f. ASSUME NEW rec, rec.pc \in {"idle", "gone"}, Go(w, rec),
             UNCHANGED <<queueVars, sends, published, feedVars, receipts>>
      PROVE  Advances(w)
  <2>1. OnlyWorker(w) /\ worker'[w] = rec
    BY <1>b, <1>f
  <2>2. IsWorker(w)'
    BY <1>f, <2>1 DEF IsWorker, PC
  <2> QED
    BY <1>f, <2>1, <2>2 DEF Advances
<1>g. Idle.pc = "idle" /\ [pc |-> "gone"].pc = "gone"
  BY DEF Idle
<1>1. ASSUME CheckReceipt(w) PROVE Advances(w)
  <2>1. /\ Running(w) /\ UNCHANGED <<receipts, workerOnly>>
        /\ Go(w, Message(w, IF r.event \in receipts THEN "delete" ELSE "completed"))
    BY <1>1 DEF CheckReceipt, At, Running
  <2>2. CASE r.event \in receipts
    <3>1. Go(w, Message(w, "delete")) /\ r.event \in receipts'
      BY <2>1, <2>2
    <3> QED
      BY <1>d, <2>1, <3>1
  <2>3. CASE r.event \notin receipts
    <3>1. Go(w, Message(w, "completed"))
      BY <2>1, <2>3
    <3> QED
      BY <1>d, <2>1, <3>1
  <2> QED
    BY <2>2, <2>3
<1>2. ASSUME CheckCompleted(w) PROVE Advances(w)
  <2>1. Running(w) /\ UNCHANGED <<receipts, workerOnly>> /\ UNCHANGED vars
    BY <1>2 DEF CheckCompleted, At, Running
  <2>2. CASE mission[r.event[1]] = "COMPLETED" /\ \E a \in Attempts : a[1] = r.event[1] /\ current[a]
    <3>1. Go(w, Message(w, "record"))
      BY <1>2, <2>2 DEF CheckCompleted
    <3>2. current' = current
      BY <2>1 DEF vars, decisionVars
    <3> QED
      BY <1>d, <2>1, <2>2, <3>1, <3>2
  <2>3. CASE ~ (mission[r.event[1]] = "COMPLETED" /\ \E a \in Attempts : a[1] = r.event[1] /\ current[a])
    <3>1. Go(w, Round(w, "load", 1))
      BY <1>2, <2>3 DEF CheckCompleted
    <3> QED
      BY <1>e, <2>1, <3>1
  <2> QED
    BY <2>2, <2>3
<1>3. ASSUME Load(w) PROVE Advances(w)
  <2>1. Running(w) /\ UNCHANGED <<receipts, workerOnly>> /\ Go(w, Round(w, "retrieve", r.round))
    BY <1>3 DEF Load, At, Running
  <2> QED
    BY <1>e, <2>1
<1>4. ASSUME Retrieve(w) PROVE Advances(w)
  <2>1. PICK S \in CandidateSets : Go(w, With(Round(w, "prepare", r.round), "sel", ActiveSelection(S)))
    BY <1>4 DEF Retrieve
  <2>2. Running(w) /\ UNCHANGED <<receipts, workerOnly>>
    BY <1>4 DEF Retrieve, At, Running
  <2> DEFINE q == Round(w, "prepare", r.round)
             x == With(q, "sel", ActiveSelection(S))
  <2>3. /\ DOMAIN q = RoundFields /\ q.pc = "prepare" /\ q.org = r.org /\ q.event = r.event
    BY RoundEffect
  <2> HIDE DEF q
  <2>4. /\ DOMAIN x = DOMAIN q \cup {"sel"} /\ x.sel = ActiveSelection(S)
        /\ \A f \in DOMAIN q : f # "sel" => x[f] = q[f]
    BY DEF With
  <2>5. OnlyWorker(w) /\ worker'[w] = x
    BY <1>b, <2>1 DEF q
  <2> HIDE DEF x
  <2>6. /\ DOMAIN x = ChosenFields /\ x.pc = "prepare" /\ x.org = r.org /\ x.event = r.event
        /\ x.sel = ActiveSelection(S)
    BY <2>3, <2>4 DEF RoundFields, MessageFields, ChosenFields
  <2>7. ActiveSelection(S) \in Pins
    BY DEF ActiveSelection, Pins, Bundle0, TypeOK
  <2>8. r.org \in Orgs /\ r.event \in Sent /\ Sent' = Sent
    BY <1>a, <1>c, <2>2 DEF IsWorker, Running
  <2>9. IsWorker(w)'
    BY <2>5, <2>6, <2>7, <2>8 DEF IsWorker, PC
  <2> QED
    BY <2>2, <2>5, <2>6, <2>9 DEF Advances
<1>5. ASSUME WorkerPrepare(w) PROVE Advances(w)
  <2>1. PICK a \in Attempts : a[1] = r.event[1] /\ Go(w, With([r EXCEPT !.pc = "claim"], "attempt", a))
    BY <1>5 DEF WorkerPrepare
  <2>2. Running(w) /\ UNCHANGED <<receipts, workerOnly>> /\ DOMAIN r = ChosenFields
    BY <1>a, <1>5 DEF WorkerPrepare, At, Running, IsWorker
  <2> DEFINE q == [r EXCEPT !.pc = "claim"]
             x == With(q, "attempt", a)
  <2>3. /\ DOMAIN q = ChosenFields /\ q.pc = "claim" /\ q.org = r.org /\ q.event = r.event /\ q.sel = r.sel
    BY <2>2 DEF ChosenFields, RoundFields, MessageFields
  <2> HIDE DEF q
  <2>4. /\ DOMAIN x = DOMAIN q \cup {"attempt"} /\ x.attempt = a
        /\ \A f \in DOMAIN q : f # "attempt" => x[f] = q[f]
    BY DEF With
  <2>5. OnlyWorker(w) /\ worker'[w] = x
    BY <1>b, <2>1 DEF q
  <2> HIDE DEF x
  <2>6. /\ DOMAIN x = AttemptFields /\ x.pc = "claim" /\ x.org = r.org /\ x.event = r.event
        /\ x.sel = r.sel /\ x.attempt = a
    BY <2>3, <2>4 DEF RoundFields, MessageFields, ChosenFields, AttemptFields
  <2>7. r.org \in Orgs /\ r.event \in Sent /\ Sent' = Sent /\ r.sel \in Pins
    BY <1>a, <1>c, <1>5, <2>2 DEF IsWorker, Running, WorkerPrepare, At
  <2>8. IsWorker(w)'
    BY <2>1, <2>5, <2>6, <2>7 DEF IsWorker, PC
  <2> QED
    BY <2>2, <2>5, <2>6, <2>8 DEF Advances
<1>6. ASSUME WorkerClaim(w) PROVE Advances(w)
  <2> DEFINE a == r.attempt
             g == lease[a].generation + 1
             q == [r EXCEPT !.pc = "evaluate"]
             x == With(q, "generation", g)
  <2>1. /\ ClaimAndSnapshot(a, w) /\ Go(w, x) /\ UNCHANGED <<receipts, workerOnly>> /\ At(w, "claim")
    BY <1>6 DEF WorkerClaim
  <2>2. Running(w) /\ DOMAIN r = AttemptFields
    BY <1>a, <2>1 DEF At, Running, IsWorker
  <2>3. [attempt |-> a, generation |-> g, owner |-> w] \in issued'
    BY <2>1 DEF ClaimAndSnapshot
  <2> HIDE DEF g
  <2>4. /\ DOMAIN q = AttemptFields /\ q.pc = "evaluate" /\ q.org = r.org /\ q.event = r.event
        /\ q.sel = r.sel /\ q.attempt = a
    BY <2>2 DEF AttemptFields, ChosenFields, RoundFields, MessageFields
  <2> HIDE DEF q
  <2>5. /\ DOMAIN x = DOMAIN q \cup {"generation"} /\ x.generation = g
        /\ \A f \in DOMAIN q : f # "generation" => x[f] = q[f]
    BY DEF With
  <2>6. OnlyWorker(w) /\ worker'[w] = x
    BY <1>b, <2>1
  <2> HIDE DEF x
  <2>7. /\ DOMAIN x = LeaseFields /\ x.pc = "evaluate" /\ x.org = r.org /\ x.event = r.event
        /\ x.sel = r.sel /\ x.attempt = a /\ x.generation = g
    BY <2>4, <2>5 DEF RoundFields, MessageFields, ChosenFields, AttemptFields, LeaseFields
  <2>8. /\ r.org \in Orgs /\ r.event \in Sent /\ Sent' = Sent /\ r.sel \in Pins
        /\ a \in Attempts /\ a[1] = r.event[1]
    BY <1>a, <1>c, <2>1, <2>2 DEF IsWorker, Running, At
  <2>9. LeaseOf(w)' \in issued'
    BY <2>3, <2>6, <2>7 DEF LeaseOf
  <2>10. IsWorker(w)'
    BY <2>6, <2>7, <2>8, <2>9 DEF IsWorker, PC
  <2> QED
    BY <2>1, <2>2, <2>6, <2>7, <2>10 DEF Advances
<1>7. ASSUME WorkerDecide(w) PROVE Advances(w)
  <2> DEFINE a == r.attempt
  <2>1. /\ UNCHANGED <<receipts, workerOnly>> /\ At(w, "evaluate") /\ Go(w, Message(w, "record"))
        /\ \E p \in Products : FinalizeDecision(LeaseOf(w), p)
    BY <1>7 DEF WorkerDecide
  <2>2. Running(w) /\ a \in Attempts /\ a[1] = r.event[1]
    BY <1>a, <2>1 DEF At, Running, IsWorker
  <2>3. LeaseOf(w).attempt = a
    BY DEF LeaseOf
  <2>4. current' = [current EXCEPT ![a] = TRUE]
    BY <2>1, <2>3 DEF FinalizeDecision
  <2>5. current'[a] = TRUE
    BY <2>2, <2>4 DEF TypeOK
  <2> QED
    BY <1>d, <2>1, <2>2, <2>5
<1>8. ASSUME WorkerStale(w) PROVE Advances(w)
  <2>1. /\ UNCHANGED <<receipts, workerOnly>> /\ Running(w)
        /\ Go(w, IF r.round < MaxRounds THEN Round(w, "load", r.round + 1) ELSE Idle)
    BY <1>8 DEF WorkerStale, At, Running
  <2>2. Go(w, Round(w, "load", r.round + 1)) \/ Go(w, Idle)
    BY <2>1
  <2> QED
    BY <1>e, <1>f, <1>g, <2>1, <2>2
<1>9. ASSUME Record(w) PROVE Advances(w)
  <2>1. /\ At(w, "record") /\ receipts' = receipts \cup {r.event} /\ Go(w, Message(w, "delete"))
        /\ UNCHANGED workerOnly /\ Running(w)
    BY <1>9 DEF Record, At, Running
  <2> QED
    BY <1>d, <2>1
<1>10. ASSUME Raise(w) \/ Fault(w) \/ Die(w) PROVE Advances(w)
  <2>1. /\ UNCHANGED <<queueVars, sends, published, feedVars, receipts>>
        /\ Go(w, Idle) \/ Go(w, [pc |-> "gone"])
    BY <1>10 DEF Raise, Fault, Die
  <2> QED
    BY <1>f, <1>g, <2>1
<1> QED
  BY <1>1, <1>2, <1>3, <1>4, <1>5, <1>6, <1>7, <1>8, <1>9, <1>10 DEF WorkerActs

(***************************************************************************)
(* The types of the system's state.                                        *)
(***************************************************************************)
\* A message at the head changes its receive count, and no message its event.
LEMMA ReceivedQueue ==
  ASSUME NEW q \in Seq(MessageRow), q # <<>>,
         NEW s, s = [q EXCEPT ![1].receives = @ + 1]
  PROVE  s \in Seq(MessageRow) /\ Len(s) = Len(q) /\ \A i \in DOMAIN q : s[i].event = q[i].event
<1> DEFINE x == [q[1] EXCEPT !.receives = @ + 1]
           y == [event |-> q[1].event, receives |-> q[1].receives + 1]
<1>1. 1 \in DOMAIN q /\ q[1] \in MessageRow
  OBVIOUS
<1>2. x = y /\ y \in MessageRow /\ y.event = q[1].event
  BY <1>1 DEF MessageRow
<1>3. s = [q EXCEPT ![1] = x]
  OBVIOUS
<1> HIDE DEF x, y
<1> QED
  BY <1>1, <1>2, <1>3

\* The sends of an event are numbered from one.
LEMMA SendCountFacts ==
  ASSUME SystemAssumption, NEW e
  PROVE  /\ SendCount(e) \in Nat
         /\ SendCount(e) > 0 <=> \E k \in 1 .. MaxSends : <<e, k>> \in sends
<1> DEFINE S == {k \in 1 .. MaxSends : <<e, k>> \in sends}
<1>1. IsFiniteSet(S)
  <2>1. IsFiniteSet(1 .. MaxSends)
    BY SystemAssumption, FS_Interval
  <2>2. S \subseteq 1 .. MaxSends
    OBVIOUS
  <2> QED
    BY <2>1, <2>2, FS_Subset
<1>2. Cardinality(S) \in Nat /\ (Cardinality(S) = 0 <=> S = {})
  BY <1>1, FS_CardinalityType, FS_EmptySet
<1>3. SendCount(e) = Cardinality(S)
  BY DEF SendCount
<1>4. S # {} <=> \E k \in 1 .. MaxSends : <<e, k>> \in sends
  OBVIOUS
<1> HIDE DEF S
<1>5. SendCount(e) \in Nat /\ (SendCount(e) > 0 <=> S # {})
  BY <1>2, <1>3
<1> QED
  BY <1>4, <1>5

QueueOK ==
  /\ queue \in [Orgs -> Seq(MessageRow)] /\ holder \in [Orgs -> Owners \cup {NoOwner}]
  /\ \A o \in Orgs : \A i \in DOMAIN queue[o] : queue[o][i].event \in Sent
LogsOK ==
  /\ sends \subseteq readyEvents \X (1 .. MaxSends)
  /\ dead \subseteq Sent /\ published \subseteq Sent /\ receipts \subseteq Sent
WorkersOK == DOMAIN worker = Owners /\ \A w \in Owners : IsWorker(w)
FeedOK ==
  /\ hints \subseteq Hint /\ (feed = Idle \/ IsFeed(feed))
  /\ faults \in [worker: 0 .. MaxFaults, feed: 0 .. MaxFeedFaults]

\* A sent event is one of the outbox, of a mission, with its organization.
LEMMA SentIsReady ==
  ASSUME TypeOK, SysTables
  PROVE  /\ Sent \subseteq readyEvents /\ Sent \subseteq ReadyEvent
         /\ \A e \in ReadyEvent : e[1] \in Missions /\ OrgOfEvent(e) \in Orgs
<1>1. Sent \subseteq readyEvents
  BY DEF SysTables, Sent
<1>2. \A e \in ReadyEvent : e[1] \in Missions /\ OrgOfEvent(e) \in Orgs
  BY SizeAssumption DEF ReadyEvent, OrgOfEvent
<1> QED
  BY <1>1, <1>2 DEF TypeOK

\* Every step of a process leaves queues, logs, workers and consumer well formed.
LEMMA SysTypeStep ==
  ASSUME SysInv, [SysNext]_allVars
  PROVE  SysTables'
<1> USE DEF queueVars, feedVars
<1>a. /\ TypeOK /\ SysTables /\ HeadIsHeld /\ QueueOK /\ LogsOK /\ WorkersOK /\ FeedOK
  BY DEF SysInv, Inv, Delivery, SysTables, QueueOK, LogsOK, WorkersOK, FeedOK
<1>b. [Next]_vars
  BY <1>a, KernelStep
<1>c. readyEvents \subseteq readyEvents' /\ issued \subseteq issued'
  BY <1>b, RowsGrow
<1>d. ASSUME UNCHANGED <<queue, holder>>, Sent \subseteq Sent' PROVE QueueOK'
  BY <1>a, <1>d DEF QueueOK
<1>e. ASSUME UNCHANGED <<sends, dead, published, receipts>> PROVE LogsOK' /\ Sent' = Sent
  BY <1>a, <1>c, <1>e DEF LogsOK, Sent
<1>f. ASSUME NEW v \in Owners, worker'[v] = worker[v], Sent \subseteq Sent' PROVE IsWorker(v)'
  BY <1>a, <1>c, <1>f DEF WorkersOK, IsWorker, LeaseOf
<1>g. ASSUME UNCHANGED worker, Sent \subseteq Sent' PROVE WorkersOK'
  BY <1>a, <1>f, <1>g DEF WorkersOK
<1>h. ASSUME UNCHANGED <<hints, feed, faults>> PROVE FeedOK'
  BY <1>a, <1>h DEF FeedOK
<1>z. ASSUME QueueOK', LogsOK', WorkersOK', FeedOK' PROVE SysTables'
  BY <1>z DEF SysTables, QueueOK, LogsOK, WorkersOK, FeedOK
<1>1. ASSUME NEW w \in Owners, WorkerActs(w) PROVE SysTables'
  <2>1. Advances(w)
    BY <1>a, <1>b, <1>1, WorkerAdvances
  <2>2. Sent' = Sent
    BY <2>1 DEF Advances, Sent
  <2>3. QueueOK' /\ WorkersOK'
    BY <1>d, <1>f, <2>1, <2>2 DEF Advances, OnlyWorker, WorkersOK
  <2>4. LogsOK'
    <3>1. ASSUME At(w, "record") PROVE worker[w].event \in Sent
      BY <1>a, <3>1 DEF WorkersOK, IsWorker, At
    <3>2. UNCHANGED <<sends, dead, published>> /\ receipts' \subseteq Sent
      BY <1>a, <2>1, <3>1 DEF Advances, LogsOK
    <3> QED
      BY <1>a, <1>c, <2>2, <3>2 DEF LogsOK
  <2>5. FeedOK'
    <3>1. UNCHANGED <<hints, feed>>
      BY <2>1 DEF Advances
    <3>2. CASE Fault(w)
      <4>1. faults.worker < MaxFaults /\ faults' = [faults EXCEPT !.worker = @ + 1]
        BY <3>2 DEF Fault
      <4>2. faults' \in [worker: 0 .. MaxFaults, feed: 0 .. MaxFeedFaults]
        <5>1. faults \in [worker: 0 .. MaxFaults, feed: 0 .. MaxFeedFaults]
          BY <1>a DEF FeedOK
        <5>2. faults' = [worker |-> faults.worker + 1, feed |-> faults.feed]
          BY <4>1, <5>1
        <5> QED
          BY <4>1, <5>1, <5>2, SystemAssumption
      <4> QED
        BY <1>a, <3>1, <4>2 DEF FeedOK
    <3>3. CASE ~ Fault(w)
      <4>1. UNCHANGED faults
        BY <1>1, <3>3 DEF WorkerActs, CheckReceipt, CheckCompleted, Load, Retrieve, WorkerPrepare,
           WorkerClaim, WorkerDecide, WorkerStale, Record, Raise, Die, workerOnly
      <4> QED
        BY <1>h, <3>1, <4>1
    <3> QED
      BY <3>2, <3>3
  <2> QED
    BY <1>z, <2>3, <2>4, <2>5
<1>2. ASSUME NEW e \in readyEvents, Publish(e) PROVE SysTables'
  <2> DEFINE k == SendCount(e)
             o == OrgOfEvent(e)
             x == [event |-> e, receives |-> 0]
  <2>1. /\ k < MaxSends /\ sends' = sends \cup {<<e, k + 1>>}
        /\ queue' = [queue EXCEPT ![o] = Append(@, x)] \/ UNCHANGED queue
        /\ UNCHANGED <<holder, dead, published, receipts, worker, hints, feed, faults>>
    BY <1>2 DEF Publish
  <2>2. e \in ReadyEvent /\ o \in Orgs /\ k \in Nat /\ k + 1 \in 1 .. MaxSends
    <3>1. e \in ReadyEvent
      BY <1>a DEF TypeOK
    <3>2. o \in Orgs
      BY <1>a, <3>1, SentIsReady
    <3>3. k \in Nat
      BY SendCountFacts, SystemAssumption
    <3> HIDE DEF k
    <3>4. k + 1 \in 1 .. MaxSends
      BY <2>1, <3>3, SystemAssumption
    <3> QED
      BY <3>1, <3>2, <3>3, <3>4
  <2> HIDE DEF k, o
  <2>3. Sent' = Sent \cup {e}
    <3> DEFINE n == <<e, k + 1>>
    <3>1. n[1] = e /\ sends' = sends \cup {n}
      BY <2>1
    <3> HIDE DEF n
    <3> QED
      BY <3>1 DEF Sent
  <2>4. LogsOK'
    BY <1>a, <1>c, <2>1, <2>2, <2>3 DEF LogsOK
  <2>5. QueueOK'
    <3>1. CASE queue' = [queue EXCEPT ![o] = Append(@, x)]
      <4>1. x \in MessageRow /\ x.event = e
        BY <2>2 DEF MessageRow
      <4> HIDE DEF x
      <4>2. queue' \in [Orgs -> Seq(MessageRow)]
        BY <1>a, <2>2, <3>1, <4>1 DEF QueueOK
      <4>3. ASSUME NEW u \in Orgs, NEW i \in DOMAIN queue'[u] PROVE queue'[u][i].event \in Sent'
        <5>1. CASE u = o
          <6>1. queue'[u] = Append(queue[u], x) /\ queue[u] \in Seq(MessageRow)
            BY <1>a, <2>2, <3>1, <5>1 DEF QueueOK
          <6>2. (i \in DOMAIN queue[u] /\ queue'[u][i] = queue[u][i]) \/ queue'[u][i] = x
            BY <4>3, <6>1
          <6> QED
            BY <1>a, <2>3, <4>1, <6>2 DEF QueueOK
        <5>2. CASE u # o
          BY <1>a, <2>3, <3>1, <4>3, <5>2 DEF QueueOK
        <5> QED
          BY <5>1, <5>2
      <4> QED
        BY <1>a, <2>1, <4>2, <4>3 DEF QueueOK
    <3>2. CASE UNCHANGED queue
      BY <1>d, <2>1, <2>3, <3>2
    <3> QED
      BY <2>1, <3>1, <3>2
  <2> QED
    BY <1>g, <1>h, <1>z, <2>1, <2>3, <2>4, <2>5
<1>3. ASSUME NEW e \in readyEvents, MarkPublished(e) PROVE SysTables'
  <2>1. /\ SendCount(e) > 0 /\ published' = published \cup {e}
        /\ UNCHANGED <<queue, holder, dead, sends, receipts, worker, hints, feed, faults>>
    BY <1>3 DEF MarkPublished
  <2>2. e \in Sent /\ Sent' = Sent
    <3>1. PICK n \in 1 .. MaxSends : <<e, n>> \in sends
      BY <2>1, SendCountFacts, SystemAssumption
    <3>2. <<e, n>>[1] = e
      OBVIOUS
    <3> QED
      BY <2>1, <3>1, <3>2 DEF Sent
  <2>3. LogsOK'
    BY <1>a, <1>c, <2>1, <2>2 DEF LogsOK
  <2> QED
    BY <1>d, <1>g, <1>h, <1>z, <2>1, <2>2, <2>3
<1>4. ASSUME NEW o \in Orgs, VisibilityTimeout(o) PROVE SysTables'
  <2>1. /\ holder' = [holder EXCEPT ![o] = NoOwner]
        /\ UNCHANGED <<queue, dead, sends, published, receipts, worker, hints, feed, faults>>
    BY <1>4 DEF VisibilityTimeout
  <2>2. LogsOK' /\ Sent' = Sent
    BY <1>e, <2>1
  <2>3. QueueOK'
    BY <1>a, <2>1, <2>2 DEF QueueOK
  <2> QED
    BY <1>g, <1>h, <1>z, <2>1, <2>2, <2>3
<1>5. ASSUME NEW o \in Orgs, queue[o] # <<>>, queue' = [queue EXCEPT ![o] = Tail(@)],
             holder' = holder \/ holder' = [holder EXCEPT ![o] = NoOwner], Sent' = Sent
      PROVE  QueueOK'
  <2>1. queue[o] \in Seq(MessageRow)
    BY <1>a DEF QueueOK
  <2>2. /\ Tail(queue[o]) \in Seq(MessageRow)
        /\ \A i \in DOMAIN Tail(queue[o]) : i + 1 \in DOMAIN queue[o] /\ Tail(queue[o])[i] = queue[o][i + 1]
    BY <1>5, <2>1
  <2>3. queue' \in [Orgs -> Seq(MessageRow)]
    BY <1>a, <1>5, <2>2 DEF QueueOK
  <2>4. ASSUME NEW u \in Orgs, NEW i \in DOMAIN queue'[u] PROVE queue'[u][i].event \in Sent'
    BY <1>a, <1>5, <2>2, <2>4 DEF QueueOK
  <2>5. holder' \in [Orgs -> Owners \cup {NoOwner}]
    BY <1>a, <1>5 DEF QueueOK
  <2> QED
    BY <2>3, <2>4, <2>5 DEF QueueOK
<1>6. ASSUME NEW o \in Orgs, DeadLetter(o) PROVE SysTables'
  <2>1. /\ queue[o] # <<>> /\ dead' = dead \cup {Head(queue[o]).event}
        /\ queue' = [queue EXCEPT ![o] = Tail(@)]
        /\ UNCHANGED <<holder, sends, published, receipts, worker, hints, feed, faults>>
    BY <1>6 DEF DeadLetter
  <2>2. Sent' = Sent /\ Head(queue[o]).event \in Sent
    BY <1>a, <2>1 DEF QueueOK, Sent
  <2>3. QueueOK' /\ LogsOK'
    BY <1>a, <1>c, <1>5, <2>1, <2>2 DEF LogsOK
  <2> QED
    BY <1>g, <1>h, <1>z, <2>1, <2>2, <2>3
<1>7. ASSUME NEW w \in Owners, NEW o \in Orgs, Receive(w, o) PROVE SysTables'
  <2> DEFINE r == [pc |-> "receipt", org |-> o, event |-> Head(queue[o]).event]
  <2>1. /\ queue[o] # <<>> /\ holder' = [holder EXCEPT ![o] = w]
        /\ queue' = [queue EXCEPT ![o][1].receives = @ + 1] /\ Go(w, r)
        /\ UNCHANGED <<dead, sends, published, receipts, hints, feed, faults>>
    BY <1>7 DEF Receive
  <2>2. LogsOK' /\ Sent' = Sent
    BY <1>e, <2>1
  <2>3. queue[o] \in Seq(MessageRow) /\ Head(queue[o]) = queue[o][1] /\ queue[o][1].event \in Sent
    BY <1>a, <2>1 DEF QueueOK
  <2>4. QueueOK'
    <3> DEFINE s == [queue[o] EXCEPT ![1].receives = @ + 1]
    <3>1. s \in Seq(MessageRow) /\ Len(s) = Len(queue[o]) /\ \A i \in DOMAIN queue[o] : s[i].event = queue[o][i].event
      BY <2>1, <2>3, ReceivedQueue, ZenonT(30)
    <3>2. queue' = [queue EXCEPT ![o] = s]
      BY <2>1
    <3> HIDE DEF s
    <3>3. DOMAIN s = DOMAIN queue[o]
      BY <2>3, <3>1
    <3> QED
      BY <1>a, <2>1, <2>2, <3>1, <3>2, <3>3 DEF QueueOK
  <2>5. WorkersOK'
    <3>1. OnlyWorker(w) /\ worker'[w] = r
      BY <1>a, <2>1, GoEffect DEF WorkersOK
    <3>2. /\ DOMAIN r = MessageFields /\ r.pc = "receipt" /\ r.org = o /\ r.event \in Sent
      BY <2>3 DEF MessageFields
    <3> HIDE DEF r
    <3>3. IsWorker(w)'
      BY <2>2, <3>1, <3>2 DEF IsWorker, PC
    <3> QED
      BY <1>f, <2>2, <3>1, <3>3 DEF OnlyWorker, WorkersOK
  <2> QED
    BY <1>h, <1>z, <2>1, <2>2, <2>4, <2>5
<1>8. ASSUME NEW w \in Owners, Delete(w) PROVE SysTables'
  <2> DEFINE o == worker[w].org
  <2>1. /\ Go(w, Idle) /\ At(w, "delete")
        /\ UNCHANGED <<dead, sends, published, receipts, hints, feed, faults>>
    BY <1>8 DEF Delete
  <2>2. LogsOK' /\ Sent' = Sent
    BY <1>e, <2>1
  <2>3. o \in Orgs /\ (holder[o] = w => queue[o] # <<>>)
    BY <1>a, <2>1 DEF WorkersOK, IsWorker, At, HeadIsHeld, Running
  <2>4. QueueOK'
    BY <1>d, <1>5, <1>8, <2>2, <2>3 DEF Delete
  <2>5. OnlyWorker(w) /\ worker'[w] = Idle /\ Idle.pc = "idle"
    BY <1>a, <2>1, GoEffect DEF WorkersOK, Idle
  <2>6. IsWorker(w)'
    BY <2>5 DEF IsWorker, PC
  <2>7. WorkersOK'
    BY <1>f, <2>2, <2>5, <2>6 DEF OnlyWorker, WorkersOK
  <2> QED
    BY <1>h, <1>z, <2>1, <2>2, <2>4, <2>7
<1>9. ASSUME UNCHANGED <<queueVars, sends, published, receipts, worker>>, FeedOK' PROVE SysTables'
  <2>1. LogsOK' /\ Sent' = Sent
    BY <1>e, <1>9
  <2> QED
    BY <1>d, <1>g, <1>z, <1>9, <2>1
<1>10. ASSUME NEW h \in hints, FeedReceive(h) PROVE SysTables'
  <2> DEFINE a == [h EXCEPT !.receives = @ + 1]
             b == [product |-> h.product, generation |-> h.generation, receives |-> h.receives + 1]
             f == [pc |-> "apply", hint |-> a, next |-> 1]
  <2>1. /\ hints' = (hints \ {h}) \cup {a} /\ feed' = f
        /\ UNCHANGED <<queueVars, sends, published, receipts, worker, faults>>
    BY <1>10 DEF FeedReceive
  <2>2. h \in Hint
    BY <1>a, <1>10 DEF FeedOK
  <2>3. a = b /\ b \in Hint
    BY <2>2 DEF Hint
  <2> HIDE DEF a, b
  <2>4. IsFeed(f)
    BY <2>3, SystemAssumption DEF IsFeed, FeedFields
  <2> HIDE DEF f
  <2>5. FeedOK'
    BY <1>a, <2>1, <2>3, <2>4 DEF FeedOK
  <2> QED
    BY <1>9, <2>1, <2>5
<1>11. ASSUME FeedApply PROVE SysTables'
  <2>1. /\ IsFeed(feed) /\ feed.next <= Len(OrgSeq) /\ feed' = [feed EXCEPT !.next = @ + 1]
        /\ UNCHANGED <<queueVars, sends, published, receipts, worker, hints, faults>>
    BY <1>a, <1>11 DEF FeedApply, FeedOK
  <2>2. /\ DOMAIN feed' = FeedFields /\ feed'.next = feed.next + 1 /\ feed'.hint = feed.hint
        /\ feed'.pc = feed.pc
    BY <2>1 DEF IsFeed, FeedFields
  <2>3. IsFeed(feed')
    <3>1. feed'.next \in 1 .. Len(OrgSeq) + 1
      <4>1. Len(OrgSeq) \in Nat /\ feed.next \in 1 .. Len(OrgSeq) + 1
        BY <2>1, SystemAssumption DEF IsFeed
      <4> QED
        BY <2>1, <2>2, <4>1
    <3> QED
      BY <2>1, <2>2, <3>1 DEF IsFeed
  <2>4. FeedOK'
    BY <1>a, <2>1, <2>3 DEF FeedOK
  <2> QED
    BY <1>9, <2>1, <2>4
<1>12. ASSUME FeedRaise \/ FeedDelete PROVE SysTables'
  <2>1. FeedOK'
    BY <1>a, <1>12 DEF FeedRaise, FeedDelete, FeedOK
  <2> QED
    BY <1>9, <1>12, <2>1 DEF FeedRaise, FeedDelete
<1>13. ASSUME FeedFault PROVE SysTables'
  <2>1. /\ faults.feed < MaxFeedFaults /\ faults' = [faults EXCEPT !.feed = @ + 1] /\ feed' = Idle
        /\ UNCHANGED <<queueVars, sends, published, receipts, worker, hints>>
    BY <1>13 DEF FeedFault
  <2>2. faults' \in [worker: 0 .. MaxFaults, feed: 0 .. MaxFeedFaults]
    <3>1. faults \in [worker: 0 .. MaxFaults, feed: 0 .. MaxFeedFaults]
      BY <1>a DEF FeedOK
    <3>2. faults' = [worker |-> faults.worker, feed |-> faults.feed + 1]
      BY <2>1, <3>1
    <3>3. faults.worker \in 0 .. MaxFaults /\ faults.feed + 1 \in 0 .. MaxFeedFaults
      BY <2>1, <3>1, SystemAssumption
    <3> QED
      BY <3>2, <3>3
  <2>3. FeedOK'
    BY <1>a, <2>1, <2>2 DEF FeedOK
  <2> QED
    BY <1>9, <2>1, <2>3
<1>14. ASSUME NEW p \in Products, NEW i \in DOMAIN BundleSeq, SysActivate(p, i) PROVE SysTables'
  <2> DEFINE h == [product |-> p, generation |-> pointerGen[p] + 1, receives |-> 0]
  <2>1. /\ hints' = hints \cup {h}
        /\ UNCHANGED <<queueVars, sends, published, receipts, worker, feed, faults>>
    BY <1>14 DEF SysActivate
  <2>2. h \in Hint
    BY <1>a DEF Hint, TypeOK
  <2> HIDE DEF h
  <2>3. FeedOK'
    BY <1>a, <2>1, <2>2 DEF FeedOK
  <2> QED
    BY <1>9, <2>1, <2>3
<1>15. ASSUME Environment \/ UNCHANGED allVars PROVE SysTables'
  <2>1. UNCHANGED <<queueVars, sends, published, receipts, worker, hints, feed, faults>>
    BY <1>15 DEF Environment, allVars, sysVars
  <2> QED
    BY <1>9, <1>h, <2>1
<1> QED
  BY <1>1, <1>2, <1>3, <1>4, <1>6, <1>7, <1>8, <1>10, <1>11, <1>12, <1>13, <1>14, <1>15
     DEF SysNext, Progress, Dispatcher, WorkerStep, FeedStep, WorkerActs

(***************************************************************************)
(* Delivery: what was sent is acknowledged, queued or dead-lettered.       *)
(***************************************************************************)
Has(q, e) == \E i \in 1 .. Len(q) : q[i].event = e

\* A message that is not at the head outlives the head, and every message a new one.
LEMMA QueueKeeps ==
  ASSUME NEW q \in Seq(MessageRow), NEW e, Has(q, e)
  PROVE  /\ Head(q).event = e \/ Has(Tail(q), e)
         /\ \A x \in MessageRow : Has(Append(q, x), e)
<1>1. PICK i \in 1 .. Len(q) : q[i].event = e
  BY DEF Has
<1>2. Head(q).event = e \/ Has(Tail(q), e)
  <2>1. CASE i = 1
    BY <1>1, <2>1
  <2>2. CASE i # 1
    <3>1. i - 1 \in 1 .. Len(Tail(q)) /\ Tail(q)[i - 1] = q[i]
      BY <1>1, <2>2
    <3> QED
      BY <1>1, <3>1 DEF Has
  <2> QED
    BY <2>1, <2>2
<1>3. ASSUME NEW x \in MessageRow PROVE Has(Append(q, x), e)
  <2>1. i \in 1 .. Len(Append(q, x)) /\ Append(q, x)[i] = q[i]
    BY <1>1
  <2> QED
    BY <1>1, <2>1 DEF Has
<1> QED
  BY <1>2, <1>3

\* No step of a worker, the dispatcher or the queue loses a message.
LEMMA DeliveryStep ==
  ASSUME SysInv, [SysNext]_allVars
  PROVE  Delivery'
<1> USE DEF queueVars, feedVars
<1>a. /\ TypeOK /\ SysTables /\ HeadIsHeld /\ DeletedIsReceived /\ SentIsSomewhere
      /\ queue \in [Orgs -> Seq(MessageRow)] /\ holder \in [Orgs -> Owners \cup {NoOwner}]
      /\ DOMAIN worker = Owners
  BY DEF SysInv, Inv, Delivery, SysTables
<1>b. [Next]_vars
  BY <1>a, KernelStep
<1>c. \A e \in Sent : OrgOfEvent(e) \in Orgs /\ (InQueue(e) <=> Has(queue[OrgOfEvent(e)], e))
  BY <1>a, SentIsReady DEF InQueue, Has
<1>d. \A w \in Owners : Running(w) => worker[w].org \in Orgs /\ worker[w].event \in Sent
  BY <1>a DEF SysTables, IsWorker, Running
<1>e. NoOwner \notin Owners
  BY SentinelAssumption
<1>f. ASSUME NEW v \in Owners, worker'[v] = worker[v], receipts \subseteq receipts'
      PROVE  At(v, "delete")' => worker'[v].event \in receipts'
  BY <1>a, <1>f DEF At, DeletedIsReceived
<1>g. ASSUME Sent' = Sent, receipts \subseteq receipts', dead \subseteq dead', UNCHANGED queue
      PROVE  SentIsSomewhere'
  BY <1>a, <1>g DEF SentIsSomewhere, InQueue, OrgOfEvent
<1>h. ASSUME UNCHANGED <<queue, worker>>, \A o \in Orgs : holder'[o] \in {holder[o], NoOwner}
      PROVE  HeadIsHeld'
  BY <1>a, <1>d, <1>e, <1>h DEF HeadIsHeld, Running
<1>1. ASSUME NEW w \in Owners, WorkerActs(w) PROVE Delivery'
  <2>1. Advances(w)
    BY <1>a, <1>b, <1>1, WorkerAdvances
  <2>2. Sent' = Sent /\ receipts \subseteq receipts' /\ UNCHANGED <<queue, holder, dead>>
    BY <2>1 DEF Advances, Sent
  <2>3. HeadIsHeld'
    <3>1. ASSUME NEW v \in Owners, Running(v)', holder'[worker'[v].org] = v
          PROVE  queue'[worker'[v].org] # <<>> /\ Head(queue'[worker'[v].org]).event = worker'[v].event
      <4>1. Running(v) /\ worker'[v].org = worker[v].org /\ worker'[v].event = worker[v].event
        BY <2>1, <3>1 DEF Advances, OnlyWorker, Running
      <4> QED
        BY <1>a, <2>2, <3>1, <4>1 DEF HeadIsHeld
    <3> QED
      BY <3>1 DEF HeadIsHeld
  <2>4. DeletedIsReceived'
    <3>1. At(w, "delete")' => worker'[w].event \in receipts'
      BY <2>1 DEF Advances, At
    <3> QED
      BY <1>f, <2>1, <2>2, <3>1 DEF Advances, OnlyWorker, DeletedIsReceived
  <2> QED
    BY <1>g, <2>2, <2>3, <2>4 DEF Delivery
<1>2. ASSUME NEW e \in readyEvents, Publish(e) PROVE Delivery'
  <2> DEFINE k == SendCount(e)
             o == OrgOfEvent(e)
             x == [event |-> e, receives |-> 0]
             n == <<e, k + 1>>
  <2>1. /\ sends' = sends \cup {n}
        /\ queue' = [queue EXCEPT ![o] = Append(@, x)] \/ (k > 0 /\ UNCHANGED queue)
        /\ UNCHANGED <<holder, dead, receipts, worker>>
    BY <1>2 DEF Publish
  <2>2. e \in ReadyEvent /\ o \in Orgs /\ (k > 0 => e \in Sent)
    <3>1. ASSUME k > 0 PROVE e \in Sent
      <4>1. PICK i \in 1 .. MaxSends : <<e, i>> \in sends
        BY <3>1, SendCountFacts, SystemAssumption
      <4>2. <<e, i>>[1] = e
        OBVIOUS
      <4> QED
        BY <4>1, <4>2 DEF Sent
    <3> QED
      BY <1>a, <3>1, SentIsReady DEF TypeOK
  <2>3. x \in MessageRow /\ x.event = e /\ n[1] = e
    BY <2>2 DEF MessageRow
  <2> HIDE DEF k, o, x, n
  <2>4. Sent' = Sent \cup {e}
    BY <2>1, <2>3 DEF Sent
  <2>5. DeletedIsReceived'
    BY <1>f, <2>1 DEF DeletedIsReceived
  <2>6. CASE k > 0 /\ UNCHANGED queue
    <3>1. Sent' = Sent
      BY <2>2, <2>4, <2>6
    <3> QED
      BY <1>g, <1>h, <2>1, <2>5, <2>6, <3>1 DEF Delivery
  <2>7. CASE queue' = [queue EXCEPT ![o] = Append(@, x)]
    <3>1. queue[o] \in Seq(MessageRow) /\ queue'[o] = Append(queue[o], x) /\ \A u \in Orgs : u # o => queue'[u] = queue[u]
      BY <1>a, <2>2, <2>7
    <3>2. queue[o] # <<>> => queue'[o] # <<>> /\ Head(queue'[o]) = Head(queue[o])
      BY <2>3, <3>1
    <3>3. HeadIsHeld'
      <4>1. ASSUME NEW v \in Owners, Running(v)', holder'[worker'[v].org] = v
            PROVE  queue'[worker'[v].org] # <<>> /\ Head(queue'[worker'[v].org]).event = worker'[v].event
        <5>1. Running(v) /\ worker' = worker /\ holder[worker[v].org] = v
          BY <2>1, <4>1 DEF Running
        <5>2. worker[v].org \in Orgs
          BY <1>d, <5>1
        <5>3. queue[worker[v].org] # <<>> /\ Head(queue[worker[v].org]).event = worker[v].event
          BY <1>a, <5>1 DEF HeadIsHeld
        <5> QED
          BY <3>1, <3>2, <5>1, <5>2, <5>3
      <4> QED
        BY <4>1 DEF HeadIsHeld
    <3>4. Has(queue'[o], e)
      <4>1. Len(queue[o]) + 1 \in 1 .. Len(queue'[o]) /\ queue'[o][Len(queue[o]) + 1] = x
        BY <2>3, <3>1
      <4> QED
        BY <2>3, <4>1 DEF Has
    <3>5. ASSUME NEW f \in Sent, Has(queue[OrgOfEvent(f)], f) PROVE Has(queue'[OrgOfEvent(f)], f)
      BY <1>c, <2>3, <3>1, <3>5, QueueKeeps
    <3>6. \A f : InQueue(f)' <=> Has(queue'[OrgOfEvent(f)], f)
      BY DEF InQueue, Has, OrgOfEvent
    <3>7. SentIsSomewhere'
      BY <1>a, <1>c, <2>1, <2>4, <3>4, <3>5, <3>6 DEF SentIsSomewhere, o
    <3> QED
      BY <2>5, <3>3, <3>7 DEF Delivery
  <2> QED
    BY <2>1, <2>6, <2>7
<1>3. ASSUME UNCHANGED <<queue, sends, worker, receipts, dead>>,
             \A o \in Orgs : holder'[o] \in {holder[o], NoOwner}
      PROVE  Delivery'
  <2>1. Sent' = Sent
    BY <1>3 DEF Sent
  <2> QED
    BY <1>f, <1>g, <1>h, <1>3, <2>1 DEF Delivery, DeletedIsReceived
<1>4. ASSUME NEW o \in Orgs, VisibilityTimeout(o) PROVE Delivery'
  <2>1. holder' = [holder EXCEPT ![o] = NoOwner] /\ UNCHANGED <<queue, sends, worker, receipts, dead>>
    BY <1>4 DEF VisibilityTimeout
  <2>2. \A u \in Orgs : holder'[u] \in {holder[u], NoOwner}
    BY <1>a, <2>1
  <2> QED
    BY <1>3, <2>1, <2>2
<1>5. ASSUME NEW o \in Orgs, queue[o] # <<>>, queue' = [queue EXCEPT ![o] = Tail(@)],
             Sent' = Sent, receipts' = receipts, dead \subseteq dead',
             Head(queue[o]).event \in receipts \cup dead'
      PROVE  SentIsSomewhere'
  <2>1. queue[o] \in Seq(MessageRow) /\ queue'[o] = Tail(queue[o]) /\ \A u \in Orgs : u # o => queue'[u] = queue[u]
    BY <1>a, <1>5
  <2>2. ASSUME NEW f \in Sent, Has(queue[OrgOfEvent(f)], f)
        PROVE  Has(queue'[OrgOfEvent(f)], f) \/ f \in receipts \cup dead'
    BY <1>c, <1>5, <2>1, <2>2, QueueKeeps
  <2>3. \A f : InQueue(f)' <=> Has(queue'[OrgOfEvent(f)], f)
    BY DEF InQueue, Has, OrgOfEvent
  <2> QED
    BY <1>a, <1>c, <1>5, <2>2, <2>3 DEF SentIsSomewhere
<1>6. ASSUME NEW o \in Orgs, DeadLetter(o) PROVE Delivery'
  <2>1. /\ queue[o] # <<>> /\ holder[o] = NoOwner /\ dead' = dead \cup {Head(queue[o]).event}
        /\ queue' = [queue EXCEPT ![o] = Tail(@)] /\ UNCHANGED <<holder, sends, receipts, worker>>
    BY <1>6 DEF DeadLetter
  <2>2. Sent' = Sent
    BY <2>1 DEF Sent
  <2>3. HeadIsHeld'
    BY <1>a, <1>d, <1>e, <2>1 DEF HeadIsHeld, Running
  <2>4. DeletedIsReceived'
    BY <1>f, <2>1 DEF DeletedIsReceived
  <2>5. SentIsSomewhere'
    BY <1>5, <2>1, <2>2
  <2> QED
    BY <2>3, <2>4, <2>5 DEF Delivery
<1>7. ASSUME NEW w \in Owners, NEW o \in Orgs, Receive(w, o) PROVE Delivery'
  <2> DEFINE r == [pc |-> "receipt", org |-> o, event |-> Head(queue[o]).event]
             s == [queue[o] EXCEPT ![1].receives = @ + 1]
  <2>1. /\ queue[o] # <<>> /\ holder' = [holder EXCEPT ![o] = w]
        /\ queue' = [queue EXCEPT ![o][1].receives = @ + 1] /\ Go(w, r)
        /\ UNCHANGED <<dead, sends, receipts>>
    BY <1>7 DEF Receive
  <2>2. queue[o] \in Seq(MessageRow)
    BY <1>a
  <2>3. s \in Seq(MessageRow) /\ Len(s) = Len(queue[o]) /\ \A i \in DOMAIN queue[o] : s[i].event = queue[o][i].event
    BY <2>1, <2>2, ReceivedQueue
  <2>4. queue' = [queue EXCEPT ![o] = s]
    BY <2>1
  <2>5. r.pc = "receipt" /\ r.org = o /\ r.event = Head(queue[o]).event
    OBVIOUS
  <2>6. OnlyWorker(w) /\ worker'[w] = r
    BY <1>a, <2>1, GoEffect
  <2> HIDE DEF r, s
  <2>7. queue'[o] = s /\ s # <<>> /\ Head(s).event = Head(queue[o]).event /\ \A u \in Orgs : u # o => queue'[u] = queue[u]
    BY <1>a, <2>1, <2>2, <2>3, <2>4
  <2>8. holder'[o] = w /\ \A u \in Orgs : u # o => holder'[u] = holder[u]
    BY <1>a, <2>1
  <2>9. HeadIsHeld'
    <3>1. ASSUME NEW v \in Owners, Running(v)', holder'[worker'[v].org] = v
          PROVE  queue'[worker'[v].org] # <<>> /\ Head(queue'[worker'[v].org]).event = worker'[v].event
      <4>1. CASE v = w
        BY <2>5, <2>6, <2>7, <4>1
      <4>2. CASE v # w
        <5>1. worker'[v] = worker[v] /\ Running(v)
          BY <2>6, <3>1, <4>2 DEF OnlyWorker, Running
        <5>2. worker[v].org \in Orgs /\ worker[v].org # o
          BY <1>d, <2>8, <3>1, <4>2, <5>1
        <5> QED
          BY <1>a, <2>7, <2>8, <3>1, <5>1, <5>2 DEF HeadIsHeld
      <4> QED
        BY <4>1, <4>2
    <3> QED
      BY <3>1 DEF HeadIsHeld
  <2>10. DeletedIsReceived'
    <3>1. At(w, "delete")' => worker'[w].event \in receipts'
      BY <2>5, <2>6 DEF At
    <3> QED
      BY <1>f, <2>1, <2>6, <3>1 DEF OnlyWorker, DeletedIsReceived
  <2>11. SentIsSomewhere'
    <3>1. Sent' = Sent
      BY <2>1 DEF Sent
    <3>2. \A f : Has(queue[o], f) => Has(queue'[o], f)
      <4>1. DOMAIN queue[o] = 1 .. Len(queue[o])
        BY <2>2
      <4> QED
        BY <2>3, <2>7, <4>1 DEF Has
    <3>3. \A f \in Sent : Has(queue[OrgOfEvent(f)], f) => Has(queue'[OrgOfEvent(f)], f)
      BY <1>c, <2>7, <3>2
    <3>4. \A f : InQueue(f)' <=> Has(queue'[OrgOfEvent(f)], f)
      BY DEF InQueue, Has, OrgOfEvent
    <3> QED
      BY <1>a, <1>c, <2>1, <3>1, <3>3, <3>4 DEF SentIsSomewhere
  <2> QED
    BY <2>9, <2>10, <2>11 DEF Delivery
<1>8. ASSUME NEW w \in Owners, Delete(w) PROVE Delivery'
  <2> DEFINE o == worker[w].org
  <2>1. Go(w, Idle) /\ At(w, "delete") /\ UNCHANGED <<dead, sends, receipts>>
    BY <1>8 DEF Delete
  <2>2. o \in Orgs /\ worker[w].event \in receipts /\ Running(w)
    BY <1>a, <1>d, <2>1 DEF At, Running, DeletedIsReceived
  <2>3. Sent' = Sent
    BY <2>1 DEF Sent
  <2>4. OnlyWorker(w) /\ worker'[w] = Idle /\ Idle.pc = "idle"
    BY <1>a, <2>1, GoEffect DEF Idle
  <2>5. DeletedIsReceived'
    <3>1. At(w, "delete")' => worker'[w].event \in receipts'
      BY <2>4 DEF At
    <3> QED
      BY <1>f, <2>1, <2>4, <3>1 DEF OnlyWorker, DeletedIsReceived
  <2>6. ASSUME NEW v \in Owners, Running(v)' PROVE v # w /\ worker'[v] = worker[v] /\ Running(v) /\ worker[v].org \in Orgs
    BY <1>d, <2>4, <2>6 DEF OnlyWorker, Running
  <2>7. CASE holder[o] = w
    <3>1. queue' = [queue EXCEPT ![o] = Tail(@)] /\ holder' = [holder EXCEPT ![o] = NoOwner]
      BY <1>8, <2>7 DEF Delete
    <3>2. queue[o] # <<>> /\ Head(queue[o]).event \in receipts
      BY <1>a, <2>2, <2>7 DEF HeadIsHeld
    <3>3. SentIsSomewhere'
      BY <1>5, <2>1, <2>2, <2>3, <3>1, <3>2
    <3>4. \A u \in Orgs : u # o => queue'[u] = queue[u] /\ holder'[u] = holder[u]
      BY <1>a, <3>1
    <3>5. holder'[o] = NoOwner
      BY <1>a, <2>2, <3>1
    <3>6. HeadIsHeld'
      BY <1>a, <1>e, <2>6, <3>4, <3>5 DEF HeadIsHeld
    <3> QED
      BY <2>5, <3>3, <3>6 DEF Delivery
  <2>8. CASE holder[o] # w
    <3>1. UNCHANGED <<queue, holder>>
      BY <1>8, <2>8 DEF Delete
    <3>2. HeadIsHeld'
      BY <1>a, <2>6, <3>1 DEF HeadIsHeld
    <3> QED
      BY <1>g, <2>1, <2>3, <2>5, <3>1, <3>2 DEF Delivery
  <2> QED
    BY <2>7, <2>8
<1>9. ASSUME UNCHANGED <<queueVars, sends, receipts, worker>> PROVE Delivery'
  BY <1>3, <1>9
<1>10. ASSUME \/ \E e : MarkPublished(e)
              \/ \E h : FeedReceive(h)
              \/ FeedApply \/ FeedRaise \/ FeedDelete \/ FeedFault
              \/ \E p, i : SysActivate(p, i)
              \/ Environment \/ UNCHANGED allVars
       PROVE  Delivery'
  <2>1. UNCHANGED <<queueVars, sends, receipts, worker>>
    BY <1>10 DEF MarkPublished, FeedReceive, FeedApply, FeedRaise, FeedDelete, FeedFault, SysActivate,
       Environment, allVars, sysVars
  <2> QED
    BY <1>9, <2>1
<1> QED
  BY <1>1, <1>2, <1>4, <1>6, <1>7, <1>8, <1>10
     DEF SysNext, Progress, Dispatcher, WorkerStep, FeedStep, WorkerActs

(***************************************************************************)
(* Missions and their events.                                              *)
(***************************************************************************)
\* The attempts of a mission are finitely many.
LEMMA FiniteChain ==
  ASSUME NEW m \in Missions, NEW S, S \subseteq {a \in Attempts : a[1] = m}
  PROVE  IsFiniteSet(S)
<1>1. IsFiniteSet({m}) /\ IsFiniteSet(Depths)
  <2>1. 0 \in Int /\ MaxDepth \in Int
    BY SizeAssumption
  <2>2. IsFiniteSet(Depths)
    BY <2>1, FS_Interval DEF Depths
  <2> QED
    BY <2>2, FS_Singleton
<1>2. IsFiniteSet({m} \X Depths)
  BY <1>1, FS_Product
<1>3. S \subseteq {m} \X Depths
  BY DEF Attempts
<1> QED
  BY <1>2, <1>3, FS_Subset

\* What a transaction does to a mission: nothing that matters to its events, its
\* creation, or the retirement of its current decision.
Quiet(m) ==
  /\ EventsOf(m)' = EventsOf(m)
  /\ mission[m] = "NONE" <=> mission'[m] = "NONE"
  /\ mission'[m] = "READY" => mission[m] = "READY" /\ (IsCurrent(m)' => IsCurrent(m))
  /\ IsCurrent(m) => IsCurrent(m)'

Created(m) ==
  /\ mission[m] = "NONE" /\ mission'[m] = "READY" /\ ~ IsCurrent(m)'
  /\ EventsOf(m)' = EventsOf(m) \cup {<<m, NoProduct, 0>>}

Retires(m) ==
  /\ mission[m] # "NONE" /\ mission'[m] = "READY" /\ ~ IsCurrent(m)'
  /\ \E a \in Decided : a[1] = m /\ current[a]
  /\ \E e : e \notin readyEvents /\ e[1] = m /\ EventsOf(m)' = EventsOf(m) \cup {e}

\* Every transaction of the kernel is one of the three to every mission.
LEMMA MissionEffect ==
  ASSUME Inv, [Next]_vars, NEW m \in Missions
  PROVE  Quiet(m) \/ Created(m) \/ Retires(m)
<1> USE DEF catalogVars, missionVars, attemptVars, decisionVars, marketVars
<1>a. /\ TypeOK /\ DecisionRows /\ OneCurrentDecision /\ ReplacementKeyFresh /\ Preparation
      /\ IntroductionAuthorised
  BY ChainHasOneCurrent DEF Inv
<1>b. ASSUME UNCHANGED <<mission, readyEvents, current>> PROVE Quiet(m)
  BY <1>b DEF Quiet, EventsOf, IsCurrent
<1>c. ASSUME NEW a \in Attempts, mission[a[1]] # "NONE", NEW s \in {"RUNNING", "COMPLETED"},
             mission' = [mission EXCEPT ![a[1]] = s], UNCHANGED <<readyEvents, current>>
      PROVE  Quiet(m)
  <2>1. a[1] \in Missions /\ mission'[a[1]] = s /\ \A n \in Missions : n # a[1] => mission'[n] = mission[n]
    BY <1>a, <1>c, AttemptParts DEF TypeOK
  <2> QED
    BY <1>c, <2>1 DEF Quiet, EventsOf, IsCurrent
<1>d. \A a \in Attempts : attState[a] # "NONE" => mission[a[1]] # "NONE"
  BY <1>a DEF Preparation
<1>e. \A a \in Attempts : current[a] => attState[a] = "COMPLETED"
  BY <1>a DEF DecisionRows
<1>1. ASSUME NEW n \in Missions, CreateMission(n) PROVE Quiet(m) \/ Created(m)
  <2> DEFINE e == <<n, NoProduct, 0>>
  <2>1. /\ mission[n] = "NONE" /\ mission' = [mission EXCEPT ![n] = "READY"]
        /\ readyEvents' = readyEvents \cup {e} /\ current' = current
    BY <1>1 DEF CreateMission
  <2>2. mission'[n] = "READY" /\ \A k \in Missions : k # n => mission'[k] = mission[k]
    BY <1>a, <2>1 DEF TypeOK
  <2>3. e[1] = n
    OBVIOUS
  <2> HIDE DEF e
  <2>4. EventsOf(m)' = IF m = n THEN EventsOf(m) \cup {e} ELSE EventsOf(m)
    BY <2>1, <2>3 DEF EventsOf
  <2>5. IsCurrent(m)' <=> IsCurrent(m)
    BY <2>1 DEF IsCurrent
  <2>6. ~ IsCurrent(n)
    BY <1>d, <1>e, <2>1 DEF IsCurrent
  <2>7. CASE m = n
    BY <2>1, <2>2, <2>4, <2>5, <2>6, <2>7 DEF Created, e
  <2>8. CASE m # n
    BY <2>2, <2>4, <2>5, <2>8 DEF Quiet
  <2> QED
    BY <2>7, <2>8
<1>2. ASSUME NEW a \in Attempts, NEW sel \in Pins, Prepare(a, sel) PROVE Quiet(m)
  BY <1>c, <1>2 DEF Prepare
<1>3. ASSUME NEW l \in issued, NEW p \in Products, FinalizeDecision(l, p) PROVE Quiet(m)
  <2> DEFINE a == l.attempt
  <2>1. /\ attState[a] = "SNAPSHOT_COMPLETE" /\ current' = [current EXCEPT ![a] = TRUE]
        /\ mission' = [mission EXCEPT ![a[1]] = "AWAITING_APPROVAL"] /\ readyEvents' = readyEvents
    BY <1>3 DEF FinalizeDecision, Fenced
  <2>2. a \in Attempts
    BY <1>a DEF TypeOK, Token
  <2>3. a[1] \in Missions /\ mission[a[1]] # "NONE"
    BY <1>d, <2>1, <2>2, AttemptParts
  <2> HIDE DEF a
  <2>4. mission'[a[1]] = "AWAITING_APPROVAL" /\ \A n \in Missions : n # a[1] => mission'[n] = mission[n]
    BY <1>a, <2>1, <2>3 DEF TypeOK
  <2>5. current'[a] = TRUE /\ \A b \in Attempts : b # a => current'[b] = current[b]
    BY <1>a, <2>1, <2>2 DEF TypeOK
  <2>6. IsCurrent(m) => IsCurrent(m)'
    BY <2>5 DEF IsCurrent
  <2>7. m # a[1] /\ IsCurrent(m)' => IsCurrent(m)
    BY <2>5 DEF IsCurrent
  <2>8. EventsOf(m)' = EventsOf(m)
    BY <2>1 DEF EventsOf
  <2> QED
    BY <2>3, <2>4, <2>6, <2>7, <2>8 DEF Quiet
<1>4. ASSUME NEW a \in Attempts, Reject(a) PROVE Quiet(m)
  BY <1>c, <1>d, <1>e, <1>4 DEF Reject
<1>5. ASSUME NEW a \in Attempts, NEW f \in Fields, Introduce(a, f) PROVE Quiet(m)
  BY <1>c, <1>d, <1>e, <1>5 DEF Introduce
<1>6. ASSUME NEW a \in Attempts, NEW f \in Fields, IntroduceAgain(a, f) PROVE Quiet(m)
  <2> DEFINE i == [attempt |-> a, fields |-> f]
  <2>1. i \in intros /\ i.attempt = a
    BY <1>6 DEF IntroduceAgain
  <2>2. approval[a] \in {"APPROVED", "INVALIDATED"}
    BY <1>a, <2>1 DEF IntroductionAuthorised
  <2>3. mission[a[1]] # "NONE"
    BY <1>a, <1>d, <2>2 DEF DecisionRows
  <2> QED
    BY <1>c, <1>6, <2>3 DEF IntroduceAgain
<1>7. ASSUME NEW o \in Orgs, NEW p \in Products, Invalidate(o, p) PROVE Quiet(m) \/ Retires(m)
  <2> DEFINE hit == Outdated(o, p)
             key(a) == <<a[1], p, pointerGen[p]>>
  <2>1. /\ current' = [a \in Attempts |-> current[a] /\ a \notin hit]
        /\ mission' = [n \in Missions |-> IF \E a \in hit : a[1] = n THEN "READY" ELSE mission[n]]
        /\ readyEvents' = readyEvents \cup {key(a) : a \in hit}
    BY <1>7 DEF Invalidate
  <2>2. \A a \in hit : a \in Attempts /\ current[a] /\ p \in Changed(a)
    BY DEF Outdated
  <2>3. \A a \in hit : key(a) \notin readyEvents
    BY <1>a, <2>2 DEF ReplacementKeyFresh
  <2>4. \A a : key(a)[1] = a[1]
    OBVIOUS
  <2> HIDE DEF hit, key
  <2>5. CASE \E a \in hit : a[1] = m
    <3>1. PICK a \in hit : a[1] = m
      BY <2>5
    <3>2. \A b \in hit : b[1] = m => b = a
      BY <1>a, <2>2, <3>1 DEF OneCurrentDecision
    <3>3. EventsOf(m)' = EventsOf(m) \cup {key(a)}
      BY <2>1, <2>4, <3>1, <3>2 DEF EventsOf
    <3>4. ~ IsCurrent(m)'
      BY <1>a, <2>1, <2>2, <3>1 DEF IsCurrent, OneCurrentDecision
    <3>5. a \in Decided /\ mission[m] # "NONE"
      BY <1>d, <1>e, <2>2, <3>1 DEF Decided
    <3>6. mission'[m] = "READY"
      BY <2>1, <2>5
    <3> QED
      BY <2>2, <2>3, <2>4, <3>1, <3>3, <3>4, <3>5, <3>6 DEF Retires
  <2>6. CASE ~ \E a \in hit : a[1] = m
    <3>1. EventsOf(m)' = EventsOf(m)
      BY <2>1, <2>4, <2>6 DEF EventsOf
    <3>2. IsCurrent(m)' <=> IsCurrent(m)
      BY <2>1, <2>6 DEF IsCurrent
    <3>3. mission'[m] = mission[m]
      BY <2>1, <2>6
    <3> QED
      BY <3>1, <3>2, <3>3 DEF Quiet
  <2> QED
    BY <2>5, <2>6
<1>8. ASSUME \/ \E p \in Products, b \in Bundles : Activate(p, b)
             \/ \E a \in Attempts, w \in Owners : ClaimAndSnapshot(a, w)
             \/ \E l \in issued : FinalizeStale(l)
             \/ \E a \in Attempts : Approve(a) \/ Respond(a)
             \/ \E a \in Attempts, party \in Party, actor \in Actors, f \in Fields : Consent(a, party, actor, f)
             \/ Tick \/ UNCHANGED vars
      PROVE  Quiet(m)
  <2>1. UNCHANGED <<mission, readyEvents, current>>
    BY <1>8 DEF Activate, ClaimAndSnapshot, FinalizeStale, Approve, Respond, Consent, Tick, vars
  <2> QED
    BY <1>b, <2>1
<1> QED
  BY <1>1, <1>2, <1>3, <1>4, <1>5, <1>6, <1>7, <1>8 DEF Next, MarketNext

\* A mission gains an event only with its creation or with a retired decision.
LEMMA EventsStep ==
  ASSUME Inv, EventsCounted, [Next]_vars
  PROVE  EventsCounted'
<1> SUFFICES ASSUME NEW m \in Missions
             PROVE  /\ IsFiniteSet(EventsOf(m)')
                    /\ mission'[m] = "NONE" => EventsOf(m)' = {}
                    /\ Cardinality(EventsOf(m)') <= 1 + Cardinality(Retired(m)')
  BY DEF EventsCounted
<1> DEFINE E  == EventsOf(m)
           F  == EventsOf(m)'
           R  == Retired(m)
           RR == Retired(m)'
<1>1. /\ IsFiniteSet(E) /\ Cardinality(E) <= 1 + Cardinality(R) /\ (mission[m] = "NONE" => E = {})
  BY DEF EventsCounted
<1>2. R \subseteq RR
  BY DecidedStep DEF Retired, Decided, Inv
<1>3. IsFiniteSet(R) /\ IsFiniteSet(RR)
  <2>1. R \subseteq {a \in Attempts : a[1] = m} /\ RR \subseteq {a \in Attempts : a[1] = m}
    BY DEF Retired, Decided
  <2> HIDE DEF R, RR
  <2> QED
    BY <2>1, FiniteChain
<1>4. Quiet(m) \/ Created(m) \/ Retires(m)
  BY MissionEffect
<1>5. Retires(m) => \E a : a \notin R /\ a \in RR
  <2> SUFFICES ASSUME Retires(m) PROVE \E a : a \notin R /\ a \in RR
    OBVIOUS
  <2>1. PICK a \in Decided : a[1] = m /\ current[a]
    BY DEF Retires
  <2>2. ~ current'[a] /\ a \in Attempts
    BY <2>1 DEF Retires, IsCurrent, Decided
  <2>3. a \in Decided'
    BY <2>1, <2>2, DecidedStep DEF Inv
  <2> QED
    BY <2>1, <2>2, <2>3 DEF Retired
<1>6. Quiet(m) => F = E /\ (mission'[m] = "NONE" => mission[m] = "NONE")
  BY DEF Quiet
<1>7. Created(m) => mission'[m] # "NONE" /\ mission[m] = "NONE" /\ \E e : F = E \cup {e}
  BY DEF Created
<1>8. Retires(m) => mission'[m] # "NONE" /\ \E e : F = E \cup {e}
  BY DEF Retires
<1> HIDE DEF E, F, R, RR
<1>9. /\ Cardinality(E) \in Nat /\ Cardinality(R) \in Nat /\ Cardinality(RR) \in Nat
      /\ Cardinality(R) <= Cardinality(RR)
  BY <1>1, <1>2, <1>3, FS_CardinalityType, FS_Subset
<1>10. CASE Quiet(m)
  BY <1>1, <1>6, <1>9, <1>10 DEF E, F, R, RR
<1>11. ASSUME NEW e, F = E \cup {e}
       PROVE  IsFiniteSet(F) /\ Cardinality(F) <= Cardinality(E) + 1
  <2>1. IsFiniteSet(E)
    BY <1>1 DEF E
  <2>2. IsFiniteSet(E \cup {e}) /\ Cardinality(E \cup {e}) = IF e \in E THEN Cardinality(E) ELSE Cardinality(E) + 1
    BY <2>1, FS_AddElement
  <2> QED
    BY <1>9, <1>11, <2>2
<1>12. CASE Created(m)
  <2>1. Cardinality(E) = 0
    BY <1>1, <1>7, <1>12, FS_EmptySet
  <2>2. IsFiniteSet(F) /\ Cardinality(F) <= Cardinality(E) + 1
    BY <1>7, <1>11, <1>12
  <2>3. Cardinality(F) \in Nat
    BY <2>2, FS_CardinalityType
  <2>4. Cardinality(F) <= 1 + Cardinality(RR)
    BY <1>9, <2>1, <2>2, <2>3
  <2> QED
    BY <1>7, <1>12, <2>2, <2>4 DEF F, RR
<1>13. CASE Retires(m)
  <2>1. PICK a : a \notin R /\ a \in RR
    BY <1>5, <1>13
  <2>2. R \cup {a} \subseteq RR
    BY <1>2, <2>1
  <2>3. IsFiniteSet(R \cup {a}) /\ Cardinality(R \cup {a}) = Cardinality(R) + 1
    BY <1>3, <2>1, FS_AddElement
  <2>4. Cardinality(R \cup {a}) <= Cardinality(RR)
    BY <1>3, <2>2, FS_Subset
  <2>5. IsFiniteSet(F) /\ Cardinality(F) <= Cardinality(E) + 1
    BY <1>8, <1>11, <1>13
  <2>6. Cardinality(F) \in Nat
    BY <2>5, FS_CardinalityType
  <2>7. Cardinality(F) <= 1 + Cardinality(RR)
    BY <1>1, <1>9, <2>3, <2>4, <2>5, <2>6
  <2> QED
    BY <1>8, <1>13, <2>5, <2>7 DEF F, RR
<1> QED
  BY <1>4, <1>10, <1>12, <1>13

\* An event stays pending while its mission has no current decision: only a worker
\* that found or made one comes to record a receipt.
LEMMA PendingStep ==
  ASSUME SysInv, [SysNext]_allVars, NEW e, Pending(e),
         \A a \in Attempts : a[1] = e[1] => ~ current'[a]
  PROVE  Pending(e)'
<1> USE DEF queueVars, feedVars
<1>a. TypeOK /\ SysTables /\ DOMAIN worker = Owners
  BY DEF SysInv, Inv, SysTables
<1>b. [Next]_vars
  BY <1>a, KernelStep
<1>1. ASSUME NEW w \in Owners, WorkerActs(w) PROVE Pending(e)'
  <2>1. Advances(w)
    BY <1>a, <1>b, <1>1, WorkerAdvances
  <2>2. e \notin receipts'
    BY <2>1 DEF Advances, Pending
  <2>3. ASSUME NEW v \in Owners, At(v, "record")' PROVE worker'[v].event # e
    <3>1. CASE v = w
      BY <2>1, <2>3, <3>1 DEF Advances, At
    <3>2. CASE v # w
      BY <2>1, <2>3, <3>2 DEF Advances, OnlyWorker, At, Pending
    <3> QED
      BY <3>1, <3>2
  <2> QED
    BY <2>2, <2>3 DEF Pending
<1>2. ASSUME NEW w \in Owners, OnlyWorker(w), worker'[w].pc # "record", receipts' = receipts PROVE Pending(e)'
  BY <1>2 DEF OnlyWorker, At, Pending
<1>3. ASSUME NEW w \in Owners, NEW o \in Orgs, Receive(w, o) PROVE Pending(e)'
  <2> DEFINE r == [pc |-> "receipt", org |-> o, event |-> Head(queue[o]).event]
  <2>1. Go(w, r) /\ receipts' = receipts /\ r.pc = "receipt"
    BY <1>3 DEF Receive
  <2> QED
    BY <1>a, <1>2, <2>1, GoEffect
<1>4. ASSUME NEW w \in Owners, Delete(w) PROVE Pending(e)'
  <2>1. Go(w, Idle) /\ receipts' = receipts /\ Idle.pc = "idle"
    BY <1>4 DEF Delete, Idle
  <2> QED
    BY <1>a, <1>2, <2>1, GoEffect
<1>5. ASSUME \/ \E f : Publish(f) \/ MarkPublished(f)
             \/ \E o : VisibilityTimeout(o) \/ DeadLetter(o)
             \/ \E h : FeedReceive(h)
             \/ FeedApply \/ FeedRaise \/ FeedDelete \/ FeedFault
             \/ \E p, i : SysActivate(p, i)
             \/ Environment \/ UNCHANGED allVars
      PROVE  Pending(e)'
  <2>1. UNCHANGED <<receipts, worker>>
    BY <1>5 DEF Publish, MarkPublished, VisibilityTimeout, DeadLetter, FeedReceive, FeedApply, FeedRaise,
       FeedDelete, FeedFault, SysActivate, Environment, allVars, sysVars
  <2> QED
    BY <2>1 DEF Pending, At
<1> QED
  BY <1>1, <1>3, <1>4, <1>5 DEF SysNext, Progress, Dispatcher, WorkerStep, FeedStep, WorkerActs

\* A mission that loses its current decision, or is created, has a new event, and
\* nobody can have acknowledged that one.
LEMMA WorkStep ==
  ASSUME SysInv, [SysNext]_allVars
  PROVE  WorkIsPending'
<1>a. Inv /\ TypeOK /\ SysTables /\ WorkIsPending /\ EventsCounted
  BY DEF SysInv, Inv
<1>b. [Next]_vars
  BY <1>a, KernelStep
<1> SUFFICES ASSUME NEW m \in Missions
             PROVE  /\ mission'[m] = "READY" => ~ IsCurrent(m)'
                    /\ mission'[m] # "NONE" /\ ~ IsCurrent(m)' => \E e \in EventsOf(m)' : Pending(e)'
  BY DEF WorkIsPending
<1>1. Quiet(m) \/ Created(m) \/ Retires(m)
  BY <1>a, <1>b, MissionEffect
<1>2. mission'[m] = "READY" => ~ IsCurrent(m)'
  BY <1>a, <1>1 DEF Quiet, Created, Retires, WorkIsPending
<1>3. ASSUME NEW e, Pending(e), e[1] = m, ~ IsCurrent(m)' PROVE Pending(e)'
  <2>1. \A a \in Attempts : a[1] = e[1] => ~ current'[a]
    BY <1>3 DEF IsCurrent
  <2> QED
    BY <1>3, <2>1, PendingStep
<1>4. ASSUME NEW e, e \notin readyEvents PROVE Pending(e)
  <2>1. e \notin Sent
    BY <1>a, <1>4, SentIsReady
  <2>2. \A w \in Owners : At(w, "record") => worker[w].event \in Sent
    BY <1>a DEF SysTables, IsWorker, At
  <2> QED
    BY <1>a, <2>1, <2>2 DEF SysTables, Pending
<1>5. ASSUME mission'[m] # "NONE", ~ IsCurrent(m)' PROVE \E e \in EventsOf(m)' : Pending(e)'
  <2>1. CASE Quiet(m)
    <3>1. mission[m] # "NONE" /\ ~ IsCurrent(m) /\ EventsOf(m)' = EventsOf(m)
      BY <1>5, <2>1 DEF Quiet
    <3>2. PICK e \in EventsOf(m) : Pending(e)
      BY <1>a, <3>1 DEF WorkIsPending
    <3>3. e[1] = m
      BY <3>2 DEF EventsOf
    <3> QED
      BY <1>3, <1>5, <3>1, <3>2, <3>3
  <2>2. ASSUME NEW e, e \notin readyEvents, e[1] = m, EventsOf(m)' = EventsOf(m) \cup {e}
        PROVE  \E f \in EventsOf(m)' : Pending(f)'
    BY <1>3, <1>4, <1>5, <2>2
  <2>3. CASE Created(m)
    <3> DEFINE e == <<m, NoProduct, 0>>
    <3>1. e[1] = m
      OBVIOUS
    <3>2. EventsOf(m) = {} /\ EventsOf(m)' = EventsOf(m) \cup {e}
      BY <1>a, <2>3 DEF Created, EventsCounted
    <3> HIDE DEF e
    <3>3. e \notin readyEvents
      BY <3>1, <3>2 DEF EventsOf
    <3> QED
      BY <2>2, <3>1, <3>2, <3>3
  <2>4. CASE Retires(m)
    BY <2>2, <2>4 DEF Retires
  <2> QED
    BY <1>1, <2>1, <2>3, <2>4
<1> QED
  BY <1>2, <1>5

(***************************************************************************)
(* The theorems.                                                           *)
(***************************************************************************)
\* The system starts with the kernel's empty tables, empty queues and idle workers.
LEMMA SystemInit == SysInit => SysInv
<1> SUFFICES ASSUME SysInit PROVE SysInv
  OBVIOUS
<1>1. Inv
  BY InvInit DEF SysInit
<1>2. Sent = {}
  BY DEF SysInit, Sent
<1>3. DOMAIN worker = Owners /\ \A w \in Owners : worker[w].pc = "idle"
  BY DEF SysInit, Idle
<1>4. \A w \in Owners : IsWorker(w)
  BY <1>3 DEF IsWorker, PC
<1>5. SysTables
  <2>1. queue \in [Orgs -> Seq(MessageRow)] /\ \A o \in Orgs : queue[o] = <<>>
    BY DEF SysInit
  <2>2. holder \in [Orgs -> Owners \cup {NoOwner}]
    BY DEF SysInit
  <2>3. faults \in [worker: 0 .. MaxFaults, feed: 0 .. MaxFeedFaults]
    BY SystemAssumption DEF SysInit
  <2>4. \A o \in Orgs : DOMAIN queue[o] = {}
    BY <2>1
  <2> QED
    BY <1>3, <1>4, <2>1, <2>2, <2>3, <2>4 DEF SysInit, SysTables
<1>6. Delivery
  BY <1>2, <1>3 DEF Delivery, HeadIsHeld, DeletedIsReceived, SentIsSomewhere, Running, At
<1>7. ASSUME NEW m \in Missions PROVE EventsOf(m) = {} /\ mission[m] = "NONE"
  BY DEF SysInit, Init, EventsOf
<1>8. EventsCounted
  <2>1. ASSUME NEW m \in Missions PROVE IsFiniteSet(Retired(m))
    <3>1. Retired(m) \subseteq {a \in Attempts : a[1] = m}
      BY DEF Retired, Decided
    <3> QED
      BY <3>1, FiniteChain
  <2>2. ASSUME NEW m \in Missions PROVE Cardinality(EventsOf(m)) <= 1 + Cardinality(Retired(m))
    <3>1. Cardinality(EventsOf(m)) = 0 /\ Cardinality(Retired(m)) \in Nat
      BY <1>7, <2>1, FS_EmptySet, FS_CardinalityType
    <3> QED
      BY <3>1
  <2> QED
    BY <1>7, <2>2, FS_EmptySet DEF EventsCounted
<1>9. WorkIsPending
  BY <1>7 DEF WorkIsPending
<1> QED
  BY <1>1, <1>5, <1>6, <1>8, <1>9 DEF SysInv

\* Every step of a process keeps the invariant.
LEMMA SystemStep == SysInv /\ [SysNext]_allVars => SysInv'
<1> SUFFICES ASSUME SysInv, [SysNext]_allVars PROVE SysInv'
  OBVIOUS
<1>1. [Next]_vars
  BY KernelStep DEF SysInv
<1>2. Inv' /\ EventsCounted'
  BY <1>1, InvStep, EventsStep DEF SysInv
<1> QED
  BY <1>2, SysTypeStep, DeliveryStep, WorkStep DEF SysInv

\* The inductive invariant of the system.
THEOREM SystemInvariance == SysSpec => []SysInv
  BY SystemInit, SystemStep, PTL DEF SysSpec

\* The workers, the dispatcher and the change feed consumer drive the database
\* through the kernel's transactions only, with leases and candidate lists a caller
\* can hold: what is proved of the kernel is true of the running system.
THEOREM SystemTakesKernelSteps == SysSpec => Spec
<1>1. SysInit => Init
  BY DEF SysInit
<1>2. SysInv /\ [SysNext]_allVars => [Next]_vars
  BY KernelStep DEF SysInv
<1> QED
  BY <1>1, <1>2, SystemInvariance, PTL DEF SysSpec, Spec

\* Type correctness of the queues, the workers' program counters and the consumer.
THEOREM SystemTypeCorrect == SysSpec => []SysTypeOK
<1>1. SysInv => SysTypeOK
  <2> SUFFICES ASSUME SysInv PROVE SysTypeOK
    OBVIOUS
  <2>1. TypeOK /\ SysTables
    BY DEF SysInv, Inv
  <2>2. Sent \subseteq readyEvents
    BY <2>1, SentIsReady
  <2>3. \A o \in Orgs : queue[o] \in Seq([event : ReadyEvent, receives : Nat])
    BY <2>1 DEF SysTables, MessageRow
  <2>4. \A w \in Owners : worker[w].pc \in PC
    BY <2>1 DEF SysTables, IsWorker
  <2>5. feed = Idle \/ feed.next \in 1 .. Len(OrgSeq) + 1
    BY <2>1 DEF SysTables, IsFeed
  <2> QED
    BY <2>1, <2>2, <2>3, <2>4, <2>5 DEF SysTypeOK, SysTables, Sent
<1> QED
  BY <1>1, SystemInvariance, PTL

\* No duplicate, timeout, raise, death or dead letter makes the system forget a READY
\* mission: an event nobody acknowledged is in the outbox, queued or dead-lettered.
THEOREM WakeupsAreKept == SysSpec => []NoLostWakeup
<1>1. SysInv => NoLostWakeup
  <2> SUFFICES ASSUME SysInv, NEW m \in Missions, mission[m] = "READY"
               PROVE  \E e \in readyEvents : /\ e[1] = m /\ e \notin receipts
                                             /\ e \notin published \/ InQueue(e) \/ e \in dead
    BY DEF NoLostWakeup
  <2>1. PICK e \in EventsOf(m) : Pending(e)
    BY DEF SysInv, WorkIsPending
  <2>2. e \in readyEvents /\ e[1] = m /\ e \notin receipts
    BY <2>1 DEF EventsOf, Pending
  <2>3. e \in published => InQueue(e) \/ e \in dead
    BY <2>2 DEF SysInv, SysTables, Delivery, SentIsSomewhere
  <2> QED
    BY <2>2, <2>3
<1> QED
  BY <1>1, SystemInvariance, PTL

\* However often a message is redelivered and its worker fails, a mission never has
\* more acknowledged events than decisions.
THEOREM ReceiptsAreBacked == SysSpec => []ReceiptsBacked
<1>1. SysInv => ReceiptsBacked
  <2> SUFFICES ASSUME SysInv, NEW m \in Missions
               PROVE  Cardinality({e \in receipts : e[1] = m}) <= Cardinality({a \in Decided : a[1] = m})
    BY DEF ReceiptsBacked
  <2> DEFINE A == {e \in receipts : e[1] = m}
             D == {a \in Decided : a[1] = m}
             E == EventsOf(m)
             R == Retired(m)
  <2>1. IsFiniteSet(E) /\ Cardinality(E) <= 1 + Cardinality(R) /\ (mission[m] = "NONE" => E = {})
    BY DEF SysInv, EventsCounted
  <2>2. A \subseteq E
    BY SentIsReady DEF SysInv, Inv, SysTables, EventsOf
  <2>3. R \subseteq D
    BY DEF Retired
  <2>4. IsFiniteSet(D)
    <3>1. D \subseteq {a \in Attempts : a[1] = m}
      BY DEF Decided
    <3> HIDE DEF D
    <3> QED
      BY <3>1, FiniteChain
  <2>5. IsCurrent(m) => \E a \in D : a \notin R
    BY DEF IsCurrent, Retired, SysInv, Inv, DecisionRows, Decided
  <2>6. mission[m] # "NONE" /\ ~ IsCurrent(m) => \E e \in E : e \notin A
    BY DEF SysInv, WorkIsPending, Pending
  <2> HIDE DEF A, D, E, R
  <2>7. /\ IsFiniteSet(A) /\ IsFiniteSet(R) /\ Cardinality(A) <= Cardinality(E) /\ Cardinality(R) <= Cardinality(D)
    BY <2>1, <2>2, <2>3, <2>4, FS_Subset
  <2>8. Cardinality(A) \in Nat /\ Cardinality(D) \in Nat /\ Cardinality(E) \in Nat /\ Cardinality(R) \in Nat
    BY <2>1, <2>4, <2>7, FS_CardinalityType
  <2>9. CASE IsCurrent(m)
    <3>1. PICK a \in D : a \notin R
      BY <2>5, <2>9
    <3>2. Cardinality(R) # Cardinality(D)
      BY <2>3, <2>4, <3>1, FS_Subset
    <3> QED
      BY <2>1, <2>7, <2>8, <3>2 DEF A, D
  <2>10. CASE mission[m] # "NONE" /\ ~ IsCurrent(m)
    <3>1. PICK e \in E : e \notin A
      BY <2>6, <2>10
    <3>2. Cardinality(A) # Cardinality(E)
      BY <2>1, <2>2, <3>1, FS_Subset
    <3> QED
      BY <2>1, <2>7, <2>8, <3>2 DEF A, D
  <2>11. CASE mission[m] = "NONE"
    <3>1. Cardinality(A) = 0
      BY <2>1, <2>2, <2>11, FS_EmptySet
    <3> QED
      BY <2>8, <3>1 DEF A, D
  <2> QED
    BY <2>9, <2>10, <2>11
<1> QED
  BY <1>1, SystemInvariance, PTL
==============================================================================
