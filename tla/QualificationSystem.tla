------------------------ MODULE QualificationSystem ------------------------
(***************************************************************************)
(* The processes around the correctness kernel: the outbox dispatcher, the *)
(* qualification workers that take mission events from an SQS FIFO queue,  *)
(* and the change feed consumer that turns catalog changes into            *)
(* invalidations.  Every step that changes the database is an action of    *)
(* QualificationKernel; this module adds who takes it, when, and with      *)
(* which locally remembered data.                                          *)
(*                                                                         *)
(* Between two transactions a worker remembers the candidate list it read  *)
(* and the lease it was given.  It may raise (a model call, an SQL retry   *)
(* error), which the run loop logs and leaves to redelivery, or its        *)
(* process may die; a new process has a new lease_owner.                   *)
(***************************************************************************)
EXTENDS QualificationKernel, Sequences, FiniteSets

CONSTANTS
  OrgSeq,       \* the organizations in id order, as the consumers visit them
  MaxReceive,   \* maxReceiveCount of both queues (5 in the stack)
  MaxSends,     \* bound: publications of one outbox event
  MaxFaults,    \* bound: exceptions from outside, in the workers
  MaxFeedFaults, \* bound: the same, in the change feed consumer
  BundleSeq,    \* the bundles in the order a product's are activated: a bundle
                \* is one among alike ones until then, so the order is no bound
  MaxRounds,    \* run_mission tries this many attempts (4 in the code)
  SlowWorkers   \* may a message become visible while its worker still runs?

ASSUME SystemAssumption ==
  /\ OrgSeq \in Seq(Orgs)
  /\ \A o \in Orgs : \E i \in 1 .. Len(OrgSeq) : OrgSeq[i] = o
  /\ MaxReceive \in Nat /\ MaxSends \in Nat /\ MaxFaults \in Nat /\ MaxFeedFaults \in Nat
  /\ BundleSeq \in Seq(Bundles) /\ MaxRounds \in Nat
  /\ SlowWorkers \in BOOLEAN

VARIABLES
  queue,     \* the qualification queue: per organization (message group) a
             \* sequence of [event, receives]
  holder,    \* the worker that received the head of a group, NoOwner when visible
  dead,      \* events in the dead letter queue
  sends,     \* <<event, k>>: the event was published k times
  published, \* events whose outbox row has published_at set
  receipts,  \* ConsumerReceipt rows of qualification-worker-v1
  worker,    \* the local state of each worker process
  hints,     \* the change feed queue: [product, generation, receives]
  feed,      \* the change feed consumer: its hint and the next organization
  faults     \* exceptions from outside so far

queueVars == <<queue, holder, dead>>
feedVars  == <<hints, feed>>
sysVars   == <<queueVars, sends, published, receipts, worker, feedVars, faults>>
allVars   == <<vars, sysVars>>

PC == {"idle", "gone", "receipt", "completed", "load", "retrieve", "prepare",
       "claim", "evaluate", "record", "delete"}

Hint == [product : Products, generation : Nat, receives : Nat]
Idle == [pc |-> "idle"]

SysTypeOK ==
  /\ TypeOK
  /\ \A o \in Orgs : queue[o] \in Seq([event : ReadyEvent, receives : Nat])
  /\ holder \in [Orgs -> Owners \cup {NoOwner}]
  /\ dead \subseteq readyEvents
  /\ sends \subseteq readyEvents \X (1 .. MaxSends)
  /\ published \subseteq readyEvents
  /\ receipts \subseteq published \cup {s[1] : s \in sends}
  /\ \A w \in Owners : worker[w].pc \in PC
  /\ hints \subseteq Hint
  /\ feed = Idle \/ feed.next \in 1 .. Len(OrgSeq) + 1
  /\ faults \in [worker: 0 .. MaxFaults, feed: 0 .. MaxFeedFaults]

SysInit ==
  /\ Init
  /\ queue = [o \in Orgs |-> <<>>]
  /\ holder = [o \in Orgs |-> NoOwner]
  /\ dead = {}
  /\ sends = {}
  /\ published = {}
  /\ receipts = {}
  /\ worker = [w \in Owners |-> Idle]
  /\ hints = {}
  /\ feed = Idle
  /\ faults = [worker |-> 0, feed |-> 0]

OrgOfEvent(e) == OrgOf[e[1]]

(***************************************************************************)
(* The outbox dispatcher.                                                  *)
(***************************************************************************)
SendCount(e) == Cardinality({k \in 1 .. MaxSends : <<e, k>> \in sends})

\* dispatch_batch sends an unpublished event.  A dispatcher that died before
\* marking, or a second one that loaded the row before it was marked, sends it
\* again; SQS drops the copy within the deduplication window, delivers it after.
Publish(e) ==
  LET k == SendCount(e)
      o == OrgOfEvent(e)
  IN  /\ e \notin published \/ k > 0
      /\ k < MaxSends
      /\ sends' = sends \cup {<<e, k + 1>>}
      /\ \/ queue' = [queue EXCEPT ![o] = Append(@, [event |-> e, receives |-> 0])]
         \/ k > 0 /\ UNCHANGED queue
      /\ UNCHANGED <<vars, holder, dead, published, receipts, worker, feedVars, faults>>

\* mark_published, after the send was acknowledged.
MarkPublished(e) ==
  /\ e \notin published
  /\ SendCount(e) > 0
  /\ published' = published \cup {e}
  /\ UNCHANGED <<vars, queueVars, sends, receipts, worker, feedVars, faults>>

(***************************************************************************)
(* SQS, from how the consumer uses it: at-least-once, FIFO per group, a    *)
(* group blocked while its head is in flight.                              *)
(***************************************************************************)
Running(w) == worker[w].pc \notin {"idle", "gone"}

\* The visibility timeout (900 s) returns a message nobody deleted.
VisibilityTimeout(o) ==
  /\ holder[o] # NoOwner
  /\ SlowWorkers \/ ~(Running(holder[o]) /\ worker[holder[o]].org = o)
  /\ holder' = [holder EXCEPT ![o] = NoOwner]
  /\ UNCHANGED <<vars, queue, dead, sends, published, receipts, worker, feedVars, faults>>

\* A message received maxReceiveCount times goes to the dead letter queue.
DeadLetter(o) ==
  /\ queue[o] # <<>> /\ holder[o] = NoOwner
  /\ Head(queue[o]).receives >= MaxReceive
  /\ dead' = dead \cup {Head(queue[o]).event}
  /\ queue' = [queue EXCEPT ![o] = Tail(@)]
  /\ UNCHANGED <<vars, holder, sends, published, receipts, worker, feedVars, faults>>

(***************************************************************************)
(* A qualification worker.  worker[w] is a record whose fields grow with   *)
(* the program counter: org and event of the message, round and sel of     *)
(* run_mission, the attempt and the generation of the lease.               *)
(***************************************************************************)
Go(w, rec) == worker' = [worker EXCEPT ![w] = rec]
At(w, pc)  == worker[w].pc = pc
Message(w, pc) == [pc |-> pc, org |-> worker[w].org, event |-> worker[w].event]
Round(w, pc, n) == [pc |-> pc, org |-> worker[w].org, event |-> worker[w].event, round |-> n]
With(rec, field, value) == [f \in DOMAIN rec \cup {field} |-> IF f = field THEN value ELSE rec[f]]

workerOnly == <<queueVars, sends, published, feedVars, faults>>

\* poll_once receives the head of some group.
Receive(w, o) ==
  /\ At(w, "idle")
  /\ queue[o] # <<>> /\ holder[o] = NoOwner
  /\ Head(queue[o]).receives < MaxReceive
  /\ queue' = [queue EXCEPT ![o][1].receives = @ + 1]
  /\ holder' = [holder EXCEPT ![o] = w]
  /\ Go(w, [pc |-> "receipt", org |-> o, event |-> Head(queue[o]).event])
  /\ UNCHANGED <<vars, dead, sends, published, receipts, feedVars, faults>>

\* _receipt: a message that was handled before is only deleted.
CheckReceipt(w) ==
  /\ At(w, "receipt")
  /\ Go(w, Message(w, IF worker[w].event \in receipts THEN "delete" ELSE "completed"))
  /\ UNCHANGED <<vars, receipts, workerOnly>>

\* _completed_result: a COMPLETED mission with a current decision needs no run.
CheckCompleted(w) ==
  LET m == worker[w].event[1]
  IN  /\ At(w, "completed")
      /\ Go(w, IF mission[m] = "COMPLETED" /\ \E a \in Attempts : a[1] = m /\ current[a]
               THEN Message(w, "record") ELSE Round(w, "load", 1))
      /\ UNCHANGED <<vars, receipts, workerOnly>>

\* run_mission, one round: _load_mission refuses a COMPLETED mission.
Load(w) ==
  /\ At(w, "load")
  /\ mission[worker[w].event[1]] # "COMPLETED"
  /\ Go(w, Round(w, "retrieve", worker[w].round))
  /\ UNCHANGED <<vars, receipts, workerOnly>>

\* retrieve_qualification_candidates and _unique_products: the active bundles of
\* one candidate set.
ActiveSelection(S) == [p \in Products |-> IF p \in S THEN active[p] ELSE NoBundle]

Retrieve(w) ==
  /\ At(w, "retrieve")
  /\ \E S \in CandidateSets :
       /\ \A p \in S : active[p] # NoBundle
       /\ Go(w, With(Round(w, "prepare", worker[w].round), "sel", ActiveSelection(S)))
  /\ UNCHANGED <<vars, receipts, workerOnly>>

WorkerPrepare(w) ==
  /\ At(w, "prepare")
  /\ \E a \in Attempts :
       /\ a[1] = worker[w].event[1]
       /\ Prepare(a, worker[w].sel)
       /\ Go(w, With([worker[w] EXCEPT !.pc = "claim"], "attempt", a))
  /\ UNCHANGED <<receipts, workerOnly>>

WorkerClaim(w) ==
  /\ At(w, "claim")
  /\ ClaimAndSnapshot(worker[w].attempt, w)
  /\ Go(w, With([worker[w] EXCEPT !.pc = "evaluate"],
                "generation", lease[worker[w].attempt].generation + 1))
  /\ UNCHANGED <<receipts, workerOnly>>

\* _evaluate, the model calls outside any transaction.  The model must look at
\* every candidate of the list, and _evidence_for_product knows only the bundles
\* pinned to the attempt, which no longer change.
Evaluable(w) ==
  \A p \in Products : worker[w].sel[p] # NoBundle => pins[worker[w].attempt][p] # NoBundle

LeaseOf(w) == [attempt |-> worker[w].attempt, generation |-> worker[w].generation, owner |-> w]

\* Mutant of WorkerStale: a stale run counts as a result and is acknowledged.
StaleIsResult(w) ==
  /\ At(w, "evaluate") /\ Evaluable(w)
  /\ FinalizeStale(LeaseOf(w))
  /\ Go(w, Message(w, "record"))
  /\ UNCHANGED <<receipts, workerOnly>>

\* _finalize with a decision ends the run; STALE starts the next round on the
\* replacement.
WorkerDecide(w) ==
  /\ At(w, "evaluate") /\ Evaluable(w)
  /\ \E p \in Products : worker[w].sel[p] # NoBundle /\ FinalizeDecision(LeaseOf(w), p)
  /\ Go(w, Message(w, "record"))
  /\ UNCHANGED <<receipts, workerOnly>>

WorkerStale(w) ==
  /\ At(w, "evaluate") /\ Evaluable(w)
  /\ FinalizeStale(LeaseOf(w))
  /\ Go(w, IF worker[w].round < MaxRounds THEN Round(w, "load", worker[w].round + 1) ELSE Idle)
  /\ UNCHANGED <<receipts, workerOnly>>

\* _record_receipt.
Record(w) ==
  /\ At(w, "record")
  /\ receipts' = receipts \cup {worker[w].event}
  /\ Go(w, Message(w, "delete"))
  /\ UNCHANGED <<vars, workerOnly>>

\* delete_message removes the message if this receive of it is still the last.
Delete(w) ==
  LET o == worker[w].org
  IN  /\ At(w, "delete")
      /\ IF holder[o] = w
         THEN /\ queue' = [queue EXCEPT ![o] = Tail(@)]
              /\ holder' = [holder EXCEPT ![o] = NoOwner]
         ELSE UNCHANGED <<queue, holder>>
      /\ Go(w, Idle)
      /\ UNCHANGED <<vars, dead, sends, published, receipts, feedVars, faults>>

\* The exceptions the code itself raises: a COMPLETED mission, too few
\* candidates, no claimable attempt, a lease held by another, a product that is
\* not pinned, a lost fence, an exhausted chain.
MustRaise(w) ==
  LET rec == worker[w]
  IN  \/ At(w, "load") /\ mission[rec.event[1]] = "COMPLETED"
      \/ At(w, "retrieve") /\ \A S \in CandidateSets : \E p \in S : active[p] = NoBundle
      \/ At(w, "prepare") /\ ~ \E a \in Attempts : a[1] = rec.event[1] /\ Claimable(a)
      \/ At(w, "claim") /\ ~ CanClaim(rec.attempt, w)
      \/ At(w, "evaluate") /\ \/ ~ Evaluable(w)
                              \/ ~ Fenced(LeaseOf(w), {"SNAPSHOT_COMPLETE"})
                              \/ Changed(rec.attempt) # {} /\ rec.attempt[2] >= MaxDepth

\* Mutants of Raise: the message is deleted although its run failed; the worker
\* never polls again.
RaiseAndDelete(w) ==
  /\ MustRaise(w)
  /\ Go(w, Message(w, "delete"))
  /\ UNCHANGED <<vars, receipts, workerOnly>>

RaiseAndStop(w) ==
  /\ MustRaise(w)
  /\ Go(w, [pc |-> "failed"])
  /\ UNCHANGED <<vars, receipts, workerOnly>>

\* The run loop logs the exception and polls again; the message stays invisible.
Raise(w) ==
  /\ MustRaise(w)
  /\ Go(w, Idle)
  /\ UNCHANGED <<vars, receipts, workerOnly>>

\* An exception from outside: a model call, a queue call, an SQL error 40001
\* (the worker's transactions are not retried).
Fault(w) ==
  /\ Running(w)
  /\ faults.worker < MaxFaults
  /\ faults' = [faults EXCEPT !.worker = @ + 1]
  /\ Go(w, Idle)
  /\ UNCHANGED <<vars, queueVars, sends, published, receipts, feedVars>>

\* The process dies.  Its lease_owner never returns; another worker is left.
Die(w) ==
  /\ worker[w].pc # "gone"
  /\ \E v \in Owners \ {w} : worker[v].pc # "gone"
  /\ Go(w, [pc |-> "gone"])
  /\ UNCHANGED <<vars, receipts, workerOnly>>

(***************************************************************************)
(* The change feed and its consumer.                                       *)
(***************************************************************************)
\* An activation commits; the change feed, the bridge and the queue carry a hint
\* that names the product and nothing else the consumer trusts.
SysActivate(p, i) ==
  /\ \A j \in 1 .. (i - 1) : bundleState[p][BundleSeq[j]] # "READY"
  /\ Activate(p, BundleSeq[i])
  /\ hints' = hints \cup {[product |-> p, generation |-> pointerGen[p] + 1, receives |-> 0]}
  /\ UNCHANGED <<queueVars, sends, published, receipts, worker, feed, faults>>

\* Mutant of FeedReceive: the hint is deleted when it is received.
ReceiveAndDelete(h) ==
  /\ feed = Idle
  /\ hints' = hints \ {h}
  /\ feed' = [pc |-> "apply", hint |-> h, next |-> 1]
  /\ UNCHANGED <<vars, queueVars, sends, published, receipts, worker, faults>>

\* poll_once receives a hint (a hint whose processing failed comes back).
FeedReceive(h) ==
  LET again == [h EXCEPT !.receives = @ + 1]
  IN  /\ feed = Idle
      /\ h.receives < MaxReceive
      /\ hints' = (hints \ {h}) \cup {again}
      /\ feed' = [pc |-> "apply", hint |-> again, next |-> 1]
      /\ UNCHANGED <<vars, queueVars, sends, published, receipts, worker, faults>>

FeedOrg == OrgSeq[feed.next]

\* One organization of process: re-read the pointer, retire its outdated decisions.
FeedApply ==
  /\ feed # Idle /\ feed.next <= Len(OrgSeq)
  /\ \/ Invalidate(FeedOrg, feed.hint.product)
     \/ Outdated(FeedOrg, feed.hint.product) = {} /\ UNCHANGED vars
  /\ feed' = [feed EXCEPT !.next = @ + 1]
  /\ UNCHANGED <<queueVars, sends, published, receipts, worker, hints, faults>>

\* A decision at the end of its chain: the exception ends process, the
\* organizations that come later are not visited, the hint stays in the queue.
FeedRaise ==
  /\ feed # Idle /\ feed.next <= Len(OrgSeq)
  /\ \E a \in Outdated(FeedOrg, feed.hint.product) : a[2] >= MaxDepth
  /\ feed' = Idle
  /\ UNCHANGED <<vars, queueVars, sends, published, receipts, worker, hints, faults>>

FeedDelete ==
  /\ feed # Idle /\ feed.next > Len(OrgSeq)
  /\ hints' = hints \ {feed.hint}
  /\ feed' = Idle
  /\ UNCHANGED <<vars, queueVars, sends, published, receipts, worker, faults>>

\* The consumer raises or dies between two organizations.
FeedFault ==
  /\ feed # Idle
  /\ faults.feed < MaxFeedFaults
  /\ faults' = [faults EXCEPT !.feed = @ + 1]
  /\ feed' = Idle
  /\ UNCHANGED <<vars, queueVars, sends, published, receipts, worker, hints>>

(***************************************************************************)
(* The whole system.                                                       *)
(***************************************************************************)
Dispatcher == \E e \in readyEvents : Publish(e) \/ MarkPublished(e)

WorkerStep(w) ==
  \/ CheckReceipt(w) \/ CheckCompleted(w)
  \/ Load(w) \/ Retrieve(w) \/ WorkerPrepare(w) \/ WorkerClaim(w)
  \/ WorkerDecide(w) \/ WorkerStale(w)
  \/ Record(w) \/ Delete(w) \/ Raise(w)

FeedStep == (\E h \in hints : FeedReceive(h)) \/ FeedApply \/ FeedRaise \/ FeedDelete

\* Buyers, sellers and time.
Environment ==
  /\ (\E m \in Missions : CreateMission(m)) \/ MarketNext \/ Tick
  /\ UNCHANGED sysVars

\* The loops of the dispatcher, the workers and the consumer, and the queues.
Progress ==
  \/ Dispatcher
  \/ \E o \in Orgs : VisibilityTimeout(o) \/ DeadLetter(o)
  \/ \E w \in Owners, o \in Orgs : Receive(w, o)
  \/ \E w \in Owners : WorkerStep(w)
  \/ FeedStep

SysNext ==
  \/ Progress
  \/ \E w \in Owners : Fault(w) \/ Die(w)
  \/ FeedFault
  \/ \E p \in Products, i \in DOMAIN BundleSeq : SysActivate(p, i)
  \/ Environment

\* While some loop has something to do, one of them does it: the loops have no
\* exit, the queues deliver, and the platform restarts what died.  Nothing is asked
\* of which one comes first; buyers, sellers, faults and time owe nothing.
Fairness == WF_allVars(Progress)

SysSpec == SysInit /\ [][SysNext]_allVars
FairSpec == SysSpec /\ Fairness

(***************************************************************************)
(* Properties.                                                             *)
(***************************************************************************)
InQueue(e) == \E i \in 1 .. Len(queue[OrgOfEvent(e)]) : queue[OrgOfEvent(e)][i].event = e

\* A READY mission is never forgotten: some event of it that no worker has
\* acknowledged is still in the outbox, in the queue or in the dead letter queue,
\* whatever was sent twice, timed out, or raised on the way.
NoLostWakeup ==
  \A m \in Missions : mission[m] = "READY" =>
    \E e \in readyEvents : /\ e[1] = m
                           /\ e \notin receipts
                           /\ e \notin published \/ InQueue(e) \/ e \in dead

\* A receipt is written only for work that was done: a mission never has more
\* acknowledged events (its creation, and one for each retired decision) than it
\* has decisions.
ReceiptsBacked ==
  \A m \in Missions :
    Cardinality({e \in receipts : e[1] = m}) <= Cardinality({a \in Decided : a[1] = m})

\* Under a fair scheduler a mission that is ready or running gets a decision, or
\* one of its events ends where an operator finds it, the dead letter queue.
DecidedOrDeadLettered ==
  \A m \in Missions : mission[m] \in {"READY", "RUNNING"} ~>
    \/ mission[m] \in {"AWAITING_APPROVAL", "COMPLETED"}
    \/ \E e \in dead : e[1] = m

\* A current decision the catalog has moved past.
IsOutdated(a) == current[a] /\ Changed(a) # {}

\* Under a fair scheduler, and with fewer faults than a hint survives, an outdated
\* decision is retired; only a chain that is exhausted can prevent it.
OutdatedIsRetired ==
  \A a \in Attempts : IsOutdated(a) ~>
    ~ IsOutdated(a) \/ \E b \in Attempts : b[2] = MaxDepth /\ IsOutdated(b)

\* Under a fair scheduler a retired decision is replaced: the attempt queued for it
\* is worked off, or an event of the mission ends in the dead letter queue.
RetiredIsReplaced ==
  \A a \in {b \in Attempts : b[2] < MaxDepth} : (a \in Decided /\ ~ current[a]) ~>
    attState[Succ(a)] \in {"STALE", "COMPLETED"} \/ \E e \in dead : e[1] = a[1]

\* OPERATIONS.md: when a worker is stopped in mid-run "the standby claims a larger
\* fencing token and resumes".  So a mission whose run was interrupted is decided
\* in the end.
InterruptedMissionResumes ==
  \A m \in Missions : mission[m] = "RUNNING" ~> mission[m] \in {"AWAITING_APPROVAL", "COMPLETED"}

\* architecture.md: an activation "invalidates stale current decisions and
\* schedules one replacement", for every buyer whose decision it outdates.
EveryOutdatedIsRetired ==
  \A a \in Attempts : IsOutdated(a) ~> ~ IsOutdated(a)
=============================================================================
