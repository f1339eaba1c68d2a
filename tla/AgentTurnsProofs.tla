-------------------------- MODULE AgentTurnsProofs --------------------------
(***************************************************************************)
(* Theorems of AgentTurns, for any number of handlers, turns, tool calls,  *)
(* retries and cancellations, and every experiment budget.                 *)
(***************************************************************************)
EXTENDS AgentTurns, FiniteSetTheorems, TLAPS

(***************************************************************************)
(* The inductive invariant.                                                *)
(***************************************************************************)
ProcFields == {"turn", "at", "context", "duplicate", "calls", "batch", "observed", "done",
               "result", "engine"}
RunFields == {"status", "version", "context", "checkpoint"}
Stages == {"CAPTURE", "BIND", "DECIDE", "AUTHORIZE", "EXECUTE", "FAIL_TOOL", "FINISH", "PERSIST"}
Answered == {"COMPLETED", "WAITING", "FAILED"}
MissionRow == [state: MissionStates, version: Nat, remaining: Nat]
EventTypes == {"mission.created", "user.message", "agent.accepted", "assistant.message",
               "agent.tool.completed", "experiment.planned", "experiment.started",
               "experiment.finished"}
Messages == Turns \cup Specs \cup Answered \cup Terminal \cup {"received", "used"}
EventRow == [type: EventTypes, key: Turns \cup Specs, message: Messages]
ExperimentStates == {"NONE", "RUNNING"} \cup Terminal

\* What a handler holds: a batch while it executes tools, a result afterwards.
IsHandler(p) ==
  /\ DOMAIN p = ProcFields
  /\ p.turn \in Turns
  /\ p.at \in Stages
  /\ p.context # NoContext
  /\ p.batch \in Seq(Calls)
  /\ p.at \in {"AUTHORIZE", "EXECUTE", "FAIL_TOOL"} => p.batch # <<>>
  /\ p.at \in {"FINISH", "PERSIST"} => p.result \in Answered
  /\ p.at = "CAPTURE" => p.duplicate = FALSE
  /\ IsFiniteSet(p.done) /\ p.done \subseteq Calls

IsRun(r) == DOMAIN r = RunFields /\ r.status \in RunStatuses

Handled == DOMAIN procs = Handlers /\ \A h \in Handlers : procs[h] = Idle \/ IsHandler(procs[h])

Tables ==
  /\ Handled
  /\ mission = NoMission \/ mission \in MissionRow
  /\ journal \in Seq(EventRow)
  /\ DOMAIN runs = Turns /\ \A t \in Turns : runs[t] = NoRun \/ IsRun(runs[t])
  /\ steps \in [Turns -> Seq(StepKinds)]
  /\ notices \in [Turns -> Seq(NoticeKinds)]
  /\ tools \in [Turns -> [Calls -> ToolRow]]
  /\ experiments \in [Specs -> ExperimentStates]

\* A handler past its first transaction has a run, past its second a bound
\* context; only a run with a context can have ended.
RunsAreBound ==
  /\ \A t \in Turns : runs[t] # NoRun /\ runs[t].status \in Ended => runs[t].context # NoContext
  /\ \A h \in Handlers : procs[h] # Idle =>
       /\ procs[h].at # "CAPTURE" => runs[procs[h].turn] # NoRun
       /\ procs[h].at \notin {"CAPTURE", "BIND"} => runs[procs[h].turn].context # NoContext

Answers(j, t) == {i \in DOMAIN j : j[i].type = "assistant.message" /\ j[i].key = t}
Asked(j, t) == {i \in DOMAIN j : j[i].type = "user.message" /\ j[i].key = t}

\* The first handler of a turn, past its first transaction.
Answering(h, t) ==
  procs[h] # Idle /\ procs[h].turn = t /\ ~procs[h].duplicate /\ procs[h].at # "CAPTURE"

\* One message and at most one answer of a turn, in this order.
JournalIsOrdered ==
  \A t \in Turns :
    /\ \A i, j \in Asked(journal, t) : i = j
    /\ \A i, j \in Answers(journal, t) : i = j
    /\ \A i \in Answers(journal, t) : \E j \in Asked(journal, t) : j < i

\* A turn with a run and no answer has its first handler, or lost it.
AnswerIsDue ==
  \A t \in Turns : runs[t] # NoRun /\ Answers(journal, t) = {} =>
    t \in abandoned \/ \E h \in Handlers : Answering(h, t)

\* Who works on a turn has the user's message in the journal of a mission.
WorkIsAsked ==
  /\ mission = NoMission => journal = <<>>
  /\ \A h \in Handlers : procs[h] # Idle => mission # NoMission /\ Asked(journal, procs[h].turn) # {}

JournalInv == WorkIsAsked /\ JournalIsOrdered /\ AnswerIsDue

Planned == {s \in Specs : experiments[s] # "NONE"}

\* The budget before the first message, and whose experiment is whose.
LabInv ==
  /\ IsFiniteSet(Planned)
  /\ mission = NoMission => Planned = {}
  /\ coordinator \cap orphaned = {}
  /\ ExperimentsAccounted

Inv == Tables /\ RunsAreBound /\ JournalInv /\ ObservationsAreRecorded /\ LabInv

(***************************************************************************)
(* What a handler writes into its own row.                                 *)
(***************************************************************************)
\* Only the row of h changes, and of it only these fields.
OnlyRow(h) == DOMAIN procs' = Handlers /\ \A g \in Handlers : g # h => procs'[g] = procs[g]
OnlyFields(h, fields) ==
  /\ OnlyRow(h)
  /\ DOMAIN procs'[h] = ProcFields
  /\ \A f \in ProcFields \ fields : procs'[h][f] = procs[h][f]

\* A row is not an empty cell.
LEMMA RowsAreNotEmpty ==
  /\ \A p : DOMAIN p = ProcFields => p # Idle
  /\ \A r : DOMAIN r = RunFields => r # NoRun
  /\ \A m, j, t : Context(m, j, t) # NoContext
<1>1. \A p : DOMAIN p = ProcFields => p # Idle
  BY DEF ProcFields, Idle
<1>2. \A r : DOMAIN r = RunFields => r # NoRun
  BY DEF RunFields, NoRun
<1>3. \A a, b, c, d : [state |-> a, version |-> b, artifacts |-> c, heard |-> d] # <<>>
  OBVIOUS
<1>4. \A m, j, t : Context(m, j, t) # NoContext
  BY <1>3, Zenon DEF Context, NoContext
<1> QED
  BY <1>1, <1>2, <1>4

\* A handler goes on to another stage.
LEMMA AtEffect ==
  ASSUME NEW h \in Handlers, NEW stage, DOMAIN procs = Handlers, DOMAIN procs[h] = ProcFields,
         At(h, stage)
  PROVE  OnlyFields(h, {"at"}) /\ procs'[h].at = stage
  BY DEF At, OnlyFields, OnlyRow, ProcFields

\* The engine answers for the model.
LEMMA FailsEffect ==
  ASSUME NEW h \in Handlers, DOMAIN procs = Handlers, DOMAIN procs[h] = ProcFields, Fails(h)
  PROVE  /\ OnlyFields(h, {"at", "result", "engine"})
         /\ procs'[h].at = "FINISH" /\ procs'[h].result = "FAILED"
  BY DEF Fails, OnlyFields, OnlyRow, ProcFields

\* A handler that ends leaves its row, and its turn to nobody if it was the first.
LEMMA EndsEffect ==
  ASSUME NEW h \in Handlers, DOMAIN procs = Handlers, Ends(h)
  PROVE  OnlyRow(h) /\ procs'[h] = Idle
  BY DEF Ends, OnlyRow

\* A handler whose row is emptied leaves the other rows alone.
LEMMA IdleEffect ==
  ASSUME NEW h \in Handlers, DOMAIN procs = Handlers, procs' = [procs EXCEPT ![h] = Idle]
  PROVE  OnlyRow(h) /\ procs'[h] = Idle
  BY DEF OnlyRow

\* The model's answer is held until the run is finished.
LEMMA AnswerEffect ==
  ASSUME NEW h \in Handlers, NEW status, DOMAIN procs = Handlers, DOMAIN procs[h] = ProcFields,
         DecideAnswer(h, status)
  PROVE  /\ OnlyFields(h, {"at", "result"})
         /\ procs'[h].at = "FINISH" /\ procs'[h].result = status
  BY DEF DecideAnswer, OnlyFields, OnlyRow, ProcFields

\* So is its batch until the tools are executed.
LEMMA BatchEffect ==
  ASSUME NEW h \in Handlers, NEW batch, DOMAIN procs = Handlers, DOMAIN procs[h] = ProcFields,
         DecideTools(h, batch)
  PROVE  /\ OnlyFields(h, {"at", "batch", "calls"})
         /\ procs'[h].at = "AUTHORIZE" /\ procs'[h].batch = batch
  BY DEF DecideTools, OnlyFields, OnlyRow, ProcFields

\* A batch is a nonempty sequence of calls.
LEMMA BatchType == \A b \in Batches : b \in Seq(Calls) /\ b # <<>>
  BY DEF Batches

\* A completed call leaves the batch.
LEMMA CompleteEffect ==
  ASSUME NEW h \in Handlers, NEW output, DOMAIN procs = Handlers, DOMAIN procs[h] = ProcFields,
         CompleteTool(h, output)
  PROVE  /\ OnlyFields(h, {"at", "batch", "observed", "done"})
         /\ procs'[h].at = IF Tail(procs[h].batch) = <<>> THEN "DECIDE" ELSE "AUTHORIZE"
         /\ procs'[h].batch = Tail(procs[h].batch)
         /\ procs'[h].done = procs[h].done \cup {Head(procs[h].batch)}
<1> DEFINE rest == Tail(procs[h].batch)
           c    == Head(procs[h].batch)
           obs  == procs[h].observed \/ rest = <<>>
           st   == IF rest = <<>> THEN "DECIDE" ELSE "AUTHORIZE"
<1>1. procs' = [procs EXCEPT ![h].at = st, ![h].batch = rest, ![h].observed = @ \/ rest = <<>>,
                             ![h].done = @ \cup {c}]
  BY DEF CompleteTool
<1> HIDE DEF rest, c, st
<1>2. /\ OnlyFields(h, {"at", "batch", "observed", "done"})
      /\ procs'[h].at = st /\ procs'[h].batch = rest /\ procs'[h].done = procs[h].done \cup {c}
  BY <1>1 DEF OnlyFields, OnlyRow, ProcFields
<1> QED
  BY <1>2 DEF rest, c, st

\* A second handler of a turn becomes a duplicate, or has nothing to do.
LEMMA CaptureAgainEffect ==
  ASSUME NEW h \in Handlers, DOMAIN procs = Handlers, DOMAIN procs[h] = ProcFields,
         CaptureAgain(h)
  PROVE  \/ OnlyRow(h) /\ procs'[h] = Idle
         \/ OnlyFields(h, {"at", "duplicate"}) /\ procs'[h].at = "BIND" /\ procs'[h].duplicate = TRUE
<1>1. CASE procs' = [procs EXCEPT ![h] = Idle]
  BY <1>1 DEF OnlyRow
<1>2. CASE procs' = [procs EXCEPT ![h] = [@ EXCEPT !.at = "BIND", !.duplicate = TRUE]]
  <2> DEFINE p == [procs[h] EXCEPT !.at = "BIND", !.duplicate = TRUE]
  <2>1. /\ DOMAIN p = ProcFields /\ p.at = "BIND" /\ p.duplicate = TRUE
        /\ \A f \in ProcFields \ {"at", "duplicate"} : p[f] = procs[h][f]
    BY DEF ProcFields
  <2>2. procs' = [procs EXCEPT ![h] = p]
    BY <1>2
  <2> HIDE DEF p
  <2>3. procs'[h] = p /\ OnlyRow(h)
    BY <2>2 DEF OnlyRow
  <2> QED
    BY <2>1, <2>3 DEF OnlyFields
<1> QED
  BY <1>1, <1>2 DEF CaptureAgain

(***************************************************************************)
(* Every handler keeps a well-formed row.                                  *)
(***************************************************************************)
\* The row a request starts with.
LEMMA PrepareEffect ==
  ASSUME NEW h \in Handlers, NEW t \in Turns, DOMAIN procs = Handlers, Prepare(h, t)
  PROVE  /\ OnlyRow(h) /\ IsHandler(procs'[h]) /\ procs'[h].turn = t
         /\ procs'[h].at = "CAPTURE" /\ procs'[h].done = {}
<1>1. PICK c : /\ c # NoContext
               /\ procs' = [procs EXCEPT ![h] =
                    [turn |-> t, at |-> "CAPTURE", context |-> c, duplicate |-> FALSE,
                     calls |-> 0, batch |-> <<>>, observed |-> FALSE, done |-> {}, result |-> "NONE",
                     engine |-> FALSE]]
  <2> DEFINE m  == IF mission = NoMission THEN Created ELSE mission
             j  == IF mission = NoMission THEN <<Event("mission.created", t, t)>> ELSE journal
             m2 == IF HasKey("user.message", t) THEN m ELSE [m EXCEPT !.state = "ORIENTING"]
             j2 == IF HasKey("user.message", t) THEN j
                   ELSE j \o <<Event("user.message", t, t), Event("agent.accepted", t, "received")>>
  <2>1. procs' = [procs EXCEPT ![h] =
                    [turn |-> t, at |-> "CAPTURE", context |-> Context(m2, j2, t), duplicate |-> FALSE,
                     calls |-> 0, batch |-> <<>>, observed |-> FALSE, done |-> {}, result |-> "NONE",
                     engine |-> FALSE]]
    BY Zenon DEF Prepare
  <2> HIDE DEF m2, j2
  <2> QED
    BY <2>1, RowsAreNotEmpty, Zenon
<1> DEFINE p == [turn |-> t, at |-> "CAPTURE", context |-> c, duplicate |-> FALSE,
                 calls |-> 0, batch |-> <<>>, observed |-> FALSE, done |-> {}, result |-> "NONE",
                 engine |-> FALSE]
<1>2. /\ DOMAIN p = ProcFields /\ p.turn = t /\ p.at = "CAPTURE" /\ p.context = c
      /\ p.batch = <<>> /\ p.done = {} /\ p.duplicate = FALSE
  BY DEF ProcFields
<1> HIDE DEF p
<1>3. OnlyRow(h) /\ procs'[h] = p
  BY <1>1 DEF OnlyRow, p
<1>4. IsFiniteSet(p.done) /\ p.done \subseteq Calls /\ p.batch \in Seq(Calls) /\ p.context # NoContext
  BY <1>1, <1>2, FS_EmptySet
<1>5. IsHandler(p)
  BY <1>2, <1>4 DEF IsHandler, Stages
<1> QED
  BY <1>2, <1>3, <1>5

\* A step of a handler that is under way: it ends, or keeps its turn and goes on
\* past its first transaction; it stays the first handler of its turn if it was,
\* and observes only what it completes.
Proceeds(h) ==
  /\ OnlyRow(h)
  /\ \/ procs'[h] = Idle
     \/ /\ IsHandler(procs'[h]) /\ procs'[h] # Idle
        /\ procs'[h].turn = procs[h].turn /\ procs'[h].at # "CAPTURE"
        /\ procs[h].at # "CAPTURE" => procs'[h].duplicate = procs[h].duplicate
        /\ procs[h].at = "CAPTURE" => procs'[h].at = "BIND"
        /\ procs'[h].done = procs[h].done \/ \E output \in Outputs : CompleteTool(h, output)

\* A step that changes other fields than those proceeds if what it writes is right.
LEMMA FieldsProceed ==
  ASSUME NEW h \in Handlers, NEW fields, IsHandler(procs[h]), OnlyFields(h, fields),
         fields \cap {"turn", "context"} = {},
         "done" \in fields => /\ IsFiniteSet(procs'[h].done) /\ procs'[h].done \subseteq Calls
                              /\ \E output \in Outputs : CompleteTool(h, output),
         "duplicate" \in fields => procs[h].at = "CAPTURE",
         "batch" \in fields => procs'[h].batch \in Seq(Calls),
         procs'[h].at \in Stages \ {"CAPTURE"},
         procs'[h].at \in {"AUTHORIZE", "EXECUTE", "FAIL_TOOL"} => procs'[h].batch # <<>>,
         procs'[h].at \in {"FINISH", "PERSIST"} => procs'[h].result \in Answered,
         procs[h].at = "CAPTURE" => procs'[h].at = "BIND"
  PROVE  Proceeds(h)
<1>1. /\ procs'[h].turn = procs[h].turn /\ procs'[h].context = procs[h].context
      /\ "done" \notin fields => procs'[h].done = procs[h].done
      /\ "batch" \notin fields => procs'[h].batch = procs[h].batch
      /\ "duplicate" \notin fields => procs'[h].duplicate = procs[h].duplicate
  BY DEF OnlyFields, ProcFields
<1>2. DOMAIN procs'[h] = ProcFields /\ OnlyRow(h) /\ procs'[h] # Idle
  BY RowsAreNotEmpty DEF OnlyFields
<1>3. /\ IsFiniteSet(procs'[h].done) /\ procs'[h].done \subseteq Calls
      /\ procs'[h].batch \in Seq(Calls)
  BY <1>1 DEF IsHandler
<1>4. IsHandler(procs'[h])
  BY <1>1, <1>2, <1>3 DEF IsHandler
<1> QED
  BY <1>1, <1>2, <1>4 DEF Proceeds

\* Every transaction of a turn, and the loss of its handler, moves the handler on or ends it.
LEMMA WorkProceeds ==
  ASSUME Handled, NEW h \in Handlers, Works(h) \/ Stop(h)
  PROVE  Proceeds(h) /\ IsHandler(procs[h])
<1>a. DOMAIN procs = Handlers /\ IsHandler(procs[h]) /\ DOMAIN procs[h] = ProcFields
  BY DEF Handled, Works, Stop, IsHandler
<1>b. ASSUME NEW stage \in Stages \ {"CAPTURE"}, At(h, stage),
             procs[h].at = "CAPTURE" => stage = "BIND",
             stage \in {"EXECUTE", "AUTHORIZE", "FAIL_TOOL"} =>
               procs[h].at \in {"AUTHORIZE", "EXECUTE", "FAIL_TOOL"},
             stage \in {"FINISH", "PERSIST"} => procs[h].at \in {"FINISH", "PERSIST"}
      PROVE  Proceeds(h)
  <2>1. OnlyFields(h, {"at"}) /\ procs'[h].at = stage
    BY <1>a, <1>b, AtEffect
  <2>2. procs'[h].batch = procs[h].batch /\ procs'[h].result = procs[h].result
    BY <2>1 DEF OnlyFields, ProcFields
  <2>3. /\ stage \in {"AUTHORIZE", "EXECUTE", "FAIL_TOOL"} => procs'[h].batch # <<>>
        /\ stage \in {"FINISH", "PERSIST"} => procs'[h].result \in Answered
    BY <1>a, <1>b, <2>2 DEF IsHandler
  <2> QED
    BY <1>a, <1>b, <2>1, <2>3, FieldsProceed
<1>c. ASSUME Ends(h) \/ procs' = [procs EXCEPT ![h] = Idle] PROVE Proceeds(h)
  BY <1>a, <1>c, EndsEffect, IdleEffect DEF Proceeds
<1>d. ASSUME Fails(h), procs[h].at # "CAPTURE" PROVE Proceeds(h)
  <2>1. /\ OnlyFields(h, {"at", "result", "engine"})
        /\ procs'[h].at = "FINISH" /\ procs'[h].result = "FAILED"
    BY <1>a, <1>d, FailsEffect
  <2> QED
    BY <1>a, <1>d, <2>1, FieldsProceed DEF Stages, Answered
<1>1. ASSUME Capture(h) PROVE Proceeds(h)
  BY <1>1, <1>b DEF Capture, Stages
<1>2. ASSUME CaptureAgain(h) PROVE Proceeds(h)
  <2>1. CASE OnlyRow(h) /\ procs'[h] = Idle
    BY <2>1 DEF Proceeds
  <2>2. CASE OnlyFields(h, {"at", "duplicate"}) /\ procs'[h].at = "BIND" /\ procs'[h].duplicate = TRUE
    <3>1. procs[h].at = "CAPTURE"
      BY <1>2 DEF CaptureAgain
    <3> QED
      BY <1>a, <2>2, <3>1, FieldsProceed DEF Stages
  <2> QED
    BY <1>a, <1>2, <2>1, <2>2, CaptureAgainEffect
<1>3. ASSUME BindManifest(h) PROVE Proceeds(h)
  BY <1>3, <1>b DEF BindManifest, Stages
<1>4. ASSUME BoundAlready(h) PROVE Proceeds(h)
  BY <1>4, <1>b, <1>c DEF BoundAlready, Stages
<1>5. ASSUME NEW status \in {"COMPLETED", "WAITING", "FAILED"}, DecideAnswer(h, status)
      PROVE  Proceeds(h)
  <2>1. /\ OnlyFields(h, {"at", "result"})
        /\ procs'[h].at = "FINISH" /\ procs'[h].result = status /\ procs[h].at = "DECIDE"
    BY <1>a, <1>5, AnswerEffect DEF DecideAnswer, Deciding
  <2> QED
    BY <1>a, <2>1, FieldsProceed DEF Stages, Answered
<1>6. ASSUME NEW batch \in Batches, DecideTools(h, batch) PROVE Proceeds(h)
  <2>1. /\ OnlyFields(h, {"at", "batch", "calls"})
        /\ procs'[h].at = "AUTHORIZE" /\ procs'[h].batch = batch /\ procs[h].at = "DECIDE"
    BY <1>a, <1>6, BatchEffect DEF DecideTools, Deciding
  <2> QED
    BY <1>a, <2>1, FieldsProceed, BatchType DEF Stages
<1>7. ASSUME DecideInvalid(h) PROVE Proceeds(h)
  <2>1. procs[h].at = "DECIDE"
    BY <1>7 DEF DecideInvalid, Deciding
  <2>2. CASE procs' = [procs EXCEPT ![h].calls = @ + 1]
    <3>1. OnlyFields(h, {"calls"})
      BY <1>a, <2>2 DEF OnlyFields, OnlyRow, ProcFields
    <3>2. procs'[h].at = "DECIDE"
      BY <2>1, <3>1 DEF OnlyFields, ProcFields
    <3> QED
      BY <1>a, <2>1, <3>1, <3>2, FieldsProceed DEF Stages
  <2> QED
    BY <1>7, <1>d, <2>1, <2>2 DEF DecideInvalid
<1>8. ASSUME DecideFails(h) \/ DenyTool(h) PROVE Proceeds(h)
  BY <1>8, <1>d DEF DecideFails, DenyTool
<1>9. ASSUME AuthorizeTool(h) PROVE Proceeds(h)
  BY <1>9, <1>b DEF AuthorizeTool, Stages
<1>10. ASSUME NEW output \in Outputs, CompleteTool(h, output) PROVE Proceeds(h)
  <2>1. /\ OnlyFields(h, {"at", "batch", "observed", "done"})
        /\ procs'[h].at = IF Tail(procs[h].batch) = <<>> THEN "DECIDE" ELSE "AUTHORIZE"
        /\ procs'[h].batch = Tail(procs[h].batch)
        /\ procs'[h].done = procs[h].done \cup {Head(procs[h].batch)}
        /\ procs[h].at = "EXECUTE"
    BY <1>a, <1>10, CompleteEffect DEF CompleteTool
  <2>2. procs[h].batch \in Seq(Calls) /\ procs[h].batch # <<>> /\ IsFiniteSet(procs[h].done)
       /\ procs[h].done \subseteq Calls
    BY <1>a, <2>1 DEF IsHandler
  <2>3. procs'[h].batch \in Seq(Calls)
    BY <2>1, <2>2
  <2>4. IsFiniteSet(procs'[h].done) /\ procs'[h].done \subseteq Calls
    <3>1. Head(procs[h].batch) \in Calls
      BY <2>2
    <3>2. IsFiniteSet(procs'[h].done)
      <4> DEFINE S == procs[h].done
                 x == Head(procs[h].batch)
      <4>1. IsFiniteSet(S) /\ procs'[h].done = S \cup {x}
        BY <2>1, <2>2
      <4> HIDE DEF S, x
      <4>2. IsFiniteSet(S \cup {x})
        BY <4>1, FS_AddElement
      <4> QED
        BY <4>1, <4>2
    <3> QED
      BY <2>1, <2>2, <3>1, <3>2
  <2> QED
    BY <1>a, <1>10, <2>1, <2>3, <2>4, FieldsProceed DEF Stages
<1>11. ASSUME ExecuteFails(h) PROVE Proceeds(h)
  BY <1>11, <1>b DEF ExecuteFails, Stages
<1>12. ASSUME FailTool(h) PROVE Proceeds(h)
  BY <1>12, <1>c, <1>d DEF FailTool
<1>13. ASSUME Finish(h) PROVE Proceeds(h)
  BY <1>13, <1>b DEF Finish, Stages
<1>14. ASSUME Persist(h) PROVE Proceeds(h)
  BY <1>14, <1>c DEF Persist
<1>15. ASSUME Stop(h) PROVE Proceeds(h)
  BY <1>15, <1>c DEF Stop
<1>16. Proceeds(h)
  BY <1>1, <1>2, <1>3, <1>4, <1>5, <1>6, <1>7, <1>8, <1>9, <1>10, <1>11, <1>12, <1>13, <1>14,
     <1>15 DEF Works
<1> QED
  BY <1>a, <1>16

(***************************************************************************)
(* What a handler writes into the tables.                                  *)
(***************************************************************************)
\* The run of t keeps its context, and its status once it is terminal; it ends
\* only with a context.
RunKept(t) ==
  /\ DOMAIN runs' = Turns
  /\ \A u \in Turns : u # t => runs'[u] = runs[u]
  /\ IsRun(runs'[t])
  /\ runs'[t].context = runs[t].context
  /\ runs[t].status \in Terminal => runs'[t].status = runs[t].status
  /\ runs'[t].status \in Ended => runs[t].status \in Ended \/ runs[t].context # NoContext

\* A new version, a new checkpoint and a new status of a run that is not settled.
LEMMA RunUpdates ==
  ASSUME NEW t \in Turns, DOMAIN runs = Turns, IsRun(runs[t])
  PROVE  /\ RecordDecision(t) => RunKept(t)
         /\ runs' = [runs EXCEPT ![t] = Checkpointed(@)] => RunKept(t)
         /\ \A s \in RunStatuses :
              /\ ~Settled(runs[t]) /\ (s \in Ended => runs[t].context # NoContext)
              /\ \/ runs' = [runs EXCEPT ![t] = Checkpointed([runs[t] EXCEPT !.status = s, !.version = @ + 1])]
                 \/ runs' = [runs EXCEPT ![t].status = s, ![t].version = @ + 1]
              => RunKept(t)
<1>1. ASSUME RecordDecision(t) PROVE RunKept(t)
  <2> DEFINE r == Checkpointed([runs[t] EXCEPT !.version = @ + 1])
  <2>1. runs' = [runs EXCEPT ![t] = r]
    BY <1>1 DEF RecordDecision
  <2>2. IsRun(r) /\ r.context = runs[t].context /\ r.status = runs[t].status
    BY DEF IsRun, Checkpointed, RunFields
  <2> HIDE DEF r
  <2> QED
    BY <2>1, <2>2 DEF RunKept
<1>2. ASSUME runs' = [runs EXCEPT ![t] = Checkpointed(@)] PROVE RunKept(t)
  <2> DEFINE r == Checkpointed(runs[t])
  <2>1. runs' = [runs EXCEPT ![t] = r]
    BY <1>2
  <2>2. IsRun(r) /\ r.context = runs[t].context /\ r.status = runs[t].status
    BY DEF IsRun, Checkpointed, RunFields
  <2> HIDE DEF r
  <2> QED
    BY <2>1, <2>2 DEF RunKept
<1>3. ASSUME NEW s \in RunStatuses, ~Settled(runs[t]), s \in Ended => runs[t].context # NoContext,
             runs' = [runs EXCEPT ![t] = Checkpointed([runs[t] EXCEPT !.status = s, !.version = @ + 1])]
      PROVE  RunKept(t)
  <2> DEFINE r == Checkpointed([runs[t] EXCEPT !.status = s, !.version = @ + 1])
  <2>1. runs' = [runs EXCEPT ![t] = r]
    BY <1>3
  <2>2. IsRun(r) /\ r.context = runs[t].context /\ r.status = s
    BY DEF IsRun, Checkpointed, RunFields
  <2> HIDE DEF r
  <2> QED
    BY <1>3, <2>1, <2>2 DEF RunKept, Settled
<1>4. ASSUME NEW s \in RunStatuses, ~Settled(runs[t]), s \in Ended => runs[t].context # NoContext,
             runs' = [runs EXCEPT ![t].status = s, ![t].version = @ + 1]
      PROVE  RunKept(t)
  BY <1>4 DEF RunKept, Settled, IsRun, RunFields
<1> QED
  BY <1>1, <1>2, <1>3, <1>4

\* The first transaction makes the run, the second binds it.
LEMMA CaptureWrites ==
  ASSUME NEW h, DOMAIN runs = Turns, procs[h].turn \in Turns, Capture(h)
  PROVE  LET t == procs[h].turn IN
         /\ DOMAIN runs' = Turns /\ \A u \in Turns : u # t => runs'[u] = runs[u]
         /\ runs[t] = NoRun /\ IsRun(runs'[t]) /\ runs'[t].status = "CAPTURED"
<1> DEFINE t == procs[h].turn
           r == [status |-> "CAPTURED", version |-> 1, context |-> NoContext, checkpoint |-> 0]
<1>1. IsRun(r) /\ r.status = "CAPTURED"
  BY DEF IsRun, RunFields, RunStatuses
<1>2. runs' = [runs EXCEPT ![t] = r] /\ runs[t] = NoRun
  BY DEF Capture
<1> HIDE DEF r
<1> QED
  BY <1>1, <1>2

\* The first binding gives the run its context and sets it DECIDING, even after a cancel.
LEMMA BindWrites ==
  ASSUME NEW h, DOMAIN runs = Turns, procs[h].turn \in Turns, IsRun(runs[procs[h].turn]),
         BindManifest(h)
  PROVE  LET t == procs[h].turn IN
         /\ DOMAIN runs' = Turns /\ \A u \in Turns : u # t => runs'[u] = runs[u]
         /\ runs[t].context = NoContext /\ IsRun(runs'[t])
         /\ runs'[t].context = procs[h].context /\ runs'[t].status = "DECIDING"
<1> DEFINE t == procs[h].turn
<1>1. /\ runs' = [runs EXCEPT ![t].context = procs[h].context, ![t].status = "DECIDING",
                              ![t].version = @ + 1]
      /\ runs[t].context = NoContext
  BY DEF BindManifest
<1> QED
  BY <1>1 DEF IsRun, RunFields, RunStatuses

\* One invocation is written, and never over another result of a completed one.
ToolWritten(t) ==
  \E c \in Calls, x \in ToolRow :
    /\ tools' = [tools EXCEPT ![t][c] = x]
    /\ tools[t][c].status = "COMPLETED" => x = tools[t][c]

StepWritten(t) == \E kind \in StepKinds : AppendStep(t, kind)
NoticeWritten(t) == \E kind \in NoticeKinds : AppendNotice(t, kind)
RunWritten(h) == \/ UNCHANGED runs \/ Capture(h) \/ BindManifest(h) \/ RunKept(procs[h].turn)

Writes(h) ==
  LET t == procs[h].turn IN
  /\ UNCHANGED labVars
  /\ RunWritten(h)
  /\ UNCHANGED steps \/ StepWritten(t)
  /\ UNCHANGED notices \/ NoticeWritten(t)
  /\ UNCHANGED tools \/ ToolWritten(t)
  /\ UNCHANGED missionVars \/ Persist(h)

\* Every transaction of a turn writes rows of its own turn only.
LEMMA WorkWrites ==
  ASSUME Tables, RunsAreBound, NEW h \in Handlers, Works(h) \/ Stop(h)
  PROVE  Writes(h)
<1> USE DEF missionVars, runVars, labVars
<1> DEFINE t == procs[h].turn
           c == Head(procs[h].batch)
<1>a. IsHandler(procs[h]) /\ t \in Turns /\ procs[h] # Idle
  BY WorkProceeds DEF Tables, IsHandler, Works, Stop
<1>b. DOMAIN runs = Turns /\ tools \in [Turns -> [Calls -> ToolRow]]
  BY DEF Tables
<1>c. /\ procs[h].at # "CAPTURE" => IsRun(runs[t])
      /\ procs[h].at = "FINISH" => runs[t].context # NoContext
  BY <1>a DEF RunsAreBound, Tables
<1>d. procs[h].at \in {"AUTHORIZE", "EXECUTE", "FAIL_TOOL"} => c \in Calls /\ tools[t][c] \in ToolRow
  BY <1>a, <1>b DEF IsHandler
<1>1. ASSUME UNCHANGED <<runs, steps, notices, tools, labVars>>, UNCHANGED missionVars \/ Persist(h)
      PROVE  Writes(h)
  BY <1>1 DEF Writes, RunWritten
<1>2. ASSUME Capture(h) PROVE Writes(h)
  <2>1. StepWritten(t) /\ NoticeWritten(t)
    BY <1>2 DEF Capture, StepWritten, NoticeWritten, StepKinds, NoticeKinds
  <2>2. UNCHANGED <<missionVars, tools, labVars>>
    BY <1>2 DEF Capture
  <2> QED
    BY <1>2, <2>1, <2>2 DEF Writes, RunWritten
<1>3. ASSUME BindManifest(h) PROVE Writes(h)
  <2>1. UNCHANGED <<missionVars, steps, notices, tools, labVars>>
    BY <1>3 DEF BindManifest
  <2> QED
    BY <1>3, <2>1 DEF Writes, RunWritten
<1>4. ASSUME RecordDecision(t), procs[h].at = "DECIDE", UNCHANGED <<missionVars, notices, tools, labVars>>
      PROVE  Writes(h)
  <2>1. StepWritten(t)
    BY <1>4 DEF RecordDecision, StepWritten, StepKinds
  <2>2. RunKept(t)
    BY <1>a, <1>b, <1>c, <1>4, RunUpdates
  <2> QED
    BY <1>4, <2>1, <2>2 DEF Writes, RunWritten
<1>5. ASSUME AuthorizeTool(h) PROVE Writes(h)
  <2>1. UNCHANGED <<missionVars, runs, steps, notices, labVars>> /\ procs[h].at = "AUTHORIZE"
    BY <1>5 DEF AuthorizeTool
  <2>2. UNCHANGED tools \/ ToolWritten(t)
    <3> DEFINE x == [status |-> "AUTHORIZED", output |-> "NONE"]
    <3>1. CASE tools[t][c] = NoTool /\ tools' = [tools EXCEPT ![t][c] = x]
      <4>1. x \in ToolRow /\ tools[t][c].status # "COMPLETED"
        BY <3>1 DEF ToolRow, NoTool
      <4> QED
        BY <1>d, <2>1, <3>1, <4>1 DEF ToolWritten
    <3> QED
      BY <1>5, <3>1 DEF AuthorizeTool
  <2> QED
    BY <2>1, <2>2 DEF Writes, RunWritten
<1>6. ASSUME NEW output \in Outputs, CompleteTool(h, output) PROVE Writes(h)
  <2> DEFINE x == [status |-> "COMPLETED", output |-> output]
  <2>1. /\ UNCHANGED <<missionVars, notices, labVars>> /\ procs[h].at = "EXECUTE"
        /\ tools' = [tools EXCEPT ![t][c] = x] /\ MayComplete(tools[t][c], output)
        /\ runs' = [runs EXCEPT ![t] = Checkpointed(@)] /\ AppendStep(t, "TOOL_RESULT")
    BY <1>6 DEF CompleteTool
  <2>2. x \in ToolRow /\ (tools[t][c].status = "COMPLETED" => x = tools[t][c])
    BY <2>1 DEF ToolRow, MayComplete
  <2>3. ToolWritten(t) /\ StepWritten(t)
    BY <1>d, <2>1, <2>2 DEF ToolWritten, StepWritten, StepKinds
  <2>4. RunKept(t)
    BY <1>a, <1>b, <1>c, <2>1, RunUpdates
  <2> QED
    BY <2>1, <2>3, <2>4 DEF Writes, RunWritten
<1>7. ASSUME FailTool(h) PROVE Writes(h)
  <2>1. UNCHANGED <<missionVars, runs, steps, notices, labVars>> /\ procs[h].at = "FAIL_TOOL"
    BY <1>7 DEF FailTool
  <2>2. UNCHANGED tools \/ ToolWritten(t)
    <3>1. CASE tools[t][c].status # "COMPLETED" /\ tools' = [tools EXCEPT ![t][c].status = "FAILED"]
      <4> DEFINE x == [status |-> "FAILED", output |-> tools[t][c].output]
      <4>1. tools[t][c] \in ToolRow /\ c \in Calls
        BY <1>d, <2>1
      <4>2. x \in ToolRow /\ [tools[t][c] EXCEPT !.status = "FAILED"] = x
        <5>1. ASSUME NEW r \in ToolRow
              PROVE  LET y == [status |-> "FAILED", output |-> r.output] IN
                     y \in ToolRow /\ [r EXCEPT !.status = "FAILED"] = y
          BY DEF ToolRow
        <5> QED
          BY <4>1, <5>1
      <4>3. tools' = [tools EXCEPT ![t][c] = x]
        BY <3>1, <4>2
      <4> QED
        BY <3>1, <4>1, <4>2, <4>3 DEF ToolWritten
    <3> QED
      BY <1>7, <3>1 DEF FailTool
  <2> QED
    BY <2>1, <2>2 DEF Writes, RunWritten
<1>8. ASSUME Finish(h) PROVE Writes(h)
  <2> DEFINE s == procs[h].result
  <2>1. procs[h].at = "FINISH" /\ UNCHANGED <<missionVars, tools, labVars>>
    BY <1>8 DEF Finish
  <2>2. s \in RunStatuses
    BY <1>a, <2>1 DEF IsHandler, Answered, RunStatuses
  <2>3. CASE Settled(runs[t])
    <3>1. runs' = [runs EXCEPT ![t] = Checkpointed(@)] /\ UNCHANGED <<steps, notices>>
      BY <1>8, <2>3 DEF Finish
    <3>2. RunKept(t)
      BY <1>a, <1>b, <1>c, <2>1, <3>1, RunUpdates
    <3> QED
      BY <2>1, <3>1, <3>2 DEF Writes, RunWritten
  <2>4. CASE ~Settled(runs[t])
    <3>1. /\ runs' = [runs EXCEPT ![t] = Checkpointed([runs[t] EXCEPT !.status = s, !.version = @ + 1])]
          /\ AppendStep(t, IF s = "FAILED" THEN "FAILURE" ELSE "OUTPUT")
          /\ AppendNotice(t, NoticeOf(s))
      BY <1>8, <2>4 DEF Finish
    <3>2. RunKept(t)
      BY <1>a, <1>b, <1>c, <2>1, <2>2, <2>4, <3>1, RunUpdates
    <3>3. StepWritten(t) /\ NoticeWritten(t)
      BY <3>1 DEF StepWritten, NoticeWritten, NoticeOf, StepKinds, NoticeKinds
    <3> QED
      BY <2>1, <3>2, <3>3 DEF Writes, RunWritten
  <2> QED
    BY <2>3, <2>4
<1>9. ASSUME NEW status, DecideAnswer(h, status) PROVE Writes(h)
  BY <1>4, <1>9 DEF DecideAnswer, Deciding
<1>10. ASSUME NEW batch, DecideTools(h, batch) PROVE Writes(h)
  BY <1>4, <1>10 DEF DecideTools, Deciding
<1>11. ASSUME CaptureAgain(h) \/ BoundAlready(h) PROVE Writes(h)
  BY <1>1, <1>11 DEF CaptureAgain, BoundAlready
<1>12. ASSUME DecideInvalid(h) \/ DecideFails(h) \/ DenyTool(h) \/ ExecuteFails(h) PROVE Writes(h)
  BY <1>1, <1>12 DEF DecideInvalid, DecideFails, DenyTool, ExecuteFails
<1>13. ASSUME Persist(h) PROVE Writes(h)
  BY <1>1, <1>13 DEF Persist
<1>14. ASSUME Stop(h) PROVE Writes(h)
  BY <1>1, <1>14 DEF Stop
<1> QED
  BY <1>2, <1>3, <1>5, <1>6, <1>7, <1>8, <1>9, <1>10, <1>11, <1>12, <1>13, <1>14 DEF Works

(***************************************************************************)
(* What is written into the mission and its journal.                       *)
(***************************************************************************)
\* One more event is one more answer or message of its turn, or neither.
LEMMA JournalAppend ==
  ASSUME NEW j \in Seq(EventRow), NEW e \in EventRow, NEW u
  PROVE  /\ Append(j, e) \in Seq(EventRow)
         /\ Answers(Append(j, e), u) = IF e.type = "assistant.message" /\ e.key = u
                                       THEN Answers(j, u) \cup {Len(j) + 1} ELSE Answers(j, u)
         /\ Asked(Append(j, e), u) = IF e.type = "user.message" /\ e.key = u
                                     THEN Asked(j, u) \cup {Len(j) + 1} ELSE Asked(j, u)
<1>1. /\ Append(j, e) \in Seq(EventRow) /\ Len(j) \in Nat /\ DOMAIN j = 1..Len(j)
      /\ DOMAIN Append(j, e) = DOMAIN j \cup {Len(j) + 1}
      /\ Append(j, e)[Len(j) + 1] = e /\ \A i \in DOMAIN j : Append(j, e)[i] = j[i]
  OBVIOUS
<1> QED
  BY <1>1 DEF Answers, Asked

\* An event of another kind changes neither.
LEMMA JournalOther ==
  ASSUME NEW j \in Seq(EventRow), NEW e \in EventRow, e.type \notin {"assistant.message", "user.message"}
  PROVE  /\ Append(j, e) \in Seq(EventRow)
         /\ \A u : Answers(Append(j, e), u) = Answers(j, u) /\ Asked(Append(j, e), u) = Asked(j, u)
<1>1. ASSUME NEW u
      PROVE  Answers(Append(j, e), u) = Answers(j, u) /\ Asked(Append(j, e), u) = Asked(j, u)
  BY JournalAppend
<1> QED
  BY <1>1

\* Two events are written one after the other.
LEMMA TwoEvents ==
  ASSUME NEW j \in Seq(EventRow), NEW a \in EventRow, NEW b \in EventRow
  PROVE  j \o <<a, b>> = Append(Append(j, a), b) /\ j \o <<a>> = Append(j, a) /\ j \o <<>> = j
  OBVIOUS

\* No message is asked twice in a journal without one.
LEMMA KeyMeansAsked == \A t : HasKey("user.message", t) <=> Asked(journal, t) # {}
  BY DEF HasKey, Asked

\* _prepare_mission writes a message that is not there, and no answer.
LEMMA PrepareWrites ==
  ASSUME Tables, WorkIsAsked, NEW h \in Handlers, NEW t \in Turns, Prepare(h, t)
  PROVE  /\ mission' \in MissionRow
         /\ mission'.remaining = IF mission = NoMission THEN ExperimentBudget ELSE mission.remaining
         /\ journal' \in Seq(EventRow)
         /\ \A u : Answers(journal', u) = Answers(journal, u)
         /\ \A u : u # t => Asked(journal', u) = Asked(journal, u)
         /\ Asked(journal, t) # {} => Asked(journal', t) = Asked(journal, t)
         /\ Asked(journal, t) = {} => \E n : Asked(journal', t) = {n}
<1> DEFINE m  == IF mission = NoMission THEN Created ELSE mission
           j  == IF mission = NoMission THEN <<Event("mission.created", t, t)>> ELSE journal
           e1 == Event("user.message", t, t)
           e2 == Event("agent.accepted", t, "received")
<1>1. CASE HasKey("user.message", t)
  <2>1. mission # NoMission
    BY <1>1 DEF WorkIsAsked, HasKey
  <2>2. mission' = mission /\ journal' = journal
    BY <1>1, <2>1 DEF Prepare
  <2> QED
    BY <1>1, <2>1, <2>2, KeyMeansAsked DEF Tables
<1>2. CASE ~HasKey("user.message", t)
  <2>1. mission' = [m EXCEPT !.state = "ORIENTING"] /\ journal' = j \o <<e1, e2>>
    BY <1>2 DEF Prepare
  <2>2. m \in MissionRow /\ m.remaining = IF mission = NoMission THEN ExperimentBudget ELSE mission.remaining
    BY AgentAssumption DEF Tables, Created, MissionRow, MissionStates
  <2>3. mission' \in MissionRow /\ mission'.remaining = m.remaining
    <3> HIDE DEF m
    <3>1. mission' = [state |-> "ORIENTING", version |-> m.version, remaining |-> m.remaining]
      BY <2>1, <2>2 DEF MissionRow
    <3> QED
      BY <2>2, <3>1 DEF MissionRow, MissionStates
  <2>4. j \in Seq(EventRow) /\ \A u : Answers(j, u) = Answers(journal, u) /\ Asked(j, u) = Asked(journal, u)
    <3>1. CASE mission = NoMission
      <4> DEFINE e == Event("mission.created", t, t)
      <4>1. e \in EventRow /\ e.type = "mission.created"
        BY DEF Event, EventRow, EventTypes, Messages
      <4>2. journal = <<>> /\ j = Append(journal, e) /\ journal \in Seq(EventRow)
        BY <3>1 DEF WorkIsAsked, Tables
      <4> HIDE DEF e, j
      <4>3. /\ Append(journal, e) \in Seq(EventRow)
            /\ \A u : /\ Answers(Append(journal, e), u) = Answers(journal, u)
                     /\ Asked(Append(journal, e), u) = Asked(journal, u)
        BY <4>1, <4>2, JournalOther
      <4> QED
        BY <4>2, <4>3
    <3>2. CASE mission # NoMission
      BY <3>2 DEF Tables
    <3> QED
      BY <3>1, <3>2
  <2>5. /\ e1 \in EventRow /\ e1.type = "user.message" /\ e1.key = t
        /\ e2 \in EventRow /\ e2.type = "agent.accepted"
    BY DEF Event, EventRow, EventTypes, Messages
  <2> HIDE DEF e1, e2, j
  <2>6. journal' = Append(Append(j, e1), e2)
    BY <2>1, <2>4, <2>5, TwoEvents
  <2> DEFINE k == Append(j, e1)
  <2>7. /\ k \in Seq(EventRow) /\ \A u : Answers(k, u) = Answers(journal, u)
        /\ \A u : Asked(k, u) = IF u = t THEN Asked(journal, t) \cup {Len(j) + 1} ELSE Asked(journal, u)
    BY <2>4, <2>5, JournalAppend
  <2> HIDE DEF k
  <2>8. /\ journal' \in Seq(EventRow)
        /\ \A u : Answers(journal', u) = Answers(k, u) /\ Asked(journal', u) = Asked(k, u)
    BY <2>5, <2>6, <2>7, JournalOther DEF k
  <2>9. Asked(journal, t) = {}
    BY <1>2, KeyMeansAsked
  <2>10. Asked(journal', t) = {Len(j) + 1}
    BY <2>7, <2>8, <2>9
  <2> QED
    BY <2>2, <2>3, <2>7, <2>8, <2>9, <2>10
<1> QED
  BY <1>1, <1>2

\* _persist_kernel_projection: a turn without an answer gets one, and the mission
\* the state of the result; or a duplicate, or a conflict, writes nothing.
LEMMA PersistWrites ==
  ASSUME Tables, mission # NoMission, NEW h \in Handlers, IsHandler(procs[h]), Persist(h)
  PROVE  \/ /\ UNCHANGED missionVars
            /\ Ends(h) \/ (procs[h].duplicate /\ UNCHANGED abandoned)
         \/ /\ mission' \in MissionRow /\ mission'.remaining = mission.remaining
            /\ UNCHANGED abandoned
            /\ journal' \in Seq(EventRow)
            /\ \A u : Asked(journal', u) = Asked(journal, u)
            /\ \A u : u # procs[h].turn => Answers(journal', u) = Answers(journal, u)
            /\ Answers(journal', procs[h].turn) = IF Answers(journal, procs[h].turn) = {}
                 THEN {Len(journal) + 1} ELSE Answers(journal, procs[h].turn)
<1> DEFINE p == procs[h]
           t == procs[h].turn
           said == [i \in {k \in DOMAIN journal : journal[k].type = "assistant.message"
                                                  /\ journal[k].key = t} |-> journal[i].message]
           answer == IF said = <<>> THEN <<Event("assistant.message", t, p.result)>> ELSE <<>>
           used == IF p.done # {} /\ ~HasKey("agent.tool.completed", t)
                   THEN <<Event("agent.tool.completed", t, "used")>> ELSE <<>>
           grown == journal \o answer \o used
<1>1. CASE p.duplicate /\ ~p.engine
  BY <1>1 DEF Persist
<1>2. CASE Ends(h) /\ UNCHANGED missionVars
  BY <1>2
<1>3. CASE /\ mission' = [mission EXCEPT !.state = MissionState(p.result), !.version = @ + 1]
           /\ journal' = grown
           /\ UNCHANGED abandoned
  <2>1. p.result \in Answered /\ t \in Turns
    BY DEF IsHandler, Persist
  <2>2. mission \in MissionRow
    BY DEF Tables
  <2>3. mission' \in MissionRow /\ mission'.remaining = mission.remaining
    <3> DEFINE s  == MissionState(p.result)
               m1 == [state |-> s, version |-> mission.version, remaining |-> mission.remaining]
    <3>1. s \in MissionStates
      BY <2>1 DEF MissionState, Answered, MissionStates
    <3> HIDE DEF s
    <3>2. [mission EXCEPT !.state = s] = m1
      BY <2>2 DEF MissionRow
    <3>3. [m1 EXCEPT !.version = @ + 1]
            = [state |-> s, version |-> mission.version + 1, remaining |-> mission.remaining]
      OBVIOUS
    <3>4. mission' = [state |-> s, version |-> mission.version + 1, remaining |-> mission.remaining]
      <4>1. mission' = [[mission EXCEPT !.state = s] EXCEPT !.version = @ + 1]
        BY <1>3 DEF s
      <4> QED
        BY <3>2, <3>3, <4>1, Zenon
    <3> QED
      BY <2>2, <3>1, <3>4 DEF MissionRow
  <2> DEFINE a == Event("assistant.message", t, p.result)
             b == Event("agent.tool.completed", t, "used")
  <2>4. /\ a \in EventRow /\ a.type = "assistant.message" /\ a.key = t
        /\ b \in EventRow /\ b.type = "agent.tool.completed"
    BY <2>1 DEF Event, EventRow, EventTypes, Messages
  <2>5. said = <<>> <=> Answers(journal, t) = {}
    BY DEF Answers
  <2>6. /\ answer = IF Answers(journal, t) = {} THEN <<a>> ELSE <<>>
        /\ used = <<b>> \/ used = <<>>
    BY <2>5
  <2> HIDE DEF a, b, answer, used
  <2> DEFINE k == journal \o answer
  <2>7. /\ k \in Seq(EventRow) /\ \A u : Asked(k, u) = Asked(journal, u)
        /\ \A u : u # t => Answers(k, u) = Answers(journal, u)
        /\ Answers(k, t) = IF Answers(journal, t) = {} THEN {Len(journal) + 1} ELSE Answers(journal, t)
    <3>1. journal \in Seq(EventRow)
      BY DEF Tables
    <3>2. k = IF Answers(journal, t) = {} THEN Append(journal, a) ELSE journal
      BY <2>4, <2>6, <3>1, TwoEvents
    <3>3. ASSUME NEW u
          PROVE  /\ Asked(Append(journal, a), u) = Asked(journal, u)
                 /\ Answers(Append(journal, a), u) = IF u = t THEN Answers(journal, t) \cup {Len(journal) + 1}
                                                             ELSE Answers(journal, u)
      BY <2>4, <3>1, JournalAppend
    <3>4. Append(journal, a) \in Seq(EventRow)
      BY <2>4, <3>1
    <3> QED
      BY <3>1, <3>2, <3>3, <3>4
  <2>8. journal' = k \o used
    BY <1>3
  <2> HIDE DEF k
  <2>9. journal' = Append(k, b) \/ journal' = k
    BY <2>4, <2>6, <2>7, <2>8, TwoEvents
  <2>10. /\ journal' \in Seq(EventRow)
         /\ \A u : Asked(journal', u) = Asked(k, u) /\ Answers(journal', u) = Answers(k, u)
    <3>1. CASE journal' = k
      BY <2>7, <3>1
    <3>2. CASE journal' = Append(k, b)
      BY <2>4, <2>7, <3>2, JournalOther
    <3> QED
      BY <2>9, <3>1, <3>2
  <2> QED
    BY <1>3, <2>3, <2>7, <2>10
<1> QED
  BY <1>1, <1>2, <1>3 DEF Persist

\* A claimed experiment is paid for and started.
LEMMA ClaimWrites ==
  ASSUME Tables, NEW s \in Specs, ClaimExperiment(s)
  PROVE  /\ mission' \in MissionRow /\ mission.remaining \in Nat
         /\ mission'.remaining = mission.remaining - 1
         /\ journal' \in Seq(EventRow)
         /\ \A u : Answers(journal', u) = Answers(journal, u) /\ Asked(journal', u) = Asked(journal, u)
         /\ experiments' \in [Specs -> ExperimentStates]
         /\ \A x \in Specs : experiments'[x] = IF x = s THEN "RUNNING" ELSE experiments[x]
<1>1. mission \in MissionRow /\ experiments[s] = "NONE" /\ mission.remaining >= 1
  BY DEF Tables, ClaimExperiment
<1>2. mission.remaining \in Nat /\ mission.remaining - 1 \in Nat
  BY <1>1 DEF MissionRow
<1>3. mission' \in MissionRow /\ mission'.remaining = mission.remaining - 1
  <2> DEFINE n  == mission.remaining - 1
             m1 == [state |-> mission.state, version |-> mission.version, remaining |-> n]
  <2>1. mission' = [[mission EXCEPT !.remaining = n] EXCEPT !.state = "EXPERIMENTING"]
    BY <1>1 DEF ClaimExperiment, Started, Plan
  <2> HIDE DEF n
  <2>2. [mission EXCEPT !.remaining = n] = m1
    BY <1>1 DEF MissionRow
  <2>3. [m1 EXCEPT !.state = "EXPERIMENTING"]
          = [state |-> "EXPERIMENTING", version |-> mission.version, remaining |-> n]
    OBVIOUS
  <2>4. mission' = [state |-> "EXPERIMENTING", version |-> mission.version, remaining |-> n]
    BY <2>1, <2>2, <2>3, Zenon
  <2>5. n \in Nat
    BY <1>2 DEF n
  <2>6. mission' \in MissionRow /\ mission'.remaining = n
    BY <1>1, <2>4, <2>5 DEF MissionRow, MissionStates
  <2> QED
    BY <2>6 DEF n
<1>4. /\ journal' \in Seq(EventRow)
      /\ \A u : Answers(journal', u) = Answers(journal, u) /\ Asked(journal', u) = Asked(journal, u)
  <2> DEFINE a == Event("experiment.planned", s, s)
             b == Event("experiment.started", s, s)
             k == Append(journal, a)
  <2>1. /\ a \in EventRow /\ a.type = "experiment.planned"
        /\ b \in EventRow /\ b.type = "experiment.started"
    BY DEF Event, EventRow, EventTypes, Messages
  <2>2. journal' = journal \o <<a, b>> /\ journal \in Seq(EventRow)
    BY DEF ClaimExperiment, Tables
  <2> HIDE DEF a, b
  <2>3. journal' = Append(k, b)
    BY <2>1, <2>2, TwoEvents
  <2>4. k \in Seq(EventRow) /\ \A u : Answers(k, u) = Answers(journal, u) /\ Asked(k, u) = Asked(journal, u)
    BY <2>1, <2>2, JournalOther
  <2> HIDE DEF k
  <2> QED
    BY <2>1, <2>3, <2>4, JournalOther
<1>5. /\ experiments' \in [Specs -> ExperimentStates]
      /\ \A x \in Specs : experiments'[x] = IF x = s THEN "RUNNING" ELSE experiments[x]
  BY DEF ClaimExperiment, Tables, ExperimentStates
<1> QED
  BY <1>2, <1>3, <1>4, <1>5

\* A finished experiment is written down with its outcome.
LEMMA FinishWrites ==
  ASSUME Tables, NEW s \in Specs, NEW status \in Terminal, FinishExperiment(s, status)
  PROVE  /\ journal' \in Seq(EventRow)
         /\ \A u : Answers(journal', u) = Answers(journal, u) /\ Asked(journal', u) = Asked(journal, u)
         /\ journal' # <<>>
         /\ experiments' \in [Specs -> ExperimentStates]
         /\ \A x \in Specs : experiments'[x] = IF x = s THEN status ELSE experiments[x]
<1> DEFINE e == Event("experiment.finished", s, status)
<1>1. e \in EventRow /\ e.type = "experiment.finished"
  BY DEF Event, EventRow, EventTypes, Messages
<1>2. journal' = Append(journal, e) /\ journal \in Seq(EventRow)
  BY DEF FinishExperiment, Finished, Tables
<1> HIDE DEF e
<1>3. /\ journal' \in Seq(EventRow)
      /\ \A u : Answers(journal', u) = Answers(journal, u) /\ Asked(journal', u) = Asked(journal, u)
      /\ journal' # <<>>
  BY <1>1, <1>2, JournalOther
<1>4. /\ experiments' \in [Specs -> ExperimentStates]
      /\ \A x \in Specs : experiments'[x] = IF x = s THEN status ELSE experiments[x]
  BY DEF FinishExperiment, Finished, Tables, ExperimentStates
<1> QED
  BY <1>3, <1>4

\* A cancellation settles a run that is not, and is always noticed.
LEMMA CancelWrites ==
  ASSUME Tables, NEW t \in Turns, Cancel(t)
  PROVE  (UNCHANGED runs \/ RunKept(t)) /\ runs[t] # NoRun /\ NoticeWritten(t)
<1>1. IsRun(runs[t]) /\ DOMAIN runs = Turns /\ runs[t] # NoRun
  BY DEF Cancel, Tables
<1>2. NoticeWritten(t)
  BY DEF Cancel, NoticeWritten, NoticeKinds
<1>3. ASSUME ~Settled(runs[t]) PROVE RunKept(t)
  <2>1. runs' = [runs EXCEPT ![t].status = "CANCELLED", ![t].version = @ + 1]
    BY <1>3 DEF Cancel
  <2> QED
    BY <1>1, <1>3, <2>1, RunUpdates DEF RunStatuses, Ended
<1>4. ASSUME Settled(runs[t]) PROVE UNCHANGED runs
  BY <1>4 DEF Cancel
<1> QED
  BY <1>1, <1>2, <1>3, <1>4

\* A log of a turn gets one entry.
LEMMA LogAppend ==
  ASSUME NEW K, NEW f, f \in [Turns -> Seq(K)], NEW t \in Turns, NEW k \in K
  PROVE  [f EXCEPT ![t] = Append(f[t], k)] \in [Turns -> Seq(K)]
<1>1. f[t] \in Seq(K)
  OBVIOUS
<1>2. Append(f[t], k) \in Seq(K)
  BY <1>1
<1> QED
  BY <1>2

(***************************************************************************)
(* The rows keep their types.                                              *)
(***************************************************************************)
LEMMA HandledStep ==
  ASSUME Inv, [Next]_vars
  PROVE  Handled'
<1>a. Tables /\ Handled
  BY DEF Inv, Tables
<1>1. ASSUME NEW h \in Handlers, Works(h) \/ Stop(h) PROVE Handled'
  BY <1>a, <1>1, WorkProceeds DEF Handled, Proceeds, OnlyRow
<1>2. ASSUME NEW h \in Handlers, NEW t \in Turns, Prepare(h, t) PROVE Handled'
  BY <1>a, <1>2, PrepareEffect DEF Handled, OnlyRow
<1>3. ASSUME UNCHANGED procs PROVE Handled'
  BY <1>a, <1>3 DEF Handled
<1>4. ASSUME NEW t, Cancel(t) PROVE Handled'
  BY <1>3, <1>4 DEF Cancel
<1>5. ASSUME NEW s, ClaimExperiment(s) \/ StopCoordinator(s) PROVE Handled'
  BY <1>3, <1>5 DEF ClaimExperiment, StopCoordinator
<1>6. ASSUME NEW s, NEW status, FinishExperiment(s, status) PROVE Handled'
  BY <1>3, <1>6 DEF FinishExperiment
<1>7. ASSUME UNCHANGED vars PROVE Handled'
  BY <1>3, <1>7 DEF vars
<1> QED
  BY <1>1, <1>2, <1>4, <1>5, <1>6, <1>7 DEF Next

\* Every step keeps the rows well typed.
LEMMA TypeStep ==
  ASSUME Inv, [Next]_vars
  PROVE  Tables'
<1> USE DEF missionVars, runVars, labVars
<1>a. /\ Tables /\ RunsAreBound /\ WorkIsAsked /\ Handled'
      /\ DOMAIN runs = Turns /\ \A t \in Turns : runs[t] = NoRun \/ IsRun(runs[t])
      /\ steps \in [Turns -> Seq(StepKinds)] /\ notices \in [Turns -> Seq(NoticeKinds)]
      /\ tools \in [Turns -> [Calls -> ToolRow]]
  BY HandledStep DEF Inv, JournalInv, Tables
<1> DEFINE MissionOK == (mission = NoMission \/ mission \in MissionRow) /\ journal \in Seq(EventRow)
           RunsOK    == DOMAIN runs = Turns /\ \A t \in Turns : runs[t] = NoRun \/ IsRun(runs[t])
           LogsOK    == /\ steps \in [Turns -> Seq(StepKinds)]
                        /\ notices \in [Turns -> Seq(NoticeKinds)]
           ToolsOK   == tools \in [Turns -> [Calls -> ToolRow]]
           LabOK     == experiments \in [Specs -> ExperimentStates]
<1>b. MissionOK /\ RunsOK /\ LogsOK /\ ToolsOK /\ LabOK
  BY <1>a DEF Tables
<1>c. ASSUME MissionOK', RunsOK', LogsOK', ToolsOK', LabOK' PROVE Tables'
  BY <1>a, <1>c DEF Tables
<1>1. /\ UNCHANGED <<mission, journal>> => MissionOK'
      /\ UNCHANGED runs => RunsOK'
      /\ UNCHANGED <<steps, notices>> => LogsOK'
      /\ UNCHANGED tools => ToolsOK'
      /\ UNCHANGED experiments => LabOK'
  BY <1>b
<1>2. ASSUME NEW t \in Turns, RunKept(t) PROVE RunsOK'
  BY <1>2, <1>b DEF RunKept
<1>3. ASSUME NEW t \in Turns,
             UNCHANGED steps \/ StepWritten(t), UNCHANGED notices \/ NoticeWritten(t)
      PROVE  LogsOK'
  <2>1. steps' \in [Turns -> Seq(StepKinds)]
    <3>1. ASSUME NEW k \in StepKinds, AppendStep(t, k) PROVE steps' \in [Turns -> Seq(StepKinds)]
      BY <1>a, <3>1, LogAppend DEF AppendStep
    <3> QED
      BY <1>a, <1>3, <3>1 DEF StepWritten
  <2>2. notices' \in [Turns -> Seq(NoticeKinds)]
    <3>1. ASSUME NEW k \in NoticeKinds, AppendNotice(t, k) PROVE notices' \in [Turns -> Seq(NoticeKinds)]
      BY <1>a, <3>1, LogAppend DEF AppendNotice
    <3> QED
      BY <1>a, <1>3, <3>1 DEF NoticeWritten
  <2> QED
    BY <2>1, <2>2
<1>4. ASSUME NEW t \in Turns, UNCHANGED tools \/ ToolWritten(t) PROVE ToolsOK'
  <2>1. ASSUME NEW c \in Calls, NEW x \in ToolRow, tools' = [tools EXCEPT ![t][c] = x] PROVE ToolsOK'
    <3>1. [tools[t] EXCEPT ![c] = x] \in [Calls -> ToolRow]
      BY <1>b
    <3> QED
      BY <1>b, <2>1, <3>1
  <2> HIDE DEF ToolsOK
  <2> QED
    BY <1>1, <1>4, <2>1 DEF ToolWritten
<1>5. ASSUME NEW h \in Handlers, Works(h) \/ Stop(h) PROVE Tables'
  <2> DEFINE t == procs[h].turn
  <2>1. IsHandler(procs[h]) /\ t \in Turns /\ Writes(h) /\ procs[h] # Idle
    BY <1>a, <1>5, WorkProceeds, WorkWrites DEF Tables, IsHandler, Works, Stop
  <2>2. RunsOK'
    <3>1. CASE Capture(h)
      BY <1>a, <2>1, <3>1, CaptureWrites
    <3>2. CASE BindManifest(h)
      <4>1. IsRun(runs[t])
        BY <1>a, <2>1, <3>2 DEF BindManifest, RunsAreBound
      <4> QED
        BY <1>a, <2>1, <3>2, <4>1, BindWrites
    <3> QED
      BY <1>1, <1>2, <2>1, <3>1, <3>2 DEF Writes, RunWritten
  <2>3. LogsOK' /\ ToolsOK' /\ LabOK'
    BY <1>1, <1>3, <1>4, <2>1 DEF Writes
  <2>4. MissionOK'
    <3>1. mission # NoMission
      BY <1>a, <2>1 DEF WorkIsAsked
    <3> QED
      BY <1>a, <1>1, <2>1, <3>1, PersistWrites DEF Writes
  <2> HIDE DEF RunsOK, LogsOK, ToolsOK, LabOK, MissionOK
  <2> QED
    BY <1>c, <2>2, <2>3, <2>4
<1>6. ASSUME NEW h \in Handlers, NEW t \in Turns, Prepare(h, t) PROVE Tables'
  BY <1>a, <1>1, <1>c, <1>6, PrepareWrites DEF Prepare
<1>7. ASSUME NEW t \in Turns, Cancel(t) PROVE Tables'
  <2>1. RunsOK'
    BY <1>a, <1>1, <1>2, <1>7, CancelWrites
  <2>2. LogsOK'
    BY <1>a, <1>3, <1>7, CancelWrites DEF Cancel
  <2> QED
    BY <1>1, <1>c, <1>7, <2>1, <2>2 DEF Cancel
<1>8. ASSUME NEW s \in Specs, ClaimExperiment(s) PROVE Tables'
  BY <1>a, <1>1, <1>c, <1>8, ClaimWrites DEF ClaimExperiment
<1>9. ASSUME NEW s \in Specs, NEW status \in Terminal, FinishExperiment(s, status) PROVE Tables'
  BY <1>a, <1>b, <1>1, <1>c, <1>9, FinishWrites DEF FinishExperiment
<1>10. ASSUME NEW s, StopCoordinator(s) PROVE Tables'
  BY <1>1, <1>c, <1>10 DEF StopCoordinator
<1>11. ASSUME UNCHANGED vars PROVE Tables'
  BY <1>1, <1>c, <1>11 DEF vars
<1> QED
  BY <1>5, <1>6, <1>7, <1>8, <1>9, <1>10, <1>11 DEF Next

(***************************************************************************)
(* Runs: a handler's run is there and bound, and an outcome is final.      *)
(***************************************************************************)
\* Every step makes a run, binds one, keeps one, or leaves all alone.
RunsChange ==
  \/ UNCHANGED runs
  \/ \E t \in Turns : runs[t] # NoRun /\ RunKept(t)
  \/ \E h \in Handlers : procs[h] # Idle /\ IsHandler(procs[h]) /\ (Capture(h) \/ BindManifest(h))

\* A run is opened by a capture, bound by bind_manifest, or keeps what was bound.
LEMMA RunsStep ==
  ASSUME Inv, [Next]_vars
  PROVE  RunsChange
<1> USE DEF missionVars, runVars, labVars
<1>a. Tables /\ RunsAreBound
  BY DEF Inv
<1>1. ASSUME NEW h \in Handlers, Works(h) \/ Stop(h) PROVE RunsChange
  <2>1. IsHandler(procs[h]) /\ procs[h].turn \in Turns /\ Writes(h) /\ procs[h] # Idle
    BY <1>a, <1>1, WorkProceeds, WorkWrites DEF Tables, IsHandler, Works, Stop
  <2>2. ASSUME RunKept(procs[h].turn), UNCHANGED runs \/ procs[h].at # "CAPTURE" PROVE RunsChange
    BY <1>a, <2>1, <2>2 DEF RunsAreBound, RunsChange
  <2>3. CASE procs[h].at = "CAPTURE"
    <3>1. Capture(h) \/ UNCHANGED runs
      BY <1>1, <2>3 DEF Works, Stop, CaptureAgain, BindManifest, BoundAlready, DecideAnswer,
         DecideTools, Deciding, DecideInvalid, DecideFails, AuthorizeTool, DenyTool, CompleteTool,
         ExecuteFails, FailTool, Finish, Persist
    <3> QED
      BY <2>1, <3>1 DEF RunsChange
  <2> QED
    BY <2>1, <2>2, <2>3 DEF Writes, RunWritten, RunsChange
<1>2. ASSUME NEW t \in Turns, Cancel(t) PROVE RunsChange
  BY <1>a, <1>2, CancelWrites DEF RunsChange
<1>3. ASSUME NEW h, NEW t, Prepare(h, t) PROVE RunsChange
  BY <1>3 DEF Prepare, RunsChange
<1>4. ASSUME NEW s, ClaimExperiment(s) \/ StopCoordinator(s) PROVE RunsChange
  BY <1>4 DEF ClaimExperiment, StopCoordinator, RunsChange
<1>5. ASSUME NEW s, NEW status, FinishExperiment(s, status) PROVE RunsChange
  BY <1>5 DEF FinishExperiment, RunsChange
<1>6. ASSUME UNCHANGED vars PROVE RunsChange
  BY <1>6 DEF vars, RunsChange
<1> QED
  BY <1>1, <1>2, <1>3, <1>4, <1>5, <1>6 DEF Next

\* A run stays, keeps its context once it has one, and its outcome once it ended.
LEMMA RunsGrow ==
  ASSUME Inv, [Next]_vars, NEW t \in Turns, runs[t] # NoRun
  PROVE  /\ runs'[t] # NoRun
         /\ runs[t].context # NoContext => runs'[t].context # NoContext
         /\ runs[t].status \in Ended => runs'[t].status = runs[t].status
<1>a. Tables /\ RunsAreBound /\ DOMAIN runs = Turns /\ IsRun(runs[t])
  BY DEF Inv, Tables
<1>1. CASE UNCHANGED runs
  BY <1>1
<1>2. ASSUME NEW u \in Turns, RunKept(u)
      PROVE  /\ runs'[t] # NoRun
             /\ runs[t].context # NoContext => runs'[t].context # NoContext
             /\ runs[t].status \in Ended => runs'[t].status = runs[t].status
  BY <1>2, RowsAreNotEmpty DEF RunKept, IsRun, Ended, Terminal
<1>3. ASSUME NEW h \in Handlers, procs[h] # Idle, IsHandler(procs[h]), Capture(h)
      PROVE  runs'[t] = runs[t]
  BY <1>a, <1>3, CaptureWrites DEF IsHandler
<1>4. ASSUME NEW h \in Handlers, procs[h] # Idle, IsHandler(procs[h]), BindManifest(h)
      PROVE  /\ runs'[t] # NoRun
             /\ runs[t].context # NoContext => runs'[t].context # NoContext
             /\ runs[t].status \in Ended => runs'[t].status = runs[t].status
  <2> DEFINE u == procs[h].turn
  <2>1. u \in Turns /\ IsRun(runs[u]) /\ procs[h].context # NoContext
    BY <1>a, <1>4 DEF IsHandler, BindManifest, RunsAreBound, Tables
  <2>2. /\ \A x \in Turns : x # u => runs'[x] = runs[x]
        /\ runs[u].context = NoContext /\ IsRun(runs'[u]) /\ runs'[u].context = procs[h].context
    BY <1>a, <1>4, <2>1, BindWrites
  <2>3. CASE t = u
    <3>1. runs[t].status \notin Ended
      BY <1>a, <2>2, <2>3 DEF RunsAreBound
    <3>2. runs'[t] # NoRun
      BY <2>2, <2>3, RowsAreNotEmpty DEF IsRun
    <3> QED
      BY <2>1, <2>2, <2>3, <3>1, <3>2
  <2> QED
    BY <2>2, <2>3
<1> QED
  BY <1>1, <1>2, <1>3, <1>4, RunsStep DEF RunsChange

\* Every step keeps handlers within the runs they opened and bound.
LEMMA BoundStep ==
  ASSUME Inv, [Next]_vars
  PROVE  RunsAreBound'
<1> USE DEF missionVars, runVars, labVars
<1>a. Tables /\ RunsAreBound /\ DOMAIN runs = Turns /\ Tables'
  BY TypeStep DEF Inv, Tables
<1>1. ASSUME NEW t \in Turns, runs'[t] # NoRun, runs'[t].status \in Ended
      PROVE  runs'[t].context # NoContext
  <2>1. CASE UNCHANGED runs
    BY <1>a, <1>1, <2>1 DEF RunsAreBound
  <2>2. ASSUME NEW u \in Turns, runs[u] # NoRun, RunKept(u) PROVE runs'[t].context # NoContext
    <3>1. CASE t # u
      BY <1>a, <1>1, <2>2, <3>1 DEF RunKept, RunsAreBound
    <3>2. CASE t = u
      BY <1>a, <1>1, <2>2, <3>2 DEF RunKept, RunsAreBound
    <3> QED
      BY <3>1, <3>2
  <2>3. ASSUME NEW h \in Handlers, procs[h] # Idle, IsHandler(procs[h]), Capture(h)
        PROVE  runs'[t].context # NoContext
    <3>1. t # procs[h].turn /\ runs'[t] = runs[t]
      BY <1>a, <1>1, <2>3, CaptureWrites DEF IsHandler, Ended
    <3> QED
      BY <1>a, <1>1, <3>1 DEF RunsAreBound
  <2>4. ASSUME NEW h \in Handlers, procs[h] # Idle, IsHandler(procs[h]), BindManifest(h)
        PROVE  runs'[t].context # NoContext
    <3>1. procs[h].turn \in Turns /\ IsRun(runs[procs[h].turn])
      BY <1>a, <2>4 DEF IsHandler, BindManifest, RunsAreBound, Tables
    <3>2. t # procs[h].turn /\ runs'[t] = runs[t]
      BY <1>a, <1>1, <2>4, <3>1, BindWrites DEF Ended
    <3> QED
      BY <1>a, <1>1, <3>2 DEF RunsAreBound
  <2> QED
    BY <2>1, <2>2, <2>3, <2>4, RunsStep DEF RunsChange
<1> DEFINE HasRun(h) == procs'[h] # Idle =>
             /\ procs'[h].at # "CAPTURE" => runs'[procs'[h].turn] # NoRun
             /\ procs'[h].at \notin {"CAPTURE", "BIND"} => runs'[procs'[h].turn].context # NoContext
<1>2. ASSUME NEW h \in Handlers, procs'[h] = procs[h] PROVE HasRun(h)
  <2>1. procs[h] # Idle => procs[h].turn \in Turns
    BY <1>a DEF Tables, Handled, IsHandler
  <2>2. procs[h] # Idle =>
          /\ procs[h].at # "CAPTURE" => runs[procs[h].turn] # NoRun
          /\ procs[h].at \notin {"CAPTURE", "BIND"} => runs[procs[h].turn].context # NoContext
    BY <1>a DEF RunsAreBound
  <2> QED
    BY <1>2, <2>1, <2>2, RunsGrow
<1>3. ASSUME NEW h \in Handlers, Works(h) \/ Stop(h) PROVE HasRun(h)
  <2> DEFINE t == procs[h].turn
  <2>1. IsHandler(procs[h]) /\ t \in Turns /\ procs[h] # Idle /\ Proceeds(h)
    BY <1>a, <1>3, WorkProceeds DEF Tables, IsHandler, Works, Stop
  <2>2. SUFFICES ASSUME procs'[h] # Idle, procs'[h].turn = t, procs'[h].at # "CAPTURE"
                 PROVE  /\ runs'[t] # NoRun
                        /\ procs'[h].at \notin {"CAPTURE", "BIND"} => runs'[t].context # NoContext
    BY <2>1 DEF Proceeds
  <2>3. CASE procs[h].at \notin {"CAPTURE", "BIND"}
    BY <1>a, <2>1, <2>3, RunsGrow DEF RunsAreBound
  <2>4. CASE procs[h].at = "CAPTURE"
    <3>1. procs'[h].at = "BIND"
      BY <2>1, <2>2, <2>4 DEF Proceeds
    <3>2. CASE Capture(h)
      BY <1>a, <2>1, <3>1, <3>2, CaptureWrites, RowsAreNotEmpty DEF IsRun
    <3>3. CASE runs[t] # NoRun
      BY <2>1, <3>1, <3>3, RunsGrow
    <3>4. CASE Stop(h)
      BY <1>a, <2>2, <3>4, EndsEffect DEF Stop, Tables, Handled
    <3> QED
      BY <1>3, <2>4, <3>2, <3>3, <3>4 DEF Works, CaptureAgain, BindManifest, BoundAlready, DecideAnswer,
         DecideTools, Deciding, DecideInvalid, DecideFails, AuthorizeTool, DenyTool, CompleteTool,
         ExecuteFails, FailTool, Finish, Persist
  <2>5. CASE procs[h].at = "BIND"
    <3>1. runs[t] # NoRun /\ runs'[t] # NoRun /\ IsRun(runs[t])
      BY <1>a, <2>1, <2>5, RunsGrow DEF RunsAreBound, Tables
    <3>2. CASE BindManifest(h)
      BY <1>a, <2>1, <3>1, <3>2, BindWrites DEF IsHandler
    <3>3. CASE runs[t].context # NoContext
      BY <2>1, <3>1, <3>3, RunsGrow
    <3>4. CASE Stop(h)
      BY <1>a, <2>2, <3>4, EndsEffect DEF Stop, Tables, Handled
    <3> QED
      BY <1>3, <2>5, <3>1, <3>2, <3>3, <3>4 DEF Works, Capture, CaptureAgain, BoundAlready, DecideAnswer,
         DecideTools, Deciding, DecideInvalid, DecideFails, AuthorizeTool, DenyTool, CompleteTool,
         ExecuteFails, FailTool, Finish, Persist
  <2> QED
    BY <2>3, <2>4, <2>5
<1>4. ASSUME NEW h \in Handlers PROVE HasRun(h)
  <2>1. ASSUME NEW g \in Handlers, Works(g) \/ Stop(g) PROVE HasRun(h)
    <3>1. Proceeds(g)
      BY <1>a, <2>1, WorkProceeds DEF Tables
    <3> QED
      BY <1>2, <1>3, <2>1, <3>1 DEF Proceeds, OnlyRow
  <2>2. ASSUME NEW g \in Handlers, NEW t \in Turns, Prepare(g, t) PROVE HasRun(h)
    <3>1. OnlyRow(g) /\ procs'[g].at = "CAPTURE"
      BY <1>a, <2>2, PrepareEffect DEF Tables, Handled
    <3> QED
      BY <1>2, <3>1 DEF OnlyRow
  <2>3. ASSUME NEW t, Cancel(t) PROVE HasRun(h)
    BY <1>2, <2>3 DEF Cancel
  <2>4. ASSUME NEW s, ClaimExperiment(s) \/ StopCoordinator(s) PROVE HasRun(h)
    BY <1>2, <2>4 DEF ClaimExperiment, StopCoordinator
  <2>5. ASSUME NEW s, NEW status, FinishExperiment(s, status) PROVE HasRun(h)
    BY <1>2, <2>5 DEF FinishExperiment
  <2>6. ASSUME UNCHANGED vars PROVE HasRun(h)
    BY <1>2, <2>6 DEF vars
  <2> HIDE DEF HasRun
  <2> QED
    BY <2>1, <2>2, <2>3, <2>4, <2>5, <2>6 DEF Next
<1> QED
  BY <1>1, <1>4 DEF RunsAreBound

(***************************************************************************)
(* The journal: one message and one answer of a turn.                      *)
(***************************************************************************)
\* A mission is not an empty cell.
LEMMA MissionIsThere == \A m \in MissionRow : m # NoMission
  BY DEF MissionRow, NoMission

\* The sets of the journal after a step, in the three ways they can change.
LEMMA JournalChange ==
  ASSUME Inv, [Next]_vars
  PROVE  \/ /\ \A u \in Turns : /\ Answers(journal', u) = Answers(journal, u)
                                /\ Asked(journal', u) = Asked(journal, u)
            /\ (mission' = NoMission => journal' = <<>>)
            /\ (mission # NoMission => mission' # NoMission)
            /\ abandoned \subseteq abandoned'
         \/ \E h \in Handlers, t \in Turns : Prepare(h, t)
         \/ /\ UNCHANGED abandoned /\ mission' # NoMission
            /\ \E h \in Handlers :
                 /\ Persist(h) /\ procs[h] # Idle /\ procs[h].turn \in Turns
                 /\ \A u : Asked(journal', u) = Asked(journal, u)
                 /\ \A u : u # procs[h].turn => Answers(journal', u) = Answers(journal, u)
                 /\ Answers(journal', procs[h].turn) = IF Answers(journal, procs[h].turn) = {}
                      THEN {Len(journal) + 1} ELSE Answers(journal, procs[h].turn)
<1> USE DEF missionVars, runVars, labVars
<1> DEFINE Same == /\ \A u \in Turns : /\ Answers(journal', u) = Answers(journal, u)
                                       /\ Asked(journal', u) = Asked(journal, u)
                   /\ (mission' = NoMission => journal' = <<>>)
                   /\ (mission # NoMission => mission' # NoMission)
                   /\ abandoned \subseteq abandoned'
           Wrote(h) == /\ Persist(h) /\ procs[h] # Idle /\ procs[h].turn \in Turns
                       /\ \A u : Asked(journal', u) = Asked(journal, u)
                       /\ \A u : u # procs[h].turn => Answers(journal', u) = Answers(journal, u)
                       /\ Answers(journal', procs[h].turn) = IF Answers(journal, procs[h].turn) = {}
                            THEN {Len(journal) + 1} ELSE Answers(journal, procs[h].turn)
           Asks == \E h \in Handlers, t \in Turns : Prepare(h, t)
           Tells == UNCHANGED abandoned /\ mission' # NoMission /\ \E h \in Handlers : Wrote(h)
<1>a. Tables /\ RunsAreBound /\ WorkIsAsked /\ LabInv
  BY DEF Inv, JournalInv
<1>1. ASSUME UNCHANGED <<mission, journal>>, abandoned \subseteq abandoned' PROVE Same
  BY <1>a, <1>1 DEF WorkIsAsked
<1>2. ASSUME NEW h \in Handlers, Works(h) \/ Stop(h), ~Persist(h) PROVE Same
  <2>1. UNCHANGED missionVars
    BY <1>a, <1>2, WorkWrites DEF Writes
  <2>2. abandoned \subseteq abandoned'
    <3>1. ASSUME Ends(h) PROVE abandoned \subseteq abandoned'
      BY <3>1 DEF Ends
    <3> QED
      BY <1>2, <3>1 DEF Works, Stop, Capture, CaptureAgain, BindManifest, BoundAlready, DecideAnswer,
         DecideTools, DecideInvalid, DecideFails, AuthorizeTool, DenyTool, CompleteTool, ExecuteFails,
         FailTool, Finish
  <2> QED
    BY <1>1, <2>1, <2>2
<1>3. ASSUME NEW h \in Handlers, procs[h] # Idle, Persist(h) PROVE Same \/ Tells
  <2>1. IsHandler(procs[h]) /\ mission # NoMission /\ procs[h].turn \in Turns
    BY <1>a, <1>3 DEF Tables, Handled, WorkIsAsked, IsHandler
  <2>2. CASE UNCHANGED missionVars /\ (Ends(h) \/ UNCHANGED abandoned)
    BY <1>1, <2>2 DEF Ends
  <2>3. CASE /\ mission' \in MissionRow /\ UNCHANGED abandoned
             /\ \A u : Asked(journal', u) = Asked(journal, u)
             /\ \A u : u # procs[h].turn => Answers(journal', u) = Answers(journal, u)
             /\ Answers(journal', procs[h].turn) = IF Answers(journal, procs[h].turn) = {}
                  THEN {Len(journal) + 1} ELSE Answers(journal, procs[h].turn)
    <3>1. mission' # NoMission /\ Wrote(h)
      BY <1>3, <2>1, <2>3, MissionIsThere
    <3> QED
      BY <2>3, <3>1
  <2> HIDE DEF Same, Tells
  <2> QED
    BY <1>a, <1>3, <2>1, <2>2, <2>3, PersistWrites
<1>4. ASSUME NEW t, Cancel(t) PROVE Same
  BY <1>1, <1>4 DEF Cancel
<1>5. ASSUME NEW s \in Specs, ClaimExperiment(s) PROVE Same
  <2>1. UNCHANGED abandoned
    BY <1>5 DEF ClaimExperiment
  <2> QED
    BY <1>a, <1>5, <2>1, ClaimWrites, MissionIsThere
<1>6. ASSUME NEW s \in Specs, NEW status \in Terminal, FinishExperiment(s, status) PROVE Same
  <2>1. UNCHANGED <<abandoned, mission>> /\ s \in coordinator
    BY <1>6 DEF FinishExperiment
  <2>2. s \in Planned
    BY <1>a, <2>1 DEF LabInv, ExperimentsAccounted, Planned
  <2>3. mission # NoMission
    BY <1>a, <2>2 DEF LabInv
  <2> QED
    BY <1>a, <1>6, <2>1, <2>3, FinishWrites
<1>7. ASSUME NEW s, StopCoordinator(s) PROVE Same
  BY <1>1, <1>7 DEF StopCoordinator
<1>8. ASSUME UNCHANGED vars PROVE Same
  BY <1>1, <1>8 DEF vars
<1> HIDE DEF Same, Wrote, Tells
<1>9. ASSUME NEW h \in Handlers, Works(h) \/ Stop(h) PROVE Same \/ Tells
  <2>1. procs[h] # Idle
    BY <1>9 DEF Works, Stop
  <2> QED
    BY <1>2, <1>3, <1>9, <2>1
<1>10. Same \/ Asks \/ Tells
  BY <1>4, <1>5, <1>6, <1>7, <1>8, <1>9 DEF Next
<1> QED
  BY <1>10 DEF Same, Wrote, Tells

\* Whoever is under way after a step works on a turn that was asked.
LEMMA AskedStep ==
  ASSUME Inv, [Next]_vars
  PROVE  WorkIsAsked'
<1> USE DEF missionVars, runVars, labVars
<1>a. Tables /\ WorkIsAsked
  BY DEF Inv, JournalInv
<1>1. ASSUME NEW h \in Handlers, NEW t \in Turns, Prepare(h, t) PROVE WorkIsAsked'
  <2>1. /\ mission' \in MissionRow /\ Asked(journal', t) # {}
        /\ \A u : Asked(journal, u) # {} => Asked(journal', u) # {}
    BY <1>a, <1>1, PrepareWrites
  <2>2. mission' # NoMission
    BY <2>1, MissionIsThere
  <2>3. OnlyRow(h) /\ procs'[h].turn = t
    BY <1>a, <1>1, PrepareEffect DEF Tables, Handled
  <2> QED
    BY <1>a, <2>1, <2>2, <2>3 DEF WorkIsAsked, OnlyRow
<1>2. ASSUME NEW g \in Handlers, procs'[g] # Idle, ~\E h \in Handlers, t \in Turns : Prepare(h, t)
      PROVE  procs[g] # Idle /\ procs'[g].turn = procs[g].turn /\ procs[g].turn \in Turns
  <2>1. ASSUME UNCHANGED procs PROVE procs[g] # Idle /\ procs'[g].turn = procs[g].turn
    BY <1>2, <2>1
  <2>2. ASSUME NEW h \in Handlers, Works(h) \/ Stop(h)
        PROVE  procs[g] # Idle /\ procs'[g].turn = procs[g].turn
    <3>1. Proceeds(h) /\ procs[h] # Idle
      BY <1>a, <2>2, WorkProceeds DEF Tables, Works, Stop
    <3> QED
      BY <1>2, <3>1 DEF Proceeds, OnlyRow
  <2>3. ASSUME NEW t, Cancel(t) PROVE UNCHANGED procs
    BY <2>3 DEF Cancel
  <2>4. ASSUME NEW s, ClaimExperiment(s) \/ StopCoordinator(s) PROVE UNCHANGED procs
    BY <2>4 DEF ClaimExperiment, StopCoordinator
  <2>5. ASSUME NEW s, NEW status, FinishExperiment(s, status) PROVE UNCHANGED procs
    BY <2>5 DEF FinishExperiment
  <2>6. ASSUME UNCHANGED vars PROVE UNCHANGED procs
    BY <2>6 DEF vars
  <2>7. procs[g] # Idle /\ procs'[g].turn = procs[g].turn
    BY <1>2, <2>1, <2>2, <2>3, <2>4, <2>5, <2>6 DEF Next
  <2> QED
    BY <1>a, <2>7 DEF Tables, Handled, IsHandler
<1>3. ASSUME ~\E h \in Handlers, t \in Turns : Prepare(h, t)
      PROVE  /\ mission' = NoMission => journal' = <<>>
             /\ mission # NoMission => mission' # NoMission
             /\ \A u \in Turns : Asked(journal', u) = Asked(journal, u)
  BY <1>3, JournalChange
<1> QED
  BY <1>a, <1>1, <1>2, <1>3 DEF WorkIsAsked

\* Every step keeps one message and at most one answer of a turn, in this order.
LEMMA OrderStep ==
  ASSUME Inv, [Next]_vars
  PROVE  JournalIsOrdered'
<1>a. Tables /\ WorkIsAsked /\ JournalIsOrdered
  BY DEF Inv, JournalInv
<1>1. CASE \A u \in Turns : /\ Answers(journal', u) = Answers(journal, u)
                            /\ Asked(journal', u) = Asked(journal, u)
  BY <1>a, <1>1 DEF JournalIsOrdered
<1>2. ASSUME NEW h \in Handlers, NEW t \in Turns, Prepare(h, t) PROVE JournalIsOrdered'
  <2>1. /\ \A u : Answers(journal', u) = Answers(journal, u)
        /\ \A u : u # t => Asked(journal', u) = Asked(journal, u)
        /\ Asked(journal, t) # {} => Asked(journal', t) = Asked(journal, t)
        /\ Asked(journal, t) = {} => \E n : Asked(journal', t) = {n}
    BY <1>a, <1>2, PrepareWrites
  <2>2. CASE Asked(journal, t) # {}
    BY <1>a, <2>1, <2>2 DEF JournalIsOrdered
  <2>3. CASE Asked(journal, t) = {}
    <3>1. Answers(journal, t) = {}
      BY <1>a, <2>3 DEF JournalIsOrdered
    <3> QED
      BY <1>a, <2>1, <2>3, <3>1 DEF JournalIsOrdered
  <2> QED
    BY <2>2, <2>3
<1>3. ASSUME NEW h \in Handlers, procs[h] # Idle, procs[h].turn \in Turns,
             \A u : Asked(journal', u) = Asked(journal, u),
             \A u : u # procs[h].turn => Answers(journal', u) = Answers(journal, u),
             Answers(journal', procs[h].turn) = IF Answers(journal, procs[h].turn) = {}
               THEN {Len(journal) + 1} ELSE Answers(journal, procs[h].turn)
      PROVE  JournalIsOrdered'
  <2> DEFINE t == procs[h].turn
  <2>1. CASE Answers(journal, t) # {}
    BY <1>a, <1>3, <2>1 DEF JournalIsOrdered
  <2>2. CASE Answers(journal, t) = {}
    <3>1. PICK j : j \in Asked(journal, t)
      BY <1>a, <1>3 DEF WorkIsAsked
    <3>2. j < Len(journal) + 1
      BY <1>a, <3>1 DEF Asked, Tables
    <3>3. Answers(journal', t) = {Len(journal) + 1} /\ j \in Asked(journal', t)
      BY <1>3, <2>2, <3>1
    <3> QED
      BY <1>a, <1>3, <3>2, <3>3 DEF JournalIsOrdered
  <2> QED
    BY <2>1, <2>2
<1> QED
  BY <1>1, <1>2, <1>3, JournalChange

\* A turn without an answer keeps its first handler, or is given up with it.
LEMMA DueStep ==
  ASSUME Inv, [Next]_vars
  PROVE  AnswerIsDue'
<1> USE DEF missionVars, runVars, labVars
<1>a. Tables /\ RunsAreBound /\ WorkIsAsked /\ AnswerIsDue /\ Handled
  BY DEF Inv, JournalInv, Tables
<1> SUFFICES ASSUME NEW t \in Turns, runs'[t] # NoRun, Answers(journal', t) = {}
             PROVE  t \in abandoned' \/ \E h \in Handlers : Answering(h, t)'
  BY DEF AnswerIsDue
<1>1. Answers(journal, t) = {} /\ abandoned \subseteq abandoned'
  <2>1. ASSUME NEW h \in Handlers, NEW u \in Turns, Prepare(h, u)
        PROVE  Answers(journal, t) = {} /\ UNCHANGED abandoned
    BY <1>a, <2>1, PrepareWrites DEF Prepare
  <2>2. ASSUME NEW h, procs[h].turn \in Turns,
               \A u : u # procs[h].turn => Answers(journal', u) = Answers(journal, u),
               Answers(journal', procs[h].turn) = IF Answers(journal, procs[h].turn) = {}
                 THEN {Len(journal) + 1} ELSE Answers(journal, procs[h].turn)
        PROVE  Answers(journal, t) = {}
    BY <2>2
  <2> QED
    BY <2>1, <2>2, JournalChange
<1>2. ASSUME NEW h \in Handlers, procs'[h] = procs[h], Answering(h, t) PROVE Answering(h, t)'
  BY <1>2 DEF Answering
<1>3. ASSUME NEW h \in Handlers, Works(h) \/ Stop(h), Answering(h, t)
      PROVE  t \in abandoned' \/ Answering(h, t)'
  <2>1. Proceeds(h) /\ IsHandler(procs[h]) /\ procs[h].turn = t /\ procs[h].at # "CAPTURE"
    BY <1>a, <1>3, WorkProceeds DEF Answering
  <2>2. CASE procs'[h] # Idle
    BY <1>3, <2>1, <2>2 DEF Proceeds, Answering
  <2>3. CASE procs'[h] = Idle
    <3>1. ASSUME Ends(h) PROVE t \in abandoned'
      BY <1>3, <2>1, <3>1 DEF Ends, Answering
    <3>2. ASSUME Persist(h) PROVE t \in abandoned'
      <4>1. mission # NoMission
        BY <1>a, <1>3 DEF WorkIsAsked, Answering
      <4>2. Answers(journal, t) = {} /\ Answers(journal', t) = {} /\ ~procs[h].duplicate
        BY <1>1, <1>3 DEF Answering
      <4> QED
        BY <1>a, <2>1, <3>1, <3>2, <4>1, <4>2, PersistWrites
    <3>3. ASSUME DOMAIN procs'[h] = ProcFields PROVE FALSE
      BY <2>3, <3>3, RowsAreNotEmpty
    <3>4. DOMAIN procs = Handlers /\ DOMAIN procs[h] = ProcFields
      BY <1>a, <2>1 DEF Handled, IsHandler
    <3>5. ASSUME NEW stage, At(h, stage) PROVE FALSE
      BY <3>3, <3>4, <3>5, AtEffect DEF OnlyFields
    <3>6. ASSUME Fails(h) PROVE FALSE
      BY <3>3, <3>4, <3>6, FailsEffect DEF OnlyFields
    <3>7. ASSUME NEW status, DecideAnswer(h, status) PROVE FALSE
      BY <3>3, <3>4, <3>7, AnswerEffect DEF OnlyFields
    <3>8. ASSUME NEW batch, DecideTools(h, batch) PROVE FALSE
      BY <3>3, <3>4, <3>8, BatchEffect DEF OnlyFields
    <3>9. ASSUME NEW output, CompleteTool(h, output) PROVE FALSE
      BY <3>3, <3>4, <3>9, CompleteEffect DEF OnlyFields
    <3>10. ASSUME procs' = [procs EXCEPT ![h].calls = @ + 1] PROVE FALSE
      BY <3>3, <3>4, <3>10
    <3>11. ASSUME Capture(h) \/ CaptureAgain(h) PROVE FALSE
      BY <2>1, <3>11 DEF Capture, CaptureAgain
    <3>12. ASSUME BindManifest(h) \/ AuthorizeTool(h) \/ ExecuteFails(h) \/ Finish(h) PROVE FALSE
      BY <3>5, <3>12 DEF BindManifest, AuthorizeTool, ExecuteFails, Finish
    <3>13. ASSUME BoundAlready(h) \/ FailTool(h) \/ Stop(h) PROVE t \in abandoned'
      BY <3>1, <3>5, <3>6, <3>13 DEF BoundAlready, FailTool, Stop
    <3>14. ASSUME DecideInvalid(h) \/ DecideFails(h) \/ DenyTool(h) PROVE FALSE
      BY <3>6, <3>10, <3>14 DEF DecideInvalid, DecideFails, DenyTool
    <3> QED
      BY <1>3, <3>2, <3>7, <3>8, <3>9, <3>11, <3>12, <3>13, <3>14 DEF Works
  <2> QED
    BY <2>2, <2>3
<1>4. ASSUME NEW h \in Handlers, Answering(h, t)
      PROVE  t \in abandoned' \/ \E g \in Handlers : Answering(g, t)'
  <2>1. ASSUME UNCHANGED procs PROVE Answering(h, t)'
    BY <1>2, <1>4, <2>1
  <2>2. ASSUME NEW g \in Handlers, Works(g) \/ Stop(g) PROVE t \in abandoned' \/ Answering(h, t)'
    <3>1. OnlyRow(g)
      BY <1>a, <2>2, WorkProceeds DEF Proceeds
    <3> QED
      BY <1>2, <1>3, <1>4, <2>2, <3>1 DEF OnlyRow
  <2>3. ASSUME NEW g \in Handlers, NEW u \in Turns, Prepare(g, u) PROVE Answering(h, t)'
    <3>1. OnlyRow(g) /\ procs[g] = Idle
      BY <1>a, <2>3, PrepareEffect DEF Prepare, Handled
    <3>2. h # g
      BY <1>4, <3>1 DEF Answering
    <3> QED
      BY <1>2, <1>4, <3>1, <3>2 DEF OnlyRow
  <2>4. ASSUME NEW u, Cancel(u) PROVE UNCHANGED procs
    BY <2>4 DEF Cancel
  <2>5. ASSUME NEW s, ClaimExperiment(s) \/ StopCoordinator(s) PROVE UNCHANGED procs
    BY <2>5 DEF ClaimExperiment, StopCoordinator
  <2>6. ASSUME NEW s, NEW status, FinishExperiment(s, status) PROVE UNCHANGED procs
    BY <2>6 DEF FinishExperiment
  <2>7. ASSUME UNCHANGED vars PROVE UNCHANGED procs
    BY <2>7 DEF vars
  <2> QED
    BY <2>1, <2>2, <2>3, <2>4, <2>5, <2>6, <2>7 DEF Next
<1>5. CASE runs[t] # NoRun
  BY <1>a, <1>1, <1>4, <1>5 DEF AnswerIsDue
<1>6. CASE runs[t] = NoRun
  <2>1. ASSUME NEW u \in Turns, runs[u] # NoRun, RunKept(u) PROVE FALSE
    BY <1>6, <2>1 DEF RunKept
  <2>2. ASSUME NEW h \in Handlers, procs[h] # Idle, IsHandler(procs[h]), BindManifest(h) PROVE FALSE
    <3>1. procs[h].turn \in Turns /\ runs[procs[h].turn] # NoRun /\ IsRun(runs[procs[h].turn])
      BY <1>a, <2>2 DEF IsHandler, BindManifest, RunsAreBound, Tables
    <3> QED
      BY <1>a, <1>6, <2>2, <3>1, BindWrites DEF Tables
  <2>3. ASSUME NEW h \in Handlers, procs[h] # Idle, IsHandler(procs[h]), Capture(h)
        PROVE  Answering(h, t)'
    <3>1. procs[h].turn = t
      BY <1>a, <1>6, <2>3, CaptureWrites DEF Tables, IsHandler
    <3>2. OnlyFields(h, {"at"}) /\ procs'[h].at = "BIND" /\ procs[h].at = "CAPTURE"
      BY <1>a, <2>3, AtEffect DEF Capture, Handled, IsHandler
    <3>3. procs'[h].turn = t /\ procs'[h].duplicate = FALSE /\ procs'[h] # Idle
      BY <2>3, <3>1, <3>2, RowsAreNotEmpty DEF OnlyFields, ProcFields, IsHandler
    <3> QED
      BY <3>2, <3>3 DEF Answering
  <2>4. CASE UNCHANGED runs
    BY <1>6, <2>4
  <2> QED
    BY <2>1, <2>2, <2>3, <2>4, RunsStep DEF RunsChange
<1> QED
  BY <1>5, <1>6

(***************************************************************************)
(* Tools: a result is recorded once and observed after it was recorded.    *)
(***************************************************************************)
\* A completed call keeps its result.
LEMMA ToolsGrow ==
  ASSUME Inv, [Next]_vars, NEW t \in Turns, NEW c \in Calls, tools[t][c].status = "COMPLETED"
  PROVE  tools'[t][c] = tools[t][c]
<1> USE DEF missionVars, runVars, labVars
<1>a. Tables /\ RunsAreBound /\ tools \in [Turns -> [Calls -> ToolRow]]
  BY DEF Inv, Tables
<1>1. ASSUME NEW h \in Handlers, Works(h) \/ Stop(h) PROVE tools'[t][c] = tools[t][c]
  <2>1. /\ procs[h].turn \in Turns /\ (UNCHANGED tools \/ ToolWritten(procs[h].turn))
    BY <1>a, <1>1, WorkProceeds, WorkWrites DEF Tables, IsHandler, Writes
  <2>2. ASSUME NEW u \in Turns, NEW d \in Calls, NEW x, tools' = [tools EXCEPT ![u][d] = x],
               tools[u][d].status = "COMPLETED" => x = tools[u][d]
        PROVE  tools'[t][c] = tools[t][c]
    BY <1>a, <2>2
  <2> QED
    BY <2>1, <2>2 DEF ToolWritten
<1>2. ASSUME NEW h, NEW u, Prepare(h, u) PROVE UNCHANGED tools
  BY <1>2 DEF Prepare
<1>3. ASSUME NEW u, Cancel(u) PROVE UNCHANGED tools
  BY <1>3 DEF Cancel
<1>4. ASSUME NEW s, ClaimExperiment(s) \/ StopCoordinator(s) PROVE UNCHANGED tools
  BY <1>4 DEF ClaimExperiment, StopCoordinator
<1>5. ASSUME NEW s, NEW status, FinishExperiment(s, status) PROVE UNCHANGED tools
  BY <1>5 DEF FinishExperiment
<1>6. ASSUME UNCHANGED vars PROVE UNCHANGED tools
  BY <1>6 DEF vars
<1> QED
  BY <1>1, <1>2, <1>3, <1>4, <1>5, <1>6 DEF Next

Results(log) == {i \in DOMAIN log : log[i] = "TOOL_RESULT"}

\* A log has finitely many results; another entry is one more, or none.
LEMMA ResultsAppend ==
  ASSUME NEW log \in Seq(StepKinds), NEW k \in StepKinds
  PROVE  /\ IsFiniteSet(Results(log)) /\ Cardinality(Results(log)) \in Nat
         /\ Cardinality(Results(Append(log, k)))
              = Cardinality(Results(log)) + (IF k = "TOOL_RESULT" THEN 1 ELSE 0)
<1>1. /\ Len(log) \in Nat /\ DOMAIN log = 1..Len(log)
      /\ DOMAIN Append(log, k) = 1 .. Len(log) + 1
      /\ Append(log, k)[Len(log) + 1] = k /\ \A i \in DOMAIN log : Append(log, k)[i] = log[i]
  OBVIOUS
<1>2. IsFiniteSet(1..Len(log))
  BY <1>1, FS_Interval
<1>3. IsFiniteSet(Results(log)) /\ Cardinality(Results(log)) \in Nat
  BY <1>1, <1>2, FS_Subset, FS_CardinalityType DEF Results
<1>4. CASE k = "TOOL_RESULT"
  <2>1. Results(Append(log, k)) = Results(log) \cup {Len(log) + 1} /\ Len(log) + 1 \notin Results(log)
    BY <1>1, <1>4 DEF Results
  <2> QED
    BY <1>3, <1>4, <2>1, FS_AddElement
<1>5. CASE k # "TOOL_RESULT"
  <2>1. Results(Append(log, k)) = Results(log)
    BY <1>1, <1>5 DEF Results
  <2> QED
    BY <1>3, <1>5, <2>1
<1> QED
  BY <1>3, <1>4, <1>5

\* No step removes a result.
LEMMA ResultsGrow ==
  ASSUME Inv, [Next]_vars, NEW t \in Turns
  PROVE  /\ Cardinality(Results(steps[t])) \in Nat /\ Cardinality(Results(steps'[t])) \in Nat
         /\ Cardinality(Results(steps[t])) <= Cardinality(Results(steps'[t]))
<1> USE DEF missionVars, runVars, labVars
<1>a. Tables /\ RunsAreBound /\ steps \in [Turns -> Seq(StepKinds)] /\ steps[t] \in Seq(StepKinds)
  BY DEF Inv, Tables
<1>b. "INPUT" \in StepKinds
  BY DEF StepKinds
<1>c. Cardinality(Results(steps[t])) \in Nat
  BY <1>a, <1>b, ResultsAppend
<1>1. ASSUME NEW k \in StepKinds, steps'[t] = Append(steps[t], k)
      PROVE  /\ Cardinality(Results(steps'[t])) \in Nat
             /\ Cardinality(Results(steps[t])) <= Cardinality(Results(steps'[t]))
  BY <1>a, <1>c, <1>1, ResultsAppend
<1>2. steps'[t] = steps[t] \/ \E k \in StepKinds : steps'[t] = Append(steps[t], k)
  <2>1. ASSUME NEW h \in Handlers, Works(h) \/ Stop(h)
        PROVE  steps'[t] = steps[t] \/ \E k \in StepKinds : steps'[t] = Append(steps[t], k)
    <3>1. /\ procs[h].turn \in Turns /\ (UNCHANGED steps \/ StepWritten(procs[h].turn))
      BY <1>a, <2>1, WorkProceeds, WorkWrites DEF Tables, IsHandler, Writes
    <3> QED
      BY <1>a, <3>1 DEF StepWritten, AppendStep
  <2>2. ASSUME NEW h, NEW u, Prepare(h, u) PROVE UNCHANGED steps
    BY <2>2 DEF Prepare
  <2>3. ASSUME NEW u, Cancel(u) PROVE UNCHANGED steps
    BY <2>3 DEF Cancel
  <2>4. ASSUME NEW s, ClaimExperiment(s) \/ StopCoordinator(s) PROVE UNCHANGED steps
    BY <2>4 DEF ClaimExperiment, StopCoordinator
  <2>5. ASSUME NEW s, NEW status, FinishExperiment(s, status) PROVE UNCHANGED steps
    BY <2>5 DEF FinishExperiment
  <2>6. ASSUME UNCHANGED vars PROVE UNCHANGED steps
    BY <2>6 DEF vars
  <2> QED
    BY <2>1, <2>2, <2>3, <2>4, <2>5, <2>6 DEF Next
<1> QED
  BY <1>c, <1>1, <1>2

\* What a handler has observed stays recorded, and it observes what it records.
LEMMA ObservedStep ==
  ASSUME Inv, [Next]_vars
  PROVE  ObservationsAreRecorded'
<1>a. Tables /\ Handled /\ tools \in [Turns -> [Calls -> ToolRow]] /\ steps \in [Turns -> Seq(StepKinds)]
  BY DEF Inv, Tables
<1>b. \A h \in Handlers : procs[h] # Idle =>
        /\ \A c \in procs[h].done : tools[procs[h].turn][c].status = "COMPLETED"
        /\ Cardinality(procs[h].done) <= Cardinality(Results(steps[procs[h].turn]))
  BY DEF Inv, ObservationsAreRecorded, Results
<1> DEFINE Recorded(p) ==
             /\ \A c \in p.done : tools'[p.turn][c].status = "COMPLETED"
             /\ Cardinality(p.done) <= Cardinality(Results(steps'[p.turn]))
<1>1. ASSUME NEW h \in Handlers, procs[h] # Idle, NEW p, p.turn = procs[h].turn, p.done = procs[h].done
      PROVE  Recorded(p)
  <2>1. procs[h].turn \in Turns /\ procs[h].done \subseteq Calls /\ IsFiniteSet(procs[h].done)
    BY <1>a, <1>1 DEF Handled, IsHandler
  <2>2. \A c \in procs[h].done : tools'[procs[h].turn][c].status = "COMPLETED"
    BY <1>b, <1>1, <2>1, ToolsGrow
  <2>3. Cardinality(procs[h].done) \in Nat
    BY <2>1, FS_CardinalityType
  <2>4. Cardinality(procs[h].done) <= Cardinality(Results(steps'[procs[h].turn]))
    BY <1>b, <1>1, <2>1, <2>3, ResultsGrow
  <2> QED
    BY <1>1, <2>2, <2>4
<1>2. ASSUME NEW h \in Handlers, procs[h] # Idle, NEW output \in Outputs, CompleteTool(h, output)
      PROVE  Recorded(procs'[h])
  <2> DEFINE t == procs[h].turn
             c == Head(procs[h].batch)
             x == [status |-> "COMPLETED", output |-> output]
  <2>1. /\ IsHandler(procs[h]) /\ t \in Turns /\ procs[h].at = "EXECUTE"
        /\ tools' = [tools EXCEPT ![t][c] = x] /\ AppendStep(t, "TOOL_RESULT")
    BY <1>a, <1>2 DEF Handled, IsHandler, CompleteTool
  <2>2. /\ c \in Calls /\ procs[h].done \subseteq Calls /\ IsFiniteSet(procs[h].done)
    BY <2>1 DEF IsHandler
  <2>3. procs'[h].turn = t /\ procs'[h].done = procs[h].done \cup {c}
    BY <1>a, <1>2, <2>1, CompleteEffect DEF Handled, IsHandler, OnlyFields, ProcFields
  <2>4. x.status = "COMPLETED"
    OBVIOUS
  <2> HIDE DEF x, c, t
  <2>5. tools'[t][c].status = "COMPLETED"
    BY <1>a, <2>1, <2>2, <2>4
  <2>6. \A d \in procs[h].done : tools'[t][d].status = "COMPLETED"
    BY <1>1, <1>2 DEF t
  <2>7. steps'[t] = Append(steps[t], "TOOL_RESULT") /\ steps[t] \in Seq(StepKinds)
    BY <1>a, <2>1 DEF AppendStep
  <2>8. /\ Cardinality(Results(steps[t])) \in Nat
        /\ Cardinality(Results(steps'[t])) = Cardinality(Results(steps[t])) + 1
    BY <2>7, ResultsAppend DEF StepKinds
  <2>9. /\ Cardinality(procs[h].done) \in Nat
        /\ \/ Cardinality(procs[h].done \cup {c}) = Cardinality(procs[h].done)
           \/ Cardinality(procs[h].done \cup {c}) = Cardinality(procs[h].done) + 1
    BY <2>2, FS_CardinalityType, FS_AddElement
  <2>10. Cardinality(procs[h].done) <= Cardinality(Results(steps[t]))
    BY <1>b, <1>2 DEF t
  <2>11. Cardinality(procs'[h].done) <= Cardinality(Results(steps'[t]))
    BY <2>3, <2>8, <2>9, <2>10
  <2> QED
    BY <2>3, <2>5, <2>6, <2>11
<1>3. ASSUME NEW h \in Handlers, procs'[h] = procs[h], procs[h] # Idle PROVE Recorded(procs'[h])
  BY <1>1, <1>3
<1>4. ASSUME NEW g \in Handlers, Works(g) \/ Stop(g), NEW h \in Handlers, procs'[h] # Idle
      PROVE  Recorded(procs'[h])
  <2>1. Proceeds(g) /\ procs[g] # Idle
    BY <1>a, <1>4, WorkProceeds DEF Works, Stop
  <2> HIDE DEF Recorded
  <2>2. CASE g = h
    BY <1>1, <1>2, <1>4, <2>1, <2>2 DEF Proceeds
  <2>3. CASE g # h
    BY <1>3, <1>4, <2>1, <2>3 DEF Proceeds, OnlyRow
  <2> QED
    BY <2>2, <2>3
<1>5. ASSUME NEW g \in Handlers, NEW t \in Turns, Prepare(g, t), NEW h \in Handlers, procs'[h] # Idle
      PROVE  Recorded(procs'[h])
  <2>1. OnlyRow(g) /\ procs'[g].turn = t /\ procs'[g].done = {}
    BY <1>a, <1>5, PrepareEffect DEF Handled
  <2>2. CASE g = h
    <3>1. Cardinality(procs'[h].done) = 0
      BY <2>1, <2>2, FS_EmptySet
    <3>2. Cardinality(Results(steps'[t])) \in Nat
      BY ResultsGrow
    <3> QED
      BY <2>1, <2>2, <3>1, <3>2
  <2> HIDE DEF Recorded
  <2>3. CASE g # h
    BY <1>3, <1>5, <2>1, <2>3 DEF OnlyRow
  <2> QED
    BY <2>2, <2>3
<1>6. ASSUME UNCHANGED procs, NEW h \in Handlers, procs'[h] # Idle PROVE Recorded(procs'[h])
  BY <1>3, <1>6
<1>7. ASSUME NEW h \in Handlers, procs'[h] # Idle PROVE Recorded(procs'[h])
  <2> HIDE DEF Recorded
  <2>1. ASSUME NEW t, Cancel(t) PROVE UNCHANGED procs
    BY <2>1 DEF Cancel
  <2>2. ASSUME NEW s, ClaimExperiment(s) \/ StopCoordinator(s) PROVE UNCHANGED procs
    BY <2>2 DEF ClaimExperiment, StopCoordinator
  <2>3. ASSUME NEW s, NEW status, FinishExperiment(s, status) PROVE UNCHANGED procs
    BY <2>3 DEF FinishExperiment
  <2>4. ASSUME UNCHANGED vars PROVE UNCHANGED procs
    BY <2>4 DEF vars
  <2> QED
    BY <1>4, <1>5, <1>6, <1>7, <2>1, <2>2, <2>3, <2>4 DEF Next
<1> QED
  BY <1>7 DEF ObservationsAreRecorded, Results

(***************************************************************************)
(* The experiments of a mission.                                           *)
(***************************************************************************)
\* A planned experiment takes one of the budget, and only its own coordinator
\* ends it.
LEMMA LabStep ==
  ASSUME Inv, [Next]_vars
  PROVE  LabInv'
<1> USE DEF missionVars, runVars, labVars
<1>a. Tables /\ RunsAreBound /\ WorkIsAsked /\ LabInv /\ experiments \in [Specs -> ExperimentStates]
  BY DEF Inv, JournalInv, Tables
<1>b. /\ IsFiniteSet(Planned) /\ Cardinality(Planned) \in Nat
      /\ mission = NoMission => Planned = {}
      /\ coordinator \cap orphaned = {}
      /\ mission # NoMission => mission.remaining + Cardinality(Planned) = ExperimentBudget
      /\ {s \in Specs : experiments[s] = "RUNNING"} = coordinator \cup orphaned
  BY <1>a, FS_CardinalityType DEF LabInv, ExperimentsAccounted, Planned
<1>1. ASSUME UNCHANGED labVars,
             mission' # NoMission => mission # NoMission /\ mission'.remaining = mission.remaining,
             mission # NoMission => mission' # NoMission
      PROVE  LabInv'
  <2>1. Planned' = Planned
    BY <1>1 DEF Planned
  <2> QED
    BY <1>b, <1>1, <2>1 DEF LabInv, ExperimentsAccounted, Planned
<1>2. ASSUME NEW h \in Handlers, Works(h) \/ Stop(h) PROVE LabInv'
  <2>1. UNCHANGED labVars /\ (UNCHANGED missionVars \/ Persist(h))
    BY <1>a, <1>2, WorkWrites DEF Writes
  <2>2. procs[h] # Idle /\ mission # NoMission /\ IsHandler(procs[h])
    BY <1>a, <1>2, WorkProceeds DEF Works, Stop, WorkIsAsked, Tables
  <2>3. UNCHANGED mission \/ (mission' \in MissionRow /\ mission'.remaining = mission.remaining)
    BY <1>a, <2>1, <2>2, PersistWrites
  <2> QED
    BY <1>1, <2>1, <2>2, <2>3, MissionIsThere
<1>3. ASSUME NEW h \in Handlers, NEW t \in Turns, Prepare(h, t) PROVE LabInv'
  <2>1. /\ mission' # NoMission /\ UNCHANGED labVars
        /\ mission'.remaining = IF mission = NoMission THEN ExperimentBudget ELSE mission.remaining
    BY <1>a, <1>3, PrepareWrites, MissionIsThere DEF Prepare
  <2>2. CASE mission # NoMission
    BY <1>1, <2>1, <2>2
  <2>3. CASE mission = NoMission
    <3>1. Planned' = Planned /\ Planned = {} /\ Cardinality(Planned) = 0
      BY <1>b, <2>1, <2>3, FS_EmptySet DEF Planned
    <3>2. mission'.remaining + Cardinality(Planned') = ExperimentBudget
      BY <2>1, <2>3, <3>1, AgentAssumption
    <3> QED
      BY <1>b, <2>1, <3>1, <3>2 DEF LabInv, ExperimentsAccounted, Planned
  <2> QED
    BY <2>2, <2>3
<1>4. ASSUME NEW t, Cancel(t) PROVE LabInv'
  BY <1>1, <1>4 DEF Cancel
<1>5. ASSUME NEW s \in Specs, ClaimExperiment(s) PROVE LabInv'
  <2>1. /\ mission # NoMission /\ experiments[s] = "NONE" /\ mission.remaining >= 1
        /\ mission \in MissionRow /\ mission.remaining \in Nat
        /\ mission' = Started([mission EXCEPT !.remaining = Plan(s)])
        /\ experiments' = [experiments EXCEPT ![s] = "RUNNING"]
        /\ coordinator' = coordinator \cup {s} /\ UNCHANGED orphaned
    BY <1>a, <1>5 DEF ClaimExperiment, Tables, MissionRow
  <2>2. mission'.remaining = mission.remaining - 1 /\ mission' # NoMission
    BY <1>a, <1>5, <2>1, ClaimWrites, MissionIsThere DEF Started, Plan, MissionRow
  <2>3. Planned' = Planned \cup {s} /\ s \notin Planned
    BY <1>a, <2>1 DEF Planned
  <2>4. IsFiniteSet(Planned') /\ Cardinality(Planned') = Cardinality(Planned) + 1
    BY <1>b, <2>3, FS_AddElement
  <2>5. mission'.remaining + Cardinality(Planned') = ExperimentBudget
    BY <1>b, <2>1, <2>2, <2>4
  <2>6. s \notin coordinator \cup orphaned
    BY <1>b, <2>1
  <2>7. /\ coordinator' \cap orphaned' = {}
        /\ {x \in Specs : experiments'[x] = "RUNNING"} = coordinator' \cup orphaned'
    BY <1>a, <1>b, <2>1, <2>6
  <2> QED
    BY <2>2, <2>4, <2>5, <2>7 DEF LabInv, ExperimentsAccounted, Planned
<1>6. ASSUME NEW s \in Specs, NEW status \in Terminal, FinishExperiment(s, status) PROVE LabInv'
  <2>1. /\ s \in coordinator /\ coordinator' = coordinator \ {s} /\ UNCHANGED <<orphaned, mission>>
        /\ experiments' = [experiments EXCEPT ![s] = status]
    BY <1>6 DEF FinishExperiment, Finished
  <2>2. experiments[s] = "RUNNING" /\ s \notin orphaned /\ status \notin {"NONE", "RUNNING"}
    BY <1>b, <2>1 DEF Terminal
  <2>3. Planned' = Planned
    BY <1>a, <2>1, <2>2 DEF Planned
  <2>4. /\ coordinator' \cap orphaned' = {}
        /\ {x \in Specs : experiments'[x] = "RUNNING"} = coordinator' \cup orphaned'
    BY <1>a, <1>b, <2>1, <2>2
  <2> QED
    BY <1>b, <2>1, <2>3, <2>4 DEF LabInv, ExperimentsAccounted, Planned
<1>7. ASSUME NEW s \in Specs, StopCoordinator(s) PROVE LabInv'
  <2>1. /\ s \in coordinator /\ coordinator' = coordinator \ {s} /\ orphaned' = orphaned \cup {s}
        /\ UNCHANGED <<mission, experiments>>
    BY <1>7 DEF StopCoordinator
  <2>2. Planned' = Planned /\ coordinator' \cap orphaned' = {} /\ coordinator' \cup orphaned' = coordinator \cup orphaned
    BY <1>b, <2>1 DEF Planned
  <2> QED
    BY <1>b, <2>1, <2>2 DEF LabInv, ExperimentsAccounted, Planned
<1>8. ASSUME UNCHANGED vars PROVE LabInv'
  BY <1>1, <1>8 DEF vars
<1> QED
  BY <1>2, <1>3, <1>4, <1>5, <1>6, <1>7, <1>8 DEF Next

(***************************************************************************)
(* The theorems.                                                           *)
(***************************************************************************)
LEMMA InitInv == Init => Inv
<1> SUFFICES ASSUME Init PROVE Inv
  OBVIOUS
<1>1. Tables
  <2>1. NoTool \in ToolRow
    BY DEF NoTool, ToolRow
  <2>2. /\ steps \in [Turns -> Seq(StepKinds)] /\ notices \in [Turns -> Seq(NoticeKinds)]
        /\ journal \in Seq(EventRow)
    BY DEF Init
  <2>3. tools \in [Turns -> [Calls -> ToolRow]] /\ experiments \in [Specs -> ExperimentStates]
    BY <2>1, Zenon DEF Init, ExperimentStates
  <2>4. Handled /\ DOMAIN runs = Turns /\ \A t \in Turns : runs[t] = NoRun
    BY DEF Init, Handled
  <2> QED
    BY <2>2, <2>3, <2>4 DEF Init, Tables
<1>2. RunsAreBound /\ ObservationsAreRecorded
  BY DEF Init, RunsAreBound, ObservationsAreRecorded
<1>3. JournalInv
  <2>1. \A t : Answers(journal, t) = {} /\ Asked(journal, t) = {}
    BY DEF Init, Answers, Asked
  <2> QED
    BY <2>1 DEF Init, JournalInv, WorkIsAsked, JournalIsOrdered, AnswerIsDue
<1>4. LabInv
  <2>1. Planned = {} /\ {s \in Specs : experiments[s] = "RUNNING"} = {}
    BY DEF Init, Planned
  <2>2. mission = NoMission /\ coordinator = {} /\ orphaned = {}
    BY DEF Init
  <2> QED
    BY <2>1, <2>2, FS_EmptySet DEF LabInv, ExperimentsAccounted
<1> QED
  BY <1>1, <1>2, <1>3, <1>4 DEF Inv

\* Every step keeps the whole invariant.
LEMMA InvStep == Inv /\ [Next]_vars => Inv'
  BY TypeStep, BoundStep, AskedStep, OrderStep, DueStep, ObservedStep, LabStep DEF Inv, JournalInv

\* The invariant holds of every state that turns, retries, cancellations, stops and
\* experiments can reach.
THEOREM Invariance == Spec => []Inv
  BY InitInv, InvStep, PTL DEF Spec

\* Rows and what handlers hold have their types.
THEOREM TypeCorrect == Spec => []TurnTypeOK
<1>1. ASSUME Inv PROVE TurnTypeOK
  <2>1. mission = NoMission \/ mission \in [state: MissionStates, version: Nat, remaining: Nat]
    BY <1>1 DEF Inv, Tables, MissionRow
  <2>2. ASSUME NEW t \in Turns
        PROVE  /\ runs[t] # NoRun => runs[t].status \in RunStatuses
               /\ Range(steps[t]) \subseteq StepKinds
               /\ Range(notices[t]) \subseteq NoticeKinds
               /\ \A c \in Calls : tools[t][c] \in ToolRow
    <3>1. runs[t] # NoRun => runs[t].status \in RunStatuses
      BY <1>1 DEF Inv, Tables, IsRun
    <3>2. steps[t] \in Seq(StepKinds) /\ notices[t] \in Seq(NoticeKinds)
      BY <1>1 DEF Inv, Tables
    <3>3. Range(steps[t]) \subseteq StepKinds /\ Range(notices[t]) \subseteq NoticeKinds
      BY <3>2 DEF Range
    <3>4. \A c \in Calls : tools[t][c] \in ToolRow
      BY <1>1 DEF Inv, Tables
    <3> QED
      BY <3>1, <3>3, <3>4
  <2>3. \A s \in Specs : experiments[s] \in {"NONE", "RUNNING"} \cup Terminal
    BY <1>1 DEF Inv, Tables, ExperimentStates
  <2> QED
    BY <2>1, <2>2, <2>3 DEF TurnTypeOK
<1> QED
  BY <1>1, Invariance, PTL

\* A set whose elements are all equal has at most one.
LEMMA AtMostOne ==
  ASSUME NEW S, \A i, j \in S : i = j
  PROVE  Cardinality(S) <= 1
<1>1. CASE S = {}
  BY <1>1, FS_EmptySet
<1>2. CASE S # {}
  <2>1. PICK x : x \in S
    BY <1>2
  <2>2. S = {x}
    BY <2>1
  <2> QED
    BY <2>2, FS_Singleton
<1> QED
  BY <1>1, <1>2

\* _persist_kernel_projection and _prepare_mission: whatever requests are sent
\* again, the journal has one message and at most one answer of a turn, the answer
\* after the message; a turn without an answer has its first handler at work or lost
\* it; and what the model is shown as observed is the recorded result of a call.
THEOREM TurnsRecorded == Spec => []TurnsAreRecorded
<1>1. ASSUME Inv PROVE TurnsAreRecorded
  <2>1. JournalIsOrdered /\ AnswerIsDue /\ ObservationsAreRecorded
    BY <1>1 DEF Inv, JournalInv
  <2>2. ASSUME NEW t \in Turns
        PROVE  /\ Cardinality(Answers(journal, t)) <= 1 /\ Cardinality(Asked(journal, t)) <= 1
               /\ \A i \in Answers(journal, t) : \E j \in Asked(journal, t) : j < i
               /\ (runs[t] # NoRun /\ Answers(journal, t) = {}) =>
                    t \in abandoned \/ \E h \in Handlers : Answering(h, t)
    BY <2>1, AtMostOne DEF JournalIsOrdered, AnswerIsDue
  <2>3. AnswerIsJournalled
    BY <2>2 DEF AnswerIsJournalled, Answers, Asked, Answering
  <2> QED
    BY <2>1, <2>3 DEF TurnsAreRecorded
<1> QED
  BY <1>1, Invariance, PTL

\* plan_experiment: the budget pays for each experiment once, and a running one has
\* its coordinator or lost it.
THEOREM LabAccounted == Spec => []ExperimentsAccounted
<1>1. Inv => ExperimentsAccounted
  BY DEF Inv, LabInv
<1> QED
  BY <1>1, Invariance, PTL

\* finish, cancel and complete_tool: a run that was completed or failed keeps its
\* status and a completed call its result, whoever works on the turn afterwards.
THEOREM OutcomeStays == Spec => OutcomeIsFinal
<1> DEFINE Kept == \A t \in Turns :
             /\ runs[t] # NoRun => (runs[t].status \in Ended => runs'[t].status = runs[t].status)
             /\ \A c \in Calls : tools[t][c].status = "COMPLETED" => tools'[t][c] = tools[t][c]
<1>1. Inv /\ [Next]_vars => [Kept]_vars
  BY RunsGrow, ToolsGrow DEF Terminal, Ended
<1> QED
  BY <1>1, Invariance, PTL DEF Spec, OutcomeIsFinal
=============================================================================
