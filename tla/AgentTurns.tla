----------------------------- MODULE AgentTurns -----------------------------
(***************************************************************************)
(* Turns of one agent mission: WorkspaceService.chat around RunEngine, over *)
(* CognitiveRepository and MissionRepository, and the experiment            *)
(* coordinator on the same mission.  A request handler prepares the mission *)
(* (the user's message), captures the run of its turn, binds the context it *)
(* saw, lets the model decide, executes tools, finishes the run, and writes *)
(* the answer into the mission's journal: one transaction each, with model  *)
(* and tool calls in between.  A client may send a turn again at any time,  *)
(* so two handlers can work on one run; a handler can stop at any point.    *)
(*                                                                          *)
(* Abstracted: a message is its outcome; a context is what of the mission   *)
(* enters its hash; a tool's arguments go with its call id.                 *)
(***************************************************************************)
EXTENDS Naturals, Sequences, FiniteSets, SequencesExt

CONSTANTS
  Handlers,          \* request handlers that may be under way
  Turns,             \* request ids, each with its message
  Calls,             \* tool call ids the model uses
  Outputs,           \* what a tool may return
  MaxModelCalls,     \* TurnBudget.max_model_calls
  MaxCancels,        \* bound on the calls of cancel
  MaxStarts,         \* bound on the requests, retries included
  Specs,             \* experiment specifications
  ExperimentBudget   \* experiments_remaining of a new mission

ASSUME AgentAssumption ==
  /\ MaxModelCalls \in Nat \ {0} /\ MaxCancels \in Nat /\ MaxStarts \in Nat
  /\ ExperimentBudget \in Nat

VARIABLES
  mission,      \* state, version and remaining experiments, or NoMission
  journal,      \* the mission's events, oldest first
  checkpoint,   \* the newest checkpoint: length of the journal, mission version
  runs,         \* runs[t]: the cognitive run of a turn, or NoRun
  steps,        \* steps[t]: kinds of the run's steps, oldest first
  notices,      \* notices[t]: kinds of the user events, oldest first
  tools,        \* tools[t][c]: the invocation of a tool call, or NoTool
  experiments,  \* experiments[s]: the experiment's status, or "NONE"
  procs,        \* procs[h]: what a handler is doing
  coordinator,  \* specifications whose runner was started and has not ended
  abandoned,    \* history: turns whose first handler ended without an answer
  orphaned,     \* history: experiments whose coordinator stopped
  cancels, starts

missionVars == <<mission, journal, checkpoint>>
runVars == <<runs, steps, notices, tools>>
labVars == <<experiments, coordinator, orphaned>>
bounds == <<cancels, starts>>
vars == <<missionVars, runVars, labVars, procs, abandoned, bounds>>

RunStatuses == {"CAPTURED", "DECIDING", "WAITING", "COMPLETED", "FAILED", "CANCELLED"}
Terminal == {"COMPLETED", "FAILED", "CANCELLED"}
MissionStates == {"ORIENTING", "EXPERIMENTING", "PAUSED", "COMPLETED", "FAILED", "CANCELLED"}
StepKinds == {"INPUT", "DECISION", "TOOL_RESULT", "OUTPUT", "FAILURE"}
NoticeKinds == {"message_received", "work_completed", "waiting", "could_not_complete"}

NoMission == <<>>
NoRun == <<>>
NoContext == <<>>
ToolRow == [status: {"NONE", "AUTHORIZED", "COMPLETED", "FAILED"}, output: Outputs \cup {"NONE"}]
NoTool == [status |-> "NONE", output |-> "NONE"]
Idle == <<>>

Event(type, key, message) == [type |-> type, key |-> key, message |-> message]
HasKey(type, key) == \E i \in DOMAIN journal : journal[i].type = type /\ journal[i].key = key

\* checkpoint of a mission: how far its journal and its version had come.
CheckpointOf(j, version) == [sequence |-> Len(j), version |-> version]

Init ==
  /\ mission = NoMission
  /\ journal = <<>>
  /\ checkpoint = CheckpointOf(<<>>, 0)
  /\ runs = [t \in Turns |-> NoRun]
  /\ steps = [t \in Turns |-> <<>>]
  /\ notices = [t \in Turns |-> <<>>]
  /\ tools = [t \in Turns |-> [c \in Calls |-> NoTool]]
  /\ experiments = [s \in Specs |-> "NONE"]
  /\ procs = [h \in Handlers |-> Idle]
  /\ coordinator = {}
  /\ abandoned = {}
  /\ orphaned = {}
  /\ cancels = 0
  /\ starts = 0

-----------------------------------------------------------------------------
\* The messages a model is shown, less the turn's own when that is the newest.
Heard(j, t) ==
  LET said == SelectSeq(j, LAMBDA e : e.type \in {"user.message", "assistant.message"})
      own == said # <<>> /\ Last(said).type = "user.message" /\ Last(said).key = t
  IN IF own THEN Front(said) ELSE said

\* add_artifact: a finished experiment leaves its result with the mission.
Artifacts == {<<s, experiments[s]>> : s \in {x \in Specs : experiments[x] \in Terminal}}

\* What of the mission enters the hash of the context manifest.
Context(m, j, t) ==
  [state |-> m.state, version |-> m.version, artifacts |-> Artifacts, heard |-> Heard(j, t)]

\* create, for the first message of a mission.
Created == [state |-> "ORIENTING", version |-> 1, remaining |-> ExperimentBudget]

\* _prepare_mission: the user's message is written once.
Prepare(h, t) ==
  LET m == IF mission = NoMission THEN Created ELSE mission
      j == IF mission = NoMission THEN <<Event("mission.created", t, t)>> ELSE journal
      seen == HasKey("user.message", t)
      m2 == IF seen THEN m ELSE [m EXCEPT !.state = "ORIENTING"]
      j2 == IF seen THEN j
            ELSE j \o <<Event("user.message", t, t), Event("agent.accepted", t, "received")>>
  IN
  /\ procs[h] = Idle
  /\ starts < MaxStarts
  /\ starts' = starts + 1
  /\ mission' = m2
  /\ journal' = j2
  /\ procs' = [procs EXCEPT ![h] =
       [turn |-> t, at |-> "CAPTURE", context |-> Context(m2, j2, t), duplicate |-> FALSE,
        calls |-> 0, batch |-> <<>>, observed |-> FALSE, done |-> {}, result |-> "NONE",
        engine |-> FALSE]]
  /\ UNCHANGED <<checkpoint, runVars, labVars, abandoned, cancels>>

\* The handler goes on to another stage.
At(h, stage) == procs' = [procs EXCEPT ![h].at = stage]

\* The handler ends without an answer of its own: an exception, or a stop.
Ends(h) ==
  /\ procs' = [procs EXCEPT ![h] = Idle]
  /\ abandoned' = IF procs[h].duplicate \/ procs[h].at = "CAPTURE" THEN abandoned
                  ELSE abandoned \cup {procs[h].turn}

\* append_step and append_user_event, each with the next number of the run.
AppendStep(t, kind) == steps' = [steps EXCEPT ![t] = Append(@, kind)]
AppendNotice(t, kind) == notices' = [notices EXCEPT ![t] = Append(@, kind)]

\* Mutant of Capture: whether the run exists is read after it was made.
CaptureThenLook(h) ==
  LET t == procs[h].turn IN
  /\ procs[h].at = "CAPTURE"
  /\ runs[t] = NoRun
  /\ runs' = [runs EXCEPT ![t] = [status |-> "CAPTURED", version |-> 1,
                                  context |-> NoContext, checkpoint |-> 0]]
  /\ AppendStep(t, "INPUT")
  /\ AppendNotice(t, "message_received")
  /\ procs' = [procs EXCEPT ![h].at = "BIND", ![h].duplicate = TRUE]
  /\ UNCHANGED <<missionVars, tools, labVars, abandoned, bounds>>

\* The first handler of a turn makes the run.
Capture(h) ==
  LET t == procs[h].turn IN
  /\ procs[h].at = "CAPTURE"
  /\ runs[t] = NoRun
  /\ runs' = [runs EXCEPT ![t] = [status |-> "CAPTURED", version |-> 1,
                                  context |-> NoContext, checkpoint |-> 0]]
  /\ AppendStep(t, "INPUT")
  /\ AppendNotice(t, "message_received")
  /\ At(h, "BIND")
  /\ UNCHANGED <<missionVars, tools, labVars, abandoned, bounds>>

\* Any other one takes part in it, or answers with what it has.
CaptureAgain(h) ==
  LET t == procs[h].turn IN
  /\ procs[h].at = "CAPTURE"
  /\ runs[t] # NoRun
  /\ procs' = [procs EXCEPT ![h] =
       IF runs[t].status \in Terminal \cup {"WAITING"} THEN Idle
       ELSE [@ EXCEPT !.at = "BIND", !.duplicate = TRUE]]
  /\ UNCHANGED <<missionVars, runVars, labVars, abandoned, bounds>>

\* The first context is bound, and whatever the run's status was, it is
\* DECIDING afterwards.
BindManifest(h) ==
  LET t == procs[h].turn IN
  /\ procs[h].at = "BIND"
  /\ runs[t].context = NoContext
  /\ runs' = [runs EXCEPT ![t].context = procs[h].context, ![t].status = "DECIDING",
                          ![t].version = @ + 1]
  /\ At(h, "DECIDE")
  /\ UNCHANGED <<missionVars, steps, notices, tools, labVars, abandoned, bounds>>

\* The same context goes on; another one is an error of the request.
BoundAlready(h) ==
  LET t == procs[h].turn IN
  /\ procs[h].at = "BIND"
  /\ runs[t].context # NoContext
  /\ \/ runs[t].context = procs[h].context /\ At(h, "DECIDE") /\ UNCHANGED abandoned
     \/ runs[t].context # procs[h].context /\ Ends(h)
  /\ UNCHANGED <<missionVars, runVars, labVars, bounds>>

-----------------------------------------------------------------------------
Checkpointed(run) == [run EXCEPT !.checkpoint = run.version]

\* record_decision and the checkpoint after it.
RecordDecision(t) ==
  /\ runs' = [runs EXCEPT ![t] = Checkpointed([runs[t] EXCEPT !.version = @ + 1])]
  /\ AppendStep(t, "DECISION")

Deciding(h) == procs[h].at = "DECIDE" /\ procs[h].calls < MaxModelCalls

\* The model answers: the composer gives the outcome a status.
DecideAnswer(h, status) ==
  /\ Deciding(h)
  /\ RecordDecision(procs[h].turn)
  /\ procs' = [procs EXCEPT ![h].at = "FINISH", ![h].result = status]
  /\ UNCHANGED <<missionVars, notices, tools, labVars, abandoned, bounds>>

\* The model proposes a batch of tool calls.
DecideTools(h, batch) ==
  /\ Deciding(h)
  /\ RecordDecision(procs[h].turn)
  /\ procs' = [procs EXCEPT ![h].at = "AUTHORIZE", ![h].batch = batch, ![h].calls = @ + 1]
  /\ UNCHANGED <<missionVars, notices, tools, labVars, abandoned, bounds>>

\* _fail: the engine's own answer, which is never marked a duplicate.
Fails(h) == procs' = [procs EXCEPT ![h].at = "FINISH", ![h].result = "FAILED",
                                   ![h].engine = TRUE]

\* A decision that does not validate is asked for again while the budget lasts.
DecideInvalid(h) ==
  /\ Deciding(h)
  /\ IF procs[h].calls + 1 < MaxModelCalls
     THEN procs' = [procs EXCEPT ![h].calls = @ + 1]
     ELSE Fails(h)
  /\ UNCHANGED <<missionVars, runVars, labVars, abandoned, bounds>>

\* The provider fails or does not answer in time, or the budget is used up.
DecideFails(h) ==
  /\ procs[h].at = "DECIDE"
  /\ Fails(h)
  /\ UNCHANGED <<missionVars, runVars, labVars, abandoned, bounds>>

-----------------------------------------------------------------------------
\* The broker shows tools only before the first observation.
Visible(h) == ~procs[h].observed

\* request_tool and authorize_tool: an invocation that exists is used again.
AuthorizeTool(h) ==
  LET t == procs[h].turn  c == Head(procs[h].batch) IN
  /\ procs[h].at = "AUTHORIZE"
  /\ Visible(h)
  /\ tools' = IF tools[t][c] = NoTool
              THEN [tools EXCEPT ![t][c] = [status |-> "AUTHORIZED", output |-> "NONE"]]
              ELSE tools
  /\ At(h, "EXECUTE")
  /\ UNCHANGED <<missionVars, runs, steps, notices, labVars, abandoned, bounds>>

\* A tool that is not visible, not of this version, or called with wrong input.
DenyTool(h) ==
  /\ procs[h].at = "AUTHORIZE"
  /\ Fails(h)
  /\ UNCHANGED <<missionVars, runVars, labVars, abandoned, bounds>>

\* Mutant of MayComplete: the invocation's status is not checked.
MayCompleteAny(tool, output) == TRUE

\* complete_tool takes an authorized call, or the same result again.
MayComplete(tool, output) ==
  tool.status = "AUTHORIZED" \/ tool = [status |-> "COMPLETED", output |-> output]

\* The handler of the tool returned: the result, its step and a checkpoint.
CompleteTool(h, output) ==
  LET t == procs[h].turn  c == Head(procs[h].batch)  rest == Tail(procs[h].batch) IN
  /\ procs[h].at = "EXECUTE"
  /\ MayComplete(tools[t][c], output)
  /\ tools' = [tools EXCEPT ![t][c] = [status |-> "COMPLETED", output |-> output]]
  /\ AppendStep(t, "TOOL_RESULT")
  /\ runs' = [runs EXCEPT ![t] = Checkpointed(@)]
  /\ procs' = [procs EXCEPT ![h].at = IF rest = <<>> THEN "DECIDE" ELSE "AUTHORIZE",
                            ![h].batch = rest,
                            ![h].observed = @ \/ rest = <<>>, ![h].done = @ \cup {c}]
  /\ UNCHANGED <<missionVars, notices, labVars, abandoned, bounds>>

\* It failed, ran out of time, or its result was refused.
ExecuteFails(h) ==
  /\ procs[h].at = "EXECUTE"
  /\ At(h, "FAIL_TOOL")
  /\ UNCHANGED <<missionVars, runVars, labVars, abandoned, bounds>>

\* A completed call cannot fail: that error leaves the handler.
FailTool(h) ==
  LET t == procs[h].turn  c == Head(procs[h].batch) IN
  /\ procs[h].at = "FAIL_TOOL"
  /\ \/ /\ tools[t][c].status # "COMPLETED"
        /\ tools' = [tools EXCEPT ![t][c].status = "FAILED"]
        /\ Fails(h)
        /\ UNCHANGED abandoned
     \/ /\ tools[t][c].status = "COMPLETED"
        /\ Ends(h)
        /\ UNCHANGED tools
  /\ UNCHANGED <<missionVars, runs, steps, notices, labVars, bounds>>

-----------------------------------------------------------------------------
NoticeOf(status) == CASE status = "COMPLETED" -> "work_completed"
                      [] status = "WAITING" -> "waiting"
                      [] OTHER -> "could_not_complete"

\* finish and cancel leave a run with one of these as it is.
Settled(run) == run.status \in Terminal

\* _finish: a run that is settled keeps what it has, except its checkpoint.
Finish(h) ==
  LET t == procs[h].turn  status == procs[h].result IN
  /\ procs[h].at = "FINISH"
  /\ IF Settled(runs[t])
     THEN runs' = [runs EXCEPT ![t] = Checkpointed(@)] /\ UNCHANGED <<steps, notices>>
     ELSE /\ runs' = [runs EXCEPT ![t] =
                Checkpointed([runs[t] EXCEPT !.status = status, !.version = @ + 1])]
          /\ AppendStep(t, IF status = "FAILED" THEN "FAILURE" ELSE "OUTPUT")
          /\ AppendNotice(t, NoticeOf(status))
  /\ At(h, "PERSIST")
  /\ UNCHANGED <<missionVars, tools, labVars, abandoned, bounds>>

\* Mutant of MissionState: the run's status is written into the mission as it is.
MissionStateVerbatim(result) == result

\* The mission's state after an answer: one that waits for the user pauses it.
MissionState(result) == IF result = "WAITING" THEN "PAUSED" ELSE result

\* _persist_kernel_projection: a duplicate writes nothing.  An answer that is in
\* the journal with another text, and a second checkpoint of a journal that did
\* not grow, are conflicts that undo the transaction.
Persist(h) ==
  LET p == procs[h]  t == p.turn
      said == [i \in {k \in DOMAIN journal : journal[k].type = "assistant.message"
                                             /\ journal[k].key = t} |-> journal[i].message]
      answer == IF said = <<>> THEN <<Event("assistant.message", t, p.result)>> ELSE <<>>
      used == IF p.done # {} /\ ~HasKey("agent.tool.completed", t)
              THEN <<Event("agent.tool.completed", t, "used")>> ELSE <<>>
      grown == journal \o answer \o used
      conflict == \/ \E i \in DOMAIN said : said[i] # p.result
                  \/ Len(grown) = checkpoint.sequence
  IN
  /\ p.at = "PERSIST"
  /\ IF p.duplicate /\ ~p.engine
     THEN procs' = [procs EXCEPT ![h] = Idle] /\ UNCHANGED <<missionVars, abandoned>>
     ELSE \/ /\ ~conflict
             /\ mission' = [mission EXCEPT !.state = MissionState(p.result), !.version = @ + 1]
             /\ journal' = grown
             /\ checkpoint' = CheckpointOf(grown, mission.version + 1)
             /\ procs' = [procs EXCEPT ![h] = Idle]
             /\ UNCHANGED abandoned
          \/ /\ conflict
             /\ Ends(h)
             /\ UNCHANGED missionVars
  /\ UNCHANGED <<runVars, labVars, bounds>>

\* The process stops, or the client's request is dropped.
Stop(h) ==
  /\ procs[h] # Idle
  /\ Ends(h)
  /\ UNCHANGED <<missionVars, runVars, labVars, bounds>>

\* cancel: a settled run keeps its status, and gets the notice all the same.
Cancel(t) ==
  /\ cancels < MaxCancels
  /\ runs[t] # NoRun
  /\ runs[t].status # "CANCELLED"
  /\ runs' = IF Settled(runs[t]) THEN runs
             ELSE [runs EXCEPT ![t].status = "CANCELLED", ![t].version = @ + 1]
  /\ AppendNotice(t, "could_not_complete")
  /\ cancels' = cancels + 1
  /\ UNCHANGED <<missionVars, steps, tools, labVars, procs, abandoned, starts>>

-----------------------------------------------------------------------------
\* Mutant of Plan: the experiment is not counted.
PlanUncounted(s) == mission.remaining

\* plan_experiment takes one of the remaining experiments, once per specification.
Plan(s) == IF experiments[s] = "NONE" THEN mission.remaining - 1 ELSE mission.remaining

\* start_experiment and finish_experiment, after the guards of their callers.
Started(m) == [m EXCEPT !.state = "EXPERIMENTING"]
Finished(s, status) ==
  /\ experiments' = [experiments EXCEPT ![s] = status]
  /\ journal' = Append(journal, Event("experiment.finished", s, status))

\* claim: plan and start in one transaction.  An experiment that is running or
\* has ended is returned as it is.
ClaimExperiment(s) ==
  /\ mission # NoMission
  /\ experiments[s] = "NONE"
  /\ mission.remaining >= 1
  /\ mission' = Started([mission EXCEPT !.remaining = Plan(s)])
  /\ experiments' = [experiments EXCEPT ![s] = "RUNNING"]
  /\ journal' = journal \o <<Event("experiment.planned", s, s), Event("experiment.started", s, s)>>
  /\ coordinator' = coordinator \cup {s}
  /\ UNCHANGED <<checkpoint, runVars, procs, abandoned, orphaned, bounds>>

\* _finish with the runner's result (COMPLETED, FAILED or CANCELLED), or with the failure it
\* raised.
FinishExperiment(s, status) ==
  /\ s \in coordinator
  /\ coordinator' = coordinator \ {s}
  /\ Finished(s, status)
  /\ UNCHANGED <<mission, checkpoint, runVars, procs, abandoned, orphaned, bounds>>

\* The coordinator stops between its two transactions.
StopCoordinator(s) ==
  /\ s \in coordinator
  /\ coordinator' = coordinator \ {s}
  /\ orphaned' = orphaned \cup {s}
  /\ UNCHANGED <<missionVars, runVars, procs, abandoned, experiments, bounds>>

-----------------------------------------------------------------------------
Batches == UNION {{s \in [1..n -> Calls] : IsInjective(s)} : n \in 1..Cardinality(Calls)}

\* A step of a handler that is under way, other than to stop.
Works(h) ==
  /\ procs[h] # Idle
  /\ \/ Capture(h) \/ CaptureAgain(h) \/ BindManifest(h) \/ BoundAlready(h)
     \/ \E status \in {"COMPLETED", "WAITING", "FAILED"} : DecideAnswer(h, status)
     \/ \E batch \in Batches : DecideTools(h, batch)
     \/ DecideInvalid(h) \/ DecideFails(h)
     \/ AuthorizeTool(h) \/ DenyTool(h)
     \/ \E output \in Outputs : CompleteTool(h, output)
     \/ ExecuteFails(h) \/ FailTool(h)
     \/ Finish(h) \/ Persist(h)

Next ==
  \/ \E h \in Handlers : Works(h) \/ Stop(h) \/ \E t \in Turns : Prepare(h, t)
  \/ \E t \in Turns : Cancel(t)
  \/ \E s \in Specs :
       \/ ClaimExperiment(s)
       \/ \E status \in Terminal : FinishExperiment(s, status)
       \/ StopCoordinator(s)

\* Model and tool calls have a time limit, so a handler that is not stopped
\* takes its next step.
Spec == Init /\ [][Next]_vars /\ \A h \in Handlers : WF_vars(Works(h))

-----------------------------------------------------------------------------
(* The types of the rows and of what the handlers hold.                     *)
TurnTypeOK ==
  /\ mission = NoMission \/ mission \in [state: MissionStates, version: Nat, remaining: Nat]
  /\ \A t \in Turns : /\ runs[t] # NoRun => runs[t].status \in RunStatuses
                       /\ Range(steps[t]) \subseteq StepKinds
                       /\ Range(notices[t]) \subseteq NoticeKinds
                       /\ \A c \in Calls : tools[t][c] \in ToolRow
  /\ \A s \in Specs : experiments[s] \in {"NONE", "RUNNING"} \cup Terminal

\* The ends of a run that nothing may change; a cancelled one may still be answered.
Ended == {"COMPLETED", "FAILED"}

\* A run that was completed or failed stays so, whatever a second handler of
\* the same turn or a cancellation does later, and a completed tool call keeps
\* its result.
OutcomeIsFinal ==
  [][\A t \in Turns :
       /\ runs[t] # NoRun => (runs[t].status \in Ended => runs'[t].status = runs[t].status)
       /\ \A c \in Calls : tools[t][c].status = "COMPLETED" => tools'[t][c] = tools[t][c]]_vars

\* The journal has one answer for each turn that got one, after its message,
\* and a turn without an answer has its first handler at work or lost it.
AnswerIsJournalled ==
  \A t \in Turns :
    LET answers == {i \in DOMAIN journal : journal[i].type = "assistant.message"
                                           /\ journal[i].key = t}
        asked == {i \in DOMAIN journal : journal[i].type = "user.message" /\ journal[i].key = t}
    IN
    /\ Cardinality(answers) <= 1 /\ Cardinality(asked) <= 1
    /\ \A i \in answers : \E j \in asked : j < i
    /\ (runs[t] # NoRun /\ answers = {}) =>
         \/ t \in abandoned
         \/ \E h \in Handlers : /\ procs[h] # Idle
                                /\ procs[h].turn = t
                                /\ ~procs[h].duplicate
                                /\ procs[h].at # "CAPTURE"

\* What the model is shown as observed is the recorded result of a tool call.
ObservationsAreRecorded ==
  \A h \in Handlers : procs[h] # Idle =>
    /\ \A c \in procs[h].done : tools[procs[h].turn][c].status = "COMPLETED"
    /\ Cardinality(procs[h].done)
         <= Cardinality({i \in DOMAIN steps[procs[h].turn] : steps[procs[h].turn][i] = "TOOL_RESULT"})

\* What a turn says, to the buyer and to the model, is on record: both conjuncts
\* above.
TurnsAreRecorded == AnswerIsJournalled /\ ObservationsAreRecorded

\* The budget pays for each experiment once, and one that is running has a
\* coordinator or lost it.
ExperimentsAccounted ==
  LET planned == {s \in Specs : experiments[s] # "NONE"} IN
  /\ mission # NoMission => mission.remaining + Cardinality(planned) = ExperimentBudget
  /\ {s \in Specs : experiments[s] = "RUNNING"} = coordinator \cup orphaned

\* A cancelled run stays cancelled.
CancelIsDurable ==
  [][\A t \in Turns : runs[t] # NoRun =>
       (runs[t].status = "CANCELLED" => runs'[t].status = "CANCELLED")]_vars

\* When nobody works on it, a completed turn has its answer in the journal.
JournalIsCanonical ==
  \A t \in Turns :
    ((\A h \in Handlers : procs[h] = Idle) /\ runs[t] # NoRun) =>
      (runs[t].status = "COMPLETED" => HasKey("assistant.message", t))
=============================================================================
