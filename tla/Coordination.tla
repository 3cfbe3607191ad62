---------------------------- MODULE Coordination ----------------------------
(***************************************************************************)
(* A pipeline and its stages, each task around a machine of its own        *)
(* (src/tests/circle_2_async_coordination.rs), tied together by channels,  *)
(* a startup barrier of all of them, a shutdown broadcast and sets shared  *)
(* behind locks.  A table is the set of its rows; an event without a row   *)
(* makes handle return Err, and unwrap ends the task.                      *)
(*                                                                         *)
(* Tasks that can run do so in any order, one event at a time.  A timer    *)
(* fires when no task can run: the delays of the code, 10 to 50 ms, are    *)
(* long for it and shorter than the 200 ms the test waits before it sends  *)
(* data.                                                                   *)
(***************************************************************************)
EXTENDS Naturals, Sequences, FiniteSets

CONSTANTS
    Stage,          \* five in the test
    Pipeline,       \* the pipeline, as a participant of the barrier
    Data            \* how many ProcessEvents each stage is sent

ASSUME CoordinationAssumption ==
    Pipeline \notin Stage /\ IsFiniteSet(Stage) /\ Stage # {} /\ Data \in Nat

VARIABLES
    pipeline_state, pipeline_rx,
    stage_state, stage_rx,
    at,             \* where each task is: its loop, an await of a handler, or its end
    spawned,        \* tasks spawned by handlers: [stage, event they will send]
    shutdown_rx,    \* the stages with a shutdown signal to receive
    ready_stages, drained_stages,
    arrived,        \* who has arrived at the startup barrier
    main            \* "waiting" 200 ms, then "sent"

vars == <<pipeline_state, pipeline_rx, stage_state, stage_rx, at, spawned,
          shutdown_rx, ready_stages, drained_stages, arrived, main>>
-----------------------------------------------------------------------------
Task == Stage \cup {Pipeline}

PipelineRows ==
    { <<"Initializing", "Start">>,
      <<"WaitingForStages", "StageReady">>, <<"WaitingForStages", "AllStagesReady">>,
      <<"Running", "BeginShutdown">>,
      <<"Draining", "StageDrained">>, <<"Draining", "AllStagesDrained">> }
StageRows ==
    { <<"Uninitialized", "Initialize">>, <<"Materializing", "MaterializationComplete">>,
      <<"Materialized", "StartProcessing">>,
      <<"Running", "ProcessEvent">>, <<"Running", "BeginDrain">>,
      <<"Draining", "DrainComplete">> }

Msg(type, id) == [type |-> type, id |-> id]

\* The test up to its first wait: every stage is sent Initialize, the pipeline
\* Start.  Nothing there waits, so no other task runs before it.
Init ==
    /\ pipeline_state = "Initializing" /\ pipeline_rx = <<Msg("Start", Pipeline)>>
    /\ stage_state = [s \in Stage |-> "Uninitialized"]
    /\ stage_rx = [s \in Stage |-> <<"Initialize">>]
    /\ at = [t \in Task |-> "loop"]
    /\ spawned = {} /\ shutdown_rx = {}
    /\ ready_stages = {} /\ drained_stages = {} /\ arrived = {}
    /\ main = "waiting"
-----------------------------------------------------------------------------
\* Mutated form: the barrier is made for as many as there are stages.
BarrierOfStages == Cardinality(arrived) >= Cardinality(Stage)

\* Barrier::new(6): the pipeline and each of five stages.
BarrierFull == Cardinality(arrived) >= Cardinality(Stage) + 1

\* Tasks that can go on without a timer.
CanRun(t) ==
    \/ at[t] = "loop" /\ (IF t = Pipeline THEN pipeline_rx # <<>> ELSE stage_rx[t] # <<>> \/ t \in shutdown_rx)
    \/ at[t] = "barrier" /\ BarrierFull
Idle == (\A t \in Task : ~CanRun(t)) /\ (\A k \in spawned : k.event # "DrainComplete")
-----------------------------------------------------------------------------
\* The pipeline takes its next event; its handler runs to the end.
PipelineTakes(type) ==
    /\ at[Pipeline] = "loop" /\ pipeline_rx # <<>> /\ Head(pipeline_rx).type = type
    /\ <<pipeline_state, type>> \in PipelineRows

Start ==
    /\ PipelineTakes("Start")
    /\ pipeline_state' = "WaitingForStages" /\ pipeline_rx' = Tail(pipeline_rx)
    /\ UNCHANGED <<stage_state, stage_rx, at, spawned, shutdown_rx, ready_stages, drained_stages, arrived, main>>

\* Mutated form: every report from the last but one on counts as the last.
CompleteAlmost(set) == \E s \in Stage : Stage \ {s} \subseteq set

\* len() == 5
Complete(set) == set = Stage

\* A stage's report; the last one makes the pipeline send itself the event that
\* all have reported.
StageReady ==
    LET ready == ready_stages \cup {Head(pipeline_rx).id}
    IN  /\ PipelineTakes("StageReady")
        /\ ready_stages' = ready
        /\ pipeline_rx' = Tail(pipeline_rx)
                            \o (IF Complete(ready) THEN <<Msg("AllStagesReady", Pipeline)>> ELSE <<>>)
        /\ UNCHANGED <<pipeline_state, stage_state, stage_rx, at, spawned, shutdown_rx,
                       drained_stages, arrived, main>>

\* Mutated form: the loop does not execute WaitAtBarrier.
AllStagesReadyNoWait ==
    /\ PipelineTakes("AllStagesReady")
    /\ stage_rx' = [s \in Stage |-> Append(stage_rx[s], "StartProcessing")]
    /\ pipeline_state' = "Running" /\ pipeline_rx' = Tail(pipeline_rx)
    /\ UNCHANGED <<stage_state, at, spawned, shutdown_rx, ready_stages, drained_stages, arrived, main>>

\* Every stage is told to start; the loop then executes WaitAtBarrier.
AllStagesReady ==
    /\ PipelineTakes("AllStagesReady")
    /\ stage_rx' = [s \in Stage |-> Append(stage_rx[s], "StartProcessing")]
    /\ pipeline_state' = "Running" /\ pipeline_rx' = Tail(pipeline_rx)
    /\ at' = [at EXCEPT ![Pipeline] = "barrier"] /\ arrived' = arrived \cup {Pipeline}
    /\ UNCHANGED <<stage_state, spawned, shutdown_rx, ready_stages, drained_stages, main>>

\* The broadcast reaches every stage's receiver.
BeginShutdown ==
    /\ PipelineTakes("BeginShutdown")
    /\ shutdown_rx' = Stage
    /\ pipeline_state' = "Draining" /\ pipeline_rx' = Tail(pipeline_rx)
    /\ UNCHANGED <<stage_state, stage_rx, at, spawned, ready_stages, drained_stages, arrived, main>>

\* Mutated form: the set of ready stages decides.
StageDrainedByReady ==
    LET drained == drained_stages \cup {Head(pipeline_rx).id}
    IN  /\ PipelineTakes("StageDrained")
        /\ drained_stages' = drained
        /\ pipeline_rx' = Tail(pipeline_rx)
                            \o (IF Complete(ready_stages) THEN <<Msg("AllStagesDrained", Pipeline)>> ELSE <<>>)
        /\ UNCHANGED <<pipeline_state, stage_state, stage_rx, at, spawned, shutdown_rx,
                       ready_stages, arrived, main>>

StageDrained ==
    LET drained == drained_stages \cup {Head(pipeline_rx).id}
    IN  /\ PipelineTakes("StageDrained")
        /\ drained_stages' = drained
        /\ pipeline_rx' = Tail(pipeline_rx)
                            \o (IF Complete(drained) THEN <<Msg("AllStagesDrained", Pipeline)>> ELSE <<>>)
        /\ UNCHANGED <<pipeline_state, stage_state, stage_rx, at, spawned, shutdown_rx,
                       ready_stages, arrived, main>>

AllStagesDrained ==
    /\ PipelineTakes("AllStagesDrained")
    /\ pipeline_state' = "Shutdown" /\ pipeline_rx' = Tail(pipeline_rx)
    /\ at' = [at EXCEPT ![Pipeline] = "done"]
    /\ UNCHANGED <<stage_state, stage_rx, spawned, shutdown_rx, ready_stages, drained_stages, arrived, main>>
-----------------------------------------------------------------------------
\* select! of a stage: whichever of the two receivers has something.
StageTakes(s, event) ==
    /\ at[s] = "loop"
    /\ IF event = "BeginDrain"
         THEN s \in shutdown_rx /\ shutdown_rx' = shutdown_rx \ {s} /\ UNCHANGED stage_rx
         ELSE /\ stage_rx[s] # <<>> /\ Head(stage_rx[s]) = event
              /\ stage_rx' = [stage_rx EXCEPT ![s] = Tail(@)] /\ UNCHANGED shutdown_rx
StageHandles(s, event) == StageTakes(s, event) /\ <<stage_state[s], event>> \in StageRows
Elsewhere == UNCHANGED <<pipeline_state, ready_stages, drained_stages, main>>

\* The handlers of Initialize and BeginDrain sleep, the one of StartProcessing
\* waits at the barrier; the state changes when they return.
HandlerAwaits(s, event, place) ==
    /\ StageHandles(s, event)
    /\ at' = [at EXCEPT ![s] = place]
    /\ arrived' = IF place = "barrier" THEN arrived \cup {s} ELSE arrived
    /\ UNCHANGED <<stage_state, pipeline_rx, spawned>> /\ Elsewhere

HandlerReturns(s, place, next_state, more) ==
    /\ at[s] = place
    /\ at' = [at EXCEPT ![s] = "loop"]
    /\ stage_state' = [stage_state EXCEPT ![s] = next_state]
    /\ spawned' = spawned \cup more
    /\ UNCHANGED <<stage_rx, shutdown_rx, pipeline_rx, arrived>> /\ Elsewhere

Initialize(s) == HandlerAwaits(s, "Initialize", "initializing")
Initialized(s) ==
    /\ Idle
    /\ HandlerReturns(s, "initializing", "Materializing", {[stage |-> s, event |-> "MaterializationComplete"]})

StartProcessing(s) == HandlerAwaits(s, "StartProcessing", "barrier")
Started(s) == BarrierFull /\ HandlerReturns(s, "barrier", "Running", {})

BeginDrain(s) == HandlerAwaits(s, "BeginDrain", "draining")
Drained(s) ==
    /\ Idle
    /\ HandlerReturns(s, "draining", "Draining", {[stage |-> s, event |-> "DrainComplete"]})

\* A handler that does not wait, and reports to the pipeline.  Sending and
\* assigning the new state are one step: the queue of 100 never fills, so no task
\* switch lies between them on the one thread of #[tokio::test].
Report(s, event, next_state, report, place) ==
    /\ StageHandles(s, event)
    /\ stage_state' = [stage_state EXCEPT ![s] = next_state]
    /\ pipeline_rx' = Append(pipeline_rx, Msg(report, s))
    /\ at' = [at EXCEPT ![s] = place]
    /\ UNCHANGED <<spawned, arrived>> /\ Elsewhere

Materialize(s)  == Report(s, "MaterializationComplete", "Materialized", "StageReady", "loop")
FinishDrain(s) == Report(s, "DrainComplete", "Drained", "StageDrained", "done")

ProcessEvent(s) ==
    /\ StageHandles(s, "ProcessEvent")
    /\ UNCHANGED <<stage_state, pipeline_rx, at, spawned, arrived>> /\ Elsewhere

StageFails(s, event) ==
    /\ StageTakes(s, event) /\ <<stage_state[s], event>> \notin StageRows
    /\ at' = [at EXCEPT ![s] = "failed"]
    /\ UNCHANGED <<stage_state, pipeline_rx, spawned, arrived>> /\ Elsewhere

\* A spawned task sends its event; the one of materialization sleeps first.
SpawnedSends(k) ==
    /\ k \in spawned /\ (k.event = "DrainComplete" \/ Idle)
    /\ spawned' = spawned \ {k}
    /\ IF at[k.stage] = "failed" THEN UNCHANGED stage_rx   \* the receiver is gone
       ELSE stage_rx' = [stage_rx EXCEPT ![k.stage] = Append(@, k.event)]
    /\ UNCHANGED <<pipeline_state, pipeline_rx, stage_state, at, shutdown_rx, ready_stages,
                   drained_stages, arrived, main>>

\* Mutated form: the test does not wait.
MainSendsAtOnce ==
    /\ main = "waiting" /\ main' = "sent"
    /\ stage_rx' = [s \in Stage |-> stage_rx[s] \o [i \in 1..Data |-> "ProcessEvent"]]
    /\ pipeline_rx' = Append(pipeline_rx, Msg("BeginShutdown", Pipeline))
    /\ UNCHANGED <<pipeline_state, stage_state, at, spawned, shutdown_rx, ready_stages, drained_stages, arrived>>

\* The test's own sleep ends after every other one: it sends the data, then the
\* shutdown, without waiting in between.
MainSends ==
    /\ main = "waiting" /\ main' = "sent"
    /\ Idle /\ spawned = {} /\ \A s \in Stage : at[s] \notin {"initializing", "draining"}
    /\ stage_rx' = [s \in Stage |-> stage_rx[s] \o [i \in 1..Data |-> "ProcessEvent"]]
    /\ pipeline_rx' = Append(pipeline_rx, Msg("BeginShutdown", Pipeline))
    /\ UNCHANGED <<pipeline_state, stage_state, at, spawned, shutdown_rx, ready_stages, drained_stages, arrived>>

PipelineLeavesBarrier ==
    /\ at[Pipeline] = "barrier" /\ BarrierFull
    /\ at' = [at EXCEPT ![Pipeline] = "loop"]
    /\ UNCHANGED <<pipeline_state, pipeline_rx, stage_state, stage_rx, spawned, shutdown_rx,
                   ready_stages, drained_stages, arrived, main>>

StageEvents == {r[2] : r \in StageRows}
PipelineStep ==
    \/ Start \/ StageReady \/ AllStagesReady \/ BeginShutdown \/ StageDrained \/ AllStagesDrained
    \/ PipelineLeavesBarrier
StageStep(s) ==
    \/ Initialize(s) \/ Initialized(s) \/ Materialize(s)
    \/ StartProcessing(s) \/ Started(s) \/ ProcessEvent(s)
    \/ BeginDrain(s) \/ Drained(s) \/ FinishDrain(s)
    \/ \E e \in StageEvents : StageFails(s, e)

Next ==
    \/ PipelineStep
    \/ \E s \in Stage : StageStep(s)
    \/ \E k \in spawned : SpawnedSends(k)
    \/ MainSends

Spec == Init /\ [][Next]_vars

\* The runtime polls every task that is woken, and timers elapse.
FairSpec == Spec /\ WF_vars(Next)
-----------------------------------------------------------------------------
StageStates == {r[1] : r \in StageRows} \cup {"Drained"}
PipelineStates == {r[1] : r \in PipelineRows} \cup {"Shutdown"}
TypeOK ==
    /\ pipeline_state \in PipelineStates
    /\ pipeline_rx \in Seq([type : {r[2] : r \in PipelineRows}, id : Task])
    /\ stage_state \in [Stage -> StageStates]
    /\ stage_rx \in [Stage -> Seq(StageEvents \ {"BeginDrain"})]
    /\ at \in [Task -> {"loop", "initializing", "barrier", "draining", "done", "failed"}]
    /\ spawned \subseteq [stage : Stage, event : {"MaterializationComplete", "DrainComplete"}]
    /\ shutdown_rx \subseteq Stage /\ ready_stages \subseteq Stage /\ drained_stages \subseteq Stage
    /\ arrived \subseteq Task
    /\ main \in {"waiting", "sent"}

HasMaterialized(s) == stage_state[s] \notin {"Uninitialized", "Materializing"}
HasBegun(s) == stage_state[s] # "Uninitialized" \/ at[s] = "initializing"
Waits(s, event) == \E i \in DOMAIN stage_rx[s] : stage_rx[s][i] = event

\* The stages go through their lives in step, in whatever order they report and
\* reach the barrier: none materializes before all are initializing, none runs
\* before each has materialized and taken its start, and none drains before the
\* pipeline has begun the shutdown (asserted by the test at lines 666-694).
LockStep ==
    \A s \in Stage :
        /\ HasMaterialized(s) => \A t \in Stage : HasBegun(t)
        /\ stage_state[s] \in {"Running", "Draining", "Drained"} =>
              /\ \A t \in Stage : HasMaterialized(t) /\ ~Waits(t, "StartProcessing")
              /\ pipeline_state \in {"Running", "Draining", "Shutdown"}
        /\ stage_state[s] \in {"Draining", "Drained"} \/ at[s] = "draining" =>
              pipeline_state \in {"Draining", "Shutdown"}

\* The pipeline is never sent an event its state has no row for, whatever order
\* the stages report in: no report comes early or late, and each of its own
\* all-reported events comes once.  (So the model has no step in which the
\* pipeline's task ends in an error.)
PipelineHandlesAll ==
    at[Pipeline] = "loop" /\ pipeline_rx # <<>> => <<pipeline_state, Head(pipeline_rx).type>> \in PipelineRows

\* A stage task ends in an error for one reason only: it took the shutdown signal
\* while data it had been sent before was still waiting.
OnlyQueuedDataFails ==
    \A s \in Stage : at[s] = "failed" => stage_state[s] = "Draining" /\ main = "sent" /\ Data > 0

\* The pipeline shuts down after the last stage has.  This is so on the test's one
\* thread (see Report): with more threads the pipeline could read the last report
\* before the stage that sent it has assigned its state.
PipelineLast == pipeline_state = "Shutdown" => \A s \in Stage : stage_state[s] = "Drained"

\* Nobody waits for anybody forever: startup, run and shutdown come to their end,
\* unless a stage failed over its queued data.
Finishes == <>( \/ \A t \in Task : at[t] = "done"
                \/ \E s \in Stage : at[s] = "failed" )
=============================================================================
