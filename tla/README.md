# obzenflow-fsm in TLA+

`obzenflow-fsm` is an async finite state machine library: `fsm!` turns a table
of states and events into a chain of builder calls, the builder makes a
`StateMachine`, and a host drives that machine with `handle` and
`check_timeout` and executes the actions it returns. These modules describe the
engine, the builder, the macro, the documented host loop, the examples and the
systems the repository's tests build around the crate as transition systems,
check them with TLC on small instances, and prove with TLAPS, for every
configuration, every safety property of the passing runs.

## 1. Inventory

| component | source | state it keeps | operations | who it talks to |
|---|---|---|---|---|
| engine (`StateMachine`) | `src/src/machine.rs` | `current_state`, `state_timeout`, five immutable handler tables | `new`, `state`, `handle`, `check_timeout`, `apply_transition`, `execute_actions` | called by a host; awaits handlers, hooks and actions; reads the clock |
| builder | `src/src/builder.rs` | the tables being built, the duplicates noted, the strict flag | `new`, `strict`, `when`, `from_any`, `when_unhandled`, `on_entry`, `on_exit`, `on` (twice), `timeout`, `done` (twice), `build`, `try_build` | called by the expansion of `fsm!`; creates the engine |
| `fsm!` | `obzenflow-fsm-macros/src/{parse,codegen}.rs` | `FsmSpec`: the blocks read so far | the clause loop, the expansion | emits builder calls |
| derive macros | `obzenflow-fsm-macros/src/lib.rs` | none | `variant_name` from the variant's identifier | the names dispatch uses |
| trait gates | `src/src/lib.rs` (`__private`) | none | `require_derived_state`, `require_derived_event` | called by the expansion, decided by rustc |
| supervisor loop | `src/src/lib.rs:202-259` | a machine, a context, the actions to run | poll, receive, handle, execute, map a failure to an event | drives the engine |
| transition helpers | `src/src/{types,transitions}.rs` | none | `goto`, `stay`, `to`, `with_action`, ... | used inside handlers |
| errors, handler types | `src/src/{error,handlers}.rs` | none | none at run time | |
| example doors | `src/examples/simple_fsm.rs`, `src/src/lib.rs` | a door, a log | open, close, a timeout | one engine, one host |
| in-flight drain (circle 1) | `src/tests/circle_1_race_condition.rs` | many machines, an atomic counter, a barrier | increment, decrement, drain | tasks share the context only |
| coordination (circle 2) | `src/tests/circle_2_async_coordination.rs` | a pipeline and its stages, channels, a barrier, a broadcast | start up, run, drain | each task owns an engine and sends to the others |
| journal (circle 3) | `src/tests/circle_3_journal_subscription.rs` | speakers, a journal, vector clocks | write, subscribe | |
| ledger (circle 4) | `src/tests/circle_4_mathematical_properties.rs` | an account, ids, an operation log | credit, debit, subtract, append, mark | one machine under repeated and reordered events |
| purgatory (circle 5) | `src/tests/circle_5_timeout_cancellation.rs` | a buffered batch, downstream channels | start, process, poison, time out | one machine whose calls are dropped |
| ownership (circle 6) | `src/tests/circle_6_memory_corruption.rs` | reference counts | | |
| restored machine | `src/tests/test_comprehensive.rs`, `src/src/lib.rs:76` | a saved state, a log of events | save, restore, replay | a host that builds its machine anew |

What is hard here is concentrated in one place. `handle` and `check_timeout`
are `async`: between the first read of the machine and its last write lie up to
three awaits of host code (transition or timeout handler, exit hook, entry
hook). Each can take arbitrarily long while the clock runs, can return `Err`,
and can be dropped, because a Rust future may be abandoned at any await. The
machine is borrowed mutably for the whole call, so no second call interleaves,
but a call that is abandoned leaves the machine as it is. The other hard
parts are the two paths into one table (`WhenBuilder::on` and
`TimeoutBuilder::on`), the last-write-wins maps under a chain that revisits a
state, and the host loop, in which failing actions re-enter the machine in the
middle of a batch and timeouts are served cooperatively.

Around one engine the host brings in what the engine cannot see: other tasks that
share the context and interleave at every await of a handler (circles 1 and 2),
events delivered twice or in another order (circle 4), calls dropped half-way and
receivers that go away (circle 5), and a host that dies between a call and the
write that records it (restored machine).

What makes each component correct:

* engine: the timer always is the one of the state the machine is in; no
  timeout before its time; a failed or abandoned call changes nothing; outputs
  belong to one transition and come in the documented order.
* builder: nothing registered is lost, repeated rows are reported, a machine
  that is built can start.
* macro: the machine built is the one declared.
* loop: it never continues with a broken machine, starves neither events nor
  timeouts, and drops no action.
* in-flight drain: the shared counter never underflows, is zero and final when the
  coordinator looks, and everybody passes the barrier.
* coordination: the stages go through start, run and drain in step, nobody gets an
  event its state has no row for, and nobody waits for ever.
* ledger: what is repeated counts once, and log, state and actions agree.
* purgatory: the batch accepted last is kept, delivered or announced as lost.
* restored machine: log, saved state and machine tell the same story, and no
  timeout is lost.
* doors: what the log says is what the machine did.

`PROJECT.json` lists the hazards line by line with the properties that cover
them.

## 2. Modules

```
FsmTypes ──┬── StateMachine ──┬── StateMachineProofs
           │        │         ├── MCStateMachine
           │        │         ├── HostLoop ──┬── MCHostLoop
           │        │         │              └─┐
           │        │         │                ├── HostProofs (with StateMachineProofs,
           │        │         │              ┌─┘               RunsProofs)
           │        │         ├── Recovery ──┴── MCRecovery
           │        │         └── Purgatory ─┬── MCPurgatory
           │        │                        └── PurgatoryProofs (with StateMachineProofs)
           │        └─ implements ─ MealyMachine
           ├── MealyMachine
           └── FsmBuilder ── FsmMacro ──┬── MCFsmMacro
                                        └── FsmBuilderProofs

InFlight ─────┬── MCInFlight            Runs ──┬── RunsProofs
              └─┐                              ├── Recovery
                ├── CircleProofs               ├── Ledger
              ┌─┘                              └── Transitions
Coordination ─┴── MCCoordination

Ledger ──┬── MCLedger
         └── LedgerProofs (with RunsProofs)
Transitions ── Door ──┬── MCDoor
                      └── DoorProofs (with RunsProofs)
```

`Recovery`, `Purgatory` and `HostLoop` are the engine with a host around it: their
steps are the engine's actions with the host's part conjoined. In `Coordination`,
`InFlight`, `Ledger` and `Door` every handler of the code waits at most at one
place, there are no hooks and nearly no timers, so a call is one or two steps of
its own and the engine's general picture is left to `MealyMachine`.

**FsmTypes.** Names, keys and tables: what the builder hands to the engine. A
handler is opaque host code; a table says only under which names one exists.
`State` are the state values, `VariantName` the derived `variant_name`, so
several values (payloads) may share a variant. An event is its variant: nothing
else of it is read outside the handlers.

**StateMachine.** The fields of the struct are variables of the same name.
`pc` says where the call in flight waits and `matched`, `transition`,
`all_actions` are that call's locals. An action goes from one await to the next:

| action | code |
|---|---|
| `Handle(e)` | `handle` up to its first await: exact key, wildcard key, unhandled hook, or `Err` |
| `CheckTimeout` | `check_timeout` up to its await |
| `HandlerReturns(s)` | the transition or timeout handler returns a transition to `s`; `apply_transition` up to its next await |
| `ExitHookReturns` | assigns `current_state`, then awaits the entry hook or returns |
| `EntryHookReturns` | decides the timer and returns all actions |
| `UnhandledHookReturns` | returns `Ok(vec![])` |
| `ExecuteActions`, `ActionSucceeds` | `execute_actions` |
| `Abort(kind)` | the awaited code returns `Err`, or the future of the call is dropped |
| `Tick` | time passes, between calls or while one waits |

A handler may return any next state and no action or one; an action carries
which hook of which name produced it, so that order and provenance can be
stated. `Instant + Duration` panics out of range: `ArmAndReturn` has that
outcome, with `MaxInstant` for the last instant.

**MealyMachine.** The abstract specification: `State x Event -> Actions, State`
in one atomic step, with one deadline per state. Its `HalfStep` is the price of
the code's order of writes: the new state without its deadline. `StateMachine`
implements it with `state <- IF pc = "entry" THEN before.state ELSE
current_state`: the state is assigned before the entry hook is awaited, but the
machine is mutably borrowed until the call ends, so the step takes effect there.

**FsmBuilder.** The builder types consume themselves, so a configuration is one
chain of calls; `stage` says which of the three types holds it. Handlers are
identified by the position of the call that registered them, which lets the
properties speak of the first and the last.

**FsmMacro.** Extends the builder. The header's five fields are read in their order,
source clauses one by one into blocks, and rustc checks the gates and patterns of
the expansion (`Compile`). The expansion is calls in parts, one for each block and
one before and after them (`Part`); `at` is the call that the running program makes
next on the builder, so the list itself is never built. A path has a `variant` (what rustc resolves) and a `segment` (what
codegen registers). `types` says whether the state and the event type derive their
traits, as an enum (one `variant_name` arm per variant) or as a struct (a compile
error), or implement them by hand, which the gates refuse. `phase = "chain"` is a
program that makes builder calls without `fsm!`, so one run covers both ways to a
machine.

**HostLoop.** Extends the engine with the loop of `lib.rs:235-257`. `Poll`,
`Receive` and `ActionFailed` start calls, `MachineStep` is the engine's progress
while the loop awaits it, the `...Returns` actions take its result. Events come
at any time and any number of times.

**Recovery.** Extends the engine with a host that records each event for which `handle`
returned `Ok` (also if only the unhandled hook took it), may die anywhere (`Crash`), and
builds the machine anew from the saved state (`Restore`)
or by replaying the log (`StartReplay`, `Replay`, `Replayed`, `EndReplay`). `New`
is `try_build` and `StateMachine::new`. `lib.rs:76-78` asks for deterministic
handlers, so they are functions here; hooks still fail. How the host stores its
log is not in the repository and is marked external in the map.

**Purgatory.** Extends the engine with the tables of circle 5's trials and the
handlers' own steps: `next` is the item and the channel that `ProcessBatch` sends
next, one send per step, with channels that close at any time and calls the host
drops at any await.

**InFlight.** Each task of circle 1 runs its program of events; the events of the
three phases are counted, so where a task is follows from `step`. A step goes from
await to await: an increment changes the atomic before it waits for the metrics'
lock, so it is two steps. `Wrap` is the width of the counters.

**Coordination.** Tables of circle 2 as sets of rows, a queue per task, and the
barrier, the broadcast and the spawned tasks. Handlers that sleep or wait at the
barrier are two actions, the others one.

**Ledger.** The account of circle 4: `Handle` up to the lock of the operation log,
`Logged` from there to the return. The id set is in the machine's state and
survives a restart, log and counter are in the context and do not. The properties
speak of one credit id at a time: how often the operations, the log or the executed
actions have it.

**Runs.** `RunOver(step, first, seq)`, the value that a step leads to over the
elements of a sequence: the state over the log of `Recovery`, the sums of `Ledger`,
the list over a chain of `Transitions`, and the lines over the history of a `Door`.
It is a recursive function over the positions, because theorems about it are needed
(section 5).

**Transitions** and **Door.** `Transitions` has the constructors and builders a
handler may make its transition with, as operators; a chain of calls is a run over
them.
`Door` is the three doors of the examples as data (`Simple`, `QuickStart`,
`Timed`) under one host that executes, ignores or loses what `handle` returns.

Definitions headed "Mutated form" are wrong variants of the definition after
them. They are used by no specification; each belongs to a property that has to
fail when it replaces the original.

## 3. Runs

| run | configuration | checks | distinct states |
|---|---|---|---|
| `engine` | `MCStateMachine.cfg` | `TypeOK`, five safety invariants, `ExecutedInOrder`, `ImplementsMealy` | 1 570 000 |
| `engine_entry` | `MCStateMachineEntry.cfg` | violation of `EveryEntrySchedulesTimer` | |
| `macro` | `MCFsmMacro.cfg` | `TypeOK` and three invariants of the builder; source and machine agree | 987 000 |
| `macro_duplicates` | `MCFsmMacroDuplicates.cfg` | violation of `DuplicateRowsRejected` | |
| `macro_alias` | `MCFsmMacroAlias.cfg` | violation of `RowsAreReachable` | |
| `host_loop` | `MCHostLoop.cfg` | three invariants and two liveness properties of the loop | 583 000 |
| `coordination` | `MCCoordination.cfg` | four invariants, `Finishes` | 1 073 000 |
| `recovery` | `MCRecovery.cfg` | `LogExplainsState`, `TimeoutOnlyPostponed` | 727 000 |
| `ledger` | `MCLedger.cfg` | three invariants | 1 475 000 |
| `in_flight` | `MCInFlight.cfg` | two invariants, `CountIsFinal`, `AllJoin` | 488 000 |
| `purgatory` | `MCPurgatory.cfg` | `LastBatchSafe` | 183 000 |
| `door` | `MCDoor.cfg` | three invariants, `OpenDoorCloses` | 53 000 |

**Bounds.** `MaxTime` stops the clock (2 in the engine's runs), `MaxInstant` is the
last instant (4). Every timing comparison in the code is between `now` and one
deadline, and durations 0, 1, 2 and 100 give deadlines that are due at once, due
within the run, due only if nothing happens, and out of range. Two variants, one of
them with two payloads, give transitions to another variant, to another value of the
same variant and to the same value. `MaxCalls` (4) bounds the registering calls
of a builder chain: three calls suffice to register, repeat and repeat again.
`MaxClauses` (5) bounds the source text: two blocks for one state, each with a
row, and one clause more. `MaxEvents` (3) and `MaxInbox` (2) bound what is delivered
to the loop: one event handled, one waiting, one more.

* `recovery`: three events logged (`MaxLog`), two crashes, the second of which may
  hit the recovery from the first, and three ticks under timeouts of one and two. In
  state `B` the event `f` has no row of its own: it is an error, goes to the unhandled
  hook, or to a wildcard row, one of each among the three configurations.
* `coordination`: the five stages of the test, each sent three items of data, so that
  data can wait behind the shutdown and behind other data.
* `in_flight`: three machines, each with one increment, one pair, and two decrements
  of its own and others' increments. `Wrap` is 256, which no count reaches unless
  one underflows.
* `ledger`: seven events handed over, from two credits, a debit and an append (a
  subtraction is a debit under another name); `Limit` 4 is reached and saturates, `Mark` 2 is reached by balance, by
  the length of the list and by the duplicate counter.
* `purgatory`: two batches, two dropped calls, two downstream channels, deadlines
  within the run.
* `door`: six events and four ticks open and close each door several times; chains of
  up to three helper calls with lists of up to two actions contain every order of
  the two calls.

**Deadlock** is checked wherever the host can always do something: the engine and
`recovery`, `purgatory` and `door` (it can poll), the ledger (it can restart), the
macro (`Finished` marks its end). The loop ends with `?` or waits for an event that
may never come, and the tasks of `coordination` and `in_flight` end, so those runs do
not check it; that these tasks do not stop before their end is `Finishes` and
`AllJoin`.

**Fairness.**

* `FairHSpec`: weak fairness of the loop's own steps. The runtime keeps polling a
  task that is ready, and every handler and action the loop awaits is taken to
  return. Deliveries and the clock are not fair: no event need ever come.
  `ElapsedTimeoutIsServed` therefore needs an event that waits, which is what the
  documented loop really gives: a timeout that elapses while the loop waits is not
  served until something arrives.
* `FairSpec` of `Coordination` and `FairRaceSpec` of `InFlight`: weak fairness of the
  next-state relation, that is, the runtime runs some task as long as one can run or a timer is set. Every behaviour
  of these programs is finite, so nothing is assumed about which task it is.
* `FairSpec` of `Door`: the host polls, handlers and actions return, time passes.

**Scheduling in `Coordination`.** Tasks that can run do so in any order, which
includes the order of the single-threaded test runtime. Timers fire only when
nothing can run: they are 10 to 50 ms long, and the test's own wait of 200 ms is the
longest of all, as the test relies on. Its setup has no wait, so the initial state is
the one after it.

## 4. What the checks show

* While a call waits, nothing has been written until the exit hook has returned
  (`UncommittedCall`); a failure up to there is invisible
  (`FailedCallKeepsMachine`). The only trace a failed call can leave is a new
  state whose entry was interrupted, which `half_entered` records.
* If no entry is interrupted the timer is always the current state's
  (`TimerFollowsState`) and a timeout handler never starts early
  (`TimeoutNotEarly`). That it is not late either, and runs from the deadline's own
  instant on, is part of `ElapsedTimeoutIsServed`, which takes no help from the clock.
* Outputs are those of one transition in the documented order
  (`OutputIsOneTransition`). `execute_actions` performs a prefix of its list, and
  returns `Ok` only when that is the whole list (`ExecutedInOrder`).
* Every chain of builder calls keeps what it registered
  (`TablesHoldLastRegistration`), reports the first row `WhenBuilder::on` repeated
  (`FirstRepeatIsReported`) and yields a machine that can start
  (`BuiltMachineCanStart`). What `fsm!` builds is what its source declares
  (`TablesMatchSource`), each row is found by dispatch (`RowsAreReachable`, which
  needs the gates), and a refusal has its reason in the source
  (`RefusalIsJustified`).
* The loop ends on every error of `handle`, so it never uses a half entered
  machine (`LoopKeepsTimer`); at most one event of the inbox is handled between the
  moment a timeout elapses and the next poll (`OneEventBeforeElapsedTimeout`); failure
  events handled in the middle of a batch drop or reorder none of the rest
  (`NoActionSkipped`).
* A recovered machine agrees with the log unless a timeout moved it, which no event
  records, or the host went on after a half entered state (`LogExplainsState`). Events
  that only the unhandled hook took return `Ok` and are in the log too; they lead
  nowhere, then and when replayed.
  Recovery starts the countdown anew: a timeout may come later, but is neither lost
  nor advanced (`TimeoutOnlyPostponed`).
* Machines that share a counter may decrement what others incremented; the counter
  still never underflows (`CountIsTracked`), and is zero when the coordinator looks if
  every machine has as many decrements as it can have made increments
  (`DrainsToZero`). The test has 100 decrements against 150 increments at most,
  which is why it tolerates a residue. What the coordinator reads is final
  (`CountIsFinal`).
* Stages go in step (`LockStep`), the pipeline is never sent an event it has no row
  for (`PipelineHandlesAll`), and it ends last (`PipelineLast`; a stage sends its
  report and assigns its state in one step, which holds on the one thread of the test's
  runtime and not with more). A stage can fail for
  one reason: `select!` may take the shutdown signal while data waits
  (`OnlyQueuedDataFails`). Otherwise all tasks end (`Finishes`).
* Credits count once over duplicates, reordering, dropped calls and restarts
  (`CreditsCountOnce`), their actions at most once (`ActionAtMostOnce`; a restart
  between the two loses the action for good), and the log shows what the state
  holds (`LogMatchesState`).
* The batch accepted last is never lost without a word (`LastBatchSafe`).
* Lines written by a handler share a step with its transition and are the machine's
  history whatever the host does (`HandlerLinesAreHistory`); lines written by actions
  are it as long as the host executes them (`LogTellsStory`).

Three statements of the repository do not hold of the code:

1. `lib.rs:269-271` says every transition into a state schedules that state's
   timeout or clears the timer. The timer is decided after the entry hook
   (`machine.rs:185`, `190`): a hook that fails leaves the new state with the
   old timer, which may then run the new state's timeout handler too early, or
   never (run `engine_entry`).
2. `CHANGELOG.md:78` and `builder.rs:55` say duplicate rows are always rejected.
   `TimeoutBuilder::on` (`builder.rs:253`) has no check, so in a state block with
   a timeout the second row silently replaces the first (run
   `macro_duplicates`; `RepeatedRowNeedsTimeout` shows it is the only way).
3. `lib.rs:369-371` says `fsm!` dispatches on variant identifiers only. A variant
   imported under another name is registered under that name and its row never
   fires (run `macro_alias`).

Three smaller observations have no run of their own:

* `check_timeout` returns the empty list both when no timeout fired and when one
  fired whose transition and hooks give no action, against the words at
  `machine.rs:107`: an empty result does not mean that the state is the same.
* `MarkOfBeast` (`circle_4_mathematical_properties.rs:462`) reads the context's
  counter of duplicates, so whether the machine is corrupted depends on how often
  events were delivered again, and no longer after a restart.
* A second `StartMaterialization` (`circle_5_timeout_cancellation.rs:199`) replaces
  the batch accepted before. `LastBatchSafe` is about the last one for that reason.

## 5. Proofs

These properties hold for every set of variants, states, events, tables, durations,
source paths, machines, stages, operations, batches and host actions, for all deterministic handlers of a
recovered machine, and for behaviours of every length, from the assumptions named in
the modules: names are not the wildcard, `None` is no value, tables are well typed, a
path's segment is a name and its variant one of the enum's or none, the machines of
`InFlight` are finitely many and the coordinator is none of them, its counters have
some width, there is at least one stage (a pipeline without stages
waits for ever for a report) and the pipeline is none, a host's poll is no event, and
the tables of `Purgatory` are within those of the trials. A module that proves about
two components needs each one's assumptions for that component only. The bounds
(`MaxTime`, `MaxCalls`, `MaxClauses`, `MaxLog`, `MaxHandled`, ...) are arbitrary
numbers here.

| theorem | module | property |
|---|---|---|
| `TypeCorrect` | `StateMachineProofs` | `TypeOK` |
| `TimerCorrect` | `StateMachineProofs` | `TimerFollowsState` |
| `TimeoutSound` | `StateMachineProofs` | `TimeoutNotEarly` |
| `FailureAtomicity` | `StateMachineProofs` | `FailedCallKeepsMachine` |
| `CommitPoint` | `StateMachineProofs` | `UncommittedCall` |
| `Refinement` | `StateMachineProofs` | `ImplementsMealy` |
| `OutputCorrect` | `StateMachineProofs` | `OutputIsOneTransition` |
| `ExecutionInOrder` | `StateMachineProofs` | `ExecutedInOrder` |
| `EngineInLoop` | `HostProofs` | `HSpec => Spec`: all of the above inside the loop |
| `LoopTimer` | `HostProofs` | `LoopKeepsTimer` |
| `BatchComplete` | `HostProofs` | `NoActionSkipped` |
| `TimeoutNotStarved` | `HostProofs` | `OneEventBeforeElapsedTimeout` |
| `LoopNeverStuck` | `HostProofs` | `LoopNotStuck`: the loop waits for nothing but an event |
| `LoopRunsDown` | `HostProofs` | `EventComesUp`: each of its steps receives one or leads nearer to it |
| `RecoveryPostpones` | `HostProofs` | `TimeoutOnlyPostponed` |
| `LogExplains` | `HostProofs` | `LogExplainsState` |
| `BuilderTypeCorrect` | `FsmBuilderProofs` | `TypeOK` |
| `TablesCorrect` | `FsmBuilderProofs` | `TablesHoldLastRegistration` |
| `RepeatReported` | `FsmBuilderProofs` | `FirstRepeatIsReported` |
| `BuildSound` | `FsmBuilderProofs` | `BuiltMachineCanStart` |
| `BuilderInMacro` | `FsmBuilderProofs` | `MSpec => Spec`: the four above for what `fsm!` expands to |
| `SourceMatches` | `FsmBuilderProofs` | `TablesMatchSource` |
| `RepeatNeedsTimeout` | `FsmBuilderProofs` | `RepeatedRowNeedsTimeout` |
| `RefusalSound` | `FsmBuilderProofs` | `RefusalIsJustified` |
| `Reachable` | `FsmBuilderProofs` | `RowsAreReachable`, if nothing is imported under another name |
| `FinalCount` | `CircleProofs` | `CountIsFinal` |
| `SharedCountIsTracked` | `CircleProofs` | `CountIsTracked` |
| `DrainEmpties` | `CircleProofs` | `DrainsToZero` |
| `CoordinationTyped` | `CircleProofs` | the types of its variables |
| `StagesGoInStep` | `CircleProofs` | `LockStep` |
| `PipelineIsPrepared` | `CircleProofs` | `PipelineHandlesAll` |
| `FailsOverDataOnly` | `CircleProofs` | `OnlyQueuedDataFails` |
| `PipelineIsLast` | `CircleProofs` | `PipelineLast` |
| `RaceNeverStuck` | `CircleProofs` | `NobodyStuck`: until circle 1 is over, some task can go on |
| `RaceRunsDown` | `CircleProofs` | `EveryStepCounts`: each of its steps leaves less to do |
| `CoordinationNeverStuck` | `CircleProofs` | `NobodyWaitsForever`: until circle 2 is over, some task can go on |
| `CoordinationRunsDown` | `CircleProofs` | `EveryTurnCounts`: each of its steps leaves less to do |
| `CreditsCount` | `LedgerProofs` | `CreditsCountOnce` |
| `LogTells` | `LedgerProofs` | `LogMatchesState` |
| `ActionsRunOnce` | `LedgerProofs` | `ActionAtMostOnce` |
| `LastBatch` | `PurgatoryProofs` | `LastBatchSafe` |
| `HandlersTellHistory` | `DoorProofs` | `HandlerLinesAreHistory` |
| `ActionsTellStory` | `DoorProofs` | `LogTellsStory` |
| `LastListCounts` | `DoorProofs` | `ChainIsLastList` |

**Timer and failures.** `TypeOK` is inductive by itself; its clauses that tie
`matched`, `transition` and `pending` to `pc` are there for that. The four
properties about timer and failures follow from one inductive invariant, `IInv`: typing, that
`now` has not passed behind the entry (`ClockInv`), `TimerFollowsState`,
`TimeoutDue` (a timeout handler runs only after the deadline found in the
machine has elapsed), `UncommittedCall` and `FailedCallKeepsMachine`. The timer
part is needed because `TimeoutNotEarly` alone says nothing about the machine
between calls, the commit part because a call in flight must not have moved the
timer that it found elapsed. The lemmas are stated for the operators that actions
share (`Begin`, `Immediate`, `SwitchState`, `ArmAndReturn`), so the step proof is
one line per action.

**Refinement.** `IInv` speaks of the machine and says nothing of the locals of a
call: from it alone a call waiting in its entry hook could hold the actions of
any handler, and its return would be no step of `MealyMachine`. `FrameInv` adds
that the locals belong to this call: `transition.actions` are some handler's that
the engine finds for the state the call began in (`FromHandler`), and
`all_actions` are those of the exit hook of that state's variant and of no other.
Of these the timeout handler needs care: it is found only once its deadline has
elapsed, and that must still be so when the call returns (`FromHandlerKept`). With
`IInv /\ FrameInv`, an action that returns a transition maps to the step of the
abstract machine and every other one to a stutter (`NextMapsToStep`), except an
aborted entry, which maps to `HalfStep`.

**Outputs.** `OutputIsOneTransition` rests on `FrameInv` too, for where the actions
came from, and on arithmetic of sequence indices for their order: the parts
of the exit hook, the entry hook and the handler keep it when joined
(`JoinedInOrder`). The state part of `ExecutedInOrder`, `PerformedSoFar`, is inductive
with typing: `ActionSucceeds` moves the head of what is left to the end of what is
performed (`MoveHead`). Its other part is about the step that returns `Ok`, because
later calls overwrite the result: a call in flight has none yet (`UncommittedCall`),
so the step is the last action's success, after which nothing is left (`NextOk`).

**Loop.** Every step of the loop is a step of the engine or leaves it alone
(`LoopStep`), so `EngineInLoop` brings `IInv` and `OutputIsOneTransition` along.
`LoopInv` adds what the place of the loop says of the machine: between calls it is
entered completely, and in a call it can be half entered only in the entry hook or
after a result the loop has yet to look at. That is where `?` matters: without it
the loop would go on from such a result, and `LoopKeepsTimer` would break. The batch
and the count of late events are inductive with the typing of the lists.

**Recovery.** A step of the host is a step of the engine, leaves it alone, or loses and
rebuilds it; `IInv` survives the third kind too (`CrashEngine`, `NewEngine`), because
`new` starts where `Init` does, at a later time. `RInv` adds that a deadline on record
is at most its state's duration ahead of the clock, so the one `new` counts from now
cannot come before it (`RecordedTimer`), and that a state reached in a replay was
entered no earlier than that allows (`ReplayedTimer`). The replay also needs that the
machine is half entered only while a call has not been looked at, which
`ProgressEnters` gives, as it does for the loop.

**Log.** `Told` ties log, saved state and machine together: while nothing diverted
the machine, the saved state is where the logged events lead, and a call in flight
started from it and goes where its event leads (`Along`). Where an event leads is
`Leads`: to the handler's state if the event has a row, and nowhere if it has none. So
`Along` also says that a handler is awaited only for an event with a row and the
unhandled hook only for one without. In a replay the saved state says nothing of the
machine, so `ReplayedSoFar` says instead that the log splits into what is replayed and
what is left, and that the machine is where the first part leads.

**Runs.** What a recursive function computes has to be established by induction, and
the prover has no induction principle for a formula. `RunsProofs` proves the one
fact needed, over the length of a sequence, by the least counterexample
(`LeastNumber`): that the function exists (`RecordExists`), from which follow the
run over nothing, over one more element, and its type (`RunOverNothing`,
`RunOverOneMore`, `RunOverType`), and that any function which records every step
of a run ends with its value (`RunIsRecorded`).

**Builder.** The tables are functions of the list of calls, so each registering
action is one `Append`, and the lemmas (`HeldKept`, `HeldInserted`, `RowsKept`,
`RowsInserted`, `NotedKept`, `NotedRepeat`) speak of lists alone. `Noted` says that
the duplicates noted are empty exactly as long as nothing was repeated outside a
block with a timeout, and begin with the first such repetition; `EndInv` ties the
outcome to what `try_build` finds.

**Macro.** `Place` says where the running program is: `at` is a call of some part,
and the builder is in the type, and inside the block, that the calls before it
leave behind (`StageBefore`). A call of the expansion therefore always finds the
builder type it needs (`MacroIsBuilder`), and `BuilderInMacro` brings the builder's
theorems along. `Matched` ties source and tables together: hooks and timeouts
registered so far are those of the calls passed, and some map leads from the rows
passed to the calls that registered them, keeps their order, hits every such call,
and keeps names and builder type (`PlacedIn`). At the end all rows are passed
(`AllMade`), so the builder's statements about its first repeated call become
statements about the source. `Reachable` assumes `OwnNames`, paths that end in
their variant's identifier; without it the statement is false, which is the run
`macro_alias`.

**Barrier.** `BarrierInv`: who has arrived waits there or is done, and neither kind of
machine is in the middle of an increment. A full barrier has everyone
(`FullMeansAll`, by cardinality), so from then on no machine can touch the counter.

**Counter.** A sum over the machines has no recursive definition here: it is the
cardinality of a set of tokens, a machine paired with each number below its count
(`Total`), and the lemmas say how it changes when one machine's count does.
`TrackInv` adds `CountIsTracked` to the barrier's part and is inductive. It is no
help for `DrainsToZero`: a machine that finds the shared counter at zero uses up its
event and keeps its own number. What bounds the shared counter are the
decrements a machine still owes (`Owed`): those left of its drain, less what it may
yet add, and the one in progress, so that an event of the chaos phase may turn out either way. If a machine
has as many decrements as it can make increments, nothing is owed at the barrier.

**Coordination.** `CoordinationInv` says that there are ages of the stages, from 0
(`Initialize` still waits) to 10 (drained), with which everything else agrees: the state of each
stage, where its task is, what it has reported, what is on its way to it
(`InStep`, `Messengers`), and which state of the pipeline the ages of all the stages
allow (`PipelineAt`). No variable of the program holds an age, so it is
existentially quantified, and each step gives the new one. That a report is
sent once and that the pipeline asks only when everyone has reported then follow
from the ages, and so do all four properties.

**Progress.** `EventIsReceived`, `AllJoin` and `Finishes` are liveness, and fairness is out
of the prover's reach; what they rest on is not. While the loop has an event to receive,
or a circle is not over, somebody can go on (`LoopNeverStuck`, `RaceNeverStuck`,
`CoordinationNeverStuck`), and every step of the circles, and every step of the loop that
does not receive an event, makes something well-founded smaller (`LoopRunsDown`,
`RaceRunsDown`, `CoordinationRunsDown`), on which deliveries and time have no influence. The
only fairness assumed, the weak fairness of the loop's steps and of the circles'
next-state relations, then lets them stop nowhere else. That last inference is
made here, on paper. So is the one from "can go on" to "a step is enabled":
`ENABLED` is out of reach too, the guards are written out (`LoopCanGo`,
`MachineCanGo`, `StageCanGo`, ...), and TLC found their disjunction equal to `ENABLED`
of those steps in every reachable state of the instances of `host_loop`, of three machines
and of three stages.

What is left to the loop are five numbers, the first that changes decides (`LoopLeft`): the
stations up to the next `receive`, the actions of the batch, those of a failure event, and
the awaits of a call. `WaitInv` says that an awaited call that has returned has a result
the loop looks at, which is where a panic could have left it waiting.
What is left of circle 1 is a sum over the machines' programs (`StepsLeft`);
`ProgramInv` says that a machine's state tells how far its program is, so that no event
meets a state without a row and nobody waits at the barrier for somebody who does not
come. What is left of circle 2 is a sum over the stages: states to go through, and
events in its channels or yet to be put there by spawned tasks, the pipeline or the
test (`StageLeft`, `OthersLeft`), so that sending moves work and adds none.
`CoordinationNeverStuck` needs the ages, and `OnItsWay`: the end of a drain is spawned
or already in the queue as soon as the stage is in `Draining`.

**Ledger.** `LedgerInv`: the operations have each credit id at most once, their ids are
the state's ids, a credit whose handler waits for the log is not yet among them, the
balance is their sum until it saturates, and actions pending or executed are those of
credits in the state, each once. Everything is said by id, and nothing is assumed of
the operations: two different credits may share an id, and the second counts as a
repetition. `LogMatchesState` is inductive with it.

**Purgatory.** The trials have no hooks, so a handler's return ends the call at once
(`TrialReturns`) and the state never changes while one waits. `SentSoFar`: while
`ProcessBatch` sends, each channel ends with that part of the buffer which comes
before the place of `next`. When the last item has gone down the last channel that
part is the whole batch (`WholeSuffix`). The rest is `LastBatchSafe` itself: a machine
in `Materializing` that has not condemned itself has the batch accepted last in its
buffer.

**Door.** `DoorInv` has the two properties, and what makes them inductive: a door's
actions write no line that a handler writes (`DoorTables`, the only place that looks
at the doors one by one), so executing one changes nothing of what the handlers are
heard to say, and a handler runs only when nothing is left to execute, so its lines
come behind those of earlier actions. Giving actions up sets `lost` and nothing
else (`GivenUp`).

**Chains.** `ChainIsLastList` is about no state. The list after the first n calls of
a chain is that of the last call among them that replaces it, with what they add
behind (`After`); there is such a call or none (`LastReplace`), and one more call is
one more step (`AfterOneMore`). So these lists record the run, and the last of them
is what the chain collects (`CollectedIsMeant`).

**Only model-checked:**

* liveness and fairness (`EventIsReceived`, `ElapsedTimeoutIsServed`, `Finishes`,
  `AllJoin`, `OpenDoorCloses`), which are out of the prover's reach; what
  the first, `Finishes` and `AllJoin` rest on is proved (Progress, above);
* the violations reported above.

## 6. Not modelled

* The text of errors and logs, and `describe`.
* What Rust accepts inside a type, an expression or a handler: it parses or it does
  not (`ReadGarbage`). The type bounds the derive macros add.
* The context of the engine: it is passed on and never looked at. The test systems
  have their contexts.
* The journal of circle 3: speakers, vector clocks and channels are the test's own, and
  its machines run one row after the other. What could go wrong there, a full
  channel or locks taken one after the other, is not this crate's code.
* Circle 6: reference counts are decided by Rust's types; the machine in it has no
  behaviour the engine's module lacks.
* `test_concurrent_operations`: a lock held across the await makes its calls
  sequential, and what is left is the engine. The rest of `test_comprehensive.rs`
  calls the engine once at a time.
* `NaiveAverage` and the trials of circle 4 that regroup operations: arithmetic
  over machines with one row.
* Actions of circle 5: its trials look at the state and not at what is returned.

## 7. Plan

Done: the engine with its abstract machine, the builder and the macro, with the
derive macros and the gates, the loop, recovery, the test systems of circles 1, 2, 4
and 5 and the examples, with proofs of all their safety properties, of the
refinement and of what the liveness of the loop and of circles 1 and 2 rests on, and liveness checked. Next, in this order:

1. A host that drops calls on purpose (an outer timeout around `handle`) and
   retries them, above `HostLoop`.
2. Circle 3, if its journal is ever made part of the crate.
