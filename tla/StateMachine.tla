---------------------------- MODULE StateMachine ----------------------------
(***************************************************************************)
(* The runtime engine of obzenflow-fsm (src/src/machine.rs): one machine,  *)
(* the calls its host makes on it, and every point at which such a call    *)
(* may wait, fail or be dropped.                                           *)
(*                                                                         *)
(* handle and check_timeout take &mut self, so one call is in flight at a  *)
(* time; pc is where it waits.  Between two awaits the code runs without   *)
(* interruption, so one action goes from one await to the next.  While a   *)
(* handler is awaited the clock moves, the handler may fail, and the       *)
(* future of the whole call may be dropped (a select!, a host-side timeout *)
(* or a panic in the handler).  A dropped call leaves the machine behind   *)
(* as it is at that await.                                                 *)
(*                                                                         *)
(* Handlers are host code: the model lets them return any next state and   *)
(* either no action or one action that carries its provenance.             *)
(***************************************************************************)
EXTENDS FsmTypes

CONSTANTS
    Tables,         \* the configurations machines are created with
    MaxTime         \* bound: the clock stops here

ASSUME TablesAssumption == \A t \in Tables : TablesType(t)
ASSUME TimeAssumption == MaxTime \in Nat /\ MaxTime <= MaxInstant

VARIABLES
    \* the fields of StateMachine
    current_state, state_timeout, tables,
    \* the clock behind Instant::now()
    now,
    \* the call in flight: where it waits and its locals
    pc, matched, transition, all_actions,
    \* what the last call returned
    result,
    \* execute_actions: the actions left, and those whose effects the context has
    pending, performed,
    \* auxiliary: the machine when the last call began, when current_state was
    \* last assigned and whether the timer has been decided since, and the list
    \* handed to the last execute_actions
    before, entered_at, half_entered, batch

machine == <<current_state, state_timeout, entered_at, half_entered>>
frame   == <<matched, transition, all_actions>>
effects == <<pending, performed, batch>>
vars    == <<machine, tables, now, pc, frame, result, effects, before>>
-----------------------------------------------------------------------------
\* An action of the host, reduced to which of the machine's handlers produced
\* it and under which state name that handler was found.
Action == [hook : {"exit", "entry", "transition", "timeout"}, state : Name]

\* What a handler may return: no action or one.
Outputs(hook, owner) == {<<>>, <<[hook |-> hook, state |-> owner]>>}

NoTransition == [next_state |-> None, actions |-> <<>>]
Result(kind, actions) == [kind |-> kind, actions |-> actions]

name == VariantName[current_state]
HasTimeout(v) == v \in DOMAIN tables.timeout_handlers
Exact(e)      == <<name, e>> \in tables.transitions
FromAny(e)    == <<Wildcard, e>> \in tables.transitions

\* When a state of variant v entered now times out.
Deadline(v) == IF HasTimeout(v) THEN now + tables.timeout_handlers[v] ELSE None
DeadlineExists(v) == HasTimeout(v) => InRange(Deadline(v))

\* Mutated form: a deadline counts as elapsed as soon as there is one.
DueAnyTime == state_timeout # None

\* Mutated form: a deadline counts as elapsed only after its instant.
DueAfterwards == state_timeout # None /\ now > state_timeout

\* The comparison of check_timeout.
Due == state_timeout # None /\ now >= state_timeout

\* StateMachine::new, called by FsmBuilder::try_build, which refuses an initial
\* state with neither a transition of its own nor a timeout.  A deadline out of
\* range panics there and leaves no machine.  The entry hook of the initial
\* state is not run.
Init ==
    /\ tables \in Tables
    /\ current_state \in State
    /\ HasOwnHandler(tables, name)
    /\ now = 0
    /\ DeadlineExists(name) /\ state_timeout = Deadline(name)
    /\ entered_at = now /\ half_entered = FALSE
    /\ pc = "idle" /\ matched = None /\ transition = NoTransition /\ all_actions = <<>>
    /\ result = Result("none", <<>>)
    /\ pending = <<>> /\ performed = <<>> /\ batch = <<>>
    /\ before = [state |-> current_state, timer |-> state_timeout]
-----------------------------------------------------------------------------
\* A call begins in an idle machine and waits at stage.
Begin(stage) ==
    /\ pc = "idle" /\ pc' = stage
    /\ result' = Result("running", <<>>)
    /\ before' = [state |-> current_state, timer |-> state_timeout]
    /\ UNCHANGED <<machine, tables, now>>

\* A call that returns without having awaited anything.
Immediate(kind) ==
    /\ pc = "idle"
    /\ result' = Result(kind, <<>>)
    /\ before' = [state |-> current_state, timer |-> state_timeout]
    /\ UNCHANGED <<machine, tables, now, pc, frame, effects>>

\* A call in flight returns; its frame is gone.
Return(kind, actions) ==
    /\ pc' = "idle" /\ matched' = None /\ transition' = NoTransition /\ all_actions' = <<>>
    /\ result' = Result(kind, actions)
    /\ UNCHANGED <<tables, now, before>>

\* handle up to its first await: the exact key, else the wildcard key, else the
\* unhandled hook, else an error.  It never looks at the timer.
Handle(e) ==
    \/ /\ Exact(e)
       /\ Begin("transition")
       /\ matched' = name
       /\ UNCHANGED <<transition, all_actions, effects>>
    \/ /\ ~Exact(e) /\ FromAny(e)
       /\ Begin("transition")
       /\ matched' = Wildcard
       /\ UNCHANGED <<transition, all_actions, effects>>
    \/ /\ ~Exact(e) /\ ~FromAny(e) /\ tables.unhandled_handler
       /\ Begin("unhandled")
       /\ UNCHANGED <<frame, effects>>
    \/ /\ ~Exact(e) /\ ~FromAny(e) /\ ~tables.unhandled_handler
       /\ Immediate("err")

\* check_timeout up to its await.  A deadline without a handler for the state
\* the machine is in is ignored, not cleared.
CheckTimeout ==
    \/ /\ Due /\ HasTimeout(name)
       /\ Begin("timeout")
       /\ matched' = name
       /\ UNCHANGED <<transition, all_actions, effects>>
    \/ ~(Due /\ HasTimeout(name)) /\ Immediate("ok")
-----------------------------------------------------------------------------
\* Mutated form: the transition's actions come first.
JoinedActionsFirst(actions, t) == t.actions \o actions

\* The hooks' actions, then the transition's.
Joined(actions, t) == actions \o t.actions

\* Mutated form: a state without a timeout does not clear the timer.
ArmWithoutClearing(v, t, actions) ==
    /\ DeadlineExists(v)
    /\ state_timeout' = IF HasTimeout(v) THEN Deadline(v) ELSE state_timeout
    /\ half_entered' = FALSE
    /\ Return("ok", Joined(actions, t))

\* Mutated form: a transition within the same variant keeps its running timer.
ArmOnlyOnChange(v, t, actions) ==
    /\ DeadlineExists(v)
    /\ state_timeout' = IF v = VariantName[before.state] THEN state_timeout ELSE Deadline(v)
    /\ half_entered' = FALSE
    /\ Return("ok", Joined(actions, t))

\* The end of apply_transition, after the entry hook: arm or clear the timer for
\* the new state v and return all actions, the transition's last.  Instant +
\* Duration panics when the sum is out of range.
ArmAndReturn(v, t, actions) ==
    \/ /\ DeadlineExists(v)
       /\ state_timeout' = Deadline(v) /\ half_entered' = FALSE
       /\ Return("ok", Joined(actions, t))
    \/ /\ ~DeadlineExists(v)
       /\ UNCHANGED state_timeout /\ half_entered' = TRUE
       /\ Return("dropped", <<>>)

\* Mutated form: the old timer is cleared before the entry hook is awaited.
SwitchClearingTimer(t, actions) ==
    LET v == VariantName[t.next_state]
    IN  /\ current_state' = t.next_state /\ entered_at' = now
        /\ UNCHANGED effects
        /\ \/ /\ v \in tables.entry_handlers
              /\ pc' = "entry" /\ half_entered' = TRUE /\ state_timeout' = None
              /\ transition' = t /\ all_actions' = actions
              /\ UNCHANGED <<tables, now, matched, result, before>>
           \/ /\ v \notin tables.entry_handlers
              /\ ArmAndReturn(v, t, actions)

\* apply_transition after the exit hook: current_state is assigned, then the
\* entry hook of the new variant is awaited if there is one.
SwitchState(t, actions) ==
    LET v == VariantName[t.next_state]
    IN  /\ current_state' = t.next_state /\ entered_at' = now
        /\ UNCHANGED effects
        /\ \/ /\ v \in tables.entry_handlers
              /\ pc' = "entry" /\ half_entered' = TRUE
              /\ transition' = t /\ all_actions' = actions
              /\ UNCHANGED <<state_timeout, tables, now, matched, result, before>>
           \/ /\ v \notin tables.entry_handlers
              /\ ArmAndReturn(v, t, actions)

\* Mutated form: the state is assigned before the exit hook is awaited.
HandlerReturnsEarlySwitch(next_state) ==
    /\ pc \in {"transition", "timeout"}
    /\ \E out \in Outputs(pc, matched) :
          LET t == [next_state |-> next_state, actions |-> out]
          IN  \/ /\ name \in tables.exit_handlers
                 /\ pc' = "exit" /\ transition' = t
                 /\ current_state' = next_state
                 /\ UNCHANGED <<state_timeout, entered_at, half_entered, tables, now, matched,
                                all_actions, result, effects, before>>
              \/ /\ name \notin tables.exit_handlers
                 /\ SwitchState(t, <<>>)

\* The awaited transition or timeout handler returns a Transition, and
\* apply_transition starts: it awaits the exit hook of the old variant first.
HandlerReturns(next_state) ==
    /\ pc \in {"transition", "timeout"}
    /\ \E out \in Outputs(pc, matched) :
          LET t == [next_state |-> next_state, actions |-> out]
          IN  \/ /\ name \in tables.exit_handlers
                 /\ pc' = "exit" /\ transition' = t
                 /\ UNCHANGED <<machine, tables, now, matched, all_actions, result, effects, before>>
              \/ /\ name \notin tables.exit_handlers
                 /\ SwitchState(t, <<>>)

ExitHookReturns ==
    /\ pc = "exit"
    /\ \E out \in Outputs("exit", name) : SwitchState(transition, all_actions \o out)

EntryHookReturns ==
    /\ pc = "entry"
    /\ UNCHANGED <<current_state, entered_at, effects>>
    /\ \E out \in Outputs("entry", name) : ArmAndReturn(name, transition, all_actions \o out)

UnhandledHookReturns ==
    /\ pc = "unhandled"
    /\ Return("ok", <<>>)
    /\ UNCHANGED <<machine, effects>>
-----------------------------------------------------------------------------
\* The host hands the actions it was given to execute_actions.
ExecuteActions ==
    /\ result.actions # <<>>
    /\ Begin("executing")
    /\ pending' = result.actions /\ batch' = result.actions /\ performed' = <<>>
    /\ UNCHANGED frame

\* Mutated form: the call does not return after the last action.
ActionSucceedsNoReturn ==
    /\ pc = "executing"
    /\ performed' = Append(performed, Head(pending)) /\ pending' = Tail(pending)
    /\ UNCHANGED <<machine, batch, pc, frame, result, tables, now, before>>

\* Mutated form: the last action is not awaited, so that Ok comes before it is done.
ActionSucceedsButLast ==
    /\ pc = "executing"
    /\ performed' = Append(performed, Head(pending)) /\ pending' = Tail(pending)
    /\ UNCHANGED <<machine, batch>>
    /\ \/ Len(Tail(pending)) <= 1 /\ Return("ok", <<>>)
       \/ Len(Tail(pending)) > 1 /\ UNCHANGED <<pc, frame, result, tables, now, before>>

\* The action at the head of the list succeeds; after the last one the call
\* returns.
ActionSucceeds ==
    /\ pc = "executing"
    /\ performed' = Append(performed, Head(pending)) /\ pending' = Tail(pending)
    /\ UNCHANGED <<machine, batch>>
    /\ \/ Tail(pending) = <<>> /\ Return("ok", <<>>)
       \/ Tail(pending) # <<>> /\ UNCHANGED <<pc, frame, result, tables, now, before>>

\* The awaited handler or action returns Err, which ? passes to the host ("err"),
\* or the future is dropped while it waits ("dropped").  The locals go with the
\* frame: the actions of an exit hook that succeeded, the transition, and the
\* actions not yet executed.
Abort(kind) ==
    /\ pc # "idle" /\ kind \in {"err", "dropped"}
    /\ pending' = <<>>
    /\ Return(kind, <<>>)
    /\ UNCHANGED <<machine, performed, batch>>

Tick ==
    /\ now < MaxTime
    /\ now' = now + 1
    /\ UNCHANGED <<machine, tables, pc, frame, result, effects, before>>

Next ==
    \/ \E e \in Event : Handle(e)
    \/ CheckTimeout
    \/ \E s \in State : HandlerReturns(s)
    \/ ExitHookReturns
    \/ EntryHookReturns
    \/ UnhandledHookReturns
    \/ ExecuteActions
    \/ ActionSucceeds
    \/ \E kind \in {"err", "dropped"} : Abort(kind)
    \/ Tick

Spec == Init /\ [][Next]_vars
-----------------------------------------------------------------------------
Stages == {"idle", "transition", "timeout", "unhandled", "exit", "entry", "executing"}

TypeOK ==
    /\ current_state \in State
    /\ state_timeout \in Nat \cup {None}
    /\ tables \in Tables
    /\ now \in 0..MaxTime
    /\ pc \in Stages
    /\ matched \in Name \cup {None}
    /\ pc \in {"transition", "timeout"} => matched \in Name
    /\ transition \in [next_state : State \cup {None}, actions : Seq(Action)]
    /\ pc \in {"exit", "entry"} => transition.next_state \in State
    /\ all_actions \in Seq(Action)
    /\ result \in [kind : {"none", "running", "ok", "err", "dropped"}, actions : Seq(Action)]
    /\ pending \in Seq(Action) /\ performed \in Seq(Action) /\ batch \in Seq(Action)
    /\ pc = "executing" => pending # <<>>
    /\ before \in [state : State, timer : Nat \cup {None}]
    /\ entered_at \in 0..MaxTime
    /\ half_entered \in BOOLEAN

\* The timer belongs to the state the machine is in: it runs iff the state's
\* variant has a timeout, it does not expire before the variant's duration has
\* passed since the state was entered, and it expires at most that duration
\* from now.
TimerIsForState ==
    IF HasTimeout(name)
      THEN /\ state_timeout # None
           /\ entered_at + tables.timeout_handlers[name] <= state_timeout
           /\ state_timeout <= now + tables.timeout_handlers[name]
      ELSE state_timeout = None

\* The timer of a state that was entered completely belongs to that state,
\* whatever calls fail or are dropped later.  (machine.rs:189-194 arms the timer
\* only after the entry hook; a failure between 181 and 194 is what the
\* auxiliary variable half_entered records.)
TimerFollowsState == ~half_entered => TimerIsForState

\* A timeout handler runs only when the machine has been in its state for the
\* state's whole duration, if it entered that state completely.  (That it does run
\* from the deadline's instant on is HostLoop's ElapsedTimeoutIsServed.)
TimeoutNotEarly ==
    pc = "timeout" /\ ~half_entered
        => HasTimeout(name) /\ now >= entered_at + tables.timeout_handlers[name]

\* A call that fails or is dropped leaves the timer as it found it, and leaves
\* the state as it found it unless the new state's entry was interrupted.  In
\* particular errors of transition, timeout, unhandled and exit handlers, and
\* failing actions, are invisible to the machine.
FailedCallKeepsMachine ==
    result.kind \in {"err", "dropped"} =>
        /\ state_timeout = before.timer
        /\ current_state = before.state \/ half_entered

\* Until the exit hook has returned, a call in flight has changed nothing: the
\* future may be dropped at any await up to there without a trace in the
\* machine.  From the entry hook on the state is the new one, but the timer is
\* still the old state's, however long the hook takes.
UncommittedCall ==
    pc # "idle" =>
        /\ result.kind = "running"
        /\ state_timeout = before.timer
        /\ IF pc = "entry" THEN half_entered /\ current_state = transition.next_state
                           ELSE current_state = before.state

\* The actions a call returns are those of one transition, in the documented
\* order: the exit hook of the state left, the entry hook of the state entered,
\* then the handler found for the state left (its own, or the wildcard's).
HookRank == [exit |-> 1, entry |-> 2, transition |-> 3, timeout |-> 3]
OutputIsOneTransition ==
    LET out == result.actions
        from == VariantName[before.state]
    IN  /\ \A i, j \in DOMAIN out : i < j => HookRank[out[i].hook] < HookRank[out[j].hook]
        /\ \A i \in DOMAIN out :
              CASE out[i].hook = "exit"       -> out[i].state = from /\ from \in tables.exit_handlers
                [] out[i].hook = "entry"      -> out[i].state = name /\ name \in tables.entry_handlers
                [] out[i].hook = "timeout"    -> out[i].state = from /\ from \in DOMAIN tables.timeout_handlers
                [] out[i].hook = "transition" -> out[i].state \in {from, Wildcard}

\* What execute_actions has performed is a prefix of the list it was given, and
\* while it runs nothing is missing between that and what is left.
PerformedSoFar ==
    /\ Len(performed) <= Len(batch) /\ performed = SubSeq(batch, 1, Len(performed))
    /\ pc = "executing" => performed \o pending = batch

\* An execution that ends in Ok has performed the whole list.
OkMeansAll == pc = "executing" /\ result'.kind = "ok" => performed' = batch

\* execute_actions performs a prefix of the list it was given, in order, and
\* returns Ok only when it performed all of it (machine.rs:211-216): an Ok never
\* hides an action that failed or was left out.
ExecutedInOrder == PerformedSoFar /\ [][PerformedSoFar' /\ OkMeansAll]_vars

\* Documented at lib.rs:269-271: "Any transition into a state (including a
\* self-transition) schedules that state's timeout; transitioning into a state
\* without a timeout clears the timer."  The code does not keep it when an entry
\* hook fails, see TimerFollowsState.
EveryEntrySchedulesTimer == pc = "idle" => TimerIsForState
-----------------------------------------------------------------------------
\* From outside a call is atomic.  While the entry hook is awaited the state is
\* already assigned, but no one can observe it before the call ends.
Mealy == INSTANCE MealyMachine WITH
    state    <- IF pc = "entry" THEN before.state ELSE current_state,
    deadline <- state_timeout,
    output   <- result.actions

\* The engine implements the Mealy machine: every call is one whole step, a
\* half step, or no step at all, and its output, next state and deadline are
\* those of that one step.
ImplementsMealy == Mealy!Spec
=============================================================================
