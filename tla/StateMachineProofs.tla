------------------------- MODULE StateMachineProofs -------------------------
(***************************************************************************)
(* The engine, for every set of states, events and configurations: its     *)
(* types, its timers and failed calls, the atomic Mealy machine it         *)
(* implements, and the actions it hands to its host.                       *)
(***************************************************************************)
EXTENDS StateMachine, SequenceTheorems, TLAPS

\* What a hook or handler returns is a sequence of actions.
LEMMA OutputsType ==
    ASSUME NEW hook \in {"exit", "entry", "transition", "timeout"}, NEW owner \in Name,
           NEW out \in Outputs(hook, owner)
    PROVE  out \in Seq(Action)
<1>1. [hook |-> hook, state |-> owner] \in Action
  BY DEF Action
<1>2. \A a \in Action : <<a>> \in Seq(Action)
  OBVIOUS
<1>3. <<>> \in Seq(Action)
  OBVIOUS
<1> QED
  BY <1>1, <1>2, <1>3 DEF Outputs

\* Joining two sequences of actions gives one.
LEMMA JoinType ==
    ASSUME NEW s \in Seq(Action), NEW t \in Seq(Action)
    PROVE  s \o t \in Seq(Action)
  OBVIOUS

\* A configuration is well formed, so a variant with a timeout has a natural
\* number as its duration.
LEMMA DurationType ==
    ASSUME TypeOK, NEW v, HasTimeout(v)
    PROVE  tables.timeout_handlers[v] \in Nat
  BY TablesAssumption DEF TypeOK, HasTimeout, TablesType

LEMMA NameType ==
    ASSUME NEW s \in State
    PROVE  VariantName[s] \in Variant /\ VariantName[s] \in Name
  BY VariantAssumption DEF Name

\* Arming the timer and returning keeps the types of everything it assigns.
LEMMA ArmAndReturnType ==
    ASSUME TypeOK, NEW v, NEW t \in [next_state : State, actions : Seq(Action)],
           NEW acts \in Seq(Action), ArmAndReturn(v, t, acts)
    PROVE  /\ state_timeout' \in Nat \cup {None} /\ half_entered' \in BOOLEAN
           /\ pc' = "idle" /\ matched' = None /\ transition' = NoTransition /\ all_actions' = <<>>
           /\ result' \in [kind : {"ok", "dropped"}, actions : Seq(Action)]
           /\ UNCHANGED <<tables, now, before>>
<1>1. acts \o t.actions \in Seq(Action)
  BY JoinType
<1>2. Deadline(v) \in Nat \cup {None}
  <2>1. now \in Nat
    BY TimeAssumption DEF TypeOK
  <2>2. CASE HasTimeout(v)
    <3>1. tables.timeout_handlers[v] \in Nat
      BY <2>2, DurationType
    <3> QED
      BY <2>1, <2>2, <3>1 DEF Deadline
  <2>3. CASE ~HasTimeout(v)
    BY <2>3 DEF Deadline
  <2> QED
    BY <2>2, <2>3
<1>3. CASE state_timeout' = Deadline(v) /\ half_entered' = FALSE /\ Return("ok", Joined(acts, t))
  BY <1>1, <1>2, <1>3 DEF Return, Result, Joined
<1>4. CASE UNCHANGED state_timeout /\ half_entered' = TRUE /\ Return("dropped", <<>>)
  BY <1>4 DEF Return, Result, TypeOK
<1> QED
  BY <1>3, <1>4 DEF ArmAndReturn

\* Beginning a call keeps the types of what it assigns, and a call that returns
\* at once keeps every type.
LEMMA BeginType ==
    ASSUME TypeOK, NEW stage, Begin(stage)
    PROVE  /\ result' \in [kind : {"running"}, actions : Seq(Action)]
           /\ before' \in [state : State, timer : Nat \cup {None}]
           /\ pc' = stage /\ UNCHANGED <<machine, tables, now>>
  BY DEF TypeOK, Begin, Result

LEMMA ImmediateType ==
    ASSUME TypeOK, NEW kind \in {"ok", "err"}, Immediate(kind)
    PROVE  TypeOK'
<1>1. result' \in [kind : {"ok", "err"}, actions : Seq(Action)]
  BY DEF Immediate, Result
<1>2. before' \in [state : State, timer : Nat \cup {None}]
  BY DEF Immediate, TypeOK
<1> QED
  BY <1>1, <1>2 DEF TypeOK, Immediate, machine, frame, effects, Stages

\* So does switching to the new state, whether its entry hook is awaited or not.
LEMMA SwitchStateType ==
    ASSUME TypeOK, NEW t \in [next_state : State, actions : Seq(Action)],
           NEW acts \in Seq(Action), SwitchState(t, acts)
    PROVE  TypeOK'
<1> DEFINE v == VariantName[t.next_state]
<1>1. current_state' \in State /\ entered_at' \in 0..MaxTime /\ UNCHANGED effects
  BY DEF SwitchState, TypeOK
<1>2. <<>> \in Seq(Action)
  OBVIOUS
<1>3. CASE /\ pc' = "entry" /\ half_entered' = TRUE
           /\ transition' = t /\ all_actions' = acts
           /\ UNCHANGED <<state_timeout, tables, now, matched, result, before>>
  BY <1>1, <1>3 DEF TypeOK, effects, Stages
<1>4. CASE ArmAndReturn(v, t, acts)
  <2>1. /\ state_timeout' \in Nat \cup {None} /\ half_entered' \in BOOLEAN
        /\ pc' = "idle" /\ matched' = None /\ transition' = NoTransition /\ all_actions' = <<>>
        /\ result' \in [kind : {"ok", "dropped"}, actions : Seq(Action)]
        /\ UNCHANGED <<tables, now, before>>
    BY <1>4, ArmAndReturnType
  <2> QED
    BY <1>1, <1>2, <2>1 DEF TypeOK, effects, Stages, NoTransition
<1> QED
  BY <1>3, <1>4 DEF SwitchState

LEMMA InitType == Init => TypeOK
<1> SUFFICES ASSUME Init PROVE TypeOK
  OBVIOUS
<1>1. state_timeout \in Nat \cup {None}
  BY TablesAssumption, TimeAssumption DEF Init, HasTimeout, TablesType, Deadline
<1>2. <<>> \in Seq(Action)
  OBVIOUS
<1>3. result \in [kind : {"none"}, actions : Seq(Action)] /\ transition = NoTransition
  BY <1>2 DEF Init, Result
<1>4. before \in [state : State, timer : Nat \cup {None}]
  BY <1>1 DEF Init
<1>5. transition \in [next_state : State \cup {None}, actions : Seq(Action)]
  BY <1>2, <1>3 DEF NoTransition
<1>6. now \in 0..MaxTime /\ entered_at \in 0..MaxTime
  BY TimeAssumption DEF Init
<1> QED
  BY <1>1, <1>2, <1>3, <1>4, <1>5, <1>6 DEF Init, TypeOK, Stages

LEMMA NextType == TypeOK /\ [Next]_vars => TypeOK'
<1> SUFFICES ASSUME TypeOK, [Next]_vars PROVE TypeOK'
  OBVIOUS
<1> USE DEF machine, frame, effects
<1>0. <<>> \in Seq(Action)
  OBVIOUS
<1>1. ASSUME NEW e \in Event, Handle(e) PROVE TypeOK'
  <2>1. name \in Name /\ Wildcard \in Name
    BY NameType DEF TypeOK, name, Name
  <2>2. CASE Immediate("err")
    BY <2>2, ImmediateType
  <2>3. CASE /\ Begin("transition") /\ matched' \in Name
             /\ UNCHANGED <<transition, all_actions, effects>>
    BY <2>3, BeginType DEF TypeOK, Stages
  <2>4. CASE Begin("unhandled") /\ UNCHANGED <<frame, effects>>
    BY <2>4, BeginType DEF TypeOK, Stages
  <2> QED
    BY <1>1, <2>1, <2>2, <2>3, <2>4 DEF Handle
<1>2. CASE CheckTimeout
  <2>1. name \in Name
    BY NameType DEF TypeOK, name
  <2>2. CASE Immediate("ok")
    BY <2>2, ImmediateType
  <2>3. CASE /\ Begin("timeout") /\ matched' = name
             /\ UNCHANGED <<transition, all_actions, effects>>
    BY <2>1, <2>3, BeginType DEF TypeOK, Stages
  <2> QED
    BY <1>2, <2>2, <2>3 DEF CheckTimeout
<1>3. ASSUME NEW s \in State, HandlerReturns(s) PROVE TypeOK'
  <2>1. PICK out \in Outputs(pc, matched) :
          LET t == [next_state |-> s, actions |-> out]
          IN  \/ /\ name \in tables.exit_handlers
                 /\ pc' = "exit" /\ transition' = t
                 /\ UNCHANGED <<machine, tables, now, matched, all_actions, result, effects, before>>
              \/ /\ name \notin tables.exit_handlers
                 /\ SwitchState(t, <<>>)
    BY <1>3 DEF HandlerReturns
  <2> DEFINE t == [next_state |-> s, actions |-> out]
  <2>2. out \in Seq(Action)
    BY <1>3, OutputsType DEF HandlerReturns, TypeOK
  <2>3. t \in [next_state : State, actions : Seq(Action)]
    BY <2>2
  <2>4. CASE SwitchState(t, <<>>)
    BY <1>0, <2>3, <2>4, SwitchStateType
  <2>5. CASE /\ pc' = "exit" /\ transition' = t
             /\ UNCHANGED <<machine, tables, now, matched, all_actions, result, effects, before>>
    BY <2>3, <2>5 DEF TypeOK, Stages
  <2> QED
    BY <2>1, <2>4, <2>5
<1>4. CASE ExitHookReturns
  <2>1. PICK out \in Outputs("exit", name) : SwitchState(transition, all_actions \o out)
    BY <1>4 DEF ExitHookReturns
  <2>2. name \in Name
    BY NameType DEF TypeOK, name
  <2>3. all_actions \o out \in Seq(Action)
    BY <2>2, OutputsType, JoinType DEF TypeOK
  <2>4. transition \in [next_state : State, actions : Seq(Action)]
    BY <1>4 DEF ExitHookReturns, TypeOK
  <2> QED
    BY <2>1, <2>3, <2>4, SwitchStateType
<1>5. CASE EntryHookReturns
  <2>1. PICK out \in Outputs("entry", name) : ArmAndReturn(name, transition, all_actions \o out)
    BY <1>5 DEF EntryHookReturns
  <2>2. name \in Name
    BY NameType DEF TypeOK, name
  <2>3. all_actions \o out \in Seq(Action)
    BY <2>2, OutputsType, JoinType DEF TypeOK
  <2>4. transition \in [next_state : State, actions : Seq(Action)]
    BY <1>5 DEF EntryHookReturns, TypeOK
  <2>5. UNCHANGED <<current_state, entered_at, effects>>
    BY <1>5 DEF EntryHookReturns
  <2>6. /\ state_timeout' \in Nat \cup {None} /\ half_entered' \in BOOLEAN
        /\ pc' = "idle" /\ matched' = None /\ transition' = NoTransition /\ all_actions' = <<>>
        /\ result' \in [kind : {"ok", "dropped"}, actions : Seq(Action)]
        /\ UNCHANGED <<tables, now, before>>
    BY <2>1, <2>3, <2>4, ArmAndReturnType
  <2> QED
    BY <1>0, <2>5, <2>6 DEF TypeOK, Stages, NoTransition
<1>6. CASE UnhandledHookReturns
  BY <1>0, <1>6 DEF UnhandledHookReturns, Return, Result, NoTransition, TypeOK, Stages
<1>7. CASE ExecuteActions
  BY <1>7, BeginType DEF ExecuteActions, TypeOK, Stages
<1>8. CASE ActionSucceeds
  <2>1. Tail(pending) \in Seq(Action) /\ Head(pending) \in Action
    BY <1>8 DEF ActionSucceeds, TypeOK
  <2>2. performed' \in Seq(Action) /\ pending' \in Seq(Action)
    BY <1>8, <2>1 DEF ActionSucceeds, TypeOK
  <2>3. CASE Tail(pending) = <<>> /\ Return("ok", <<>>)
    BY <1>0, <1>8, <2>2, <2>3 DEF ActionSucceeds, Return, Result, NoTransition, TypeOK, Stages
  <2>4. CASE Tail(pending) # <<>> /\ UNCHANGED <<pc, frame, result, tables, now, before>>
    BY <1>8, <2>2, <2>4 DEF ActionSucceeds, TypeOK, Stages
  <2> QED
    BY <1>8, <2>3, <2>4 DEF ActionSucceeds
<1>9. ASSUME NEW kind \in {"err", "dropped"}, Abort(kind) PROVE TypeOK'
  BY <1>0, <1>9 DEF Abort, Return, Result, NoTransition, TypeOK, Stages
<1>10. CASE Tick
  BY <1>10, TimeAssumption DEF Tick, TypeOK, Stages
<1>11. CASE UNCHANGED vars
  BY <1>11 DEF vars, TypeOK, Stages
<1> QED
  BY <1>1, <1>2, <1>3, <1>4, <1>5, <1>6, <1>7, <1>8, <1>9, <1>10, <1>11 DEF Next

\* Every variable keeps its type, and the locals a stage needs are there when
\* the call waits at that stage.
THEOREM TypeCorrect == Spec => []TypeOK
  BY InitType, NextType, PTL DEF Spec
-----------------------------------------------------------------------------
(***************************************************************************)
(* The timer.  TimerFollowsState is not inductive by itself: that an entry *)
(* arms the timer of the state it enters needs to know where the entry     *)
(* began, and that a failing call restores it needs to know that the call  *)
(* had not touched it.                                                     *)
(***************************************************************************)
ClockInv == entered_at <= now

\* While a timeout handler is awaited its deadline stays elapsed.
TimeoutDue ==
    pc = "timeout" => HasTimeout(name) /\ state_timeout # None /\ state_timeout <= now

IInv == TimerFollowsState /\ FailedCallKeepsMachine /\ UncommittedCall /\ ClockInv /\ TimeoutDue

\* The end of a transition, wherever the state was assigned: the timer is the
\* new state's or, with a deadline out of range, still the one the call found.
LEMMA ArmAndReturnTimer ==
    ASSUME TypeOK, NEW s \in State, NEW t, NEW acts,
           ArmAndReturn(VariantName[s], t, acts),
           state_timeout = before.timer,
           current_state' = s, entered_at' \in Nat, entered_at' <= now
    PROVE  IInv'
<1> DEFINE v == VariantName[s]
<1>1. HasTimeout(v) => tables.timeout_handlers[v] \in Nat
  BY DurationType
<1>2. now \in Nat /\ UNCHANGED <<tables, now, before>> /\ pc' = "idle"
  BY TimeAssumption DEF TypeOK, ArmAndReturn, Return
<1>3. name' = v
  BY DEF name
<1>4. (HasTimeout(v))' <=> HasTimeout(v)
  BY <1>2 DEF HasTimeout
<1>5. CASE state_timeout' = Deadline(v) /\ half_entered' = FALSE /\ Return("ok", Joined(acts, t))
  <2>1. CASE HasTimeout(v)
    BY <1>1, <1>2, <1>3, <1>4, <1>5, <2>1, NoneAssumption DEF IInv, TimerFollowsState, TimerIsForState,
       FailedCallKeepsMachine, UncommittedCall, ClockInv, TimeoutDue, Return, Result, HasTimeout, Deadline
  <2>2. CASE ~HasTimeout(v)
    BY <1>2, <1>3, <1>4, <1>5, <2>2 DEF IInv, TimerFollowsState, TimerIsForState,
       FailedCallKeepsMachine, UncommittedCall, ClockInv, TimeoutDue, Return, Result, HasTimeout, Deadline
  <2> QED
    BY <2>1, <2>2
<1>6. CASE UNCHANGED state_timeout /\ half_entered' = TRUE /\ Return("dropped", <<>>)
  BY <1>2, <1>6 DEF IInv, TimerFollowsState, FailedCallKeepsMachine,
     UncommittedCall, ClockInv, TimeoutDue, Return, Result
<1> QED
  BY <1>5, <1>6 DEF ArmAndReturn

\* Switching to the new state, when the call so far changed nothing.
LEMMA SwitchStateTimer ==
    ASSUME TypeOK, IInv, NEW t, t.next_state \in State, NEW acts,
           SwitchState(t, acts), pc # "idle"
    PROVE  IInv'
<1>1. current_state' = t.next_state /\ entered_at' = now /\ now \in Nat
  BY TimeAssumption DEF SwitchState, TypeOK
<1>2. state_timeout = before.timer /\ result.kind = "running"
  BY DEF IInv, UncommittedCall
<1>3. CASE /\ pc' = "entry" /\ half_entered' = TRUE
           /\ transition' = t /\ all_actions' = acts
           /\ UNCHANGED <<state_timeout, tables, now, matched, result, before>>
  BY <1>1, <1>2, <1>3 DEF IInv, TimerFollowsState, FailedCallKeepsMachine,
     UncommittedCall, ClockInv, TimeoutDue
<1>4. CASE ArmAndReturn(VariantName[t.next_state], t, acts)
  BY <1>1, <1>2, <1>4, ArmAndReturnTimer
<1> QED
  BY <1>3, <1>4 DEF SwitchState

\* A call that begins has changed nothing.
LEMMA BeginTimer ==
    ASSUME TypeOK, IInv, NEW stage \in Stages \ {"idle", "entry"}, Begin(stage),
           stage = "timeout" => HasTimeout(name) /\ state_timeout # None /\ now >= state_timeout
    PROVE  IInv'
<1>1. /\ result'.kind = "running" /\ before' = [state |-> current_state, timer |-> state_timeout]
      /\ pc' = stage /\ UNCHANGED <<current_state, state_timeout, entered_at, half_entered, tables, now>>
  BY DEF Begin, Result, machine
<1>2. name' = name /\ ((HasTimeout(name))' <=> HasTimeout(name))
  BY <1>1 DEF name, HasTimeout
<1>3. TimerFollowsState' /\ ClockInv'
  BY <1>1, <1>2 DEF IInv, TimerFollowsState, TimerIsForState, ClockInv, HasTimeout
<1>4. FailedCallKeepsMachine' /\ UncommittedCall'
  BY <1>1 DEF FailedCallKeepsMachine, UncommittedCall, Stages
<1>5. TimeoutDue'
  BY <1>1, <1>2, TimeAssumption DEF TimeoutDue, TypeOK
<1> QED
  BY <1>3, <1>4, <1>5 DEF IInv

LEMMA ImmediateTimer ==
    ASSUME TypeOK, IInv, NEW kind \in {"ok", "err"}, Immediate(kind)
    PROVE  IInv'
<1>1. /\ before' = [state |-> current_state, timer |-> state_timeout] /\ pc' = "idle"
      /\ UNCHANGED <<current_state, state_timeout, entered_at, half_entered, tables, now>>
  BY DEF Immediate, machine
<1>2. TimerFollowsState' /\ ClockInv'
  BY <1>1 DEF IInv, TimerFollowsState, TimerIsForState, ClockInv, HasTimeout, name
<1>3. FailedCallKeepsMachine' /\ UncommittedCall' /\ TimeoutDue'
  BY <1>1 DEF FailedCallKeepsMachine, UncommittedCall, TimeoutDue
<1> QED
  BY <1>2, <1>3 DEF IInv

\* A call that ends without touching the machine, whatever it reports.
LEMMA QuietReturnTimer ==
    ASSUME TypeOK, IInv, NEW kind, pc # "idle", Return(kind, <<>>), UNCHANGED machine
    PROVE  IInv'
<1>1. /\ pc' = "idle" /\ result'.kind = kind
      /\ UNCHANGED <<current_state, state_timeout, entered_at, half_entered, tables, now, before>>
  BY DEF Return, Result, machine
<1>2. TimerFollowsState' /\ ClockInv'
  BY <1>1 DEF IInv, TimerFollowsState, TimerIsForState, ClockInv, HasTimeout, name
<1>3. FailedCallKeepsMachine' /\ UncommittedCall' /\ TimeoutDue'
  BY <1>1 DEF IInv, FailedCallKeepsMachine, UncommittedCall, TimeoutDue
<1> QED
  BY <1>2, <1>3 DEF IInv

\* A step within a call that leaves the machine, the call's begin and its stage alone.
LEMMA InnerStepTimer ==
    ASSUME TypeOK, IInv,
           UNCHANGED <<current_state, state_timeout, entered_at, half_entered, tables, before>>,
           UNCHANGED <<pc, transition, result>>,
           now' \in Nat, now <= now'
    PROVE  IInv'
<1>1. now \in Nat /\ entered_at \in Nat /\ state_timeout \in Nat \cup {None}
  BY TimeAssumption DEF TypeOK
<1>2. name' = name /\ ((HasTimeout(name))' <=> HasTimeout(name))
  BY DEF name, HasTimeout
<1>3. HasTimeout(name) => tables.timeout_handlers[name] \in Nat
  BY DurationType
<1>4. TimerFollowsState'
  BY <1>1, <1>2, <1>3, NoneAssumption DEF IInv, TimerFollowsState, TimerIsForState, HasTimeout
<1>5. ClockInv' /\ TimeoutDue'
  BY <1>1, <1>2, NoneAssumption DEF IInv, ClockInv, TimeoutDue
<1>6. FailedCallKeepsMachine' /\ UncommittedCall'
  BY DEF IInv, FailedCallKeepsMachine, UncommittedCall
<1> QED
  BY <1>4, <1>5, <1>6 DEF IInv

LEMMA InitTimer == Init => IInv
<1> SUFFICES ASSUME Init PROVE IInv
  OBVIOUS
<1>1. HasTimeout(name) => tables.timeout_handlers[name] \in Nat
  BY TablesAssumption DEF Init, HasTimeout, TablesType
<1>2. TimerFollowsState
  BY <1>1, NoneAssumption DEF Init, TimerFollowsState, TimerIsForState, Deadline
<1>3. FailedCallKeepsMachine /\ UncommittedCall /\ ClockInv /\ TimeoutDue
  BY DEF Init, FailedCallKeepsMachine, UncommittedCall, ClockInv, TimeoutDue, Result
<1> QED
  BY <1>2, <1>3 DEF IInv

LEMMA NextTimer == TypeOK /\ IInv /\ [Next]_vars => IInv'
<1> SUFFICES ASSUME TypeOK, IInv, [Next]_vars PROVE IInv'
  OBVIOUS
<1>1. ASSUME NEW e \in Event, Handle(e) PROVE IInv'
  <2>1. CASE Begin("transition")
    BY <2>1, BeginTimer DEF Stages
  <2>2. CASE Begin("unhandled")
    BY <2>2, BeginTimer DEF Stages
  <2>3. CASE Immediate("err")
    BY <2>3, ImmediateTimer
  <2> QED
    BY <1>1, <2>1, <2>2, <2>3 DEF Handle
<1>2. CASE CheckTimeout
  <2>1. CASE Begin("timeout") /\ state_timeout # None /\ now >= state_timeout /\ HasTimeout(name)
    BY <2>1, BeginTimer DEF Stages
  <2>2. CASE Immediate("ok")
    BY <2>2, ImmediateTimer
  <2> QED
    BY <1>2, <2>1, <2>2 DEF CheckTimeout, Due
<1>3. ASSUME NEW s \in State, HandlerReturns(s) PROVE IInv'
  <2>1. PICK out \in Outputs(pc, matched) :
          LET t == [next_state |-> s, actions |-> out]
          IN  \/ /\ name \in tables.exit_handlers
                 /\ pc' = "exit" /\ transition' = t
                 /\ UNCHANGED <<machine, tables, now, matched, all_actions, result, effects, before>>
              \/ /\ name \notin tables.exit_handlers
                 /\ SwitchState(t, <<>>)
    BY <1>3 DEF HandlerReturns
  <2> DEFINE t == [next_state |-> s, actions |-> out]
  <2>2. pc \in {"transition", "timeout"}
    BY <1>3 DEF HandlerReturns
  <2>3. CASE SwitchState(t, <<>>)
    BY <2>2, <2>3, SwitchStateTimer
  <2>4. CASE /\ pc' = "exit"
             /\ UNCHANGED <<machine, tables, now, matched, all_actions, result, effects, before>>
    BY <2>2, <2>4 DEF IInv, TimerFollowsState, TimerIsForState, FailedCallKeepsMachine,
       UncommittedCall, ClockInv, TimeoutDue, HasTimeout, name, machine
  <2> QED
    BY <2>1, <2>3, <2>4
<1>4. CASE ExitHookReturns
  BY <1>4, SwitchStateTimer DEF ExitHookReturns, TypeOK
<1>5. CASE EntryHookReturns
  <2>1. PICK out \in Outputs("entry", name) : ArmAndReturn(name, transition, all_actions \o out)
    BY <1>5 DEF EntryHookReturns
  <2>2. /\ state_timeout = before.timer /\ current_state' = current_state
        /\ entered_at' = entered_at /\ entered_at <= now /\ entered_at \in Nat
    BY <1>5, TimeAssumption DEF EntryHookReturns, IInv, UncommittedCall, ClockInv, TypeOK
  <2> QED
    BY <2>1, <2>2, ArmAndReturnTimer DEF TypeOK, name
<1>6. CASE UnhandledHookReturns
  BY <1>6, QuietReturnTimer DEF UnhandledHookReturns
<1>7. CASE ExecuteActions
  BY <1>7, BeginTimer DEF ExecuteActions, Stages
<1>8. CASE ActionSucceeds
  <2>1. pc # "idle" /\ UNCHANGED machine
    BY <1>8 DEF ActionSucceeds
  <2>2. CASE Return("ok", <<>>)
    BY <2>1, <2>2, QuietReturnTimer
  <2>3. CASE UNCHANGED <<pc, frame, result, tables, now, before>>
    BY <2>1, <2>3, InnerStepTimer, TimeAssumption DEF machine, frame, TypeOK
  <2> QED
    BY <1>8, <2>2, <2>3 DEF ActionSucceeds
<1>9. ASSUME NEW kind \in {"err", "dropped"}, Abort(kind) PROVE IInv'
  BY <1>9, QuietReturnTimer DEF Abort
<1>10. CASE Tick
  BY <1>10, InnerStepTimer, TimeAssumption DEF Tick, machine, frame, TypeOK
<1>11. CASE UNCHANGED vars
  BY <1>11, InnerStepTimer, TimeAssumption DEF vars, machine, frame, TypeOK
<1> QED
  BY <1>1, <1>2, <1>3, <1>4, <1>5, <1>6, <1>7, <1>8, <1>9, <1>10, <1>11 DEF Next

LEMMA InductiveInvariant == Spec => []IInv
  BY TypeCorrect, InitTimer, NextTimer, PTL DEF Spec

\* Whatever calls fail, are dropped or panic, and whenever: the timer of a state
\* that was entered completely is that state's (apply_transition and new).
THEOREM TimerCorrect == Spec => []TimerFollowsState
<1>1. IInv => TimerFollowsState
  BY DEF IInv
<1> QED
  BY <1>1, InductiveInvariant, PTL

\* A timeout handler never runs before its state's duration has passed, in a
\* state that was entered completely (check_timeout).
THEOREM TimeoutSound == Spec => []TimeoutNotEarly
<1>1. TypeOK /\ IInv => TimeoutNotEarly
  <2> SUFFICES ASSUME TypeOK, IInv, pc = "timeout", ~half_entered
               PROVE  HasTimeout(name) /\ now >= entered_at + tables.timeout_handlers[name]
    BY DEF TimeoutNotEarly
  <2>1. HasTimeout(name) /\ state_timeout <= now /\ state_timeout \in Nat
    BY DEF IInv, TimeoutDue, TypeOK
  <2>2. entered_at + tables.timeout_handlers[name] <= state_timeout
    BY <2>1 DEF IInv, TimerFollowsState, TimerIsForState
  <2>3. tables.timeout_handlers[name] \in Nat /\ now \in Nat /\ entered_at \in Nat
    BY <2>1, DurationType, TimeAssumption DEF TypeOK
  <2> QED
    BY <2>1, <2>2, <2>3
<1> QED
  BY <1>1, TypeCorrect, InductiveInvariant, PTL

\* A failed or dropped call leaves the timer, and unless it interrupted an entry
\* also the state, as it found them.
THEOREM FailureAtomicity == Spec => []FailedCallKeepsMachine
<1>1. IInv => FailedCallKeepsMachine
  BY DEF IInv
<1> QED
  BY <1>1, InductiveInvariant, PTL

\* A call in flight commits nothing before its exit hook has returned.
THEOREM CommitPoint == Spec => []UncommittedCall
<1>1. IInv => UncommittedCall
  BY DEF IInv
<1> QED
  BY <1>1, InductiveInvariant, PTL
-----------------------------------------------------------------------------
(***************************************************************************)
(* When a machine is entered completely, for hosts that use it.            *)
(***************************************************************************)
\* A call that begins leaves a machine that was entered completely as it is.
LEMMA HandleBegins ==
    ASSUME NEW e \in Event, Handle(e)
    PROVE  UNCHANGED <<machine, tables, now>>
  BY DEF Handle, Begin, Immediate

LEMMA PollBegins ==
    ASSUME CheckTimeout
    PROVE  UNCHANGED <<machine, tables, now>>
  BY DEF CheckTimeout, Begin, Immediate

\* The end of a transition enters its state completely, or panics.
LEMMA ArmAndReturnEnters ==
    ASSUME NEW v, NEW t, NEW acts, ArmAndReturn(v, t, acts)
    PROVE  pc' = "idle" /\ (~half_entered' \/ result'.kind = "dropped")
  BY DEF ArmAndReturn, Return, Result

LEMMA SwitchStateEnters ==
    ASSUME NEW t, NEW acts, SwitchState(t, acts)
    PROVE  pc' = "entry" \/ (pc' = "idle" /\ (~half_entered' \/ result'.kind = "dropped"))
  BY ArmAndReturnEnters DEF SwitchState

\* The call in flight goes on or fails.
Progress ==
    \/ \E s \in State : HandlerReturns(s)
    \/ ExitHookReturns \/ EntryHookReturns \/ UnhandledHookReturns
    \/ \E kind \in {"err", "dropped"} : Abort(kind)

\* A step of the call in flight leaves the machine half entered only in the entry
\* hook or with a result that is not Ok.
LEMMA ProgressEnters ==
    ASSUME Progress, half_entered => pc = "entry"
    PROVE  /\ pc # "idle"
           /\ half_entered' => pc' = "entry" \/ (pc' = "idle" /\ result'.kind # "ok")
<1>1. ASSUME NEW s \in State, HandlerReturns(s)
      PROVE  half_entered' => pc' = "entry" \/ (pc' = "idle" /\ result'.kind # "ok")
  <2>1. PICK out \in Outputs(pc, matched) :
          LET t == [next_state |-> s, actions |-> out]
          IN  \/ /\ name \in tables.exit_handlers
                 /\ pc' = "exit" /\ transition' = t
                 /\ UNCHANGED <<machine, tables, now, matched, all_actions, result, effects, before>>
              \/ /\ name \notin tables.exit_handlers
                 /\ SwitchState(t, <<>>)
    BY <1>1 DEF HandlerReturns
  <2>2. pc # "entry"
    BY <1>1 DEF HandlerReturns
  <2>3. CASE SwitchState([next_state |-> s, actions |-> out], <<>>)
    BY <2>3, SwitchStateEnters
  <2>4. CASE UNCHANGED machine
    BY <2>2, <2>4 DEF machine
  <2> QED
    BY <2>1, <2>3, <2>4
<1>2. CASE ExitHookReturns
  BY <1>2, SwitchStateEnters DEF ExitHookReturns
<1>3. CASE EntryHookReturns
  BY <1>3, ArmAndReturnEnters DEF EntryHookReturns
<1>4. CASE UnhandledHookReturns
  BY <1>4 DEF UnhandledHookReturns, Return, machine
<1>5. ASSUME NEW kind \in {"err", "dropped"}, Abort(kind)
      PROVE  half_entered' => pc' = "idle" /\ result'.kind # "ok"
  BY <1>5 DEF Abort, Return, Result
<1>6. pc # "idle"
  BY DEF Progress, HandlerReturns, ExitHookReturns, EntryHookReturns, UnhandledHookReturns, Abort
<1> QED
  BY <1>1, <1>2, <1>3, <1>4, <1>5, <1>6 DEF Progress
-----------------------------------------------------------------------------
(***************************************************************************)
(* The engine implements the atomic Mealy machine: each step of            *)
(* StateMachine is, under the mapping of its INSTANCE, a step of           *)
(* MealyMachine or a stutter.                                              *)
(***************************************************************************)
\* What is mapped to the state of the Mealy machine.
SeenState == IF pc = "entry" THEN before.state ELSE current_state

\* The variant the call in flight found.
from == VariantName[before.state]

\* acts is what a handler may return that the engine finds for the state the
\* call began in: a row's for some event, its own or the wildcard's, or the
\* timeout's, whose deadline has elapsed.
FromHandler(acts) ==
    \/ \E r \in {from, Wildcard} :
          (\E e \in Event : <<r, e>> \in tables.transitions) /\ acts \in Outputs("transition", r)
    \/ HasTimeout(from) /\ Due /\ acts \in Outputs("timeout", from)

\* What the hook of v contributes to the output.
Hooked(hook, owners, v) == IF v \in owners THEN Outputs(hook, v) ELSE {<<>>}

\* The locals of a call in flight belong to that call.
FrameInv ==
    /\ pc # "idle" => result.actions = <<>>
    /\ pc # "entry" => all_actions = <<>>
    /\ pc \in {"transition", "timeout"} => \A out \in Outputs(pc, matched) : FromHandler(out)
    /\ pc \in {"exit", "entry"} => FromHandler(transition.actions)
    /\ pc = "exit" => from \in tables.exit_handlers
    /\ pc = "entry" => /\ name \in tables.entry_handlers
                       /\ all_actions \in Hooked("exit", tables.exit_handlers, from)

\* Nothing a call does before its end takes a handler's ground away, and time
\* passing does not either.
LEMMA FromHandlerKept ==
    ASSUME TypeOK, UNCHANGED <<before, tables, state_timeout>>, now' \in Nat, now <= now'
    PROVE  \A acts : FromHandler(acts) => (FromHandler(acts))'
<1>1. now \in Nat /\ state_timeout \in Nat \cup {None}
  BY TimeAssumption DEF TypeOK
<1>2. Due => Due'
  BY <1>1, NoneAssumption DEF Due
<1>3. from' = from /\ ((HasTimeout(from))' <=> HasTimeout(from))
  BY DEF from, HasTimeout
<1> QED
  BY <1>2, <1>3 DEF FromHandler

\* A step that leaves the call and the machine where they are keeps FrameInv.
LEMMA InnerStepFrame ==
    ASSUME TypeOK, FrameInv,
           UNCHANGED <<pc, frame, result, before, tables, state_timeout, current_state>>,
           now' \in Nat, now <= now'
    PROVE  FrameInv'
<1>1. \A acts : FromHandler(acts) => (FromHandler(acts))'
  BY FromHandlerKept
<1>2. name' = name /\ from' = from
  BY DEF name, from
<1>3. (pc \in {"transition", "timeout"} => \A out \in Outputs(pc, matched) : FromHandler(out))'
  BY <1>1 DEF FrameInv, frame, Outputs
<1>4. (pc \in {"exit", "entry"} => FromHandler(transition.actions))'
  BY <1>1 DEF FrameInv, frame
<1> QED
  BY <1>2, <1>3, <1>4 DEF FrameInv, frame, Hooked, Outputs

\* A call that returns leaves no locals.
LEMMA ReturnFrame ==
    ASSUME NEW kind, NEW acts, Return(kind, acts)
    PROVE  FrameInv'
  BY DEF Return, FrameInv

LEMMA SwitchStateFrame ==
    ASSUME TypeOK, IInv, FrameInv, pc # "idle", NEW t, NEW acts, SwitchState(t, acts),
           FromHandler(t.actions), acts \in Hooked("exit", tables.exit_handlers, from)
    PROVE  FrameInv'
<1> DEFINE v == VariantName[t.next_state]
<1>1. CASE /\ v \in tables.entry_handlers
           /\ pc' = "entry" /\ half_entered' = TRUE
           /\ transition' = t /\ all_actions' = acts
           /\ UNCHANGED <<state_timeout, tables, now, matched, result, before>>
  <2>1. now \in Nat
    BY TimeAssumption DEF TypeOK
  <2>2. (FromHandler(t.actions))'
    BY <1>1, <2>1, FromHandlerKept
  <2>3. name' = v /\ from' = from
    BY <1>1 DEF SwitchState, name, from
  <2> QED
    BY <1>1, <2>2, <2>3 DEF FrameInv, Hooked, Outputs
<1>2. CASE ArmAndReturn(v, t, acts)
  BY <1>2, ReturnFrame DEF ArmAndReturn
<1> QED
  BY <1>1, <1>2 DEF SwitchState

LEMMA InitFrame == Init => FrameInv
  BY DEF Init, FrameInv, Result

LEMMA NextFrame == TypeOK /\ IInv /\ FrameInv /\ [Next]_vars => FrameInv'
<1> SUFFICES ASSUME TypeOK, IInv, FrameInv, [Next]_vars PROVE FrameInv'
  OBVIOUS
<1>0. now \in Nat
  BY TimeAssumption DEF TypeOK
<1>1. ASSUME NEW e \in Event, Handle(e) PROVE FrameInv'
  <2>1. ASSUME NEW r \in {name, Wildcard}, <<r, e>> \in tables.transitions,
               Begin("transition"), matched' = r, UNCHANGED all_actions
        PROVE  FrameInv'
    <3>1. before'.state = current_state /\ UNCHANGED tables /\ pc' = "transition" /\ pc = "idle"
      BY <2>1 DEF Begin
    <3>2. from' = name
      BY <3>1 DEF from, name
    <3>3. \A out \in Outputs("transition", r) : (FromHandler(out))'
      BY <2>1, <3>1, <3>2 DEF FromHandler
    <3> QED
      BY <2>1, <3>1, <3>3 DEF FrameInv, Begin, Result, Outputs
  <2>2. CASE Begin("unhandled") /\ UNCHANGED frame
    BY <2>2 DEF Begin, FrameInv, frame, Result
  <2>3. CASE Immediate("err")
    BY <2>3 DEF Immediate, FrameInv, frame
  <2> QED
    BY <1>1, <2>1, <2>2, <2>3 DEF Handle, Exact, FromAny
<1>2. CASE CheckTimeout
  <2>1. CASE Due /\ HasTimeout(name) /\ Begin("timeout") /\ matched' = name /\ UNCHANGED all_actions
    <3>1. before'.state = current_state /\ pc' = "timeout" /\ pc = "idle"
          /\ UNCHANGED <<current_state, tables, state_timeout, now>>
      BY <2>1 DEF Begin, machine
    <3>2. from' = name /\ (HasTimeout(from))' /\ Due'
      BY <2>1, <3>1 DEF from, name, HasTimeout, Due
    <3>3. \A out \in Outputs("timeout", name) : (FromHandler(out))'
      BY <3>2 DEF FromHandler
    <3> QED
      BY <2>1, <3>1, <3>3 DEF FrameInv, Begin, Result, Outputs
  <2>2. CASE Immediate("ok")
    BY <2>2 DEF Immediate, FrameInv, frame
  <2> QED
    BY <1>2, <2>1, <2>2 DEF CheckTimeout
<1>3. ASSUME NEW s \in State, HandlerReturns(s) PROVE FrameInv'
  <2>1. PICK out \in Outputs(pc, matched) :
          LET t == [next_state |-> s, actions |-> out]
          IN  \/ /\ name \in tables.exit_handlers
                 /\ pc' = "exit" /\ transition' = t
                 /\ UNCHANGED <<machine, tables, now, matched, all_actions, result, effects, before>>
              \/ /\ name \notin tables.exit_handlers
                 /\ SwitchState(t, <<>>)
    BY <1>3 DEF HandlerReturns
  <2> DEFINE t == [next_state |-> s, actions |-> out]
  <2>2. pc \in {"transition", "timeout"} /\ from = name /\ FromHandler(out)
    BY <1>3, <2>1 DEF HandlerReturns, FrameInv, IInv, UncommittedCall, from, name
  <2>3. CASE name \notin tables.exit_handlers /\ SwitchState(t, <<>>)
    <3>1. t.actions = out /\ <<>> \in Hooked("exit", tables.exit_handlers, from)
      BY <2>2, <2>3 DEF Hooked
    <3> QED
      BY <2>2, <2>3, <3>1, SwitchStateFrame
  <2>4. CASE /\ name \in tables.exit_handlers
             /\ pc' = "exit" /\ transition' = t
             /\ UNCHANGED <<machine, tables, now, matched, all_actions, result, effects, before>>
    <3>1. (FromHandler(out))' /\ from' = from
      BY <1>0, <2>2, <2>4, FromHandlerKept DEF machine, from
    <3> QED
      BY <2>2, <2>4, <3>1 DEF FrameInv
  <2> QED
    BY <2>1, <2>3, <2>4
<1>4. CASE ExitHookReturns
  <2>1. PICK out \in Outputs("exit", name) : SwitchState(transition, all_actions \o out)
    BY <1>4 DEF ExitHookReturns
  <2>2. from = name /\ name \in tables.exit_handlers /\ FromHandler(transition.actions) /\ all_actions = <<>>
    BY <1>4 DEF ExitHookReturns, FrameInv, IInv, UncommittedCall, from, name
  <2>3. out \in Seq(Action)
    BY OutputsType, NameType DEF TypeOK, name
  <2>4. all_actions \o out = out
    BY <2>2, <2>3, ConcatEmptySeq
  <2>5. all_actions \o out \in Hooked("exit", tables.exit_handlers, from)
    BY <2>1, <2>2, <2>4 DEF Hooked
  <2> QED
    BY <1>4, <2>1, <2>2, <2>5, SwitchStateFrame DEF ExitHookReturns
<1>5. CASE EntryHookReturns
  BY <1>5, ReturnFrame DEF EntryHookReturns, ArmAndReturn
<1>6. CASE UnhandledHookReturns
  BY <1>6, ReturnFrame DEF UnhandledHookReturns
<1>7. CASE ExecuteActions
  BY <1>7 DEF ExecuteActions, Begin, FrameInv, frame, Result
<1>8. CASE ActionSucceeds
  <2>1. CASE Return("ok", <<>>)
    BY <2>1, ReturnFrame
  <2>2. CASE UNCHANGED <<pc, frame, result, tables, now, before>>
    BY <1>0, <1>8, <2>2, InnerStepFrame DEF ActionSucceeds, machine
  <2> QED
    BY <1>8, <2>1, <2>2 DEF ActionSucceeds
<1>9. ASSUME NEW kind \in {"err", "dropped"}, Abort(kind) PROVE FrameInv'
  BY <1>9, ReturnFrame DEF Abort
<1>10. CASE Tick
  BY <1>0, <1>10, InnerStepFrame DEF Tick, machine
<1>11. CASE UNCHANGED vars
  BY <1>0, <1>11, InnerStepFrame DEF vars, machine
<1> QED
  BY <1>1, <1>2, <1>3, <1>4, <1>5, <1>6, <1>7, <1>8, <1>9, <1>10, <1>11 DEF Next
-----------------------------------------------------------------------------
(***************************************************************************)
(* The step simulation.                                                    *)
(***************************************************************************)
MealyStep == [Mealy!Next]_(Mealy!vars)

LEMMA Stutter ==
    ASSUME SeenState' = SeenState, UNCHANGED <<state_timeout, result, tables, now>>
    PROVE  MealyStep
  BY DEF MealyStep, Mealy!vars, SeenState

\* A step that is invisible except that the last call's output is gone.
LEMMA QuietStep ==
    ASSUME SeenState' = SeenState, UNCHANGED <<state_timeout, tables, now>>, result'.actions = <<>>
    PROVE  MealyStep
<1>1. Mealy!Quiet
  BY DEF Mealy!Quiet, SeenState
<1> QED
  BY <1>1 DEF MealyStep, Mealy!Next

\* The ground a handler has in the engine is one the Mealy machine knows.
LEMMA Ground ==
    ASSUME SeenState = before.state, NEW acts, FromHandler(acts)
    PROVE  \/ \E r \in Mealy!OnEvent : acts \in Mealy!Of("transition", r)
           \/ \E r \in Mealy!OnTimeout : acts \in Mealy!Of("timeout", r)
  BY DEF FromHandler, from, SeenState, Outputs, HasTimeout, Due, Wildcard, Mealy!OnEvent, Mealy!OnTimeout,
     Mealy!Of, Mealy!NameOf, Mealy!HasTimeout, Mealy!Wildcard

\* A call that loses its locals after the new state was assigned is a half step.
LEMMA HalfStepTaken ==
    ASSUME SeenState = before.state, NEW acts, FromHandler(acts), NEW s \in State,
           SeenState' = s, UNCHANGED <<state_timeout, tables, now>>, result'.actions = <<>>,
           \/ VariantName[s] \in tables.entry_handlers
           \/ ~DeadlineExists(VariantName[s])
    PROVE  MealyStep
<1>1. Mealy!OnEvent \cup Mealy!OnTimeout # {}
  BY Ground
<1>2. Mealy!HalfStep
  BY <1>1 DEF Mealy!HalfStep, Mealy!NameOf, Mealy!HasTimeout, Mealy!InRange, Mealy!Deadline,
     DeadlineExists, HasTimeout, InRange, Deadline, SeenState
<1> QED
  BY <1>2 DEF MealyStep, Mealy!Next

\* The end of apply_transition is a whole step, or a half step when the deadline
\* is out of range.
LEMMA ArmAndReturnStep ==
    ASSUME TypeOK, SeenState = before.state,
           NEW s \in State, NEW t, FromHandler(t.actions),
           NEW x \in Hooked("exit", tables.exit_handlers, from),
           NEW n \in Hooked("entry", tables.entry_handlers, VariantName[s]),
           NEW acts, acts = x \o n,
           ArmAndReturn(VariantName[s], t, acts), current_state' = s
    PROVE  MealyStep
<1> DEFINE v == VariantName[s]
<1>1. CASE /\ DeadlineExists(v)
           /\ state_timeout' = Deadline(v) /\ half_entered' = FALSE
           /\ Return("ok", Joined(acts, t))
  <2>1. SeenState' = s /\ UNCHANGED <<tables, now>> /\ result'.actions = x \o n \o t.actions
    BY <1>1 DEF Return, Result, Joined, SeenState
  <2>2. /\ x \in Mealy!IfHooked("exit", tables.exit_handlers, from)
        /\ n \in Mealy!IfHooked("entry", tables.entry_handlers, v)
    BY DEF Hooked, Outputs, Mealy!IfHooked, Mealy!Of
  <2>3. \/ HasTimeout(v) /\ InRange(Deadline(v)) /\ state_timeout' = now + tables.timeout_handlers[v]
        \/ ~HasTimeout(v) /\ state_timeout' = None
    BY <1>1 DEF DeadlineExists, Deadline
  <2>4. Mealy!Step(s, t.actions)
    BY <2>1, <2>2, <2>3 DEF Mealy!Step, Mealy!NameOf, Mealy!HasTimeout, Mealy!InRange, Mealy!Deadline,
       SeenState, from, HasTimeout, InRange, Deadline
  <2>5. Mealy!EventStep \/ Mealy!TimeoutStep
    BY <2>4, Ground DEF Mealy!EventStep, Mealy!TimeoutStep
  <2> QED
    BY <2>5 DEF MealyStep, Mealy!Next
<1>2. CASE /\ ~DeadlineExists(v)
           /\ UNCHANGED state_timeout /\ half_entered' = TRUE
           /\ Return("dropped", <<>>)
  <2>1. SeenState' = s /\ UNCHANGED <<state_timeout, tables, now>> /\ result'.actions = <<>>
    BY <1>2 DEF Return, Result, SeenState
  <2> QED
    BY <1>2, <2>1, HalfStepTaken
<1> QED
  BY <1>1, <1>2 DEF ArmAndReturn

\* Assigning the state is a whole step if the call ends there, and not visible
\* if the entry hook is awaited.
LEMMA SwitchStateStep ==
    ASSUME TypeOK, IInv, FrameInv, pc \notin {"idle", "entry"},
           NEW t, t.next_state \in State, FromHandler(t.actions),
           NEW acts \in Hooked("exit", tables.exit_handlers, from), acts \in Seq(Action),
           SwitchState(t, acts)
    PROVE  MealyStep
<1> DEFINE v == VariantName[t.next_state]
<1>1. SeenState = before.state
  BY DEF SeenState, IInv, UncommittedCall
<1>2. CASE /\ pc' = "entry"
           /\ UNCHANGED <<state_timeout, tables, now, matched, result, before>>
  BY <1>1, <1>2, Stutter DEF SeenState
<1>3. CASE v \notin tables.entry_handlers /\ ArmAndReturn(v, t, acts)
  <2>1. <<>> \in Hooked("entry", tables.entry_handlers, v) /\ acts = acts \o <<>>
    BY <1>3, ConcatEmptySeq DEF Hooked
  <2>2. current_state' = t.next_state
    BY DEF SwitchState
  <2> QED
    BY <1>1, <1>3, <2>1, <2>2, ArmAndReturnStep
<1> QED
  BY <1>2, <1>3 DEF SwitchState

LEMMA InitMapsToInit == Init => Mealy!Init
<1> SUFFICES ASSUME Init PROVE Mealy!Init
  OBVIOUS
<1>1. SeenState = current_state /\ result.actions = <<>>
  BY DEF Init, SeenState, Result
<1>2. HasOwnHandler(tables, VariantName[current_state])
  BY DEF Init, name
<1>3. IF HasTimeout(VariantName[current_state])
        THEN InRange(now + tables.timeout_handlers[VariantName[current_state]])
             /\ state_timeout = now + tables.timeout_handlers[VariantName[current_state]]
        ELSE state_timeout = None
  BY DEF Init, name, DeadlineExists, Deadline
<1>4. tables \in Tables /\ current_state \in State /\ now = 0
  BY DEF Init
<1> QED
  BY <1>1, <1>2, <1>3, <1>4 DEF SeenState, HasTimeout, InRange, HasOwnHandler, Mealy!Init, Mealy!NameOf,
     Mealy!HasTimeout, Mealy!Deadline, Mealy!InRange, Mealy!HasOwnHandler

LEMMA NextMapsToStep == TypeOK /\ IInv /\ FrameInv /\ [Next]_vars => MealyStep
<1> SUFFICES ASSUME TypeOK, IInv, FrameInv, [Next]_vars PROVE MealyStep
  OBVIOUS
<1>0. pc # "entry" => SeenState = current_state
  BY DEF SeenState
<1>1. ASSUME NEW e \in Event, Handle(e) PROVE MealyStep
  <2>1. CASE Begin("transition") \/ Begin("unhandled")
    BY <2>1, QuietStep DEF Begin, Result, SeenState, machine
  <2>2. CASE Immediate("err")
    BY <2>2, QuietStep DEF Immediate, Result, SeenState, machine
  <2> QED
    BY <1>1, <2>1, <2>2 DEF Handle
<1>2. CASE CheckTimeout
  <2>1. CASE Begin("timeout")
    BY <2>1, QuietStep DEF Begin, Result, SeenState, machine
  <2>2. CASE Immediate("ok")
    BY <2>2, QuietStep DEF Immediate, Result, SeenState, machine
  <2> QED
    BY <1>2, <2>1, <2>2 DEF CheckTimeout
<1>3. ASSUME NEW s \in State, HandlerReturns(s) PROVE MealyStep
  <2>1. PICK out \in Outputs(pc, matched) :
          LET t == [next_state |-> s, actions |-> out]
          IN  \/ /\ name \in tables.exit_handlers
                 /\ pc' = "exit" /\ transition' = t
                 /\ UNCHANGED <<machine, tables, now, matched, all_actions, result, effects, before>>
              \/ /\ name \notin tables.exit_handlers
                 /\ SwitchState(t, <<>>)
    BY <1>3 DEF HandlerReturns
  <2> DEFINE t == [next_state |-> s, actions |-> out]
  <2>2. pc \in {"transition", "timeout"} /\ from = name /\ FromHandler(t.actions)
    BY <1>3, <2>1 DEF HandlerReturns, FrameInv, IInv, UncommittedCall, from, name
  <2>3. CASE name \notin tables.exit_handlers /\ SwitchState(t, <<>>)
    <3>1. <<>> \in Hooked("exit", tables.exit_handlers, from) /\ <<>> \in Seq(Action)
      BY <2>2, <2>3 DEF Hooked
    <3> QED
      BY <2>2, <2>3, <3>1, SwitchStateStep
  <2>4. CASE /\ pc' = "exit"
             /\ UNCHANGED <<machine, tables, now, matched, all_actions, result, effects, before>>
    BY <2>2, <2>4, Stutter DEF SeenState, machine
  <2> QED
    BY <2>1, <2>3, <2>4
<1>4. CASE ExitHookReturns
  <2>1. PICK out \in Outputs("exit", name) : SwitchState(transition, all_actions \o out)
    BY <1>4 DEF ExitHookReturns
  <2>2. from = name /\ name \in tables.exit_handlers /\ FromHandler(transition.actions) /\ all_actions = <<>>
    BY <1>4 DEF ExitHookReturns, FrameInv, IInv, UncommittedCall, from, name
  <2>3. out \in Seq(Action)
    BY OutputsType, NameType DEF TypeOK, name
  <2>4. all_actions \o out = out
    BY <2>2, <2>3, ConcatEmptySeq
  <2>5. out \in Hooked("exit", tables.exit_handlers, from)
    BY <2>1, <2>2 DEF Hooked
  <2>6. pc = "exit" /\ transition.next_state \in State
    BY <1>4 DEF ExitHookReturns, TypeOK
  <2> QED
    BY <2>1, <2>2, <2>3, <2>4, <2>5, <2>6, SwitchStateStep
<1>5. CASE EntryHookReturns
  <2>1. PICK out \in Outputs("entry", name) : ArmAndReturn(name, transition, all_actions \o out)
    BY <1>5 DEF EntryHookReturns
  <2>2. /\ SeenState = before.state /\ current_state' = current_state /\ current_state \in State
        /\ name = VariantName[current_state]
    BY <1>5 DEF EntryHookReturns, SeenState, TypeOK, name
  <2>3. /\ FromHandler(transition.actions) /\ all_actions \in Hooked("exit", tables.exit_handlers, from)
        /\ out \in Hooked("entry", tables.entry_handlers, name)
    BY <1>5, <2>1 DEF EntryHookReturns, FrameInv, Hooked
  <2> QED
    BY <2>1, <2>2, <2>3, ArmAndReturnStep
<1>6. CASE UnhandledHookReturns
  BY <1>6, QuietStep DEF UnhandledHookReturns, Return, Result, SeenState, machine
<1>7. CASE ExecuteActions
  BY <1>7, QuietStep DEF ExecuteActions, Begin, Result, SeenState, machine
<1>8. CASE ActionSucceeds
  <2>1. CASE Return("ok", <<>>)
    BY <1>8, <2>1, QuietStep DEF ActionSucceeds, Return, Result, SeenState, machine
  <2>2. CASE UNCHANGED <<pc, frame, result, tables, now, before>>
    BY <1>8, <2>2, Stutter DEF ActionSucceeds, SeenState, machine
  <2> QED
    BY <1>8, <2>1, <2>2 DEF ActionSucceeds
<1>9. ASSUME NEW kind \in {"err", "dropped"}, Abort(kind) PROVE MealyStep
  <2>1. /\ SeenState' = current_state /\ result'.actions = <<>>
        /\ UNCHANGED <<current_state, state_timeout, tables, now>>
    BY <1>9 DEF Abort, Return, Result, SeenState, machine
  <2>2. CASE pc = "entry"
    <3>1. /\ SeenState = before.state /\ FromHandler(transition.actions)
          /\ VariantName[current_state] \in tables.entry_handlers /\ current_state \in State
      BY <2>2 DEF SeenState, FrameInv, TypeOK, name
    <3> QED
      BY <2>1, <3>1, HalfStepTaken
  <2>3. CASE pc # "entry"
    BY <1>0, <2>1, <2>3, QuietStep
  <2> QED
    BY <2>2, <2>3
<1>10. CASE Tick
  <2>1. Mealy!Tick
    BY <1>10 DEF Tick, Mealy!Tick, machine
  <2> QED
    BY <2>1 DEF MealyStep, Mealy!Next
<1>11. CASE UNCHANGED vars
  BY <1>11, Stutter DEF vars, machine, SeenState
<1> QED
  BY <1>1, <1>2, <1>3, <1>4, <1>5, <1>6, <1>7, <1>8, <1>9, <1>10, <1>11 DEF Next

LEMMA FrameInvariant == Spec => []FrameInv
  BY TypeCorrect, InductiveInvariant, InitFrame, NextFrame, PTL DEF Spec

\* The engine, with all its awaits, failures and dropped calls, is the atomic
\* Mealy machine of MealyMachine (handle, check_timeout and apply_transition).
THEOREM Refinement == Spec => ImplementsMealy
<1>1. Init => Mealy!Init
  BY InitMapsToInit
<1>2. TypeOK /\ IInv /\ FrameInv /\ [Next]_vars => [Mealy!Next]_(Mealy!vars)
  BY NextMapsToStep DEF MealyStep
<1> QED
  BY <1>1, <1>2, TypeCorrect, InductiveInvariant, FrameInvariant, PTL DEF Spec, ImplementsMealy, Mealy!Spec
-----------------------------------------------------------------------------
(***************************************************************************)
(* What the engine hands to its host, and what execute_actions does with   *)
(* it: the order and the provenance of actions.                            *)
(***************************************************************************)
\* Short sequences, joined.
LEMMA Pair ==
    ASSUME NEW x \in Action, NEW y \in Action
    PROVE  <<x>> \o <<y>> = <<x, y>>
<1>1. <<x>> \in Seq(Action) /\ <<y>> \in Seq(Action) /\ <<x, y>> \in Seq(Action)
  OBVIOUS
<1>2. /\ <<x>> \o <<y>> \in Seq(Action) /\ Len(<<x>> \o <<y>>) = 2
      /\ (<<x>> \o <<y>>)[1] = x /\ (<<x>> \o <<y>>)[2] = y
  BY <1>1, ConcatProperties
<1>3. Len(<<x, y>>) = 2 /\ \A i \in 1..2 : (<<x>> \o <<y>>)[i] = <<x, y>>[i]
  BY <1>2
<1> DEFINE s == <<x>> \o <<y>>
           t == <<x, y>>
<1>4. s \in Seq(Action) /\ t \in Seq(Action) /\ Len(s) = Len(t) /\ \A i \in 1..Len(s) : s[i] = t[i]
  BY <1>1, <1>2, <1>3
<1> HIDE DEF s, t
<1>5. s = t
  BY <1>4, SeqEqual
<1> QED
  BY <1>5 DEF s, t

LEMMA Triple ==
    ASSUME NEW x \in Action, NEW y \in Action, NEW z \in Action
    PROVE  (<<x>> \o <<y>>) \o <<z>> = <<x, y, z>>
<1>1. <<x, y>> \in Seq(Action) /\ <<z>> \in Seq(Action) /\ <<x, y, z>> \in Seq(Action)
  OBVIOUS
<1>2. /\ <<x, y>> \o <<z>> \in Seq(Action) /\ Len(<<x, y>> \o <<z>>) = 3
      /\ (<<x, y>> \o <<z>>)[1] = x /\ (<<x, y>> \o <<z>>)[2] = y /\ (<<x, y>> \o <<z>>)[3] = z
  BY <1>1, ConcatProperties
<1>3. Len(<<x, y, z>>) = 3 /\ \A i \in 1..3 : (<<x, y>> \o <<z>>)[i] = <<x, y, z>>[i]
  BY <1>2
<1> DEFINE s == <<x, y>> \o <<z>>
           t == <<x, y, z>>
<1>4. s \in Seq(Action) /\ t \in Seq(Action) /\ Len(s) = Len(t) /\ \A i \in 1..Len(s) : s[i] = t[i]
  BY <1>1, <1>2, <1>3
<1> HIDE DEF s, t
<1>5. s = t
  BY <1>4, SeqEqual
<1> QED
  BY <1>5, Pair DEF s, t

\* out consists of the actions of x, n and a, in strictly increasing rank, each
\* of which has at most the one action given for it.
InOrder(out, x, n, a, X, N, A) ==
    /\ \A i, j \in DOMAIN out : i < j => HookRank[out[i].hook] < HookRank[out[j].hook]
    /\ \A i \in DOMAIN out : \/ out[i] = X /\ x = <<X>>
                             \/ out[i] = N /\ n = <<N>>
                             \/ out[i] = A /\ a = <<A>>

\* Joining the exit hook's, the entry hook's and the handler's action, where
\* there is one, gives them in order.
LEMMA JoinedInOrder ==
    ASSUME NEW X \in Action, X.hook = "exit",
           NEW N \in Action, N.hook = "entry",
           NEW A \in Action, A.hook \in {"transition", "timeout"},
           NEW x \in {<<>>, <<X>>}, NEW n \in {<<>>, <<N>>}, NEW a \in {<<>>, <<A>>}
    PROVE  InOrder((x \o n) \o a, x, n, a, X, N, A)
<1> DEFINE out == (x \o n) \o a
<1> USE DEF InOrder
<1>1. HookRank[X.hook] = 1 /\ HookRank[N.hook] = 2 /\ HookRank[A.hook] = 3
  BY DEF HookRank
<1>2. CASE x = <<>> /\ n = <<>> /\ a = <<>>
  <2>1. out = <<>>
    BY <1>2
  <2> QED
    BY <2>1
<1>3. CASE x = <<X>> /\ n = <<>> /\ a = <<>>
  <2>1. out = <<X>>
    BY <1>3
  <2> QED
    BY <1>3, <2>1
<1>4. CASE x = <<>> /\ n = <<N>> /\ a = <<>>
  <2>1. out = <<N>>
    BY <1>4
  <2> QED
    BY <1>4, <2>1
<1>5. CASE x = <<>> /\ n = <<>> /\ a = <<A>>
  <2>1. out = <<A>>
    BY <1>5
  <2> QED
    BY <1>5, <2>1
<1>6. CASE x = <<X>> /\ n = <<N>> /\ a = <<>>
  <2>1. out = <<X, N>>
    BY <1>6, Pair
  <2> QED
    BY <1>1, <1>6, <2>1
<1>7. CASE x = <<X>> /\ n = <<>> /\ a = <<A>>
  <2>1. out = <<X, A>>
    BY <1>7, Pair
  <2> QED
    BY <1>1, <1>7, <2>1
<1>8. CASE x = <<>> /\ n = <<N>> /\ a = <<A>>
  <2>1. out = <<N, A>>
    BY <1>8, Pair
  <2> QED
    BY <1>1, <1>8, <2>1
<1>9. CASE x = <<X>> /\ n = <<N>> /\ a = <<A>>
  <2>1. out = <<X, N, A>>
    BY <1>9, Triple
  <2> QED
    BY <1>1, <1>9, <2>1
<1> QED
  BY <1>2, <1>3, <1>4, <1>5, <1>6, <1>7, <1>8, <1>9

\* A call that returns nothing satisfies the property.
LEMMA NoOutput == ASSUME result'.actions = <<>> PROVE OutputIsOneTransition'
  BY DEF OutputIsOneTransition

\* Neither does a step disturb it that leaves the last call's result alone.
LEMMA SameOutput ==
    ASSUME OutputIsOneTransition, UNCHANGED <<result, before, current_state, tables>>
    PROVE  OutputIsOneTransition'
  BY DEF OutputIsOneTransition, name

\* The output of a transition, wherever the state was assigned.
LEMMA ArmAndReturnOutput ==
    ASSUME TypeOK, NEW s \in State, NEW t, FromHandler(t.actions),
           NEW x \in Hooked("exit", tables.exit_handlers, from),
           NEW n \in Hooked("entry", tables.entry_handlers, VariantName[s]),
           NEW acts, acts = x \o n,
           ArmAndReturn(VariantName[s], t, acts), current_state' = s
    PROVE  OutputIsOneTransition'
<1> DEFINE v == VariantName[s]
           X == [hook |-> "exit", state |-> from]
           N == [hook |-> "entry", state |-> v]
<1>1. CASE Return("dropped", <<>>)
  BY <1>1, NoOutput DEF Return, Result
<1>2. CASE Return("ok", Joined(acts, t))
  <2>1. /\ result'.actions = (x \o n) \o t.actions /\ UNCHANGED <<tables, before>>
        /\ name' = v /\ VariantName[before'.state] = from
    BY <1>2 DEF Return, Result, Joined, name, from
  <2>2. from \in Name /\ v \in Name /\ Wildcard \in Name
    BY NameType DEF TypeOK, from, Name
  <2>3. X \in Action /\ N \in Action
    BY <2>2 DEF Action
  <2>4. /\ x \in {<<>>, <<X>>} /\ (x = <<X>> => from \in tables.exit_handlers)
        /\ n \in {<<>>, <<N>>} /\ (n = <<N>> => v \in tables.entry_handlers)
    BY DEF Hooked, Outputs
  <2>5. PICK A \in Action :
          /\ t.actions \in {<<>>, <<A>>}
          /\ \/ A.hook = "transition" /\ A.state \in {from, Wildcard}
             \/ A.hook = "timeout" /\ A.state = from /\ HasTimeout(from)
    <3>1. ASSUME NEW r \in {from, Wildcard}, t.actions \in Outputs("transition", r)
          PROVE  \E A \in Action : /\ t.actions \in {<<>>, <<A>>}
                                   /\ A.hook = "transition" /\ A.state \in {from, Wildcard}
      <4>1. [hook |-> "transition", state |-> r] \in Action
        BY <2>2 DEF Action
      <4> QED
        BY <3>1, <4>1 DEF Outputs
    <3>2. ASSUME t.actions \in Outputs("timeout", from)
          PROVE  \E A \in Action : /\ t.actions \in {<<>>, <<A>>}
                                   /\ A.hook = "timeout" /\ A.state = from
      <4>1. [hook |-> "timeout", state |-> from] \in Action
        BY <2>2 DEF Action
      <4> QED
        BY <3>2, <4>1 DEF Outputs
    <3> QED
      BY <3>1, <3>2 DEF FromHandler
  <2> DEFINE out == result'.actions
  <2>6. InOrder(out, x, n, t.actions, X, N, A)
    <3>1. out = (x \o n) \o t.actions /\ X.hook = "exit" /\ N.hook = "entry" /\ A.hook \in {"transition", "timeout"}
      BY <2>1, <2>5
    <3> HIDE DEF out, X, N
    <3> QED
      BY <2>3, <2>4, <2>5, <3>1, JoinedInOrder
  <2>7. \A i \in DOMAIN out :
          CASE out[i].hook = "exit"       -> out[i].state = from /\ from \in tables.exit_handlers
            [] out[i].hook = "entry"      -> out[i].state = v /\ v \in tables.entry_handlers
            [] out[i].hook = "timeout"    -> out[i].state = from /\ from \in DOMAIN tables.timeout_handlers
            [] out[i].hook = "transition" -> out[i].state \in {from, Wildcard}
    <3> SUFFICES ASSUME NEW i \in DOMAIN out
                 PROVE  CASE out[i].hook = "exit"       -> out[i].state = from /\ from \in tables.exit_handlers
                          [] out[i].hook = "entry"      -> out[i].state = v /\ v \in tables.entry_handlers
                          [] out[i].hook = "timeout"    -> out[i].state = from /\ from \in DOMAIN tables.timeout_handlers
                          [] out[i].hook = "transition" -> out[i].state \in {from, Wildcard}
      OBVIOUS
    <3>1. \/ out[i].hook = "exit" /\ out[i].state = from /\ from \in tables.exit_handlers
          \/ out[i].hook = "entry" /\ out[i].state = v /\ v \in tables.entry_handlers
          \/ out[i].hook = "timeout" /\ out[i].state = from /\ from \in DOMAIN tables.timeout_handlers
          \/ out[i].hook = "transition" /\ out[i].state \in {from, Wildcard}
      BY <2>4, <2>5, <2>6 DEF HasTimeout, InOrder
    <3> HIDE DEF out, v
    <3> QED
      BY <3>1
  <2> HIDE DEF out
  <2> QED
    BY <2>1, <2>6, <2>7 DEF OutputIsOneTransition, InOrder, out
<1> QED
  BY <1>1, <1>2 DEF ArmAndReturn

LEMMA SwitchStateOutput ==
    ASSUME TypeOK, FrameInv, OutputIsOneTransition, pc # "idle",
           NEW t, t.next_state \in State, FromHandler(t.actions),
           NEW acts \in Hooked("exit", tables.exit_handlers, from), acts \in Seq(Action),
           SwitchState(t, acts)
    PROVE  OutputIsOneTransition'
<1> DEFINE v == VariantName[t.next_state]
<1>1. CASE UNCHANGED <<state_timeout, tables, now, matched, result, before>>
  BY <1>1, NoOutput DEF FrameInv
<1>2. CASE v \notin tables.entry_handlers /\ ArmAndReturn(v, t, acts)
  <2>1. <<>> \in Hooked("entry", tables.entry_handlers, v) /\ acts = acts \o <<>>
    BY <1>2, ConcatEmptySeq DEF Hooked
  <2>2. current_state' = t.next_state
    BY DEF SwitchState
  <2> QED
    BY <1>2, <2>1, <2>2, ArmAndReturnOutput
<1> QED
  BY <1>1, <1>2 DEF SwitchState

LEMMA NextOutput ==
    TypeOK /\ IInv /\ FrameInv /\ OutputIsOneTransition /\ [Next]_vars => OutputIsOneTransition'
<1> SUFFICES ASSUME TypeOK, IInv, FrameInv, OutputIsOneTransition, [Next]_vars
             PROVE  OutputIsOneTransition'
  OBVIOUS
<1>1. ASSUME NEW e \in Event, Handle(e) PROVE OutputIsOneTransition'
  BY <1>1, NoOutput DEF Handle, Begin, Immediate, Result
<1>2. CASE CheckTimeout
  BY <1>2, NoOutput DEF CheckTimeout, Begin, Immediate, Result
<1>3. ASSUME NEW s \in State, HandlerReturns(s) PROVE OutputIsOneTransition'
  <2>1. PICK out \in Outputs(pc, matched) :
          LET t == [next_state |-> s, actions |-> out]
          IN  \/ /\ name \in tables.exit_handlers
                 /\ pc' = "exit" /\ transition' = t
                 /\ UNCHANGED <<machine, tables, now, matched, all_actions, result, effects, before>>
              \/ /\ name \notin tables.exit_handlers
                 /\ SwitchState(t, <<>>)
    BY <1>3 DEF HandlerReturns
  <2> DEFINE t == [next_state |-> s, actions |-> out]
  <2>2. pc # "idle" /\ from = name /\ FromHandler(t.actions)
    BY <1>3, <2>1 DEF HandlerReturns, FrameInv, IInv, UncommittedCall, from, name
  <2>3. CASE name \notin tables.exit_handlers /\ SwitchState(t, <<>>)
    <3>1. <<>> \in Hooked("exit", tables.exit_handlers, from) /\ <<>> \in Seq(Action)
      BY <2>2, <2>3 DEF Hooked
    <3> QED
      BY <2>2, <2>3, <3>1, SwitchStateOutput
  <2>4. CASE UNCHANGED <<machine, tables, now, matched, all_actions, result, effects, before>>
    BY <2>4, SameOutput DEF machine
  <2> QED
    BY <2>1, <2>3, <2>4
<1>4. CASE ExitHookReturns
  <2>1. PICK out \in Outputs("exit", name) : SwitchState(transition, all_actions \o out)
    BY <1>4 DEF ExitHookReturns
  <2>2. from = name /\ name \in tables.exit_handlers /\ FromHandler(transition.actions) /\ all_actions = <<>>
    BY <1>4 DEF ExitHookReturns, FrameInv, IInv, UncommittedCall, from, name
  <2>3. out \in Seq(Action)
    BY OutputsType, NameType DEF TypeOK, name
  <2>4. all_actions \o out = out
    BY <2>2, <2>3, ConcatEmptySeq
  <2>5. out \in Hooked("exit", tables.exit_handlers, from)
    BY <2>1, <2>2 DEF Hooked
  <2>6. pc = "exit" /\ transition.next_state \in State
    BY <1>4 DEF ExitHookReturns, TypeOK
  <2> QED
    BY <2>1, <2>2, <2>3, <2>4, <2>5, <2>6, SwitchStateOutput
<1>5. CASE EntryHookReturns
  <2>1. PICK out \in Outputs("entry", name) : ArmAndReturn(name, transition, all_actions \o out)
    BY <1>5 DEF EntryHookReturns
  <2>2. current_state' = current_state /\ current_state \in State /\ name = VariantName[current_state]
    BY <1>5 DEF EntryHookReturns, TypeOK, name
  <2>3. /\ FromHandler(transition.actions) /\ all_actions \in Hooked("exit", tables.exit_handlers, from)
        /\ out \in Hooked("entry", tables.entry_handlers, name)
    BY <1>5, <2>1 DEF EntryHookReturns, FrameInv, Hooked
  <2> QED
    BY <2>1, <2>2, <2>3, ArmAndReturnOutput
<1>6. CASE UnhandledHookReturns
  BY <1>6, NoOutput DEF UnhandledHookReturns, Return, Result
<1>7. CASE ExecuteActions
  BY <1>7, NoOutput DEF ExecuteActions, Begin, Result
<1>8. CASE ActionSucceeds
  <2>1. CASE Return("ok", <<>>)
    BY <2>1, NoOutput DEF Return, Result
  <2>2. CASE UNCHANGED <<pc, frame, result, tables, now, before>>
    BY <1>8, <2>2, SameOutput DEF ActionSucceeds, machine
  <2> QED
    BY <1>8, <2>1, <2>2 DEF ActionSucceeds
<1>9. ASSUME NEW kind \in {"err", "dropped"}, Abort(kind) PROVE OutputIsOneTransition'
  BY <1>9, NoOutput DEF Abort, Return, Result
<1>10. CASE Tick
  BY <1>10, SameOutput DEF Tick, machine
<1>11. CASE UNCHANGED vars
  BY <1>11, SameOutput DEF vars, machine
<1> QED
  BY <1>1, <1>2, <1>3, <1>4, <1>5, <1>6, <1>7, <1>8, <1>9, <1>10, <1>11 DEF Next

\* Every call's output comes from one transition, exit hook first, then the entry
\* hook, then the handler's own actions (machine.rs:37-45).
THEOREM OutputCorrect == Spec => []OutputIsOneTransition
<1>1. Init => OutputIsOneTransition
  BY DEF Init, Result, OutputIsOneTransition
<1> QED
  BY <1>1, NextOutput, TypeCorrect, InductiveInvariant, FrameInvariant, PTL DEF Spec
-----------------------------------------------------------------------------
\* Moving the head of q to the end of p changes nothing about their
\* concatenation.
LEMMA MoveHead ==
    ASSUME NEW p \in Seq(Action), NEW q \in Seq(Action), q # <<>>
    PROVE  Append(p, Head(q)) \o Tail(q) = p \o q
<1>1. Head(q) \in Action /\ Tail(q) \in Seq(Action) /\ <<Head(q)>> \in Seq(Action)
  OBVIOUS
<1>2. Append(p, Head(q)) = p \o <<Head(q)>>
  BY <1>1, AppendIsConcat
<1>3. (p \o <<Head(q)>>) \o Tail(q) = p \o (<<Head(q)>> \o Tail(q))
  BY <1>1, ConcatAssociative
<1>4. <<Head(q)>> \o Tail(q) = q
  <2>1. Len(q) \in Nat \ {0} /\ Head(q) = q[1] /\ Tail(q) = SubSeq(q, 2, Len(q)) /\ SubSeq(q, 1, Len(q)) = q
    BY TailIsSubSeq, SubSeqFull
  <2>2. 1 \in 1..Len(q) /\ Len(q) \in 1..Len(q)
    BY <2>1
  <2>3. SubSeq(q, 1, Len(q)) = <<q[1]>> \o SubSeq(q, 1 + 1, Len(q))
    BY <2>2, SubSeqRecursiveFirst
  <2> QED
    BY <2>1, <2>3
<1> QED
  BY <1>2, <1>3, <1>4

\* The front of a concatenation is its first part.
LEMMA FirstPart ==
    ASSUME NEW p \in Seq(Action), NEW q \in Seq(Action)
    PROVE  Len(p) <= Len(p \o q) /\ SubSeq(p \o q, 1, Len(p)) = p
<1>1. Len(p \o q) = Len(p) + Len(q) /\ Len(p) \in Nat /\ Len(q) \in Nat
  OBVIOUS
<1>2. CASE p = <<>>
  BY <1>1, <1>2, SubSeqEmpty
<1>3. CASE p # <<>>
  <2>1. 1 \in 1..Len(p) /\ Len(p) \in 1..Len(p)
    BY <1>1, <1>3
  <2>2. SubSeq(p \o q, 1, Len(p)) = SubSeq(p, 1, Len(p))
    BY <2>1, SubSeqOfConcat1
  <2> QED
    BY <1>1, <2>2, SubSeqFull
<1> QED
  BY <1>2, <1>3

\* A step that does not touch execute_actions' data and does not start it.
LEMMA SameEffects ==
    ASSUME PerformedSoFar, UNCHANGED <<performed, batch>>,
           pc' = "executing" => pc = "executing" /\ pending' = pending
    PROVE  PerformedSoFar'
  BY DEF PerformedSoFar

LEMMA SwitchStateEffects ==
    ASSUME PerformedSoFar, NEW t, NEW acts, SwitchState(t, acts)
    PROVE  PerformedSoFar'
<1>1. UNCHANGED effects /\ pc' # "executing"
  BY DEF SwitchState, ArmAndReturn, Return
<1> QED
  BY <1>1, SameEffects DEF effects

LEMMA NextPerformed == TypeOK /\ PerformedSoFar /\ [Next]_vars => PerformedSoFar'
<1> SUFFICES ASSUME TypeOK, PerformedSoFar, [Next]_vars PROVE PerformedSoFar'
  OBVIOUS
<1> USE DEF effects
<1>1. ASSUME NEW e \in Event, Handle(e) PROVE PerformedSoFar'
  BY <1>1, SameEffects DEF Handle, Begin, Immediate
<1>2. CASE CheckTimeout
  BY <1>2, SameEffects DEF CheckTimeout, Begin, Immediate
<1>3. ASSUME NEW s \in State, HandlerReturns(s) PROVE PerformedSoFar'
  BY <1>3, SameEffects, SwitchStateEffects DEF HandlerReturns
<1>4. CASE ExitHookReturns
  BY <1>4, SwitchStateEffects DEF ExitHookReturns
<1>5. CASE EntryHookReturns
  BY <1>5, SameEffects DEF EntryHookReturns, ArmAndReturn, Return
<1>6. CASE UnhandledHookReturns
  BY <1>6, SameEffects DEF UnhandledHookReturns, Return
<1>7. CASE ExecuteActions
  <2>1. /\ pending' = result.actions /\ batch' = result.actions /\ performed' = <<>>
        /\ result.actions \in Seq(Action)
    BY <1>7 DEF ExecuteActions, TypeOK
  <2>2. Len(<<>>) = 0 /\ SubSeq(result.actions, 1, 0) = <<>> /\ Len(result.actions) >= 0
    BY <2>1, SubSeqEmpty
  <2>3. <<>> \o result.actions = result.actions
    BY <2>1, ConcatEmptySeq
  <2> QED
    BY <2>1, <2>2, <2>3 DEF PerformedSoFar
<1>8. CASE ActionSucceeds
  <2>1. /\ performed' = Append(performed, Head(pending)) /\ pending' = Tail(pending)
        /\ batch' = batch /\ batch = performed \o pending
        /\ performed \in Seq(Action) /\ pending \in Seq(Action) /\ pending # <<>>
    BY <1>8 DEF ActionSucceeds, PerformedSoFar, TypeOK
  <2>2. performed' \in Seq(Action) /\ pending' \in Seq(Action)
    BY <2>1
  <2>3. performed' \o pending' = batch'
    BY <2>1, MoveHead
  <2>4. Len(performed') <= Len(batch') /\ performed' = SubSeq(batch', 1, Len(performed'))
    BY <2>2, <2>3, FirstPart
  <2> QED
    BY <2>3, <2>4 DEF PerformedSoFar
<1>9. ASSUME NEW kind \in {"err", "dropped"}, Abort(kind) PROVE PerformedSoFar'
  BY <1>9, SameEffects DEF Abort, Return
<1>10. CASE Tick
  BY <1>10, SameEffects DEF Tick
<1>11. CASE UNCHANGED vars
  BY <1>11, SameEffects DEF vars
<1> QED
  BY <1>1, <1>2, <1>3, <1>4, <1>5, <1>6, <1>7, <1>8, <1>9, <1>10, <1>11 DEF Next

\* Only the last action's success ends an execution with Ok, and then nothing is
\* left.
LEMMA NextOk == TypeOK /\ IInv /\ PerformedSoFar /\ [Next]_vars => [OkMeansAll]_vars
<1> SUFFICES ASSUME TypeOK, IInv, PerformedSoFar, Next, pc = "executing", result'.kind = "ok"
             PROVE  performed' = batch
  BY DEF OkMeansAll
<1>1. result.kind = "running"
  BY DEF IInv, UncommittedCall
<1>2. CASE ActionSucceeds
  <2>1. performed' = Append(performed, Head(pending)) /\ Tail(pending) = <<>>
    BY <1>1, <1>2 DEF ActionSucceeds
  <2>2. /\ performed \in Seq(Action) /\ pending \in Seq(Action) /\ pending # <<>>
        /\ batch = performed \o pending
    BY DEF TypeOK, PerformedSoFar
  <2>3. performed' \o Tail(pending) = batch
    BY <2>1, <2>2, MoveHead
  <2>4. performed' \in Seq(Action)
    BY <2>1, <2>2
  <2> QED
    BY <2>1, <2>3, <2>4, ConcatEmptySeq
<1>3. CASE \E kind \in {"err", "dropped"} : Abort(kind)
  BY <1>3 DEF Abort, Return, Result
<1>4. CASE Tick
  BY <1>1, <1>4 DEF Tick
<1>5. \/ ActionSucceeds
      \/ \E kind \in {"err", "dropped"} : Abort(kind)
      \/ Tick
  BY DEF Next, Handle, CheckTimeout, HandlerReturns, ExitHookReturns, EntryHookReturns,
     UnhandledHookReturns, ExecuteActions, Begin, Immediate
<1> QED
  BY <1>2, <1>3, <1>4, <1>5

\* However long the list and wherever it fails, execute_actions has performed a
\* prefix of it in order, and an Ok means all of it (machine.rs:211-216).
THEOREM ExecutionInOrder == Spec => ExecutedInOrder
<1>1. Init => PerformedSoFar
  <2>1. Len(<<>>) = 0 /\ SubSeq(<<>>, 1, 0) = <<>>
    BY SubSeqEmpty
  <2> QED
    BY <2>1 DEF Init, PerformedSoFar
<1>2. TypeOK /\ IInv /\ PerformedSoFar /\ [Next]_vars => PerformedSoFar' /\ [PerformedSoFar' /\ OkMeansAll]_vars
  BY NextPerformed, NextOk
<1> QED
  BY <1>1, <1>2, TypeCorrect, InductiveInvariant, PTL DEF Spec, ExecutedInOrder
=============================================================================
