---------------------------- MODULE MealyMachine ----------------------------
(***************************************************************************)
(* What StateMachine promises its host: State x Event -> Actions, State    *)
(* (src/src/lib.rs:8-9) with per-state timeouts (lib.rs:261-271).  A call  *)
(* is one atomic step: either the whole transition happens, with its       *)
(* output and the new state's deadline, or nothing does.  The one          *)
(* exception is HalfStep: the code can be interrupted between assigning    *)
(* the new state and deciding its deadline.                                *)
(***************************************************************************)
EXTENDS FsmTypes

CONSTANTS Tables, MaxTime

VARIABLES
    state,       \* the state the host sees
    deadline,    \* when the state times out, None if it does not
    output,      \* the actions the last call returned
    tables,      \* the machine's configuration
    now
vars == <<state, deadline, output, tables, now>>

HasTimeout(v) == v \in DOMAIN tables.timeout_handlers
Deadline(s) == now + tables.timeout_handlers[VariantName[s]]
NameOf(s) == VariantName[s]
Of(hook, owner) == {<<>>, <<[hook |-> hook, state |-> owner]>>}
IfHooked(hook, owners, v) == IF v \in owners THEN Of(hook, v) ELSE {<<>>}

Init ==
    /\ tables \in Tables /\ state \in State /\ now = 0 /\ output = <<>>
    /\ HasOwnHandler(tables, NameOf(state))
    /\ IF HasTimeout(NameOf(state))
         THEN InRange(Deadline(state)) /\ deadline = Deadline(state)
         ELSE deadline = None

\* The states an event or an elapsed deadline may move the machine from, with
\* the state names under which a handler for it is found.
OnEvent == { r \in {NameOf(state), Wildcard} : \E e \in Event : <<r, e>> \in tables.transitions }
OnTimeout == { r \in {NameOf(state)} : HasTimeout(r) /\ deadline # None /\ now >= deadline }

\* The whole transition to s, made by a handler with output out.
Step(s, out) ==
    /\ state' = s
    /\ \/ HasTimeout(NameOf(s)) /\ InRange(Deadline(s)) /\ deadline' = Deadline(s)
       \/ ~HasTimeout(NameOf(s)) /\ deadline' = None
    /\ \E x \in IfHooked("exit", tables.exit_handlers, NameOf(state)),
          n \in IfHooked("entry", tables.entry_handlers, NameOf(s)) : output' = x \o n \o out
    /\ UNCHANGED <<tables, now>>

EventStep   == \E s \in State, r \in OnEvent : \E out \in Of("transition", r) : Step(s, out)
TimeoutStep == \E s \in State, r \in OnTimeout : \E out \in Of("timeout", r) : Step(s, out)

\* The new state is kept but its deadline is not decided and the output is
\* lost: its entry hook failed, or its deadline is out of range.
HalfStep ==
    /\ OnEvent \cup OnTimeout # {}
    /\ \E s \in State :
          /\ state' = s
          /\ \/ NameOf(s) \in tables.entry_handlers
             \/ HasTimeout(NameOf(s)) /\ ~InRange(Deadline(s))
    /\ output' = <<>>
    /\ UNCHANGED <<deadline, tables, now>>

\* A call begins, fails, has nothing to do, or hands the output to the host.
Quiet == output' = <<>> /\ UNCHANGED <<state, deadline, tables, now>>

Tick == now < MaxTime /\ now' = now + 1 /\ UNCHANGED <<state, deadline, output, tables>>

Next == EventStep \/ TimeoutStep \/ HalfStep \/ Quiet \/ Tick

Spec == Init /\ [][Next]_vars
=============================================================================
