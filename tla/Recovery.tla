------------------------------ MODULE Recovery ------------------------------
(***************************************************************************)
(* A host that loses its machine and builds it anew.  The repository names *)
(* two ways: from a saved state (test_state_persistence in                 *)
(* src/tests/test_comprehensive.rs) and by replaying the handled events    *)
(* through a fresh machine, ignoring the actions (src/src/lib.rs:76-78,    *)
(* which asks for deterministic handlers).  So handlers are functions here, *)
(* while hooks may still fail, calls may be dropped, and the host may die  *)
(* at any point of a call or between a call and the write that records it. *)
(***************************************************************************)
EXTENDS StateMachine, Runs

CONSTANTS
    Initial,        \* the state of a fresh machine
    NextOf,         \* [State -> [Event -> State]], the transition handlers
    AfterTimeout,   \* [State -> State], the timeout handlers
    MaxLog,         \* bound: events logged
    MaxCrashes      \* bound: times the host dies

ASSUME HandlersAssumption ==
    /\ Initial \in State /\ MaxLog \in Nat /\ MaxCrashes \in Nat
    /\ NextOf \in [State -> [Event -> State]] /\ AfterTimeout \in [State -> State]
    /\ "poll" \notin Event /\ None \notin Event \cup {"poll"}

VARIABLES
    mode,           \* "live", "down", or "replaying" the log
    call,           \* what the host waits for: an event, "poll" or None
    log, snapshot,  \* durable: the events handled, and the state after them
    todo,           \* the events left to replay
    \* auxiliary: the machine when it was last recorded, how often the host died,
    \* and whether the machine moved in a way the log does not show
    recorded, crashes, diverted

durable == <<log, snapshot, recorded>>
rvars   == <<vars, mode, call, durable, todo, crashes, diverted>>

Machine == [state |-> current_state, timer |-> state_timeout, entered |-> ~half_entered]

RInit ==
    /\ Init /\ current_state = Initial
    /\ mode = "live" /\ call = None
    /\ log = <<>> /\ snapshot = Initial /\ todo = <<>>
    /\ recorded = Machine
    /\ crashes = 0 /\ diverted = FALSE

Idle == pc = "idle" /\ call = None
-----------------------------------------------------------------------------
HostHandles(e) ==
    /\ mode = "live" /\ Idle /\ Len(log) < MaxLog
    /\ Handle(e) /\ call' = e
    /\ UNCHANGED <<mode, durable, todo, crashes, diverted>>

HostPolls ==
    /\ mode = "live" /\ Idle
    /\ CheckTimeout /\ call' = "poll"
    /\ UNCHANGED <<mode, durable, todo, crashes, diverted>>

\* The awaited call goes on or fails.  An event that only the unhandled hook takes
\* ends in Ok like any other, although it moves nothing.
Step ==
    /\ \/ pc = "transition" /\ HandlerReturns(NextOf[current_state][call])
       \/ pc = "timeout" /\ HandlerReturns(AfterTimeout[current_state])
       \/ UnhandledHookReturns
       \/ ExitHookReturns
       \/ EntryHookReturns
       \/ \E kind \in {"err", "dropped"} : Abort(kind)
    /\ UNCHANGED <<mode, call, durable, todo, crashes, diverted>>

\* The host records a call that returned Ok: an event goes to the log.
Record ==
    /\ mode = "live" /\ pc = "idle" /\ call # None /\ result.kind = "ok"
    /\ log' = IF call = "poll" THEN log ELSE Append(log, call)
    /\ diverted' = (diverted \/ (call = "poll" /\ current_state # before.state))
    /\ snapshot' = current_state
    /\ recorded' = Machine
    /\ call' = None
    /\ UNCHANGED <<vars, mode, todo, crashes>>

\* Or goes on after a call that did not.
GoOn ==
    /\ mode = "live" /\ pc = "idle" /\ call # None /\ result.kind \in {"err", "dropped"}
    /\ diverted' = (diverted \/ half_entered)
    /\ call' = None
    /\ UNCHANGED <<vars, mode, durable, todo, crashes>>
-----------------------------------------------------------------------------
\* The host dies, and what was in memory with it.
Crash ==
    /\ mode # "down" /\ crashes < MaxCrashes
    /\ mode' = "down" /\ crashes' = crashes + 1
    /\ call' = None /\ todo' = <<>>
    /\ Return("none", <<>>)
    /\ UNCHANGED <<machine, effects, durable, diverted>>

\* Mutated form: new leaves the timeout of the initial state to the first
\* transition.
NewUntimed(s) ==
    /\ HasOwnHandler(tables, VariantName[s])
    /\ current_state' = s /\ state_timeout' = None
    /\ entered_at' = now /\ half_entered' = FALSE
    /\ before' = [state |-> s, timer |-> state_timeout']
    /\ UNCHANGED <<tables, now, pc, frame, result, effects>>

\* try_build and StateMachine::new: a state without handlers of its own is
\* refused; the timeout counts from now; no hook runs.
New(s) ==
    /\ HasOwnHandler(tables, VariantName[s]) /\ DeadlineExists(VariantName[s])
    /\ current_state' = s /\ state_timeout' = Deadline(VariantName[s])
    /\ entered_at' = now /\ half_entered' = FALSE
    /\ before' = [state |-> s, timer |-> state_timeout']
    /\ UNCHANGED <<tables, now, pc, frame, result, effects>>

Restore ==
    /\ mode = "down"
    /\ New(snapshot) /\ mode' = "live"
    /\ UNCHANGED <<call, durable, todo, crashes, diverted>>

StartReplay ==
    /\ mode = "down"
    /\ New(Initial) /\ mode' = "replaying" /\ todo' = log
    /\ UNCHANGED <<call, durable, crashes, diverted>>

Replay ==
    /\ mode = "replaying" /\ Idle /\ todo # <<>>
    /\ Handle(Head(todo)) /\ call' = Head(todo)
    /\ UNCHANGED <<mode, durable, todo, crashes, diverted>>

\* The next event only after an Ok; else the host stops and starts over.
Replayed ==
    /\ mode = "replaying" /\ pc = "idle" /\ call # None
    /\ call' = None
    /\ \/ result.kind = "ok" /\ todo' = Tail(todo) /\ UNCHANGED mode
       \/ result.kind \in {"err", "dropped"} /\ todo' = <<>> /\ mode' = "down"
    /\ UNCHANGED <<vars, durable, crashes, diverted>>

\* After the whole log the machine is the truth again.
EndReplay ==
    /\ mode = "replaying" /\ Idle /\ todo = <<>>
    /\ mode' = "live" /\ snapshot' = current_state /\ diverted' = FALSE
    /\ UNCHANGED <<vars, call, log, recorded, todo, crashes>>

HostWaits == Tick /\ UNCHANGED <<mode, call, durable, todo, crashes, diverted>>

RNext ==
    \/ \E e \in Event : HostHandles(e)
    \/ HostPolls \/ Step \/ Record \/ GoOn
    \/ Crash \/ Restore \/ StartReplay \/ Replay \/ Replayed \/ EndReplay
    \/ HostWaits

RSpec == RInit /\ [][RNext]_rvars
-----------------------------------------------------------------------------
\* Where an event leads that was handled with Ok: the handler decides if some row
\* has the event, else there was only the unhandled hook, and the state stays.
HasRow(s, e) == <<VariantName[s], e>> \in tables.transitions \/ <<Wildcard, e>> \in tables.transitions
Leads == [s \in State |-> [e \in Event |-> IF HasRow(s, e) THEN NextOf[s][e] ELSE s]]

\* The state the configuration and its handlers alone lead to.
Outcome(events) == RunOver(Leads, Initial, events)

\* The log, the saved state and the machine tell the same story, whichever of
\* its calls failed, were dropped or were cut off by a crash, and whichever way
\* the machine was recovered - unless a timeout moved the machine, which no
\* event records, or the host went on with a half-entered state.  The log also
\* has the events that returned Ok from the unhandled hook (machine.rs:144-149):
\* the host cannot tell them from others, and a replay passes over them.
LogExplainsState ==
    mode = "live" /\ Idle /\ ~diverted
        => current_state = snapshot /\ current_state = Outcome(log)

\* Recovery may postpone a timeout, because the countdown begins anew, but never
\* loses or advances one: the machine recovered in the state last recorded, if
\* that was entered completely, has a deadline iff that one had, and no earlier
\* one.
TimeoutOnlyPostponed ==
    [][ mode # "live" /\ mode' = "live" /\ recorded.entered /\ current_state' = recorded.state =>
            IF recorded.timer = None THEN state_timeout' = None
            ELSE state_timeout' # None /\ state_timeout' >= recorded.timer ]_rvars
=============================================================================
