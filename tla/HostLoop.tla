------------------------------ MODULE HostLoop ------------------------------
(***************************************************************************)
(* The supervisor loop the crate documents and compiles as a doctest       *)
(* (src/src/lib.rs:235-257), around one StateMachine: poll the timeout,    *)
(* run its actions, receive one event, handle it, run its actions, and     *)
(* turn a failing action into a failure event that is handled on the spot, *)
(* after which the remaining actions go on.  ? ends the loop.              *)
(*                                                                         *)
(* Events come from outside at any time; delivery is at least once, so an  *)
(* event may be delivered again.  The loop owns the machine and awaits     *)
(* every call to its end: nothing drops a call, but any handler and any    *)
(* action may fail.                                                        *)
(***************************************************************************)
EXTENDS StateMachine

CONSTANTS
    FailureEvent,   \* what the host maps a failing action to
    MaxEvents,      \* bound: events delivered in all
    MaxInbox        \* bound: events waiting at a time

ASSUME HostAssumption == FailureEvent \in Event /\ MaxEvents \in Nat /\ MaxInbox \in Nat

VARIABLES
    host,           \* where the loop is
    inbox,          \* events waiting to be received
    actions,        \* actions of the timeout or event still to run
    failure_actions,\* actions of the failure event still to run
    \* auxiliary: events delivered so far, the actions handle returned for the
    \* last event and those of them attempted, and the events received since
    \* the running deadline elapsed
    delivered, returned, attempted, late

local == <<actions, failure_actions, returned, attempted>>
hvars == <<vars, host, inbox, local, delivered, late>>

HInit ==
    /\ Init
    /\ host = "poll" /\ inbox = <<>> /\ actions = <<>> /\ failure_actions = <<>>
    /\ delivered = 0 /\ returned = <<>> /\ attempted = <<>> /\ late = 0

\* The loop calls the machine and awaits it at stage.
Await(stage) == host' = stage /\ UNCHANGED inbox

\* The call the loop awaits has returned.
Returned(stage) == host = stage /\ pc = "idle" /\ UNCHANGED <<vars, inbox, delivered, late>>
Stop == host' = "stopped" /\ UNCHANGED local

Poll ==
    /\ host = "poll"
    /\ CheckTimeout
    /\ Await("polling")
    /\ late' = IF pc' = "timeout" THEN 0 ELSE late
    /\ UNCHANGED <<local, delivered>>

PollReturns ==
    /\ Returned("polling")
    /\ \/ /\ result.kind = "ok"
          /\ host' = "timeout_actions" /\ actions' = result.actions
          /\ UNCHANGED <<failure_actions, returned, attempted>>
       \/ result.kind = "err" /\ Stop

TimeoutAction ==
    /\ host = "timeout_actions"
    /\ UNCHANGED <<vars, inbox, delivered, late>>
    /\ \/ /\ actions # <<>> /\ actions' = Tail(actions)
          /\ UNCHANGED <<host, failure_actions, returned, attempted>>
       \/ actions # <<>> /\ Stop
       \/ actions = <<>> /\ host' = "receive" /\ UNCHANGED local

\* Mutated form: the event is looked at but not taken from the inbox.
ReceivePeeks ==
    /\ host = "receive" /\ inbox # <<>>
    /\ Handle(Head(inbox))
    /\ Await("handling")
    /\ late' = IF Due THEN late + 1 ELSE late
    /\ UNCHANGED <<local, delivered>>

Receive ==
    /\ host = "receive" /\ inbox # <<>>
    /\ Handle(Head(inbox))
    /\ inbox' = Tail(inbox) /\ host' = "handling"
    /\ late' = IF Due THEN late + 1 ELSE late
    /\ UNCHANGED <<local, delivered>>

\* Mutated form: an error of handle is ignored and the loop goes on.
HandleReturnsIgnoringErr ==
    /\ Returned("handling")
    /\ host' = "actions" /\ actions' = result.actions
    /\ returned' = result.actions /\ attempted' = <<>>
    /\ UNCHANGED failure_actions

HandleReturns ==
    /\ Returned("handling")
    /\ \/ /\ result.kind = "ok"
          /\ host' = "actions" /\ actions' = result.actions
          /\ returned' = result.actions /\ attempted' = <<>>
          /\ UNCHANGED failure_actions
       \/ result.kind = "err" /\ Stop

\* One action of the event: it succeeds, or it fails and the failure event is
\* handled before the next one.
ActionSucceeded ==
    /\ host = "actions" /\ actions # <<>>
    /\ actions' = Tail(actions) /\ attempted' = Append(attempted, Head(actions))
    /\ UNCHANGED <<vars, host, inbox, failure_actions, returned, delivered, late>>

\* Mutated form: the first failing action ends the batch.
ActionFailedEndsBatch ==
    /\ host = "actions" /\ actions # <<>>
    /\ actions' = <<>> /\ attempted' = Append(attempted, Head(actions))
    /\ Handle(FailureEvent)
    /\ Await("handling_failure")
    /\ UNCHANGED <<failure_actions, returned, delivered, late>>

ActionFailed ==
    /\ host = "actions" /\ actions # <<>>
    /\ actions' = Tail(actions) /\ attempted' = Append(attempted, Head(actions))
    /\ Handle(FailureEvent)
    /\ Await("handling_failure")
    /\ UNCHANGED <<failure_actions, returned, delivered, late>>

\* Mutated form: the timeout is polled once, before the loop.
ActionsDoneNoPoll ==
    /\ host = "actions" /\ actions = <<>>
    /\ host' = "receive"
    /\ UNCHANGED <<vars, inbox, local, delivered, late>>

ActionsDone ==
    /\ host = "actions" /\ actions = <<>>
    /\ host' = "poll"
    /\ UNCHANGED <<vars, inbox, local, delivered, late>>

FailureReturns ==
    /\ Returned("handling_failure")
    /\ \/ /\ result.kind = "ok"
          /\ host' = "failure_actions" /\ failure_actions' = result.actions
          /\ UNCHANGED <<actions, returned, attempted>>
       \/ result.kind = "err" /\ Stop

FailureAction ==
    /\ host = "failure_actions"
    /\ UNCHANGED <<vars, inbox, delivered, late>>
    /\ \/ /\ failure_actions # <<>> /\ failure_actions' = Tail(failure_actions)
          /\ UNCHANGED <<host, actions, returned, attempted>>
       \/ failure_actions # <<>> /\ Stop
       \/ failure_actions = <<>> /\ host' = "actions" /\ UNCHANGED local

\* The machine goes on with the call the loop awaits.  A deadline out of range
\* panics, which ends the loop's task.
MachineStep ==
    /\ \/ \E s \in State : HandlerReturns(s)
       \/ ExitHookReturns
       \/ EntryHookReturns
       \/ UnhandledHookReturns
       \/ Abort("err")
    /\ IF result'.kind = "dropped" THEN host' = "stopped" ELSE UNCHANGED host
    /\ late' = IF state_timeout' # state_timeout THEN 0 ELSE late
    /\ UNCHANGED <<inbox, local, delivered>>

\* Outside the loop: an event arrives, and time passes.
Deliver(e) ==
    /\ delivered < MaxEvents /\ Len(inbox) < MaxInbox
    /\ inbox' = Append(inbox, e) /\ delivered' = delivered + 1
    /\ UNCHANGED <<vars, host, local, late>>

Clock == Tick /\ UNCHANGED <<host, inbox, local, delivered, late>>

HostStep ==
    \/ Poll \/ PollReturns \/ TimeoutAction
    \/ Receive \/ HandleReturns
    \/ ActionSucceeded \/ ActionFailed \/ ActionsDone
    \/ FailureReturns \/ FailureAction
    \/ MachineStep

HNext == HostStep \/ (\E e \in Event : Deliver(e)) \/ Clock

HSpec == HInit /\ [][HNext]_hvars

\* The runtime keeps running the loop's task, and every handler and action the
\* loop awaits returns.  Nothing is assumed of the outside or of the clock.
FairHSpec == HSpec /\ WF_hvars(HostStep)
-----------------------------------------------------------------------------
\* The loop never goes on with a machine whose last entry was interrupted:
\* every way to interrupt it ends the loop, so whenever the loop itself runs, the
\* timer is the current state's.
LoopKeepsTimer ==
    host \in {"poll", "timeout_actions", "receive", "actions", "failure_actions"} =>
        pc = "idle" /\ TimerIsForState

\* Events cannot push an elapsed timeout aside for long: while one deadline
\* stays elapsed, at most one event of the inbox is handled before the loop
\* serves it.
OneEventBeforeElapsedTimeout == late <= 1

\* A failing action costs no other action: while a batch is worked off, through
\* every failure event handled in between, the actions attempted and the ones
\* still to run are the ones handle returned, in that order.
NoActionSkipped ==
    host \in {"actions", "handling_failure", "failure_actions"} =>
        attempted \o actions = returned

\* Whatever the handlers and actions do, an event that waits is received, or
\* the loop has ended.
EventIsReceived == \A n \in 1..MaxEvents :
    delivered >= n ~> (delivered - Len(inbox) >= n \/ host = "stopped")

\* The whole duration has passed: from the deadline's own instant on, a zero
\* duration included, whatever comparison check_timeout makes.
Elapsed == state_timeout # None /\ now >= state_timeout

\* A timeout that elapses while the loop waits for an event is served once one
\* more event has come, even if no more time passes: its handler runs, or that
\* event moved the machine on.
ElapsedTimeoutIsServed ==
    (host = "receive" /\ Elapsed /\ inbox # <<>>)
        ~> (pc = "timeout" \/ ~Elapsed \/ host = "stopped")
=============================================================================
