----------------------------- MODULE HostProofs -----------------------------
(***************************************************************************)
(* The hosts of the engine.                                                *)
(*                                                                         *)
(* The supervisor loop runs the engine, so what is proved of the engine    *)
(* holds inside the loop; and what the loop adds, for every number of      *)
(* events and every configuration: the timer it polls is the state's, no   *)
(* action of a batch is lost, and events do not push a timeout aside.      *)
(*                                                                         *)
(* Recovery for every configuration, all deterministic handlers and any    *)
(* number of events and crashes.  A timeout survives the death of its      *)
(* machine: the machine that is rebuilt in the state last recorded has a   *)
(* deadline iff that one had, and no earlier one.  And the log explains    *)
(* the state, whichever way the machine was recovered.                     *)
(***************************************************************************)
EXTENDS HostLoop, Recovery, StateMachineProofs, RunsProofs

(***************************************************************************)
(* The supervisor loop.                                                    *)
(***************************************************************************)
InboxType == inbox \in Seq(Event)

LEMMA Inbox == HSpec => []InboxType
<1>1. HInit => InboxType
  BY DEF HInit, InboxType
<1>2. InboxType /\ [HNext]_hvars => InboxType'
  <2> SUFFICES ASSUME InboxType, [HNext]_hvars PROVE InboxType'
    OBVIOUS
  <2>1. CASE UNCHANGED inbox
    BY <2>1 DEF InboxType
  <2>2. CASE Receive
    BY <2>2 DEF Receive, InboxType
  <2>3. ASSUME NEW e \in Event, Deliver(e) PROVE InboxType'
    BY <2>3 DEF Deliver, InboxType
  <2>4. HostStep => Receive \/ UNCHANGED inbox
    BY DEF HostStep, Poll, PollReturns, TimeoutAction, HandleReturns, ActionSucceeded, ActionFailed,
       ActionsDone, FailureReturns, FailureAction, MachineStep, Await, Returned
  <2>5. Clock => UNCHANGED inbox
    BY DEF Clock
  <2>6. UNCHANGED hvars => UNCHANGED inbox
    BY DEF hvars
  <2> QED
    BY <2>1, <2>2, <2>3, <2>4, <2>5, <2>6 DEF HNext
<1> QED
  BY <1>1, <1>2, PTL DEF HSpec

\* The steps of the loop that leave the engine alone: its own, and a delivery.
LoopOnly ==
    \/ PollReturns \/ TimeoutAction \/ HandleReturns \/ ActionSucceeded \/ ActionsDone
    \/ FailureReturns \/ FailureAction
    \/ \E e \in Event : Deliver(e)
    \/ UNCHANGED hvars

LEMMA LoopOnlyStutters == LoopOnly => UNCHANGED vars
  BY DEF LoopOnly, PollReturns, TimeoutAction, HandleReturns, ActionSucceeded, ActionsDone,
     FailureReturns, FailureAction, Deliver, Returned, hvars

\* Every step is one of the loop alone or calls, advances or ages the engine.
LEMMA StepKinds ==
    [HNext]_hvars <=> LoopOnly \/ Poll \/ Receive \/ ActionFailed \/ MachineStep \/ Clock
  BY DEF HNext, HostStep, LoopOnly

\* A step of the loop is a step of the engine, or leaves it alone.
LEMMA LoopStep == InboxType /\ [HNext]_hvars => [Next]_vars
<1> SUFFICES ASSUME InboxType, [HNext]_hvars PROVE [Next]_vars
  OBVIOUS
<1>1. CASE LoopOnly
  BY <1>1, LoopOnlyStutters
<1>2. CASE Poll
  BY <1>2 DEF Poll, Next
<1>3. CASE Receive
  <2>1. Handle(Head(inbox)) /\ Head(inbox) \in Event
    BY <1>3 DEF Receive, InboxType
  <2> QED
    BY <2>1 DEF Next
<1>4. CASE ActionFailed
  BY <1>4, HostAssumption DEF ActionFailed, Next
<1>5. CASE MachineStep
  BY <1>5 DEF MachineStep, Next
<1>6. CASE Clock
  BY <1>6 DEF Clock, Next
<1> QED
  BY <1>1, <1>2, <1>3, <1>4, <1>5, <1>6, StepKinds

\* Inside the loop the engine behaves as its own specification says: what is
\* proved of it with any host holds with this one (lib.rs:235-257).
THEOREM EngineInLoop == HSpec => Spec
<1>1. HInit => Init
  BY DEF HInit
<1> QED
  BY <1>1, Inbox, LoopStep, PTL DEF HSpec, Spec

LEMMA EngineFacts == HSpec => [](TypeOK /\ IInv)
  BY EngineInLoop, TypeCorrect, InductiveInvariant, PTL
-----------------------------------------------------------------------------
(***************************************************************************)
(* Where the loop stands tells what the machine may look like: half        *)
(* entered only while an entry hook is awaited, or after a call that did   *)
(* not return Ok and whose result the loop has not looked at yet.          *)
(***************************************************************************)
LoopInv ==
    /\ host \in {"poll", "timeout_actions", "receive", "actions", "failure_actions"} =>
          pc = "idle" /\ ~half_entered
    /\ host \in {"polling", "handling", "handling_failure"} =>
          (half_entered => pc = "entry" \/ (pc = "idle" /\ result.kind # "ok"))

\* What a step of the engine leaves behind.
LEMMA MachineStepEnters ==
    ASSUME MachineStep, half_entered => pc = "entry"
    PROVE  /\ pc # "idle"
           /\ half_entered' => pc' = "entry" \/ (pc' = "idle" /\ result'.kind # "ok")
<1>1. Progress
  BY DEF MachineStep, Progress
<1> QED
  BY <1>1, ProgressEnters

LEMMA NextLoop == LoopInv /\ [HNext]_hvars => LoopInv'
<1> SUFFICES ASSUME LoopInv, [HNext]_hvars PROVE LoopInv'
  OBVIOUS
<1> USE DEF LoopInv
<1>1. CASE Poll
  BY <1>1, PollBegins DEF Poll, Await, machine
<1>2. CASE Receive
  <2>1. UNCHANGED machine
    BY <1>2 DEF Receive, Handle, Begin, Immediate
  <2> QED
    BY <1>2, <2>1 DEF Receive, machine
<1>3. CASE ActionFailed
  BY <1>3, HandleBegins, HostAssumption DEF ActionFailed, Await, machine
<1>4. CASE MachineStep
  <2>1. pc # "idle"
    BY <1>4 DEF MachineStep, HandlerReturns, ExitHookReturns, EntryHookReturns, UnhandledHookReturns, Abort
  <2>2. host' = host \/ host' = "stopped"
    BY <1>4 DEF MachineStep
  <2>3. CASE host \in {"polling", "handling", "handling_failure"}
    BY <1>4, <2>1, <2>2, <2>3, MachineStepEnters
  <2> QED
    BY <2>1, <2>2, <2>3
<1>5. CASE Clock
  BY <1>5 DEF Clock, Tick, machine
<1>6. CASE PollReturns \/ HandleReturns \/ FailureReturns
  BY <1>6 DEF PollReturns, HandleReturns, FailureReturns, Returned, Stop, vars, machine
<1>7. CASE TimeoutAction \/ FailureAction \/ ActionSucceeded \/ ActionsDone
  BY <1>7 DEF TimeoutAction, FailureAction, ActionSucceeded, ActionsDone, Stop, vars, machine
<1>8. ASSUME NEW e \in Event, Deliver(e) PROVE LoopInv'
  BY <1>8 DEF Deliver, vars, machine
<1>9. CASE UNCHANGED hvars
  BY <1>9 DEF hvars, vars, machine
<1> QED
  BY <1>1, <1>2, <1>3, <1>4, <1>5, <1>6, <1>7, <1>8, <1>9, StepKinds DEF LoopOnly

LEMMA LoopInvariant == HSpec => []LoopInv
<1>1. HInit => LoopInv
  BY DEF HInit, Init, LoopInv
<1> QED
  BY <1>1, NextLoop, PTL DEF HSpec

\* Whenever the loop itself runs, its machine is idle, entered completely, and
\* under the timer of its state: ? and a panic both end the loop (lib.rs:243-257).
THEOREM LoopTimer == HSpec => []LoopKeepsTimer
<1>1. IInv /\ LoopInv => LoopKeepsTimer
  BY DEF IInv, TimerFollowsState, LoopInv, LoopKeepsTimer
<1> QED
  BY <1>1, EngineFacts, LoopInvariant, PTL
-----------------------------------------------------------------------------
(***************************************************************************)
(* The batch: what was attempted and what is left make up what handle      *)
(* returned.                                                               *)
(***************************************************************************)
BatchInv ==
    /\ actions \in Seq(Action) /\ attempted \in Seq(Action) /\ returned \in Seq(Action)
    /\ NoActionSkipped

LEMMA NextBatch == TypeOK /\ BatchInv /\ [HNext]_hvars => BatchInv'
<1> SUFFICES ASSUME TypeOK, BatchInv, [HNext]_hvars PROVE BatchInv'
  OBVIOUS
<1> USE DEF BatchInv, NoActionSkipped
<1>1. CASE ActionSucceeded \/ ActionFailed
  <2>1. /\ host = "actions" /\ actions # <<>> /\ actions' = Tail(actions)
        /\ attempted' = Append(attempted, Head(actions)) /\ returned' = returned
    BY <1>1 DEF ActionSucceeded, ActionFailed
  <2>2. attempted' \o actions' = attempted \o actions
    BY <2>1, MoveHead
  <2>3. actions' \in Seq(Action) /\ attempted' \in Seq(Action)
    BY <2>1
  <2> QED
    BY <2>1, <2>2, <2>3
<1>2. CASE HandleReturns
  <2>1. result.actions \in Seq(Action) /\ <<>> \in Seq(Action)
    BY DEF TypeOK
  <2>2. <<>> \o result.actions = result.actions
    BY <2>1
  <2> QED
    BY <1>2, <2>1, <2>2 DEF HandleReturns, Stop, local
<1>3. CASE PollReturns
  BY <1>3 DEF PollReturns, Stop, local, TypeOK
<1>4. CASE TimeoutAction
  <2>1. host' \in {"timeout_actions", "stopped", "receive"}
    BY <1>4 DEF TimeoutAction, Stop
  <2>2. actions # <<>> => Tail(actions) \in Seq(Action)
    OBVIOUS
  <2>3. actions' \in Seq(Action) /\ UNCHANGED <<returned, attempted>>
    BY <1>4, <2>2 DEF TimeoutAction, Stop, local
  <2> QED
    BY <2>1, <2>3
<1>5. CASE FailureReturns \/ FailureAction \/ ActionsDone
  BY <1>5 DEF FailureReturns, Returned, FailureAction, ActionsDone, Stop, local
<1>6. CASE Poll \/ Receive \/ MachineStep
  BY <1>6 DEF Poll, Receive, MachineStep, Await, local
<1>7. CASE Clock \/ (\E e \in Event : Deliver(e)) \/ UNCHANGED hvars
  BY <1>7 DEF Clock, Deliver, hvars, local
<1> QED
  BY <1>1, <1>2, <1>3, <1>4, <1>5, <1>6, <1>7, StepKinds DEF LoopOnly

\* No failing action costs another one: whatever is handled between the actions
\* of a batch, all of them are attempted, in order (lib.rs:245-256).
THEOREM BatchComplete == HSpec => []NoActionSkipped
<1>1. HInit => BatchInv
  BY DEF HInit, BatchInv, NoActionSkipped
<1>2. BatchInv => NoActionSkipped
  BY DEF BatchInv
<1> QED
  BY <1>1, <1>2, NextBatch, EngineFacts, PTL DEF HSpec
-----------------------------------------------------------------------------
(***************************************************************************)
(* Elapsed deadlines: once an event has been handled over an elapsed       *)
(* deadline, the deadline stays elapsed or is replaced, and the next poll  *)
(* finds the timeout handler, since the timer is the state's.              *)
(***************************************************************************)
LateInv ==
    /\ late \in {0, 1}
    /\ late = 1 => Due
    /\ host \in {"polling", "timeout_actions", "receive"} => late = 0

\* A deadline that has elapsed stays elapsed as long as it stands.
LEMMA DueStays ==
    ASSUME TypeOK, Due, UNCHANGED state_timeout, now' \in Nat, now <= now'
    PROVE  Due'
  BY TimeAssumption, NoneAssumption DEF TypeOK, Due

LEMMA NextLate == TypeOK /\ IInv /\ LoopInv /\ LateInv /\ [HNext]_hvars => LateInv'
<1> SUFFICES ASSUME TypeOK, IInv, LoopInv, LateInv, [HNext]_hvars PROVE LateInv'
  OBVIOUS
<1>1. now \in Nat
  BY TimeAssumption DEF TypeOK
<1>2. CASE Poll
  <2>1. host = "poll" /\ CheckTimeout /\ host' = "polling" /\ UNCHANGED <<state_timeout, now>>
    BY <1>2 DEF Poll, Await, CheckTimeout, Begin, Immediate, machine
  <2>2. Due => HasTimeout(name)
    BY <2>1 DEF LoopInv, IInv, TimerFollowsState, TimerIsForState, Due
  <2>3. Due => pc' = "timeout"
    BY <2>1, <2>2 DEF CheckTimeout, Begin
  <2>4. late' = 0
    BY <1>2, <2>3 DEF Poll, LateInv
  <2> QED
    BY <2>4 DEF LateInv
<1>3. CASE Receive
  <2>1. host = "receive" /\ host' = "handling" /\ late' = IF Due THEN late + 1 ELSE late
    BY <1>3 DEF Receive
  <2>2. UNCHANGED <<state_timeout, now>>
    BY <1>3 DEF Receive, Handle, Begin, Immediate, machine
  <2>3. Due' <=> Due
    BY <2>2 DEF Due
  <2> QED
    BY <2>1, <2>3 DEF LateInv
<1>4. CASE ActionFailed
  <2>1. UNCHANGED <<state_timeout, now, late>> /\ host' = "handling_failure"
    BY <1>4, HandleBegins, HostAssumption DEF ActionFailed, Await, machine
  <2> QED
    BY <2>1 DEF LateInv, Due
<1>5. CASE MachineStep
  <2>1. UNCHANGED now
    BY <1>5 DEF MachineStep, HandlerReturns, ExitHookReturns, EntryHookReturns, UnhandledHookReturns,
       Abort, SwitchState, ArmAndReturn, Return
  <2>2. late' = IF state_timeout' # state_timeout THEN 0 ELSE late
    BY <1>5 DEF MachineStep
  <2>3. host' = host \/ host' = "stopped"
    BY <1>5 DEF MachineStep
  <2> QED
    BY <2>1, <2>2, <2>3 DEF LateInv, Due
<1>6. CASE Clock
  <2>1. /\ UNCHANGED <<state_timeout, host, late>> /\ now' = now + 1
    BY <1>6 DEF Clock, Tick, machine
  <2>2. Due => Due'
    BY <1>1, <2>1, DueStays
  <2> QED
    BY <2>1, <2>2 DEF LateInv
<1>7. CASE LoopOnly
  <2>1. UNCHANGED <<state_timeout, now>>
    BY <1>7, LoopOnlyStutters DEF vars, machine
  <2>2. Due' <=> Due
    BY <2>1 DEF Due
  <2>3. CASE PollReturns
    BY <2>2, <2>3 DEF PollReturns, Returned, Stop, LateInv
  <2>4. CASE TimeoutAction
    BY <2>2, <2>4 DEF TimeoutAction, Stop, LateInv
  <2>5. CASE HandleReturns \/ FailureReturns
    BY <2>2, <2>5 DEF HandleReturns, FailureReturns, Returned, Stop, LateInv
  <2>6. CASE ActionSucceeded \/ ActionsDone \/ FailureAction
    BY <2>2, <2>6 DEF ActionSucceeded, ActionsDone, FailureAction, Stop, LateInv
  <2>7. CASE (\E e \in Event : Deliver(e)) \/ UNCHANGED hvars
    BY <2>2, <2>7 DEF Deliver, hvars, LateInv
  <2> QED
    BY <1>7, <2>3, <2>4, <2>5, <2>6, <2>7 DEF LoopOnly
<1> QED
  BY <1>2, <1>3, <1>4, <1>5, <1>6, <1>7, StepKinds

\* While one deadline stays elapsed at most one event is handled before the loop
\* serves it, although handle never looks at the timer (machine.rs:129-137).
THEOREM TimeoutNotStarved == HSpec => []OneEventBeforeElapsedTimeout
<1>1. HInit => LateInv
  BY DEF HInit, Init, LateInv
<1>2. LateInv => OneEventBeforeElapsedTimeout
  BY DEF LateInv, OneEventBeforeElapsedTimeout
<1> QED
  BY <1>1, <1>2, NextLate, EngineFacts, LoopInvariant, PTL DEF HSpec
-----------------------------------------------------------------------------
(***************************************************************************)
(* That events are received.  Fairness is beyond the prover; what it has   *)
(* to be told is that the loop can go on unless it waits for an event, and *)
(* that it cannot go on for ever without receiving one.                    *)
(***************************************************************************)
Awaits == host \in {"polling", "handling", "handling_failure"}

\* The guards of the loop's steps: it can go on.
LoopCanGo ==
    \/ host = "poll" /\ pc = "idle"
    \/ host = "receive" /\ pc = "idle" /\ inbox # <<>>
    \/ Awaits /\ (pc # "idle" \/ result.kind \in {"ok", "err"})
    \/ host \in {"timeout_actions", "actions", "failure_actions"}

\* The loop waits for nothing but an event.
LoopNotStuck == LoopCanGo \/ host = "stopped" \/ (host = "receive" /\ inbox = <<>>)

\* What is left to do until an event is received: stations of the loop, actions of
\* the batch, stations of a failure event, awaits of a call, and actions of the
\* failure event; what comes first counts for more than all that follow.
StationsLeft == [stopped |-> 0, receive |-> 1, timeout_actions |-> 2, polling |-> 3, poll |-> 4,
                 actions |-> 5, failure_actions |-> 5, handling_failure |-> 5, handling |-> 6]
FailureLeft == [actions |-> 0, failure_actions |-> 1, handling_failure |-> 2]
AwaitsLeft == [idle |-> 0, entry |-> 1, unhandled |-> 1, executing |-> 1, exit |-> 2, transition |-> 3,
               timeout |-> 3]

FailuresLeft == IF host \in DOMAIN FailureLeft THEN FailureLeft[host] ELSE 0
LoopLeft == <<StationsLeft[host], Len(actions), FailuresLeft, AwaitsLeft[pc], Len(failure_actions)>>

\* The first of two lists of five numbers is the lesser one.
Lesser(a, b) == \E i \in 1..5 : a[i] < b[i] /\ \A j \in 1..5 : j < i => a[j] = b[j]
FiveNumbers == Nat \X Nat \X Nat \X Nat \X Nat

LeadsOn ==
    /\ LoopLeft \in FiveNumbers /\ LoopLeft' \in FiveNumbers
    /\ HostStep => Receive \/ Lesser(LoopLeft', LoopLeft)
    /\ Clock \/ (\E e \in Event : Deliver(e)) => LoopLeft' = LoopLeft
EventComesUp == [][LeadsOn]_hvars

WaitInv ==
    /\ host \in DOMAIN StationsLeft
    /\ failure_actions \in Seq(Action)
    /\ Awaits /\ pc = "idle" => result.kind \in {"ok", "err"}

LEMMA NextWait == TypeOK /\ WaitInv /\ [HNext]_hvars => WaitInv'
<1> SUFFICES ASSUME TypeOK, WaitInv, [HNext]_hvars PROVE WaitInv'
  OBVIOUS
<1> USE DEF WaitInv, Awaits
<1>h. DOMAIN StationsLeft = {"stopped", "receive", "timeout_actions", "polling", "poll", "actions", "failure_actions",
                             "handling_failure", "handling"}
  BY DEF StationsLeft
<1>1. CASE Poll
  BY <1>1, <1>h DEF Poll, Await, local, CheckTimeout, Begin, Immediate, Result
<1>2. ASSUME NEW e, Handle(e), host' \in {"handling", "handling_failure"}, UNCHANGED failure_actions PROVE WaitInv'
  BY <1>2, <1>h DEF Handle, Begin, Immediate, Result
<1>3. CASE Receive \/ ActionFailed
  BY <1>2, <1>3 DEF Receive, ActionFailed, Await, local
<1>4. CASE MachineStep
  <2>1. /\ host' = host \/ host' = "stopped"
        /\ result'.kind = "dropped" => host' = "stopped"
        /\ UNCHANGED failure_actions
    BY <1>4 DEF MachineStep, local
  <2>2. pc' = "idle" => result'.kind \in {"ok", "err", "dropped"}
    <3>1. CASE \E s \in State : HandlerReturns(s)
      BY <3>1 DEF HandlerReturns, SwitchState, ArmAndReturn, Return, Result
    <3>2. CASE ExitHookReturns
      BY <3>2 DEF ExitHookReturns, SwitchState, ArmAndReturn, Return, Result
    <3>3. CASE EntryHookReturns \/ UnhandledHookReturns \/ Abort("err")
      BY <3>3 DEF EntryHookReturns, UnhandledHookReturns, Abort, ArmAndReturn, Return, Result
    <3> QED
      BY <1>4, <3>1, <3>2, <3>3 DEF MachineStep
  <2> QED
    BY <1>h, <2>1, <2>2
<1>5. CASE PollReturns \/ TimeoutAction \/ HandleReturns \/ ActionSucceeded \/ ActionsDone
  <2>1. UNCHANGED failure_actions
    BY <1>5 DEF PollReturns, TimeoutAction, HandleReturns, ActionSucceeded, ActionsDone, Stop, local
  <2>2. host' \in {"timeout_actions", "receive", "actions", "poll", "stopped"}
    BY <1>5 DEF PollReturns, TimeoutAction, HandleReturns, ActionSucceeded, ActionsDone, Stop
  <2> QED
    BY <1>h, <2>1, <2>2
<1>6. CASE FailureReturns \/ FailureAction
  <2>1. host' \in {"failure_actions", "actions", "stopped"}
    BY <1>6 DEF FailureReturns, FailureAction, Stop
  <2>2. \/ failure_actions' = failure_actions
        \/ failure_actions' = result.actions
        \/ failure_actions # <<>> /\ failure_actions' = Tail(failure_actions)
    BY <1>6 DEF FailureReturns, FailureAction, Stop, local
  <2>3. failure_actions' \in Seq(Action)
    <3>1. result.actions \in Seq(Action)
      BY DEF TypeOK
    <3> QED
      BY <2>2, <3>1
  <2> QED
    BY <1>h, <2>1, <2>3
<1>7. CASE (\E e \in Event : Deliver(e)) \/ UNCHANGED hvars
  BY <1>7, <1>h DEF Deliver, hvars, local, vars
<1>8. CASE Clock
  BY <1>8, <1>h DEF Clock, Tick, local
<1> QED
  BY <1>1, <1>3, <1>4, <1>5, <1>6, <1>7, <1>8, StepKinds DEF LoopOnly

LEMMA LoopFacts == HSpec => [](TypeOK /\ LoopInv /\ BatchInv /\ WaitInv)
<1>1. HInit => BatchInv
  BY DEF HInit, BatchInv, NoActionSkipped
<1>2. HInit => WaitInv
  BY DEF HInit, WaitInv, Awaits, StationsLeft
<1> QED
  BY <1>1, <1>2, NextBatch, NextWait, EngineFacts, LoopInvariant, PTL DEF HSpec

\* Whatever handlers and actions do, the loop waits for nothing but an event until it
\* ends: every call it awaits can return, and its result is one the loop looks at
\* (lib.rs:235-257).
THEOREM LoopNeverStuck == HSpec => []LoopNotStuck
<1>1. LoopInv /\ WaitInv => LoopNotStuck
  BY DEF LoopInv, WaitInv, LoopNotStuck, LoopCanGo, Awaits, StationsLeft
<1> QED
  BY <1>1, LoopFacts, PTL

LEMMA LeftIsNumbers ==
    ASSUME TypeOK, BatchInv, WaitInv
    PROVE  LoopLeft \in FiveNumbers
<1>1. StationsLeft[host] \in Nat
  BY DEF WaitInv, StationsLeft
<1>2. AwaitsLeft[pc] \in Nat
  BY DEF TypeOK, Stages, AwaitsLeft
<1>3. FailuresLeft \in Nat
  BY DEF FailuresLeft, FailureLeft
<1>4. Len(actions) \in Nat /\ Len(failure_actions) \in Nat
  BY DEF BatchInv, WaitInv
<1> QED
  BY <1>1, <1>2, <1>3, <1>4 DEF LoopLeft, FiveNumbers

LEMMA LeftIsNumbersNext ==
    ASSUME TypeOK', BatchInv', WaitInv'
    PROVE  LoopLeft' \in FiveNumbers
<1>1. StationsLeft[host'] \in Nat
  BY DEF WaitInv, StationsLeft
<1>2. AwaitsLeft[pc'] \in Nat
  BY DEF TypeOK, Stages, AwaitsLeft
<1>3. FailuresLeft' \in Nat
  BY DEF FailuresLeft, FailureLeft
<1>4. Len(actions') \in Nat /\ Len(failure_actions') \in Nat
  BY DEF BatchInv, WaitInv
<1>5. LoopLeft' = <<StationsLeft[host'], Len(actions'), FailuresLeft', AwaitsLeft[pc'], Len(failure_actions')>>
  BY DEF LoopLeft, StationsLeft, AwaitsLeft
<1> QED
  BY <1>1, <1>2, <1>3, <1>4, <1>5 DEF FiveNumbers

\* The first number that differs decides.
LEMMA Lexical ==
    ASSUME NEW a \in FiveNumbers, NEW b \in FiveNumbers,
           \/ a[1] < b[1]
           \/ a[1] = b[1] /\ a[2] < b[2]
           \/ a[1] = b[1] /\ a[2] = b[2] /\ a[3] < b[3]
           \/ a[1] = b[1] /\ a[2] = b[2] /\ a[3] = b[3] /\ a[4] < b[4]
           \/ a[1] = b[1] /\ a[2] = b[2] /\ a[3] = b[3] /\ a[4] = b[4] /\ a[5] < b[5]
    PROVE  Lesser(a, b)
<1>1. CASE a[1] < b[1]
  BY <1>1 DEF Lesser
<1>2. CASE a[1] = b[1] /\ a[2] < b[2]
  BY <1>2 DEF Lesser
<1>3. CASE a[1] = b[1] /\ a[2] = b[2] /\ a[3] < b[3]
  BY <1>3 DEF Lesser
<1>4. CASE a[1] = b[1] /\ a[2] = b[2] /\ a[3] = b[3] /\ a[4] < b[4]
  BY <1>4 DEF Lesser
<1>5. CASE a[1] = b[1] /\ a[2] = b[2] /\ a[3] = b[3] /\ a[4] = b[4] /\ a[5] < b[5]
  BY <1>5 DEF Lesser
<1> QED
  BY <1>1, <1>2, <1>3, <1>4, <1>5

LEMMA ShorterTail == \A q \in Seq(Action) : q # <<>> => Len(Tail(q)) < Len(q)
  OBVIOUS

\* A step of the loop leads to a lesser rest.
LEMMA StepLeads ==
    ASSUME TypeOK, LoopInv, BatchInv, WaitInv, LoopLeft \in FiveNumbers, LoopLeft' \in FiveNumbers,
           \/ StationsLeft[host'] < StationsLeft[host]
           \/ StationsLeft[host'] = StationsLeft[host] /\ Len(actions') < Len(actions)
           \/ /\ StationsLeft[host'] = StationsLeft[host] /\ Len(actions') = Len(actions)
              /\ FailuresLeft' < FailuresLeft
           \/ /\ UNCHANGED <<host, actions>>
              /\ AwaitsLeft[pc'] < AwaitsLeft[pc]
           \/ /\ UNCHANGED <<host, actions, pc>>
              /\ Len(failure_actions') < Len(failure_actions)
    PROVE  Lesser(LoopLeft', LoopLeft)
<1>1. /\ LoopLeft[1] = StationsLeft[host] /\ LoopLeft[2] = Len(actions) /\ LoopLeft[3] = FailuresLeft
      /\ LoopLeft[4] = AwaitsLeft[pc] /\ LoopLeft[5] = Len(failure_actions)
  BY DEF LoopLeft
<1>2. /\ LoopLeft'[1] = StationsLeft[host'] /\ LoopLeft'[2] = Len(actions') /\ LoopLeft'[3] = FailuresLeft'
      /\ LoopLeft'[4] = AwaitsLeft[pc'] /\ LoopLeft'[5] = Len(failure_actions')
  BY DEF LoopLeft, StationsLeft, AwaitsLeft
<1>3. host' = host => FailuresLeft' = FailuresLeft
  BY DEF FailuresLeft, FailureLeft
<1> DEFINE a == LoopLeft   b == LoopLeft'
<1>4. \/ b[1] < a[1]
      \/ b[1] = a[1] /\ b[2] < a[2]
      \/ b[1] = a[1] /\ b[2] = a[2] /\ b[3] < a[3]
      \/ b[1] = a[1] /\ b[2] = a[2] /\ b[3] = a[3] /\ b[4] < a[4]
      \/ b[1] = a[1] /\ b[2] = a[2] /\ b[3] = a[3] /\ b[4] = a[4] /\ b[5] < a[5]
  BY <1>1, <1>2, <1>3
<1>5. a \in FiveNumbers /\ b \in FiveNumbers
  OBVIOUS
<1> HIDE DEF a, b
<1>6. Lesser(b, a)
  BY <1>4, <1>5, Lexical
<1> QED
  BY <1>6 DEF a, b

\* A step of the loop receives an event, or leads to a lesser rest.
LEMMA HostStepLeads ==
    ASSUME TypeOK, LoopInv, BatchInv, WaitInv, TypeOK', BatchInv', WaitInv', HostStep
    PROVE  Receive \/ Lesser(LoopLeft', LoopLeft)
<1>0. LoopLeft \in FiveNumbers /\ LoopLeft' \in FiveNumbers
  BY LeftIsNumbers, LeftIsNumbersNext
<1>s. /\ StationsLeft["stopped"] = 0 /\ StationsLeft["receive"] = 1 /\ StationsLeft["timeout_actions"] = 2
      /\ StationsLeft["polling"] = 3 /\ StationsLeft["poll"] = 4 /\ StationsLeft["actions"] = 5
      /\ StationsLeft["failure_actions"] = 5 /\ StationsLeft["handling_failure"] = 5
      /\ StationsLeft["handling"] = 6
  BY DEF StationsLeft
<1>2. CASE Poll \/ PollReturns \/ HandleReturns \/ ActionsDone
  <2>1. StationsLeft[host'] < StationsLeft[host]
    BY <1>2, <1>s DEF Poll, Await, PollReturns, HandleReturns, ActionsDone, Returned, Stop
  <2> QED
    BY <1>0, <2>1, StepLeads
<1>3. CASE TimeoutAction
  <2>1. /\ host = "timeout_actions"
        /\ \/ actions # <<>> /\ actions' = Tail(actions) /\ host' = host
           \/ host' \in {"stopped", "receive"}
    BY <1>3 DEF TimeoutAction, Stop
  <2>2. CASE actions # <<>> /\ actions' = Tail(actions) /\ host' = host
    <3>1. Len(actions') < Len(actions)
      BY <2>2, ShorterTail DEF BatchInv
    <3> QED
      BY <1>0, <2>2, <3>1, StepLeads
  <2>3. CASE host' \in {"stopped", "receive"}
    <3>1. StationsLeft[host'] < StationsLeft[host]
      BY <1>s, <2>1, <2>3
    <3> QED
      BY <1>0, <3>1, StepLeads
  <2> QED
    BY <2>1, <2>2, <2>3
<1>4. CASE ActionSucceeded \/ ActionFailed
  <2>1. actions # <<>> /\ actions' = Tail(actions) /\ StationsLeft[host'] = StationsLeft[host]
    BY <1>4, <1>s DEF ActionSucceeded, ActionFailed, Await
  <2>2. Len(actions') < Len(actions)
    BY <2>1, ShorterTail DEF BatchInv
  <2> QED
    BY <1>0, <2>1, <2>2, StepLeads
<1>5. CASE FailureReturns \/ FailureAction
  <2>1. \/ host' = "stopped" /\ host \in {"handling_failure", "failure_actions"}
        \/ host = "handling_failure" /\ host' = "failure_actions" /\ actions' = actions
        \/ host = "failure_actions" /\ host' = "actions" /\ actions' = actions
        \/ /\ failure_actions # <<>> /\ failure_actions' = Tail(failure_actions)
           /\ UNCHANGED <<host, actions, pc>>
    BY <1>5 DEF FailureReturns, FailureAction, Returned, Stop, local, vars
  <2>2. CASE host' = "stopped" /\ host \in {"handling_failure", "failure_actions"}
    <3>1. StationsLeft[host'] < StationsLeft[host]
      BY <1>s, <2>2
    <3> QED
      BY <1>0, <3>1, StepLeads
  <2>3. CASE \/ host = "handling_failure" /\ host' = "failure_actions" /\ actions' = actions
             \/ host = "failure_actions" /\ host' = "actions" /\ actions' = actions
    <3>1. StationsLeft[host'] = StationsLeft[host] /\ Len(actions') = Len(actions)
      BY <1>s, <2>3
    <3>2. FailuresLeft' < FailuresLeft
      BY <2>3 DEF FailuresLeft, FailureLeft
    <3> QED
      BY <1>0, <3>1, <3>2, StepLeads
  <2>4. CASE /\ failure_actions # <<>> /\ failure_actions' = Tail(failure_actions)
             /\ UNCHANGED <<host, actions, pc>>
    <3>1. Len(failure_actions') < Len(failure_actions)
      BY <2>4, ShorterTail DEF WaitInv
    <3> QED
      BY <1>0, <2>4, <3>1, StepLeads
  <2> QED
    BY <2>1, <2>2, <2>3, <2>4
<1>6. CASE MachineStep
  <2>1. (host' = host \/ host' = "stopped") /\ actions' = actions
    BY <1>6 DEF MachineStep, local
  <2>2. CASE host' = host
    <3>1. \/ pc \in {"transition", "timeout"} /\ pc' \in {"exit", "entry", "idle"}
          \/ pc = "exit" /\ pc' \in {"entry", "idle"}
          \/ pc # "idle" /\ pc' = "idle"
      BY <1>6 DEF MachineStep, HandlerReturns, ExitHookReturns, EntryHookReturns, UnhandledHookReturns, Abort,
         SwitchState, ArmAndReturn, Return
    <3>2. AwaitsLeft[pc'] < AwaitsLeft[pc]
      <4>1. /\ AwaitsLeft["idle"] = 0 /\ AwaitsLeft["entry"] = 1 /\ AwaitsLeft["exit"] = 2
            /\ AwaitsLeft["transition"] = 3 /\ AwaitsLeft["timeout"] = 3
        BY DEF AwaitsLeft
      <4>2. pc # "idle" => AwaitsLeft[pc] > 0
        <5>1. pc \in Stages
          BY DEF TypeOK
        <5> QED
          BY <5>1 DEF AwaitsLeft, Stages
      <4>3. CASE pc \in {"transition", "timeout"} /\ pc' \in {"exit", "entry", "idle"}
        <5>1. AwaitsLeft[pc] = 3
          BY <4>1, <4>3
        <5>2. AwaitsLeft[pc'] \in {0, 1, 2}
          BY <4>1, <4>3
        <5> QED
          BY <5>1, <5>2
      <4>4. CASE pc = "exit" /\ pc' \in {"entry", "idle"}
        BY <4>1, <4>4
      <4>5. CASE pc # "idle" /\ pc' = "idle"
        BY <4>1, <4>2, <4>5
      <4> QED
        BY <3>1, <4>3, <4>4, <4>5
    <3> QED
      BY <1>0, <2>1, <2>2, <3>2, StepLeads
  <2>3. CASE host' = "stopped" /\ host # "stopped"
    <3>1. StationsLeft[host'] < StationsLeft[host]
      BY <2>3 DEF WaitInv, StationsLeft
    <3> QED
      BY <1>0, <3>1, StepLeads
  <2> QED
    BY <2>1, <2>2, <2>3
<1> QED
  BY <1>2, <1>3, <1>4, <1>5, <1>6 DEF HostStep

\* Between two events the loop takes only so many steps, however its calls end, as
\* many failure events as there are actions included, and neither time nor a delivery
\* adds to them.  With LoopNeverStuck and a runtime that runs the loop, an event that
\* waits is received or the loop ends (lib.rs:235-257).
THEOREM LoopRunsDown == HSpec => EventComesUp
<1>1. ASSUME TypeOK, LoopInv, BatchInv, WaitInv, TypeOK', BatchInv', WaitInv', [HNext]_hvars
      PROVE  [LeadsOn]_hvars
  <2>0. LoopLeft \in FiveNumbers /\ LoopLeft' \in FiveNumbers
    BY <1>1, LeftIsNumbers, LeftIsNumbersNext
  <2>1. Clock \/ (\E e \in Event : Deliver(e)) => LoopLeft' = LoopLeft
    <3> SUFFICES ASSUME Clock \/ (\E e \in Event : Deliver(e)) PROVE LoopLeft' = LoopLeft
      OBVIOUS
    <3>1. UNCHANGED <<host, actions, failure_actions, pc>>
      BY DEF Clock, Deliver, Tick, local, vars
    <3> QED
      BY <3>1 DEF LoopLeft, StationsLeft, FailuresLeft, FailureLeft, AwaitsLeft
  <2>7. HostStep => Receive \/ Lesser(LoopLeft', LoopLeft)
    BY <1>1, HostStepLeads
  <2> QED
    BY <2>0, <2>1, <2>7 DEF LeadsOn
<1>2. /\ TypeOK /\ LoopInv /\ BatchInv /\ WaitInv
      /\ (TypeOK /\ LoopInv /\ BatchInv /\ WaitInv)' /\ [HNext]_hvars
      => [LeadsOn]_hvars
  BY <1>1
<1> QED
  BY <1>2, LoopFacts, PTL DEF HSpec, EventComesUp
-----------------------------------------------------------------------------
(***************************************************************************)
(* A host that loses its machine and builds it anew.                       *)
(***************************************************************************)
RType ==
    /\ call \in Event \cup {"poll", None}
    /\ pc # "idle" => call # None
    /\ pc = "transition" => call \in Event
    /\ mode = "down" => pc = "idle" /\ call = None
    /\ log \in Seq(Event) /\ todo \in Seq(Event)
    /\ mode = "replaying" /\ call # None => todo # <<>>
    /\ snapshot \in State
    /\ recorded \in [state : State, timer : Nat \cup {None}, entered : BOOLEAN]

\* The variant of the state last recorded.
RecordedName == VariantName[recorded.state]

\* The deadline last recorded, if its state was entered completely, is one of
\* that state and lies no further ahead than the state's duration.
RecordedTimer ==
    recorded.entered =>
        IF HasTimeout(RecordedName)
          THEN recorded.timer # None /\ recorded.timer <= now + tables.timeout_handlers[RecordedName]
          ELSE recorded.timer = None

\* A replayed machine entered its state no earlier than the recorded deadline
\* allows, and is half entered only while a call has yet to be looked at.
ReplayedTimer ==
    mode = "replaying" =>
        /\ recorded.entered /\ HasTimeout(RecordedName) =>
              recorded.timer <= entered_at + tables.timeout_handlers[RecordedName]
        /\ half_entered => pc = "entry" \/ (pc = "idle" /\ call # None /\ result.kind # "ok")

RInv == TypeOK /\ IInv /\ RType /\ RecordedTimer /\ ReplayedTimer
-----------------------------------------------------------------------------
(***************************************************************************)
(* The steps of the host are of three kinds.                               *)
(***************************************************************************)
\* It calls, advances or ages the engine,
EngineOnly ==
    \/ \E e \in Event : HostHandles(e)
    \/ HostPolls \/ Step \/ Replay \/ HostWaits

\* or leaves it alone,
HostOnly == Record \/ GoOn \/ Replayed \/ EndReplay \/ UNCHANGED rvars

\* or loses and rebuilds it.
LEMMA RStepKinds ==
    [RNext]_rvars <=> EngineOnly \/ HostOnly \/ Crash \/ Restore \/ StartReplay
  BY DEF RNext, EngineOnly, HostOnly

\* The step of a call in flight is one of the engine's.
LEMMA StepProgresses ==
    ASSUME RInv, Step
    PROVE  Progress
<1>1. current_state \in State
  BY DEF RInv, TypeOK
<1>2. CASE pc = "transition" /\ HandlerReturns(NextOf[current_state][call])
  <2>1. call \in Event
    BY <1>2 DEF RInv, RType
  <2>2. NextOf[current_state][call] \in State
    BY <1>1, <2>1, HandlersAssumption
  <2> QED
    BY <1>2, <2>2 DEF Progress
<1>3. CASE HandlerReturns(AfterTimeout[current_state])
  BY <1>1, <1>3, HandlersAssumption DEF Progress
<1> QED
  BY <1>2, <1>3 DEF Step, Progress

LEMMA EngineStep ==
    ASSUME RInv, EngineOnly \/ HostOnly
    PROVE  [Next]_vars
<1>1. ASSUME NEW e \in Event, HostHandles(e) PROVE Next
  BY <1>1 DEF HostHandles, Next
<1>2. HostPolls => Next
  BY DEF HostPolls, Next
<1>3. Step => Next
  BY StepProgresses DEF Progress, Next
<1>4. ASSUME Replay PROVE Next
  <2>1. Handle(Head(todo)) /\ Head(todo) \in Event
    BY <1>4 DEF Replay, RInv, RType
  <2> QED
    BY <2>1 DEF Next
<1>5. HostWaits => Next
  BY DEF HostWaits, Next
<1>6. HostOnly => UNCHANGED vars
  BY DEF HostOnly, Record, GoOn, Replayed, EndReplay, rvars
<1> QED
  BY <1>1, <1>2, <1>3, <1>4, <1>5, <1>6 DEF EngineOnly

\* The engine's clock does not run backwards, and a state is entered when the
\* clock says.
LEMMA ArmAndReturnClock ==
    ASSUME NEW v, NEW t, NEW acts, ArmAndReturn(v, t, acts)
    PROVE  UNCHANGED <<tables, now>> /\ pc' = "idle"
  BY DEF ArmAndReturn, Return

LEMMA SwitchStateClock ==
    ASSUME NEW t, NEW acts, SwitchState(t, acts)
    PROVE  UNCHANGED <<tables, now>> /\ entered_at' = now /\ pc' \in {"idle", "entry"}
  BY ArmAndReturnClock DEF SwitchState

LEMMA ProgressClock ==
    ASSUME Progress
    PROVE  /\ UNCHANGED <<tables, now>> /\ entered_at' \in {entered_at, now}
           /\ pc # "idle" /\ pc' \in {"idle", "exit", "entry"}
<1>1. ASSUME NEW s \in State, HandlerReturns(s)
      PROVE  /\ UNCHANGED <<tables, now>> /\ entered_at' \in {entered_at, now}
             /\ pc' \in {"idle", "exit", "entry"}
  <2>1. PICK out \in Outputs(pc, matched) :
          LET t == [next_state |-> s, actions |-> out]
          IN  \/ /\ name \in tables.exit_handlers
                 /\ pc' = "exit" /\ transition' = t
                 /\ UNCHANGED <<machine, tables, now, matched, all_actions, result, effects, before>>
              \/ /\ name \notin tables.exit_handlers
                 /\ SwitchState(t, <<>>)
    BY <1>1 DEF HandlerReturns
  <2> QED
    BY <2>1, SwitchStateClock DEF machine
<1>2. CASE ExitHookReturns
  BY <1>2, SwitchStateClock DEF ExitHookReturns
<1>3. CASE EntryHookReturns
  BY <1>3, ArmAndReturnClock DEF EntryHookReturns
<1>4. CASE UnhandledHookReturns
  BY <1>4 DEF UnhandledHookReturns, Return, machine
<1>5. ASSUME NEW kind \in {"err", "dropped"}, Abort(kind)
      PROVE  UNCHANGED <<tables, now>> /\ entered_at' = entered_at /\ pc' = "idle"
  BY <1>5 DEF Abort, Return, machine
<1>6. pc # "idle"
  BY DEF Progress, HandlerReturns, ExitHookReturns, EntryHookReturns, UnhandledHookReturns, Abort
<1> QED
  BY <1>1, <1>2, <1>3, <1>4, <1>5, <1>6 DEF Progress
-----------------------------------------------------------------------------
(***************************************************************************)
(* The engine's own invariants outlive the machine: losing it and building *)
(* it anew start from where new starts.                                    *)
(***************************************************************************)
LEMMA CrashEngine ==
    ASSUME TypeOK, IInv, Crash
    PROVE  TypeOK' /\ IInv' /\ pc' = "idle" /\ UNCHANGED <<machine, tables, now>>
<1>1. /\ pc' = "idle" /\ matched' = None /\ transition' = NoTransition /\ all_actions' = <<>>
      /\ result' = [kind |-> "none", actions |-> <<>>]
      /\ UNCHANGED <<current_state, state_timeout, entered_at, half_entered, tables, now, before,
                     pending, performed, batch>>
  BY DEF Crash, Return, Result, machine, effects
<1>2. TypeOK'
  BY <1>1 DEF TypeOK, NoTransition, Stages
<1>3. TimerFollowsState' /\ ClockInv'
  BY <1>1 DEF IInv, TimerFollowsState, TimerIsForState, ClockInv, HasTimeout, name
<1>4. FailedCallKeepsMachine' /\ UncommittedCall' /\ TimeoutDue'
  BY <1>1 DEF FailedCallKeepsMachine, UncommittedCall, TimeoutDue
<1> QED
  BY <1>1, <1>2, <1>3, <1>4 DEF IInv, machine

LEMMA NewEngine ==
    ASSUME TypeOK, IInv, pc = "idle", NEW s \in State, New(s)
    PROVE  TypeOK' /\ IInv'
<1>1. /\ current_state' = s /\ state_timeout' = Deadline(VariantName[s])
      /\ entered_at' = now /\ half_entered' = FALSE
      /\ before' = [state |-> s, timer |-> state_timeout']
      /\ UNCHANGED <<tables, now, pc, matched, transition, all_actions, result,
                     pending, performed, batch>>
  BY DEF New, frame, effects
<1>2. HasTimeout(VariantName[s]) => tables.timeout_handlers[VariantName[s]] \in Nat
  BY DurationType
<1>3. now \in 0..MaxTime /\ now \in Nat
  BY TimeAssumption DEF TypeOK
<1>4. state_timeout' \in Nat \cup {None}
  BY <1>1, <1>2, <1>3 DEF Deadline
<1>5. TypeOK'
  BY <1>1, <1>3, <1>4 DEF TypeOK, Stages
<1>6. name' = VariantName[s] /\ ((HasTimeout(VariantName[s]))' <=> HasTimeout(VariantName[s]))
  BY <1>1 DEF name, HasTimeout
<1>7. TimerFollowsState' /\ ClockInv'
  <2>1. CASE HasTimeout(VariantName[s])
    BY <1>1, <1>2, <1>3, <1>6, <2>1, NoneAssumption DEF TimerFollowsState, TimerIsForState, ClockInv,
       Deadline, HasTimeout
  <2>2. CASE ~HasTimeout(VariantName[s])
    BY <1>1, <1>3, <1>6, <2>2 DEF TimerFollowsState, TimerIsForState, ClockInv, Deadline, HasTimeout
  <2> QED
    BY <2>1, <2>2
<1>8. FailedCallKeepsMachine' /\ UncommittedCall' /\ TimeoutDue'
  BY <1>1 DEF FailedCallKeepsMachine, UncommittedCall, TimeoutDue
<1> QED
  BY <1>5, <1>7, <1>8 DEF IInv

LEMMA NextEngine == RInv /\ [RNext]_rvars => TypeOK' /\ IInv'
<1> SUFFICES ASSUME RInv, [RNext]_rvars PROVE TypeOK' /\ IInv'
  OBVIOUS
<1>1. CASE EngineOnly \/ HostOnly
  BY <1>1, EngineStep, NextType, NextTimer DEF RInv
<1>2. CASE Crash
  BY <1>2, CrashEngine DEF RInv
<1>3. CASE Restore
  BY <1>3, NewEngine DEF Restore, RInv, RType
<1>4. CASE StartReplay
  BY <1>4, NewEngine, HandlersAssumption DEF StartReplay, RInv, RType
<1> QED
  BY <1>1, <1>2, <1>3, <1>4, RStepKinds
-----------------------------------------------------------------------------
(***************************************************************************)
(* What the host keeps, and what it tells of the engine.                   *)
(***************************************************************************)
LEMMA HandleWaits ==
    ASSUME NEW e \in Event, Handle(e)
    PROVE  pc = "idle" /\ pc' \in {"idle", "transition", "unhandled"}
  BY DEF Handle, Begin, Immediate

LEMMA PollWaits ==
    ASSUME CheckTimeout
    PROVE  pc = "idle" /\ pc' \in {"idle", "timeout"}
  BY DEF CheckTimeout, Begin, Immediate

\* A machine on record has the types of its parts.
LEMMA RecordType ==
    ASSUME TypeOK
    PROVE  Machine \in [state : State, timer : Nat \cup {None}, entered : BOOLEAN]
  BY DEF TypeOK, Machine

LEMMA NextHostType == RInv /\ [RNext]_rvars => RType'
<1> SUFFICES ASSUME RInv, [RNext]_rvars PROVE RType'
  OBVIOUS
<1> USE HandlersAssumption DEF durable
<1>1. ASSUME NEW e \in Event, HostHandles(e) PROVE RType'
  BY <1>1, HandleWaits DEF HostHandles, RInv, RType
<1>2. CASE HostPolls
  BY <1>2, PollWaits DEF HostPolls, RInv, RType
<1>3. CASE Step
  BY <1>3, StepProgresses, ProgressClock DEF Step, RInv, RType
<1>4. CASE Replay
  <2>1. Head(todo) \in Event
    BY <1>4 DEF Replay, RInv, RType
  <2> QED
    BY <1>4, <2>1, HandleWaits DEF Replay, RInv, RType
<1>5. CASE HostWaits
  BY <1>5 DEF HostWaits, Tick, RInv, RType
<1>6. CASE Record
  <2>1. log' \in Seq(Event)
    BY <1>6 DEF Record, RInv, RType
  <2>2. snapshot' \in State
    BY <1>6 DEF Record, RInv, TypeOK
  <2>3. recorded' \in [state : State, timer : Nat \cup {None}, entered : BOOLEAN]
    BY <1>6, RecordType DEF Record, RInv
  <2> QED
    BY <1>6, <2>1, <2>2, <2>3 DEF Record, RInv, RType, vars
<1>7. CASE GoOn
  BY <1>7 DEF GoOn, RInv, RType, vars
<1>8. CASE Replayed
  <2>1. mode = "replaying" /\ pc' = pc /\ pc = "idle" /\ call' = None
        /\ UNCHANGED <<log, snapshot, recorded>>
    BY <1>8 DEF Replayed, vars
  <2>2. CASE todo' = Tail(todo) /\ UNCHANGED mode
    <3>1. Tail(todo) \in Seq(Event)
      BY <1>8 DEF Replayed, RInv, RType
    <3> QED
      BY <2>1, <2>2, <3>1 DEF RInv, RType
  <2>3. CASE todo' = <<>> /\ mode' = "down"
    <3>1. <<>> \in Seq(Event)
      OBVIOUS
    <3> QED
      BY <2>1, <2>3, <3>1 DEF RInv, RType
  <2> QED
    BY <1>8, <2>2, <2>3 DEF Replayed
<1>9. CASE EndReplay
  BY <1>9 DEF EndReplay, RInv, RType, TypeOK, vars
<1>10. CASE Crash
  <2>1. pc' = "idle"
    BY <1>10 DEF Crash, Return
  <2> QED
    BY <1>10, <2>1 DEF Crash, RInv, RType
<1>11. CASE Restore
  BY <1>11 DEF Restore, New, RInv, RType
<1>12. CASE StartReplay
  BY <1>12 DEF StartReplay, New, RInv, RType
<1>13. CASE UNCHANGED rvars
  BY <1>13 DEF rvars, vars, RInv, RType
<1> QED
  BY <1>1, <1>2, <1>3, <1>4, <1>5, <1>6, <1>7, <1>8, <1>9, <1>10, <1>11, <1>12, <1>13 DEF RNext
-----------------------------------------------------------------------------
(***************************************************************************)
(* The deadline on record against the clock, and against a replay.         *)
(***************************************************************************)
LEMMA ClockAdvances ==
    ASSUME RInv, [RNext]_rvars
    PROVE  tables' = tables /\ now' \in {now, now + 1}
<1>1. ASSUME NEW e \in Event, Handle(e) PROVE UNCHANGED <<tables, now>>
  BY <1>1, HandleBegins
<1>2. CASE \E e \in Event : HostHandles(e)
  BY <1>1, <1>2 DEF HostHandles
<1>3. CASE Replay
  <2>1. Handle(Head(todo)) /\ Head(todo) \in Event
    BY <1>3 DEF Replay, RInv, RType
  <2> QED
    BY <1>1, <2>1
<1>4. CASE HostPolls
  BY <1>4, PollBegins DEF HostPolls
<1>5. CASE Step
  BY <1>5, StepProgresses, ProgressClock
<1>6. CASE HostWaits
  BY <1>6 DEF HostWaits, Tick
<1>7. CASE HostOnly
  BY <1>7 DEF HostOnly, Record, GoOn, Replayed, EndReplay, rvars, vars
<1>8. CASE Crash
  BY <1>8 DEF Crash, Return
<1>9. CASE Restore \/ StartReplay
  BY <1>9 DEF Restore, StartReplay, New
<1> QED
  BY <1>2, <1>3, <1>4, <1>5, <1>6, <1>7, <1>8, <1>9, RStepKinds DEF EngineOnly

\* A machine that was entered completely shows the deadline of its state.
LEMMA MachineTimer ==
    ASSUME TypeOK, IInv, ~half_entered
    PROVE  IF HasTimeout(name)
             THEN /\ state_timeout \in Nat
                  /\ state_timeout <= now + tables.timeout_handlers[name]
                  /\ entered_at + tables.timeout_handlers[name] <= state_timeout
             ELSE state_timeout = None
  BY DEF IInv, TimerFollowsState, TimerIsForState, TypeOK

LEMMA NextRecorded == RInv /\ [RNext]_rvars => RecordedTimer'
<1> SUFFICES ASSUME RInv, [RNext]_rvars, recorded'.entered
             PROVE  (IF HasTimeout(RecordedName)
                       THEN /\ recorded.timer # None
                            /\ recorded.timer <= now + tables.timeout_handlers[RecordedName]
                       ELSE recorded.timer = None)'
  BY DEF RecordedTimer
<1>1. tables' = tables /\ now' \in {now, now + 1} /\ now \in Nat
  BY ClockAdvances, TimeAssumption DEF RInv, TypeOK
<1>2. CASE Record
  <2>1. /\ recorded' = [state |-> current_state, timer |-> state_timeout, entered |-> ~half_entered]
        /\ now' = now
    BY <1>2 DEF Record, Machine, vars
  <2>2. RecordedName' = name /\ ((HasTimeout(RecordedName))' <=> HasTimeout(name))
    BY <1>1, <2>1 DEF RecordedName, name, HasTimeout
  <2>3. recorded'.timer = state_timeout /\ ~half_entered
    BY <2>1
  <2> QED
    BY <1>1, <2>1, <2>2, <2>3, MachineTimer, NoneAssumption DEF RInv
<1>3. CASE UNCHANGED recorded
  <2>1. RecordedName' = RecordedName /\ ((HasTimeout(RecordedName))' <=> HasTimeout(RecordedName))
    BY <1>1, <1>3 DEF RecordedName, HasTimeout
  <2>2. recorded.entered /\ recorded.timer \in Nat \cup {None}
    BY <1>3 DEF RInv, RType
  <2>3. HasTimeout(RecordedName) => tables.timeout_handlers[RecordedName] \in Nat
    BY DurationType DEF RInv
  <2>4. CASE HasTimeout(RecordedName)
    BY <1>1, <1>3, <2>1, <2>2, <2>3, <2>4 DEF RInv, RecordedTimer
  <2>5. CASE ~HasTimeout(RecordedName)
    BY <1>3, <2>1, <2>2, <2>5 DEF RInv, RecordedTimer
  <2> QED
    BY <2>4, <2>5
<1> QED
  BY <1>2, <1>3 DEF RNext, HostHandles, HostPolls, Step, GoOn, Crash, Restore, StartReplay, Replay, Replayed,
     EndReplay, HostWaits, durable, rvars

\* While the log is replayed a state is entered now or was entered before.
LEMMA ReplayEnters ==
    ASSUME RInv, Replay \/ Step \/ HostWaits
    PROVE  entered_at' \in {entered_at, now}
<1>1. CASE Replay
  <2>1. Handle(Head(todo)) /\ Head(todo) \in Event
    BY <1>1 DEF Replay, RInv, RType
  <2> QED
    BY <2>1, HandleBegins DEF machine
<1>2. CASE Step
  BY <1>2, StepProgresses, ProgressClock
<1>3. CASE HostWaits
  BY <1>3 DEF HostWaits, Tick, machine
<1> QED
  BY <1>1, <1>2, <1>3

LEMMA NextReplayed == RInv /\ [RNext]_rvars => ReplayedTimer'
<1> SUFFICES ASSUME RInv, [RNext]_rvars, mode' = "replaying" PROVE ReplayedTimer'
  BY DEF ReplayedTimer
<1> DEFINE Bound == recorded.entered /\ HasTimeout(RecordedName) =>
                      recorded.timer <= entered_at + tables.timeout_handlers[RecordedName]
           Half == half_entered => pc = "entry" \/ (pc = "idle" /\ call # None /\ result.kind # "ok")
<1>1. tables' = tables /\ now \in Nat
  BY ClockAdvances, TimeAssumption DEF RInv, TypeOK
<1>2. ASSUME UNCHANGED recorded, entered_at' = now PROVE Bound'
  BY <1>1, <1>2 DEF RInv, RecordedTimer, RecordedName, HasTimeout
<1>3. ASSUME UNCHANGED <<recorded, entered_at>>, mode = "replaying" PROVE Bound'
  BY <1>1, <1>3 DEF RInv, ReplayedTimer, RecordedName, HasTimeout
<1>4. ASSUME mode = "replaying" PROVE Bound /\ Half
  BY <1>4 DEF RInv, ReplayedTimer
<1>5. CASE StartReplay
  <2>1. UNCHANGED recorded /\ entered_at' = now /\ half_entered' = FALSE
    BY <1>5 DEF StartReplay, New, durable
  <2> QED
    BY <1>2, <2>1 DEF ReplayedTimer
<1>6. CASE mode = "replaying" /\ (Replay \/ Step \/ HostWaits)
  <2>1. UNCHANGED recorded /\ entered_at' \in {entered_at, now}
    BY <1>6, ReplayEnters DEF Replay, Step, HostWaits, durable
  <2>2. Bound'
    BY <1>2, <1>3, <1>6, <2>1
  <2>3. Half'
    <3>1. CASE Replay
      <4>1. Handle(Head(todo)) /\ Head(todo) \in Event /\ ~half_entered
        BY <1>4, <1>6, <3>1 DEF Replay, Idle, RInv, RType
      <4> QED
        BY <4>1, HandleBegins DEF machine
    <3>2. CASE Step
      <4>1. Progress /\ pc # "idle" /\ call' = call
        BY <3>2, StepProgresses, ProgressClock DEF Step
      <4>2. half_entered => pc = "entry"
        BY <1>4, <1>6, <4>1
      <4>3. call # None
        BY <4>1 DEF RInv, RType
      <4> QED
        BY <4>1, <4>2, <4>3, ProgressEnters
    <3>3. CASE HostWaits
      BY <1>4, <1>6, <3>3 DEF HostWaits, Tick, machine
    <3> QED
      BY <1>6, <3>1, <3>2, <3>3
  <2> QED
    BY <2>2, <2>3 DEF ReplayedTimer
<1>7. CASE mode = "replaying" /\ Replayed
  <2>1. result.kind = "ok" /\ UNCHANGED <<vars, recorded>>
    BY <1>7 DEF Replayed, durable
  <2>2. ~half_entered /\ UNCHANGED <<entered_at, half_entered>>
    BY <1>4, <1>7, <2>1 DEF Replayed, vars, machine
  <2> QED
    BY <1>3, <1>7, <2>1, <2>2 DEF ReplayedTimer
<1>8. CASE mode = "replaying" /\ UNCHANGED rvars
  <2>1. UNCHANGED <<recorded, entered_at, half_entered, pc, call, result>>
    BY <1>8 DEF rvars, vars, machine, durable
  <2> QED
    BY <1>3, <1>4, <1>8, <2>1 DEF ReplayedTimer
<1> QED
  BY <1>5, <1>6, <1>7, <1>8 DEF RNext, HostHandles, HostPolls, Step, Record, GoOn, Crash, Restore, Replay,
     Replayed, EndReplay, HostWaits, rvars
-----------------------------------------------------------------------------
LEMMA InitRecovery == RInit => RInv
<1> SUFFICES ASSUME RInit PROVE RInv
  OBVIOUS
<1>1. TypeOK /\ IInv
  BY InitType, InitTimer DEF RInit
<1>2. pc = "idle" /\ half_entered = FALSE
  BY DEF RInit, Init
<1>3. <<>> \in Seq(Event)
  OBVIOUS
<1>4. RType
  BY <1>1, <1>2, <1>3, RecordType, HandlersAssumption DEF RInit, RType
<1>5. RecordedTimer
  <2>1. recorded.state = current_state /\ recorded.timer = state_timeout
    BY DEF RInit, Machine
  <2> QED
    BY <1>1, <1>2, <2>1, MachineTimer, NoneAssumption DEF RecordedTimer, RecordedName, name
<1>6. ReplayedTimer
  BY DEF RInit, ReplayedTimer
<1> QED
  BY <1>1, <1>4, <1>5, <1>6 DEF RInv

LEMMA RecoveryInvariant == RSpec => []RInv
<1>1. RInv /\ [RNext]_rvars => RInv'
  BY NextEngine, NextHostType, NextRecorded, NextReplayed DEF RInv
<1> QED
  BY <1>1, InitRecovery, PTL DEF RSpec

\* A machine rebuilt in the state last recorded times out no earlier than the
\* lost one would have, and does time out if that one did (new,
\* test_state_persistence).
THEOREM RecoveryPostpones == RSpec => TimeoutOnlyPostponed
<1>1. ASSUME RInv, RNext, mode # "live", mode' = "live", recorded.entered,
             current_state' = recorded.state
      PROVE  IF recorded.timer = None THEN state_timeout' = None
             ELSE state_timeout' # None /\ state_timeout' >= recorded.timer
  <2> USE <1>1
  <2>1. /\ recorded.timer \in Nat \cup {None}
        /\ HasTimeout(RecordedName) => tables.timeout_handlers[RecordedName] \in Nat
        /\ now \in Nat /\ entered_at \in Nat
    BY DurationType, TimeAssumption DEF RInv, RType, TypeOK
  <2>2. CASE Restore
    <3>1. state_timeout' = Deadline(RecordedName)
      BY <2>2 DEF Restore, New, RecordedName
    <3>2. CASE HasTimeout(RecordedName)
      BY <2>1, <3>1, <3>2, NoneAssumption DEF RInv, RecordedTimer, Deadline
    <3>3. CASE ~HasTimeout(RecordedName)
      BY <3>1, <3>3 DEF RInv, RecordedTimer, Deadline
    <3> QED
      BY <3>2, <3>3
  <2>3. CASE EndReplay
    <3>1. UNCHANGED <<current_state, state_timeout>> /\ mode = "replaying" /\ ~half_entered
      BY <2>3 DEF EndReplay, Idle, vars, machine, RInv, ReplayedTimer
    <3>2. name = RecordedName
      BY <3>1 DEF name, RecordedName
    <3>3. CASE HasTimeout(RecordedName)
      <4>1. recorded.timer # None /\ recorded.timer <= entered_at + tables.timeout_handlers[RecordedName]
        BY <3>1, <3>3 DEF RInv, RecordedTimer, ReplayedTimer
      <4> QED
        BY <2>1, <3>1, <3>2, <3>3, <4>1, MachineTimer, NoneAssumption DEF RInv
    <3>4. CASE ~HasTimeout(RecordedName)
      BY <3>1, <3>2, <3>4, MachineTimer DEF RInv, RecordedTimer
    <3> QED
      BY <3>3, <3>4
  <2> QED
    BY <2>2, <2>3 DEF RNext, HostHandles, HostPolls, Step, Record, GoOn, Crash, StartReplay, Replay,
       Replayed, HostWaits
<1>2. RInv /\ [RNext]_rvars =>
        [ mode # "live" /\ mode' = "live" /\ recorded.entered /\ current_state' = recorded.state =>
            IF recorded.timer = None THEN state_timeout' = None
            ELSE state_timeout' # None /\ state_timeout' >= recorded.timer ]_rvars
  BY <1>1
<1> QED
  BY <1>2, RecoveryInvariant, PTL DEF RSpec, TimeoutOnlyPostponed
-----------------------------------------------------------------------------
(***************************************************************************)
(* The log explains the state.                                             *)
(***************************************************************************)
\* What a call in flight makes of the state s it found: the handler's state, from
\* the moment the handler has returned.  A handler is awaited only for an event
\* with a row, the unhandled hook only for one without.
Along(s) ==
    /\ call = None => current_state = s
    /\ call # None => before.state = s
    /\ pc = "timeout" => call = "poll"
    /\ pc = "transition" => HasRow(s, call)
    /\ pc = "unhandled" => ~HasRow(s, call)
    /\ call \in Event /\ pc \in {"exit", "entry"} => transition.next_state = Leads[s][call]
    /\ call \in Event /\ pc = "idle" /\ result.kind = "ok" => current_state = Leads[s][call]

\* While the log is replayed, todo is what is left of it, and the machine is where
\* the handlers lead over the rest.
ReplayedSoFar ==
    /\ call # None => call = Head(todo)
    /\ \E done \in Seq(Event) : log = done \o todo /\ Along(Outcome(done))

Told ==
    /\ ~diverted => snapshot = Outcome(log)
    /\ mode = "live" /\ ~diverted => Along(snapshot)
    /\ mode = "replaying" => ReplayedSoFar

LEMMA LeadsTo ==
    ASSUME NEW s \in State, NEW e \in Event
    PROVE  Leads[s][e] = IF HasRow(s, e) THEN NextOf[s][e] ELSE s
  BY DEF Leads

LEMMA LeadsIsStep == IsStep(Leads, State, Event) /\ Initial \in State
<1>1. \A s \in State, e \in Event : (IF HasRow(s, e) THEN NextOf[s][e] ELSE s) \in State
  BY HandlersAssumption
<1> QED
  BY <1>1, HandlersAssumption DEF IsStep, Leads

\* The rows never change, and with them where events lead.
LEMMA LeadsStay ==
    ASSUME tables' = tables
    PROVE  /\ Leads' = Leads
           /\ \A s, e : HasRow(s, e)' <=> HasRow(s, e)
  BY DEF Leads, HasRow

LEMMA OutcomeOfNone == Outcome(<<>>) = Initial
  BY LeadsIsStep, RunOverNothing DEF Outcome

LEMMA OutcomeOfOneMore ==
    ASSUME NEW s \in Seq(Event), NEW e \in Event
    PROVE  Outcome(Append(s, e)) = Leads[Outcome(s)][e]
  BY LeadsIsStep, RunOverOneMore DEF Outcome

\* The first event of what is left goes to what has been replayed.
LEMMA ReplayHead ==
    ASSUME NEW s \in Seq(Event), NEW t \in Seq(Event), t # <<>>
    PROVE  /\ Head(t) \in Event /\ Tail(t) \in Seq(Event) /\ Append(s, Head(t)) \in Seq(Event)
           /\ s \o t = Append(s, Head(t)) \o Tail(t)
  OBVIOUS

\* The end of a call that switched to the state t.next_state.
LEMMA ArmAndReturnTells ==
    ASSUME NEW v, NEW t, NEW acts, ArmAndReturn(v, t, acts)
    PROVE  pc' = "idle" /\ before' = before
  BY DEF ArmAndReturn, Return

LEMMA SwitchStateTells ==
    ASSUME NEW t, NEW acts, SwitchState(t, acts)
    PROVE  /\ current_state' = t.next_state /\ before' = before
           /\ pc' = "idle" \/ (pc' = "entry" /\ transition' = t)
  BY ArmAndReturnTells DEF SwitchState

LEMMA HandlerTells ==
    ASSUME NEW s, HandlerReturns(s)
    PROVE  /\ before' = before
           /\ \/ pc' = "exit" /\ transition'.next_state = s
              \/ pc' = "idle" /\ current_state' = s
              \/ pc' = "entry" /\ transition'.next_state = s
<1>1. PICK out \in Outputs(pc, matched) :
        LET t == [next_state |-> s, actions |-> out]
        IN  \/ /\ name \in tables.exit_handlers
               /\ pc' = "exit" /\ transition' = t
               /\ UNCHANGED <<machine, tables, now, matched, all_actions, result, effects, before>>
            \/ /\ name \notin tables.exit_handlers
               /\ SwitchState(t, <<>>)
  BY DEF HandlerReturns
<1> QED
  BY <1>1, SwitchStateTells

\* No step of a call in flight leaves the way.
LEMMA StepAlong ==
    ASSUME RInv, Step, NEW s, Along(s)
    PROVE  Along(s)'
<1> USE DEF Along
<1>1. /\ call' = call /\ call # None /\ pc # "idle" /\ before.state = s
      /\ pc' \in {"idle", "exit", "entry"} /\ tables' = tables
  BY StepProgresses, ProgressClock DEF Step, RInv, RType
<1>l. Leads' = Leads
  BY <1>1, LeadsStay
<1>s. s \in State
  BY <1>1 DEF RInv, TypeOK
<1>2. CASE pc = "transition" /\ HandlerReturns(NextOf[current_state][call])
  <2>1. current_state = s /\ call \in Event
    BY <1>1, <1>2 DEF RInv, RType, IInv, UncommittedCall
  <2>2. Leads[s][call] = NextOf[current_state][call]
    BY <1>2, <1>s, <2>1, LeadsTo
  <2> QED
    BY <1>1, <1>2, <1>l, <2>1, <2>2, HandlerTells
<1>3. CASE pc = "timeout" /\ HandlerReturns(AfterTimeout[current_state])
  <2>1. call \notin Event
    BY <1>3, HandlersAssumption
  <2> QED
    BY <1>1, <1>3, <1>l, <2>1, HandlerTells
<1>u. CASE UnhandledHookReturns
  <2>1. pc = "unhandled" /\ pc' = "idle" /\ before' = before /\ current_state' = current_state
    BY <1>u DEF UnhandledHookReturns, Return, machine
  <2>2. current_state = s
    BY <1>1, <2>1 DEF RInv, IInv, UncommittedCall
  <2>3. call \in Event => Leads[s][call] = s
    BY <1>s, <2>1, LeadsTo
  <2> QED
    BY <1>1, <1>l, <2>1, <2>2, <2>3
<1>4. CASE ExitHookReturns
  <2>1. PICK out \in Outputs("exit", name) : SwitchState(transition, all_actions \o out)
    BY <1>4 DEF ExitHookReturns
  <2>2. pc = "exit"
    BY <1>4 DEF ExitHookReturns
  <2> QED
    BY <1>1, <1>l, <2>1, <2>2, SwitchStateTells
<1>5. CASE EntryHookReturns
  <2>1. pc = "entry" /\ current_state' = current_state /\ current_state = transition.next_state
    BY <1>5 DEF EntryHookReturns, RInv, IInv, UncommittedCall
  <2>2. PICK out \in Outputs("entry", name) : ArmAndReturn(name, transition, all_actions \o out)
    BY <1>5 DEF EntryHookReturns
  <2> QED
    BY <1>1, <1>l, <2>1, <2>2, ArmAndReturnTells
<1>6. ASSUME NEW kind \in {"err", "dropped"}, Abort(kind) PROVE Along(s)'
  BY <1>1, <1>6 DEF Abort, Return, Result
<1> QED
  BY <1>2, <1>3, <1>u, <1>4, <1>5, <1>6 DEF Step

\* A call begins at the state the machine is in.
LEMMA BeginAlong ==
    ASSUME RInv, NEW s, Along(s), call = None,
           \/ \E e \in Event : Handle(e) /\ call' = e
           \/ CheckTimeout /\ call' = "poll"
    PROVE  Along(s)'
<1>1. current_state = s
  BY DEF Along
<1>2. ASSUME NEW e \in Event, Handle(e), call' = e PROVE Along(s)'
  <2>1. /\ before'.state = current_state /\ current_state' = current_state /\ tables' = tables
        /\ \/ pc' = "transition" /\ (Exact(e) \/ FromAny(e))
           \/ pc' = "unhandled" /\ ~Exact(e) /\ ~FromAny(e)
           \/ pc' = "idle" /\ result'.kind = "err"
    BY <1>2 DEF Handle, Begin, Immediate, Result, machine, RInv, TypeOK
  <2>2. HasRow(s, e) <=> Exact(e) \/ FromAny(e)
    BY <1>1 DEF HasRow, Exact, FromAny, name
  <2>3. HasRow(s, e)' <=> HasRow(s, e)
    BY <2>1, LeadsStay
  <2> QED
    BY <1>1, <1>2, <2>1, <2>2, <2>3, HandlersAssumption DEF Along
<1>3. CASE CheckTimeout /\ call' = "poll"
  <2>1. /\ before'.state = current_state /\ current_state' = current_state
        /\ pc' \in {"timeout", "idle"}
    BY <1>3 DEF CheckTimeout, Begin, Immediate, Result, machine, RInv, TypeOK
  <2> QED
    BY <1>1, <1>3, <2>1, HandlersAssumption DEF Along
<1> QED
  BY <1>2, <1>3

\* Only a call that returned Ok has moved the machine in a way the host goes on
\* from; another one left the state or the host knows of the half entered one.
LEMMA CallEnds ==
    ASSUME RInv, NEW s, Along(s), call # None, pc = "idle"
    PROVE  /\ result.kind = "ok" /\ call \in Event => current_state = Leads[s][call]
           /\ result.kind = "ok" /\ current_state = before.state => current_state = s
           /\ result.kind \in {"err", "dropped"} /\ ~half_entered => current_state = s
  BY DEF Along, RInv, IInv, FailedCallKeepsMachine

LEMMA NextTold == RInv /\ Told /\ [RNext]_rvars => Told'
<1> SUFFICES ASSUME RInv, Told, [RNext]_rvars PROVE Told'
  OBVIOUS
<1> USE DEF Told, Outcome, durable
<1>l. Leads' = Leads /\ \A s, e : HasRow(s, e)' <=> HasRow(s, e)
  BY ClockAdvances, LeadsStay
<1>t. /\ log \in Seq(Event) /\ todo \in Seq(Event) /\ snapshot \in State
      /\ mode = "down" => call = None
  BY DEF RInv, RType
\* The calls of a live machine.
<1>1. ASSUME NEW e \in Event, HostHandles(e) PROVE Told'
  <2>1. ASSUME ~diverted PROVE Along(snapshot)'
    BY <1>1, <2>1, BeginAlong DEF HostHandles, Idle
  <2> QED
    BY <1>l, <1>1, <2>1 DEF HostHandles
<1>2. CASE HostPolls
  <2>1. ASSUME ~diverted PROVE Along(snapshot)'
    BY <1>2, <2>1, BeginAlong DEF HostPolls, Idle
  <2> QED
    BY <1>l, <1>2, <2>1 DEF HostPolls
<1>3. CASE Step
  <2>1. UNCHANGED <<mode, call, log, snapshot, todo, diverted>>
    BY <1>3 DEF Step
  <2>2. ASSUME mode = "live", ~diverted PROVE Along(snapshot)'
    BY <1>3, <2>1, <2>2, StepAlong
  <2>3. ASSUME mode = "replaying" PROVE ReplayedSoFar'
    <3>1. PICK done \in Seq(Event) : log = done \o todo /\ Along(Outcome(done))
      BY <2>3 DEF ReplayedSoFar
    <3>2. Along(Outcome(done))'
      BY <1>l, <1>3, <3>1, StepAlong
    <3> QED
      BY <2>1, <2>3, <3>1, <3>2 DEF ReplayedSoFar
  <2> QED
    BY <1>l, <2>1, <2>2, <2>3
<1>4. CASE HostWaits
  <2>1. UNCHANGED <<mode, call, log, snapshot, todo, diverted, current_state, before, pc, transition, result>>
    BY <1>4 DEF HostWaits, Tick, machine, frame
  <2> QED
    BY <1>l, <2>1 DEF Along, ReplayedSoFar
\* What the host makes of a call that ended.
<1>5. CASE Record
  <2>1. /\ mode = "live" /\ pc = "idle" /\ call # None /\ result.kind = "ok" /\ mode' = "live"
        /\ snapshot' = current_state /\ call' = None /\ current_state' = current_state /\ pc' = "idle"
        /\ call \in Event \/ (call = "poll" /\ call \notin Event)
    BY <1>5, HandlersAssumption DEF Record, vars, machine, RInv, RType
  <2>2. Along(snapshot)'
    BY <2>1, HandlersAssumption DEF Along
  <2>3. ASSUME ~diverted' PROVE snapshot' = Outcome(log')
    <3>1. ~diverted /\ Along(snapshot) /\ snapshot = Outcome(log)
      BY <1>5, <2>1, <2>3 DEF Record
    <3>2. CASE call \in Event
      <4>1. log' = Append(log, call)
        BY <1>5, <3>2, HandlersAssumption DEF Record
      <4>2. current_state = Leads[snapshot][call]
        BY <2>1, <3>1, <3>2, CallEnds
      <4> QED
        BY <1>t, <2>1, <3>1, <3>2, <4>1, <4>2, OutcomeOfOneMore
    <3>3. CASE call = "poll"
      <4>1. log' = log /\ current_state = before.state
        BY <1>5, <2>3, <3>3 DEF Record
      <4>2. current_state = snapshot
        BY <2>1, <3>1, <4>1, CallEnds
      <4> QED
        BY <2>1, <3>1, <4>1, <4>2
    <3> QED
      BY <2>1, <3>2, <3>3
  <2> QED
    BY <1>l, <2>1, <2>2, <2>3
<1>6. CASE GoOn
  <2>1. /\ mode = "live" /\ pc = "idle" /\ call # None /\ result.kind \in {"err", "dropped"} /\ mode' = "live"
        /\ UNCHANGED <<log, snapshot, current_state, pc>> /\ call' = None
        /\ ~diverted' => ~diverted /\ ~half_entered
    BY <1>6 DEF GoOn, vars, machine
  <2>2. ASSUME ~diverted' PROVE Along(snapshot)'
    <3>1. current_state = snapshot
      BY <2>1, <2>2, CallEnds
    <3> QED
      BY <2>1, <3>1, HandlersAssumption DEF Along
  <2> QED
    BY <1>l, <2>1, <2>2
<1>7. CASE Replayed
  <2>1. /\ mode = "replaying" /\ pc = "idle" /\ call # None /\ call' = None
        /\ UNCHANGED <<log, snapshot, diverted, current_state, pc>>
        /\ \/ result.kind = "ok" /\ todo' = Tail(todo) /\ UNCHANGED mode
           \/ mode' = "down"
    BY <1>7 DEF Replayed, vars, machine
  <2>2. ASSUME mode' = "replaying" PROVE ReplayedSoFar'
    <3>1. PICK done \in Seq(Event) : log = done \o todo /\ Along(Outcome(done))
      BY <2>1 DEF ReplayedSoFar
    <3>2. result.kind = "ok" /\ todo' = Tail(todo) /\ todo # <<>> /\ call = Head(todo)
      BY <2>1, <2>2 DEF ReplayedSoFar, RInv, RType
    <3>3. PICK e \in Event : e = call
      BY <1>t, <3>2, ReplayHead
    <3>4. Append(done, e) \in Seq(Event) /\ log = Append(done, e) \o Tail(todo)
      BY <1>t, <3>1, <3>2, <3>3, ReplayHead
    <3>5. current_state = Leads[Outcome(done)][e]
      BY <2>1, <3>1, <3>2, <3>3, CallEnds
    <3>6. current_state = Outcome(Append(done, e))
      BY <3>5, OutcomeOfOneMore
    <3>7. Along(Outcome(Append(done, e)))'
      BY <1>l, <2>1, <3>6, HandlersAssumption DEF Along
    <3> QED
      BY <2>1, <3>2, <3>4, <3>7 DEF ReplayedSoFar
  <2> QED
    BY <1>l, <2>1, <2>2
\* The machine is lost and rebuilt.
<1>8. CASE Crash
  BY <1>l, <1>8 DEF Crash
<1>9. CASE Restore
  <2>1. mode' = "live" /\ current_state' = snapshot /\ pc' = "idle" /\ call' = None
        /\ UNCHANGED <<log, snapshot, diverted>>
    BY <1>9, <1>t DEF Restore, New, RInv, RType
  <2> QED
    BY <1>l, <2>1, HandlersAssumption DEF Along
<1>10. CASE StartReplay
  <2>1. mode' = "replaying" /\ current_state' = Initial /\ pc' = "idle" /\ call' = None /\ todo' = log
        /\ UNCHANGED <<log, snapshot, diverted>>
    BY <1>10, <1>t DEF StartReplay, New, RInv, RType
  <2>2. log = <<>> \o log /\ <<>> \in Seq(Event)
    BY <1>t
  <2>3. Along(Initial)'
    BY <2>1, HandlersAssumption DEF Along
  <2>4. ReplayedSoFar'
    BY <1>l, <2>1, <2>2, <2>3, OutcomeOfNone DEF ReplayedSoFar
  <2> QED
    BY <1>l, <2>1, <2>4
<1>11. CASE Replay
  <2>1. mode = "replaying" /\ call = None /\ Handle(Head(todo)) /\ call' = Head(todo) /\ Head(todo) \in Event
        /\ UNCHANGED <<mode, log, snapshot, todo, diverted>>
    BY <1>11, <1>t DEF Replay, Idle
  <2>2. PICK done \in Seq(Event) : log = done \o todo /\ Along(Outcome(done))
    BY <2>1 DEF ReplayedSoFar
  <2>3. Along(Outcome(done))'
    BY <1>l, <2>1, <2>2, BeginAlong
  <2> QED
    BY <1>l, <2>1, <2>2, <2>3 DEF ReplayedSoFar
<1>12. CASE EndReplay
  <2>1. /\ mode = "replaying" /\ pc = "idle" /\ call = None /\ todo = <<>> /\ mode' = "live"
        /\ snapshot' = current_state /\ UNCHANGED <<log, call, current_state, pc>>
    BY <1>12 DEF EndReplay, Idle, vars, machine
  <2>2. PICK done \in Seq(Event) : log = done \o todo /\ Along(Outcome(done))
    BY <2>1 DEF ReplayedSoFar
  <2>3. log = done
    BY <2>1, <2>2
  <2>4. current_state = Outcome(log)
    BY <2>1, <2>2, <2>3 DEF Along
  <2> QED
    BY <1>l, <2>1, <2>4, HandlersAssumption DEF Along
<1>13. CASE UNCHANGED rvars
  <2>1. UNCHANGED <<mode, call, log, snapshot, todo, diverted, current_state, before, pc, transition, result>>
    BY <1>13 DEF rvars, vars, machine, frame
  <2> QED
    BY <1>l, <2>1 DEF Along, ReplayedSoFar
<1> QED
  BY <1>1, <1>2, <1>3, <1>4, <1>5, <1>6, <1>7, <1>8, <1>9, <1>10, <1>11, <1>12, <1>13 DEF RNext

\* Whatever fails, is dropped or cut off by a crash, and whichever way the machine
\* is recovered, the rows lead over the logged events to the state saved and to the
\* state the machine is in, and events that only the unhandled hook took lead
\* nowhere (lib.rs:76-78, test_state_persistence, machine.rs:144-149).
THEOREM LogExplains == RSpec => []LogExplainsState
<1>1. RInit => RInv /\ Told
  <2> SUFFICES ASSUME RInit PROVE Told
    BY InitRecovery
  <2>1. /\ mode = "live" /\ call = None /\ pc = "idle" /\ log = <<>> /\ snapshot = Initial
        /\ current_state = Initial
    BY DEF RInit, Init
  <2> QED
    BY <2>1, OutcomeOfNone, HandlersAssumption DEF Told, Along
<1>2. RInv /\ Told /\ [RNext]_rvars => RInv' /\ Told'
  BY NextTold, NextEngine, NextHostType, NextRecorded, NextReplayed DEF RInv
<1>3. RInv /\ Told => LogExplainsState
  BY DEF Told, Along, LogExplainsState, Idle
<1> QED
  BY <1>1, <1>2, <1>3, PTL DEF RSpec
=============================================================================
