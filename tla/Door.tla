-------------------------------- MODULE Door --------------------------------
(***************************************************************************)
(* The doors of the crate's examples: src/examples/simple_fsm.rs, whose    *)
(* handlers write to a shared log themselves, the quick start and the      *)
(* timed door of src/src/lib.rs, whose actions do.  What reaches the log   *)
(* from where, when a host executes the actions, ignores them (as the main *)
(* of simple_fsm.rs does) or drops a call at an await.                     *)
(*                                                                         *)
(* None of the machines has hooks, so handle is: dispatch, the handler,    *)
(* commit; MealyMachine gives the general picture.  A handler may make the *)
(* transition it returns with the helpers of Transitions.                  *)
(***************************************************************************)
EXTENDS Transitions

CONSTANTS
    None,
    MaxHandled,     \* bound: events the door takes
    MaxTime         \* bound: the clock stops here, or at a later deadline

VARIABLES
    door,           \* which of the three
    state, state_timeout, now,
    pc,             \* "idle", or the await of a "handler" or an "action"
    actions,        \* what the last call returned and is not executed yet
    log,
    handled,        \* events taken so far
    \* auxiliary: the states left, in order, and whether actions were given up
    history, lost

vars == <<door, state, state_timeout, now, pc, actions, log, handled, history, lost>>
-----------------------------------------------------------------------------
By(closed, open) == [s \in {"Closed", "Open"} |-> IF s = "Closed" THEN closed ELSE open]

\* Per state: the event with a row, the lines its handler writes to the log, the
\* lines its actions write, and the timeout of the state.  waits: whether
\* handlers and actions await the lock of the log.
Simple == [ event |-> By("Open", "Close"), timeout |-> By(None, None), waits |-> TRUE,
            writes |-> By(<<"Opening door">>, <<"Closing door">>),
            actions |-> By(<<"Ring!">>, <<"Door closed">>) ]
QuickStart == [ event |-> By("Open", "Close"), timeout |-> By(None, None), waits |-> FALSE,
                writes |-> By(<<>>, <<>>),
                actions |-> By(<<"Ring!", "Door opened">>, <<"Door closed">>) ]
Timed == [ event |-> By("Open", None), timeout |-> By(None, 1), waits |-> FALSE,
           writes |-> By(<<>>, <<>>),
           actions |-> By(<<"Opened">>, <<"Auto-closed">>) ]

Other == By("Open", "Closed")
Deadline(s) == IF door.timeout[s] = None THEN None ELSE now + door.timeout[s]

Init ==
    /\ door \in {Simple, QuickStart, Timed}
    /\ state = "Closed" /\ state_timeout = None /\ now = 0
    /\ pc = "idle" /\ actions = <<>> /\ log = <<>> /\ handled = 0
    /\ history = <<>> /\ lost = FALSE

\* A new call: what the host has not executed by now it never will.
Call(fires) ==
    /\ pc = "idle"
    /\ lost' = (lost \/ actions # <<>>) /\ actions' = <<>>
    /\ pc' = IF fires THEN "handler" ELSE "idle"
    /\ UNCHANGED <<door, state, state_timeout, now, log, history>>

Handle(event) ==
    /\ handled < MaxHandled /\ handled' = handled + 1
    /\ Call(event = door.event[state])

CheckTimeout ==
    /\ Call(state_timeout # None /\ now >= state_timeout)
    /\ UNCHANGED handled

\* Mutated form: the handler awaits once more after it has written.
HandlerWrites ==
    /\ pc = "handler"
    /\ log' = log \o door.writes[state]
    /\ pc' = "written"
    /\ UNCHANGED <<door, state, state_timeout, now, actions, handled, history, lost>>
HandlerCommits ==
    /\ pc = "written"
    /\ state' = Other[state] /\ state_timeout' = Deadline(state')
    /\ actions' = door.actions[state] /\ history' = Append(history, state)
    /\ pc' = "idle"
    /\ UNCHANGED <<door, now, log, handled, lost>>
HandlerReturnsLate == HandlerWrites \/ HandlerCommits

\* Mutated form: the timer is not started.
HandlerReturnsUntimed ==
    /\ pc = "handler" /\ pc' = "idle"
    /\ log' = log \o door.writes[state]
    /\ actions' = door.actions[state]
    /\ state' = Other[state] /\ history' = Append(history, state)
    /\ UNCHANGED <<door, state_timeout, now, handled, lost>>

\* The handler writes once it has the lock and returns; the machine moves and
\* arms the timer of the new state.
HandlerReturns ==
    /\ pc = "handler" /\ pc' = "idle"
    /\ log' = log \o door.writes[state]
    /\ actions' = door.actions[state]
    /\ state' = Other[state] /\ state_timeout' = Deadline(state')
    /\ history' = Append(history, state)
    /\ UNCHANGED <<door, now, handled, lost>>

ExecuteActions ==
    /\ pc = "idle" /\ actions # <<>> /\ pc' = "action"
    /\ UNCHANGED <<door, state, state_timeout, now, actions, log, handled, history, lost>>

\* Mutated form: an action stays in the list after it has run.
ActAgain ==
    /\ pc = "action"
    /\ log' = Append(log, Head(actions)) /\ pc' = "idle"
    /\ UNCHANGED <<door, state, state_timeout, now, actions, handled, history, lost>>

Act ==
    /\ pc = "action"
    /\ log' = Append(log, Head(actions)) /\ actions' = Tail(actions)
    /\ pc' = IF Len(actions) = 1 THEN "idle" ELSE "action"
    /\ UNCHANGED <<door, state, state_timeout, now, handled, history, lost>>

Drop ==
    /\ door.waits /\ pc # "idle" /\ pc' = "idle"
    /\ lost' = (lost \/ actions # <<>>) /\ actions' = <<>>
    /\ UNCHANGED <<door, state, state_timeout, now, log, handled, history>>

Tick ==
    /\ now < MaxTime \/ (state_timeout # None /\ now < state_timeout)
    /\ now' = now + 1
    /\ UNCHANGED <<door, state, state_timeout, pc, actions, log, handled, history, lost>>

Next ==
    \/ \E event \in {"Open", "Close"} : Handle(event)
    \/ CheckTimeout \/ HandlerReturns
    \/ ExecuteActions \/ Act
    \/ Drop \/ Tick

Spec == Init /\ [][Next]_vars

\* The host polls (as lib.rs:235-257 tells it to), time passes, handlers return.
FairSpec == Spec /\ WF_vars(CheckTimeout) /\ WF_vars(HandlerReturns) /\ WF_vars(Act) /\ WF_vars(Tick)
-----------------------------------------------------------------------------
\* The lines a table has for the states left, and those of the log that handlers
\* write.
Line == {"Opening door", "Closing door", "Ring!", "Door opened", "Door closed", "Opened", "Auto-closed"}
Telling(table) == [lines \in Seq(Line) |-> [s \in {"Closed", "Open"} |-> lines \o table[s]]]
Lines(table) == RunOver(Telling(table), <<>>, history)
Story == Lines([s \in {"Closed", "Open"} |-> door.writes[s] \o door.actions[s]])

Written(line) == \E s \in {"Closed", "Open"} : Contains(door.writes[s], line)
Keeping == [lines \in Seq(Line) |-> [line \in Line |-> IF Written(line) THEN Append(lines, line) ELSE lines]]
HandlerLines == RunOver(Keeping, <<>>, log)

\* What handlers write themselves tells the machine's history exactly, however
\* many calls were refused or dropped and whatever happened to the actions: the
\* write and the transition share one step.
HandlerLinesAreHistory == HandlerLines = Lines(door.writes)

\* What actions write follows the transitions exactly, each once and in order,
\* as long as the host executes what it is given and drops nothing.
LogTellsStory == ~lost => log \o actions = Story

\* A handler that runs may make its transition with any chain of either builder,
\* in whatever order the calls come: it is the transition a constructor makes of
\* the last whole list given and the single actions given after it.  An action
\* given before a later with_actions is gone.
ChainIsLastList ==
    pc = "handler" =>
        \A chain \in Chains :
            /\ To(Other[state], chain) = GotoWithActions(Other[state], Meant(chain))
            /\ Stay(chain, state) = StayWithActions(state, Meant(chain))
            /\ Meant(chain) = <<>> => /\ To(Other[state], chain) = Goto(Other[state])
                                     /\ Stay(chain, state) = StayHere(state)

\* The timed door does not stay open.
OpenDoorCloses == (door = Timed /\ state = "Open") ~> state = "Closed"
=============================================================================
