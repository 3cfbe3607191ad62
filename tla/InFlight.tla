------------------------------ MODULE InFlight ------------------------------
(***************************************************************************)
(* Machines that track in-flight work in one shared counter and drain      *)
(* together (src/tests/circle_1_race_condition.rs).  Every task owns its   *)
(* machine; in_flight is an atomic they share, the metrics lie behind a    *)
(* lock, and a barrier of all machines and the coordinator ends the drain. *)
(*                                                                         *)
(* A task may be interrupted wherever it awaits: between two calls and     *)
(* while a handler waits for the lock or the barrier.                      *)
(***************************************************************************)
EXTENDS Naturals, FiniteSets

CONSTANTS
    Machine,
    Grow, Chaos, Drain,     \* the events of the three phases
    Coordinator,
    Wrap                    \* 2^64, or any number the counters do not reach

ASSUME InFlightAssumption ==
    /\ IsFiniteSet(Machine) /\ Coordinator \notin Machine
    /\ {Grow, Chaos, Drain} \subseteq Nat /\ Wrap \in Nat \ {0}

VARIABLES
    state, counter,         \* of each machine; Racing's counter, the last one after Racing
    pc, step, old,          \* of each task: where it waits, events handled, fetch_add's result
    in_flight, metrics,     \* the context
    present, coordinator

racevars == <<state, counter, pc, step, old, in_flight, metrics, present, coordinator>>
task == <<pc, step, old>>

RaceInit ==
    /\ state = [m \in Machine |-> "Idle"] /\ counter = [m \in Machine |-> 0]
    /\ pc = [m \in Machine |-> "loop"] /\ step = [m \in Machine |-> 0]
    /\ old = [m \in Machine |-> 0]
    /\ in_flight = 0 /\ metrics = [m \in {} |-> 0]
    /\ present = {} /\ coordinator = "waiting"
-----------------------------------------------------------------------------
\* The next event of a task's program.
Phase(m, first, length) == pc[m] = "loop" /\ step[m] \in first .. first + length - 1
Starts(m)     == Phase(m, 0, 1)
Increments(m) == Phase(m, 1, Grow + Chaos)
Decrements(m) == Phase(m, 1 + Grow, Chaos + Drain)
Drains(m)     == Phase(m, 1 + Grow + Chaos + Drain, 1)
Completes(m)  == Phase(m, 2 + Grow + Chaos + Drain, 1)

\* The machine takes its transition and the task goes to its next event.
Handled(m, next, value) ==
    /\ state' = [state EXCEPT ![m] = next] /\ counter' = [counter EXCEPT ![m] = value]
    /\ pc' = [pc EXCEPT ![m] = "loop"] /\ step' = [step EXCEPT ![m] = @ + 1]

Begin(m) ==
    /\ Starts(m) /\ state[m] = "Idle"
    /\ metrics' = [k \in DOMAIN metrics \cup {m} |-> IF k = m THEN 0 ELSE metrics[k]]
    /\ Handled(m, "Racing", 0)
    /\ UNCHANGED <<old, in_flight, present, coordinator>>

\* Increment up to the lock of the metrics ...
Increment(m) ==
    /\ Increments(m) /\ state[m] = "Racing"
    /\ old' = [old EXCEPT ![m] = in_flight] /\ in_flight' = (in_flight + 1) % Wrap
    /\ pc' = [pc EXCEPT ![m] = "increment"]
    /\ UNCHANGED <<state, counter, step, metrics, present, coordinator>>

\* Mutated form: the counter is loaded before the wait and stored after it.
IncrementReturnsStale(m) ==
    /\ pc[m] = "increment"
    /\ metrics' = [metrics EXCEPT ![m] = @ + 1]
    /\ in_flight' = old[m] + 1
    /\ Handled(m, "Racing", counter[m] + 1)
    /\ UNCHANGED <<old, present, coordinator>>

\* ... and from there to its return.
IncrementReturns(m) ==
    /\ pc[m] = "increment"
    /\ metrics' = [metrics EXCEPT ![m] = @ + 1]
    /\ Handled(m, "Racing", counter[m] + 1)
    /\ UNCHANGED <<old, in_flight, present, coordinator>>

Lowered(m) == IF counter[m] = 0 THEN 0 ELSE counter[m] - 1

\* Mutated form: fetch_sub instead of checked_sub.
DecrementWrapping(m) ==
    /\ Decrements(m) /\ state[m] = "Racing"
    /\ in_flight' = (in_flight + Wrap - 1) % Wrap
    /\ Handled(m, "Racing", Lowered(m))
    /\ UNCHANGED <<old, metrics, present, coordinator>>

\* checked_sub refuses to go below zero, and then the machine keeps its counter;
\* the machine's own counter saturates.
Decrement(m) ==
    /\ Decrements(m) /\ state[m] = "Racing"
    /\ \/ /\ in_flight > 0 /\ in_flight' = in_flight - 1
          /\ Handled(m, "Racing", Lowered(m))
       \/ /\ in_flight = 0 /\ UNCHANGED in_flight
          /\ Handled(m, "Racing", counter[m])
    /\ UNCHANGED <<old, metrics, present, coordinator>>

StartDrain(m) ==
    /\ Drains(m) /\ state[m] = "Racing"
    /\ Handled(m, "Draining", counter[m])
    /\ UNCHANGED <<old, in_flight, metrics, present, coordinator>>
-----------------------------------------------------------------------------
\* Mutated form: the coordinator is not counted.
FullOfMachines == Cardinality(present) >= Cardinality(Machine)

\* Mutated form: one participant more than there are.
FullOfOneMore == Cardinality(present) >= Cardinality(Machine) + 2

\* The barrier lets everyone pass once all machines and the coordinator came.
Full == Cardinality(present) >= Cardinality(Machine) + 1

\* DrainComplete waits at the barrier in its handler.
DrainComplete(m) ==
    /\ Completes(m) /\ state[m] = "Draining"
    /\ pc' = [pc EXCEPT ![m] = "barrier"] /\ present' = present \cup {m}
    /\ UNCHANGED <<state, counter, step, old, in_flight, metrics, coordinator>>

DrainCompleteReturns(m) ==
    /\ pc[m] = "barrier" /\ Full
    /\ Handled(m, "Done", counter[m])
    /\ UNCHANGED <<old, in_flight, metrics, present, coordinator>>

\* The coordinator waits at the barrier, joins all tasks, and looks at in_flight.
Coordinate ==
    /\ \/ /\ Coordinator \notin present /\ present' = present \cup {Coordinator}
          /\ UNCHANGED coordinator
       \/ /\ coordinator = "waiting" /\ Coordinator \in present /\ Full
          /\ coordinator' = "joining" /\ UNCHANGED present
       \/ /\ coordinator = "joining" /\ \A m \in Machine : state[m] = "Done"
          /\ coordinator' = "judging" /\ UNCHANGED present
    /\ UNCHANGED <<state, counter, task, in_flight, metrics>>

RaceNext ==
    \/ \E m \in Machine :
          \/ Begin(m) \/ Increment(m) \/ IncrementReturns(m) \/ Decrement(m)
          \/ StartDrain(m) \/ DrainComplete(m) \/ DrainCompleteReturns(m)
    \/ Coordinate

RaceSpec == RaceInit /\ [][RaceNext]_racevars

\* The runtime runs a task that can run, and every program is finite.
FairRaceSpec == RaceSpec /\ WF_racevars(RaceNext)
-----------------------------------------------------------------------------
\* The sum of f over the machines: so many pairs of a machine and a number up to
\* its own.
Total(f) == Cardinality(UNION {{m} \X (1 .. f[m]) : m \in Machine})

\* No interleaving makes the shared counter underflow or exceed what the machines
\* believe to be in flight, although a machine may decrement what another one
\* incremented and then keeps its own counter at zero.  (A machine that drains
\* counts with the last counter it had.)
Waiting == {m \in Machine : pc[m] = "increment"}
CountIsTracked == in_flight <= Total(counter) + Cardinality(Waiting)

\* If every machine ends with as many decrements as it can have made increments,
\* the counter is zero when the coordinator looks, in every interleaving: what a
\* decrement at zero wastes is never missing later.
DrainsToZero == Drain >= Grow + Chaos /\ coordinator = "judging" => in_flight = 0

\* From the moment the barrier lets the coordinator pass, the count is final.
CountIsFinal == [][coordinator # "waiting" => in_flight' = in_flight]_racevars

\* All tasks reach Done and are joined; nobody waits at the barrier for ever.
AllJoin == <>(coordinator = "judging")
=============================================================================
