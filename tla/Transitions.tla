----------------------------- MODULE Transitions -----------------------------
(***************************************************************************)
(* How a handler makes the Transition it returns: Transition::to and stay  *)
(* with their builders (src/src/types.rs), and the constructors goto,      *)
(* goto_with_actions, stay and stay_with_actions (src/src/transitions.rs). *)
(* Nothing here has state: a builder consumes itself, and a chain of calls *)
(* is a run over its calls.                                                *)
(***************************************************************************)
EXTENDS Naturals, Sequences, SequencesExt, Runs

CONSTANTS
    HostAction,     \* the actions of the host
    MaxGiven,       \* bound: the actions of a list passed to a call
    MaxChain        \* bound: the calls between to or stay and build or in_state

ASSUME TransitionsAssumption == MaxGiven \in Nat /\ MaxChain \in Nat

Transition(s, actions) == [next_state |-> s, actions |-> actions]

Goto(s)                               == Transition(s, <<>>)
GotoWithActions(s, given)             == Transition(s, given)
StayHere(current_state)               == Transition(current_state, <<>>)
StayWithActions(current_state, given) == Transition(current_state, given)
-----------------------------------------------------------------------------
\* A builder is its list of actions; the state waits in TransitionBuilder from
\* the start, and comes to StayBuilder with the last call.
NewBuilder == <<>>

\* Mutated form: the new list goes behind the old one.
WithActionsExtending(builder, given) == builder \o given

\* with_actions replaces whatever the chain has collected.
WithActions(builder, given) == given

WithAction(builder, action) == Append(builder, action)

Given == BoundedSeq(HostAction, MaxGiven)
BuilderCall == [op : {"with_actions"}, given : Given] \cup [op : {"with_action"}, given : HostAction]

Collect ==
    [builder \in Seq(HostAction) |->
        [call \in BuilderCall |-> IF call.op = "with_actions" THEN WithActions(builder, call.given)
                                                              ELSE WithAction(builder, call.given)]]
Collected(chain) == RunOver(Collect, NewBuilder, chain)

\* Transition::to(s) ... .build() and Transition::stay() ... .in_state(s)
To(s, chain)   == Transition(s, Collected(chain))
Stay(chain, s) == Transition(s, Collected(chain))
-----------------------------------------------------------------------------
\* The calls of a chain that replace the list, and the actions added one by one
\* after call i.
Replaces(chain) == {i \in DOMAIN chain : chain[i].op = "with_actions"}
AddedAfter(chain, i) == [j \in 1 .. Len(chain) - i |-> chain[i + j].given]

Chains == BoundedSeq(BuilderCall, MaxChain)

\* The last whole list a chain gives, if there is one, and every single action it
\* gives after that, in order.
Meant(chain) ==
    LET last == IF Replaces(chain) = {} THEN 0 ELSE Max(Replaces(chain))
    IN  (IF last = 0 THEN <<>> ELSE chain[last].given) \o AddedAfter(chain, last)
=============================================================================
