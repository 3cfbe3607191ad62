------------------------------ MODULE FsmTypes ------------------------------
(***************************************************************************)
(* What the builder hands to the runtime: the names dispatch works with    *)
(* and the five handler tables (src/src/types.rs, the fields of            *)
(* StateMachine in src/src/machine.rs).  A handler is opaque host code; a  *)
(* table says under which names one exists.                                *)
(***************************************************************************)
EXTENDS Integers, Sequences

CONSTANTS
    Variant,        \* names a state may have, whether or not a state value has them
    State,          \* the state values, several of which may share a variant
    VariantName,    \* [State -> Variant], StateVariant::variant_name
    Event,          \* the event variants: the only part of an event dispatch reads
    MaxInstant,     \* the last point in time an Instant can represent
    None            \* Rust's Option::None

Wildcard == "_"
Name == Variant \cup {Wildcard}
Key == Name \X Event

ASSUME VariantAssumption == Wildcard \notin Variant /\ VariantName \in [State -> Variant]
ASSUME InstantAssumption == MaxInstant \in Nat
ASSUME NoneAssumption == None \notin Nat /\ None \notin State /\ None \notin Name

\* The tables a machine is created with: keys of the transition handlers, the
\* names with entry and exit hooks, the timeout of each name that has one, and
\* whether there is an unhandled hook.
TablesType(t) ==
    /\ t.transitions \in SUBSET Key
    /\ t.entry_handlers \in SUBSET Name
    /\ t.exit_handlers \in SUBSET Name
    /\ DOMAIN t.timeout_handlers \in SUBSET Name
    /\ t.timeout_handlers \in [DOMAIN t.timeout_handlers -> Nat]
    /\ t.unhandled_handler \in BOOLEAN

\* The strict checks of try_build: the initial variant has a row of its own or a
\* timeout.  A wildcard row does not count.
HasOwnHandler(t, v) == v \in DOMAIN t.timeout_handlers \/ \E e \in Event : <<v, e>> \in t.transitions

\* An Instant cannot hold every sum: adding a Duration panics out of range.
InRange(instant) == instant <= MaxInstant
=============================================================================
