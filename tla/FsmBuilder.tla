----------------------------- MODULE FsmBuilder -----------------------------
(***************************************************************************)
(* The builder behind fsm! (src/src/builder.rs): FsmBuilder, WhenBuilder   *)
(* and TimeoutBuilder consume themselves, so a configuration is one chain  *)
(* of calls and stage says which of the three types holds it.  Handlers    *)
(* are identified by the position of the call that registered them.        *)
(***************************************************************************)
EXTENDS FsmTypes

CONSTANTS
    Durations,      \* the durations given to timeout
    MaxCalls        \* bound: the registering calls of a chain

ASSUME BuilderAssumption == Durations \subseteq Nat /\ MaxCalls \in Nat

VARIABLES
    \* the fields of FsmBuilder; the maps are functions whose domain is their keys
    initial_state, transitions, entry_handlers, exit_handlers, timeout_handlers,
    duplicate_handlers, strict_validation, unhandled_handler,
    \* which builder type the chain has reached, and the name when gave it
    stage, state_name,
    \* why try_build failed
    error,
    \* auxiliary: every registering call so far
    calls

maps == <<transitions, entry_handlers, exit_handlers, timeout_handlers>>
vars == <<maps, initial_state, duplicate_handlers, strict_validation,
          unhandled_handler, stage, state_name, error, calls>>

\* HashMap::insert: a key that is already there gets the new value.
Insert(map, key, value) ==
    [k \in DOMAIN map \cup {key} |-> IF k = key THEN value ELSE map[k]]

Call(op, via, owner, event) == [op |-> op, via |-> via, state |-> owner, event |-> event]

\* One more registering call; its handler is the position it gets.
Register(op, owner, event) ==
    /\ Len(calls) < MaxCalls
    /\ calls' = Append(calls, Call(op, stage, owner, event))
    /\ UNCHANGED <<initial_state, strict_validation, error>>
Handler == Len(calls) + 1

NoError == [kind |-> "none", key |-> <<>>]

\* FsmBuilder::new
Init ==
    /\ initial_state \in State
    /\ transitions = <<>> /\ entry_handlers = <<>> /\ exit_handlers = <<>> /\ timeout_handlers = <<>>
    /\ duplicate_handlers = <<>>
    /\ strict_validation = TRUE
    /\ unhandled_handler = None
    /\ stage = "fsm" /\ state_name = None
    /\ error = NoError
    /\ calls = <<>>
-----------------------------------------------------------------------------
Strict ==
    /\ stage = "fsm"
    /\ strict_validation' = TRUE
    /\ UNCHANGED <<maps, initial_state, duplicate_handlers, unhandled_handler, stage, state_name, error, calls>>

\* when and from_any both wrap the builder; from_any's name is the wildcard.
Open(owner) ==
    /\ stage = "fsm"
    /\ stage' = "when" /\ state_name' = owner
    /\ UNCHANGED <<maps, initial_state, duplicate_handlers, strict_validation, unhandled_handler, error, calls>>
When(owner) == owner \in Variant /\ Open(owner)
FromAny == Open(Wildcard)

\* done, of WhenBuilder and of TimeoutBuilder
Done ==
    /\ stage \in {"when", "timeout"}
    /\ stage' = "fsm" /\ state_name' = None
    /\ UNCHANGED <<maps, initial_state, duplicate_handlers, strict_validation, unhandled_handler, error, calls>>

WhenUnhandled ==
    /\ stage = "fsm"
    /\ Register("unhandled", None, None)
    /\ unhandled_handler' = Handler
    /\ UNCHANGED <<maps, duplicate_handlers, stage, state_name>>

OnEntry(owner) ==
    /\ stage = "fsm"
    /\ Register("on_entry", owner, None)
    /\ entry_handlers' = Insert(entry_handlers, owner, Handler)
    /\ UNCHANGED <<transitions, exit_handlers, timeout_handlers,
                   duplicate_handlers, unhandled_handler, stage, state_name>>

OnExit(owner) ==
    /\ stage = "fsm"
    /\ Register("on_exit", owner, None)
    /\ exit_handlers' = Insert(exit_handlers, owner, Handler)
    /\ UNCHANGED <<transitions, entry_handlers, timeout_handlers,
                   duplicate_handlers, unhandled_handler, stage, state_name>>

\* Mutated form: no check for a key that is already there.
NeverRegistered(key) == FALSE

\* Mutated form: the check compares the event alone.
EventRegistered(key) == \E k \in DOMAIN transitions : k[2] = key[2]

\* The check of WhenBuilder::on.
Registered(key) == key \in DOMAIN transitions

\* WhenBuilder::on notes a key that is already there, and overwrites it all the same.
WhenOn(e) ==
    LET key == <<state_name, e>>
    IN  /\ stage = "when"
        /\ Register("on", state_name, e)
        /\ \/ Registered(key) /\ duplicate_handlers' = Append(duplicate_handlers, key)
           \/ ~Registered(key) /\ UNCHANGED duplicate_handlers
        /\ transitions' = Insert(transitions, key, Handler)
        /\ UNCHANGED <<entry_handlers, exit_handlers, timeout_handlers, unhandled_handler, stage, state_name>>

\* Mutated form: the name moves out of the builder with the handler.
WhenTimeoutTakesName(d) ==
    /\ stage = "when"
    /\ Register("timeout", state_name, None)
    /\ timeout_handlers' = Insert(timeout_handlers, state_name, [duration |-> d, handler |-> Handler])
    /\ stage' = "timeout" /\ state_name' = None
    /\ UNCHANGED <<transitions, entry_handlers, exit_handlers, duplicate_handlers, unhandled_handler>>

WhenTimeout(d) ==
    /\ stage = "when"
    /\ Register("timeout", state_name, None)
    /\ timeout_handlers' = Insert(timeout_handlers, state_name, [duration |-> d, handler |-> Handler])
    /\ stage' = "timeout"
    /\ UNCHANGED <<transitions, entry_handlers, exit_handlers, duplicate_handlers, unhandled_handler, state_name>>

\* Mutated form: a key that is already there keeps its first handler.
TimeoutOnKeepsFirst(e) ==
    /\ stage = "timeout"
    /\ Register("on", state_name, e)
    /\ transitions' = IF <<state_name, e>> \in DOMAIN transitions THEN transitions
                      ELSE Insert(transitions, <<state_name, e>>, Handler)
    /\ UNCHANGED <<entry_handlers, exit_handlers, timeout_handlers,
                   duplicate_handlers, unhandled_handler, stage, state_name>>

\* TimeoutBuilder::on overwrites without noting anything.
TimeoutOn(e) ==
    /\ stage = "timeout"
    /\ Register("on", state_name, e)
    /\ transitions' = Insert(transitions, <<state_name, e>>, Handler)
    /\ UNCHANGED <<entry_handlers, exit_handlers, timeout_handlers,
                   duplicate_handlers, unhandled_handler, stage, state_name>>
-----------------------------------------------------------------------------
\* The tables the machine is created with.
BuiltTables ==
    [ transitions       |-> DOMAIN transitions,
      entry_handlers    |-> DOMAIN entry_handlers,
      exit_handlers     |-> DOMAIN exit_handlers,
      timeout_handlers  |-> [v \in DOMAIN timeout_handlers |-> timeout_handlers[v].duration],
      unhandled_handler |-> unhandled_handler # None ]

\* Mutated form: the last duplicate noted is reported.
LastDuplicate == duplicate_handlers[Len(duplicate_handlers)]

\* The duplicate try_build reports is the first one noted.
FirstDuplicate == Head(duplicate_handlers)

\* Mutated form: a wildcard row counts as a row of the initial state.
StrictCheckWildcard(v) == HasOwnHandler(BuiltTables, v) \/ HasOwnHandler(BuiltTables, Wildcard)

\* The strict check of the initial variant.
StrictCheck(v) == strict_validation => HasOwnHandler(BuiltTables, v)

\* try_build: duplicates, then the strict check, then StateMachine::new, which
\* panics when the initial deadline is out of range.  build is try_build with a
\* panic for each error.
Failure ==
    LET initial == VariantName[initial_state]
        startable == initial \in DOMAIN timeout_handlers
                        => InRange(timeout_handlers[initial].duration)
    IN  IF duplicate_handlers # <<>> THEN [kind |-> "DuplicateHandler", key |-> FirstDuplicate]
        ELSE IF ~StrictCheck(initial) THEN [kind |-> "BuilderError", key |-> <<>>]
        ELSE IF ~startable THEN [kind |-> "panic", key |-> <<>>]
        ELSE NoError

TryBuild ==
    /\ stage = "fsm"
    /\ error' = Failure
    /\ stage' = IF Failure = NoError THEN "built" ELSE "failed"
    /\ UNCHANGED <<maps, initial_state, duplicate_handlers, strict_validation,
                   unhandled_handler, state_name, calls>>

Next ==
    \/ Strict
    \/ \E v \in Variant : When(v)
    \/ FromAny
    \/ Done
    \/ WhenUnhandled
    \/ \E n \in Name : OnEntry(n)
    \/ \E n \in Name : OnExit(n)
    \/ \E e \in Event : WhenOn(e)
    \/ \E d \in Durations : WhenTimeout(d)
    \/ \E e \in Event : TimeoutOn(e)
    \/ TryBuild

Spec == Init /\ [][Next]_vars
-----------------------------------------------------------------------------
Stages == {"fsm", "when", "timeout", "built", "failed"}
MapType(map, keys, values) == DOMAIN map \in SUBSET keys /\ map \in [DOMAIN map -> values]

TypeOK ==
    /\ initial_state \in State
    /\ MapType(transitions, Key, Nat)
    /\ MapType(entry_handlers, Name, Nat)
    /\ MapType(exit_handlers, Name, Nat)
    /\ MapType(timeout_handlers, Name, [duration : Durations, handler : Nat])
    /\ duplicate_handlers \in Seq(Key)
    /\ strict_validation \in BOOLEAN
    /\ unhandled_handler \in Nat \cup {None}
    /\ stage \in Stages
    /\ state_name \in Name \cup {None}
    /\ stage \in {"when", "timeout"} => state_name \in Name
    /\ calls \in Seq([op : {"on", "timeout", "on_entry", "on_exit", "unhandled"},
                      via : {"fsm", "when", "timeout"},
                      state : Name \cup {None}, event : Event \cup {None}])
    /\ Len(calls) <= MaxCalls

Rows == {i \in DOMAIN calls : calls[i].op = "on"}
KeyOf(i) == <<calls[i].state, calls[i].event>>

\* Row i repeats the key of an earlier row.
Repeats(i) == i \in Rows /\ \E j \in Rows : j < i /\ KeyOf(j) = KeyOf(i)

\* h is the handler of the last call that registered op for owner.
IsLast(h, op, owner) ==
    /\ h \in DOMAIN calls /\ calls[h].op = op /\ calls[h].state = owner
    /\ \A i \in DOMAIN calls : calls[i].op = op /\ calls[i].state = owner => i <= h

\* Every map holds exactly the names and keys that were registered, each with
\* the handler registered last: nothing is lost when a chain revisits a state,
\* whichever of the three builder types it goes through.
TablesHoldLastRegistration ==
    /\ DOMAIN transitions = {KeyOf(i) : i \in Rows}
    /\ \A i \in Rows : transitions[KeyOf(i)] \in Rows /\ i <= transitions[KeyOf(i)]
    /\ \A k \in DOMAIN transitions : KeyOf(transitions[k]) = k
    /\ \A n \in Name :
          /\ IF n \in DOMAIN entry_handlers THEN IsLast(entry_handlers[n], "on_entry", n)
             ELSE \A i \in DOMAIN calls : calls[i].op = "on_entry" => calls[i].state # n
          /\ IF n \in DOMAIN exit_handlers THEN IsLast(exit_handlers[n], "on_exit", n)
             ELSE \A i \in DOMAIN calls : calls[i].op = "on_exit" => calls[i].state # n
          /\ IF n \in DOMAIN timeout_handlers THEN IsLast(timeout_handlers[n].handler, "timeout", n)
             ELSE \A i \in DOMAIN calls : calls[i].op = "timeout" => calls[i].state # n

\* try_build rejects a chain in which WhenBuilder::on repeated a row, and names
\* the row that was repeated first.
FirstRepeatIsReported ==
    /\ stage = "built" => \A i \in Rows : Repeats(i) => calls[i].via = "timeout"
    /\ error.kind = "DuplicateHandler" =>
          \E i \in Rows : /\ Repeats(i) /\ calls[i].via = "when" /\ KeyOf(i) = error.key
                          /\ \A j \in Rows : j < i /\ Repeats(j) => calls[j].via = "timeout"

\* A machine that is built is one StateMachine can start from: its tables are
\* well formed, its initial state can be left and its first deadline exists.
\* A chain is refused for its initial state only if no row and no timeout was
\* ever registered under that variant's own name.
BuiltMachineCanStart ==
    LET initial == VariantName[initial_state]
    IN  /\ stage = "built" =>
              /\ TablesType(BuiltTables)
              /\ HasOwnHandler(BuiltTables, initial)
              /\ initial \in DOMAIN timeout_handlers => InRange(timeout_handlers[initial].duration)
        /\ error.kind = "BuilderError" =>
              \A i \in DOMAIN calls : calls[i].op \in {"on", "timeout"} => calls[i].state # initial
=============================================================================
