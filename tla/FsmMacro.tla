------------------------------ MODULE FsmMacro ------------------------------
(***************************************************************************)
(* fsm! (src/obzenflow-fsm-macros/src): parse.rs reads the header and the   *)
(* states' blocks clause by clause, codegen.rs turns them into gates and   *)
(* patterns that rustc checks and a chain of builder calls that the program*)
(* makes when it runs.  The source text is any header and any sequence of  *)
(* at most MaxClauses clauses.                                             *)
(*                                                                         *)
(* A state or an event is named in the source by a path.  Codegen          *)
(* registers its last segment; the pattern it emits beside it makes rustc  *)
(* check that the path is a variant of the enum.  The two differ for a     *)
(* variant imported under another name (use E::Start as Go).  At run time  *)
(* dispatch asks variant_name(), which the derive macros generate, unless  *)
(* the type implements it by hand.                                         *)
(***************************************************************************)
EXTENDS FsmBuilder

CONSTANTS
    StatePath,      \* [variant, segment]: paths of state blocks; the variant is
                    \* None for a path that is no variant of the enum
    EventPath,      \* the same for rows and the event enum
    ByHand,         \* what a hand-written variant_name returns for each variant
    MaxClauses      \* bound: blocks and clauses of the source text

ASSUME MacroAssumption ==
    /\ \A p \in StatePath : p.variant \in Variant \cup {None} /\ p.segment \in Variant
    /\ \A p \in EventPath : p.variant \in Event \cup {None} /\ p.segment \in Event
    /\ ByHand \in [Variant \cup Event -> Variant \cup Event]
    /\ MaxClauses \in Nat

VARIABLES
    phase,          \* where the parser, the compiler or the expansion is, or that
                    \* the calls are written by hand
    header,         \* FsmSpec.state_ty ... initial_expr: the fields read so far
    types,          \* how the state and the event type come by variant_name
    states,         \* FsmSpec.states: the blocks closed so far
    block,          \* the block being read
    unhandled,      \* FsmSpec.unhandled.is_some()
    at,             \* the call of the expansion that is made next
    clauses         \* auxiliary: how much source text was read

parser == <<phase, header, types, states, block, unhandled, at, clauses>>
mvars == <<vars, parser>>

Field == <<"state", "event", "context", "action", "initial">>

\* A type derives its variant trait as an enum, derives it as a struct, or
\* implements it by hand.
TypeKind == {"enum", "struct", "by_hand"}

NoBlock == [state |-> None, rows |-> <<>>, timeout |-> None, entry |-> FALSE, exit |-> FALSE]
OpenedBlock(p) == [NoBlock EXCEPT !.state = p]

\* A machine is built by fsm!, or by a chain of builder calls written by hand
\* for types that derive their traits.
MInit ==
    /\ Init
    /\ types \in [{"state", "event"} -> TypeKind] /\ header = <<>>
    /\ \/ phase = "header"
       \/ phase = "chain" /\ \A t \in DOMAIN types : types[t] = "enum"
    /\ states = <<>> /\ block = NoBlock /\ unhandled = FALSE
    /\ at = <<0, 0>> /\ clauses = 0
-----------------------------------------------------------------------------
Read == clauses < MaxClauses /\ clauses' = clauses + 1 /\ UNCHANGED <<vars, header, types, at>>

\* The header has its five fields, each once and in this order.
ReadField ==
    /\ phase = "header"
    /\ header' = Append(header, Field[Len(header) + 1])
    /\ phase' = IF Len(header') = Len(Field) THEN "top" ELSE "header"
    /\ UNCHANGED <<vars, types, states, block, unhandled, at, clauses>>

\* A keyword other than the ones due here, or a field or clause that is not Rust.
ReadGarbage ==
    /\ phase \in {"header", "top", "block"}
    /\ phase' = "error"
    /\ UNCHANGED <<vars, header, types, states, block, unhandled, at, clauses>>

ReadState(p) ==
    /\ phase = "top" /\ Read
    /\ phase' = "block" /\ block' = OpenedBlock(p)
    /\ UNCHANGED <<states, unhandled>>

ReadOn(p) ==
    /\ phase = "block" /\ Read
    /\ block' = [block EXCEPT !.rows = Append(@, p)]
    /\ UNCHANGED <<phase, states, unhandled>>

\* timeout, on_entry and on_exit may stand once in a block; a second one is a
\* syntax error.
ReadOnce(field, value) ==
    /\ phase = "block" /\ Read
    /\ \/ /\ block[field] = NoBlock[field]
          /\ block' = [block EXCEPT ![field] = value]
          /\ UNCHANGED phase
       \/ /\ block[field] # NoBlock[field]
          /\ phase' = "error" /\ UNCHANGED block
    /\ UNCHANGED <<states, unhandled>>

ReadEndOfBlock ==
    /\ phase = "block"
    /\ phase' = "top" /\ states' = Append(states, block) /\ block' = NoBlock
    /\ UNCHANGED <<vars, header, types, unhandled, at, clauses>>

ReadUnhandled ==
    /\ phase = "top" /\ Read
    /\ \/ ~unhandled /\ unhandled' = TRUE /\ UNCHANGED phase
       \/ unhandled /\ phase' = "error" /\ UNCHANGED unhandled
    /\ UNCHANGED <<states, block>>
-----------------------------------------------------------------------------
Chain(call, arg) == <<[call |-> call, arg |-> arg]>>
Optional(given, chain) == IF given THEN chain ELSE <<>>

\* Mutated form: a block with a timeout loses its rows.
BlockCallsTimeoutOnly(b) ==
    LET owner == b.state.segment
    IN  Optional(b.entry, Chain("on_entry", owner))
        \o Optional(b.exit, Chain("on_exit", owner))
        \o Chain("when", owner)
        \o (IF b.timeout # None THEN Chain("timeout", b.timeout)
            ELSE [i \in DOMAIN b.rows |-> [call |-> "on", arg |-> b.rows[i].segment]])
        \o Chain("done", None)

\* The calls for one block: hooks, then when, its timeout, its rows and done.
BlockCalls(b) ==
    LET owner == b.state.segment
    IN  Optional(b.entry, Chain("on_entry", owner))
        \o Optional(b.exit, Chain("on_exit", owner))
        \o Chain("when", owner)
        \o Optional(b.timeout # None, Chain("timeout", b.timeout))
        \o [i \in DOMAIN b.rows |-> [call |-> "on", arg |-> b.rows[i].segment]]
        \o Chain("done", None)

\* The expansion is the calls before the blocks, those for each block i, and the
\* one after the blocks; <<i, k>> is call k of part i.
Part(i) ==
    IF i = 0 THEN Optional(unhandled, Chain("when_unhandled", None))
    ELSE IF i <= Len(states) THEN BlockCalls(states[i])
    ELSE Chain("build", None)

FirstCall == IF unhandled THEN <<0, 1>> ELSE <<1, 1>>
ThisCall  == Part(at[1])[at[2]]
NextCall  == IF at[2] < Len(Part(at[1])) THEN <<at[1], at[2] + 1>> ELSE <<at[1] + 1, 1>>

ReadEndOfInput ==
    /\ phase = "top"
    /\ phase' = "compile" /\ at' = FirstCall
    /\ UNCHANGED <<vars, header, types, states, block, unhandled, clauses>>

\* Mutated form: implementing the trait is enough.
GateAcceptsByHand(kind) == kind \in {"enum", "by_hand"}

\* require_derived_state and require_derived_event accept what the derive macros
\* marked; the derive of a struct is a compile error itself.
Gate(kind) == kind = "enum"

\* The pattern beside each block and each row.
Patterns(b) ==
    /\ b.state.variant # None
    /\ \A i \in DOMAIN b.rows : b.rows[i].variant # None

Compile ==
    /\ phase = "compile"
    /\ phase' = IF /\ \A t \in DOMAIN types : Gate(types[t])
                   /\ \A i \in DOMAIN states : Patterns(states[i])
                THEN "run" ELSE "error"
    /\ UNCHANGED <<vars, header, types, states, block, unhandled, at, clauses>>

\* What variant_name() returns for a value of a variant: the derive generates
\* one arm per variant with that variant's own identifier.
DispatchName(type, variant) == IF types[type] = "by_hand" THEN ByHand[variant] ELSE variant

\* The running program makes the next call of the expansion.
Run(call) ==
    /\ phase = "run" /\ ThisCall.call = call
    /\ at' = NextCall
    /\ UNCHANGED <<phase, header, types, states, block, unhandled, clauses>>

RunWhenUnhandled == Run("when_unhandled") /\ WhenUnhandled
RunOnEntry == Run("on_entry") /\ OnEntry(ThisCall.arg)
RunOnExit  == Run("on_exit") /\ OnExit(ThisCall.arg)
RunWhen    == Run("when") /\ When(ThisCall.arg)
RunTimeout == Run("timeout") /\ WhenTimeout(ThisCall.arg)
RunOn      == Run("on") /\ (WhenOn(ThisCall.arg) \/ TimeoutOn(ThisCall.arg))
RunDone    == Run("done") /\ Done
RunBuild   == Run("build") /\ TryBuild

CallByHand == phase = "chain" /\ Next /\ UNCHANGED parser

\* Nothing follows a syntax error or the end of build.
Finished == (phase = "error" \/ stage \in {"built", "failed"}) /\ UNCHANGED mvars

MNext ==
    \/ ReadField
    \/ ReadGarbage
    \/ \E p \in StatePath : ReadState(p)
    \/ \E p \in EventPath : ReadOn(p)
    \/ \E d \in Durations : ReadOnce("timeout", d)
    \/ ReadOnce("entry", TRUE)
    \/ ReadOnce("exit", TRUE)
    \/ ReadEndOfBlock
    \/ ReadUnhandled
    \/ ReadEndOfInput
    \/ Compile
    \/ RunWhenUnhandled \/ RunOnEntry \/ RunOnExit \/ RunWhen
    \/ RunTimeout \/ RunOn \/ RunDone \/ RunBuild
    \/ CallByHand
    \/ Finished

MSpec == MInit /\ [][MNext]_mvars
-----------------------------------------------------------------------------
\* The program's calls came out of fsm!, and how the last one ended.
Expanded(end) == phase = "run" /\ stage = end

\* The rows of the source: block i, row j.
SourceRows == {r \in (DOMAIN states) \X (1..MaxClauses) : r[2] \in DOMAIN states[r[1]].rows}
StateOf(r) == states[r[1]].state
EventOf(r) == states[r[1]].rows[r[2]]
SegmentKey(r) == <<StateOf(r).segment, EventOf(r).segment>>
Before(q, r) == q[1] < r[1] \/ (q[1] = r[1] /\ q[2] < r[2])

\* A machine that comes out of fsm! has exactly what its source declares: the
\* rows, hooks, timeouts and unhandled hook of every block, under the names the
\* blocks are written with, however the blocks are ordered or repeated.  Which of
\* two handlers or durations for one name is kept is TablesHoldLastRegistration.
TablesMatchSource ==
    Expanded("built") =>
        /\ BuiltTables.transitions = {SegmentKey(r) : r \in SourceRows}
        /\ BuiltTables.entry_handlers = {states[i].state.segment : i \in {i \in DOMAIN states : states[i].entry}}
        /\ BuiltTables.exit_handlers = {states[i].state.segment : i \in {i \in DOMAIN states : states[i].exit}}
        /\ DOMAIN BuiltTables.timeout_handlers =
              {states[i].state.segment : i \in {i \in DOMAIN states : states[i].timeout # None}}
        /\ BuiltTables.unhandled_handler = unhandled

\* Of two rows for the same names the machine keeps the last, and does so silently
\* in one place only: a repeated row passes inside a block that declares a timeout.
RepeatedRowNeedsTimeout ==
    Expanded("built") =>
        \A q, r \in SourceRows : Before(q, r) /\ SegmentKey(q) = SegmentKey(r)
                                     => states[r[1]].timeout # None

\* What the expansion refuses is wrong with the source: two rows for the same
\* names, or an initial state for which no block declares a row or a timeout, or
\* an initial timeout beyond the range of an Instant.
RefusalIsJustified ==
    LET initial == {i \in DOMAIN states : states[i].state.segment = VariantName[initial_state]}
    IN  Expanded("failed") =>
          CASE error.kind = "DuplicateHandler" ->
                 \E q, r \in SourceRows : q # r /\ SegmentKey(q) = error.key /\ SegmentKey(r) = error.key
            [] error.kind = "BuilderError" ->
                 \A i \in initial : states[i].rows = <<>> /\ states[i].timeout = None
            [] error.kind = "panic" ->
                 \E i \in initial : states[i].timeout # None /\ ~InRange(states[i].timeout)

\* Documented at CHANGELOG.md (0.3.0): "Building a machine now fails if two
\* handlers cover the same state and event", and builder.rs:55: "Duplicate
\* (state, event) handlers are always rejected."
DuplicateRowsRejected ==
    Expanded("built") =>
        \A q, r \in SourceRows : SegmentKey(q) = SegmentKey(r) => q = r

\* Documented at lib.rs:369-371: fsm! requires both traits to be derived, "so
\* every name it dispatches on is a variant identifier".  So every row of a
\* program that compiles is one dispatch finds for the variants the row names.
\* It holds of paths that end in the variant's own identifier.
RowsAreReachable ==
    Expanded("built") =>
        \A r \in SourceRows :
            /\ StateOf(r).variant \in Variant /\ EventOf(r).variant \in Event
            /\ <<DispatchName("state", StateOf(r).variant), DispatchName("event", EventOf(r).variant)>>
                  \in BuiltTables.transitions
=============================================================================
