------------------------------- MODULE Ledger -------------------------------
(***************************************************************************)
(* The account of src/tests/circle_4_mathematical_properties.rs under the  *)
(* delivery lib.rs describes: the machine is handed events in any order    *)
(* and any number of times.  Credits are deduplicated by the ids kept in   *)
(* the machine's state; debits, subtractions and appends are not.  A       *)
(* handler writes the operation log of its context, for whose lock it      *)
(* waits, before it returns.                                               *)
(*                                                                         *)
(* A call may be dropped while it waits, and a host may restart: the state *)
(* of the machine is kept, the context (log, counter) is a new one, and    *)
(* the actions not yet executed are gone.                                  *)
(***************************************************************************)
EXTENDS Integers, Sequences, FiniteSets, Runs

CONSTANTS
    Operation,      \* [kind, id, amount]: the events other than MarkOfBeast
    Limit,          \* i64::MAX, where addition saturates
    Mark,           \* 666
    MaxHandled,     \* bound: events handed to the machine
    None

Kinds == {"Credit", "Debit", "Subtract", "Append"}
ASSUME LedgerAssumption ==
    /\ \A o \in Operation : o.kind \in Kinds /\ o.amount \in Nat
    /\ Limit \in Nat /\ Mark \in Nat /\ MaxHandled \in Nat
    /\ None \notin Operation

VARIABLES
    state,          \* BeastState, the machine's state
    duplicate_count, operation_log,     \* its context
    call,           \* the event whose handler waits for the log
    pending,        \* actions returned and not yet executed
    \* auxiliary: how many events were handed over, the operations whose action was
    \* executed, whether an addition saturated, and how long the list of operations
    \* was when the context was made
    handled, executed, saturated, since

vars == <<state, duplicate_count, operation_log, call, pending, handled, executed, saturated, since>>
-----------------------------------------------------------------------------
Counting(balance, operations, ids) ==
    [kind |-> "Counting", balance |-> balance, operations |-> operations, operation_ids |-> ids]
Corrupted == [kind |-> "Corrupted"]

Entry(what, o) == [what |-> what, operation |-> o]

Init ==
    /\ state = Counting(0, <<>>, {})
    /\ duplicate_count = 0 /\ operation_log = <<>>
    /\ call = None /\ pending = <<>>
    /\ handled = 0 /\ executed = <<>>
    /\ saturated = FALSE /\ since = 0
-----------------------------------------------------------------------------
Saturating(n) == IF n > Limit THEN Limit ELSE IF n < -Limit - 1 THEN -Limit - 1 ELSE n

Delta(o) == CASE o.kind = "Credit" -> o.amount
              [] o.kind \in {"Debit", "Subtract"} -> -o.amount
              [] o.kind = "Append" -> 0

\* Mutated form: the context decides whether the credit is new.
DuplicateInContext(o) ==
    o.kind = "Credit" /\ \E i \in DOMAIN operation_log : operation_log[i] = Entry("handled", o)

\* Only credits are looked up; the state decides.
Duplicate(o) == o.kind = "Credit" /\ o.id \in state.operation_ids

\* The host hands an event to an idle machine, whose actions it has executed.
Receive ==
    /\ call = None /\ pending = <<>>
    /\ handled < MaxHandled /\ handled' = handled + 1
    /\ UNCHANGED <<operation_log, executed, saturated, since>>

\* Corrupted has no rows: handle returns Err.
HandleErr ==
    /\ state = Corrupted /\ Receive
    /\ UNCHANGED <<state, duplicate_count, call, pending>>

\* Mutated form: a credit's action is returned for duplicates too.
HandleDuplicateWithAction(o) ==
    /\ state # Corrupted /\ Duplicate(o) /\ Receive
    /\ duplicate_count' = duplicate_count + 1
    /\ pending' = <<o>>
    /\ UNCHANGED <<state, call>>

HandleDuplicate(o) ==
    /\ state # Corrupted /\ Duplicate(o) /\ Receive
    /\ duplicate_count' = duplicate_count + 1
    /\ UNCHANGED <<state, call, pending>>

Handle(o) ==
    /\ state # Corrupted /\ ~Duplicate(o) /\ Receive
    /\ call' = o
    /\ UNCHANGED <<state, duplicate_count, pending>>

\* MarkOfBeast compares the balance, the operations and the context's counter; the
\* action it returns then does nothing when executed.
HandleMark ==
    /\ state # Corrupted /\ Receive
    /\ state' = IF Mark \in {state.balance, Len(state.operations), duplicate_count} THEN Corrupted ELSE state
    /\ UNCHANGED <<duplicate_count, call, pending>>

\* The handler has the lock: it logs the operation and returns, and the engine
\* assigns the state, without a further await.
Logged ==
    LET o == call  sum == state.balance + Delta(o)
    IN  /\ o # None
        /\ operation_log' = Append(operation_log, Entry("handled", o))
        /\ state' = Counting(Saturating(sum), Append(state.operations, o),
                             state.operation_ids \cup (IF o.kind = "Credit" THEN {o.id} ELSE {}))
        /\ saturated' = (saturated \/ sum # Saturating(sum))
        /\ pending' = <<o>>
        /\ call' = None
        /\ UNCHANGED <<duplicate_count, handled, executed, since>>

\* Mutated form: the log is written before the handler waits.
DroppedAfterLog ==
    /\ call # None
    /\ call' = None
    /\ operation_log' = Append(operation_log, Entry("handled", call))
    /\ UNCHANGED <<state, duplicate_count, pending, handled, executed, saturated, since>>

\* The future of handle is dropped while its handler waits for the lock.
Dropped ==
    /\ call # None
    /\ call' = None
    /\ UNCHANGED <<state, duplicate_count, operation_log, pending, handled, executed, saturated, since>>

\* RecordOperation
ExecuteAction ==
    /\ pending # <<>>
    /\ operation_log' = Append(operation_log, Entry("executed", Head(pending)))
    /\ executed' = Append(executed, Head(pending))
    /\ pending' = Tail(pending)
    /\ UNCHANGED <<state, duplicate_count, call, handled, saturated, since>>

Restart ==
    /\ operation_log' = <<>>
    /\ duplicate_count' = 0
    /\ call' = None /\ pending' = <<>>
    /\ since' = IF state = Corrupted THEN 0 ELSE Len(state.operations)
    /\ UNCHANGED <<state, handled, executed, saturated>>

Next ==
    \/ \E o \in Operation : Handle(o) \/ HandleDuplicate(o)
    \/ HandleMark \/ HandleErr
    \/ Logged \/ Dropped \/ ExecuteAction \/ Restart

Spec == Init /\ [][Next]_vars
-----------------------------------------------------------------------------
\* How often the credit with this id is in the sequence.
Credited(seq, id) == Cardinality({i \in DOMAIN seq : seq[i].kind = "Credit" /\ seq[i].id = id})
CreditIds == {o.id : o \in {p \in Operation : p.kind = "Credit"}}

\* What the operations come to, one after the other.
Adding == [sum \in Int |-> [o \in Operation |-> sum + Delta(o)]]
Sum(ops) == RunOver(Adding, 0, ops)

\* The operations a log says were handled, in the log's order.
Entries == [what : {"handled", "executed"}, operation : Operation]
Handling == [ops \in Seq(Operation) |->
                [e \in Entries |-> IF e.what = "handled" THEN Append(ops, e.operation) ELSE ops]]
HandledIn(log) == RunOver(Handling, <<>>, log)

\* However often a credit is delivered, in whatever order, and whatever calls are
\* dropped and hosts restarted in between, it is in the balance once it is in the
\* ids, exactly once; everything else counts each time it is handled.
CreditsCountOnce ==
    state # Corrupted =>
        /\ \A id \in CreditIds : Credited(state.operations, id) = IF id \in state.operation_ids THEN 1 ELSE 0
        /\ ~saturated => state.balance = Sum(state.operations)

\* The log of a context shows exactly what the machine did since the context was
\* made: no operation is logged and then lost with a dropped call, and none
\* changes the state unlogged.
LogMatchesState ==
    state # Corrupted =>
        HandledIn(operation_log) = SubSeq(state.operations, since + 1, Len(state.operations))

\* The action of a credit is executed at most once, over all deliveries and
\* restarts, and only if the credit is in the state.  (A restart between the two
\* loses the action for good: the duplicate that is delivered again has none.)
ActionAtMostOnce ==
    \A id \in CreditIds :
        /\ Credited(executed \o pending, id) <= 1
        /\ Credited(executed, id) = 1 /\ state # Corrupted => id \in state.operation_ids
=============================================================================
