-------------------------- MODULE FsmBuilderProofs --------------------------
(***************************************************************************)
(* The builder and fsm!, for chains and source texts of every length over  *)
(* every set of names: nothing registered is lost, the repeated row that   *)
(* is reported is the first one, a machine that is built can start; the    *)
(* calls fsm! expands to are a chain of the builder, and the machine they  *)
(* build has what the source declares.                                     *)
(***************************************************************************)
EXTENDS FsmMacro, TLAPS

Record == [op : {"on", "timeout", "on_entry", "on_exit", "unhandled"},
           via : {"fsm", "when", "timeout"},
           state : Name \cup {None}, event : Event \cup {None}]

LEMMA InsertType ==
    ASSUME NEW map, NEW keys, NEW values, MapType(map, keys, values),
           NEW key \in keys, NEW value \in values
    PROVE  MapType(Insert(map, key, value), keys, values)
  BY DEF MapType, Insert

\* One more registering call keeps the list of calls typed.
LEMMA RegisterType ==
    ASSUME TypeOK, NEW op \in {"on", "timeout", "on_entry", "on_exit", "unhandled"},
           NEW owner \in Name \cup {None}, NEW event \in Event \cup {None},
           stage \in {"fsm", "when", "timeout"}, Register(op, owner, event)
    PROVE  /\ calls' \in Seq(Record) /\ Len(calls') <= MaxCalls
           /\ Handler \in Nat
           /\ UNCHANGED <<initial_state, strict_validation, error>>
<1>1. calls \in Seq(Record) /\ Call(op, stage, owner, event) \in Record /\ MaxCalls \in Nat
  BY BuilderAssumption DEF TypeOK, Record, Call
<1> QED
  BY <1>1 DEF Register, Handler

LEMMA NextType == TypeOK /\ [Next]_vars => TypeOK'
<1> SUFFICES ASSUME TypeOK, [Next]_vars PROVE TypeOK'
  OBVIOUS
<1>1. CASE Strict
  BY <1>1 DEF Strict, TypeOK, maps, MapType
<1>2. ASSUME NEW v \in Variant, When(v) PROVE TypeOK'
  BY <1>2 DEF When, Open, TypeOK, maps, MapType, Name, Stages
<1>3. CASE FromAny
  BY <1>3 DEF FromAny, Open, TypeOK, maps, MapType, Name, Stages
<1>4. CASE Done
  BY <1>4 DEF Done, TypeOK, maps, MapType, Stages
<1>5. CASE WhenUnhandled
  BY <1>5, RegisterType DEF WhenUnhandled, TypeOK, maps, MapType, Record
<1>6. ASSUME NEW n \in Name, OnEntry(n) PROVE TypeOK'
  BY <1>6, RegisterType, InsertType DEF OnEntry, TypeOK, Record
<1>7. ASSUME NEW n \in Name, OnExit(n) PROVE TypeOK'
  BY <1>7, RegisterType, InsertType DEF OnExit, TypeOK, Record
<1>8. ASSUME NEW e \in Event, WhenOn(e) PROVE TypeOK'
  <2> DEFINE key == <<state_name, e>>
  <2>1. key \in Key /\ duplicate_handlers' \in Seq(Key)
    <3>1. key \in Key
      BY <1>8 DEF WhenOn, TypeOK, Key
    <3>2. duplicate_handlers' = Append(duplicate_handlers, key) \/ duplicate_handlers' = duplicate_handlers
      BY <1>8 DEF WhenOn
    <3> HIDE DEF key
    <3> QED
      BY <3>1, <3>2 DEF TypeOK
  <2>2. MapType(transitions', Key, Nat)
    BY <1>8, <2>1, RegisterType, InsertType DEF WhenOn, TypeOK
  <2> QED
    BY <1>8, <2>1, <2>2, RegisterType DEF WhenOn, TypeOK, MapType, Record
<1>9. ASSUME NEW d \in Durations, WhenTimeout(d) PROVE TypeOK'
  <2>1. Handler \in Nat
    BY DEF Handler, TypeOK
  <2>2. MapType(timeout_handlers', Name, [duration : Durations, handler : Nat])
    BY <1>9, <2>1, InsertType DEF WhenTimeout, TypeOK
  <2> QED
    BY <1>9, <2>2, RegisterType DEF WhenTimeout, TypeOK, MapType, Record, Stages
<1>10. ASSUME NEW e \in Event, TimeoutOn(e) PROVE TypeOK'
  <2>1. <<state_name, e>> \in Key
    BY <1>10 DEF TimeoutOn, TypeOK, Key
  <2>2. MapType(transitions', Key, Nat)
    BY <1>10, <2>1, RegisterType, InsertType DEF TimeoutOn, TypeOK
  <2> QED
    BY <1>10, <2>2, RegisterType DEF TimeoutOn, TypeOK, MapType, Record
<1>11. CASE TryBuild
  BY <1>11 DEF TryBuild, TypeOK, maps, MapType, Stages
<1>12. CASE UNCHANGED vars
  BY <1>12 DEF vars, TypeOK, maps, MapType
<1> QED
  BY <1>1, <1>2, <1>3, <1>4, <1>5, <1>6, <1>7, <1>8, <1>9, <1>10, <1>11, <1>12 DEF Next

\* Every reachable configuration is well typed: a chain inside a state's block
\* always has that state's name, and every key is made of names (builder.rs:57-110).
THEOREM BuilderTypeCorrect == Spec => []TypeOK
<1>1. Init => TypeOK
  BY BuilderAssumption, NoneAssumption DEF Init, TypeOK, MapType, Stages
<1> QED
  BY <1>1, NextType, PTL DEF Spec
-----------------------------------------------------------------------------
(***************************************************************************)
(* The tables as functions of the calls, so that one call more is one      *)
(* Append.                                                                 *)
(***************************************************************************)
HeldIn(c, f, op) ==
    \A n \in Name :
        IF n \in DOMAIN f
        THEN /\ f[n] \in DOMAIN c /\ c[f[n]].op = op /\ c[f[n]].state = n
             /\ \A i \in DOMAIN c : c[i].op = op /\ c[i].state = n => i <= f[n]
        ELSE \A i \in DOMAIN c : c[i].op = op => c[i].state # n

RowsOf(c) == {i \in DOMAIN c : c[i].op = "on"}
KeyIn(c, i) == <<c[i].state, c[i].event>>
RowsHeldIn(c, t) ==
    /\ DOMAIN t = {KeyIn(c, i) : i \in RowsOf(c)}
    /\ \A i \in RowsOf(c) : t[KeyIn(c, i)] \in RowsOf(c) /\ i <= t[KeyIn(c, i)]
    /\ \A k \in DOMAIN t : KeyIn(c, t[k]) = k

\* The map of timeouts without the durations.
TimeoutHandlers == [n \in DOMAIN timeout_handlers |-> timeout_handlers[n].handler]

LEMMA Appended ==
    ASSUME NEW c \in Seq(Record), NEW r \in Record
    PROVE  /\ Append(c, r) \in Seq(Record) /\ Len(c) + 1 \notin DOMAIN c
           /\ DOMAIN Append(c, r) = DOMAIN c \cup {Len(c) + 1}
           /\ \A i \in DOMAIN c : Append(c, r)[i] = c[i] /\ i \in Nat /\ i <= Len(c) + 1
           /\ Append(c, r)[Len(c) + 1] = r
           /\ Len(c) \in Nat
  OBVIOUS

LEMMA HeldKept ==
    ASSUME NEW c \in Seq(Record), NEW r \in Record, NEW f, NEW op, r.op # op, HeldIn(c, f, op)
    PROVE  HeldIn(Append(c, r), f, op)
  BY Appended DEF HeldIn

LEMMA HeldInserted ==
    ASSUME NEW c \in Seq(Record), NEW r \in Record, NEW f, r.state \in Name, HeldIn(c, f, r.op)
    PROVE  HeldIn(Append(c, r), Insert(f, r.state, Len(c) + 1), r.op)
<1> DEFINE d == Append(c, r)
           g == Insert(f, r.state, Len(c) + 1)
<1>1. /\ DOMAIN d = DOMAIN c \cup {Len(c) + 1} /\ Len(c) + 1 \notin DOMAIN c
      /\ \A i \in DOMAIN c : d[i] = c[i] /\ i \in Nat /\ i <= Len(c) + 1
      /\ d[Len(c) + 1] = r /\ Len(c) + 1 <= Len(c) + 1
  BY Appended
<1>2. /\ DOMAIN g = DOMAIN f \cup {r.state}
      /\ \A n \in DOMAIN g : g[n] = IF n = r.state THEN Len(c) + 1 ELSE f[n]
  BY DEF Insert
<1> HIDE DEF d, g
<1>3. HeldIn(d, g, r.op)
  BY <1>1, <1>2 DEF HeldIn
<1> QED
  BY <1>3 DEF d, g

LEMMA RowsKept ==
    ASSUME NEW c \in Seq(Record), NEW r \in Record, NEW t, r.op # "on", RowsHeldIn(c, t)
    PROVE  RowsHeldIn(Append(c, r), t)
<1>1. /\ RowsOf(Append(c, r)) = RowsOf(c)
      /\ \A i \in RowsOf(c) : KeyIn(Append(c, r), i) = KeyIn(c, i)
  BY Appended DEF RowsOf, KeyIn
<1>2. \A k \in DOMAIN t : t[k] \in RowsOf(c)
  BY DEF RowsHeldIn
<1> QED
  BY <1>1, <1>2 DEF RowsHeldIn

LEMMA RowsInserted ==
    ASSUME NEW c \in Seq(Record), NEW r \in Record, NEW t, r.op = "on", RowsHeldIn(c, t)
    PROVE  RowsHeldIn(Append(c, r), Insert(t, <<r.state, r.event>>, Len(c) + 1))
<1> DEFINE d == Append(c, r)
           key == <<r.state, r.event>>
           u == Insert(t, key, Len(c) + 1)
<1>1. /\ RowsOf(d) = RowsOf(c) \cup {Len(c) + 1} /\ Len(c) + 1 \notin RowsOf(c)
      /\ \A i \in RowsOf(c) : KeyIn(d, i) = KeyIn(c, i) /\ i <= Len(c) + 1
      /\ KeyIn(d, Len(c) + 1) = key /\ Len(c) + 1 <= Len(c) + 1
  BY Appended DEF RowsOf, KeyIn
<1>2. /\ DOMAIN u = DOMAIN t \cup {key}
      /\ \A k \in DOMAIN u : u[k] = IF k = key THEN Len(c) + 1 ELSE t[k]
  BY DEF Insert
<1>3. \A k \in DOMAIN t : t[k] \in RowsOf(c)
  BY DEF RowsHeldIn
<1> HIDE DEF d, u, key
<1>4. DOMAIN u = {KeyIn(d, i) : i \in RowsOf(d)}
  BY <1>1, <1>2 DEF RowsHeldIn
<1>5. \A i \in RowsOf(d) : u[KeyIn(d, i)] \in RowsOf(d) /\ i <= u[KeyIn(d, i)]
  BY <1>1, <1>2, <1>4 DEF RowsHeldIn
<1>6. \A k \in DOMAIN u : KeyIn(d, u[k]) = k
  BY <1>1, <1>2, <1>3 DEF RowsHeldIn
<1>7. RowsHeldIn(d, u)
  BY <1>4, <1>5, <1>6 DEF RowsHeldIn
<1> QED
  BY <1>7 DEF d, u, key

TablesInv ==
    /\ RowsHeldIn(calls, transitions)
    /\ HeldIn(calls, entry_handlers, "on_entry")
    /\ HeldIn(calls, exit_handlers, "on_exit")
    /\ HeldIn(calls, TimeoutHandlers, "timeout")

LEMMA TablesInvMeaning == TablesInv <=> TablesHoldLastRegistration
  BY DEF TablesInv, TablesHoldLastRegistration, RowsHeldIn, RowsOf, KeyIn, HeldIn, TimeoutHandlers,
         Rows, KeyOf, IsLast

LEMMA RegisterAppends ==
    ASSUME TypeOK, NEW op \in {"on", "timeout", "on_entry", "on_exit", "unhandled"},
           NEW owner \in Name \cup {None}, NEW event \in Event \cup {None},
           stage \in {"fsm", "when", "timeout"}, Register(op, owner, event),
           NEW r, r = Call(op, stage, owner, event)
    PROVE  /\ calls \in Seq(Record) /\ r \in Record /\ calls' = Append(calls, r)
           /\ r.op = op /\ r.via = stage /\ r.state = owner /\ r.event = event
  BY DEF Register, TypeOK, Record, Call

LEMMA NextTables == TypeOK /\ TablesInv /\ [Next]_vars => TablesInv'
<1> SUFFICES ASSUME TypeOK, TablesInv, [Next]_vars PROVE TablesInv'
  OBVIOUS
<1>1. CASE UNCHANGED <<maps, calls>>
  BY <1>1 DEF maps, TablesInv, TimeoutHandlers
<1>2. CASE WhenUnhandled
  <2> DEFINE r == Call("unhandled", stage, None, None)
  <2>1. calls \in Seq(Record) /\ r \in Record /\ calls' = Append(calls, r) /\ r.op = "unhandled"
    BY <1>2, RegisterAppends DEF WhenUnhandled
  <2> HIDE DEF r
  <2>2. UNCHANGED maps
    BY <1>2 DEF WhenUnhandled
  <2> QED
    BY <2>1, <2>2, RowsKept, HeldKept DEF TablesInv, TimeoutHandlers, maps
<1>3. ASSUME NEW n \in Name, OnEntry(n) PROVE TablesInv'
  <2> DEFINE r == Call("on_entry", stage, n, None)
  <2>1. calls \in Seq(Record) /\ r \in Record /\ calls' = Append(calls, r) /\ r.op = "on_entry" /\ r.state = n
    BY <1>3, RegisterAppends DEF OnEntry
  <2> HIDE DEF r
  <2>2. /\ UNCHANGED <<transitions, exit_handlers, timeout_handlers>>
        /\ entry_handlers' = Insert(entry_handlers, r.state, Len(calls) + 1)
    BY <1>3, <2>1 DEF OnEntry, Handler
  <2> QED
    BY <2>1, <2>2, RowsKept, HeldKept, HeldInserted DEF TablesInv, TimeoutHandlers
<1>4. ASSUME NEW n \in Name, OnExit(n) PROVE TablesInv'
  <2> DEFINE r == Call("on_exit", stage, n, None)
  <2>1. calls \in Seq(Record) /\ r \in Record /\ calls' = Append(calls, r) /\ r.op = "on_exit" /\ r.state = n
    BY <1>4, RegisterAppends DEF OnExit
  <2> HIDE DEF r
  <2>2. /\ UNCHANGED <<transitions, entry_handlers, timeout_handlers>>
        /\ exit_handlers' = Insert(exit_handlers, r.state, Len(calls) + 1)
    BY <1>4, <2>1 DEF OnExit, Handler
  <2> QED
    BY <2>1, <2>2, RowsKept, HeldKept, HeldInserted DEF TablesInv, TimeoutHandlers
<1>5. ASSUME NEW e \in Event, WhenOn(e) \/ TimeoutOn(e) PROVE TablesInv'
  <2> DEFINE r == Call("on", stage, state_name, e)
  <2>1. calls \in Seq(Record) /\ r \in Record /\ calls' = Append(calls, r)
        /\ r.op = "on" /\ r.state = state_name /\ r.event = e
    BY <1>5, RegisterAppends DEF WhenOn, TimeoutOn, TypeOK
  <2> HIDE DEF r
  <2>2. /\ UNCHANGED <<entry_handlers, exit_handlers, timeout_handlers>>
        /\ transitions' = Insert(transitions, <<r.state, r.event>>, Len(calls) + 1)
    BY <1>5, <2>1 DEF WhenOn, TimeoutOn, Handler
  <2> QED
    BY <2>1, <2>2, RowsInserted, HeldKept DEF TablesInv, TimeoutHandlers
<1>6. ASSUME NEW d \in Durations, WhenTimeout(d) PROVE TablesInv'
  <2> DEFINE r == Call("timeout", stage, state_name, None)
  <2>1. calls \in Seq(Record) /\ r \in Record /\ calls' = Append(calls, r)
        /\ r.op = "timeout" /\ r.state = state_name /\ state_name \in Name
    BY <1>6, RegisterAppends DEF WhenTimeout, TypeOK
  <2> HIDE DEF r
  <2>2. UNCHANGED <<transitions, entry_handlers, exit_handlers>>
    BY <1>6 DEF WhenTimeout
  <2>3. TimeoutHandlers' = Insert(TimeoutHandlers, r.state, Len(calls) + 1)
    BY <1>6, <2>1 DEF WhenTimeout, Handler, TimeoutHandlers, Insert
  <2> QED
    BY <2>1, <2>2, <2>3, RowsKept, HeldKept, HeldInserted DEF TablesInv
<1>7. Next => \/ UNCHANGED <<maps, calls>> \/ WhenUnhandled
              \/ \E n \in Name : OnEntry(n) \/ OnExit(n)
              \/ \E e \in Event : WhenOn(e) \/ TimeoutOn(e)
              \/ \E d \in Durations : WhenTimeout(d)
  BY DEF Next, Strict, When, FromAny, Open, Done, TryBuild, maps
<1> QED
  BY <1>1, <1>2, <1>3, <1>4, <1>5, <1>6, <1>7 DEF vars, maps

\* No chain loses a registration: every map holds exactly what was registered,
\* each name and key with the handler registered last, through all three builder
\* types (builder.rs:84-262).
THEOREM TablesCorrect == Spec => []TablesHoldLastRegistration
<1>1. Init => TablesInv
  BY DEF Init, TablesInv, RowsHeldIn, RowsOf, HeldIn, TimeoutHandlers
<1> QED
  BY <1>1, BuilderTypeCorrect, NextTables, TablesInvMeaning, PTL DEF Spec
-----------------------------------------------------------------------------
(***************************************************************************)
(* What is noted of the rows that repeat an earlier one, and what try_build *)
(* makes of it.                                                            *)
(***************************************************************************)
RepeatsIn(c, i) == i \in RowsOf(c) /\ \E j \in RowsOf(c) : j < i /\ KeyIn(c, j) = KeyIn(c, i)

\* i is the first row that WhenBuilder::on repeated.
FirstIn(c, i, key) ==
    /\ RepeatsIn(c, i) /\ c[i].via = "when" /\ KeyIn(c, i) = key
    /\ \A j \in RowsOf(c) : j < i /\ RepeatsIn(c, j) => c[j].via = "timeout"

NoneIn(c) == \A i \in RowsOf(c) : RepeatsIn(c, i) => c[i].via = "timeout"

NotedIn(c, noted) ==
    /\ noted = <<>> => NoneIn(c)
    /\ noted # <<>> => \E i \in RowsOf(c) : FirstIn(c, i, Head(noted))

\* A call that is no row, and a row, as the earlier rows see it.
LEMMA RowsAppended ==
    ASSUME NEW c \in Seq(Record), NEW r \in Record
    PROVE  /\ r.op # "on" => RowsOf(Append(c, r)) = RowsOf(c)
           /\ r.op = "on" => RowsOf(Append(c, r)) = RowsOf(c) \cup {Len(c) + 1}
           /\ \A i \in RowsOf(c) :
                 /\ KeyIn(Append(c, r), i) = KeyIn(c, i) /\ Append(c, r)[i] = c[i]
                 /\ i \in Nat /\ i < Len(c) + 1
           /\ KeyIn(Append(c, r), Len(c) + 1) = <<r.state, r.event>>
           /\ Append(c, r)[Len(c) + 1] = r /\ Len(c) + 1 \in Nat
  BY DEF RowsOf, KeyIn

\* Earlier rows repeat what they repeated before.
LEMMA RepeatsKept ==
    ASSUME NEW c \in Seq(Record), NEW r \in Record, NEW i \in RowsOf(c)
    PROVE  i \in RowsOf(Append(c, r)) /\ (RepeatsIn(Append(c, r), i) <=> RepeatsIn(c, i))
<1> DEFINE d == Append(c, r)
<1>1. /\ RowsOf(d) = RowsOf(c) \/ RowsOf(d) = RowsOf(c) \cup {Len(c) + 1}
      /\ \A j \in RowsOf(c) : KeyIn(d, j) = KeyIn(c, j) /\ j \in Nat /\ j < Len(c) + 1
      /\ Len(c) + 1 \in Nat
  BY RowsAppended
<1> HIDE DEF d
<1>2. i \in RowsOf(d) /\ (RepeatsIn(d, i) <=> RepeatsIn(c, i))
  BY <1>1 DEF RepeatsIn
<1> QED
  BY <1>2 DEF d

LEMMA FirstKept ==
    ASSUME NEW c \in Seq(Record), NEW r \in Record, NEW key, NEW i \in RowsOf(c), FirstIn(c, i, key)
    PROVE  i \in RowsOf(Append(c, r)) /\ FirstIn(Append(c, r), i, key)
<1>1. \A j \in RowsOf(Append(c, r)) : j < i => j \in RowsOf(c)
  BY RowsAppended
<1> QED
  BY <1>1, RepeatsKept, RowsAppended DEF FirstIn

\* Nothing is noted for a call that is no row, a row of TimeoutBuilder, or a new key.
LEMMA NotedKept ==
    ASSUME NEW c \in Seq(Record), NEW r \in Record, NEW noted, NotedIn(c, noted),
           r.op # "on" \/ r.via = "timeout" \/ \A i \in RowsOf(c) : KeyIn(c, i) # <<r.state, r.event>>
    PROVE  NotedIn(Append(c, r), noted)
<1>1. CASE noted # <<>>
  BY <1>1, FirstKept DEF NotedIn
<1>2. CASE noted = <<>>
  <2> SUFFICES ASSUME NEW i \in RowsOf(Append(c, r)), RepeatsIn(Append(c, r), i)
               PROVE  Append(c, r)[i].via = "timeout"
    BY <1>2 DEF NotedIn, NoneIn
  <2>1. CASE i \in RowsOf(c)
    BY <1>2, <2>1, RepeatsKept, RowsAppended DEF NotedIn, NoneIn
  <2>2. CASE i \notin RowsOf(c)
    <3>1. r.op = "on" /\ i = Len(c) + 1 /\ Append(c, r)[i] = r
      BY <2>2, RowsAppended
    <3>2. PICK j \in RowsOf(Append(c, r)) : j < i /\ KeyIn(Append(c, r), j) = KeyIn(Append(c, r), i)
      BY DEF RepeatsIn
    <3>3. j \in RowsOf(c) /\ KeyIn(c, j) = <<r.state, r.event>>
      BY <3>1, <3>2, RowsAppended
    <3> QED
      BY <3>1, <3>3
  <2> QED
    BY <2>1, <2>2
<1> QED
  BY <1>1, <1>2

\* WhenBuilder::on notes a key some earlier row has.
LEMMA NotedRepeat ==
    ASSUME NEW c \in Seq(Record), NEW r \in Record, NEW noted \in Seq(Key), NotedIn(c, noted),
           r.op = "on", r.via = "when", <<r.state, r.event>> \in Key,
           \E i \in RowsOf(c) : KeyIn(c, i) = <<r.state, r.event>>
    PROVE  NotedIn(Append(c, r), Append(noted, <<r.state, r.event>>))
<1> DEFINE key == <<r.state, r.event>>
           last == Len(c) + 1
<1>1. Append(noted, key) # <<>>
      /\ Head(Append(noted, key)) = IF noted = <<>> THEN key ELSE Head(noted)
  <2>1. key \in Key
    OBVIOUS
  <2> HIDE DEF key
  <2>2. CASE noted = <<>>
    BY <2>1, <2>2
  <2>3. CASE noted # <<>>
    BY <2>1, <2>3
  <2> QED
    BY <2>2, <2>3
<1>2. CASE noted # <<>>
  <2>1. PICK i \in RowsOf(c) : FirstIn(c, i, Head(noted))
    BY <1>2 DEF NotedIn
  <2> QED
    BY <1>1, <1>2, <2>1, FirstKept DEF NotedIn
<1>3. CASE noted = <<>>
  <2>1. last \in RowsOf(Append(c, r)) /\ RepeatsIn(Append(c, r), last)
    <3> DEFINE d == Append(c, r)
    <3>1. RowsOf(d) = RowsOf(c) \cup {last} /\ KeyIn(d, last) = key
      BY RowsAppended
    <3>2. PICK j \in RowsOf(c) : KeyIn(c, j) = key
      OBVIOUS
    <3>3. j < last /\ KeyIn(d, j) = KeyIn(c, j)
      BY <3>2, RowsAppended
    <3> HIDE DEF d
    <3>4. last \in RowsOf(d) /\ RepeatsIn(d, last)
      BY <3>1, <3>2, <3>3 DEF RepeatsIn
    <3> QED
      BY <3>4 DEF d
  <2>2. \A j \in RowsOf(Append(c, r)) :
           j < last /\ RepeatsIn(Append(c, r), j) => Append(c, r)[j].via = "timeout"
    <3> SUFFICES ASSUME NEW j \in RowsOf(Append(c, r)), j < last, RepeatsIn(Append(c, r), j)
                 PROVE  Append(c, r)[j].via = "timeout"
      OBVIOUS
    <3>1. j \in RowsOf(c)
      BY RowsAppended
    <3>2. RepeatsIn(c, j)
      BY <3>1, RepeatsKept
    <3>3. c[j].via = "timeout"
      BY <1>3, <3>1, <3>2 DEF NotedIn, NoneIn
    <3> QED
      BY <3>1, <3>3, RowsAppended
  <2>3. FirstIn(Append(c, r), last, key)
    BY <2>1, <2>2, RowsAppended DEF FirstIn
  <2> QED
    BY <1>1, <1>3, <2>1, <2>3 DEF NotedIn
<1> QED
  BY <1>2, <1>3

Noted == NotedIn(calls, duplicate_handlers)

LEMMA NextNoted == TypeOK /\ TablesInv /\ Noted /\ [Next]_vars => Noted'
<1> SUFFICES ASSUME TypeOK, TablesInv, Noted, [Next]_vars PROVE Noted'
  OBVIOUS
<1>1. CASE UNCHANGED <<calls, duplicate_handlers>>
  BY <1>1 DEF Noted
<1>2. ASSUME NEW op \in {"timeout", "on_entry", "on_exit", "unhandled"}, NEW owner \in Name \cup {None},
             Register(op, owner, None), stage \in {"fsm", "when", "timeout"}, UNCHANGED duplicate_handlers
      PROVE  Noted'
  <2>1. PICK r \in Record : calls \in Seq(Record) /\ calls' = Append(calls, r) /\ r.op = op
    BY <1>2, RegisterAppends
  <2> QED
    BY <1>2, <2>1, NotedKept DEF Noted
<1>3. ASSUME NEW e \in Event, TimeoutOn(e) PROVE Noted'
  <2>1. PICK r \in Record : calls \in Seq(Record) /\ calls' = Append(calls, r) /\ r.via = "timeout"
    BY <1>3, RegisterAppends DEF TimeoutOn, TypeOK
  <2> QED
    BY <1>3, <2>1, NotedKept DEF Noted, TimeoutOn
<1>4. ASSUME NEW e \in Event, WhenOn(e) PROVE Noted'
  <2> DEFINE key == <<state_name, e>>
  <2>1. PICK r \in Record : /\ calls \in Seq(Record) /\ calls' = Append(calls, r)
                            /\ r.op = "on" /\ r.via = "when" /\ <<r.state, r.event>> = key
    BY <1>4, RegisterAppends DEF WhenOn, TypeOK
  <2>2. key \in Key /\ duplicate_handlers \in Seq(Key)
    BY <1>4 DEF WhenOn, TypeOK, Key
  <2>3. Registered(key) <=> \E i \in RowsOf(calls) : KeyIn(calls, i) = key
    BY DEF Registered, TablesInv, RowsHeldIn
  <2>4. \/ Registered(key) /\ duplicate_handlers' = Append(duplicate_handlers, key)
        \/ ~Registered(key) /\ UNCHANGED duplicate_handlers
    BY <1>4 DEF WhenOn
  <2> HIDE DEF key
  <2>5. CASE Registered(key)
    BY <2>1, <2>2, <2>3, <2>4, <2>5, NotedRepeat DEF Noted
  <2>6. CASE ~Registered(key)
    BY <2>1, <2>3, <2>4, <2>6, NotedKept DEF Noted
  <2> QED
    BY <2>5, <2>6
<1>5. Next => \/ UNCHANGED <<calls, duplicate_handlers>>
              \/ \E e \in Event : WhenOn(e) \/ TimeoutOn(e)
              \/ /\ UNCHANGED duplicate_handlers
                 /\ stage \in {"fsm", "when", "timeout"}
                 /\ \E op \in {"timeout", "on_entry", "on_exit", "unhandled"}, owner \in Name \cup {None} :
                       Register(op, owner, None)
  BY DEF Next, Strict, When, FromAny, Open, Done, TryBuild, WhenUnhandled, OnEntry, OnExit, WhenTimeout, TypeOK
<1> QED
  BY <1>1, <1>2, <1>3, <1>4, <1>5 DEF vars

\* How a chain ends is what try_build finds in the maps it ends with.
EndInv ==
    /\ strict_validation
    /\ stage = "built" => Failure = NoError
    /\ stage = "failed" => Failure # NoError
    /\ error = IF stage = "failed" THEN Failure ELSE NoError

LEMMA FailureKept ==
    ASSUME UNCHANGED <<maps, initial_state, duplicate_handlers, strict_validation, unhandled_handler>>
    PROVE  Failure' = Failure
  BY DEF maps, Failure, BuiltTables, FirstDuplicate, StrictCheck, HasOwnHandler

LEMMA NextEnd == EndInv /\ [Next]_vars => EndInv'
<1> SUFFICES ASSUME EndInv, [Next]_vars PROVE EndInv'
  OBVIOUS
<1>1. CASE TryBuild
  BY <1>1, FailureKept DEF TryBuild, EndInv
<1>2. CASE UNCHANGED vars
  BY <1>2, FailureKept DEF vars, EndInv
<1>3. Next /\ ~TryBuild => /\ stage \notin {"built", "failed"} /\ stage' \notin {"built", "failed"}
                          /\ error' = error /\ strict_validation'
  BY DEF EndInv, Next, Strict, When, FromAny, Open, Done, WhenUnhandled, OnEntry, OnExit, WhenOn,
         WhenTimeout, TimeoutOn, Register
<1> QED
  BY <1>1, <1>2, <1>3 DEF EndInv

BuilderInv == TypeOK /\ TablesInv /\ Noted /\ EndInv

LEMMA BuilderInvariant == Spec => []BuilderInv
<1>1. Init => TypeOK /\ TablesInv /\ Noted /\ EndInv
  <2>1. Init => TablesInv /\ Noted
    BY DEF Init, TablesInv, RowsHeldIn, RowsOf, HeldIn, TimeoutHandlers, Noted, NotedIn, NoneIn
  <2>2. Init => EndInv
    BY DEF Init, EndInv
  <2>3. Init => TypeOK
    BY BuilderAssumption, NoneAssumption DEF Init, TypeOK, MapType, Stages
  <2> QED
    BY <2>1, <2>2, <2>3
<1> QED
  BY <1>1, NextType, NextTables, NextNoted, NextEnd, PTL DEF Spec, BuilderInv

\* try_build rejects every chain in which WhenBuilder::on repeated a row, and
\* names the first one; what TimeoutBuilder::on repeats passes (builder.rs:138,
\* 253, 284).
THEOREM RepeatReported == Spec => []FirstRepeatIsReported
<1>1. ASSUME BuilderInv PROVE FirstRepeatIsReported
  <2>1. duplicate_handlers \in Seq(Key)
    BY <1>1 DEF BuilderInv, TypeOK
  <2>2. \A i : (Repeats(i) <=> RepeatsIn(calls, i)) /\ KeyOf(i) = KeyIn(calls, i)
    BY DEF Repeats, RepeatsIn, Rows, RowsOf, KeyOf, KeyIn
  <2>3. Failure = NoError => duplicate_handlers = <<>>
    BY DEF Failure, NoError
  <2>4. Failure.kind = "DuplicateHandler" => duplicate_handlers # <<>> /\ Failure.key = Head(duplicate_handlers)
    BY DEF Failure, NoError, FirstDuplicate
  <2>5. stage = "built" => NoneIn(calls)
    BY <1>1, <2>3 DEF BuilderInv, EndInv, Noted, NotedIn
  <2>6. error.kind = "DuplicateHandler" => \E i \in RowsOf(calls) : FirstIn(calls, i, error.key)
    BY <1>1, <2>4 DEF BuilderInv, EndInv, Noted, NotedIn, NoError
  <2> QED
    BY <2>2, <2>5, <2>6 DEF FirstRepeatIsReported, NoneIn, FirstIn, Rows, RowsOf
<1> QED
  BY <1>1, BuilderInvariant, PTL

\* A machine that is built has well-formed tables, an initial state that can be
\* left and a first deadline that exists; a chain is refused for its initial
\* state only if it never registered a row or a timeout of that state
\* (builder.rs:284-341, machine.rs:62).
THEOREM BuildSound == Spec => []BuiltMachineCanStart
<1>1. ASSUME BuilderInv PROVE BuiltMachineCanStart
  <2> DEFINE initial == VariantName[initial_state]
  <2>1. TypeOK /\ initial \in Variant
    BY <1>1, VariantAssumption DEF BuilderInv, TypeOK
  <2>2. TablesType(BuiltTables)
    <3>1. /\ DOMAIN transitions \in SUBSET Key /\ DOMAIN entry_handlers \in SUBSET Name
          /\ DOMAIN exit_handlers \in SUBSET Name /\ DOMAIN timeout_handlers \in SUBSET Name
      BY <2>1 DEF TypeOK, MapType
    <3>2. \A n \in DOMAIN timeout_handlers : timeout_handlers[n].duration \in Nat
      BY <2>1, BuilderAssumption DEF TypeOK, MapType
    <3> QED
      BY <3>1, <3>2 DEF TablesType, BuiltTables
  <2>3. stage = "built" => /\ HasOwnHandler(BuiltTables, initial)
                           /\ initial \in DOMAIN timeout_handlers => InRange(timeout_handlers[initial].duration)
    BY <1>1 DEF BuilderInv, EndInv, Failure, NoError, StrictCheck
  <2>4. ASSUME error.kind = "BuilderError", NEW i \in DOMAIN calls, calls[i].op \in {"on", "timeout"}
        PROVE  calls[i].state # initial
    <3>1. ~HasOwnHandler(BuiltTables, initial)
      BY <1>1, <2>4 DEF BuilderInv, EndInv, Failure, NoError, StrictCheck
    <3>2. /\ initial \notin DOMAIN timeout_handlers
          /\ \A e \in Event : <<initial, e>> \notin DOMAIN transitions
      BY <3>1 DEF HasOwnHandler, BuiltTables
    <3>3. CASE calls[i].op = "on"
      <4>1. <<calls[i].state, calls[i].event>> \in DOMAIN transitions
        BY <1>1, <3>3 DEF BuilderInv, TablesInv, RowsHeldIn, RowsOf, KeyIn
      <4>2. DOMAIN transitions \subseteq Key
        BY <2>1 DEF TypeOK, MapType
      <4> QED
        BY <3>2, <4>1, <4>2 DEF Key
    <3>4. CASE calls[i].op = "timeout"
      BY <1>1, <2>1, <3>2, <3>4 DEF BuilderInv, TablesInv, HeldIn, TimeoutHandlers, Name
    <3> QED
      BY <2>4, <3>3, <3>4
  <2> QED
    BY <2>2, <2>3, <2>4 DEF BuiltMachineCanStart
<1> QED
  BY <1>1, BuilderInvariant, PTL
-----------------------------------------------------------------------------
(***************************************************************************)
(* fsm!: which call of the expansion each clause of a block becomes.       *)
(***************************************************************************)
BlockOf(paths) ==
    [state : paths, rows : Seq(EventPath), timeout : Durations \cup {None},
     entry : BOOLEAN, exit : BOOLEAN]

One(given) == IF given THEN 1 ELSE 0

\* The last call of a hook, when, the call before the first row, and done.
Hooks(b)  == One(b.entry) + One(b.exit)
WhenAt(b) == Hooks(b) + 1
OnsAfter(b) == WhenAt(b) + One(b.timeout # None)
Size(b) == OnsAfter(b) + Len(b.rows) + 1

BlockCall(op, value) == [call |-> op, arg |-> value]

CallOf(b, k) ==
    IF b.entry /\ k = 1 THEN BlockCall("on_entry", b.state.segment)
    ELSE IF b.exit /\ k = Hooks(b) THEN BlockCall("on_exit", b.state.segment)
    ELSE IF k = WhenAt(b) THEN BlockCall("when", b.state.segment)
    ELSE IF b.timeout # None /\ k = WhenAt(b) + 1 THEN BlockCall("timeout", b.timeout)
    ELSE IF k = Size(b) THEN BlockCall("done", None)
    ELSE BlockCall("on", b.rows[k - OnsAfter(b)].segment)

LEMMA Joined ==
    ASSUME NEW S, NEW s \in Seq(S), NEW t \in Seq(S)
    PROVE  /\ s \o t \in Seq(S) /\ Len(s \o t) = Len(s) + Len(t) /\ Len(s) \in Nat /\ Len(t) \in Nat
           /\ \A i \in 1 .. Len(s) + Len(t) : (s \o t)[i] = IF i <= Len(s) THEN s[i] ELSE t[i - Len(s)]
  OBVIOUS

LEMMA Single ==
    ASSUME NEW S, NEW c \in S, NEW s, s = <<c>>
    PROVE  s \in Seq(S) /\ Len(s) = 1 /\ s[1] = c
  OBVIOUS

LEMMA Nothing ==
    ASSUME NEW S, NEW s, s = <<>>
    PROVE  s \in Seq(S) /\ Len(s) = 0
  OBVIOUS

LEMMA BlockCallsAre ==
    ASSUME NEW paths, NEW b \in BlockOf(paths)
    PROVE  /\ Len(BlockCalls(b)) = Size(b)
           /\ \A k \in 1 .. Size(b) : BlockCalls(b)[k] = CallOf(b, k)
<1> DEFINE owner == b.state.segment
           n == Len(b.rows)
           en == One(b.entry)
           ex == One(b.exit)
           ti == One(b.timeout # None)
           c1 == BlockCall("on_entry", owner)
           c2 == BlockCall("on_exit", owner)
           c3 == BlockCall("when", owner)
           c4 == BlockCall("timeout", b.timeout)
           c6 == BlockCall("done", None)
           row == [i \in DOMAIN b.rows |-> BlockCall("on", b.rows[i].segment)]
           S == {c1, c2, c3, c4, c6} \cup {BlockCall("on", b.rows[i].segment) : i \in 1 .. n}
           s1 == Optional(b.entry, <<c1>>)
           s2 == Optional(b.exit, <<c2>>)
           s3 == <<c3>>
           s4 == Optional(b.timeout # None, <<c4>>)
           s6 == <<c6>>
<1>0. n \in Nat /\ DOMAIN b.rows = 1 .. n /\ b.entry \in BOOLEAN /\ b.exit \in BOOLEAN
  BY DEF BlockOf
<1>1. BlockCalls(b) = ((((s1 \o s2) \o s3) \o s4) \o row) \o s6
  BY DEF BlockCalls, Optional, BlockCall, Chain
<1>c. /\ c1 \in S /\ c2 \in S /\ c3 \in S /\ c4 \in S /\ c6 \in S
      /\ \A i \in 1 .. n : BlockCall("on", b.rows[i].segment) \in S
  OBVIOUS
<1>15. /\ en \in {0, 1} /\ ex \in {0, 1} /\ ti \in {0, 1}
       /\ (en = 1 <=> b.entry) /\ (ex = 1 <=> b.exit) /\ (ti = 1 <=> b.timeout # None)
  BY <1>0 DEF One
<1>16. /\ en = 1 => s1 = <<c1>>
       /\ en = 0 => s1 = <<>>
  BY <1>15 DEF Optional
<1>17. /\ ex = 1 => s2 = <<c2>>
       /\ ex = 0 => s2 = <<>>
  BY <1>15 DEF Optional
<1>18. /\ ti = 1 => s4 = <<c4>>
       /\ ti = 0 => s4 = <<>>
  BY <1>15 DEF Optional
<1>19. s3 = <<c3>> /\ s6 = <<c6>>
  OBVIOUS
<1>7. row \in Seq(S) /\ Len(row) = n /\ \A i \in 1 .. n : row[i] = BlockCall("on", b.rows[i].segment)
  <2> HIDE DEF S
  <2> QED
    BY <1>0, <1>c
<1>14. /\ Hooks(b) = en + ex /\ WhenAt(b) = Hooks(b) + 1
       /\ OnsAfter(b) = WhenAt(b) + ti /\ Size(b) = OnsAfter(b) + n + 1
  BY DEF Hooks, WhenAt, OnsAfter, Size
<1> HIDE DEF S, s1, s2, s3, s4, row, s6, c1, c2, c3, c4, c6, n, en, ex, ti
<1>8. /\ en \in Nat /\ ex \in Nat /\ ti \in Nat /\ Hooks(b) \in Nat /\ WhenAt(b) \in Nat
      /\ OnsAfter(b) \in Nat /\ Size(b) \in Nat
  <2>1. en \in Nat /\ ex \in Nat /\ ti \in Nat /\ n \in Nat
    BY <1>15, <1>0
  <2> QED
    BY <1>14, <2>1
<1>2. s1 \in Seq(S) /\ Len(s1) = en /\ \A i \in 1 .. en : en = 1 /\ i = 1 /\ s1[i] = c1
  <2>1. CASE en = 1
    BY <2>1, <1>c, <1>16, Single
  <2>2. CASE en = 0
    BY <2>2, <1>16, Nothing
  <2> QED
    BY <2>1, <2>2, <1>15
<1>3. s2 \in Seq(S) /\ Len(s2) = ex /\ \A i \in 1 .. ex : ex = 1 /\ i = 1 /\ s2[i] = c2
  <2>1. CASE ex = 1
    BY <2>1, <1>c, <1>17, Single
  <2>2. CASE ex = 0
    BY <2>2, <1>17, Nothing
  <2> QED
    BY <2>1, <2>2, <1>15
<1>4. s3 \in Seq(S) /\ Len(s3) = 1 /\ s3[1] = c3
  BY <1>c, <1>19, Single
<1>5. s4 \in Seq(S) /\ Len(s4) = ti /\ \A i \in 1 .. ti : ti = 1 /\ i = 1 /\ s4[i] = c4
  <2>1. CASE ti = 1
    BY <2>1, <1>c, <1>18, Single
  <2>2. CASE ti = 0
    BY <2>2, <1>18, Nothing
  <2> QED
    BY <2>1, <2>2, <1>15
<1>6. s6 \in Seq(S) /\ Len(s6) = 1 /\ s6[1] = c6
  BY <1>c, <1>19, Single
<1> DEFINE t2 == s1 \o s2
           t3 == t2 \o s3
           t4 == t3 \o s4
           t5 == t4 \o row
           t6 == t5 \o s6
<1>9. /\ t2 \in Seq(S) /\ Len(t2) = Hooks(b)
      /\ \A i \in 1 .. Hooks(b) : t2[i] = IF i <= en THEN s1[i] ELSE s2[i - en]
  <2>1. s1 \in Seq(S) /\ Len(s1) = en /\ s2 \in Seq(S) /\ Len(s2) = ex
    BY <1>2, <1>3
  <2>2. /\ t2 \in Seq(S) /\ Len(t2) = Len(s1) + Len(s2)
        /\ \A i \in 1 .. Len(s1) + Len(s2) :
              t2[i] = IF i <= Len(s1) THEN s1[i] ELSE s2[i - Len(s1)]
    BY <2>1, Joined
  <2> HIDE DEF t2
  <2> QED
    BY <2>1, <2>2, <1>14
<1> HIDE DEF t2
<1>10. /\ t3 \in Seq(S) /\ Len(t3) = WhenAt(b)
       /\ \A i \in 1 .. WhenAt(b) : t3[i] = IF i <= Hooks(b) THEN t2[i] ELSE s3[i - Hooks(b)]
  <2>1. t2 \in Seq(S) /\ Len(t2) = Hooks(b) /\ s3 \in Seq(S) /\ Len(s3) = 1
    BY <1>9, <1>4
  <2>2. /\ t3 \in Seq(S) /\ Len(t3) = Len(t2) + Len(s3)
        /\ \A i \in 1 .. Len(t2) + Len(s3) :
              t3[i] = IF i <= Len(t2) THEN t2[i] ELSE s3[i - Len(t2)]
    BY <2>1, Joined
  <2> HIDE DEF t3
  <2> QED
    BY <2>1, <2>2, <1>14
<1> HIDE DEF t3
<1>11. /\ t4 \in Seq(S) /\ Len(t4) = OnsAfter(b)
       /\ \A i \in 1 .. OnsAfter(b) : t4[i] = IF i <= WhenAt(b) THEN t3[i] ELSE s4[i - WhenAt(b)]
  <2>1. t3 \in Seq(S) /\ Len(t3) = WhenAt(b) /\ s4 \in Seq(S) /\ Len(s4) = ti
    BY <1>10, <1>5
  <2>2. /\ t4 \in Seq(S) /\ Len(t4) = Len(t3) + Len(s4)
        /\ \A i \in 1 .. Len(t3) + Len(s4) :
              t4[i] = IF i <= Len(t3) THEN t3[i] ELSE s4[i - Len(t3)]
    BY <2>1, Joined
  <2> HIDE DEF t4
  <2> QED
    BY <2>1, <2>2, <1>14
<1> HIDE DEF t4
<1>12. /\ t5 \in Seq(S) /\ Len(t5) = OnsAfter(b) + n
       /\ \A i \in 1 .. OnsAfter(b) + n : t5[i] = IF i <= OnsAfter(b) THEN t4[i] ELSE row[i - OnsAfter(b)]
  <2>1. t4 \in Seq(S) /\ Len(t4) = OnsAfter(b) /\ row \in Seq(S) /\ Len(row) = n
    BY <1>11, <1>7
  <2>2. /\ t5 \in Seq(S) /\ Len(t5) = Len(t4) + Len(row)
        /\ \A i \in 1 .. Len(t4) + Len(row) :
              t5[i] = IF i <= Len(t4) THEN t4[i] ELSE row[i - Len(t4)]
    BY <2>1, Joined
  <2> HIDE DEF t5
  <2> QED
    BY <2>1, <2>2
<1> HIDE DEF t5
<1>13. /\ Len(t6) = Size(b)
       /\ \A i \in 1 .. Size(b) : t6[i] = IF i <= OnsAfter(b) + n THEN t5[i] ELSE s6[i - (OnsAfter(b) + n)]
  <2>1. Len(t6) = OnsAfter(b) + n + 1
        /\ \A i \in 1 .. OnsAfter(b) + n + 1 :
              t6[i] = IF i <= OnsAfter(b) + n THEN t5[i] ELSE s6[i - (OnsAfter(b) + n)]
    <3>1. t5 \in Seq(S) /\ Len(t5) = OnsAfter(b) + n /\ s6 \in Seq(S) /\ Len(s6) = 1
      BY <1>12, <1>6
    <3> QED
      BY <3>1, Joined
  <2> QED
    BY <2>1, <1>14
<1> HIDE DEF t6
<1>d. \A k : CallOf(b, k) =
         IF en = 1 /\ k = 1 THEN c1
         ELSE IF ex = 1 /\ k = Hooks(b) THEN c2
         ELSE IF k = WhenAt(b) THEN c3
         ELSE IF ti = 1 /\ k = WhenAt(b) + 1 THEN c4
         ELSE IF k = Size(b) THEN c6
         ELSE BlockCall("on", b.rows[k - OnsAfter(b)].segment)
  BY <1>15 DEF CallOf, c1, c2, c3, c4, c6
<1>n. n \in Nat
  BY <1>0
<1>e. ASSUME NEW k \in 1 .. Size(b) PROVE t6[k] = CallOf(b, k)
  <2>0. k \in Nat /\ 1 <= k /\ k <= Size(b)
    BY <1>8
  <2>1. CASE k <= Hooks(b)
    <3>1. t6[k] = t2[k]
      <4>1. t6[k] = t5[k]
        BY <2>0, <2>1, <1>n, <1>8, <1>13, <1>14, <1>15
      <4>2. t5[k] = t4[k]
        BY <2>0, <2>1, <1>n, <1>8, <1>12, <1>14, <1>15
      <4>3. t4[k] = t3[k]
        BY <2>0, <2>1, <1>n, <1>8, <1>11, <1>14, <1>15
      <4>4. t3[k] = t2[k]
        BY <2>0, <2>1, <1>n, <1>8, <1>10, <1>14, <1>15
      <4> QED
        BY <4>1, <4>2, <4>3, <4>4
    <3>2. CASE k <= en
      <4>1. en = 1 /\ k = 1 /\ t2[k] = c1
        BY <3>2, <2>0, <2>1, <1>2, <1>8, <1>9, <1>14
      <4> QED
        BY <3>1, <4>1, <1>d
    <3>3. CASE k > en
      <4>1. k - en \in 1 .. ex /\ t2[k] = s2[k - en]
        BY <3>3, <2>0, <2>1, <1>8, <1>9, <1>14
      <4>2. ex = 1 /\ k - en = 1 /\ t2[k] = c2
        BY <4>1, <1>3
      <4>3. k = Hooks(b) /\ ~(en = 1 /\ k = 1)
        BY <4>2, <2>0, <1>8, <1>14
      <4> QED
        BY <3>1, <4>2, <4>3, <1>d
    <3> QED
      BY <3>2, <3>3, <2>0, <1>8
  <2>2. CASE k = WhenAt(b)
    <3>1. t6[k] = t3[k]
      <4>1. t6[k] = t5[k]
        BY <2>0, <2>2, <1>n, <1>8, <1>13, <1>14, <1>15
      <4>2. t5[k] = t4[k]
        BY <2>0, <2>2, <1>n, <1>8, <1>12, <1>14, <1>15
      <4>3. t4[k] = t3[k]
        BY <2>0, <2>2, <1>n, <1>8, <1>11, <1>14, <1>15
      <4> QED
        BY <4>1, <4>2, <4>3
    <3>2. t3[k] = c3
      <4>1. k \in 1 .. WhenAt(b) /\ ~(k <= Hooks(b)) /\ k - Hooks(b) = 1
        BY <2>0, <2>2, <1>8, <1>14
      <4>2. t3[k] = s3[1]
        BY <4>1, <1>10
      <4> QED
        BY <4>2, <1>4
    <3>3. ~(en = 1 /\ k = 1) /\ ~(ex = 1 /\ k = Hooks(b))
      BY <2>0, <2>2, <1>8, <1>14, <1>15
    <3> QED
      BY <3>1, <3>2, <3>3, <2>2, <1>d
  <2>3. CASE k > WhenAt(b) /\ k <= OnsAfter(b)
    <3>1. t6[k] = t4[k]
      <4>1. t6[k] = t5[k]
        BY <2>0, <2>3, <1>n, <1>8, <1>13, <1>14, <1>15
      <4>2. t5[k] = t4[k]
        BY <2>0, <2>3, <1>n, <1>8, <1>12, <1>14, <1>15
      <4> QED
        BY <4>1, <4>2
    <3>2. t4[k] = s4[k - WhenAt(b)] /\ k - WhenAt(b) \in 1 .. ti
      <4>1. k - WhenAt(b) \in 1 .. ti /\ k \in 1 .. OnsAfter(b) /\ ~(k <= WhenAt(b))
        BY <2>0, <2>3, <1>8, <1>14
      <4> QED
        BY <4>1, <1>11
    <3>3. ti = 1 /\ k = WhenAt(b) + 1 /\ t4[k] = c4
      BY <3>2, <2>0, <1>5, <1>8
    <3>4. ~(en = 1 /\ k = 1) /\ ~(ex = 1 /\ k = Hooks(b)) /\ k # WhenAt(b)
      BY <2>0, <2>3, <1>8, <1>14, <1>15
    <3> QED
      BY <3>1, <3>3, <3>4, <1>d
  <2>4. CASE k > OnsAfter(b) /\ k <= OnsAfter(b) + n
    <3>1. t6[k] = t5[k]
      BY <2>0, <2>4, <1>n, <1>8, <1>13, <1>14
    <3>2. t5[k] = row[k - OnsAfter(b)] /\ k - OnsAfter(b) \in 1 .. n
      BY <2>0, <2>4, <1>n, <1>8, <1>12
    <3>3. t6[k] = BlockCall("on", b.rows[k - OnsAfter(b)].segment)
      BY <3>1, <3>2, <1>7
    <3>4. /\ ~(en = 1 /\ k = 1) /\ ~(ex = 1 /\ k = Hooks(b)) /\ k # WhenAt(b) /\ k # Size(b)
          /\ ~(ti = 1 /\ k = WhenAt(b) + 1)
      BY <2>0, <2>4, <1>n, <1>8, <1>14, <1>15
    <3> QED
      BY <3>3, <3>4, <1>d
  <2>5. CASE k = Size(b)
    <3>1. t6[k] = s6[1]
      <4>1. k = OnsAfter(b) + n + 1
        BY <2>5, <1>14
      <4>2. t6[k] = s6[k - (OnsAfter(b) + n)] /\ k - (OnsAfter(b) + n) = 1
        BY <4>1, <2>0, <1>n, <1>8, <1>13
      <4> QED
        BY <4>2
    <3>2. /\ ~(en = 1 /\ k = 1) /\ ~(ex = 1 /\ k = Hooks(b)) /\ k # WhenAt(b)
          /\ ~(ti = 1 /\ k = WhenAt(b) + 1)
      BY <2>0, <2>5, <1>n, <1>8, <1>14, <1>15
    <3> QED
      BY <3>1, <3>2, <2>5, <1>6, <1>d
  <2>6. k <= Hooks(b) \/ k = WhenAt(b) \/ (k > WhenAt(b) /\ k <= OnsAfter(b))
        \/ (k > OnsAfter(b) /\ k <= OnsAfter(b) + n) \/ k = Size(b)
    BY <2>0, <1>n, <1>8, <1>14
  <2> QED
    BY <2>1, <2>2, <2>3, <2>4, <2>5, <2>6
<1> QED
  BY <1>1, <1>13, <1>e DEF t6, t5, t4, t3, t2

\* The kind of a call tells where in its block it stands.
LEMMA SizesAre ==
    ASSUME NEW paths, NEW b \in BlockOf(paths)
    PROVE  /\ Len(b.rows) \in Nat /\ DOMAIN b.rows = 1 .. Len(b.rows)
           /\ Hooks(b) \in Nat /\ WhenAt(b) = Hooks(b) + 1
           /\ OnsAfter(b) = IF b.timeout # None THEN WhenAt(b) + 1 ELSE WhenAt(b)
           /\ Size(b) = OnsAfter(b) + Len(b.rows) + 1 /\ Size(b) \in Nat
           /\ b.entry => Hooks(b) >= 1
           /\ b.exit => Hooks(b) >= 1
           /\ b.entry /\ b.exit => Hooks(b) = 2
  BY DEF BlockOf, Hooks, WhenAt, OnsAfter, Size, One

LEMMA KindsAre ==
    ASSUME NEW paths, NEW b \in BlockOf(paths), NEW k \in 1 .. Size(b), NEW c, c = CallOf(b, k)
    PROVE  /\ c.call \in {"on_entry", "on_exit", "when", "timeout", "on", "done"}
           /\ c.call = "on_entry" <=> (b.entry /\ k = 1)
           /\ c.call = "on_exit" <=> (b.exit /\ k = Hooks(b))
           /\ c.call = "when" <=> k = WhenAt(b)
           /\ c.call = "timeout" <=> (b.timeout # None /\ k = WhenAt(b) + 1)
           /\ c.call = "on" <=> k - OnsAfter(b) \in DOMAIN b.rows
           /\ c.call = "done" <=> k = Size(b)
           /\ c.call \in {"on_entry", "on_exit", "when"} => c.arg = b.state.segment
           /\ c.call = "timeout" => c.arg = b.timeout
           /\ c.call = "on" => c.arg = b.rows[k - OnsAfter(b)].segment
<1>1. /\ Len(b.rows) \in Nat /\ DOMAIN b.rows = 1 .. Len(b.rows)
      /\ Hooks(b) \in Nat /\ WhenAt(b) = Hooks(b) + 1
      /\ OnsAfter(b) = IF b.timeout # None THEN WhenAt(b) + 1 ELSE WhenAt(b)
      /\ Size(b) = OnsAfter(b) + Len(b.rows) + 1 /\ Size(b) \in Nat
      /\ b.entry => Hooks(b) >= 1
      /\ b.exit => Hooks(b) >= 1
      /\ b.entry /\ b.exit => Hooks(b) = 2
  BY SizesAre
<1>2. CASE b.entry /\ k = 1
  BY <1>1, <1>2 DEF CallOf, BlockCall
<1>3. CASE b.exit /\ k = Hooks(b) /\ ~(b.entry /\ k = 1)
  BY <1>1, <1>3 DEF CallOf, BlockCall
<1>4. CASE k = WhenAt(b)
  BY <1>1, <1>4 DEF CallOf, BlockCall
<1>5. CASE b.timeout # None /\ k = WhenAt(b) + 1
  BY <1>1, <1>5 DEF CallOf, BlockCall
<1>6. CASE k = Size(b)
  BY <1>1, <1>6 DEF CallOf, BlockCall
<1>7. CASE /\ ~(b.entry /\ k = 1) /\ ~(b.exit /\ k = Hooks(b)) /\ k # WhenAt(b)
           /\ ~(b.timeout # None /\ k = WhenAt(b) + 1) /\ k # Size(b)
  <2>1. c = BlockCall("on", b.rows[k - OnsAfter(b)].segment)
    BY <1>7 DEF CallOf
  <2>2. k - OnsAfter(b) \in DOMAIN b.rows
    <3>1. k > WhenAt(b)
      BY <1>1, <1>7 DEF Hooks, One, BlockOf
    <3> QED
      BY <3>1, <1>1, <1>7
  <2> QED
    BY <2>1, <2>2, <1>7 DEF BlockCall
<1> QED
  BY <1>2, <1>3, <1>4, <1>5, <1>6, <1>7
-----------------------------------------------------------------------------
(***************************************************************************)
(* Where the running program is in the expansion.                          *)
(***************************************************************************)
MacroType ==
    /\ types \in [{"state", "event"} -> TypeKind]
    /\ states \in Seq(BlockOf(StatePath)) /\ block \in BlockOf(StatePath \cup {None})
    /\ phase = "block" => block.state \in StatePath
    /\ unhandled \in BOOLEAN
    /\ clauses \in 0 .. MaxClauses
    /\ \A i \in DOMAIN states : Len(states[i].rows) <= clauses
    /\ Len(block.rows) <= clauses

InBlock(p) == p[1] \in DOMAIN states /\ p[2] \in 1 .. Size(states[p[1]])

\* The builder type before call k of a block.
StageBefore(b, k) ==
    IF k <= WhenAt(b) THEN stage = "fsm"
    ELSE /\ stage = IF b.timeout # None /\ k > WhenAt(b) + 1 THEN "timeout" ELSE "when"
         /\ state_name = b.state.segment

Running == stage \notin {"built", "failed"}

Place ==
    \/ at = <<0, 1>> /\ unhandled /\ stage = "fsm"
    \/ at \in Nat \X Nat /\ InBlock(at) /\ StageBefore(states[at[1]], at[2])
    \/ at = <<Len(states) + 1, 1>> /\ stage = "fsm"
    \/ at = <<Len(states) + 2, 1>> /\ ~Running

LEMMA PartsAre ==
    ASSUME MacroType
    PROVE  /\ Len(states) \in Nat /\ DOMAIN states = 1 .. Len(states)
           /\ unhandled => Len(Part(0)) = 1 /\ Part(0)[1] = BlockCall("when_unhandled", None)
           /\ ~unhandled => Len(Part(0)) = 0
           /\ \A i \in DOMAIN states :
                 /\ states[i] \in BlockOf(StatePath) /\ Len(Part(i)) = Size(states[i])
                 /\ Size(states[i]) \in Nat /\ Size(states[i]) >= 2 /\ WhenAt(states[i]) >= 1
                 /\ \A k \in 1 .. Size(states[i]) : Part(i)[k] = CallOf(states[i], k)
           /\ Len(Part(Len(states) + 1)) = 1 /\ Part(Len(states) + 1)[1] = BlockCall("build", None)
<1>1. Len(states) \in Nat /\ DOMAIN states = 1 .. Len(states)
      /\ \A i \in DOMAIN states : states[i] \in BlockOf(StatePath)
  BY DEF MacroType
<1>2. /\ unhandled => Len(Part(0)) = 1 /\ Part(0)[1] = BlockCall("when_unhandled", None)
      /\ ~unhandled => Len(Part(0)) = 0
  BY DEF Part, Optional, Chain, BlockCall
<1>3. ASSUME NEW i \in DOMAIN states
      PROVE  /\ Len(Part(i)) = Size(states[i]) /\ Size(states[i]) \in Nat /\ Size(states[i]) >= 2
             /\ WhenAt(states[i]) >= 1
             /\ \A k \in 1 .. Size(states[i]) : Part(i)[k] = CallOf(states[i], k)
  <2>1. Part(i) = BlockCalls(states[i])
    BY <1>1 DEF Part
  <2>2. states[i] \in BlockOf(StatePath)
    BY <1>1
  <2>3. /\ Len(BlockCalls(states[i])) = Size(states[i])
        /\ \A k \in 1 .. Size(states[i]) : BlockCalls(states[i])[k] = CallOf(states[i], k)
    BY <2>2, BlockCallsAre
  <2>4. Size(states[i]) \in Nat /\ Size(states[i]) >= 2 /\ WhenAt(states[i]) >= 1
    BY <2>2, SizesAre
  <2> QED
    BY <2>1, <2>3, <2>4
<1>4. Len(Part(Len(states) + 1)) = 1 /\ Part(Len(states) + 1)[1] = BlockCall("build", None)
  BY <1>1 DEF Part, Chain, BlockCall
<1> QED
  BY <1>1, <1>2, <1>3, <1>4

\* What the call that is made next is, and where the program is after it.
LEMMA CallIs ==
    ASSUME MacroType, Place, Running
    PROVE  \/ /\ at = <<0, 1>> /\ unhandled /\ stage = "fsm"
              /\ ThisCall = BlockCall("when_unhandled", None) /\ NextCall = <<1, 1>>
           \/ /\ at \in Nat \X Nat /\ InBlock(at) /\ StageBefore(states[at[1]], at[2])
              /\ states[at[1]] \in BlockOf(StatePath)
              /\ ThisCall = CallOf(states[at[1]], at[2])
              /\ NextCall = IF at[2] < Size(states[at[1]]) THEN <<at[1], at[2] + 1>> ELSE <<at[1] + 1, 1>>
           \/ /\ at = <<Len(states) + 1, 1>> /\ stage = "fsm"
              /\ ThisCall = BlockCall("build", None) /\ NextCall = <<Len(states) + 2, 1>>
<1>1. CASE at = <<0, 1>> /\ unhandled /\ stage = "fsm"
  <2>1. at[1] = 0 /\ at[2] = 1
    BY <1>1
  <2>2. Len(Part(0)) = 1 /\ Part(0)[1] = BlockCall("when_unhandled", None)
    BY <1>1, PartsAre
  <2>3. ThisCall = BlockCall("when_unhandled", None) /\ NextCall = <<1, 1>>
    BY <2>1, <2>2 DEF ThisCall, NextCall
  <2> QED
    BY <1>1, <2>3
<1>2. CASE at \in Nat \X Nat /\ InBlock(at) /\ StageBefore(states[at[1]], at[2])
  <2>1. at[1] \in DOMAIN states /\ at[2] \in 1 .. Size(states[at[1]])
    BY <1>2 DEF InBlock
  <2>2. /\ states[at[1]] \in BlockOf(StatePath) /\ Len(Part(at[1])) = Size(states[at[1]])
        /\ Part(at[1])[at[2]] = CallOf(states[at[1]], at[2])
    BY <2>1, PartsAre
  <2> QED
    BY <1>2, <2>2 DEF ThisCall, NextCall
<1>3. CASE at = <<Len(states) + 1, 1>> /\ stage = "fsm"
  <2>1. at[1] = Len(states) + 1 /\ at[2] = 1
    BY <1>3
  <2>2. /\ Len(Part(Len(states) + 1)) = 1 /\ Part(Len(states) + 1)[1] = BlockCall("build", None)
        /\ Len(states) \in Nat
    BY PartsAre
  <2>3. ThisCall = BlockCall("build", None) /\ NextCall = <<at[1] + 1, 1>>
    <3>1. Part(at[1]) = Part(Len(states) + 1)
      BY <2>1
    <3>2. Len(Part(at[1])) = 1 /\ Part(at[1])[1] = BlockCall("build", None)
      BY <2>2, <3>1
    <3> DEFINE n == Len(Part(at[1]))
    <3>3. ~(at[2] < n)
      <4>1. n = 1 /\ at[2] = 1
        BY <2>1, <3>2
      <4> HIDE DEF n
      <4> QED
        BY <4>1
    <3>4. NextCall = <<at[1] + 1, 1>>
      BY <3>3 DEF NextCall
    <3>5. ThisCall = Part(at[1])[1]
      BY <2>1 DEF ThisCall
    <3> QED
      BY <3>2, <3>4, <3>5
  <2>4. at[1] + 1 = Len(states) + 2
    BY <2>1, <2>2
  <2> QED
    BY <1>3, <2>3, <2>4
<1> QED
  BY <1>1, <1>2, <1>3 DEF Place

\* The program at the beginning of a part.
LEMMA PartBegins ==
    ASSUME MacroType, NEW i \in 1 .. Len(states) + 1, at = <<i, 1>>, stage = "fsm"
    PROVE  Place
<1>1. CASE i = Len(states) + 1
  BY <1>1 DEF Place
<1>2. CASE i \in 1 .. Len(states)
  <2>1. i \in DOMAIN states /\ i \in Nat /\ Size(states[i]) \in Nat /\ Size(states[i]) >= 2 /\ WhenAt(states[i]) >= 1
    BY <1>2, PartsAre
  <2>2. at[1] = i /\ at[2] = 1 /\ at \in Nat \X Nat
    BY <2>1
  <2>3. InBlock(at)
    BY <2>1, <2>2 DEF InBlock
  <2>4. StageBefore(states[at[1]], at[2])
    BY <2>1, <2>2 DEF StageBefore
  <2> QED
    BY <2>2, <2>3, <2>4 DEF Place
<1>3. i \in 1 .. Len(states) \/ i = Len(states) + 1
  BY PartsAre
<1> QED
  BY <1>1, <1>2, <1>3

\* How each kind of call moves the builder from one of its types to another.
StageMoves(c) ==
    \/ c.call \in {"when_unhandled", "on_entry", "on_exit", "on"} /\ UNCHANGED <<stage, state_name>>
    \/ c.call = "when" /\ stage' = "when" /\ state_name' = c.arg
    \/ c.call = "timeout" /\ stage' = "timeout" /\ UNCHANGED state_name
    \/ c.call = "done" /\ stage' = "fsm"
    \/ c.call = "build" /\ stage' \in {"built", "failed"}

LEMMA NextPlace ==
    ASSUME MacroType, MacroType', Place, Running, at' = NextCall, UNCHANGED <<states, unhandled>>,
           StageMoves(ThisCall)
    PROVE  Place'
<1>s. Len(states) \in Nat /\ DOMAIN states = 1 .. Len(states)
  BY PartsAre
<1>b. ASSUME NEW i \in 1 .. Len(states) + 1, at' = <<i, 1>>, stage' = "fsm"
      PROVE  Place'
  <2>1. CASE i = Len(states) + 1
    BY <1>b, <2>1 DEF Place
  <2>2. CASE i \in 1 .. Len(states)
    <3>1. i \in DOMAIN states /\ i \in Nat /\ Size(states[i]) \in Nat /\ Size(states[i]) >= 2 /\ WhenAt(states[i]) >= 1
      BY <2>2, <1>s, PartsAre
    <3>2. at'[1] = i /\ at'[2] = 1 /\ at' \in Nat \X Nat
      BY <1>b, <3>1
    <3>3. InBlock(at)'
      BY <3>1, <3>2 DEF InBlock
    <3>4. StageBefore(states[at[1]], at[2])'
      BY <1>b, <3>1, <3>2 DEF StageBefore
    <3> QED
      BY <3>2, <3>3, <3>4 DEF Place
  <2> QED
    BY <2>1, <2>2, <1>s
<1>1. CASE at = <<0, 1>> /\ ThisCall = BlockCall("when_unhandled", None) /\ NextCall = <<1, 1>> /\ stage = "fsm"
  BY <1>1, <1>b, <1>s DEF StageMoves, BlockCall
<1>2. CASE at = <<Len(states) + 1, 1>> /\ ThisCall = BlockCall("build", None) /\ NextCall = <<Len(states) + 2, 1>>
  BY <1>2, <1>s DEF StageMoves, BlockCall, Place, Running
<1>3. CASE /\ at \in Nat \X Nat /\ InBlock(at) /\ StageBefore(states[at[1]], at[2])
           /\ states[at[1]] \in BlockOf(StatePath) /\ ThisCall = CallOf(states[at[1]], at[2])
           /\ NextCall = IF at[2] < Size(states[at[1]]) THEN <<at[1], at[2] + 1>> ELSE <<at[1] + 1, 1>>
  <2> DEFINE i == at[1]
             k == at[2]
             b == states[at[1]]
             c == ThisCall
  <2>1. i \in DOMAIN states /\ i \in Nat /\ k \in 1 .. Size(b) /\ k \in Nat /\ b \in BlockOf(StatePath)
    BY <1>3 DEF InBlock
  <2>2. /\ c.call \in {"on_entry", "on_exit", "when", "timeout", "on", "done"}
        /\ c.call = "on_entry" <=> (b.entry /\ k = 1)
        /\ c.call = "on_exit" <=> (b.exit /\ k = Hooks(b))
        /\ c.call = "when" <=> k = WhenAt(b)
        /\ c.call = "timeout" <=> (b.timeout # None /\ k = WhenAt(b) + 1)
        /\ c.call = "on" <=> k - OnsAfter(b) \in DOMAIN b.rows
        /\ c.call = "done" <=> k = Size(b)
        /\ c.call \in {"on_entry", "on_exit", "when"} => c.arg = b.state.segment
    BY <1>3, <2>1, KindsAre
  <2>3. /\ Len(b.rows) \in Nat /\ DOMAIN b.rows = 1 .. Len(b.rows)
        /\ Hooks(b) \in Nat /\ WhenAt(b) = Hooks(b) + 1
        /\ OnsAfter(b) = IF b.timeout # None THEN WhenAt(b) + 1 ELSE WhenAt(b)
        /\ Size(b) = OnsAfter(b) + Len(b.rows) + 1 /\ Size(b) \in Nat
        /\ b.entry => Hooks(b) >= 1
    BY <2>1, SizesAre
  <2>4. StageBefore(b, k) /\ StageMoves(c)
    BY <1>3
  <2>5. at' = IF k < Size(b) THEN <<i, k + 1>> ELSE <<i + 1, 1>>
    BY <1>3
  <2>6. CASE k = Size(b)
    <3>1. stage' = "fsm" /\ at' = <<i + 1, 1>>
      <4>1. c.call = "done"
        BY <2>2, <2>6
      <4>2. stage' = "fsm"
        BY <2>4, <4>1 DEF StageMoves
      <4>3. ~(k < Size(b))
        BY <2>1, <2>3, <2>6
      <4> QED
        BY <2>5, <4>2, <4>3
    <3>2. i + 1 \in 1 .. Len(states) + 1
      BY <2>1, <1>s
    <3> QED
      BY <3>1, <3>2, <1>b
  <2>7. CASE k < Size(b)
    <3>1. at' = <<i, k + 1>> /\ k + 1 \in 1 .. Size(b) /\ k + 1 \in Nat
      BY <2>1, <2>3, <2>5, <2>7
    <3>2. at'[1] = i /\ at'[2] = k + 1 /\ at' \in Nat \X Nat
      BY <3>1, <2>1
    <3>3. InBlock(at)'
      BY <3>1, <3>2, <2>1 DEF InBlock
    <3>4. IF k + 1 <= WhenAt(b) THEN stage' = "fsm"
          ELSE /\ stage' = IF b.timeout # None /\ k + 1 > WhenAt(b) + 1 THEN "timeout" ELSE "when"
               /\ state_name' = b.state.segment
      <4> HIDE DEF i, k, b, c
      <4>1. CASE k < WhenAt(b)
        BY <4>1, <2>1, <2>2, <2>3, <2>4, <2>7 DEF StageMoves, StageBefore
      <4>2. CASE k = WhenAt(b)
        BY <4>2, <2>1, <2>2, <2>3, <2>4, <2>7 DEF StageMoves, StageBefore
      <4>3. CASE k > WhenAt(b)
        BY <4>3, <2>1, <2>2, <2>3, <2>4, <2>7 DEF StageMoves, StageBefore
      <4> QED
        BY <4>1, <4>2, <4>3, <2>1, <2>3
    <3>5. StageBefore(states[at[1]], at[2])'
      BY <3>2, <3>4 DEF StageBefore
    <3> QED
      BY <3>2, <3>3, <3>5 DEF Place
  <2> QED
    BY <2>1, <2>6, <2>7, <2>3
<1> QED
  BY <1>1, <1>2, <1>3, CallIs

-----------------------------------------------------------------------------
\* Nothing of the builder happens before the program runs; then it is where the
\* calls made so far have brought it, and rustc has accepted the source.
Compiled ==
    /\ \A t \in DOMAIN types : Gate(types[t])
    /\ \A i \in DOMAIN states : Patterns(states[i])

ExpansionInv ==
    /\ MacroType
    /\ phase \notin {"run", "chain"} => Init
    /\ phase = "compile" => at = FirstCall
    /\ phase = "run" => Compiled /\ Place

\* The builder's part of a call of the expansion.
CallMade(c) ==
    \/ c.call = "when_unhandled" /\ WhenUnhandled
    \/ c.call = "on_entry" /\ OnEntry(c.arg)
    \/ c.call = "on_exit" /\ OnExit(c.arg)
    \/ c.call = "when" /\ When(c.arg)
    \/ c.call = "timeout" /\ WhenTimeout(c.arg)
    \/ c.call = "on" /\ (WhenOn(c.arg) \/ TimeoutOn(c.arg))
    \/ c.call = "done" /\ Done
    \/ c.call = "build" /\ TryBuild

RunStep ==
    /\ phase = "run" /\ at' = NextCall /\ CallMade(ThisCall)
    /\ UNCHANGED <<phase, header, types, states, block, unhandled, clauses>>

\* Reading source text leaves the builder alone.
ReadStep == phase \notin {"run", "chain"} /\ UNCHANGED vars

LEMMA MacroSteps ==
    ASSUME MNext
    PROVE  \/ ReadEndOfInput \/ Compile \/ RunStep \/ CallByHand \/ Finished
           \/ ReadStep /\ phase' \notin {"run", "chain", "compile"}
<1> DEFINE Reads == ReadStep /\ phase' \notin {"run", "chain", "compile"}
<1>1. ReadField \/ ReadGarbage \/ ReadEndOfBlock => Reads
  BY DEF ReadField, ReadGarbage, ReadEndOfBlock, ReadStep
<1>2. ReadUnhandled => Reads
  BY DEF ReadUnhandled, Read, ReadStep
<1>3. \A p : ReadState(p) \/ ReadOn(p) => Reads
  BY DEF ReadState, ReadOn, Read, ReadStep
<1>4. \A field, value : ReadOnce(field, value) => Reads
  BY DEF ReadOnce, Read, ReadStep
<1>5. RunWhenUnhandled \/ RunOnEntry \/ RunOnExit \/ RunWhen \/ RunTimeout \/ RunOn \/ RunDone \/ RunBuild => RunStep
  BY DEF RunWhenUnhandled, RunOnEntry, RunOnExit, RunWhen, RunTimeout, RunOn, RunDone, RunBuild, Run,
         RunStep, CallMade
<1> HIDE DEF Reads
<1>6. ReadEndOfInput \/ Compile \/ RunStep \/ CallByHand \/ Finished \/ Reads
  BY <1>1, <1>2, <1>3, <1>4, <1>5 DEF MNext
<1> QED
  BY <1>6 DEF Reads

LEMMA EmptyBlock == NoBlock \in BlockOf(StatePath \cup {None}) /\ Len(NoBlock.rows) = 0
  BY DEF NoBlock, BlockOf

LEMMA NextMacroType == MacroType /\ [MNext]_mvars => MacroType'
<1> SUFFICES ASSUME MacroType, [MNext]_mvars PROVE MacroType'
  OBVIOUS
<1>b. /\ block \in BlockOf(StatePath \cup {None}) /\ block.rows \in Seq(EventPath) /\ Len(block.rows) \in Nat
      /\ clauses \in Nat /\ clauses <= MaxClauses /\ MaxClauses \in Nat
      /\ states \in Seq(BlockOf(StatePath))
  BY MacroAssumption DEF MacroType, BlockOf
<1>1. CASE UNCHANGED <<types, states, block, unhandled, clauses>> /\ (phase' = phase \/ phase' # "block")
  BY <1>1 DEF MacroType
<1>2. ASSUME NEW p \in StatePath, ReadState(p) PROVE MacroType'
  <2>1. /\ block' \in BlockOf(StatePath) /\ Len(block'.rows) = 0 /\ block'.state = p
        /\ block' \in BlockOf(StatePath \cup {None})
    <3>1. block' = [state |-> p, rows |-> <<>>, timeout |-> None, entry |-> FALSE, exit |-> FALSE]
      BY <1>2 DEF ReadState, OpenedBlock, NoBlock
    <3>2. p \in StatePath \cup {None} /\ None \in Durations \cup {None} /\ FALSE \in BOOLEAN
      OBVIOUS
    <3>3. <<>> \in Seq(EventPath) /\ Len(<<>>) = 0
      OBVIOUS
    <3> QED
      BY <3>1, <3>2, <3>3 DEF BlockOf
  <2>2. clauses' = clauses + 1 /\ clauses < MaxClauses /\ UNCHANGED <<types, states, unhandled>>
    BY <1>2 DEF ReadState, Read
  <2>3. \A i \in DOMAIN states : Len(states[i].rows) <= clauses'
    BY <2>2, <1>b DEF MacroType, BlockOf
  <2> QED
    BY <1>2, <2>1, <2>2, <2>3, <1>b DEF MacroType
<1>3. ASSUME NEW p \in EventPath, ReadOn(p) PROVE MacroType'
  <2>1. /\ clauses' = clauses + 1 /\ clauses < MaxClauses /\ UNCHANGED <<phase, types, states, unhandled>>
        /\ phase = "block" /\ block' = [block EXCEPT !.rows = Append(@, p)]
    BY <1>3 DEF ReadOn, Read
  <2>2. /\ block' \in BlockOf(StatePath \cup {None}) /\ block'.state = block.state
        /\ Len(block'.rows) = Len(block.rows) + 1
    <3>1. Append(block.rows, p) \in Seq(EventPath) /\ Len(Append(block.rows, p)) = Len(block.rows) + 1
      BY <1>b
    <3>2. DOMAIN block = {"state", "rows", "timeout", "entry", "exit"}
      BY <1>b DEF BlockOf
    <3>3. block' = [state |-> block.state, rows |-> Append(block.rows, p), timeout |-> block.timeout,
                    entry |-> block.entry, exit |-> block.exit]
      BY <2>1, <1>b, <3>2 DEF BlockOf
    <3>4. /\ block.state \in StatePath \cup {None} /\ block.timeout \in Durations \cup {None}
          /\ block.entry \in BOOLEAN /\ block.exit \in BOOLEAN
      BY <1>b DEF BlockOf
    <3> QED
      BY <3>1, <3>3, <3>4 DEF BlockOf
  <2>3. \A i \in DOMAIN states : Len(states[i].rows) <= clauses'
    BY <2>1, <1>b DEF MacroType, BlockOf
  <2> QED
    BY <2>1, <2>2, <2>3, <1>b DEF MacroType
<1>4. ASSUME \/ \E d \in Durations : ReadOnce("timeout", d)
             \/ ReadOnce("entry", TRUE)
             \/ ReadOnce("exit", TRUE)
      PROVE  MacroType'
  <2>1. /\ clauses' = clauses + 1 /\ clauses < MaxClauses /\ UNCHANGED <<types, states, unhandled>>
        /\ phase = "block" /\ phase' \in {"block", "error"}
    BY <1>4 DEF ReadOnce, Read
  <2>2. /\ block' \in BlockOf(StatePath \cup {None}) /\ block'.state = block.state
        /\ block'.rows = block.rows
    BY <1>4, <1>b DEF BlockOf, ReadOnce
  <2>3. \A i \in DOMAIN states : Len(states[i].rows) <= clauses'
    BY <2>1, <1>b DEF MacroType, BlockOf
  <2> QED
    BY <2>1, <2>2, <2>3, <1>b DEF MacroType
<1>5. CASE ReadEndOfBlock
  <2>1. /\ phase = "block" /\ phase' = "top" /\ states' = Append(states, block) /\ block' = NoBlock
        /\ UNCHANGED <<types, unhandled, clauses>>
    BY <1>5 DEF ReadEndOfBlock
  <2>2. block \in BlockOf(StatePath) /\ Len(block.rows) <= clauses
    BY <2>1 DEF MacroType, BlockOf
  <2>3. states' \in Seq(BlockOf(StatePath)) /\ \A i \in DOMAIN states' : Len(states'[i].rows) <= clauses
    <3>1. Append(states, block) \in Seq(BlockOf(StatePath))
      BY <2>2, <1>b
    <3>2. \A i \in DOMAIN Append(states, block) :
             \/ i \in DOMAIN states /\ Append(states, block)[i] = states[i]
             \/ Append(states, block)[i] = block
      BY <2>2, <1>b
    <3>3. \A i \in DOMAIN states : Len(states[i].rows) <= clauses
      BY DEF MacroType
    <3> QED
      BY <2>1, <2>2, <3>1, <3>2, <3>3
  <2> QED
    BY <2>1, <2>3, <1>b, EmptyBlock DEF MacroType
<1>6. CASE ReadUnhandled
  <2>1. /\ clauses' = clauses + 1 /\ clauses < MaxClauses /\ UNCHANGED <<types, states, block>>
        /\ unhandled' \in BOOLEAN /\ phase' # "block"
    BY <1>6 DEF ReadUnhandled, Read, MacroType
  <2>2. \A i \in DOMAIN states : Len(states[i].rows) <= clauses'
    BY <2>1, <1>b DEF MacroType, BlockOf
  <2> QED
    BY <2>1, <2>2, <1>b DEF MacroType
<1>7. RunStep \/ ReadField \/ ReadGarbage \/ ReadEndOfInput \/ Compile \/ CallByHand \/ Finished \/ UNCHANGED mvars
      => UNCHANGED <<types, states, block, unhandled, clauses>> /\ (phase' = phase \/ phase' # "block")
  BY DEF RunStep, ReadField, ReadGarbage, ReadEndOfInput, Compile, CallByHand, Finished, mvars, parser
<1>8. RunWhenUnhandled \/ RunOnEntry \/ RunOnExit \/ RunWhen \/ RunTimeout \/ RunOn \/ RunDone \/ RunBuild => RunStep
  BY DEF RunWhenUnhandled, RunOnEntry, RunOnExit, RunWhen, RunTimeout, RunOn, RunDone, RunBuild, Run,
         RunStep, CallMade
<1> QED
  BY <1>1, <1>2, <1>3, <1>4, <1>5, <1>6, <1>7, <1>8 DEF MNext

LEMMA CallMoves ==
    ASSUME NEW c, CallMade(c)
    PROVE  Running /\ StageMoves(c)
  BY DEF CallMade, StageMoves, Running, WhenUnhandled, OnEntry, OnExit, When, Open, WhenTimeout, WhenOn,
         TimeoutOn, Done, TryBuild

LEMMA NextExpansion == ExpansionInv /\ [MNext]_mvars => ExpansionInv'
<1> SUFFICES ASSUME ExpansionInv, [MNext]_mvars PROVE ExpansionInv'
  OBVIOUS
<1>0. MacroType /\ MacroType'
  BY NextMacroType DEF ExpansionInv
<1>1. CASE UNCHANGED mvars \/ Finished
  BY <1>1, <1>0 DEF mvars, Finished, vars, maps, parser, ExpansionInv, Init, FirstCall, Compiled, Place,
     InBlock, StageBefore, Running
<1>2. CASE CallByHand
  BY <1>2, <1>0 DEF CallByHand, parser, ExpansionInv
<1>3. CASE ReadEndOfInput
  <2>1. Init' /\ phase' = "compile" /\ at' = FirstCall'
    BY <1>3 DEF ReadEndOfInput, ExpansionInv, Init, vars, maps, FirstCall
  <2> QED
    BY <2>1, <1>0 DEF ExpansionInv
<1>4. CASE ReadStep /\ phase' \notin {"run", "chain", "compile"}
  <2>1. Init'
    BY <1>4 DEF ReadStep, ExpansionInv, Init, vars, maps
  <2> QED
    BY <1>4, <2>1, <1>0 DEF ExpansionInv
<1>5. CASE Compile
  <2>1. Init /\ at = FirstCall
    BY <1>5 DEF Compile, ExpansionInv
  <2>2. Place
    <3>1. stage = "fsm"
      BY <2>1 DEF Init
    <3>2. CASE unhandled
      BY <2>1, <3>1, <3>2 DEF FirstCall, Place
    <3>3. CASE ~unhandled
      <4>1. at = <<1, 1>> /\ 1 \in 1 .. Len(states) + 1
        BY <2>1, <3>3, <1>0, PartsAre DEF FirstCall
      <4> QED
        BY <3>1, <4>1, <1>0, PartBegins
    <3> QED
      BY <3>2, <3>3
  <2>3. /\ UNCHANGED <<vars, states, at, types, unhandled>> /\ phase' \in {"run", "error"}
        /\ phase' = "run" => Compiled
    BY <1>5 DEF Compile, Compiled
  <2>4. Place'
    BY <2>2, <2>3 DEF Place, InBlock, StageBefore, Running, vars
  <2>5. Init'
    BY <2>1, <2>3 DEF vars, maps, Init
  <2>6. phase' = "run" => Compiled'
    BY <2>3 DEF Compiled
  <2> QED
    BY <2>3, <2>4, <2>5, <2>6, <1>0 DEF ExpansionInv
<1>6. CASE RunStep
  <2>1. phase = "run" /\ phase' = "run" /\ at' = NextCall /\ UNCHANGED <<types, states, unhandled>>
        /\ Compiled /\ Place /\ Running /\ StageMoves(ThisCall)
    BY <1>6, CallMoves DEF RunStep, ExpansionInv
  <2>2. Place'
    BY <2>1, <1>0, NextPlace
  <2>3. Compiled'
    BY <2>1 DEF Compiled
  <2> QED
    BY <2>1, <2>2, <2>3, <1>0 DEF ExpansionInv
<1> QED
  BY <1>1, <1>2, <1>3, <1>4, <1>5, <1>6, MacroSteps

LEMMA ExpansionInvariant == MSpec => []ExpansionInv
<1>1. MInit => ExpansionInv
  <2> SUFFICES ASSUME MInit PROVE ExpansionInv
    OBVIOUS
  <2>1. states = <<>> /\ block = NoBlock /\ unhandled = FALSE /\ clauses = 0 /\ phase \in {"header", "chain"}
        /\ types \in [{"state", "event"} -> TypeKind] /\ Init
    BY DEF MInit
  <2>2. MacroType
    <3>1. states \in Seq(BlockOf(StatePath)) /\ DOMAIN states = {}
      BY <2>1
    <3>2. MaxClauses \in Nat /\ 0 \in 0 .. MaxClauses
      BY MacroAssumption
    <3>3. block \in BlockOf(StatePath \cup {None}) /\ Len(block.rows) <= clauses
      BY <2>1, EmptyBlock
    <3>4. \A i \in DOMAIN states : Len(states[i].rows) <= clauses
      BY <3>1
    <3>5. clauses \in 0 .. MaxClauses /\ unhandled \in BOOLEAN /\ phase # "block"
      BY <2>1, <3>2
    <3>6. types \in [{"state", "event"} -> TypeKind]
      BY <2>1
    <3> QED
      BY <3>1, <3>3, <3>4, <3>5, <3>6 DEF MacroType
  <2> QED
    BY <2>1, <2>2 DEF ExpansionInv
<1> QED
  BY <1>1, NextExpansion, PTL DEF MSpec

\* A call of the expansion is a call the builder can get.
LEMMA MacroIsBuilder == ExpansionInv /\ [MNext]_mvars => [Next]_vars
<1> SUFFICES ASSUME ExpansionInv, MNext PROVE [Next]_vars
  BY DEF mvars, vars, maps
<1>1. ReadStep \/ ReadEndOfInput \/ Compile \/ Finished \/ CallByHand => [Next]_vars
  BY DEF ReadStep, ReadEndOfInput, Compile, Finished, CallByHand, mvars
<1>2. CASE RunStep
  <2>1. MacroType /\ Place /\ Running /\ CallMade(ThisCall)
    BY <1>2, CallMoves DEF RunStep, ExpansionInv
  <2>2. CASE ThisCall = BlockCall("when_unhandled", None) \/ ThisCall = BlockCall("build", None)
    BY <2>1, <2>2 DEF CallMade, BlockCall, Next
  <2>3. CASE InBlock(at) /\ states[at[1]] \in BlockOf(StatePath) /\ ThisCall = CallOf(states[at[1]], at[2])
    <3> DEFINE k == at[2]
               b == states[at[1]]
               c == ThisCall
    <3>1. k \in 1 .. Size(b) /\ b \in BlockOf(StatePath)
      BY <2>3 DEF InBlock
    <3>2. /\ c.call \in {"on_entry", "on_exit", "when", "timeout", "on", "done"}
          /\ c.call = "timeout" <=> (b.timeout # None /\ k = WhenAt(b) + 1)
          /\ c.call = "on" <=> k - OnsAfter(b) \in DOMAIN b.rows
          /\ c.call \in {"on_entry", "on_exit", "when"} => c.arg = b.state.segment
          /\ c.call = "timeout" => c.arg = b.timeout
          /\ c.call = "on" => c.arg = b.rows[k - OnsAfter(b)].segment
      BY <2>3, <3>1, KindsAre
    <3>3. /\ b.state.segment \in Variant /\ b.state.segment \in Name
          /\ b.timeout # None => b.timeout \in Durations
          /\ \A j \in DOMAIN b.rows : b.rows[j].segment \in Event
      BY <3>1, MacroAssumption DEF BlockOf, Name
    <3>4. /\ c.call \in {"on_entry", "on_exit", "when"} => c.arg \in Name /\ c.arg \in Variant
          /\ c.call = "timeout" => c.arg \in Durations
          /\ c.call = "on" => c.arg \in Event
      BY <3>2, <3>3
    <3> HIDE DEF c, b, k
    <3>5. CallMade(c)
      BY <2>1 DEF c
    <3> QED
      BY <3>2, <3>4, <3>5 DEF CallMade, Next
  <2> QED
    BY <2>1, <2>2, <2>3, CallIs
<1> QED
  BY <1>1, <1>2, MacroSteps

\* Whatever fsm! makes of a source text, and whatever is chained by hand, is a
\* chain of builder calls: every property of the builder holds of both
\* (codegen.rs:18-123).
THEOREM BuilderInMacro == MSpec => Spec
<1>1. MInit => Init
  BY DEF MInit
<1> QED
  BY <1>1, ExpansionInvariant, MacroIsBuilder, PTL DEF MSpec, Spec
-----------------------------------------------------------------------------
(***************************************************************************)
(* What the calls made so far have put into the builder's maps.            *)
(***************************************************************************)

\* Call k of part i has been made when the program is at p.
Passed(p, i, k) == p[1] > i \/ (p[1] = i /\ p[2] > k)

EntriesMade(p)  == {i \in DOMAIN states : states[i].entry /\ Passed(p, i, 1)}
ExitsMade(p)    == {i \in DOMAIN states : states[i].exit /\ Passed(p, i, Hooks(states[i]))}
TimeoutsMade(p) == {i \in DOMAIN states : states[i].timeout # None /\ Passed(p, i, WhenAt(states[i]) + 1)}
RowsMade(p)     == {r \in SourceRows : Passed(p, r[1], OnsAfter(states[r[1]]) + r[2])}

Named(blocks) == {states[i].state.segment : i \in blocks}

\* The row of the source that the call at p stands for.
RowAt(p) == <<p[1], p[2] - OnsAfter(states[p[1]])>>

LEMMA RowsAre ==
    ASSUME MacroType, NEW r \in SourceRows
    PROVE  /\ r = <<r[1], r[2]>> /\ r[1] \in DOMAIN states /\ r[1] \in Nat
           /\ r[2] \in DOMAIN states[r[1]].rows /\ r[2] \in Nat /\ r[2] >= 1
           /\ states[r[1]] \in BlockOf(StatePath)
<1>1. r \in (DOMAIN states) \X (1 .. MaxClauses) /\ r[2] \in DOMAIN states[r[1]].rows
  BY DEF SourceRows
<1>2. r[1] \in DOMAIN states /\ r[2] \in 1 .. MaxClauses /\ r = <<r[1], r[2]>>
  BY <1>1
<1>3. r[1] \in Nat /\ states[r[1]] \in BlockOf(StatePath)
  BY <1>2, PartsAre
<1> QED
  BY <1>1, <1>2, <1>3, MacroAssumption

LEMMA RowIsSource ==
    ASSUME MacroType, NEW i \in DOMAIN states, NEW j \in DOMAIN states[i].rows
    PROVE  <<i, j>> \in SourceRows
<1>1. states[i] \in BlockOf(StatePath) /\ Len(states[i].rows) <= clauses /\ clauses \in Nat /\ clauses <= MaxClauses
      /\ MaxClauses \in Nat
  BY PartsAre, MacroAssumption DEF MacroType
<1>2. Len(states[i].rows) \in Nat /\ DOMAIN states[i].rows = 1 .. Len(states[i].rows)
  BY <1>1, SizesAre
<1>3. j \in 1 .. MaxClauses
  BY <1>1, <1>2
<1> QED
  BY <1>3 DEF SourceRows

\* One call more is made, and no other.
LEMMA PassedNext ==
    ASSUME NEW p \in Nat \X Nat, NEW last \in Nat, p[2] \in 1 .. last, NEW i \in Nat, NEW k \in Nat,
           k >= 1, i = p[1] => k <= last,
           NEW q, q = IF p[2] < last THEN <<p[1], p[2] + 1>> ELSE <<p[1] + 1, 1>>
    PROVE  Passed(q, i, k) <=> (Passed(p, i, k) \/ (i = p[1] /\ k = p[2]))
<1>1. p[1] \in Nat /\ p[2] \in Nat
  OBVIOUS
<1>2. CASE p[2] < last
  <2>1. q[1] = p[1] /\ q[2] = p[2] + 1
    BY <1>2
  <2> QED
    BY <1>1, <2>1 DEF Passed
<1>3. CASE p[2] = last
  <2>1. q[1] = p[1] + 1 /\ q[2] = 1
    BY <1>3
  <2> QED
    BY <1>1, <1>3, <2>1 DEF Passed
<1> QED
  BY <1>1, <1>2, <1>3

\* A call outside the blocks.
LEMMA MadeOutside ==
    ASSUME MacroType, Place, Running, ThisCall.call \in {"when_unhandled", "build"}
    PROVE  /\ EntriesMade(NextCall) = EntriesMade(at) /\ ExitsMade(NextCall) = ExitsMade(at)
           /\ TimeoutsMade(NextCall) = TimeoutsMade(at) /\ RowsMade(NextCall) = RowsMade(at)
           /\ (unhandled /\ Passed(NextCall, 0, 1)) <=>
                 ((unhandled /\ Passed(at, 0, 1)) \/ ThisCall.call = "when_unhandled")
<1>1. \A i \in DOMAIN states, k \in Nat :
         k >= 1 => (Passed(NextCall, i, k) <=> Passed(at, i, k))
  <2> SUFFICES ASSUME NEW i \in DOMAIN states, NEW k \in Nat, k >= 1
               PROVE  Passed(NextCall, i, k) <=> Passed(at, i, k)
    OBVIOUS
  <2>1. Len(states) \in Nat /\ i \in 1 .. Len(states)
    BY PartsAre
  <2>2. CASE at = <<0, 1>> /\ NextCall = <<1, 1>>
    BY <2>1, <2>2 DEF Passed
  <2>3. CASE at = <<Len(states) + 1, 1>> /\ NextCall = <<Len(states) + 2, 1>>
    BY <2>1, <2>3 DEF Passed
  <2>4. CASE InBlock(at) /\ states[at[1]] \in BlockOf(StatePath) /\ ThisCall = CallOf(states[at[1]], at[2])
    BY <2>4, KindsAre DEF InBlock
  <2> QED
    BY <2>2, <2>3, <2>4, CallIs
<1>2. \A i \in DOMAIN states :
         /\ Hooks(states[i]) \in Nat
         /\ states[i].exit => Hooks(states[i]) >= 1
         /\ WhenAt(states[i]) + 1 \in Nat /\ WhenAt(states[i]) + 1 >= 1
         /\ OnsAfter(states[i]) \in Nat
  <2> SUFFICES ASSUME NEW i \in DOMAIN states
               PROVE  /\ Hooks(states[i]) \in Nat
                      /\ states[i].exit => Hooks(states[i]) >= 1
                      /\ WhenAt(states[i]) + 1 \in Nat /\ WhenAt(states[i]) + 1 >= 1
                      /\ OnsAfter(states[i]) \in Nat
    OBVIOUS
  <2>1. states[i] \in BlockOf(StatePath)
    BY PartsAre
  <2> QED
    BY <2>1, SizesAre
<1>3. EntriesMade(NextCall) = EntriesMade(at)
  BY <1>1 DEF EntriesMade
<1>4. ExitsMade(NextCall) = ExitsMade(at)
  BY <1>1, <1>2 DEF ExitsMade
<1>5. TimeoutsMade(NextCall) = TimeoutsMade(at)
  BY <1>1, <1>2 DEF TimeoutsMade
<1>6. RowsMade(NextCall) = RowsMade(at)
  <2>1. \A r \in SourceRows : Passed(NextCall, r[1], OnsAfter(states[r[1]]) + r[2])
                                 <=> Passed(at, r[1], OnsAfter(states[r[1]]) + r[2])
    <3> SUFFICES ASSUME NEW r \in SourceRows
                 PROVE  Passed(NextCall, r[1], OnsAfter(states[r[1]]) + r[2])
                           <=> Passed(at, r[1], OnsAfter(states[r[1]]) + r[2])
      OBVIOUS
    <3>1. r[1] \in DOMAIN states /\ OnsAfter(states[r[1]]) \in Nat /\ r[2] \in Nat /\ r[2] >= 1
      BY <1>2, RowsAre
    <3> DEFINE k == OnsAfter(states[r[1]]) + r[2]
    <3>2. k \in Nat /\ k >= 1
      BY <3>1
    <3> HIDE DEF k
    <3>3. Passed(NextCall, r[1], k) <=> Passed(at, r[1], k)
      BY <1>1, <3>1, <3>2
    <3> QED
      BY <3>3 DEF k
  <2> QED
    BY <2>1 DEF RowsMade
<1>7. (unhandled /\ Passed(NextCall, 0, 1)) <=>
         ((unhandled /\ Passed(at, 0, 1)) \/ ThisCall.call = "when_unhandled")
  <2>1. Len(states) \in Nat
    BY PartsAre
  <2>2. CASE at = <<0, 1>> /\ unhandled /\ ThisCall = BlockCall("when_unhandled", None) /\ NextCall = <<1, 1>>
    BY <2>2 DEF Passed, BlockCall
  <2>3. CASE /\ at = <<Len(states) + 1, 1>> /\ ThisCall = BlockCall("build", None)
             /\ NextCall = <<Len(states) + 2, 1>>
    BY <2>1, <2>3 DEF Passed, BlockCall
  <2>4. CASE InBlock(at) /\ states[at[1]] \in BlockOf(StatePath) /\ ThisCall = CallOf(states[at[1]], at[2])
    BY <2>4, KindsAre DEF InBlock
  <2> QED
    BY <2>2, <2>3, <2>4, CallIs
<1> QED
  BY <1>3, <1>4, <1>5, <1>6, <1>7

\* A call of a block.
LEMMA MadeInBlock ==
    ASSUME MacroType, Place, Running, ThisCall.call \notin {"when_unhandled", "build"}
    PROVE  /\ at[1] \in DOMAIN states
           /\ EntriesMade(NextCall) = IF ThisCall.call = "on_entry" THEN EntriesMade(at) \cup {at[1]}
                                      ELSE EntriesMade(at)
           /\ ExitsMade(NextCall) = IF ThisCall.call = "on_exit" THEN ExitsMade(at) \cup {at[1]}
                                    ELSE ExitsMade(at)
           /\ TimeoutsMade(NextCall) = IF ThisCall.call = "timeout" THEN TimeoutsMade(at) \cup {at[1]}
                                       ELSE TimeoutsMade(at)
           /\ RowsMade(NextCall) = IF ThisCall.call = "on" THEN RowsMade(at) \cup {RowAt(at)} ELSE RowsMade(at)
           /\ Passed(NextCall, 0, 1) <=> Passed(at, 0, 1)
<1> DEFINE i == at[1]
           k == at[2]
           b == states[at[1]]
           last == Size(states[at[1]])
<1>1. /\ at \in Nat \X Nat /\ InBlock(at) /\ b \in BlockOf(StatePath) /\ ThisCall = CallOf(b, k)
      /\ NextCall = IF k < last THEN <<i, k + 1>> ELSE <<i + 1, 1>>
  BY CallIs DEF BlockCall
<1>2. i \in DOMAIN states /\ k \in 1 .. last /\ i \in Nat /\ k \in Nat /\ i >= 1
  BY <1>1, PartsAre DEF InBlock
<1>3. /\ ThisCall.call = "on_entry" <=> (b.entry /\ k = 1)
      /\ ThisCall.call = "on_exit" <=> (b.exit /\ k = Hooks(b))
      /\ ThisCall.call = "timeout" <=> (b.timeout # None /\ k = WhenAt(b) + 1)
      /\ ThisCall.call = "on" <=> k - OnsAfter(b) \in DOMAIN b.rows
  BY <1>1, <1>2, KindsAre
<1>4. \A j \in DOMAIN states :
         /\ j \in Nat /\ Hooks(states[j]) \in Nat
         /\ states[j].exit => Hooks(states[j]) >= 1
         /\ WhenAt(states[j]) = Hooks(states[j]) + 1
         /\ OnsAfter(states[j]) = IF states[j].timeout # None THEN WhenAt(states[j]) + 1 ELSE WhenAt(states[j])
         /\ Size(states[j]) \in Nat /\ Size(states[j]) = OnsAfter(states[j]) + Len(states[j].rows) + 1
         /\ Len(states[j].rows) \in Nat /\ DOMAIN states[j].rows = 1 .. Len(states[j].rows)
  <2> SUFFICES ASSUME NEW j \in DOMAIN states
               PROVE /\ j \in Nat /\ Hooks(states[j]) \in Nat
                     /\ states[j].exit => Hooks(states[j]) >= 1
                     /\ WhenAt(states[j]) = Hooks(states[j]) + 1
                     /\ OnsAfter(states[j]) = IF states[j].timeout # None THEN WhenAt(states[j]) + 1
                                              ELSE WhenAt(states[j])
                     /\ Size(states[j]) \in Nat /\ Size(states[j]) = OnsAfter(states[j]) + Len(states[j].rows) + 1
                     /\ Len(states[j].rows) \in Nat /\ DOMAIN states[j].rows = 1 .. Len(states[j].rows)
    OBVIOUS
  <2>1. states[j] \in BlockOf(StatePath) /\ j \in Nat
    BY PartsAre
  <2> QED
    BY <2>1, SizesAre
<1>5. last \in Nat
  BY <1>2, <1>4
<1>6. \A j \in Nat, m \in Nat :
         m >= 1 /\ (j = i => m <= last) => (Passed(NextCall, j, m) <=> (Passed(at, j, m) \/ (j = i /\ m = k)))
  BY <1>1, <1>2, <1>5, PassedNext
<1> HIDE DEF i, k, b, last
<1>7. b = states[i] /\ last = Size(states[i])
  BY DEF b, i, last
<1>8. EntriesMade(NextCall) = IF ThisCall.call = "on_entry" THEN EntriesMade(at) \cup {i} ELSE EntriesMade(at)
  <2>1. \A j \in DOMAIN states : states[j].entry =>
           (Passed(NextCall, j, 1) <=> (Passed(at, j, 1) \/ (j = i /\ k = 1)))
    <3>1. 1 <= last
      BY <1>2, <1>5
    <3> QED
      BY <3>1, <1>4, <1>6
  <2> QED
    BY <2>1, <1>2, <1>3, <1>7 DEF EntriesMade
<1>9. ExitsMade(NextCall) = IF ThisCall.call = "on_exit" THEN ExitsMade(at) \cup {i} ELSE ExitsMade(at)
  <2>1. \A j \in DOMAIN states : states[j].exit =>
           (Passed(NextCall, j, Hooks(states[j])) <=> (Passed(at, j, Hooks(states[j])) \/ (j = i /\ k = Hooks(b))))
    BY <1>4, <1>6, <1>7
  <2> QED
    BY <2>1, <1>2, <1>3, <1>7 DEF ExitsMade
<1>10. TimeoutsMade(NextCall) = IF ThisCall.call = "timeout" THEN TimeoutsMade(at) \cup {i} ELSE TimeoutsMade(at)
  <2>1. \A j \in DOMAIN states : states[j].timeout # None =>
           (Passed(NextCall, j, WhenAt(states[j]) + 1)
              <=> (Passed(at, j, WhenAt(states[j]) + 1) \/ (j = i /\ k = WhenAt(b) + 1)))
    <3> SUFFICES ASSUME NEW j \in DOMAIN states, states[j].timeout # None
                 PROVE  Passed(NextCall, j, WhenAt(states[j]) + 1)
                           <=> (Passed(at, j, WhenAt(states[j]) + 1) \/ (j = i /\ k = WhenAt(b) + 1))
      OBVIOUS
    <3> DEFINE m == WhenAt(states[j]) + 1
    <3>1. j \in Nat /\ m \in Nat /\ m >= 1 /\ (j = i => m <= last)
      BY <1>4, <1>7
    <3> HIDE DEF m
    <3>2. Passed(NextCall, j, m) <=> (Passed(at, j, m) \/ (j = i /\ m = k))
      BY <3>1, <1>6
    <3> QED
      BY <3>2, <1>7 DEF m
  <2> QED
    BY <2>1, <1>2, <1>3, <1>7 DEF TimeoutsMade
<1>11. RowsMade(NextCall) = IF ThisCall.call = "on" THEN RowsMade(at) \cup {RowAt(at)} ELSE RowsMade(at)
  <2>0. RowAt(at) = <<i, k - OnsAfter(b)>>
    BY DEF RowAt, i, k, b
  <2>1. \A r \in SourceRows :
           Passed(NextCall, r[1], OnsAfter(states[r[1]]) + r[2])
              <=> (Passed(at, r[1], OnsAfter(states[r[1]]) + r[2]) \/ (r[1] = i /\ r[2] = k - OnsAfter(b)))
    <3> SUFFICES ASSUME NEW r \in SourceRows
                 PROVE  Passed(NextCall, r[1], OnsAfter(states[r[1]]) + r[2])
                           <=> (Passed(at, r[1], OnsAfter(states[r[1]]) + r[2])
                                  \/ (r[1] = i /\ r[2] = k - OnsAfter(b)))
      OBVIOUS
    <3> DEFINE m == OnsAfter(states[r[1]]) + r[2]
    <3>1. r[1] \in DOMAIN states /\ r[2] \in DOMAIN states[r[1]].rows /\ r[2] \in Nat /\ r[2] >= 1
      BY RowsAre
    <3> DEFINE o == OnsAfter(states[r[1]])
               n == Len(states[r[1]].rows)
    <3>5. o \in Nat /\ n \in Nat /\ r[2] \in 1 .. n /\ Size(states[r[1]]) = o + n + 1 /\ r[1] \in Nat
      <4>1. DOMAIN states[r[1]].rows = 1 .. n
        BY <3>1, <1>4
      <4> QED
        BY <3>1, <4>1, <1>4
    <3>6. r[1] = i => last = Size(states[r[1]]) /\ o = OnsAfter(b)
      BY <1>7
    <3> HIDE DEF n, o
    <3>2. r[1] \in Nat /\ m \in Nat /\ m >= 1 /\ (r[1] = i => m <= last)
      <4>1. m = o + r[2]
        BY DEF o
      <4> HIDE DEF m
      <4> QED
        BY <4>1, <3>1, <3>5, <3>6
    <3>3. r[1] = i => (m = k <=> r[2] = k - OnsAfter(b))
      <4>1. m = o + r[2]
        BY DEF o
      <4> HIDE DEF m
      <4> QED
        BY <4>1, <3>1, <3>5, <3>6, <1>2
    <3> HIDE DEF m
    <3>4. Passed(NextCall, r[1], m) <=> (Passed(at, r[1], m) \/ (r[1] = i /\ m = k))
      BY <3>2, <1>6
    <3> QED
      BY <3>3, <3>4 DEF m
  <2>2. \A r \in SourceRows : (r[1] = i /\ r[2] = k - OnsAfter(b)) <=> r = RowAt(at)
    BY <2>0, RowsAre
  <2>3. ThisCall.call = "on" => RowAt(at) \in SourceRows
    BY <2>0, <1>2, <1>3, <1>7, RowIsSource
  <2>4. ThisCall.call # "on" => RowAt(at) \notin SourceRows
    <3> SUFFICES ASSUME RowAt(at) \in SourceRows PROVE ThisCall.call = "on"
      OBVIOUS
    <3>1. RowAt(at)[2] \in DOMAIN states[RowAt(at)[1]].rows
      BY RowsAre
    <3> QED
      BY <3>1, <2>0, <1>3, <1>7
  <2>5. \A r \in SourceRows :
           Passed(NextCall, r[1], OnsAfter(states[r[1]]) + r[2])
              <=> (Passed(at, r[1], OnsAfter(states[r[1]]) + r[2]) \/ r = RowAt(at))
    BY <2>1, <2>2
  <2> HIDE DEF RowAt
  <2> QED
    BY <2>3, <2>4, <2>5 DEF RowsMade
<1>12. Passed(NextCall, 0, 1) <=> Passed(at, 0, 1)
  BY <1>2, <1>6
<1> QED
  BY <1>2, <1>8, <1>9, <1>10, <1>11, <1>12 DEF i

\* The rows made so far stand before the one that is made next.
LEMMA RowsMadeBefore ==
    ASSUME MacroType, Place, Running, ThisCall.call = "on"
    PROVE  /\ RowAt(at) \in SourceRows
           /\ \A q \in RowsMade(at) : Before(q, RowAt(at)) /\ ~Before(RowAt(at), q) /\ q # RowAt(at)
<1> DEFINE i == at[1]
           k == at[2]
           b == states[at[1]]
<1>1. at \in Nat \X Nat /\ InBlock(at) /\ b \in BlockOf(StatePath) /\ ThisCall = CallOf(b, k)
  BY CallIs DEF BlockCall
<1>2. i \in DOMAIN states /\ k \in 1 .. Size(b) /\ i \in Nat /\ k \in Nat
  BY <1>1 DEF InBlock
<1>3. k - OnsAfter(b) \in DOMAIN b.rows /\ OnsAfter(b) \in Nat
  BY <1>1, <1>2, KindsAre, SizesAre
<1>4. RowAt(at) \in SourceRows
  BY <1>2, <1>3, RowIsSource DEF RowAt
<1>5. ASSUME NEW q \in RowsMade(at)
      PROVE  Before(q, RowAt(at)) /\ ~Before(RowAt(at), q) /\ q # RowAt(at)
  <2> DEFINE m == OnsAfter(states[q[1]]) + q[2]
  <2>1. q \in SourceRows /\ Passed(at, q[1], m)
    BY <1>5 DEF RowsMade
  <2>2. q[1] \in Nat /\ q[2] \in Nat /\ q = <<q[1], q[2]>>
    BY <2>1, RowsAre
  <2>3. RowAt(at)[1] = i /\ RowAt(at)[2] = k - OnsAfter(b)
    BY DEF RowAt
  <2>4. i > q[1] \/ (i = q[1] /\ k > OnsAfter(b) + q[2])
    BY <2>1 DEF Passed
  <2> HIDE DEF i, k, b, m
  <2>5. q[1] < i \/ (q[1] = i /\ q[2] < k - OnsAfter(b))
    BY <2>4, <2>2, <1>2, <1>3
  <2> QED
    BY <2>2, <2>3, <2>5, <1>2, <1>3 DEF Before
<1> QED
  BY <1>4, <1>5

\* How a row of the source is registered.
ViaOf(r) == IF states[r[1]].timeout # None THEN "timeout" ELSE "when"

LEMMA ArgumentIs ==
    ASSUME MacroType, Place, Running, ThisCall.call \notin {"when_unhandled", "build"}
    PROVE  /\ at[1] \in DOMAIN states
           /\ ThisCall.call \in {"on_entry", "on_exit"} => ThisCall.arg = states[at[1]].state.segment
           /\ ThisCall.call = "timeout" =>
                 /\ ThisCall.arg = states[at[1]].timeout /\ states[at[1]].timeout # None
                 /\ state_name = states[at[1]].state.segment
           /\ ThisCall.call = "on" =>
                 <<state_name, ThisCall.arg>> = SegmentKey(RowAt(at)) /\ stage = ViaOf(RowAt(at))
<1> DEFINE i == at[1]
           k == at[2]
           b == states[at[1]]
<1>1. /\ InBlock(at) /\ b \in BlockOf(StatePath) /\ ThisCall = CallOf(b, k) /\ StageBefore(b, k)
      /\ at \in Nat \X Nat
  BY CallIs DEF BlockCall
<1>2. i \in DOMAIN states /\ k \in 1 .. Size(b) /\ k \in Nat
  BY <1>1 DEF InBlock
<1>3. /\ ThisCall.call = "timeout" <=> (b.timeout # None /\ k = WhenAt(b) + 1)
      /\ ThisCall.call = "on" <=> k - OnsAfter(b) \in DOMAIN b.rows
      /\ ThisCall.call \in {"on_entry", "on_exit", "when"} => ThisCall.arg = b.state.segment
      /\ ThisCall.call = "timeout" => ThisCall.arg = b.timeout
      /\ ThisCall.call = "on" => ThisCall.arg = b.rows[k - OnsAfter(b)].segment
  BY <1>1, <1>2, KindsAre
<1>4. /\ DOMAIN b.rows = 1 .. Len(b.rows) /\ Len(b.rows) \in Nat /\ WhenAt(b) \in Nat
      /\ OnsAfter(b) = IF b.timeout # None THEN WhenAt(b) + 1 ELSE WhenAt(b)
  BY <1>1, SizesAre
<1>5. ThisCall.call = "timeout" => state_name = b.state.segment
  BY <1>1, <1>2, <1>3, <1>4 DEF StageBefore
<1>6. ThisCall.call = "on" =>
         <<state_name, ThisCall.arg>> = SegmentKey(RowAt(at)) /\ stage = ViaOf(RowAt(at))
  <2> SUFFICES ASSUME ThisCall.call = "on"
               PROVE  <<state_name, ThisCall.arg>> = SegmentKey(RowAt(at)) /\ stage = ViaOf(RowAt(at))
    OBVIOUS
  <2>1. RowAt(at)[1] = i /\ RowAt(at)[2] = k - OnsAfter(b)
    BY DEF RowAt
  <2>2. k > WhenAt(b) /\ (b.timeout # None => k > WhenAt(b) + 1)
    <3>1. k - OnsAfter(b) >= 1
      BY <1>2, <1>3, <1>4
    <3> QED
      BY <3>1, <1>2, <1>4
  <2>3. state_name = b.state.segment /\ stage = IF b.timeout # None THEN "timeout" ELSE "when"
    BY <2>2, <1>1, <1>2, <1>4 DEF StageBefore
  <2>4. SegmentKey(RowAt(at)) = <<b.state.segment, b.rows[k - OnsAfter(b)].segment>>
    BY <2>1 DEF SegmentKey, StateOf, EventOf
  <2> QED
    BY <2>1, <2>3, <2>4, <1>3 DEF ViaOf
<1> QED
  BY <1>2, <1>3, <1>5, <1>6

\* place leads from the rows of the source to the calls that registered them: in
\* the order of the source, each under its names and through its builder type,
\* and there are no other such calls.
PlacedIn(c, rows, place) ==
    /\ place \in [rows -> RowsOf(c)]
    /\ \A q, r \in rows : Before(q, r) => place[q] < place[r]
    /\ \A i \in RowsOf(c) : \E r \in rows : place[r] = i
    /\ \A r \in rows : KeyIn(c, place[r]) = SegmentKey(r) /\ c[place[r]].via = ViaOf(r)

LEMMA PlacedKept ==
    ASSUME NEW c \in Seq(Record), NEW rec \in Record, rec.op # "on", NEW rows, NEW place,
           PlacedIn(c, rows, place)
    PROVE  PlacedIn(Append(c, rec), rows, place)
<1> DEFINE d == Append(c, rec)
<1>1. /\ RowsOf(d) = RowsOf(c)
      /\ \A i \in RowsOf(c) : KeyIn(d, i) = KeyIn(c, i) /\ d[i] = c[i]
  BY RowsAppended
<1> HIDE DEF d
<1>2. PlacedIn(d, rows, place)
  BY <1>1 DEF PlacedIn
<1> QED
  BY <1>2 DEF d

LEMMA PlacedMore ==
    ASSUME NEW c \in Seq(Record), NEW rec \in Record, rec.op = "on", NEW rows, NEW place,
           PlacedIn(c, rows, place), NEW new,
           \A q \in rows : Before(q, new) /\ ~Before(new, q) /\ q # new, ~Before(new, new),
           <<rec.state, rec.event>> = SegmentKey(new), rec.via = ViaOf(new)
    PROVE  \E more : PlacedIn(Append(c, rec), rows \cup {new}, more)
<1> DEFINE d == Append(c, rec)
           last == Len(c) + 1
           more == [r \in rows \cup {new} |-> IF r = new THEN last ELSE place[r]]
<1>1. /\ RowsOf(d) = RowsOf(c) \cup {last} /\ last \in Nat
      /\ \A i \in RowsOf(c) : KeyIn(d, i) = KeyIn(c, i) /\ d[i] = c[i] /\ i \in Nat /\ i < last
      /\ KeyIn(d, last) = SegmentKey(new) /\ d[last] = rec
  BY RowsAppended
<1>2. /\ DOMAIN more = rows \cup {new} /\ more = [r \in rows \cup {new} |-> more[r]]
      /\ more[new] = last /\ \A r \in rows : more[r] = place[r]
  OBVIOUS
<1> HIDE DEF d, last, more
<1>3. \A r \in rows : place[r] \in RowsOf(c)
  BY DEF PlacedIn
<1>4. more \in [rows \cup {new} -> RowsOf(d)]
  BY <1>1, <1>2, <1>3
<1>5. \A q, r \in rows \cup {new} : Before(q, r) => more[q] < more[r]
  BY <1>1, <1>2, <1>3 DEF PlacedIn
<1>6. \A i \in RowsOf(d) : \E r \in rows \cup {new} : more[r] = i
  BY <1>1, <1>2 DEF PlacedIn
<1>7. \A r \in rows \cup {new} : KeyIn(d, more[r]) = SegmentKey(r) /\ d[more[r]].via = ViaOf(r)
  BY <1>1, <1>2, <1>3 DEF PlacedIn
<1>8. PlacedIn(d, rows \cup {new}, more)
  BY <1>4, <1>5, <1>6, <1>7 DEF PlacedIn
<1> QED
  BY <1>8 DEF d

Matched ==
    /\ DOMAIN entry_handlers = Named(EntriesMade(at))
    /\ DOMAIN exit_handlers = Named(ExitsMade(at))
    /\ DOMAIN timeout_handlers = Named(TimeoutsMade(at))
    /\ \A n \in DOMAIN timeout_handlers : \E i \in TimeoutsMade(at) :
          states[i].state.segment = n /\ states[i].timeout = timeout_handlers[n].duration
    /\ unhandled_handler # None <=> (unhandled /\ Passed(at, 0, 1))
    /\ \E place : PlacedIn(calls, RowsMade(at), place)

\* A call as a record of the list, and the maps and keys it leaves alone.
LEMMA CallRecorded ==
    ASSUME TypeOK, NEW c, CallMade(c), c.call \in {"on_entry", "on_exit", "on"} => c.arg \in Name \cup Event,
           c.call \in {"on_entry", "on_exit"} => c.arg \in Name, c.call = "on" => c.arg \in Event
    PROVE  /\ calls \in Seq(Record)
           /\ \/ c.call \in {"when", "done", "build"} /\ calls' = calls
              \/ \E rec \in Record :
                    /\ calls' = Append(calls, rec)
                    /\ c.call = "on" => rec.op = "on" /\ rec.via = stage /\ rec.state = state_name
                                        /\ rec.event = c.arg
                    /\ c.call # "on" => rec.op # "on"
           /\ IF c.call = "on_entry" THEN DOMAIN entry_handlers' = DOMAIN entry_handlers \cup {c.arg}
              ELSE entry_handlers' = entry_handlers
           /\ IF c.call = "on_exit" THEN DOMAIN exit_handlers' = DOMAIN exit_handlers \cup {c.arg}
              ELSE exit_handlers' = exit_handlers
           /\ IF c.call = "timeout"
              THEN \E h : timeout_handlers' = Insert(timeout_handlers, state_name, [duration |-> c.arg, handler |-> h])
              ELSE timeout_handlers' = timeout_handlers
           /\ IF c.call = "when_unhandled" THEN unhandled_handler' \in Nat
              ELSE unhandled_handler' = unhandled_handler
<1>0. calls \in Seq(Record) /\ Handler \in Nat
  BY DEF TypeOK, Record, Handler
<1>1. CASE c.call = "when_unhandled" /\ WhenUnhandled
  <2>1. \E rec \in Record : calls' = Append(calls, rec) /\ rec.op # "on"
    <3>1. stage \in {"fsm", "when", "timeout"} /\ Register("unhandled", None, None)
      BY <1>1 DEF WhenUnhandled
    <3> QED
      BY <3>1, RegisterAppends
  <2> QED
    BY <1>0, <1>1, <2>1 DEF WhenUnhandled, maps
<1>2. CASE c.call = "on_entry" /\ OnEntry(c.arg)
  <2>1. \E rec \in Record : calls' = Append(calls, rec) /\ rec.op # "on"
    <3>1. stage \in {"fsm", "when", "timeout"} /\ Register("on_entry", c.arg, None) /\ c.arg \in Name \cup {None}
      BY <1>2 DEF OnEntry
    <3> QED
      BY <3>1, RegisterAppends
  <2> QED
    BY <1>0, <1>2, <2>1 DEF OnEntry, Insert
<1>3. CASE c.call = "on_exit" /\ OnExit(c.arg)
  <2>1. \E rec \in Record : calls' = Append(calls, rec) /\ rec.op # "on"
    <3>1. stage \in {"fsm", "when", "timeout"} /\ Register("on_exit", c.arg, None) /\ c.arg \in Name \cup {None}
      BY <1>3 DEF OnExit
    <3> QED
      BY <3>1, RegisterAppends
  <2> QED
    BY <1>0, <1>3, <2>1 DEF OnExit, Insert
<1>4. CASE c.call = "timeout" /\ WhenTimeout(c.arg)
  <2>1. \E rec \in Record : calls' = Append(calls, rec) /\ rec.op # "on"
    <3>1. stage \in {"fsm", "when", "timeout"} /\ Register("timeout", state_name, None)
          /\ state_name \in Name \cup {None}
      BY <1>4 DEF WhenTimeout, TypeOK
    <3> QED
      BY <3>1, RegisterAppends
  <2> QED
    BY <1>0, <1>4, <2>1 DEF WhenTimeout
<1>5. CASE c.call = "on" /\ (WhenOn(c.arg) \/ TimeoutOn(c.arg))
  <2>1. \E rec \in Record : /\ calls' = Append(calls, rec)
                            /\ rec.op = "on" /\ rec.via = stage /\ rec.state = state_name /\ rec.event = c.arg
    <3>1. /\ stage \in {"fsm", "when", "timeout"} /\ Register("on", state_name, c.arg)
          /\ state_name \in Name \cup {None} /\ c.arg \in Event \cup {None}
      BY <1>5 DEF WhenOn, TimeoutOn, TypeOK
    <3> QED
      BY <3>1, RegisterAppends
  <2>2. UNCHANGED <<entry_handlers, exit_handlers, timeout_handlers, unhandled_handler>>
    BY <1>5 DEF WhenOn, TimeoutOn
  <2> QED
    BY <1>0, <1>5, <2>1, <2>2
<1>6. CASE c.call \in {"when", "done", "build"} /\ (When(c.arg) \/ Done \/ TryBuild)
  BY <1>0, <1>6 DEF When, Open, Done, TryBuild, maps
<1> QED
  BY <1>1, <1>2, <1>3, <1>4, <1>5, <1>6 DEF CallMade

LEMMA NextMatched ==
    ASSUME TypeOK, ExpansionInv, RunStep, Matched
    PROVE  Matched'
<1> DEFINE c == ThisCall
           i == at[1]
           more == NextCall
<1>1. /\ MacroType /\ Place /\ Running /\ CallMade(c) /\ at' = more
      /\ UNCHANGED <<states, unhandled>>
  BY CallMoves DEF RunStep, ExpansionInv
<1>2. /\ EntriesMade(more) = IF c.call = "on_entry" THEN EntriesMade(at) \cup {i} ELSE EntriesMade(at)
      /\ ExitsMade(more) = IF c.call = "on_exit" THEN ExitsMade(at) \cup {i} ELSE ExitsMade(at)
      /\ TimeoutsMade(more) = IF c.call = "timeout" THEN TimeoutsMade(at) \cup {i} ELSE TimeoutsMade(at)
      /\ RowsMade(more) = IF c.call = "on" THEN RowsMade(at) \cup {RowAt(at)} ELSE RowsMade(at)
      /\ (unhandled /\ Passed(more, 0, 1)) <=> ((unhandled /\ Passed(at, 0, 1)) \/ c.call = "when_unhandled")
  <2>1. CASE c.call \in {"when_unhandled", "build"}
    BY <1>1, <2>1, MadeOutside
  <2>2. CASE c.call \notin {"when_unhandled", "build"}
    BY <1>1, <2>2, MadeInBlock
  <2> QED
    BY <2>1, <2>2
<1>3. /\ EntriesMade(at)' = EntriesMade(more) /\ ExitsMade(at)' = ExitsMade(more)
      /\ TimeoutsMade(at)' = TimeoutsMade(more) /\ RowsMade(at)' = RowsMade(more)
      /\ Passed(at, 0, 1)' = Passed(more, 0, 1)
  <2> HIDE DEF more
  <2> QED
    BY <1>1 DEF EntriesMade, ExitsMade, TimeoutsMade, RowsMade, SourceRows, Passed
<1>4. /\ c.call \in {"on_entry", "on_exit"} => c.arg = states[i].state.segment /\ i \in DOMAIN states
      /\ c.call = "timeout" => /\ c.arg = states[i].timeout /\ i \in DOMAIN states
                               /\ state_name = states[i].state.segment
      /\ c.call = "on" => <<state_name, c.arg>> = SegmentKey(RowAt(at)) /\ stage = ViaOf(RowAt(at))
  BY <1>1, ArgumentIs
<1>5. /\ c.call \in {"on_entry", "on_exit"} => c.arg \in Name
      /\ c.call = "on" => c.arg \in Event
  <2>1. \A j \in DOMAIN states : states[j] \in BlockOf(StatePath)
    BY <1>1, PartsAre
  <2>2. c.call = "on" => c.arg \in Event
    <3> SUFFICES ASSUME c.call = "on" PROVE c.arg \in Event
      OBVIOUS
    <3>1. RowAt(at) \in SourceRows
      BY <1>1, RowsMadeBefore
    <3>2. EventOf(RowAt(at)) \in EventPath
      <4> DEFINE r == RowAt(at)
      <4> HIDE DEF r
      <4>1. r[1] \in DOMAIN states /\ r[2] \in DOMAIN states[r[1]].rows
        BY <1>1, <3>1, RowsAre DEF r
      <4> QED
        BY <2>1, <4>1 DEF BlockOf, EventOf, r
    <3> QED
      BY <1>4, <3>2, MacroAssumption DEF SegmentKey
  <2> QED
    BY <1>4, <2>1, <2>2, MacroAssumption DEF BlockOf, Name
<1>6. /\ calls \in Seq(Record)
      /\ IF c.call = "on_entry" THEN DOMAIN entry_handlers' = DOMAIN entry_handlers \cup {c.arg}
         ELSE entry_handlers' = entry_handlers
      /\ IF c.call = "on_exit" THEN DOMAIN exit_handlers' = DOMAIN exit_handlers \cup {c.arg}
         ELSE exit_handlers' = exit_handlers
      /\ IF c.call = "timeout"
         THEN \E h : timeout_handlers' = Insert(timeout_handlers, state_name, [duration |-> c.arg, handler |-> h])
         ELSE timeout_handlers' = timeout_handlers
      /\ IF c.call = "when_unhandled" THEN unhandled_handler' \in Nat
         ELSE unhandled_handler' = unhandled_handler
  BY <1>1, <1>5, CallRecorded
<1>7. \/ c.call # "on" /\ calls' = calls
      \/ \E rec \in Record :
            /\ calls' = Append(calls, rec)
            /\ c.call = "on" => rec.op = "on" /\ rec.via = stage /\ rec.state = state_name /\ rec.event = c.arg
            /\ c.call # "on" => rec.op # "on"
  BY <1>1, <1>5, CallRecorded
<1> HIDE DEF c, i, more
<1>8. \E place : PlacedIn(calls', RowsMade(more), place)
  <2>1. PICK place : PlacedIn(calls, RowsMade(at), place)
    BY DEF Matched
  <2>2. CASE c.call # "on" /\ calls' = calls
    <3>1. RowsMade(more) = RowsMade(at)
      BY <1>2, <2>2
    <3> QED
      BY <2>1, <2>2, <3>1
  <2>3. ASSUME NEW rec \in Record, calls' = Append(calls, rec), c.call # "on", rec.op # "on"
        PROVE  \E p : PlacedIn(calls', RowsMade(more), p)
    <3>1. RowsMade(more) = RowsMade(at)
      BY <1>2, <2>3
    <3> QED
      BY <1>6, <2>1, <2>3, <3>1, PlacedKept
  <2>4. ASSUME NEW rec \in Record, calls' = Append(calls, rec), c.call = "on", rec.op = "on",
               rec.via = stage, rec.state = state_name, rec.event = c.arg
        PROVE  \E p : PlacedIn(calls', RowsMade(more), p)
    <3> DEFINE new == RowAt(at)
    <3>1. \A q \in RowsMade(at) : Before(q, new) /\ ~Before(new, q) /\ q # new
      BY <1>1, <2>4, RowsMadeBefore DEF c
    <3>2. ~Before(new, new)
      <4>1. new \in SourceRows
        BY <1>1, <2>4, RowsMadeBefore DEF c
      <4> HIDE DEF new
      <4>2. new[1] \in Nat /\ new[2] \in Nat
        BY <1>1, <4>1, RowsAre
      <4> QED
        BY <4>2 DEF Before
    <3>3. <<rec.state, rec.event>> = SegmentKey(new) /\ rec.via = ViaOf(new)
      BY <1>4, <2>4
    <3>4. RowsMade(more) = RowsMade(at) \cup {new}
      BY <1>2, <2>4
    <3> HIDE DEF new
    <3> QED
      <4>1. \E p : PlacedIn(Append(calls, rec), RowsMade(at) \cup {new}, p)
        BY <1>6, <2>1, <2>4, <3>1, <3>2, <3>3, PlacedMore
      <4> QED
        BY <2>4, <3>4, <4>1
  <2> QED
    BY <1>7, <2>2, <2>3, <2>4
<1>9. (\E place : PlacedIn(calls, RowsMade(at), place))'
  BY <1>1, <1>3, <1>8 DEF PlacedIn, SegmentKey, StateOf, EventOf, ViaOf
<1>10. Named(EntriesMade(at))' = Named(EntriesMade(more)) /\ Named(ExitsMade(at))' = Named(ExitsMade(more))
       /\ Named(TimeoutsMade(at))' = Named(TimeoutsMade(more))
  BY <1>1, <1>3 DEF Named
<1>11. (DOMAIN entry_handlers = Named(EntriesMade(at)))' /\ (DOMAIN exit_handlers = Named(ExitsMade(at)))'
  <2>1. DOMAIN entry_handlers = Named(EntriesMade(at)) /\ DOMAIN exit_handlers = Named(ExitsMade(at))
    BY DEF Matched
  <2>2. \A I : Named(I \cup {i}) = Named(I) \cup {states[i].state.segment}
    BY DEF Named
  <2>3. DOMAIN entry_handlers' = Named(EntriesMade(more))
    BY <1>2, <1>4, <1>6, <2>1, <2>2
  <2>4. DOMAIN exit_handlers' = Named(ExitsMade(more))
    BY <1>2, <1>4, <1>6, <2>1, <2>2
  <2> QED
    BY <1>10, <2>3, <2>4
<1>12. /\ DOMAIN timeout_handlers' = Named(TimeoutsMade(more))
       /\ \A n \in DOMAIN timeout_handlers' : \E j \in TimeoutsMade(more) :
             states[j].state.segment = n /\ states[j].timeout = timeout_handlers'[n].duration
  <2>1. /\ DOMAIN timeout_handlers = Named(TimeoutsMade(at))
        /\ \A n \in DOMAIN timeout_handlers : \E j \in TimeoutsMade(at) :
              states[j].state.segment = n /\ states[j].timeout = timeout_handlers[n].duration
    BY DEF Matched
  <2>2. CASE c.call # "timeout"
    BY <1>2, <1>6, <2>1, <2>2
  <2>3. CASE c.call = "timeout"
    <3>1. PICK h : timeout_handlers' = Insert(timeout_handlers, state_name, [duration |-> c.arg, handler |-> h])
      BY <1>6, <2>3
    <3> DEFINE new == [duration |-> c.arg, handler |-> h]
    <3>2. new.duration = c.arg
      OBVIOUS
    <3> HIDE DEF new
    <3>3. /\ DOMAIN timeout_handlers' = DOMAIN timeout_handlers \cup {state_name}
          /\ \A n \in DOMAIN timeout_handlers' :
                timeout_handlers'[n] = IF n = state_name THEN new ELSE timeout_handlers[n]
      BY <3>1 DEF Insert, new
    <3>4. /\ TimeoutsMade(more) = TimeoutsMade(at) \cup {i} /\ c.arg = states[i].timeout
          /\ state_name = states[i].state.segment
      BY <1>2, <1>4, <2>3
    <3>5. DOMAIN timeout_handlers' = Named(TimeoutsMade(more))
      BY <2>1, <3>3, <3>4 DEF Named
    <3>6. \A n \in DOMAIN timeout_handlers' : \E j \in TimeoutsMade(more) :
             states[j].state.segment = n /\ states[j].timeout = timeout_handlers'[n].duration
      BY <2>1, <3>2, <3>3, <3>4
    <3> QED
      BY <3>5, <3>6
  <2> QED
    BY <2>2, <2>3
<1>13. (unhandled_handler # None <=> (unhandled /\ Passed(at, 0, 1)))'
  <2>1. unhandled_handler # None <=> (unhandled /\ Passed(at, 0, 1))
    BY DEF Matched
  <2>2. unhandled_handler' # None <=> (unhandled_handler # None \/ c.call = "when_unhandled")
    BY <1>6, NoneAssumption
  <2> QED
    BY <1>1, <1>2, <1>3, <2>1, <2>2
<1>14. (\A n \in DOMAIN timeout_handlers : \E j \in TimeoutsMade(at) :
          states[j].state.segment = n /\ states[j].timeout = timeout_handlers[n].duration)'
  BY <1>1, <1>3, <1>12
<1> QED
  BY <1>9, <1>10, <1>11, <1>12, <1>13, <1>14 DEF Matched

MacroInv ==
    /\ BuilderInv
    /\ ExpansionInv
    /\ phase = "run" => Matched

LEMMA MacroInvariant == MSpec => []MacroInv
<1>1. MInit => (phase = "run" => Matched)
  BY DEF MInit
<1>2. ASSUME BuilderInv, ExpansionInv, phase = "run" => Matched, [MNext]_mvars
      PROVE  (phase = "run" => Matched)'
  <2>1. CASE RunStep
    BY <1>2, <2>1, NextMatched DEF BuilderInv, RunStep
  <2>2. CASE Compile
    <3>1. Init /\ at = FirstCall /\ UNCHANGED <<vars, states, unhandled, at>> /\ MacroType
      BY <1>2, <2>2 DEF Compile, ExpansionInv
    <3>2. \A i \in DOMAIN states, k \in Nat : k >= 1 => ~Passed(at, i, k)
      <4>1. at = <<0, 1>> \/ at = <<1, 1>>
        BY <3>1 DEF FirstCall
      <4>2. at[1] \in {0, 1} /\ at[2] = 1
        BY <4>1
      <4>3. \A i \in DOMAIN states : i \in Nat /\ i >= 1
        BY <3>1, PartsAre
      <4> QED
        BY <4>2, <4>3 DEF Passed
    <3>3. ~(unhandled /\ Passed(at, 0, 1))
      <4>1. unhandled => at[1] = 0 /\ at[2] = 1
        BY <3>1 DEF FirstCall
      <4> QED
        BY <4>1 DEF Passed
    <3>4. \A i \in DOMAIN states :
             /\ states[i].exit => Hooks(states[i]) \in Nat /\ Hooks(states[i]) >= 1
             /\ WhenAt(states[i]) + 1 \in Nat /\ WhenAt(states[i]) + 1 >= 1
             /\ OnsAfter(states[i]) \in Nat
      <4> SUFFICES ASSUME NEW i \in DOMAIN states
                   PROVE  /\ states[i].exit => Hooks(states[i]) \in Nat /\ Hooks(states[i]) >= 1
                          /\ WhenAt(states[i]) + 1 \in Nat /\ WhenAt(states[i]) + 1 >= 1
                          /\ OnsAfter(states[i]) \in Nat
        OBVIOUS
      <4>1. states[i] \in BlockOf(StatePath)
        BY <3>1, PartsAre
      <4> QED
        BY <4>1, SizesAre
    <3>5. EntriesMade(at) = {} /\ ExitsMade(at) = {} /\ TimeoutsMade(at) = {}
      BY <3>2, <3>4 DEF EntriesMade, ExitsMade, TimeoutsMade
    <3>6. RowsMade(at) = {}
      <4> SUFFICES ASSUME NEW r \in SourceRows PROVE ~Passed(at, r[1], OnsAfter(states[r[1]]) + r[2])
        BY DEF RowsMade
      <4> DEFINE k == OnsAfter(states[r[1]]) + r[2]
      <4>1. r[1] \in DOMAIN states /\ k \in Nat /\ k >= 1
        BY <3>1, <3>4, RowsAre
      <4> HIDE DEF k
      <4>2. ~Passed(at, r[1], k)
        BY <3>2, <4>1
      <4> QED
        BY <4>2 DEF k
    <3>7. DOMAIN entry_handlers = {} /\ DOMAIN exit_handlers = {} /\ DOMAIN timeout_handlers = {}
          /\ unhandled_handler = None /\ RowsOf(calls) = {}
      BY <3>1 DEF Init, RowsOf
    <3>8. \E place : PlacedIn(calls, RowsMade(at), place)
      <4> DEFINE place == [r \in {} |-> 0]
      <4>1. place \in [{} -> {}]
        OBVIOUS
      <4> HIDE DEF place
      <4>2. PlacedIn(calls, RowsMade(at), place)
        BY <3>6, <3>7, <4>1 DEF PlacedIn
      <4> QED
        BY <4>2
    <3>9. Matched
      BY <3>3, <3>5, <3>7, <3>8 DEF Matched, Named
    <3>10. /\ DOMAIN entry_handlers' = {} /\ DOMAIN exit_handlers' = {} /\ DOMAIN timeout_handlers' = {}
           /\ unhandled_handler' = None /\ UNCHANGED <<calls, states, unhandled, at>>
      BY <3>1, <3>7 DEF vars, maps
    <3>11. /\ EntriesMade(at)' = {} /\ ExitsMade(at)' = {} /\ TimeoutsMade(at)' = {}
           /\ (unhandled /\ Passed(at, 0, 1))' = (unhandled /\ Passed(at, 0, 1))
           /\ RowsMade(at)' = RowsMade(at)
      BY <3>5, <3>10 DEF EntriesMade, ExitsMade, TimeoutsMade, Passed, RowsMade, SourceRows
    <3>12. (\E place : PlacedIn(calls, RowsMade(at), place))'
      BY <3>8, <3>10, <3>11 DEF PlacedIn, SegmentKey, StateOf, EventOf, ViaOf
    <3>13. Named(EntriesMade(at))' = {} /\ Named(ExitsMade(at))' = {} /\ Named(TimeoutsMade(at))' = {}
      BY <3>11 DEF Named
    <3> QED
      BY <3>3, <3>10, <3>11, <3>12, <3>13 DEF Matched
  <2>3. CASE Finished \/ UNCHANGED mvars
    <3>1. UNCHANGED <<phase, entry_handlers, exit_handlers, timeout_handlers, unhandled_handler, calls,
                      states, unhandled, at>>
      BY <2>3 DEF Finished, mvars, vars, maps, parser
    <3>2. /\ EntriesMade(at)' = EntriesMade(at) /\ ExitsMade(at)' = ExitsMade(at)
          /\ TimeoutsMade(at)' = TimeoutsMade(at)
          /\ (unhandled /\ Passed(at, 0, 1))' = (unhandled /\ Passed(at, 0, 1))
          /\ RowsMade(at)' = RowsMade(at)
      BY <3>1 DEF EntriesMade, ExitsMade, TimeoutsMade, Passed, RowsMade, SourceRows
    <3>3. /\ Named(EntriesMade(at))' = Named(EntriesMade(at))
          /\ Named(ExitsMade(at))' = Named(ExitsMade(at))
          /\ Named(TimeoutsMade(at))' = Named(TimeoutsMade(at))
      BY <3>1, <3>2 DEF Named
    <3>4. CASE Matched
      <4>1. (\E place : PlacedIn(calls, RowsMade(at), place))'
        BY <3>1, <3>2, <3>4 DEF Matched, PlacedIn, SegmentKey, StateOf, EventOf, ViaOf
      <4> QED
        BY <3>1, <3>2, <3>3, <3>4, <4>1 DEF Matched
    <3> QED
      BY <1>2, <3>1, <3>4
  <2>4. CASE CallByHand
    BY <2>4 DEF CallByHand, parser
  <2>5. CASE ReadEndOfInput \/ phase' \notin {"run", "chain", "compile"}
    BY <2>5 DEF ReadEndOfInput
  <2> QED
    BY <1>2, <2>1, <2>2, <2>3, <2>4, <2>5, MacroSteps
<1> QED
  BY <1>1, <1>2, BuilderInMacro, BuilderInvariant, ExpansionInvariant, PTL DEF MSpec, MacroInv

\* When the chain has ended, everything the source declares has been called.
LEMMA AllMade ==
    ASSUME MacroType, Place, ~Running
    PROVE  /\ EntriesMade(at) = {i \in DOMAIN states : states[i].entry}
           /\ ExitsMade(at) = {i \in DOMAIN states : states[i].exit}
           /\ TimeoutsMade(at) = {i \in DOMAIN states : states[i].timeout # None}
           /\ RowsMade(at) = SourceRows
           /\ Passed(at, 0, 1)
<1>1. at = <<Len(states) + 2, 1>>
  BY DEF Place, Running, StageBefore
<1>2. at[1] = Len(states) + 2 /\ Len(states) \in Nat /\ DOMAIN states = 1 .. Len(states)
  BY <1>1, PartsAre
<1>3. \A i \in DOMAIN states : \A k : Passed(at, i, k)
  BY <1>2 DEF Passed
<1>4. Passed(at, 0, 1)
  BY <1>2 DEF Passed
<1>5. RowsMade(at) = SourceRows
  BY <1>3, RowsAre DEF RowsMade
<1> QED
  BY <1>3, <1>4, <1>5 DEF EntriesMade, ExitsMade, TimeoutsMade

\* The rows of the builder are those of the source, in its order.
LEMMA RowsPlaced ==
    ASSUME MacroInv, phase = "run", ~Running
    PROVE  \E place \in [SourceRows -> Rows] :
              /\ \A q, r \in SourceRows : Before(q, r) => place[q] < place[r]
              /\ \A i \in Rows : \E r \in SourceRows : place[r] = i
              /\ \A r \in SourceRows : KeyOf(place[r]) = SegmentKey(r) /\ calls[place[r]].via = ViaOf(r)
<1>1. PICK place : PlacedIn(calls, RowsMade(at), place)
  BY DEF MacroInv, Matched
<1>2. RowsMade(at) = SourceRows
  BY AllMade DEF MacroInv, ExpansionInv
<1>3. RowsOf(calls) = Rows /\ \A i : KeyIn(calls, i) = KeyOf(i)
  BY DEF RowsOf, Rows, KeyIn, KeyOf
<1> QED
  BY <1>1, <1>2, <1>3 DEF PlacedIn

\* What fsm! builds is what its source declares, for source texts of any length
\* over any names, whatever the order of the blocks and however often a state is
\* opened (codegen.rs:18-123).
THEOREM SourceMatches == MSpec => []TablesMatchSource
<1>1. ASSUME MacroInv, TablesHoldLastRegistration PROVE TablesMatchSource
  <2> SUFFICES ASSUME phase = "run", stage = "built"
               PROVE  /\ BuiltTables.transitions = {SegmentKey(r) : r \in SourceRows}
                      /\ BuiltTables.entry_handlers =
                            {states[i].state.segment : i \in {i \in DOMAIN states : states[i].entry}}
                      /\ BuiltTables.exit_handlers =
                            {states[i].state.segment : i \in {i \in DOMAIN states : states[i].exit}}
                      /\ DOMAIN BuiltTables.timeout_handlers =
                            {states[i].state.segment : i \in {i \in DOMAIN states : states[i].timeout # None}}
                      /\ BuiltTables.unhandled_handler = unhandled
    BY DEF TablesMatchSource, Expanded
  <2>1. ~Running /\ MacroType /\ Place /\ Matched
    BY <1>1 DEF Running, MacroInv, ExpansionInv
  <2>2. DOMAIN transitions = {SegmentKey(r) : r \in SourceRows}
    <3>1. DOMAIN transitions = {KeyOf(i) : i \in Rows}
      BY <1>1 DEF TablesHoldLastRegistration
    <3>2. PICK place \in [SourceRows -> Rows] :
              /\ \A i \in Rows : \E r \in SourceRows : place[r] = i
              /\ \A r \in SourceRows : KeyOf(place[r]) = SegmentKey(r)
      BY <1>1, <2>1, RowsPlaced
    <3> QED
      BY <3>1, <3>2
  <2>3. /\ DOMAIN entry_handlers = Named({i \in DOMAIN states : states[i].entry})
        /\ DOMAIN exit_handlers = Named({i \in DOMAIN states : states[i].exit})
        /\ DOMAIN timeout_handlers = Named({i \in DOMAIN states : states[i].timeout # None})
        /\ unhandled_handler # None <=> unhandled
    BY <2>1, AllMade DEF Matched
  <2>4. unhandled \in BOOLEAN
    BY <2>1 DEF MacroType
  <2> QED
    BY <2>2, <2>3, <2>4 DEF BuiltTables, Named
<1> QED
  BY <1>1, MacroInvariant, BuilderInMacro, TablesCorrect, PTL

\* A row that repeats an earlier one goes unnoticed only in a block with a
\* timeout (builder.rs:138, 253).
THEOREM RepeatNeedsTimeout == MSpec => []RepeatedRowNeedsTimeout
<1>1. ASSUME MacroInv, FirstRepeatIsReported PROVE RepeatedRowNeedsTimeout
  <2> SUFFICES ASSUME phase = "run", stage = "built", NEW q \in SourceRows, NEW r \in SourceRows,
                      Before(q, r), SegmentKey(q) = SegmentKey(r)
               PROVE  states[r[1]].timeout # None
    BY DEF RepeatedRowNeedsTimeout, Expanded
  <2>1. PICK place \in [SourceRows -> Rows] :
              /\ \A s, t \in SourceRows : Before(s, t) => place[s] < place[t]
              /\ \A t \in SourceRows : KeyOf(place[t]) = SegmentKey(t) /\ calls[place[t]].via = ViaOf(t)
    BY <1>1, RowsPlaced DEF Running
  <2>2. place[q] \in Rows /\ place[r] \in Rows /\ place[q] < place[r] /\ KeyOf(place[q]) = KeyOf(place[r])
    BY <2>1
  <2>3. Repeats(place[r])
    BY <2>2 DEF Repeats
  <2>4. ViaOf(r) = "timeout"
    BY <1>1, <2>1, <2>2, <2>3 DEF FirstRepeatIsReported
  <2> QED
    BY <2>4 DEF ViaOf
<1> QED
  BY <1>1, MacroInvariant, BuilderInMacro, RepeatReported, PTL

\* A source text is refused only for what is written in it: two rows for the same
\* names, an initial state without row and timeout, or an initial timeout out of
\* range (builder.rs:284-341, machine.rs:62).
THEOREM RefusalSound == MSpec => []RefusalIsJustified
<1>1. ASSUME MacroInv, TablesHoldLastRegistration, FirstRepeatIsReported, BuiltMachineCanStart
      PROVE  RefusalIsJustified
  <2> DEFINE initial == VariantName[initial_state]
  <2> SUFFICES ASSUME phase = "run", stage = "failed"
               PROVE  CASE error.kind = "DuplicateHandler" ->
                             \E q, r \in SourceRows :
                                q # r /\ SegmentKey(q) = error.key /\ SegmentKey(r) = error.key
                        [] error.kind = "BuilderError" ->
                             \A i \in {i \in DOMAIN states : states[i].state.segment = initial} :
                                states[i].rows = <<>> /\ states[i].timeout = None
                        [] error.kind = "panic" ->
                             \E i \in {i \in DOMAIN states : states[i].state.segment = initial} :
                                states[i].timeout # None /\ ~InRange(states[i].timeout)
    BY DEF RefusalIsJustified, Expanded
  <2>1. ~Running /\ MacroType /\ Place /\ Matched /\ BuilderInv
    BY <1>1 DEF Running, MacroInv, ExpansionInv
  <2>2. PICK place \in [SourceRows -> Rows] :
              /\ \A i \in Rows : \E r \in SourceRows : place[r] = i
              /\ \A r \in SourceRows : KeyOf(place[r]) = SegmentKey(r)
    BY <1>1, <2>1, RowsPlaced
  <2>3. initial \in Name
    BY <2>1, VariantAssumption DEF BuilderInv, TypeOK, Name
  <2>4. error = Failure /\ Failure # NoError
    BY <2>1 DEF BuilderInv, EndInv
  <2>5. error.kind \in {"DuplicateHandler", "BuilderError", "panic"}
    BY <2>4 DEF Failure
  <2>6. ASSUME error.kind = "DuplicateHandler"
        PROVE  \E q, r \in SourceRows : q # r /\ SegmentKey(q) = error.key /\ SegmentKey(r) = error.key
    <3>1. PICK i \in Rows : Repeats(i) /\ KeyOf(i) = error.key
      BY <1>1, <2>6 DEF FirstRepeatIsReported
    <3>2. PICK j \in Rows : j < i /\ KeyOf(j) = KeyOf(i)
      BY <3>1 DEF Repeats
    <3>3. PICK r \in SourceRows : place[r] = i
      BY <2>2
    <3>4. PICK q \in SourceRows : place[q] = j
      BY <2>2
    <3>5. i # j
      <4>1. i \in Nat /\ j \in Nat
        BY <2>1 DEF Rows, BuilderInv, TypeOK
      <4> QED
        BY <3>2, <4>1
    <3> QED
      BY <2>2, <3>1, <3>2, <3>3, <3>4, <3>5
  <2>7. ASSUME error.kind = "BuilderError", NEW i \in DOMAIN states, states[i].state.segment = initial
        PROVE  states[i].rows = <<>> /\ states[i].timeout = None
    <3>1. \A h \in DOMAIN calls : calls[h].op \in {"on", "timeout"} => calls[h].state # initial
      BY <1>1, <2>7 DEF BuiltMachineCanStart
    <3>2. states[i].rows = <<>>
      <4> SUFFICES ASSUME states[i].rows # <<>> PROVE FALSE
        OBVIOUS
      <4>1. 1 \in DOMAIN states[i].rows
        <5>1. states[i].rows \in Seq(EventPath)
          BY <2>1, PartsAre DEF BlockOf
        <5> QED
          BY <5>1
      <4>2. <<i, 1>> \in SourceRows
        BY <2>1, <4>1, RowIsSource
      <4> DEFINE r == <<i, 1>>
      <4>3. SegmentKey(r)[1] = initial
        BY <2>7 DEF SegmentKey, StateOf
      <4> HIDE DEF r
      <4>4. place[r] \in Rows /\ KeyOf(place[r]) = SegmentKey(r)
        BY <2>2, <4>2 DEF r
      <4>5. calls[place[r]].state = initial
        BY <4>3, <4>4 DEF KeyOf
      <4> QED
        BY <3>1, <4>4, <4>5 DEF Rows
    <3>3. states[i].timeout = None
      <4> SUFFICES ASSUME states[i].timeout # None PROVE FALSE
        OBVIOUS
      <4>1. i \in TimeoutsMade(at)
        BY <2>1, AllMade
      <4>2. initial \in DOMAIN timeout_handlers
        BY <2>1, <2>7, <4>1 DEF Matched, Named
      <4>3. IsLast(timeout_handlers[initial].handler, "timeout", initial)
        BY <1>1, <2>3, <4>2 DEF TablesHoldLastRegistration
      <4> QED
        BY <3>1, <4>3 DEF IsLast
    <3> QED
      BY <3>2, <3>3
  <2>8. ASSUME error.kind = "panic"
        PROVE  \E i \in {i \in DOMAIN states : states[i].state.segment = initial} :
                  states[i].timeout # None /\ ~InRange(states[i].timeout)
    <3>1. initial \in DOMAIN timeout_handlers /\ ~InRange(timeout_handlers[initial].duration)
      BY <2>4, <2>8 DEF Failure
    <3>2. PICK i \in TimeoutsMade(at) :
             states[i].state.segment = initial /\ states[i].timeout = timeout_handlers[initial].duration
      BY <2>1, <3>1 DEF Matched
    <3> QED
      BY <3>1, <3>2 DEF TimeoutsMade
  <2> HIDE DEF initial
  <2> QED
    BY <2>5, <2>6, <2>7, <2>8
<1> QED
  BY <1>1, MacroInvariant, BuilderInMacro, TablesCorrect, RepeatReported, BuildSound, PTL

\* Paths end in the identifier of the variant they name: nothing is imported under
\* another name.
OwnNames ==
    /\ \A p \in StatePath : p.variant # None => p.segment = p.variant
    /\ \A p \in EventPath : p.variant # None => p.segment = p.variant

\* The gates are enough: if no variant is renamed on import, dispatch finds every
\* row of a program that compiles (lib.rs:369-371, 412-426).  The run macro_alias
\* shows what OwnNames is needed for.
THEOREM Reachable == ASSUME OwnNames PROVE MSpec => []RowsAreReachable
<1>1. ASSUME MacroInv, TablesMatchSource PROVE RowsAreReachable
  <2> SUFFICES ASSUME phase = "run", stage = "built", NEW r \in SourceRows
               PROVE  /\ StateOf(r).variant \in Variant /\ EventOf(r).variant \in Event
                      /\ <<DispatchName("state", StateOf(r).variant), DispatchName("event", EventOf(r).variant)>>
                            \in BuiltTables.transitions
    BY DEF RowsAreReachable, Expanded
  <2>1. MacroType /\ Compiled
    BY <1>1 DEF MacroInv, ExpansionInv
  <2>2. r[1] \in DOMAIN states /\ r[2] \in DOMAIN states[r[1]].rows /\ states[r[1]] \in BlockOf(StatePath)
    BY <2>1, RowsAre
  <2>3. StateOf(r) \in StatePath /\ EventOf(r) \in EventPath
    BY <2>2 DEF StateOf, EventOf, BlockOf
  <2>4. StateOf(r).variant # None /\ EventOf(r).variant # None
    BY <2>1, <2>2 DEF Compiled, Patterns, StateOf, EventOf
  <2>5. /\ StateOf(r).variant \in Variant /\ StateOf(r).segment = StateOf(r).variant
        /\ EventOf(r).variant \in Event /\ EventOf(r).segment = EventOf(r).variant
    BY <2>3, <2>4, MacroAssumption DEF OwnNames
  <2>6. types["state"] = "enum" /\ types["event"] = "enum"
    BY <2>1 DEF MacroType, Compiled, Gate
  <2>7. SegmentKey(r) \in BuiltTables.transitions
    BY <1>1 DEF TablesMatchSource, Expanded
  <2> QED
    BY <2>5, <2>6, <2>7 DEF DispatchName, SegmentKey
<1> QED
  BY <1>1, MacroInvariant, SourceMatches, PTL
=============================================================================
