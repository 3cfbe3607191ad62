---------------------------- MODULE LedgerProofs ----------------------------
(***************************************************************************)
(* The account for every set of operations, every limit and any number of  *)
(* deliveries, dropped calls and restarts: each credit counts once, its    *)
(* action runs at most once, and the log tells what the state went         *)
(* through.                                                                *)
(***************************************************************************)
EXTENDS Ledger, SequenceTheorems, RunsProofs

Counted == [kind : {"Counting"}, balance : Int, operations : Seq(Operation), operation_ids : SUBSET CreditIds]

\* The machine waits for one call or for one action, and a corrupted one for none.
LedgerType ==
    /\ state \in Counted \cup {Corrupted}
    /\ operation_log \in Seq(Entries) /\ executed \in Seq(Operation)
    /\ call \in Operation \cup {None}
    /\ pending = <<>> \/ \E o \in Operation : pending = <<o>>
    /\ call # None => pending = <<>> /\ state # Corrupted
    /\ since \in Nat
    /\ state # Corrupted => since <= Len(state.operations)

IsCredit(seq, i, id) == seq[i].kind = "Credit" /\ seq[i].id = id

\* No credit is twice in the sequence, and those in it are among ids.
OnceEach(seq) ==
    \A i, j \in DOMAIN seq : \A id \in CreditIds : IsCredit(seq, i, id) /\ IsCredit(seq, j, id) => i = j
AllAmong(seq, ids) == \A i \in DOMAIN seq : \A id \in CreditIds : IsCredit(seq, i, id) => id \in ids

\* The ids of the state are those of its credits, and a credit whose handler waits
\* is not among them: nothing else is handled while it waits.
IdsInv ==
    state # Corrupted =>
        /\ OnceEach(state.operations) /\ AllAmong(state.operations, state.operation_ids)
        /\ \A id \in state.operation_ids : \E i \in DOMAIN state.operations : IsCredit(state.operations, i, id)
        /\ ~saturated => state.balance = Sum(state.operations)
        /\ call # None => ~Duplicate(call)

\* An action is returned only when its credit enters the ids.
ActionInv ==
    /\ OnceEach(executed \o pending)
    /\ state # Corrupted => AllAmong(executed \o pending, state.operation_ids)

LedgerInv == LedgerType /\ IdsInv /\ ActionInv /\ LogMatchesState
-----------------------------------------------------------------------------
(***************************************************************************)
(* How often something is in a sequence.                                   *)
(***************************************************************************)
LEMMA CreditedOnce ==
    ASSUME NEW seq, OnceEach(seq), NEW id \in CreditIds
    PROVE  /\ Credited(seq, id) <= 1
           /\ Credited(seq, id) = 1 <=> \E i \in DOMAIN seq : IsCredit(seq, i, id)
           /\ Credited(seq, id) = 0 <=> \A i \in DOMAIN seq : ~IsCredit(seq, i, id)
<1> DEFINE There == {i \in DOMAIN seq : seq[i].kind = "Credit" /\ seq[i].id = id}
<1>1. CASE There = {}
  <2>1. Credited(seq, id) = 0
    BY <1>1, FS_EmptySet DEF Credited
  <2> QED
    BY <1>1, <2>1 DEF IsCredit
<1>2. CASE There # {}
  <2>1. PICK i \in DOMAIN seq : There = {i}
    BY <1>2 DEF OnceEach, IsCredit
  <2>2. Credited(seq, id) = 1
    BY <2>1, FS_Singleton DEF Credited
  <2> QED
    BY <2>1, <2>2 DEF IsCredit
<1> QED
  BY <1>1, <1>2

\* One operation more.
LEMMA OneMoreCredit ==
    ASSUME NEW seq \in Seq(Operation), OnceEach(seq), NEW ids, AllAmong(seq, ids),
           NEW o \in Operation, o.kind = "Credit" => o.id \notin ids
    PROVE  /\ OnceEach(Append(seq, o))
           /\ AllAmong(Append(seq, o), ids \cup (IF o.kind = "Credit" THEN {o.id} ELSE {}))
<1> DEFINE n == Len(seq)
           t == Append(seq, o)
<1>1. n \in Nat /\ t \in Seq(Operation) /\ DOMAIN seq = 1 .. n /\ DOMAIN t = 1 .. n + 1
      /\ t[n + 1] = o /\ \A i \in 1 .. n : t[i] = seq[i]
  OBVIOUS
<1> HIDE DEF t, n
<1>2. OnceEach(t)
  <2> SUFFICES ASSUME NEW i \in 1 .. n + 1, NEW j \in 1 .. n + 1, NEW id \in CreditIds,
                      IsCredit(t, i, id), IsCredit(t, j, id)
               PROVE  i = j
    BY <1>1 DEF OnceEach
  <2>1. ASSUME NEW k \in 1 .. n, IsCredit(t, k, id) PROVE IsCredit(seq, k, id) /\ id \in ids
    BY <1>1, <2>1 DEF IsCredit, AllAmong
  <2>2. IsCredit(t, n + 1, id) => id \notin ids
    BY <1>1 DEF IsCredit
  <2>3. \A k \in 1 .. n + 1 : k \in 1 .. n \/ k = n + 1
    BY <1>1
  <2> QED
    BY <1>1, <2>1, <2>2, <2>3 DEF OnceEach
<1>3. AllAmong(t, ids \cup (IF o.kind = "Credit" THEN {o.id} ELSE {}))
  BY <1>1 DEF AllAmong, IsCredit
<1> QED
  BY <1>2, <1>3 DEF t
-----------------------------------------------------------------------------
(***************************************************************************)
(* Sums and logs, one element longer.                                      *)
(***************************************************************************)
LEMMA DeltaType ==
    ASSUME NEW o \in Operation
    PROVE  Delta(o) \in Int
<1>1. o.kind \in {"Credit", "Debit", "Subtract", "Append"} /\ o.amount \in Nat
  BY LedgerAssumption DEF Kinds
<1> QED
  BY <1>1 DEF Delta

LEMMA SumOfNone == Sum(<<>>) = 0
<1>1. IsStep(Adding, Int, Operation)
  BY DeltaType DEF IsStep, Adding
<1> QED
  BY <1>1, RunOverNothing DEF Sum

LEMMA SumOfOneMore ==
    ASSUME NEW ops \in Seq(Operation), NEW o \in Operation
    PROVE  Sum(Append(ops, o)) = Sum(ops) + Delta(o)
<1>1. IsStep(Adding, Int, Operation)
  BY DeltaType DEF IsStep, Adding
<1>2. Sum(Append(ops, o)) = Adding[Sum(ops)][o]
  BY <1>1, RunOverOneMore DEF Sum
<1>3. Sum(ops) \in Int
  BY <1>1, RunOverType DEF Sum
<1> QED
  BY <1>2, <1>3 DEF Adding

\* The end of a sequence, when the sequence gets longer.
LEMMA EndGrows ==
    ASSUME NEW S, NEW s \in Seq(S), NEW e \in S, NEW k \in 0 .. Len(s)
    PROVE  Append(SubSeq(s, k + 1, Len(s)), e) = SubSeq(Append(s, e), k + 1, Len(s) + 1)
<1> DEFINE n == Len(s)
           t == Append(s, e)
           u == SubSeq(s, k + 1, n)
           v == SubSeq(t, k + 1, n + 1)
<1>1. n \in Nat /\ k \in Nat /\ k <= n /\ n - k \in Nat
  OBVIOUS
<1>2. t \in Seq(S) /\ Len(t) = n + 1 /\ t[n + 1] = e /\ \A i \in 1 .. n : t[i] = s[i] /\ s[i] \in S
  OBVIOUS
<1> HIDE DEF n, t
<1>3. u \in Seq(S) /\ Len(u) = n - k /\ \A i \in 1 .. n - k : u[i] = s[k + i]
  <2>1. \A i \in k + 1 .. n : s[i] \in S
    BY <1>1, <1>2
  <2>2. k + 1 \in Int /\ n \in Int
    BY <1>1
  <2>3. /\ SubSeq(s, k + 1, n) \in Seq(S)
        /\ Len(SubSeq(s, k + 1, n)) = IF k + 1 <= n THEN n - (k + 1) + 1 ELSE 0
        /\ \A i \in 1 .. n - (k + 1) + 1 : SubSeq(s, k + 1, n)[i] = s[k + 1 + i - 1]
    BY <2>1, <2>2, SubSeqProperties
  <2> QED
    BY <1>1, <2>3
<1>4. v \in Seq(S) /\ Len(v) = n + 1 - k /\ \A i \in 1 .. n + 1 - k : v[i] = t[k + i]
  <2> DEFINE m == n + 1
  <2>0. m \in Nat /\ m = n + 1 /\ k + 1 \in Int
    BY <1>1
  <2>1. \A i \in k + 1 .. m : t[i] \in S
    BY <1>1, <1>2
  <2> HIDE DEF m
  <2>2. /\ SubSeq(t, k + 1, m) \in Seq(S)
        /\ Len(SubSeq(t, k + 1, m)) = IF k + 1 <= m THEN m - (k + 1) + 1 ELSE 0
        /\ \A i \in 1 .. m - (k + 1) + 1 : SubSeq(t, k + 1, m)[i] = t[k + 1 + i - 1]
    BY <2>0, <2>1, SubSeqProperties
  <2> QED
    BY <1>1, <2>0, <2>2
<1> HIDE DEF u, v
<1>5. Append(u, e) \in Seq(S) /\ Len(Append(u, e)) = n + 1 - k /\ Append(u, e)[n + 1 - k] = e
      /\ \A i \in 1 .. n - k : Append(u, e)[i] = u[i]
  BY <1>1, <1>3
<1>6. \A i \in 1 .. n + 1 - k : i \in 1 .. n - k \/ i = n + 1 - k
  BY <1>1
<1>7. \A i \in 1 .. n + 1 - k : Append(u, e)[i] = v[i]
  BY <1>1, <1>2, <1>3, <1>4, <1>5, <1>6
<1>8. Append(u, e) = v
  BY <1>4, <1>5, <1>7
<1> QED
  BY <1>8 DEF n, t, u, v

LEMMA HandlingType == IsStep(Handling, Seq(Operation), Entries)
  BY DEF IsStep, Handling, Entries

LEMMA HandledInNone == HandledIn(<<>>) = <<>>
<1> DEFINE first == <<>>
<1>1. first \in Seq(Operation)
  OBVIOUS
<1> HIDE DEF first
<1>2. RunOver(Handling, first, <<>>) = first
  BY <1>1, HandlingType, RunOverNothing
<1> QED
  BY <1>2 DEF HandledIn, first

LEMMA HandledInOneMore ==
    ASSUME NEW log \in Seq(Entries), NEW e \in Entries
    PROVE  HandledIn(Append(log, e)) =
               IF e.what = "handled" THEN Append(HandledIn(log), e.operation) ELSE HandledIn(log)
<1> DEFINE first == <<>>
<1>1. first \in Seq(Operation)
  OBVIOUS
<1> HIDE DEF first
<1>2. RunOver(Handling, first, Append(log, e)) = Handling[RunOver(Handling, first, log)][e]
  BY <1>1, HandlingType, RunOverOneMore
<1>3. RunOver(Handling, first, log) \in Seq(Operation)
  BY <1>1, HandlingType, RunOverType
<1> QED
  BY <1>2, <1>3 DEF HandledIn, Handling, first
-----------------------------------------------------------------------------
LEMMA CountingType ==
    ASSUME NEW balance \in Int, NEW operations \in Seq(Operation), NEW ids \in SUBSET CreditIds
    PROVE  /\ Counting(balance, operations, ids) \in Counted
           /\ Counting(balance, operations, ids) # Corrupted
  BY DEF Counting, Counted, Corrupted

\* What is in the log is what the handlers logged and the actions executed.
LEMMA EntryType ==
    ASSUME NEW what \in {"handled", "executed"}, NEW o \in Operation
    PROVE  Entry(what, o) \in Entries /\ Entry(what, o).what = what /\ Entry(what, o).operation = o
  BY DEF Entry, Entries

\* The state of a machine that is not corrupted.
LEMMA CountedState ==
    ASSUME LedgerType, state # Corrupted
    PROVE  /\ state.balance \in Int /\ state.operations \in Seq(Operation)
           /\ state.operation_ids \subseteq CreditIds /\ Len(state.operations) \in Nat
  BY DEF LedgerType, Counted

\* Nothing follows from an empty sequence.
LEMMA NoneInNone == OnceEach(<<>>) /\ \A ids : AllAmong(<<>>, ids)
  BY DEF OnceEach, AllAmong

\* A host hands over an event, and its machine stays as it is.
LEMMA QuietStep ==
    ASSUME LedgerInv, UNCHANGED <<state, operation_log, call, pending, executed, saturated, since>>
    PROVE  LedgerInv'
  BY DEF LedgerInv, LedgerType, IdsInv, ActionInv, LogMatchesState, Duplicate

LEMMA LoggedStep ==
    ASSUME LedgerInv, Logged
    PROVE  LedgerInv'
<1> DEFINE o == call
           sum == state.balance + Delta(o)
           ops == Append(state.operations, o)
           new == IF o.kind = "Credit" THEN {o.id} ELSE {}
           ids == state.operation_ids \cup new
<1>1. /\ o \in Operation /\ state # Corrupted /\ pending = <<>> /\ (o.kind = "Credit" => o.id \notin state.operation_ids)
      /\ operation_log' = Append(operation_log, Entry("handled", o))
      /\ state' = Counting(Saturating(sum), ops, ids)
      /\ saturated' = (saturated \/ sum # Saturating(sum))
      /\ pending' = <<o>> /\ call' = None /\ UNCHANGED <<executed, since>>
  BY DEF Logged, LedgerInv, LedgerType, IdsInv, Duplicate
<1>2. /\ state.balance \in Int /\ state.operations \in Seq(Operation)
      /\ state.operation_ids \subseteq CreditIds /\ Len(state.operations) \in Nat
  BY <1>1, CountedState DEF LedgerInv
<1>3. new \subseteq CreditIds /\ Delta(o) \in Int /\ sum \in Int
  BY <1>1, <1>2, DeltaType DEF CreditIds
<1>4. Saturating(sum) \in Int
  BY <1>3, LedgerAssumption DEF Saturating
<1>5. ops \in Seq(Operation) /\ Len(ops) = Len(state.operations) + 1 /\ ids \in SUBSET CreditIds
  BY <1>1, <1>2, <1>3
<1>6. /\ state'.balance = Saturating(sum) /\ state'.operations = ops /\ state'.operation_ids = ids
      /\ state' \in Counted /\ state' # Corrupted
  BY <1>1, <1>4, <1>5, CountingType DEF Counting
<1>7. LedgerType'
  <2>1. operation_log' \in Seq(Entries)
    BY <1>1, EntryType DEF LedgerInv, LedgerType
  <2>2. since' \in Nat /\ since' <= Len(state'.operations)
    BY <1>1, <1>2, <1>5, <1>6 DEF LedgerInv, LedgerType
  <2> QED
    BY <1>1, <1>6, <2>1, <2>2 DEF LedgerInv, LedgerType
<1>8. IdsInv'
  <2>1. OnceEach(ops) /\ AllAmong(ops, ids)
    BY <1>1, <1>2, OneMoreCredit DEF LedgerInv, IdsInv
  <2>2. ASSUME NEW id \in ids PROVE \E i \in DOMAIN ops : IsCredit(ops, i, id)
    <3>1. CASE id \in state.operation_ids
      <4>1. PICK i \in DOMAIN state.operations : IsCredit(state.operations, i, id)
        BY <1>1, <3>1 DEF LedgerInv, IdsInv
      <4>2. i \in DOMAIN ops /\ ops[i] = state.operations[i]
        BY <1>1, <1>2
      <4> QED
        BY <4>1, <4>2 DEF IsCredit
    <3>2. CASE id \in new
      <4>1. o.kind = "Credit" /\ o.id = id
        BY <3>2
      <4>2. Len(ops) \in DOMAIN ops /\ ops[Len(ops)] = o
        BY <1>1, <1>2
      <4> QED
        BY <4>1, <4>2 DEF IsCredit
    <3> QED
      BY <3>1, <3>2
  <2>3. ASSUME ~saturated' PROVE Saturating(sum) = Sum(ops)
    <3>1. ~saturated /\ Saturating(sum) = sum /\ state.balance = Sum(state.operations)
      BY <1>1, <2>3 DEF LedgerInv, IdsInv
    <3> QED
      BY <1>1, <1>2, <3>1, SumOfOneMore
  <2> QED
    BY <1>1, <1>6, <2>1, <2>2, <2>3 DEF IdsInv
<1>9. ActionInv'
  <2>1. executed \in Seq(Operation) /\ executed \o pending = executed /\ executed' \o pending' = Append(executed, o)
    BY <1>1 DEF LedgerInv, LedgerType
  <2>2. OnceEach(executed) /\ AllAmong(executed, state.operation_ids)
    BY <1>1, <2>1 DEF LedgerInv, ActionInv
  <2>3. OnceEach(Append(executed, o)) /\ AllAmong(Append(executed, o), ids)
    BY <1>1, <2>1, <2>2, OneMoreCredit
  <2> QED
    BY <1>6, <2>1, <2>3 DEF ActionInv
<1>10. LogMatchesState'
  <2>1. HandledIn(operation_log) = SubSeq(state.operations, since + 1, Len(state.operations))
    BY <1>1 DEF LedgerInv, LogMatchesState
  <2>2. HandledIn(operation_log') = Append(SubSeq(state.operations, since + 1, Len(state.operations)), o)
    <3>1. PICK e \in Entries : e = Entry("handled", o) /\ e.what = "handled" /\ e.operation = o
      BY <1>1, EntryType
    <3>2. HandledIn(Append(operation_log, e)) = Append(HandledIn(operation_log), o)
      BY <3>1, HandledInOneMore DEF LedgerInv, LedgerType
    <3> QED
      BY <1>1, <2>1, <3>1, <3>2
  <2>3. Append(SubSeq(state.operations, since + 1, Len(state.operations)), o) = SubSeq(ops, since + 1, Len(ops))
    <3>1. since \in 0 .. Len(state.operations)
      BY <1>1, <1>2 DEF LedgerInv, LedgerType
    <3> QED
      BY <1>1, <1>2, <1>5, <3>1, EndGrows
  <2> QED
    BY <1>1, <1>6, <2>2, <2>3 DEF LogMatchesState, HandledIn
<1> QED
  BY <1>7, <1>8, <1>9, <1>10 DEF LedgerInv

LEMMA ExecuteStep ==
    ASSUME LedgerInv, ExecuteAction
    PROVE  LedgerInv'
<1>1. PICK o \in Operation : pending = <<o>>
  BY DEF ExecuteAction, LedgerInv, LedgerType
<1>2. /\ operation_log' = Append(operation_log, Entry("executed", o)) /\ executed' = Append(executed, o)
      /\ pending' = <<>> /\ UNCHANGED <<state, call, saturated, since>>
  BY <1>1 DEF ExecuteAction
<1>3. executed \in Seq(Operation) /\ executed' \o pending' = executed \o pending /\ executed' \in Seq(Operation)
  BY <1>1, <1>2 DEF LedgerInv, LedgerType
<1>4. operation_log' \in Seq(Entries) /\ HandledIn(operation_log') = HandledIn(operation_log)
  BY <1>2, EntryType, HandledInOneMore DEF LedgerInv, LedgerType
<1>5. LedgerType'
  BY <1>2, <1>3, <1>4 DEF LedgerInv, LedgerType
<1>6. IdsInv' /\ ActionInv'
  BY <1>2, <1>3 DEF LedgerInv, IdsInv, ActionInv, Duplicate
<1>7. LogMatchesState'
  BY <1>2, <1>4 DEF LedgerInv, LogMatchesState, HandledIn
<1> QED
  BY <1>5, <1>6, <1>7 DEF LedgerInv

LEMMA RestartStep ==
    ASSUME LedgerInv, Restart
    PROVE  LedgerInv'
<1>1. /\ operation_log' = <<>> /\ call' = None /\ pending' = <<>>
      /\ since' = IF state = Corrupted THEN 0 ELSE Len(state.operations)
      /\ UNCHANGED <<state, executed, saturated>>
  BY DEF Restart
<1>2. LedgerType'
  <2>1. <<>> \in Seq(Entries)
    OBVIOUS
  <2> QED
    BY <1>1, <2>1, CountedState DEF LedgerInv, LedgerType
<1>3. IdsInv'
  BY <1>1 DEF LedgerInv, IdsInv
<1>4. ActionInv'
  <2>1. executed \in Seq(Operation) /\ executed' \o pending' = executed
    BY <1>1 DEF LedgerInv, LedgerType
  <2>2. \A i \in DOMAIN executed : i \in DOMAIN (executed \o pending) /\ (executed \o pending)[i] = executed[i]
    BY <2>1 DEF LedgerInv, LedgerType
  <2>3. OnceEach(executed) /\ (state # Corrupted => AllAmong(executed, state.operation_ids))
    BY <2>2 DEF LedgerInv, ActionInv, OnceEach, AllAmong, IsCredit
  <2> QED
    BY <1>1, <2>1, <2>3 DEF ActionInv
<1>5. LogMatchesState'
  <2> SUFFICES ASSUME state # Corrupted
               PROVE  HandledIn(operation_log') = SubSeq(state.operations, since' + 1, Len(state.operations))
    BY <1>1 DEF LogMatchesState, HandledIn
  <2>1. state.operations \in Seq(Operation) /\ since' = Len(state.operations)
    BY <1>1, CountedState DEF LedgerInv
  <2>2. SubSeq(state.operations, since' + 1, Len(state.operations)) = <<>>
    BY <2>1
  <2> QED
    BY <1>1, <2>2, HandledInNone
<1> QED
  BY <1>2, <1>3, <1>4, <1>5 DEF LedgerInv

LEMMA NextLedger == LedgerInv /\ [Next]_vars => LedgerInv'
<1> SUFFICES ASSUME LedgerInv, [Next]_vars PROVE LedgerInv'
  OBVIOUS
<1>1. ASSUME NEW o \in Operation, Handle(o) PROVE LedgerInv'
  <2>1. /\ state # Corrupted /\ ~Duplicate(o) /\ pending = <<>> /\ call' = o
        /\ UNCHANGED <<state, pending, operation_log, executed, saturated, since>>
    BY <1>1 DEF Handle, Receive
  <2> QED
    BY <2>1, LedgerAssumption DEF LedgerInv, LedgerType, IdsInv, ActionInv, LogMatchesState, Duplicate
<1>2. ASSUME NEW o \in Operation, HandleDuplicate(o) PROVE LedgerInv'
  BY <1>2, QuietStep DEF HandleDuplicate, Receive
<1>3. CASE HandleMark
  <2>1. /\ state' = state \/ state' = Corrupted
        /\ UNCHANGED <<operation_log, call, pending, executed, saturated, since>> /\ call = None
    BY <1>3 DEF HandleMark, Receive
  <2>2. CASE state' = state
    BY <2>1, <2>2, QuietStep
  <2>3. CASE state' = Corrupted
    BY <2>1, <2>3 DEF LedgerInv, LedgerType, IdsInv, ActionInv, LogMatchesState
  <2> QED
    BY <2>1, <2>2, <2>3
<1>4. CASE HandleErr
  BY <1>4, QuietStep DEF HandleErr, Receive
<1>5. CASE Logged
  BY <1>5, LoggedStep
<1>6. CASE Dropped
  BY <1>6 DEF Dropped, LedgerInv, LedgerType, IdsInv, ActionInv, LogMatchesState
<1>7. CASE ExecuteAction
  BY <1>7, ExecuteStep
<1>8. CASE Restart
  BY <1>8, RestartStep
<1>9. CASE UNCHANGED vars
  BY <1>9, QuietStep DEF vars
<1> QED
  BY <1>1, <1>2, <1>3, <1>4, <1>5, <1>6, <1>7, <1>8, <1>9 DEF Next

LEMMA InitLedger == Init => LedgerInv
<1> SUFFICES ASSUME Init PROVE LedgerInv
  OBVIOUS
<1>1. <<>> \in Seq(Operation) /\ <<>> \in Seq(Entries) /\ <<>> \o <<>> = <<>> /\ Len(<<>>) = 0
  OBVIOUS
<1>2. state \in Counted /\ state # Corrupted
  <2>1. 0 \in Int /\ {} \in SUBSET CreditIds
    OBVIOUS
  <2>2. Counting(0, <<>>, {}) \in Counted /\ Counting(0, <<>>, {}) # Corrupted
    BY <1>1, <2>1, CountingType
  <2> QED
    BY <2>2 DEF Init
<1>3. state.balance = 0 /\ state.operations = <<>> /\ state.operation_ids = {}
  BY DEF Init, Counting
<1>4. LedgerType
  BY <1>1, <1>2, <1>3 DEF Init, LedgerType
<1>5. IdsInv
  BY <1>3, NoneInNone, SumOfNone DEF Init, IdsInv
<1>6. ActionInv
  BY <1>1, NoneInNone DEF Init, ActionInv
<1>7. LogMatchesState
  <2>1. SubSeq(<<>>, 0 + 1, Len(<<>>)) = <<>>
    BY SubSeqEmpty
  <2> QED
    BY <1>3, <2>1, HandledInNone DEF Init, LogMatchesState
<1> QED
  BY <1>4, <1>5, <1>6, <1>7 DEF LedgerInv

LEMMA LedgerInvariant == Spec => []LedgerInv
  BY InitLedger, NextLedger, PTL DEF Spec

\* A credit whose id the state knows is in the balance exactly once, whatever was
\* delivered twice, reordered, dropped or restarted, and without saturation the
\* balance is the sum of the operations handled (circle_4: the Credit handler).
THEOREM CreditsCount == Spec => []CreditsCountOnce
<1>1. LedgerInv => CreditsCountOnce
  <2> SUFFICES ASSUME LedgerInv, state # Corrupted
               PROVE  /\ \A id \in CreditIds :
                            Credited(state.operations, id) = IF id \in state.operation_ids THEN 1 ELSE 0
                      /\ ~saturated => state.balance = Sum(state.operations)
    BY DEF CreditsCountOnce
  <2> QED
    BY CreditedOnce DEF LedgerInv, IdsInv, AllAmong
<1> QED
  BY <1>1, LedgerInvariant, PTL

\* What the context's log calls handled is what entered the state since the context
\* was made, in that order, at every await (circle_4: the handlers push to the log
\* before they return).
THEOREM LogTells == Spec => []LogMatchesState
<1>1. LedgerInv => LogMatchesState
  BY DEF LedgerInv
<1> QED
  BY <1>1, LedgerInvariant, PTL

\* No delivery executes a credit's action twice, and none before the credit is in
\* the state (circle_4: a duplicate returns no action).
THEOREM ActionsRunOnce == Spec => []ActionAtMostOnce
<1>1. LedgerInv => ActionAtMostOnce
  <2> SUFFICES ASSUME LedgerInv, NEW id \in CreditIds
               PROVE  /\ Credited(executed \o pending, id) <= 1
                      /\ Credited(executed, id) = 1 /\ state # Corrupted => id \in state.operation_ids
    BY DEF ActionAtMostOnce
  <2>1. Credited(executed \o pending, id) <= 1
    BY CreditedOnce DEF LedgerInv, ActionInv
  <2>2. \A i \in DOMAIN executed : i \in DOMAIN (executed \o pending) /\ (executed \o pending)[i] = executed[i]
    BY DEF LedgerInv, LedgerType
  <2>3. OnceEach(executed) /\ (state # Corrupted => AllAmong(executed, state.operation_ids))
    BY <2>2 DEF LedgerInv, ActionInv, OnceEach, AllAmong, IsCredit
  <2> QED
    BY <2>1, <2>3, CreditedOnce DEF AllAmong
<1> QED
  BY <1>1, LedgerInvariant, PTL
=============================================================================
