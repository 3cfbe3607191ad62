--------------------------- MODULE PurgatoryProofs ---------------------------
(***************************************************************************)
(* The batch accepted last, for all batches, every number of channels, and *)
(* any number of events, polls, dropped calls and closing channels: it is  *)
(* in the machine's buffer, or every channel has it, or the machine has    *)
(* condemned itself.  While it is sent, each channel has what comes before *)
(* the place that is sent next.                                            *)
(***************************************************************************)
EXTENDS Purgatory, StateMachineProofs

Variants == {"Materializing", "Processing", "DrinkingKoolAid", "Dead"}

LEMMA TrialStates ==
    /\ {Processing, DrinkingKoolAid, Dead} \subseteq State
    /\ \A b \in Batch \cup {<<>>} : Materializing(b) \in State /\ b \in Seq(Item)
    /\ \A s \in State :
          /\ VariantName[s] = s.variant /\ s.variant \in Variants /\ s.data_buffer \in Seq(Item)
          /\ s.variant = "Materializing" <=> s = Materializing(s.data_buffer)
          /\ s.variant = "Materializing" \/ s.data_buffer = <<>>
          /\ s.variant = "Processing" <=> s = Processing
          /\ s.variant = "DrinkingKoolAid" <=> s = DrinkingKoolAid
          /\ s.variant = "Dead" <=> s = Dead
<1>1. State = {Materializing(b) : b \in Batch \cup {<<>>}} \cup {Processing, DrinkingKoolAid, Dead}
  BY PurgatoryAssumption DEF PurgatoryState
<1>2. \A b \in Batch \cup {<<>>} : b \in Seq(Item)
  <2>1. <<>> \in Seq(Item)
    OBVIOUS
  <2>2. Batch \subseteq Seq(Item)
    BY PurgatoryAssumption
  <2> QED
    BY <2>1, <2>2
<1>3. ASSUME NEW s \in State
      PROVE  /\ VariantName[s] = s.variant /\ s.variant \in Variants /\ s.data_buffer \in Seq(Item)
             /\ s.variant = "Materializing" <=> s = Materializing(s.data_buffer)
             /\ s.variant = "Materializing" \/ s.data_buffer = <<>>
             /\ s.variant = "Processing" <=> s = Processing
             /\ s.variant = "DrinkingKoolAid" <=> s = DrinkingKoolAid
             /\ s.variant = "Dead" <=> s = Dead
  <2>1. VariantName[s] = s.variant
    BY PurgatoryAssumption DEF PurgatoryName
  <2>2. CASE s \in {Processing, DrinkingKoolAid, Dead}
    <3>1. s.data_buffer = <<>> /\ s.data_buffer \in Seq(Item) /\ s.variant \in Variants /\ s.variant # "Materializing"
      BY <2>2, <1>2 DEF Processing, DrinkingKoolAid, Dead, Plain, Variants
    <3>2. s # Materializing(s.data_buffer)
      BY <3>1 DEF Materializing
    <3>3. /\ s.variant = "Processing" <=> s = Processing
          /\ s.variant = "DrinkingKoolAid" <=> s = DrinkingKoolAid
          /\ s.variant = "Dead" <=> s = Dead
      BY <2>2 DEF Processing, DrinkingKoolAid, Dead, Plain
    <3> QED
      BY <2>1, <3>1, <3>2, <3>3
  <2>3. ASSUME NEW b \in Batch \cup {<<>>}, s = Materializing(b)
        PROVE  /\ s.variant = "Materializing" /\ s.data_buffer = b
               /\ s # Processing /\ s # DrinkingKoolAid /\ s # Dead
    BY <2>3 DEF Processing, DrinkingKoolAid, Dead, Plain, Materializing
  <2>4. CASE \E b \in Batch \cup {<<>>} : s = Materializing(b)
    BY <2>1, <2>3, <2>4, <1>2 DEF Variants
  <2> QED
    BY <1>1, <2>2, <2>4
<1> QED
  BY <1>1, <1>2, <1>3

\* Where a call of the trials waits, and what it works on.
TrialType ==
    /\ pc \in {"idle", "transition", "timeout"}
    /\ pc = "transition" =>
          \/ event = "StartMaterialization" /\ payload \in Batch
          \/ event = "ProcessBatch" /\ current_state.variant = "Materializing"
          \/ event = "DrinkKoolAid" /\ current_state = DrinkingKoolAid
    /\ pc = "timeout" => current_state.variant \in {"Materializing", "Processing"}
    /\ current_state = DrinkingKoolAid => condemned
    /\ condemned \in BOOLEAN /\ accepted \in Seq(Batch) /\ sent \in [Channel -> Seq(Item)]

\* The last n items of t are the first n of s.
EndsWith(t, s, n) ==
    /\ n \in 0 .. Len(s) /\ n <= Len(t)
    /\ \A k \in 1 .. n : t[Len(t) - n + k] = s[k]

\* How many items of the buffer ProcessBatch has sent down channel tx.
Gone(tx) == IF tx < next[2] THEN next[1] ELSE next[1] - 1

\* While a batch is processed, what came down each channel ends with the items
\* sent so far, whatever came down before.
SentSoFar ==
    pc = "transition" /\ event = "ProcessBatch" =>
        /\ next \in Nat \X Nat /\ next[1] >= 1 /\ next[2] >= 1
        /\ next[1] <= Len(current_state.data_buffer) + 1
        /\ next[2] > 1 => next[1] <= Len(current_state.data_buffer) /\ next[2] <= Downstream
        /\ \A tx \in Channel : EndsWith(sent[tx], current_state.data_buffer, Gone(tx))

PurgatoryInv == TypeOK /\ TrialType /\ SentSoFar /\ LastBatchSafe

LEMMA WholeSuffix ==
    ASSUME NEW s \in Seq(Item), NEW t \in Seq(Item), EndsWith(t, s, Len(s))
    PROVE  IsSuffix(s, t)
<1> DEFINE r == Reverse(s)
           q == Reverse(t)
<1>1. Len(s) \in Nat /\ Len(t) \in Nat /\ Len(s) <= Len(t)
  BY DEF EndsWith
<1>2. /\ r \in Seq(Item) /\ Len(r) = Len(s) /\ \A i \in 1 .. Len(s) : r[i] = s[Len(s) - i + 1]
      /\ q \in Seq(Item) /\ Len(q) = Len(t) /\ \A i \in 1 .. Len(t) : q[i] = t[Len(t) - i + 1]
  BY <1>1 DEF Reverse
<1>3. ASSUME NEW i \in 1 .. Len(s) PROVE r[i] = q[i]
  <2>1. Len(s) - i + 1 \in 1 .. Len(s)
    BY <1>1
  <2>2. t[Len(t) - Len(s) + (Len(s) - i + 1)] = s[Len(s) - i + 1]
    BY <2>1 DEF EndsWith
  <2>3. Len(t) - Len(s) + (Len(s) - i + 1) = Len(t) - i + 1
    BY <1>1
  <2>4. i \in 1 .. Len(t)
    BY <1>1
  <2> HIDE DEF r, q
  <2> QED
    BY <1>2, <2>2, <2>3, <2>4
<1> HIDE DEF r, q
<1>4. SubSeq(r, 1, Len(r)) = SubSeq(q, 1, Len(r))
  BY <1>1, <1>2, <1>3
<1>5. IsPrefix(r, q)
  BY <1>1, <1>2, <1>4 DEF IsPrefix
<1> QED
  BY <1>5 DEF IsSuffix, r, q

LEMMA OneMoreItem ==
    ASSUME NEW s \in Seq(Item), NEW t \in Seq(Item), NEW n \in Nat, n < Len(s), EndsWith(t, s, n)
    PROVE  EndsWith(Append(t, s[n + 1]), s, n + 1)
<1> DEFINE u == Append(t, s[n + 1])
<1>1. /\ Len(s) \in Nat /\ Len(t) \in Nat /\ n + 1 \in 0 .. Len(s) /\ n <= Len(t)
      /\ \A k \in 1 .. n : t[Len(t) - n + k] = s[k]
  BY DEF EndsWith
<1>2. Len(u) = Len(t) + 1 /\ u[Len(t) + 1] = s[n + 1] /\ \A i \in 1 .. Len(t) : u[i] = t[i]
  BY <1>1
<1> HIDE DEF u
<1>3. ASSUME NEW k \in 1 .. n + 1 PROVE u[Len(u) - (n + 1) + k] = s[k]
  <2>1. CASE k = n + 1
    BY <1>1, <1>2, <2>1
  <2>2. CASE k \in 1 .. n
    <3>1. Len(u) - (n + 1) + k = Len(t) - n + k /\ Len(t) - n + k \in 1 .. Len(t)
      BY <1>1, <1>2, <2>2
    <3> QED
      BY <1>1, <1>2, <2>2, <3>1
  <2> QED
    BY <2>1, <2>2
<1>4. EndsWith(u, s, n + 1)
  BY <1>1, <1>2, <1>3 DEF EndsWith
<1> QED
  BY <1>4 DEF u
-----------------------------------------------------------------------------
LEMMA NoHooks ==
    ASSUME TypeOK
    PROVE  /\ TrialTables(tables) /\ tables.entry_handlers = {} /\ tables.exit_handlers = {}
           /\ ~tables.unhandled_handler /\ current_state \in State /\ name = current_state.variant
  BY PurgatoryAssumption, TrialStates DEF TypeOK, TrialTables, name

\* Without hooks a handler's return ends the call in the state it names.
LEMMA TrialReturns ==
    ASSUME TypeOK, NEW s, HandlerReturns(s)
    PROVE  current_state' = s /\ pc' = "idle"
<1>1. tables.entry_handlers = {} /\ tables.exit_handlers = {}
  BY NoHooks
<1>2. ASSUME NEW t, t.next_state = s, SwitchState(t, <<>>)
      PROVE  current_state' = s /\ pc' = "idle"
  BY <1>1, <1>2 DEF SwitchState, ArmAndReturn, Return
<1>3. PICK out \in Outputs(pc, matched) :
          LET t == [next_state |-> s, actions |-> out]
          IN  \/ /\ name \in tables.exit_handlers
                 /\ pc' = "exit" /\ transition' = t
                 /\ UNCHANGED <<machine, tables, now, matched, all_actions, result, effects, before>>
              \/ /\ name \notin tables.exit_handlers
                 /\ SwitchState(t, <<>>)
  BY DEF HandlerReturns
<1>4. SwitchState([next_state |-> s, actions |-> out], <<>>)
  BY <1>1, <1>3
<1> QED
  BY <1>2, <1>4

LEMMA WildcardIsNoState == Wildcard \notin {"Materializing", "DrinkingKoolAid"}
<1>1. \A s \in State : s.variant \in Variant
  BY VariantAssumption, TrialStates
<1>2. Materializing(<<>>) \in State /\ DrinkingKoolAid \in State
  BY TrialStates
<1>3. "Materializing" \in Variant /\ "DrinkingKoolAid" \in Variant
  <2>1. Materializing(<<>>).variant = "Materializing" /\ DrinkingKoolAid.variant = "DrinkingKoolAid"
    BY DEF Materializing, DrinkingKoolAid, Plain
  <2> QED
    BY <1>1, <1>2, <2>1
<1> QED
  BY <1>3, VariantAssumption

\* An event that has a row is one of the trials', and its state the row's.
LEMMA TrialBegins ==
    ASSUME TypeOK, NEW e, Handle(e)
    PROVE  /\ current_state' = current_state
           /\ \/ pc' = "idle"
              \/ pc' = "transition" /\ e = "StartMaterialization"
              \/ pc' = "transition" /\ e = "ProcessBatch" /\ current_state.variant = "Materializing"
              \/ pc' = "transition" /\ e = "DrinkKoolAid" /\ current_state = DrinkingKoolAid
<1>1. /\ tables.transitions \subseteq { <<"Materializing", "StartMaterialization">>,
                                        <<"Materializing", "ProcessBatch">>,
                                        <<"DrinkingKoolAid", "DrinkKoolAid">> }
      /\ ~tables.unhandled_handler /\ name = current_state.variant
  BY NoHooks DEF TrialTables
<1>2. Wildcard \notin Variant
  BY VariantAssumption
<1>3. current_state' = current_state /\ pc = "idle" /\ pc' \in {"idle", "transition"}
  BY <1>1 DEF Handle, Begin, Immediate, machine
<1>4. pc' = "transition" => Exact(e) \/ FromAny(e)
  BY <1>1, <1>3 DEF Handle, Immediate, Begin
<1>5. current_state \in State /\ name \in Variant
  BY NoHooks, VariantAssumption DEF name
<1>6. Exact(e) \/ FromAny(e) =>
         \/ e = "StartMaterialization"
         \/ e = "ProcessBatch" /\ name \in {"Materializing", Wildcard}
         \/ e = "DrinkKoolAid" /\ name \in {"DrinkingKoolAid", Wildcard}
  BY <1>1, <1>2, <1>5, WildcardIsNoState DEF Exact, FromAny
<1> QED
  BY <1>1, <1>2, <1>3, <1>4, <1>5, <1>6, TrialStates
-----------------------------------------------------------------------------
LEMMA SafeKept ==
    ASSUME TypeOK, LastBatchSafe, UNCHANGED <<current_state, accepted, condemned>>,
           sent' = sent \/ current_state.variant = "Materializing"
    PROVE  LastBatchSafe'
<1>1. current_state.variant = "Materializing" => current_state \notin {Processing, Dead}
  BY TrialStates DEF TypeOK
<1> QED
  BY <1>1 DEF LastBatchSafe, Safe

\* Nothing is safe any more once the machine has condemned itself.
LEMMA Condemned == ASSUME condemned' PROVE LastBatchSafe'
  BY DEF LastBatchSafe, Safe

LEMMA NextTrial ==
    PurgatoryInv /\ [PNext]_pvars => TrialType' /\ SentSoFar' /\ LastBatchSafe'
<1> SUFFICES ASSUME PurgatoryInv, [PNext]_pvars
             PROVE  TrialType' /\ SentSoFar' /\ LastBatchSafe'
  OBVIOUS
<1>t. /\ current_state \in State /\ current_state.data_buffer \in Seq(Item)
      /\ condemned \in BOOLEAN /\ accepted \in Seq(Batch) /\ sent \in [Channel -> Seq(Item)]
      /\ Downstream \in Nat
  BY TrialStates, PurgatoryAssumption DEF PurgatoryInv, TypeOK, TrialType
\* A step that leaves the machine and the trial as they are.
<1>q. ASSUME UNCHANGED <<current_state, pc, event, payload, next, sent, accepted, condemned>>
      PROVE  TrialType' /\ SentSoFar' /\ LastBatchSafe'
  <2>1. TrialType'
    BY <1>q DEF PurgatoryInv, TrialType
  <2>2. SentSoFar'
    BY <1>q DEF PurgatoryInv, SentSoFar, EndsWith, Gone
  <2> QED
    BY <1>q, <2>1, <2>2, SafeKept DEF PurgatoryInv
\* A call ends: only what is accepted and where the machine is count.
<1>e. ASSUME pc' = "idle", sent' = sent, condemned' \in BOOLEAN, accepted' \in Seq(Batch),
             current_state' = DrinkingKoolAid => condemned'
      PROVE  TrialType' /\ SentSoFar'
  BY <1>t, <1>e DEF TrialType, SentSoFar
\* The host hands over an event.
<1>g. ASSUME NEW e \in {"StartMaterialization", "ProcessBatch", "DrinkKoolAid"}, NEW data, Give(e, data),
             e = "StartMaterialization" => data \in Batch
      PROVE  TrialType' /\ SentSoFar' /\ LastBatchSafe'
  <2>1. /\ current_state' = current_state /\ UNCHANGED <<sent, accepted, condemned>> /\ next' = <<1, 1>>
        /\ pc' = "transition" => event' = e /\ payload' = data
        /\ \/ pc' = "idle"
           \/ pc' = "transition" /\ e = "StartMaterialization"
           \/ pc' = "transition" /\ e = "ProcessBatch" /\ current_state.variant = "Materializing"
           \/ pc' = "transition" /\ e = "DrinkKoolAid" /\ current_state = DrinkingKoolAid
    BY <1>g, TrialBegins DEF Give, PurgatoryInv
  <2>2. TrialType'
    BY <1>g, <1>t, <2>1 DEF PurgatoryInv, TrialType
  <2>3. SentSoFar'
    <3>1. next'[1] = 1 /\ next'[2] = 1 /\ next' \in Nat \X Nat
      BY <2>1
    <3>2. ASSUME NEW tx \in Channel PROVE Gone(tx)' = 0
      <4>1. tx \in Nat /\ tx >= 1
        BY <1>t DEF Channel
      <4> QED
        BY <3>1, <4>1 DEF Gone
    <3>3. ASSUME NEW tx \in Channel PROVE EndsWith(sent'[tx], current_state'.data_buffer, 0)
      BY <1>t, <2>1 DEF EndsWith
    <3>4. ASSUME NEW tx \in Channel PROVE EndsWith(sent[tx], current_state.data_buffer, Gone(tx))'
      BY <3>2, <3>3 DEF EndsWith
    <3>5. Len(current_state'.data_buffer) + 1 >= 1 /\ Channel' = Channel
      BY <1>t, <2>1
    <3> QED
      BY <3>1, <3>4, <3>5 DEF SentSoFar
  <2> QED
    BY <2>1, <2>2, <2>3, SafeKept DEF PurgatoryInv
<1>1. ASSUME NEW b \in Batch, Start(b) PROVE TrialType' /\ SentSoFar' /\ LastBatchSafe'
  BY <1>1, <1>g DEF Start
<1>2. CASE ProcessBatch \/ DrinkKoolAid
  BY <1>2, <1>g DEF ProcessBatch, DrinkKoolAid
<1>3. CASE CheckTimer
  <2>1. /\ UNCHANGED <<current_state, event, payload, next, sent, accepted, condemned>>
        /\ \/ pc' = pc /\ pc = "idle"
           \/ pc' = "timeout" /\ HasTimeout(name)
    BY <1>3 DEF CheckTimer, CheckTimeout, Begin, Immediate, machine, trial
  <2>2. HasTimeout(name) => current_state.variant \in {"Materializing", "Processing"}
    BY NoHooks DEF PurgatoryInv, HasTimeout, TrialTables
  <2>3. TrialType'
    BY <2>1, <2>2 DEF PurgatoryInv, TrialType
  <2>4. SentSoFar'
    BY <2>1 DEF SentSoFar
  <2> QED
    BY <2>1, <2>3, <2>4, SafeKept DEF PurgatoryInv
<1>b. ASSUME NEW s, Becomes(s)
      PROVE  /\ current_state' = s /\ pc' = "idle" /\ sent' = sent
             /\ condemned' = (condemned \/ s = DrinkingKoolAid) /\ condemned' \in BOOLEAN
  BY <1>b, <1>t, TrialReturns DEF Becomes, PurgatoryInv
<1>4. CASE StartReturns
  <2>1. Becomes(Materializing(payload)) /\ accepted' = Append(accepted, payload) /\ payload \in Batch
    BY <1>4 DEF StartReturns, PurgatoryInv, TrialType
  <2>2. Materializing(payload) # DrinkingKoolAid
    BY DEF Materializing, DrinkingKoolAid, Plain
  <2>3. accepted' \in Seq(Batch) /\ Last(accepted') = payload
    BY <1>t, <2>1 DEF Last
  <2>4. current_state' = Materializing(payload)
    BY <2>1, <1>b
  <2>5. LastBatchSafe'
    BY <2>3, <2>4 DEF LastBatchSafe, Safe
  <2> QED
    BY <1>b, <1>e, <2>1, <2>2, <2>3, <2>4, <2>5
<1>5. CASE Send
  <2> DEFINE tx == next[2]
             i == next[1]
             buffer == current_state.data_buffer
             more == IF tx < Downstream THEN <<i, tx + 1>> ELSE <<i + 1, 1>>
  <2>1. /\ pc = "transition" /\ event = "ProcessBatch" /\ Downstream > 0 /\ i <= Len(buffer)
        /\ sent' = [sent EXCEPT ![tx] = Append(@, buffer[i])] /\ next' = more
        /\ UNCHANGED <<current_state, pc, event, payload, accepted, condemned>>
    BY <1>5 DEF Send, Sending, vars, machine
  <2>2. /\ next \in Nat \X Nat /\ i >= 1 /\ tx >= 1 /\ i \in Nat /\ tx \in Nat /\ tx <= Downstream
        /\ \A c \in Channel : EndsWith(sent[c], buffer, Gone(c))
    BY <2>1, <1>t DEF PurgatoryInv, SentSoFar
  <2>3. tx \in Channel /\ buffer[i] \in Item /\ Len(buffer) \in Nat /\ buffer \in Seq(Item)
    BY <2>1, <2>2, <1>t DEF Channel
  <2>4. sent' \in [Channel -> Seq(Item)]
    BY <2>1, <2>3, <1>t
  <2>5. TrialType'
    BY <2>1, <2>4 DEF PurgatoryInv, TrialType
  <2>6. more \in Nat \X Nat /\ more[1] >= 1 /\ more[2] >= 1 /\ more[1] <= Len(buffer) + 1
        /\ (more[2] > 1 => more[1] <= Len(buffer) /\ more[2] <= Downstream)
    <3>1. Downstream \in Nat /\ i \in Nat /\ tx \in Nat /\ Len(buffer) \in Nat
          /\ i >= 1 /\ tx >= 1 /\ i <= Len(buffer)
      BY <2>1, <2>2, <2>3, <1>t
    <3>2. CASE tx < Downstream
      <4>1. more = <<i, tx + 1>>
        BY <3>2
      <4> HIDE DEF more, i, tx, buffer
      <4>2. more[1] = i /\ more[2] = tx + 1 /\ more \in Nat \X Nat
        BY <3>1, <4>1
      <4> QED
        BY <3>1, <3>2, <4>2
    <3>3. CASE ~(tx < Downstream)
      <4>1. more = <<i + 1, 1>>
        BY <3>3
      <4> HIDE DEF more, i, tx, buffer
      <4>2. more[1] = i + 1 /\ more[2] = 1 /\ more \in Nat \X Nat
        BY <3>1, <4>1
      <4> QED
        BY <3>1, <4>2
    <3> QED
      BY <3>2, <3>3
  <2>7. ASSUME NEW c \in Channel PROVE EndsWith(sent[c], current_state.data_buffer, Gone(c))'
    <3>1. c \in Nat /\ c >= 1 /\ c <= Downstream
      BY <1>t DEF Channel
    <3>2. CASE c = tx
      <4>1. Gone(c) = i - 1 /\ i - 1 \in Nat /\ i - 1 < Len(buffer)
        BY <3>2, <2>1, <2>2, <2>3 DEF Gone
      <4>2. Gone(c)' = i
        <5>1. (IF c < more[2] THEN more[1] ELSE more[1] - 1) = i
          BY <3>1, <3>2, <2>2, <1>t
        <5> QED
          BY <5>1, <2>1 DEF Gone
      <4>3. sent'[c] = Append(sent[c], buffer[i])
        BY <2>1, <2>3, <3>2, <1>t
      <4>4. EndsWith(Append(sent[c], buffer[(i - 1) + 1]), buffer, (i - 1) + 1)
        <5> DEFINE n == i - 1
        <5>1. n \in Nat /\ n < Len(buffer) /\ EndsWith(sent[c], buffer, n) /\ sent[c] \in Seq(Item)
          BY <4>1, <2>2, <1>t
        <5> HIDE DEF n
        <5>2. EndsWith(Append(sent[c], buffer[n + 1]), buffer, n + 1)
          BY <5>1, <2>3, OneMoreItem
        <5> QED
          BY <5>2 DEF n
      <4>5. (i - 1) + 1 = i
        BY <2>2
      <4>6. EndsWith(sent'[c], buffer, i)
        BY <4>3, <4>4, <4>5
      <4> QED
        BY <4>2, <4>6, <2>1 DEF EndsWith
    <3>3. CASE c # tx
      <4>1. Gone(c)' = Gone(c)
        <5>1. (IF c < more[2] THEN more[1] ELSE more[1] - 1) = IF c < tx THEN i ELSE i - 1
          BY <3>1, <3>3, <2>2, <1>t
        <5> QED
          BY <5>1, <2>1 DEF Gone
      <4>2. sent'[c] = sent[c]
        BY <2>1, <3>3, <1>t
      <4> QED
        BY <4>1, <4>2, <2>1, <2>2 DEF EndsWith
    <3> QED
      BY <3>2, <3>3
  <2>8. SentSoFar'
    BY <2>1, <2>6, <2>7 DEF SentSoFar
  <2>9. current_state.variant = "Materializing"
    BY <2>1 DEF PurgatoryInv, TrialType
  <2> QED
    BY <2>1, <2>5, <2>8, <2>9, SafeKept DEF PurgatoryInv
<1>6. CASE SendFails
  BY <1>6, <1>b, <1>e, <1>t, Condemned DEF SendFails
<1>7. CASE ProcessReturns
  <2>1. /\ pc = "transition" /\ event = "ProcessBatch" /\ Becomes(Processing) /\ accepted' = accepted
        /\ ~(Downstream > 0 /\ next[1] <= Len(current_state.data_buffer))
        /\ current_state.variant = "Materializing"
    BY <1>7 DEF ProcessReturns, Sending, PurgatoryInv, TrialType
  <2>2. current_state' = Processing /\ pc' = "idle" /\ sent' = sent /\ condemned' \in BOOLEAN
        /\ (condemned => condemned')
    BY <2>1, <1>b
  <2>3. Processing # DrinkingKoolAid
    BY DEF Processing, DrinkingKoolAid, Plain
  <2>4. ASSUME accepted # <<>>, ~condemned PROVE \A tx \in Channel : IsSuffix(Last(accepted), sent[tx])
    <3>1. current_state = Materializing(Last(accepted))
      <4>1. current_state \notin {Processing, Dead}
        BY <2>1, TrialStates, <1>t
      <4> QED
        BY <2>4, <4>1 DEF PurgatoryInv, LastBatchSafe, Safe
    <3>2. current_state.data_buffer = Last(accepted)
      BY <3>1 DEF Materializing
    <3>3. ASSUME NEW tx \in Channel PROVE EndsWith(sent[tx], current_state.data_buffer, Len(current_state.data_buffer))
      <4>1. Downstream > 0 /\ tx \in Nat /\ tx >= 1
        BY <1>t DEF Channel
      <4>2. /\ next \in Nat \X Nat /\ next[1] <= Len(current_state.data_buffer) + 1 /\ next[2] >= 1
            /\ next[2] > 1 => next[1] <= Len(current_state.data_buffer)
            /\ EndsWith(sent[tx], current_state.data_buffer, Gone(tx))
        BY <2>1 DEF PurgatoryInv, SentSoFar
      <4>3. Len(current_state.data_buffer) \in Nat
        BY <1>t
      <4>4. Gone(tx) = Len(current_state.data_buffer)
        BY <2>1, <4>1, <4>2, <4>3 DEF Gone
      <4> QED
        BY <4>2, <4>4
    <3> QED
      BY <3>2, <3>3, <1>t, WholeSuffix
  <2>5. LastBatchSafe'
    BY <2>1, <2>2, <2>4 DEF LastBatchSafe, Safe
  <2> QED
    BY <2>1, <2>2, <2>3, <2>5, <1>e, <1>t
<1>8. CASE DrinkReturns
  <2>1. Becomes(Dead) /\ accepted' = accepted /\ condemned
    BY <1>8 DEF DrinkReturns, PurgatoryInv, TrialType
  <2>2. Dead # DrinkingKoolAid
    BY DEF Dead, DrinkingKoolAid, Plain
  <2> QED
    BY <2>1, <2>2, <1>b, <1>e, <1>t, Condemned
<1>9. CASE TimeoutReturns
  <2>1. /\ Becomes(IF current_state.data_buffer # <<>> THEN DrinkingKoolAid ELSE Dead)
        /\ accepted' = accepted /\ current_state.variant \in {"Materializing", "Processing"}
    BY <1>9 DEF TimeoutReturns, PurgatoryInv, TrialType
  <2>2. Dead # DrinkingKoolAid
    BY DEF Dead, DrinkingKoolAid, Plain
  <2>3. CASE current_state.data_buffer # <<>>
    BY <2>1, <2>3, <1>b, <1>e, <1>t, Condemned
  <2>4. CASE current_state.data_buffer = <<>>
    <3>1. /\ current_state' = Dead /\ pc' = "idle" /\ sent' = sent /\ condemned' \in BOOLEAN
          /\ condemned => condemned'
      BY <2>1, <2>4, <1>b
    <3>2. ASSUME accepted # <<>>, ~condemned PROVE \A tx \in Channel : IsSuffix(Last(accepted), sent[tx])
      <4>1. CASE current_state.variant = "Processing"
        BY <4>1, <3>2, <1>t, TrialStates DEF PurgatoryInv, LastBatchSafe, Safe, Materializing
      <4>2. CASE current_state.variant = "Materializing"
        <5>1. current_state = Materializing(Last(accepted))
          BY <3>2, <4>2, <1>t, TrialStates DEF PurgatoryInv, LastBatchSafe, Safe
        <5>2. Last(accepted) = <<>>
          BY <5>1, <2>4 DEF Materializing
        <5>3. ASSUME NEW t \in Seq(Item) PROVE IsSuffix(<<>>, t)
          <6> DEFINE s == <<>>
          <6>1. s \in Seq(Item) /\ Len(s) = 0 /\ Len(t) \in Nat
            OBVIOUS
          <6> HIDE DEF s
          <6>2. EndsWith(t, s, Len(s))
            BY <6>1 DEF EndsWith
          <6>3. IsSuffix(s, t)
            BY <6>1, <6>2, WholeSuffix
          <6> QED
            BY <6>3 DEF s
        <5> QED
          BY <5>2, <5>3, <1>t
      <4> QED
        BY <4>1, <4>2, <2>1
    <3>3. LastBatchSafe'
      BY <2>1, <3>1, <3>2 DEF LastBatchSafe, Safe
    <3> QED
      BY <2>1, <2>2, <3>1, <3>3, <1>e, <1>t
  <2> QED
    BY <2>3, <2>4
<1>10. CASE Drop
  <2>1. current_state' = current_state /\ pc' = "idle" /\ UNCHANGED <<sent, accepted, condemned>>
    BY <1>10 DEF Drop, Abort, Return, machine
  <2> QED
    BY <2>1, <1>e, <1>t, SafeKept DEF PurgatoryInv, TrialType
<1>11. ASSUME NEW tx \in Channel, Close(tx) PROVE TrialType' /\ SentSoFar' /\ LastBatchSafe'
  BY <1>11, <1>q DEF Close, vars, machine
<1>12. CASE TimePasses \/ UNCHANGED pvars
  BY <1>12, <1>q DEF TimePasses, Tick, pvars, vars, machine, trial
<1> QED
  BY <1>1, <1>2, <1>3, <1>4, <1>5, <1>6, <1>7, <1>8, <1>9, <1>10, <1>11, <1>12 DEF PNext

\* A step of the trials is one of the engine's, or leaves it alone.
LEMMA TrialStep == PurgatoryInv /\ [PNext]_pvars => [Next]_vars
<1> SUFFICES ASSUME PurgatoryInv, [PNext]_pvars PROVE [Next]_vars
  OBVIOUS
<1>1. {"StartMaterialization", "ProcessBatch", "DrinkKoolAid"} \subseteq Event
  BY PurgatoryAssumption
<1>2. ASSUME NEW s \in State, Becomes(s) PROVE Next
  BY <1>2 DEF Becomes, Next
<1>3. StartReturns => Materializing(payload) \in State
  BY TrialStates DEF StartReturns, PurgatoryInv, TrialType
<1>4. StartReturns \/ SendFails \/ ProcessReturns \/ DrinkReturns \/ TimeoutReturns => Next
  BY <1>2, <1>3, TrialStates DEF StartReturns, SendFails, ProcessReturns, DrinkReturns, TimeoutReturns
<1>5. ASSUME NEW b \in Batch, Start(b) PROVE Next
  BY <1>1, <1>5 DEF Start, Give, Next
<1>6. ProcessBatch \/ DrinkKoolAid \/ CheckTimer \/ Drop \/ TimePasses => Next
  BY <1>1 DEF ProcessBatch, DrinkKoolAid, Give, CheckTimer, Drop, TimePasses, Next
<1>7. Send \/ (\E tx \in Channel : Close(tx)) \/ UNCHANGED pvars => UNCHANGED vars
  BY DEF Send, Close, pvars
<1> QED
  BY <1>4, <1>5, <1>6, <1>7 DEF PNext

LEMMA InitTrial == PInit => PurgatoryInv
<1> SUFFICES ASSUME PInit PROVE PurgatoryInv
  OBVIOUS
<1>1. TypeOK
  BY InitType DEF PInit
<1>2. pc = "idle" /\ current_state = Materializing(<<>>) /\ accepted = <<>> /\ condemned = FALSE
      /\ sent = [tx \in Channel |-> <<>>]
  BY DEF PInit, Init
<1>3. current_state # DrinkingKoolAid
  BY <1>2 DEF Materializing, DrinkingKoolAid, Plain
<1>4. TrialType
  <2>1. <<>> \in Seq(Batch) /\ <<>> \in Seq(Item)
    OBVIOUS
  <2> QED
    BY <1>2, <1>3, <2>1 DEF TrialType
<1> QED
  BY <1>1, <1>2, <1>4 DEF PurgatoryInv, SentSoFar, LastBatchSafe

\* The batch accepted last is never lost without a word
\* (circle_5_timeout_cancellation.rs:132-282), for all batches, any number of
\* channels, and however often calls are dropped and channels closed.
THEOREM LastBatch == PSpec => []LastBatchSafe
<1>1. PurgatoryInv /\ [PNext]_pvars => PurgatoryInv'
  BY NextTrial, TrialStep, NextType DEF PurgatoryInv
<1>2. PurgatoryInv => LastBatchSafe
  BY DEF PurgatoryInv
<1> QED
  BY <1>1, <1>2, InitTrial, PTL DEF PSpec
=============================================================================
