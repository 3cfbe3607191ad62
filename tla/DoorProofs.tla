----------------------------- MODULE DoorProofs -----------------------------
(***************************************************************************)
(* Doors and chains of helper calls of every length: what a handler writes *)
(* is the machine's history, what the actions write follows it, and a      *)
(* chain makes the transition it says.                                     *)
(***************************************************************************)
EXTENDS Door, RunsProofs, SequenceTheorems

(***************************************************************************)
(* A chain of helper calls.                                                *)
(***************************************************************************)
\* The last call among the first n that replaces the list, 0 if there is none.
IsLastReplace(chain, n, last) ==
    \/ last = 0 /\ \A i \in 1 .. n : chain[i].op # "with_actions"
    \/ /\ last \in 1 .. n /\ chain[last].op = "with_actions"
       /\ \A i \in 1 .. n : i > last => chain[i].op # "with_actions"

\* The list after the first n calls, if call last is the last to replace it.
After(chain, n, last) ==
    (IF last = 0 THEN <<>> ELSE chain[last].given) \o [j \in 1 .. n - last |-> chain[last + j].given]

LEMMA CallsAre ==
    /\ IsStep(Collect, Seq(HostAction), BuilderCall)
    /\ \A b \in Seq(HostAction), c \in BuilderCall :
          Collect[b][c] = IF c.op = "with_actions" THEN c.given ELSE Append(b, c.given)
    /\ \A c \in BuilderCall :
          IF c.op = "with_actions" THEN c.given \in Seq(HostAction) ELSE c.given \in HostAction
<1>1. Given \subseteq Seq(HostAction)
  BY TransitionsAssumption DEF Given, BoundedSeq, SeqOf
<1>2. ASSUME NEW c \in BuilderCall
      PROVE  IF c.op = "with_actions" THEN c.given \in Seq(HostAction) ELSE c.given \in HostAction
  BY <1>1 DEF BuilderCall
<1>3. ASSUME NEW b \in Seq(HostAction), NEW c \in BuilderCall
      PROVE  /\ Collect[b][c] = IF c.op = "with_actions" THEN c.given ELSE Append(b, c.given)
             /\ Collect[b][c] \in Seq(HostAction)
  <2>1. Collect[b][c] = IF c.op = "with_actions" THEN c.given ELSE Append(b, c.given)
    BY DEF Collect, WithActions, WithAction
  <2>2. CASE c.op = "with_actions"
    BY <1>2, <2>1, <2>2
  <2>3. CASE c.op # "with_actions"
    <3>1. c.given \in HostAction
      BY <1>2, <2>3
    <3>2. Append(b, c.given) \in Seq(HostAction)
      BY <3>1
    <3> QED
      BY <2>1, <2>3, <3>2
  <2> QED
    BY <2>1, <2>2, <2>3
<1>4. Collect \in [Seq(HostAction) -> [BuilderCall -> Seq(HostAction)]]
  <2>1. \A b \in Seq(HostAction) : Collect[b] = [c \in BuilderCall |-> Collect[b][c]]
    BY DEF Collect
  <2>2. Collect = [b \in Seq(HostAction) |-> Collect[b]]
    BY DEF Collect
  <2>3. \A b \in Seq(HostAction) : Collect[b] \in [BuilderCall -> Seq(HostAction)]
    BY <1>3, <2>1
  <2> QED
    BY <2>2, <2>3
<1> QED
  BY <1>2, <1>3, <1>4 DEF IsStep

\* Among the first n calls there is a last one that replaces the list, or none.
LEMMA LastReplace ==
    ASSUME NEW chain \in Seq(BuilderCall), NEW n \in 0 .. Len(chain)
    PROVE  \E last : IsLastReplace(chain, n, last)
<1>1. CASE \A i \in 1 .. n : chain[i].op # "with_actions"
  BY <1>1 DEF IsLastReplace
<1>2. ASSUME NEW k \in 1 .. n, chain[k].op = "with_actions"
      PROVE  \E last : IsLastReplace(chain, n, last)
  <2> DEFINE T == {m \in 0 .. n - 1 : chain[n - m].op = "with_actions"}
  <2>0. n \in Nat /\ k \in Nat
    OBVIOUS
  <2>1. n - k \in T /\ T \subseteq Nat
    BY <1>2, <2>0
  <2>2. PICK m \in T : \A h \in T : m <= h
    <3> HIDE DEF T
    <3> QED
      BY <2>1, LeastNumber
  <2>3. n - m \in 1 .. n /\ chain[n - m].op = "with_actions" /\ m \in Nat
    BY <2>0, <2>2
  <2>4. ASSUME NEW i \in 1 .. n, i > n - m, chain[i].op = "with_actions" PROVE FALSE
    <3>1. n - i \in 0 .. n - 1 /\ n - (n - i) = i
      BY <2>0
    <3>2. n - i \in T
      BY <2>4, <3>1
    <3>3. m <= n - i
      BY <2>2, <3>2
    <3> HIDE DEF T
    <3> QED
      BY <2>0, <2>3, <2>4, <3>3
  <2>5. IsLastReplace(chain, n, n - m)
    BY <2>3, <2>4 DEF IsLastReplace
  <2> QED
    BY <2>5
<1> QED
  BY <1>1, <1>2

LEMMA OneLastReplace ==
    ASSUME NEW chain, NEW n \in Nat, NEW p, IsLastReplace(chain, n, p), NEW q, IsLastReplace(chain, n, q)
    PROVE  p = q
  BY DEF IsLastReplace

\* One more call: it replaces the list, or adds an action to it.
LEMMA AfterOneMore ==
    ASSUME NEW chain \in Seq(BuilderCall), NEW n \in 1 .. Len(chain),
           NEW p, IsLastReplace(chain, n - 1, p), NEW q, IsLastReplace(chain, n, q)
    PROVE  /\ After(chain, n - 1, p) \in Seq(HostAction)
           /\ After(chain, n, q) = Collect[After(chain, n - 1, p)][chain[n]]
<1> DEFINE c == chain[n]
           head == IF p = 0 THEN <<>> ELSE chain[p].given
           added == [j \in 1 .. (n - 1) - p |-> chain[p + j].given]
           more == [j \in 1 .. n - p |-> chain[p + j].given]
<1>0. n \in Nat /\ n - 1 \in Nat /\ Len(chain) \in Nat /\ c \in BuilderCall /\ p \in 0 .. n - 1
  BY DEF IsLastReplace
<1>1. \A i \in 1 .. Len(chain) : chain[i] \in BuilderCall
  OBVIOUS
<1>2. head \in Seq(HostAction)
  <2>1. <<>> \in Seq(HostAction)
    OBVIOUS
  <2>2. p # 0 => p \in 1 .. Len(chain) /\ chain[p].op = "with_actions"
    BY <1>0 DEF IsLastReplace
  <2> QED
    BY <1>1, <2>1, <2>2, CallsAre
<1>3. ASSUME NEW j \in 1 .. (n - 1) - p PROVE chain[p + j].given \in HostAction
  <2>1. p + j \in 1 .. n - 1 /\ p + j > p /\ p + j \in 1 .. Len(chain)
    BY <1>0
  <2>2. chain[p + j].op # "with_actions"
    BY <2>1, <1>0 DEF IsLastReplace
  <2> QED
    BY <1>1, <2>1, <2>2, CallsAre
<1>4. added \in Seq(HostAction) /\ Len(added) = (n - 1) - p
  BY <1>0, <1>3
<1>5. After(chain, n - 1, p) = head \o added
  BY DEF After
<1>6. head \o added \in Seq(HostAction)
  <2> HIDE DEF head, added
  <2> QED
    BY <1>2, <1>4
<1>7. CASE c.op = "with_actions"
  <2>1. IsLastReplace(chain, n, n)
    BY <1>7, <1>0 DEF IsLastReplace
  <2>2. q = n /\ q # 0
    BY <2>1, <1>0, OneLastReplace
  <2>3. After(chain, n, q) = c.given \o [j \in 1 .. n - n |-> chain[n + j].given]
    BY <2>2 DEF After
  <2>4. c.given \in Seq(HostAction) /\ Collect[head \o added][c] = c.given
    <3> HIDE DEF head, added, c
    <3> QED
      BY <1>0, <1>6, <1>7, CallsAre
  <2>5. [j \in 1 .. n - n |-> chain[n + j].given] = <<>>
    BY <1>0
  <2>6. c.given \o <<>> = c.given
    <3> HIDE DEF c
    <3> QED
      BY <2>4
  <2> QED
    BY <1>5, <1>6, <2>3, <2>4, <2>5, <2>6
<1>8. CASE c.op # "with_actions"
  <2>1. IsLastReplace(chain, n, p)
    <3>1. \A i \in 1 .. n : i = n \/ i \in 1 .. n - 1
      BY <1>0
    <3> QED
      BY <1>8, <1>0, <3>1 DEF IsLastReplace
  <2>2. q = p
    BY <2>1, <1>0, OneLastReplace
  <2>3. After(chain, n, q) = head \o more
    BY <2>2 DEF After
  <2>4. c.given \in HostAction
    <3> HIDE DEF c
    <3> QED
      BY <1>0, <1>8, CallsAre
  <2>5. more = Append(added, c.given)
    <3>1. Append(added, c.given) = [j \in 1 .. ((n - 1) - p) + 1 |->
                                       IF j <= (n - 1) - p THEN added[j] ELSE c.given]
      BY <1>4, <1>0
    <3>2. ((n - 1) - p) + 1 = n - p
      BY <1>0
    <3>3. ASSUME NEW j \in 1 .. n - p
          PROVE  chain[p + j].given = IF j <= (n - 1) - p THEN added[j] ELSE c.given
      <4>1. j <= (n - 1) - p => j \in 1 .. (n - 1) - p
        BY <1>0
      <4>2. ~(j <= (n - 1) - p) => p + j = n
        BY <1>0
      <4> QED
        BY <4>1, <4>2
    <3> QED
      BY <3>1, <3>2, <3>3
  <2>6. head \o Append(added, c.given) = Append(head \o added, c.given)
    <3> HIDE DEF head, added, c
    <3> QED
      BY <1>2, <1>4, <2>4
  <2>7. Collect[head \o added][c] = Append(head \o added, c.given)
    <3> HIDE DEF head, added, c
    <3> QED
      BY <1>0, <1>6, <1>8, CallsAre
  <2> QED
    BY <1>5, <1>6, <2>3, <2>5, <2>6, <2>7
<1> QED
  BY <1>7, <1>8

\* What a chain collects is what it says.
LEMMA CollectedIsMeant ==
    ASSUME NEW chain \in Seq(BuilderCall)
    PROVE  Collected(chain) = Meant(chain)
<1> DEFINE N == Len(chain)
           last(n) == CHOOSE l : IsLastReplace(chain, n, l)
           f == [n \in 0 .. N |-> After(chain, n, last(n))]
           empty == <<>>
<1>0. N \in Nat /\ DOMAIN chain = 1 .. N
  OBVIOUS
<1>1. \A n \in 0 .. N : IsLastReplace(chain, n, last(n))
  BY LastReplace
<1>2. After(chain, 0, last(0)) = empty
  <2>1. IsLastReplace(chain, 0, last(0))
    BY <1>0, <1>1
  <2>2. last(0) = 0
    <3> HIDE DEF last
    <3> QED
      BY <2>1 DEF IsLastReplace
  <2>3. [j \in 1 .. 0 - 0 |-> chain[0 + j].given] = <<>>
    OBVIOUS
  <2>4. After(chain, 0, 0) = empty
    BY <2>3 DEF After
  <2> QED
    BY <2>2, <2>4
<1> HIDE DEF last
<1>3. ASSUME NEW n \in 1 .. N
      PROVE  After(chain, n, last(n)) = Collect[After(chain, n - 1, last(n - 1))][chain[n]]
  <2>1. n - 1 \in 0 .. N /\ n \in 0 .. N
    BY <1>0
  <2>2. IsLastReplace(chain, n - 1, last(n - 1)) /\ IsLastReplace(chain, n, last(n))
    BY <1>1, <2>1
  <2> QED
    BY <2>2, AfterOneMore
<1>4. ASSUME NEW n \in 0 .. N
      PROVE  f[n] = IF n = 0 THEN empty ELSE Collect[f[n - 1]][chain[n]]
  <2>1. f[n] = After(chain, n, last(n))
    OBVIOUS
  <2>2. CASE n = 0
    BY <1>2, <2>1, <2>2
  <2>3. CASE n # 0
    <3>1. n - 1 \in 0 .. N /\ n \in 1 .. N
      BY <1>0, <2>3
    <3>2. f[n - 1] = After(chain, n - 1, last(n - 1))
      BY <3>1
    <3> QED
      BY <1>3, <2>1, <2>3, <3>1, <3>2
  <2> QED
    BY <2>2, <2>3
<1>5. Records(f, Collect, empty, chain)
  <2> DEFINE E(n) == IF n = 0 THEN empty ELSE Collect[f[n - 1]][chain[n]]
  <2>1. \A n \in 0 .. N : f[n] = E(n)
    BY <1>4
  <2>2. f = [n \in 0 .. N |-> f[n]]
    OBVIOUS
  <2>3. f = [n \in 0 .. N |-> E(n)]
    <3> HIDE DEF f, E
    <3> QED
      BY <2>1, <2>2
  <2> QED
    BY <2>3 DEF Records
<1>6. Collected(chain) = After(chain, N, last(N))
  <2>1. empty \in Seq(HostAction)
    OBVIOUS
  <2>2. f[N] = After(chain, N, last(N))
    BY <1>0
  <2> HIDE DEF f, empty
  <2>3. RunOver(Collect, empty, chain) = f[N]
    BY <1>5, <2>1, CallsAre, RunIsRecorded
  <2> QED
    BY <2>2, <2>3 DEF Collected, NewBuilder, empty
<1>7. last(N) = IF Replaces(chain) = {} THEN 0 ELSE Max(Replaces(chain))
  <2>0. IsLastReplace(chain, N, last(N)) /\ Replaces(chain) = {i \in 1 .. N : chain[i].op = "with_actions"}
    BY <1>0, <1>1 DEF Replaces
  <2>1. CASE Replaces(chain) = {}
    BY <2>0, <2>1 DEF IsLastReplace
  <2>2. CASE Replaces(chain) # {}
    <3>1. last(N) \in Replaces(chain) /\ \A i \in Replaces(chain) : last(N) >= i
      BY <1>0, <2>0, <2>2 DEF IsLastReplace
    <3> DEFINE m == Max(Replaces(chain))
    <3>2. m \in Replaces(chain) /\ \A i \in Replaces(chain) : m >= i
      BY <3>1 DEF Max
    <3>3. last(N) \in 1 .. N /\ m \in 1 .. N
      BY <2>0, <3>1, <3>2
    <3> HIDE DEF m
    <3>4. last(N) = m
      BY <1>0, <3>1, <3>2, <3>3
    <3> QED
      BY <2>2, <3>4 DEF m
  <2> QED
    BY <2>1, <2>2
<1> QED
  BY <1>6, <1>7 DEF Meant, After, AddedAfter

LEMMA ChainsAreCalls == Chains \subseteq Seq(BuilderCall)
  BY TransitionsAssumption DEF Chains, BoundedSeq, SeqOf

\* A handler may make its transition with a chain of any length, whole lists and
\* single actions in any order (types.rs:58-160): the list is the last whole one
\* and what is added behind it, for every action of the host and every bound.
THEOREM LastListCounts == Spec => []ChainIsLastList
<1>1. ChainIsLastList
  <2>1. ASSUME NEW chain \in Chains, NEW s
        PROVE  /\ To(s, chain) = GotoWithActions(s, Meant(chain))
               /\ Stay(chain, s) = StayWithActions(s, Meant(chain))
               /\ Meant(chain) = <<>> => /\ To(s, chain) = Goto(s)
                                        /\ Stay(chain, s) = StayHere(s)
    <3>1. Collected(chain) = Meant(chain)
      BY ChainsAreCalls, CollectedIsMeant
    <3> QED
      BY <3>1 DEF To, Stay, GotoWithActions, StayWithActions, Goto, StayHere
  <2> QED
    BY <2>1 DEF ChainIsLastList
<1> QED
  BY <1>1, PTL

(***************************************************************************)
(* The log.                                                                *)
(***************************************************************************)
Where == {"Closed", "Open"}
Doors == {Simple, QuickStart, Timed}

\* What Written and Keeping say, of any door.
IsWritten(d, line) == \E s \in Where : Contains(d.writes[s], line)
Kept(d) == [lines \in Seq(Line) |-> [line \in Line |-> IF IsWritten(d, line) THEN Append(lines, line) ELSE lines]]
Stories(d) == [s \in Where |-> d.writes[s] \o d.actions[s]]

Heard(d, lines) == RunOver(Kept(d), <<>>, lines)
Told(table, states) == RunOver(Telling(table), <<>>, states)

\* Handlers write at most one line, and no action writes that line.
LEMMA DoorTables ==
    ASSUME NEW d \in Doors, NEW s \in Where
    PROVE  /\ d.writes[s] \in Seq(Line) /\ d.actions[s] \in Seq(Line)
           /\ \/ d.writes[s] = <<>>
              \/ \E w \in Line : d.writes[s] = <<w>> /\ IsWritten(d, w)
           /\ \A i \in 1 .. Len(d.actions[s]) : ~IsWritten(d, d.actions[s][i])
<1>0. s = "Closed" \/ s = "Open"
  BY DEF Where
<1>1. ASSUME NEW w \in Line
      PROVE  <<w>> \in Seq(Line) /\ Len(<<w>>) = 1 /\ <<w>>[1] = w
  OBVIOUS
<1>2. <<>> \in Seq(Line) /\ Len(<<>>) = 0
  OBVIOUS
<1>3. CASE d = Simple
  <2>1. d.writes["Closed"] = <<"Opening door">> /\ d.writes["Open"] = <<"Closing door">>
    BY <1>3 DEF Simple, By
  <2>2. d.actions["Closed"] = <<"Ring!">> /\ d.actions["Open"] = <<"Door closed">>
    BY <1>3 DEF Simple, By
  <2>3. {"Opening door", "Closing door", "Ring!", "Door closed"} \subseteq Line
    BY DEF Line
  <2>4. ASSUME NEW w, NEW line
        PROVE  Contains(<<w>>, line) <=> line = w
    BY DEF Contains
  <2>5. ASSUME NEW line
        PROVE  IsWritten(d, line) <=> (line = "Opening door" \/ line = "Closing door")
    <3>1. IsWritten(d, line) <=> (Contains(d.writes["Closed"], line) \/ Contains(d.writes["Open"], line))
      BY DEF IsWritten, Where
    <3>2. Contains(d.writes["Closed"], line) <=> line = "Opening door"
      BY <2>1, <2>4
    <3>3. Contains(d.writes["Open"], line) <=> line = "Closing door"
      BY <2>1, <2>4
    <3> QED
      BY <3>1, <3>2, <3>3
  <2>6. /\ IsWritten(d, "Opening door") /\ IsWritten(d, "Closing door")
        /\ ~IsWritten(d, "Ring!") /\ ~IsWritten(d, "Door closed")
    BY <2>5
  <2>7. CASE s = "Closed"
    <3>1. d.writes[s] = <<"Opening door">> /\ d.actions[s] = <<"Ring!">>
      BY <2>1, <2>2, <2>7
    <3>2. d.writes[s] \in Seq(Line) /\ d.actions[s] \in Seq(Line)
      BY <1>1, <2>3, <3>1
    <3>3. ASSUME NEW i \in 1 .. Len(d.actions[s]) PROVE ~IsWritten(d, d.actions[s][i])
      <4>1. Len(d.actions[s]) = 1 /\ d.actions[s][1] = "Ring!"
        <5> DEFINE q == <<"Ring!">>
        <5>1. Len(q) = 1 /\ q[1] = "Ring!"
          OBVIOUS
        <5>2. d.actions[s] = q
          BY <3>1
        <5> HIDE DEF q
        <5> QED
          BY <5>1, <5>2
      <4>2. i = 1
        <5>1. i \in 1 .. 1
          BY <4>1
        <5> QED
          BY <5>1
      <4> QED
        BY <2>6, <4>1, <4>2
    <3>4. \E w \in Line : d.writes[s] = <<w>> /\ IsWritten(d, w)
      BY <2>3, <2>6, <3>1
    <3> QED
      BY <3>2, <3>3, <3>4
  <2>8. CASE s = "Open"
    <3>1. d.writes[s] = <<"Closing door">> /\ d.actions[s] = <<"Door closed">>
      BY <2>1, <2>2, <2>8
    <3>2. d.writes[s] \in Seq(Line) /\ d.actions[s] \in Seq(Line)
      BY <1>1, <2>3, <3>1
    <3>3. ASSUME NEW i \in 1 .. Len(d.actions[s]) PROVE ~IsWritten(d, d.actions[s][i])
      <4>1. Len(d.actions[s]) = 1 /\ d.actions[s][1] = "Door closed"
        <5> DEFINE q == <<"Door closed">>
        <5>1. Len(q) = 1 /\ q[1] = "Door closed"
          OBVIOUS
        <5>2. d.actions[s] = q
          BY <3>1
        <5> HIDE DEF q
        <5> QED
          BY <5>1, <5>2
      <4>2. i = 1
        <5>1. i \in 1 .. 1
          BY <4>1
        <5> QED
          BY <5>1
      <4> QED
        BY <2>6, <4>1, <4>2
    <3>4. \E w \in Line : d.writes[s] = <<w>> /\ IsWritten(d, w)
      BY <2>3, <2>6, <3>1
    <3> QED
      BY <3>2, <3>3, <3>4
  <2> QED
    BY <1>0, <2>7, <2>8
<1>4. CASE d = QuickStart
  <2>1. d.writes["Closed"] = <<>> /\ d.writes["Open"] = <<>>
    BY <1>4 DEF QuickStart, By
  <2>2. d.actions["Closed"] = <<"Ring!", "Door opened">> /\ d.actions["Open"] = <<"Door closed">>
    BY <1>4 DEF QuickStart, By
  <2>3. \A line : ~IsWritten(d, line)
    BY <1>2, <2>1 DEF IsWritten, Contains, Where
  <2>4. {"Ring!", "Door opened", "Door closed"} \subseteq Line
    BY DEF Line
  <2>5. <<"Ring!", "Door opened">> \in Seq(Line)
    <3>1. ASSUME NEW v \in Line, NEW w \in Line
          PROVE  <<v, w>> \in Seq(Line)
      OBVIOUS
    <3> QED
      BY <2>4, <3>1
  <2> QED
    BY <1>0, <1>1, <1>2, <2>1, <2>2, <2>3, <2>4, <2>5
<1>5. CASE d = Timed
  <2>1. d.writes["Closed"] = <<>> /\ d.writes["Open"] = <<>>
    BY <1>5 DEF Timed, By
  <2>2. d.actions["Closed"] = <<"Opened">> /\ d.actions["Open"] = <<"Auto-closed">>
    BY <1>5 DEF Timed, By
  <2>3. \A line : ~IsWritten(d, line)
    BY <1>2, <2>1 DEF IsWritten, Contains, Where
  <2>4. {"Opened", "Auto-closed"} \subseteq Line
    BY DEF Line
  <2> QED
    BY <1>0, <1>1, <1>2, <2>1, <2>2, <2>3, <2>4
<1> QED
  BY <1>3, <1>4, <1>5 DEF Doors

LEMMA KeptIsStep ==
    ASSUME NEW d
    PROVE  /\ IsStep(Kept(d), Seq(Line), Line)
           /\ \A lines \in Seq(Line), line \in Line :
                 Kept(d)[lines][line] = IF IsWritten(d, line) THEN Append(lines, line) ELSE lines
<1>1. \A lines \in Seq(Line), line \in Line : Append(lines, line) \in Seq(Line)
  OBVIOUS
<1> HIDE DEF Line
<1> QED
  BY <1>1 DEF Kept, IsStep

LEMMA TellingIsStep ==
    ASSUME NEW table, \A s \in Where : table[s] \in Seq(Line)
    PROVE  /\ IsStep(Telling(table), Seq(Line), Where)
           /\ \A lines \in Seq(Line), s \in Where : Telling(table)[lines][s] = lines \o table[s]
<1>1. \A lines \in Seq(Line), s \in Where : lines \o table[s] \in Seq(Line)
  OBVIOUS
<1> QED
  BY <1>1 DEF Telling, IsStep, Where

LEMMA NothingSaid ==
    ASSUME NEW d, NEW table, \A s \in Where : table[s] \in Seq(Line)
    PROVE  Heard(d, <<>>) = <<>> /\ Told(table, <<>>) = <<>>
<1> DEFINE none == <<>>
<1>1. none \in Seq(Line)
  OBVIOUS
<1> HIDE DEF none
<1>2. RunOver(Kept(d), none, <<>>) = none /\ RunOver(Telling(table), none, <<>>) = none
  BY <1>1, KeptIsStep, TellingIsStep, RunOverNothing
<1> QED
  BY <1>2 DEF Heard, Told, none

LEMMA OneLineHeard ==
    ASSUME NEW d, NEW lines \in Seq(Line), NEW line \in Line
    PROVE  Heard(d, Append(lines, line)) = IF IsWritten(d, line) THEN Append(Heard(d, lines), line)
                                                                 ELSE Heard(d, lines)
<1> DEFINE none == <<>>
           before == RunOver(Kept(d), none, lines)
           more == Append(lines, line)
<1>1. none \in Seq(Line)
  OBVIOUS
<1> HIDE DEF none
<1>2. before \in Seq(Line)
  BY <1>1, KeptIsStep, RunOverType
<1>3. RunOver(Kept(d), none, more) = Kept(d)[before][line]
  BY <1>1, KeptIsStep, RunOverOneMore
<1> QED
  BY <1>2, <1>3, KeptIsStep DEF Heard, none

LEMMA OneStateTold ==
    ASSUME NEW table, \A s \in Where : table[s] \in Seq(Line), NEW states \in Seq(Where), NEW s \in Where
    PROVE  /\ Told(table, states) \in Seq(Line)
           /\ Told(table, Append(states, s)) = Told(table, states) \o table[s]
<1> DEFINE none == <<>>
           before == RunOver(Telling(table), none, states)
           more == Append(states, s)
<1>1. none \in Seq(Line)
  OBVIOUS
<1> HIDE DEF none
<1>2. before \in Seq(Line)
  BY <1>1, TellingIsStep, RunOverType
<1>3. RunOver(Telling(table), none, more) = Telling(table)[before][s]
  BY <1>1, TellingIsStep, RunOverOneMore
<1> QED
  BY <1>2, <1>3, TellingIsStep DEF Told, none

LEMMA FirstMoves ==
    ASSUME NEW p \in Seq(Line), NEW q \in Seq(Line), q # <<>>
    PROVE  /\ Append(p, Head(q)) \o Tail(q) = p \o q
           /\ Head(q) \in Line /\ Append(p, Head(q)) \in Seq(Line) /\ Tail(q) \in Seq(Line)
<1>1. Head(q) \in Line /\ Tail(q) \in Seq(Line) /\ <<Head(q)>> \in Seq(Line)
  OBVIOUS
<1>2. Append(p, Head(q)) = p \o <<Head(q)>> /\ Append(p, Head(q)) \in Seq(Line)
  BY <1>1, AppendIsConcat
<1>3. (p \o <<Head(q)>>) \o Tail(q) = p \o (<<Head(q)>> \o Tail(q))
  BY <1>1, ConcatAssociative
<1>4. <<Head(q)>> \o Tail(q) = q
  <2>1. Len(q) \in Nat \ {0} /\ Head(q) = q[1] /\ Tail(q) = SubSeq(q, 2, Len(q)) /\ SubSeq(q, 1, Len(q)) = q
    BY TailIsSubSeq, SubSeqFull
  <2>2. 1 \in 1..Len(q) /\ Len(q) \in 1..Len(q)
    BY <2>1
  <2>3. SubSeq(q, 1, Len(q)) = <<q[1]>> \o SubSeq(q, 1 + 1, Len(q))
    BY <2>2, SubSeqRecursiveFirst
  <2> QED
    BY <2>1, <2>3
<1> QED
  BY <1>1, <1>2, <1>3, <1>4

\* The shapes of the state, what waits for the host, and the two properties.
DoorInv ==
    /\ door \in Doors /\ state \in Where /\ lost \in BOOLEAN
    /\ actions \in Seq(Line) /\ log \in Seq(Line) /\ history \in Seq(Where)
    /\ pc = "handler" => actions = <<>>
    /\ pc = "action" => actions # <<>>
    /\ \A i \in 1 .. Len(actions) : ~IsWritten(door, actions[i])
    /\ Heard(door, log) = Told(door.writes, history)
    /\ ~lost => log \o actions = Told(Stories(door), history)

LEMMA DoorInvInit == Init => DoorInv
<1> SUFFICES ASSUME Init PROVE DoorInv
  OBVIOUS
<1> DEFINE none == <<>>
<1>1. door \in Doors
  BY DEF Init, Doors
<1>2. none \in Seq(Line) /\ none \in Seq(Where) /\ Len(none) = 0 /\ none \o none = none
  OBVIOUS
<1>3. actions = none /\ log = none /\ history = none
  BY DEF Init
<1>4. \A s \in Where : door.writes[s] \in Seq(Line) /\ Stories(door)[s] \in Seq(Line)
  BY <1>1, DoorTables DEF Stories
<1>5. Heard(door, none) = none /\ Told(door.writes, none) = none /\ Told(Stories(door), none) = none
  BY <1>4, NothingSaid
<1> HIDE DEF none
<1>6. pc = "idle" /\ state \in Where /\ lost \in BOOLEAN
  BY DEF Init, Where
<1>7. \A i \in 1 .. Len(actions) : ~IsWritten(door, actions[i])
  BY <1>2, <1>3
<1> QED
  BY <1>1, <1>2, <1>3, <1>5, <1>6, <1>7 DEF DoorInv

\* A call gives up what the host has not executed; so does a dropped one.
LEMMA GivenUp ==
    ASSUME DoorInv, UNCHANGED <<door, state, log, history>>,
           actions' = <<>>, lost' = (lost \/ actions # <<>>), pc' \in {"idle", "handler"}
    PROVE  DoorInv'
<1> DEFINE none == <<>>
<1>1. none \in Seq(Line) /\ Len(none) = 0
  OBVIOUS
<1>2. actions' = none /\ (~lost' => actions' = actions)
  OBVIOUS
<1>3. ~lost' => log' \o actions' = Told(Stories(door), history)'
  BY <1>2 DEF DoorInv
<1>4. \A i \in 1 .. Len(actions') : ~IsWritten(door, actions'[i])
  BY <1>1
<1> QED
  BY <1>1, <1>2, <1>3, <1>4 DEF DoorInv

\* The transition and what its handler writes are one step.
LEMMA OneTransition == DoorInv /\ HandlerReturns => DoorInv'
<1> SUFFICES ASSUME DoorInv, HandlerReturns PROVE DoorInv'
  OBVIOUS
<1> DEFINE w == door.writes[state]
           a == door.actions[state]
<1>1. /\ door' = door /\ lost' = lost /\ pc' = "idle"
      /\ log' = log \o w /\ actions' = a
      /\ state' = Other[state] /\ history' = Append(history, state)
  BY DEF HandlerReturns
<1>2. /\ door \in Doors /\ state \in Where /\ lost \in BOOLEAN /\ actions = <<>>
      /\ log \in Seq(Line) /\ history \in Seq(Where)
  BY DEF DoorInv, HandlerReturns
<1>3. /\ w \in Seq(Line) /\ a \in Seq(Line)
      /\ w = <<>> \/ \E v \in Line : w = <<v>> /\ IsWritten(door, v)
      /\ \A i \in 1 .. Len(a) : ~IsWritten(door, a[i])
  BY <1>2, DoorTables
<1>4. \A s \in Where : door.writes[s] \in Seq(Line) /\ Stories(door)[s] \in Seq(Line)
  BY <1>2, DoorTables DEF Stories
<1>5. Stories(door)[state] = w \o a
  BY <1>2 DEF Stories
<1> HIDE DEF w, a
<1>6. state' \in Where /\ history' \in Seq(Where) /\ log' \in Seq(Line)
  BY <1>1, <1>2, <1>3 DEF Other, By, Where
<1>7. Heard(door, log') = Heard(door, log) \o w
  <2>0. Heard(door, log) \in Seq(Line)
    BY <1>2, <1>4, OneStateTold DEF DoorInv
  <2>1. CASE w = <<>>
    <3>1. log \o w = log /\ Heard(door, log) \o w = Heard(door, log)
      BY <1>2, <2>0, <2>1, ConcatEmptySeq
    <3> QED
      BY <1>1, <3>1
  <2>2. ASSUME NEW v \in Line, w = <<v>>, IsWritten(door, v)
        PROVE  Heard(door, log') = Heard(door, log) \o w
    <3>1. log' = Append(log, v) /\ Append(Heard(door, log), v) = Heard(door, log) \o w
      BY <1>1, <1>2, <2>0, <2>2, AppendIsConcat
    <3>2. Heard(door, Append(log, v)) = Append(Heard(door, log), v)
      BY <1>2, <2>2, OneLineHeard
    <3> QED
      BY <3>1, <3>2
  <2> QED
    BY <1>3, <2>1, <2>2
<1>8. Told(door.writes, history') = Told(door.writes, history) \o w
  BY <1>1, <1>2, <1>4, OneStateTold DEF w
<1>9. Heard(door, log)' = Told(door.writes, history)'
  <2>1. Heard(door, log') = Told(door.writes, history')
    BY <1>7, <1>8 DEF DoorInv
  <2> QED
    BY <1>1, <2>1
<1>10. ~lost' => log' \o actions' = Told(Stories(door), history)'
  <2>1. log \o <<>> = log
    BY <1>2, ConcatEmptySeq
  <2>2. ~lost => log = Told(Stories(door), history)
    BY <1>2, <2>1 DEF DoorInv
  <2>3. (log \o w) \o a = log \o (w \o a)
    BY <1>2, <1>3, ConcatAssociative
  <2>4. Told(Stories(door), history') = Told(Stories(door), history) \o (w \o a)
    BY <1>1, <1>2, <1>4, <1>5, OneStateTold
  <2>5. Stories(door)' = Stories(door)
    BY <1>1 DEF Stories
  <2> QED
    BY <1>1, <2>2, <2>3, <2>4, <2>5
<1> QED
  BY <1>1, <1>2, <1>3, <1>6, <1>9, <1>10 DEF DoorInv

\* The host executes the first of what it was given; no handler wrote it.
LEMMA OneAction == DoorInv /\ Act => DoorInv'
<1> SUFFICES ASSUME DoorInv, Act PROVE DoorInv'
  OBVIOUS
<1>1. /\ UNCHANGED <<door, state, history, lost>>
      /\ log' = Append(log, Head(actions)) /\ actions' = Tail(actions)
      /\ pc' = IF Len(actions) = 1 THEN "idle" ELSE "action"
  BY DEF Act
<1>2. /\ log \in Seq(Line) /\ actions \in Seq(Line) /\ actions # <<>>
  BY DEF DoorInv, Act
<1>3. /\ log' \o actions' = log \o actions
      /\ Head(actions) \in Line /\ log' \in Seq(Line) /\ actions' \in Seq(Line)
  BY <1>1, <1>2, FirstMoves
<1>4. /\ Head(actions) = actions[1] /\ 1 \in 1 .. Len(actions)
      /\ \A i \in 1 .. Len(actions') : actions'[i] = actions[i + 1] /\ i + 1 \in 1 .. Len(actions)
      /\ Len(actions') = Len(actions) - 1
  BY <1>1, <1>2
<1>5. ~IsWritten(door, Head(actions))
  BY <1>4 DEF DoorInv
<1>6. Heard(door, log') = Heard(door, log)
  BY <1>1, <1>2, <1>3, <1>5, OneLineHeard
<1>7. \A i \in 1 .. Len(actions') : ~IsWritten(door, actions'[i])
  BY <1>4 DEF DoorInv
<1>8. (pc' = "action" => actions' # <<>>) /\ pc' # "handler"
  <2>1. CASE Len(actions) = 1
    BY <1>1, <2>1
  <2>2. CASE Len(actions) # 1
    <3>1. Len(actions') # 0
      BY <1>2, <1>4, <2>2
    <3>2. actions' # <<>>
      BY <3>1
    <3> QED
      BY <1>1, <2>2, <3>2
  <2> QED
    BY <2>1, <2>2
<1>9. Heard(door, log)' = Told(door.writes, history)'
  <2>1. Heard(door, log') = Told(door.writes, history)
    BY <1>6 DEF DoorInv
  <2> QED
    BY <1>1, <2>1
<1>10. ~lost' => log' \o actions' = Told(Stories(door), history)'
  BY <1>1, <1>3 DEF DoorInv
<1> QED
  BY <1>1, <1>3, <1>7, <1>8, <1>9, <1>10 DEF DoorInv

LEMMA DoorInvNext == DoorInv /\ [Next]_vars => DoorInv'
<1> SUFFICES ASSUME DoorInv, [Next]_vars PROVE DoorInv'
  OBVIOUS
<1>1. ASSUME NEW fires, Call(fires) PROVE DoorInv'
  <2>1. pc' \in {"idle", "handler"}
    BY <1>1 DEF Call
  <2> QED
    BY <1>1, <2>1, GivenUp DEF Call
<1>2. ASSUME NEW event \in {"Open", "Close"}, Handle(event) PROVE DoorInv'
  BY <1>1, <1>2 DEF Handle
<1>3. CASE CheckTimeout
  BY <1>1, <1>3 DEF CheckTimeout
<1>4. CASE HandlerReturns
  BY <1>4, OneTransition
<1>5. CASE ExecuteActions
  BY <1>5 DEF ExecuteActions, DoorInv, Stories
<1>6. CASE Act
  BY <1>6, OneAction
<1>7. CASE Drop
  BY <1>7, GivenUp DEF Drop
<1>8. CASE Tick
  BY <1>8 DEF Tick, DoorInv, Stories
<1>9. CASE UNCHANGED vars
  BY <1>9 DEF vars, DoorInv, Stories
<1> QED
  BY <1>2, <1>3, <1>4, <1>5, <1>6, <1>7, <1>8, <1>9 DEF Next

LEMMA DoorInvHolds == Spec => []DoorInv
  BY DoorInvInit, DoorInvNext, PTL DEF Spec

\* Of a host that polls, refuses, drops calls at any await and executes actions or
\* not, in any order: what the handlers of simple_fsm.rs:66-89 write to the log is
\* the machine's history.
THEOREM HandlersTellHistory == Spec => []HandlerLinesAreHistory
<1>1. DoorInv => HandlerLinesAreHistory
  BY DEF DoorInv, HandlerLinesAreHistory, HandlerLines, Keeping, Written, Lines, Heard, Kept, IsWritten, Told, Where
<1> QED
  BY <1>1, DoorInvHolds, PTL

\* A host that executes every action it is given and drops nothing has, with what
\* is still to execute, the story of the transitions in the log (lib.rs:59-89).
THEOREM ActionsTellStory == Spec => []LogTellsStory
<1>1. DoorInv => LogTellsStory
  BY DEF DoorInv, LogTellsStory, Story, Lines, Told, Stories, Where
<1> QED
  BY <1>1, DoorInvHolds, PTL
=============================================================================
