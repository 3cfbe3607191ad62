---------------------------- MODULE CircleProofs ----------------------------
(***************************************************************************)
(* The first two circles: tasks that run side by side, wait for each other *)
(* at a barrier and drain together.                                        *)
(*                                                                         *)
(* Circle 1 for every number of machines, of events and every width of the *)
(* counters.  The barrier of the drain: once it has let the coordinator    *)
(* pass, no machine can touch the shared counter any more.  Before that    *)
(* the counter stays below what the machines believe in, and what they are *)
(* sure to take off it again empties it.                                   *)
(*                                                                         *)
(* Circle 2: startup, run and shutdown for every number of stages and of   *)
(* data sent, in whatever order the tasks run.  A stage goes through the   *)
(* places 0 to 10 of a life; the invariant gives every stage its place and *)
(* says, by state of the pipeline, which places the stages can be at and   *)
(* what waits in the pipeline's queue.                                     *)
(***************************************************************************)
EXTENDS InFlight, Coordination, FiniteSetTheorems, TLAPS

(***************************************************************************)
(* Circle 1.                                                               *)
(***************************************************************************)
Participants == Machine \cup {Coordinator}

\* Where a machine stands, as far as the barrier is concerned.
StageType ==
    /\ state \in [Machine -> {"Idle", "Racing", "Draining", "Done"}]
    /\ pc \in [Machine -> {"loop", "increment", "barrier"}]
    /\ present \subseteq Participants

\* Who has arrived waits at the barrier or is done, and an increment in progress
\* belongs to a machine that is racing: neither kind of machine can be both.
Arrival ==
    \A m \in Machine :
        /\ m \in present => \/ pc[m] = "barrier" /\ state[m] = "Draining"
                            \/ pc[m] = "loop" /\ state[m] = "Done"
        /\ pc[m] = "barrier" => state[m] = "Draining"
        /\ pc[m] = "increment" => state[m] = "Racing"

BarrierInv == StageType /\ Arrival /\ (coordinator # "waiting" => Full)

\* A full barrier has everyone.
LEMMA FullMeansAll ==
    ASSUME present \subseteq Participants, Full
    PROVE  Machine \subseteq present
<1>1. IsFiniteSet(Machine) /\ Coordinator \notin Machine
  BY InFlightAssumption
<1>2. IsFiniteSet(Participants) /\ Cardinality(Participants) = Cardinality(Machine) + 1
  BY <1>1, FS_AddElement DEF Participants
<1>3. /\ IsFiniteSet(present) /\ Cardinality(present) <= Cardinality(Participants)
      /\ Cardinality(present) = Cardinality(Participants) => present = Participants
  BY <1>2, FS_Subset
<1>4. Cardinality(present) \in Nat /\ Cardinality(Machine) \in Nat
  BY <1>1, <1>3, FS_CardinalityType
<1>5. present = Participants
  BY <1>2, <1>3, <1>4 DEF Full
<1> QED
  BY <1>5 DEF Participants

\* Arriving keeps a full barrier full.
LEMMA FullStays ==
    ASSUME present \subseteq Participants, present' \subseteq Participants, present \subseteq present', Full
    PROVE  Full'
<1>1. IsFiniteSet(Participants) /\ IsFiniteSet(Machine)
  BY InFlightAssumption, FS_AddElement DEF Participants
<1>2. IsFiniteSet(present')
  BY <1>1, FS_Subset
<1>3. IsFiniteSet(present) /\ Cardinality(present) <= Cardinality(present')
  BY <1>2, FS_Subset
<1>4. Cardinality(present) \in Nat /\ Cardinality(present') \in Nat /\ Cardinality(Machine) \in Nat
  BY <1>1, <1>2, <1>3, FS_CardinalityType
<1> QED
  BY <1>3, <1>4 DEF Full

\* An event that a machine handles without the barrier.
LEMMA HandledStep ==
    ASSUME BarrierInv, NEW m \in Machine, m \notin present,
           NEW next \in {"Racing", "Draining"}, NEW value, Handled(m, next, value),
           UNCHANGED <<present, coordinator>>
    PROVE  BarrierInv'
  BY DEF BarrierInv, StageType, Arrival, Handled, Full

\* A machine that is not yet at the barrier has not arrived.
LEMMA NotArrived ==
    ASSUME BarrierInv, NEW m \in Machine, state[m] # "Done", pc[m] # "barrier"
    PROVE  m \notin present
  BY DEF BarrierInv, Arrival

LEMMA NextBarrier == BarrierInv /\ [RaceNext]_racevars => BarrierInv'
<1> SUFFICES ASSUME BarrierInv, [RaceNext]_racevars PROVE BarrierInv'
  OBVIOUS
<1>1. ASSUME NEW m \in Machine, Begin(m) PROVE BarrierInv'
  BY <1>1, HandledStep, NotArrived DEF Begin, Starts, Phase
<1>2. ASSUME NEW m \in Machine, Increment(m) PROVE BarrierInv'
  <2>1. m \notin present
    BY <1>2, NotArrived DEF Increment, Increments, Phase
  <2> QED
    BY <1>2, <2>1 DEF Increment, BarrierInv, StageType, Arrival, Full
<1>3. ASSUME NEW m \in Machine, IncrementReturns(m) PROVE BarrierInv'
  <2>1. m \notin present
    BY <1>3 DEF IncrementReturns, BarrierInv, Arrival
  <2> QED
    BY <1>3, <2>1, HandledStep DEF IncrementReturns
<1>4. ASSUME NEW m \in Machine, Decrement(m) PROVE BarrierInv'
  BY <1>4, HandledStep, NotArrived DEF Decrement, Decrements, Phase
<1>5. ASSUME NEW m \in Machine, StartDrain(m) PROVE BarrierInv'
  BY <1>5, HandledStep, NotArrived DEF StartDrain, Drains, Phase
<1>6. ASSUME NEW m \in Machine, DrainComplete(m) PROVE BarrierInv'
  <2>1. /\ state[m] = "Draining" /\ pc' = [pc EXCEPT ![m] = "barrier"]
        /\ present' = present \cup {m} /\ UNCHANGED <<state, coordinator>>
    BY <1>6 DEF DrainComplete
  <2>2. StageType' /\ Arrival'
    BY <2>1 DEF BarrierInv, StageType, Arrival, Participants
  <2>3. coordinator # "waiting" => Full'
    BY <2>1, <2>2, FullStays DEF BarrierInv, StageType
  <2> QED
    BY <2>1, <2>2, <2>3 DEF BarrierInv
<1>7. ASSUME NEW m \in Machine, DrainCompleteReturns(m) PROVE BarrierInv'
  BY <1>7 DEF DrainCompleteReturns, Handled, BarrierInv, StageType, Arrival, Full
<1>8. CASE Coordinate
  <2>1. UNCHANGED <<state, pc>> /\ present' \subseteq Participants /\ present \subseteq present'
    BY <1>8 DEF Coordinate, task, BarrierInv, StageType, Participants
  <2>2. StageType' /\ Arrival'
    BY <1>8, <2>1, InFlightAssumption DEF Coordinate, BarrierInv, StageType, Arrival
  <2>3. coordinator' # "waiting" => Full
    BY <1>8 DEF Coordinate, BarrierInv
  <2>4. Full => Full'
    BY <2>1, FullStays DEF BarrierInv, StageType
  <2> QED
    BY <2>2, <2>3, <2>4 DEF BarrierInv
<1>9. CASE UNCHANGED racevars
  BY <1>9 DEF racevars, BarrierInv, StageType, Arrival, Full
<1> QED
  BY <1>1, <1>2, <1>3, <1>4, <1>5, <1>6, <1>7, <1>8, <1>9 DEF RaceNext

LEMMA BarrierInvariant == RaceSpec => []BarrierInv
<1>1. RaceInit => BarrierInv
  BY DEF RaceInit, BarrierInv, StageType, Arrival
<1> QED
  BY <1>1, NextBarrier, PTL DEF RaceSpec

\* Once the barrier has let the coordinator pass, no step of any machine changes
\* the shared counter: what the coordinator reads after it is final (circle_1:305).
THEOREM FinalCount == RaceSpec => CountIsFinal
<1>1. ASSUME BarrierInv, [RaceNext]_racevars, coordinator # "waiting" PROVE in_flight' = in_flight
  <2>1. ASSUME NEW m \in Machine PROVE state[m] # "Racing"
    <3>1. m \in present
      BY <1>1, FullMeansAll DEF BarrierInv, StageType
    <3> QED
      BY <1>1, <3>1 DEF BarrierInv, Arrival
  <2>2. CASE RaceNext
    BY <1>1, <2>1, <2>2 DEF RaceNext, Begin, Increment, IncrementReturns, Decrement, StartDrain,
       DrainComplete, DrainCompleteReturns, Coordinate
  <2>3. CASE UNCHANGED racevars
    BY <2>3 DEF racevars
  <2> QED
    BY <1>1, <2>2, <2>3
<1> QED
  BY <1>1, BarrierInvariant, PTL DEF RaceSpec, CountIsFinal
-----------------------------------------------------------------------------
(***************************************************************************)
(* Sums over the machines.  A sum is a number of pairs, so that adding one *)
(* to one machine's number is adding one element to a finite set.          *)
(***************************************************************************)
PairsOf(S, f) == UNION {{m} \X (1 .. f[m]) : m \in S}
Pairs(f) == PairsOf(Machine, f)

LEMMA SumType ==
    ASSUME NEW S, IsFiniteSet(S), NEW f \in [S -> Nat]
    PROVE  IsFiniteSet(PairsOf(S, f)) /\ Cardinality(PairsOf(S, f)) \in Nat
<1>1. ASSUME NEW m \in S PROVE IsFiniteSet({m} \X (1 .. f[m]))
  <2>1. IsFiniteSet({m})
    BY FS_Singleton
  <2>2. f[m] \in Int /\ 1 \in Int
    OBVIOUS
  <2>3. IsFiniteSet(1 .. f[m])
    BY <2>2, FS_Interval
  <2> QED
    BY <2>1, <2>3, FS_Product
<1>2. IsFiniteSet({{m} \X (1 .. f[m]) : m \in S})
  <2> DEFINE part == [m \in S |-> {m} \X (1 .. f[m])]
  <2>1. part \in Surjection(S, {{m} \X (1 .. f[m]) : m \in S})
    BY DEF Surjection
  <2> QED
    BY <2>1, FS_Surjection
<1>3. IsFiniteSet(PairsOf(S, f))
  BY <1>1, <1>2, FS_UNION DEF PairsOf
<1> QED
  BY <1>3, FS_CardinalityType

\* A sum goes down with its terms.
LEMMA SumDown ==
    ASSUME NEW S, IsFiniteSet(S), NEW f \in [S -> Nat], NEW g \in [S -> Nat],
           \A m \in S : g[m] <= f[m]
    PROVE  /\ Cardinality(PairsOf(S, g)) <= Cardinality(PairsOf(S, f))
           /\ (\E m \in S : g[m] < f[m]) => Cardinality(PairsOf(S, g)) < Cardinality(PairsOf(S, f))
<1>1. \A m \in S : 1 .. g[m] \subseteq 1 .. f[m]
  OBVIOUS
<1>2. PairsOf(S, g) \subseteq PairsOf(S, f)
  BY <1>1 DEF PairsOf
<1>3. /\ IsFiniteSet(PairsOf(S, g)) /\ Cardinality(PairsOf(S, g)) \in Nat
      /\ IsFiniteSet(PairsOf(S, f)) /\ Cardinality(PairsOf(S, f)) \in Nat
  BY SumType
<1>4. /\ Cardinality(PairsOf(S, g)) <= Cardinality(PairsOf(S, f))
      /\ Cardinality(PairsOf(S, g)) = Cardinality(PairsOf(S, f)) => PairsOf(S, g) = PairsOf(S, f)
  BY <1>2, <1>3, FS_Subset
<1>5. ASSUME NEW m \in S, g[m] < f[m] PROVE PairsOf(S, g) # PairsOf(S, f)
  <2>1. f[m] \in 1 .. f[m] /\ f[m] \notin 1 .. g[m]
    BY <1>5
  <2>2. <<m, f[m]>> \in PairsOf(S, f)
    BY <2>1 DEF PairsOf
  <2>3. <<m, f[m]>> \notin PairsOf(S, g)
    BY <2>1 DEF PairsOf
  <2> QED
    BY <2>2, <2>3
<1> QED
  BY <1>3, <1>4, <1>5

LEMMA TotalType ==
    ASSUME NEW f \in [Machine -> Nat]
    PROVE  IsFiniteSet(Pairs(f)) /\ Total(f) = Cardinality(Pairs(f)) /\ Total(f) \in Nat
  BY SumType, InFlightAssumption DEF Total, Pairs, PairsOf

\* One more of one machine is one more of the sum.
LEMMA TotalUp ==
    ASSUME NEW f \in [Machine -> Nat], NEW g \in [Machine -> Nat], NEW m \in Machine,
           g[m] = f[m] + 1, \A k \in Machine : k # m => g[k] = f[k]
    PROVE  Total(g) = Total(f) + 1
<1>1. Pairs(g) = Pairs(f) \cup {<<m, g[m]>>}
  <2>1. \A k \in Machine : \A i : <<k, i>> \in Pairs(g) <=> i \in 1 .. g[k]
    BY DEF Pairs, PairsOf
  <2>2. \A k \in Machine : \A i : <<k, i>> \in Pairs(f) <=> i \in 1 .. f[k]
    BY DEF Pairs, PairsOf
  <2>3. \A p \in Pairs(f) \cup Pairs(g) : \E k \in Machine : \E i \in Nat : p = <<k, i>>
    BY DEF Pairs, PairsOf
  <2>4. ASSUME NEW k \in Machine, NEW i \in Nat
        PROVE  <<k, i>> \in Pairs(g) <=> <<k, i>> \in Pairs(f) \/ <<k, i>> = <<m, g[m]>>
    BY <2>1, <2>2
  <2> QED
    BY <2>3, <2>4
<1>2. <<m, g[m]>> \notin Pairs(f)
  BY DEF Pairs, PairsOf
<1> QED
  BY <1>1, <1>2, TotalType, FS_AddElement

\* The sum depends on what the machines have and nothing else.
LEMMA TotalSame ==
    ASSUME NEW f, NEW g, \A k \in Machine : g[k] = f[k]
    PROVE  Total(g) = Total(f)
<1>1. Pairs(g) = Pairs(f)
  BY DEF Pairs, PairsOf
<1> QED
  BY <1>1 DEF Total, Pairs, PairsOf

\* A counter of the machine's width is never more than what was counted.
LEMMA Wraps ==
    ASSUME NEW n \in Nat
    PROVE  n % Wrap \in Nat /\ n % Wrap <= n
  BY InFlightAssumption
-----------------------------------------------------------------------------
\* A machine counts only while it races, and afterwards keeps its last number.
TrackType ==
    /\ counter \in [Machine -> Nat] /\ step \in [Machine -> Nat] /\ in_flight \in Nat
    /\ \A m \in Machine : state[m] = "Idle" => counter[m] = 0

TrackInv == BarrierInv /\ TrackType /\ CountIsTracked

\* The increments in progress, when one begins or ends.
LEMMA WaitingChanges ==
    /\ IsFiniteSet(Waiting) /\ Cardinality(Waiting) \in Nat
    /\ \A m \in Machine :
          /\ m \notin Waiting => Cardinality(Waiting \cup {m}) = Cardinality(Waiting) + 1
          /\ m \in Waiting => Cardinality(Waiting \ {m}) = Cardinality(Waiting) - 1
<1>1. IsFiniteSet(Waiting)
  BY InFlightAssumption, FS_Subset DEF Waiting
<1> QED
  BY <1>1, FS_CardinalityType, FS_AddElement, FS_RemoveElement

LEMMA NextTrack == TrackInv /\ [RaceNext]_racevars => TrackInv'
<1> SUFFICES ASSUME TrackInv, [RaceNext]_racevars PROVE TrackInv'
  OBVIOUS
<1>0. BarrierInv'
  BY NextBarrier DEF TrackInv
<1>t. /\ counter \in [Machine -> Nat] /\ step \in [Machine -> Nat] /\ in_flight \in Nat
      /\ state \in [Machine -> {"Idle", "Racing", "Draining", "Done"}]
      /\ pc \in [Machine -> {"loop", "increment", "barrier"}]
      /\ Total(counter) \in Nat
  BY TotalType DEF TrackInv, TrackType, BarrierInv, StageType
<1>w. Cardinality(Waiting) \in Nat
  BY WaitingChanges
<1>1. ASSUME NEW m \in Machine, Begin(m) PROVE TrackInv'
  <2>1. /\ counter' = [counter EXCEPT ![m] = 0] /\ step' = [step EXCEPT ![m] = @ + 1]
        /\ state' = [state EXCEPT ![m] = "Racing"] /\ pc' = [pc EXCEPT ![m] = "loop"]
        /\ pc[m] = "loop" /\ counter[m] = 0 /\ UNCHANGED in_flight
    BY <1>1 DEF Begin, Starts, Phase, Handled, TrackInv, TrackType
  <2>2. counter' = counter /\ pc' = pc
    BY <1>t, <2>1
  <2>3. TrackType'
    BY <1>t, <2>1, <2>2 DEF TrackInv, TrackType
  <2>4. Waiting' = Waiting
    BY <2>2 DEF Waiting
  <2>5. Total(counter)' = Total(counter)
    BY <2>2 DEF Total
  <2> QED
    BY <1>0, <2>1, <2>3, <2>4, <2>5 DEF TrackInv, CountIsTracked
<1>2. ASSUME NEW m \in Machine, Increment(m) PROVE TrackInv'
  <2>1. /\ in_flight' = (in_flight + 1) % Wrap /\ pc[m] = "loop" /\ pc' = [pc EXCEPT ![m] = "increment"]
        /\ UNCHANGED <<state, counter, step>>
    BY <1>2 DEF Increment, Increments, Phase
  <2>2. in_flight' \in Nat /\ in_flight' <= in_flight + 1
    BY <1>t, <2>1, Wraps
  <2>3. Waiting' = Waiting \cup {m} /\ m \notin Waiting
    BY <1>t, <2>1 DEF Waiting
  <2>4. Cardinality(Waiting') = Cardinality(Waiting) + 1
    BY <2>3, WaitingChanges
  <2>5. TrackType'
    BY <2>1, <2>2 DEF TrackInv, TrackType
  <2>6. Total(counter)' = Total(counter)
    BY <2>1 DEF Total
  <2> QED
    BY <1>0, <1>t, <1>w, <2>2, <2>4, <2>5, <2>6 DEF TrackInv, CountIsTracked
<1>3. ASSUME NEW m \in Machine, IncrementReturns(m) PROVE TrackInv'
  <2>1. /\ pc[m] = "increment" /\ pc' = [pc EXCEPT ![m] = "loop"] /\ UNCHANGED in_flight
        /\ counter' = [counter EXCEPT ![m] = @ + 1] /\ step' = [step EXCEPT ![m] = @ + 1]
        /\ state' = [state EXCEPT ![m] = "Racing"]
    BY <1>3, <1>t DEF IncrementReturns, Handled
  <2>2. Waiting' = Waiting \ {m} /\ m \in Waiting
    BY <1>t, <2>1 DEF Waiting
  <2>3. Cardinality(Waiting') = Cardinality(Waiting) - 1
    BY <2>2, WaitingChanges
  <2>4. counter' \in [Machine -> Nat] /\ counter'[m] = counter[m] + 1
        /\ \A k \in Machine : k # m => counter'[k] = counter[k]
    BY <1>t, <2>1
  <2>5. Total(counter') = Total(counter) + 1
    BY <1>t, <2>4, TotalUp
  <2>6. TrackType'
    BY <1>t, <2>1, <2>4 DEF TrackInv, TrackType
  <2>7. Total(counter)' = Total(counter')
    BY DEF Total
  <2> QED
    BY <1>0, <1>t, <1>w, <2>1, <2>3, <2>5, <2>6, <2>7 DEF TrackInv, CountIsTracked
<1>4. ASSUME NEW m \in Machine, Decrement(m) PROVE TrackInv'
  <2>1. /\ state[m] = "Racing" /\ pc[m] = "loop" /\ pc' = [pc EXCEPT ![m] = "loop"]
        /\ step' = [step EXCEPT ![m] = @ + 1] /\ state' = [state EXCEPT ![m] = "Racing"]
        /\ \/ in_flight > 0 /\ in_flight' = in_flight - 1 /\ counter' = [counter EXCEPT ![m] = Lowered(m)]
           \/ UNCHANGED in_flight /\ counter' = [counter EXCEPT ![m] = counter[m]]
    BY <1>4 DEF Decrement, Decrements, Phase, Handled
  <2>2. pc' = pc /\ Waiting' = Waiting
    BY <1>t, <2>1 DEF Waiting
  <2>3. \/ UNCHANGED counter /\ in_flight' \in Nat /\ in_flight' <= in_flight
        \/ /\ in_flight > 0 /\ in_flight' = in_flight - 1 /\ counter[m] > 0
           /\ counter' = [counter EXCEPT ![m] = counter[m] - 1]
    BY <1>t, <2>1 DEF Lowered
  <2>4. counter' \in [Machine -> Nat] /\ in_flight' \in Nat
    BY <1>t, <2>3
  <2>5. TrackType'
    BY <1>t, <2>1, <2>4 DEF TrackInv, TrackType
  <2>6. CASE UNCHANGED counter /\ in_flight' \in Nat /\ in_flight' <= in_flight
    <3>1. Total(counter)' = Total(counter)
      BY <2>6 DEF Total
    <3> QED
      BY <1>0, <1>t, <1>w, <2>2, <2>5, <2>6, <3>1 DEF TrackInv, CountIsTracked
  <2>7. CASE /\ in_flight > 0 /\ in_flight' = in_flight - 1 /\ counter[m] > 0
             /\ counter' = [counter EXCEPT ![m] = counter[m] - 1]
    <3>1. counter[m] = counter'[m] + 1 /\ \A k \in Machine : k # m => counter[k] = counter'[k]
      BY <1>t, <2>7
    <3>2. Total(counter) = Total(counter') + 1 /\ Total(counter') \in Nat
      BY <1>t, <2>4, <3>1, TotalUp, TotalType
    <3>3. Total(counter)' = Total(counter')
      BY DEF Total
    <3> QED
      BY <1>0, <1>t, <1>w, <2>2, <2>5, <2>7, <3>2, <3>3 DEF TrackInv, CountIsTracked
  <2> QED
    BY <2>3, <2>6, <2>7
<1>5. ASSUME NEW m \in Machine, StartDrain(m) \/ DrainComplete(m) \/ DrainCompleteReturns(m) PROVE TrackInv'
  <2>1. /\ counter' = counter /\ step' \in [Machine -> Nat] /\ UNCHANGED in_flight
        /\ pc[m] # "increment" /\ pc'[m] # "increment" /\ \A k \in Machine : k # m => pc'[k] = pc[k]
        /\ state'[m] # "Idle" /\ \A k \in Machine : k # m => state'[k] = state[k]
    BY <1>5, <1>t DEF StartDrain, Drains, Phase, DrainComplete, Completes, DrainCompleteReturns, Handled
  <2>2. Waiting' = Waiting
    BY <2>1 DEF Waiting
  <2>3. TrackType'
    BY <2>1 DEF TrackInv, TrackType
  <2>4. Total(counter)' = Total(counter)
    BY <2>1 DEF Total
  <2> QED
    BY <1>0, <2>1, <2>2, <2>3, <2>4 DEF TrackInv, CountIsTracked
<1>6. CASE Coordinate \/ UNCHANGED racevars
  <2>1. UNCHANGED <<state, counter, pc, step, in_flight>>
    BY <1>6 DEF Coordinate, task, racevars
  <2>2. Waiting' = Waiting /\ Total(counter)' = Total(counter)
    BY <2>1 DEF Waiting, Total
  <2>3. TrackType'
    BY <2>1 DEF TrackInv, TrackType
  <2> QED
    BY <1>0, <2>1, <2>2, <2>3 DEF TrackInv, CountIsTracked
<1> QED
  BY <1>1, <1>2, <1>3, <1>4, <1>5, <1>6 DEF RaceNext

\* However the machines' increments and decrements interleave at the lock and at
\* zero (circle_1:167-217), the shared counter neither wraps around nor exceeds
\* what the machines believe to be in flight, plus the increments in progress.
THEOREM SharedCountIsTracked == RaceSpec => []CountIsTracked
<1>1. RaceInit => TrackInv
  <2> SUFFICES ASSUME RaceInit PROVE TrackInv
    OBVIOUS
  <2>1. BarrierInv
    BY DEF RaceInit, BarrierInv, StageType, Arrival
  <2>2. TrackType
    BY DEF RaceInit, TrackType
  <2>3. Total(counter) \in Nat /\ Cardinality(Waiting) \in Nat
    BY <2>2, TotalType, WaitingChanges DEF TrackType
  <2> QED
    BY <2>1, <2>2, <2>3 DEF RaceInit, TrackInv, CountIsTracked
<1>2. TrackInv => CountIsTracked
  BY DEF TrackInv
<1> QED
  BY <1>1, <1>2, NextTrack, PTL DEF RaceSpec
-----------------------------------------------------------------------------
\* The decrements a machine is sure to make: those of its drain, less what it may
\* still add before, and the one in progress.
Owed(m) ==
    (IF step[m] = 0 THEN Drain - (Grow + Chaos)
     ELSE IF step[m] <= Grow + Chaos THEN Drain - (Grow + Chaos) + (step[m] - 1)
     ELSE IF step[m] <= Grow + Chaos + Drain THEN Grow + Chaos + Drain + 1 - step[m]
     ELSE 0)
    + (IF pc[m] = "increment" THEN 1 ELSE 0)
owed == [m \in Machine |-> Owed(m)]

\* Where a task stands in its program, as far as the count is concerned.
DrainType ==
    /\ step \in [Machine -> Nat] /\ in_flight \in Nat
    /\ \A m \in Machine :
          /\ pc[m] = "increment" => step[m] \in 1 .. Grow + Chaos
          /\ state[m] \in {"Draining", "Done"} => step[m] > Grow + Chaos + Drain
    /\ coordinator = "judging" => \A m \in Machine : state[m] = "Done"

\* CountIsTracked is no help here: a machine that decrements at zero keeps its own
\* number although it has used up an event.  What bounds the shared counter is
\* the decrements still owed, counted so that an event of the chaos phase may turn
\* out either way.
DrainInv == BarrierInv /\ DrainType /\ (Drain >= Grow + Chaos => in_flight <= Total(owed))

LEMMA NextDrain == DrainInv /\ [RaceNext]_racevars => DrainInv'
<1> SUFFICES ASSUME DrainInv, [RaceNext]_racevars PROVE DrainInv'
  OBVIOUS
<1>0. BarrierInv'
  BY NextBarrier DEF DrainInv
<1>n. Grow \in Nat /\ Chaos \in Nat /\ Drain \in Nat
  BY InFlightAssumption
<1>t. /\ step \in [Machine -> Nat] /\ in_flight \in Nat
      /\ state \in [Machine -> {"Idle", "Racing", "Draining", "Done"}]
      /\ pc \in [Machine -> {"loop", "increment", "barrier"}]
  BY DEF DrainInv, DrainType, BarrierInv, StageType
<1>o. ASSUME Drain >= Grow + Chaos, step' \in [Machine -> Nat]
      PROVE  owed \in [Machine -> Nat] /\ owed' \in [Machine -> Nat]
  BY <1>n, <1>t, <1>o DEF owed, Owed
<1>d. ASSUME NEW m \in Machine, DrainType', step'[m] >= step[m],
             \A k \in Machine : k # m => step'[k] = step[k] /\ (pc'[k] = "increment" <=> pc[k] = "increment"),
             Drain >= Grow + Chaos =>
                 \/ Owed(m)' = Owed(m) /\ in_flight' <= in_flight
                 \/ Owed(m)' = Owed(m) + 1 /\ in_flight' <= in_flight + 1
                 \/ Owed(m) = Owed(m)' + 1 /\ (in_flight' < in_flight \/ in_flight' = 0)
      PROVE  DrainInv'
  <2> SUFFICES ASSUME Drain >= Grow + Chaos PROVE in_flight' <= Total(owed')
    <3>1. Total(owed)' = Total(owed')
      BY DEF Total
    <3> QED
      BY <1>0, <1>d, <3>1 DEF DrainInv
  <2>1. owed \in [Machine -> Nat] /\ owed' \in [Machine -> Nat]
    BY <1>o, <1>d DEF DrainType
  <2>2. owed[m] = Owed(m) /\ owed'[m] = Owed(m)'
    BY DEF owed
  <2>3. \A k \in Machine : k # m => owed'[k] = owed[k]
    BY <1>d DEF owed, Owed
  <2>4. Total(owed) \in Nat /\ Total(owed') \in Nat /\ in_flight <= Total(owed)
        /\ in_flight \in Nat /\ in_flight' \in Nat
    BY <1>d, <2>1, TotalType DEF DrainInv, DrainType
  <2> HIDE DEF owed
  <2>5. CASE Owed(m)' = Owed(m) /\ in_flight' <= in_flight
    <3>1. Total(owed') = Total(owed)
      BY <2>2, <2>3, <2>5, TotalSame
    <3> QED
      BY <2>4, <2>5, <3>1
  <2>6. CASE Owed(m)' = Owed(m) + 1 /\ in_flight' <= in_flight + 1
    <3>1. Total(owed') = Total(owed) + 1
      BY <2>1, <2>2, <2>3, <2>6, TotalUp
    <3> QED
      BY <2>4, <2>6, <3>1
  <2>7. CASE Owed(m) = Owed(m)' + 1 /\ (in_flight' < in_flight \/ in_flight' = 0)
    <3>1. Total(owed) = Total(owed') + 1
      BY <2>1, <2>2, <2>3, <2>7, TotalUp
    <3> QED
      BY <2>4, <2>7, <3>1
  <2> QED
    BY <1>d, <2>5, <2>6, <2>7
<1>1. ASSUME NEW m \in Machine, Begin(m) PROVE DrainInv'
  <2>1. /\ step[m] = 0 /\ pc[m] = "loop" /\ pc' = [pc EXCEPT ![m] = "loop"]
        /\ step' = [step EXCEPT ![m] = @ + 1] /\ state' = [state EXCEPT ![m] = "Racing"]
        /\ UNCHANGED <<in_flight, coordinator>> /\ state[m] = "Idle"
    BY <1>1, <1>t DEF Begin, Starts, Phase, Handled
  <2>2. DrainType'
    BY <1>t, <1>n, <2>1 DEF DrainInv, DrainType
  <2>3. step'[m] = 1 /\ Owed(m)' = Owed(m)
    BY <1>t, <1>n, <2>1 DEF Owed
  <2> QED
    BY <1>t, <1>d, <2>1, <2>2, <2>3
<1>2. ASSUME NEW m \in Machine, Increment(m) PROVE DrainInv'
  <2>1. /\ step[m] \in 1 .. Grow + Chaos /\ pc[m] = "loop" /\ pc' = [pc EXCEPT ![m] = "increment"]
        /\ in_flight' = (in_flight + 1) % Wrap /\ UNCHANGED <<state, step, coordinator>>
    BY <1>2, <1>n DEF Increment, Increments, Phase
  <2>2. in_flight' \in Nat /\ in_flight' <= in_flight + 1
    BY <1>t, <2>1, Wraps
  <2>3. DrainType'
    BY <1>t, <1>n, <2>1, <2>2 DEF DrainInv, DrainType
  <2>4. Owed(m)' = Owed(m) + 1
    BY <1>t, <1>n, <2>1 DEF Owed
  <2> QED
    BY <1>t, <1>d, <2>1, <2>2, <2>3, <2>4
<1>3. ASSUME NEW m \in Machine, IncrementReturns(m) PROVE DrainInv'
  <2>1. /\ step[m] \in 1 .. Grow + Chaos /\ pc[m] = "increment" /\ pc' = [pc EXCEPT ![m] = "loop"]
        /\ step' = [step EXCEPT ![m] = @ + 1] /\ state' = [state EXCEPT ![m] = "Racing"]
        /\ state[m] = "Racing" /\ UNCHANGED <<in_flight, coordinator>>
    BY <1>3, <1>t DEF IncrementReturns, Handled, DrainInv, DrainType, BarrierInv, Arrival
  <2>2. DrainType'
    BY <1>t, <1>n, <2>1 DEF DrainInv, DrainType
  <2>3. Owed(m)' = Owed(m)
    BY <1>t, <1>n, <2>1 DEF Owed
  <2> QED
    BY <1>t, <1>d, <2>1, <2>2, <2>3
<1>4. ASSUME NEW m \in Machine, Decrement(m) PROVE DrainInv'
  <2>1. /\ step[m] \in 1 + Grow .. Grow + Chaos + Drain /\ pc[m] = "loop" /\ pc' = [pc EXCEPT ![m] = "loop"]
        /\ step' = [step EXCEPT ![m] = @ + 1] /\ state' = [state EXCEPT ![m] = "Racing"]
        /\ state[m] = "Racing" /\ UNCHANGED coordinator
        /\ \/ in_flight > 0 /\ in_flight' = in_flight - 1
           \/ in_flight = 0 /\ in_flight' = 0
    BY <1>4, <1>n, <1>t DEF Decrement, Decrements, Phase, Handled
  <2>2. DrainType'
    BY <1>t, <1>n, <2>1 DEF DrainInv, DrainType
  <2>3. Owed(m)' = Owed(m) + 1 \/ Owed(m) = Owed(m)' + 1
    BY <1>t, <1>n, <2>1 DEF Owed
  <2>4. in_flight' <= in_flight + 1 /\ (in_flight' < in_flight \/ in_flight' = 0)
    BY <1>t, <2>1
  <2> QED
    BY <1>t, <1>d, <2>1, <2>2, <2>3, <2>4
<1>5. ASSUME NEW m \in Machine, StartDrain(m) PROVE DrainInv'
  <2>1. /\ step[m] = 1 + Grow + Chaos + Drain /\ pc[m] = "loop" /\ pc' = [pc EXCEPT ![m] = "loop"]
        /\ step' = [step EXCEPT ![m] = @ + 1] /\ state' = [state EXCEPT ![m] = "Draining"]
        /\ state[m] = "Racing" /\ UNCHANGED <<in_flight, coordinator>>
    BY <1>5, <1>n, <1>t DEF StartDrain, Drains, Phase, Handled
  <2>2. DrainType'
    BY <1>t, <1>n, <2>1 DEF DrainInv, DrainType
  <2>3. Owed(m)' = Owed(m)
    BY <1>t, <1>n, <2>1 DEF Owed
  <2> QED
    BY <1>t, <1>d, <2>1, <2>2, <2>3
<1>6. ASSUME NEW m \in Machine, DrainComplete(m) \/ DrainCompleteReturns(m) PROVE DrainInv'
  <2>1. /\ state[m] = "Draining" /\ step[m] > Grow + Chaos + Drain
        /\ pc[m] # "increment" /\ pc'[m] # "increment" /\ \A k \in Machine : k # m => pc'[k] = pc[k]
        /\ step' = step \/ step' = [step EXCEPT ![m] = @ + 1]
        /\ state' = state \/ state' = [state EXCEPT ![m] = "Done"]
        /\ UNCHANGED <<in_flight, coordinator>>
    BY <1>6, <1>t DEF DrainComplete, Completes, Phase, DrainCompleteReturns, Handled, DrainInv, DrainType,
       BarrierInv, Arrival
  <2>2. DrainType'
    BY <1>t, <1>n, <2>1 DEF DrainInv, DrainType
  <2>3. Owed(m)' = Owed(m)
    BY <1>t, <1>n, <2>1 DEF Owed
  <2> QED
    BY <1>t, <1>d, <2>1, <2>2, <2>3
<1>7. CASE Coordinate \/ UNCHANGED racevars
  <2>1. UNCHANGED <<state, pc, step, in_flight>>
    BY <1>7 DEF Coordinate, task, racevars
  <2>2. coordinator' = "judging" => \A m \in Machine : state[m] = "Done"
    BY <1>7 DEF Coordinate, racevars, DrainInv, DrainType
  <2>3. owed' = owed /\ Total(owed)' = Total(owed)
    BY <2>1 DEF owed, Owed, Total
  <2>4. DrainType'
    BY <2>1, <2>2 DEF DrainInv, DrainType
  <2> QED
    BY <1>0, <2>1, <2>3, <2>4 DEF DrainInv
<1> QED
  BY <1>1, <1>2, <1>3, <1>4, <1>5, <1>6, <1>7 DEF RaceNext

\* If every machine drains at least as often as it can have counted up, the
\* coordinator finds the counter at zero in every interleaving (the programs at
\* circle_1:244-276, the coordinator at :305).
THEOREM DrainEmpties == RaceSpec => []DrainsToZero
<1>1. RaceInit => DrainInv
  <2> SUFFICES ASSUME RaceInit PROVE DrainInv
    OBVIOUS
  <2>1. BarrierInv
    BY DEF RaceInit, BarrierInv, StageType, Arrival
  <2>2. DrainType
    BY DEF RaceInit, DrainType
  <2>3. ASSUME Drain >= Grow + Chaos PROVE Total(owed) \in Nat
    <3>1. owed \in [Machine -> Nat]
      BY <2>2, <2>3, InFlightAssumption DEF owed, Owed, DrainType
    <3> QED
      BY <3>1, TotalType
  <2> QED
    BY <2>1, <2>2, <2>3 DEF RaceInit, DrainInv
<1>2. DrainInv => DrainsToZero
  <2> SUFFICES ASSUME DrainInv, Drain >= Grow + Chaos, coordinator = "judging" PROVE in_flight = 0
    BY DEF DrainsToZero
  <2>1. \A m \in Machine : owed[m] = 0
    <3> SUFFICES ASSUME NEW m \in Machine PROVE Owed(m) = 0
      BY DEF owed
    <3>1. state[m] = "Done" /\ step[m] \in Nat /\ step[m] > Grow + Chaos + Drain /\ pc[m] # "increment"
      BY DEF DrainInv, DrainType, BarrierInv, Arrival
    <3> QED
      BY <3>1, InFlightAssumption DEF Owed
  <2>2. Pairs(owed) = {}
    <3>1. \A m \in Machine : 1 .. owed[m] = {}
      BY <2>1
    <3> QED
      BY <3>1 DEF Pairs, PairsOf
  <2>3. Total(owed) = 0
    BY <2>2, FS_EmptySet DEF Total, Pairs, PairsOf
  <2> QED
    BY <2>3 DEF DrainInv, DrainType
<1> QED
  BY <1>1, <1>2, NextDrain, PTL DEF RaceSpec
-----------------------------------------------------------------------------
(***************************************************************************)
(* That the race comes to its end.  Fairness is beyond the prover, but     *)
(* what it has to be told is only this: as long as the coordinator has not *)
(* judged somebody can go on, and no step leaves as much to do as before.  *)
(***************************************************************************)
Rounds == Grow + Chaos + Drain

\* The guards of the actions: who can go on.
MachineCanGo(m) ==
    \/ Starts(m) /\ state[m] = "Idle"
    \/ (Increments(m) \/ Decrements(m) \/ Drains(m)) /\ state[m] = "Racing"
    \/ pc[m] = "increment"
    \/ Completes(m) /\ state[m] = "Draining"
    \/ pc[m] = "barrier" /\ Full
CoordinatorCanGo ==
    \/ Coordinator \notin present
    \/ coordinator = "waiting" /\ Full
    \/ coordinator = "joining" /\ \A m \in Machine : state[m] = "Done"
\* Until the coordinator has come to its judgement, somebody can go on.
NobodyStuck == coordinator # "judging" => CoordinatorCanGo \/ \E m \in Machine : MachineCanGo(m)

\* What is left to do: two steps for an event, one of them done once the handler
\* waits, and the three steps of the coordinator.
StepsLeft(m) == 2 * (Rounds + 3 - step[m]) - (IF pc[m] = "loop" THEN 0 ELSE 1)
steps_left == [m \in Machine |-> StepsLeft(m)]
CoordinatorLeft ==
    IF Coordinator \notin present THEN 3
    ELSE IF coordinator = "waiting" THEN 2
    ELSE IF coordinator = "joining" THEN 1
    ELSE 0
RaceLeft == Total(steps_left) + CoordinatorLeft

\* The state of a machine tells how far its task is in its program, and who waits
\* at the barrier or is done has arrived there.
ProgramType ==
    /\ step \in [Machine -> Nat]
    /\ \A m \in Machine :
          /\ state[m] = "Idle" => step[m] = 0 /\ pc[m] = "loop"
          /\ state[m] = "Racing" => step[m] \in 1 .. Rounds + 1
          /\ state[m] = "Draining" => step[m] = Rounds + 2
          /\ state[m] = "Done" => step[m] = Rounds + 3 /\ pc[m] = "loop"
          /\ pc[m] = "increment" => step[m] \in 1 .. Grow + Chaos
          /\ pc[m] = "barrier" \/ state[m] = "Done" => m \in present
    /\ coordinator \in {"waiting", "joining", "judging"}
    /\ coordinator # "waiting" => Coordinator \in present

ProgramInv == BarrierInv /\ ProgramType

LEMMA RoundsType == Rounds \in Nat /\ Grow \in Nat /\ Chaos \in Nat /\ Drain \in Nat /\ Rounds = Grow + Chaos + Drain
  BY InFlightAssumption DEF Rounds

\* An event that a machine handles: its state, its step and where it waits.
LEMMA HandledProgram ==
    ASSUME ProgramInv, NEW m \in Machine, NEW next \in {"Racing", "Draining", "Done"}, NEW value,
           Handled(m, next, value),
           next = "Racing" => step[m] + 1 \in 1 .. Rounds + 1,
           next = "Draining" => step[m] + 1 = Rounds + 2,
           next = "Done" => step[m] + 1 = Rounds + 3 /\ m \in present,
           UNCHANGED <<present, coordinator>>
    PROVE  ProgramType'
<1>1. /\ state' = [state EXCEPT ![m] = next] /\ pc' = [pc EXCEPT ![m] = "loop"]
      /\ step' = [step EXCEPT ![m] = @ + 1]
  BY DEF Handled
<1>2. /\ state \in [Machine -> {"Idle", "Racing", "Draining", "Done"}]
      /\ pc \in [Machine -> {"loop", "increment", "barrier"}] /\ step \in [Machine -> Nat]
  BY DEF ProgramInv, BarrierInv, StageType, ProgramType
<1>3. state'[m] = next /\ pc'[m] = "loop" /\ step'[m] = step[m] + 1 /\ step' \in [Machine -> Nat]
  BY <1>1, <1>2
<1>4. ASSUME NEW k \in Machine, k # m
      PROVE  state'[k] = state[k] /\ pc'[k] = pc[k] /\ step'[k] = step[k]
  BY <1>1, <1>2, <1>4
<1> QED
  BY <1>3, <1>4 DEF ProgramInv, ProgramType

\* The phase of a program that the next event belongs to.
LEMMA PhaseSteps ==
    ASSUME NEW m \in Machine, step[m] \in Nat
    PROVE  /\ Starts(m) => pc[m] = "loop" /\ step[m] = 0
           /\ Increments(m) => pc[m] = "loop" /\ step[m] \in 1 .. Grow + Chaos
           /\ Decrements(m) => pc[m] = "loop" /\ step[m] \in 1 + Grow .. Rounds
           /\ Drains(m) <=> pc[m] = "loop" /\ step[m] = Rounds + 1
           /\ Completes(m) <=> pc[m] = "loop" /\ step[m] = Rounds + 2
           /\ pc[m] = "loop" /\ step[m] = 0 => Starts(m)
           /\ pc[m] = "loop" /\ step[m] \in 1 .. Rounds => Increments(m) \/ Decrements(m)
  BY RoundsType DEF Phase, Starts, Increments, Decrements, Drains, Completes

LEMMA NextProgram == ProgramInv /\ [RaceNext]_racevars => ProgramInv'
<1> SUFFICES ASSUME ProgramInv, [RaceNext]_racevars PROVE ProgramType'
  BY NextBarrier DEF ProgramInv
<1>t. \A m \in Machine : step[m] \in Nat
  BY DEF ProgramInv, ProgramType
<1>1. ASSUME NEW m \in Machine, Begin(m) PROVE ProgramType'
  <2>1. Handled(m, "Racing", 0) /\ step[m] = 0 /\ UNCHANGED <<present, coordinator>>
    BY <1>1, <1>t, PhaseSteps DEF Begin
  <2> QED
    BY <2>1, RoundsType, HandledProgram
<1>2. ASSUME NEW m \in Machine, Increment(m) PROVE ProgramType'
  <2>1. /\ state[m] = "Racing" /\ step[m] \in 1 .. Grow + Chaos /\ pc' = [pc EXCEPT ![m] = "increment"]
        /\ UNCHANGED <<state, step, present, coordinator>>
    BY <1>2, <1>t, PhaseSteps DEF Increment
  <2> QED
    BY <2>1 DEF ProgramInv, ProgramType, BarrierInv, StageType
<1>3. ASSUME NEW m \in Machine, IncrementReturns(m) PROVE ProgramType'
  <2>1. /\ Handled(m, "Racing", counter[m] + 1) /\ step[m] \in 1 .. Grow + Chaos
        /\ UNCHANGED <<present, coordinator>>
    BY <1>3 DEF IncrementReturns, ProgramInv, ProgramType
  <2> QED
    BY <2>1, RoundsType, HandledProgram
<1>4. ASSUME NEW m \in Machine, Decrement(m) PROVE ProgramType'
  <2>1. PICK value : Handled(m, "Racing", value) /\ UNCHANGED <<present, coordinator>>
    BY <1>4 DEF Decrement
  <2>2. step[m] \in 1 + Grow .. Rounds
    BY <1>4, <1>t, PhaseSteps DEF Decrement
  <2>3. step[m] + 1 \in 1 .. Rounds + 1
    BY <2>2, <1>t, RoundsType
  <2> QED
    BY <2>1, <2>3, HandledProgram
<1>5. ASSUME NEW m \in Machine, StartDrain(m) PROVE ProgramType'
  <2>1. /\ Handled(m, "Draining", counter[m]) /\ step[m] = Rounds + 1
        /\ UNCHANGED <<present, coordinator>>
    BY <1>5, <1>t, PhaseSteps DEF StartDrain
  <2> QED
    BY <2>1, RoundsType, HandledProgram
<1>6. ASSUME NEW m \in Machine, DrainComplete(m) PROVE ProgramType'
  <2>1. /\ state[m] = "Draining" /\ pc' = [pc EXCEPT ![m] = "barrier"] /\ present' = present \cup {m}
        /\ UNCHANGED <<state, step, coordinator>>
    BY <1>6 DEF DrainComplete
  <2> QED
    BY <2>1 DEF ProgramInv, ProgramType, BarrierInv, StageType
<1>7. ASSUME NEW m \in Machine, DrainCompleteReturns(m) PROVE ProgramType'
  <2>1. /\ Handled(m, "Done", counter[m]) /\ pc[m] = "barrier" /\ UNCHANGED <<present, coordinator>>
    BY <1>7 DEF DrainCompleteReturns
  <2>2. step[m] = Rounds + 2 /\ m \in present
    BY <2>1 DEF ProgramInv, ProgramType, BarrierInv, Arrival
  <2> QED
    BY <2>1, <2>2, RoundsType, HandledProgram
<1>8. CASE Coordinate
  <2>1. /\ UNCHANGED <<state, pc, step>> /\ present \subseteq present'
        /\ coordinator' \in {"waiting", "joining", "judging"}
        /\ coordinator' # "waiting" => Coordinator \in present'
    BY <1>8 DEF Coordinate, task, ProgramInv, ProgramType
  <2> QED
    BY <2>1 DEF ProgramInv, ProgramType
<1>9. CASE UNCHANGED racevars
  BY <1>9 DEF racevars, ProgramInv, ProgramType
<1> QED
  BY <1>1, <1>2, <1>3, <1>4, <1>5, <1>6, <1>7, <1>8, <1>9 DEF RaceNext

LEMMA ProgramInvariant == RaceSpec => []ProgramInv
<1>1. RaceInit => ProgramInv
  BY DEF RaceInit, ProgramInv, ProgramType, BarrierInv, StageType, Arrival
<1> QED
  BY <1>1, NextProgram, PTL DEF RaceSpec

\* Until the coordinator has judged some task can go on: nobody waits at the
\* barrier for somebody who does not come, and no machine is sent an event that
\* its state has no row for (circle_1:251-312).
THEOREM RaceNeverStuck == RaceSpec => []NobodyStuck
<1>1. ProgramInv => NobodyStuck
  <2> SUFFICES ASSUME ProgramInv, coordinator # "judging", \A m \in Machine : ~MachineCanGo(m)
               PROVE  CoordinatorCanGo
    BY DEF NobodyStuck
  <2>1. ASSUME NEW m \in Machine PROVE pc[m] = "barrier" \/ state[m] = "Done"
    <3> SUFFICES ASSUME pc[m] # "barrier", state[m] # "Done" PROVE FALSE
      OBVIOUS
    <3>1. /\ pc[m] \in {"loop", "increment"} /\ state[m] \in {"Idle", "Racing", "Draining"}
          /\ step[m] \in Nat
      BY DEF ProgramInv, ProgramType, BarrierInv, StageType
    <3>2. pc[m] = "loop"
      BY <3>1 DEF MachineCanGo
    <3>3. CASE state[m] = "Idle"
      BY <3>1, <3>2, <3>3, PhaseSteps DEF ProgramInv, ProgramType, MachineCanGo
    <3>4. CASE state[m] = "Racing"
      <4>1. step[m] \in 1 .. Rounds \/ step[m] = Rounds + 1
        BY <3>1, <3>4, RoundsType DEF ProgramInv, ProgramType
      <4> QED
        BY <3>1, <3>2, <3>4, <4>1, PhaseSteps DEF MachineCanGo
    <3>5. CASE state[m] = "Draining"
      BY <3>1, <3>2, <3>5, PhaseSteps DEF ProgramInv, ProgramType, MachineCanGo
    <3> QED
      BY <3>1, <3>3, <3>4, <3>5
  <2>2. Machine \subseteq present
    BY <2>1 DEF ProgramInv, ProgramType
  <2> SUFFICES ASSUME Coordinator \in present PROVE CoordinatorCanGo
    BY DEF CoordinatorCanGo
  <2>3. present = Participants
    BY <2>2 DEF ProgramInv, BarrierInv, StageType, Participants
  <2>4. Full
    <3>1. IsFiniteSet(Machine) /\ Coordinator \notin Machine
      BY InFlightAssumption
    <3>2. Cardinality(Machine) \in Nat
      BY <3>1, FS_CardinalityType
    <3>3. Cardinality(Participants) = Cardinality(Machine) + 1
      BY <3>1, FS_AddElement DEF Participants
    <3> QED
      BY <2>3, <3>2, <3>3 DEF Full
  <2>5. \A m \in Machine : state[m] = "Done"
    BY <2>1, <2>4 DEF MachineCanGo
  <2> QED
    BY <2>4, <2>5 DEF CoordinatorCanGo, ProgramInv, ProgramType
<1> QED
  BY <1>1, ProgramInvariant, PTL

\* What is left is a number, before a step and after it.
LEMMA LeftType ==
    ASSUME ProgramInv
    PROVE  steps_left \in [Machine -> Nat] /\ CoordinatorLeft \in Nat /\ Total(steps_left) \in Nat
<1>1. ASSUME NEW m \in Machine PROVE StepsLeft(m) \in Nat
  <2>1. /\ step[m] \in Nat /\ step[m] <= Rounds + 3
        /\ pc[m] # "loop" => step[m] <= Rounds + 2
    BY RoundsType DEF ProgramInv, BarrierInv, StageType, ProgramType, Rounds
  <2> QED
    BY <2>1, RoundsType DEF StepsLeft, Rounds
<1>2. steps_left \in [Machine -> Nat]
  BY <1>1 DEF steps_left
<1>3. CoordinatorLeft \in Nat
  BY DEF CoordinatorLeft
<1> QED
  BY <1>2, <1>3, TotalType

LEMMA LeftTypeNext ==
    ASSUME ProgramInv'
    PROVE  steps_left' \in [Machine -> Nat] /\ CoordinatorLeft' \in Nat /\ Total(steps_left)' \in Nat
<1>1. ASSUME NEW m \in Machine PROVE StepsLeft(m)' \in Nat
  <2>1. /\ step'[m] \in Nat /\ step'[m] <= Rounds + 3
        /\ pc'[m] # "loop" => step'[m] <= Rounds + 2
    BY RoundsType DEF ProgramInv, BarrierInv, StageType, ProgramType, Rounds
  <2> QED
    BY <2>1, RoundsType DEF StepsLeft, Rounds
<1>2. steps_left' \in [Machine -> Nat]
  BY <1>1 DEF steps_left
<1>3. CoordinatorLeft' \in Nat
  BY DEF CoordinatorLeft
<1>4. Total(steps_left)' = Total(steps_left')
  BY DEF Total
<1> QED
  BY <1>2, <1>3, <1>4, TotalType

\* A task has moved on, and the coordinator has not moved.
LEMMA TaskMoved ==
    ASSUME ProgramInv, ProgramInv', NEW m \in Machine,
           \/ step'[m] = step[m] + 1
           \/ step'[m] = step[m] /\ pc[m] = "loop" /\ pc'[m] # "loop",
           \A k \in Machine : k # m => UNCHANGED <<step[k], pc[k]>>,
           CoordinatorLeft' = CoordinatorLeft
    PROVE  RaceLeft' < RaceLeft
<1>1. /\ steps_left \in [Machine -> Nat] /\ CoordinatorLeft \in Nat
      /\ steps_left' \in [Machine -> Nat]
  BY LeftType, LeftTypeNext
<1>2. \A k \in Machine : steps_left[k] = StepsLeft(k) /\ steps_left'[k] = StepsLeft(k)'
  BY DEF steps_left
<1>3. \A k \in Machine : k # m => StepsLeft(k)' = StepsLeft(k)
  BY DEF StepsLeft, Rounds
<1>4. StepsLeft(m)' < StepsLeft(m)
  <2>1. step[m] \in Nat /\ Rounds \in Nat /\ Rounds' = Rounds
    BY RoundsType DEF ProgramInv, ProgramType, Rounds
  <2>2. CASE step'[m] = step[m] + 1
    BY <2>1, <2>2 DEF StepsLeft
  <2>3. CASE step'[m] = step[m] /\ pc[m] = "loop" /\ pc'[m] # "loop"
    BY <2>1, <2>3 DEF StepsLeft
  <2> QED
    BY <2>2, <2>3
<1>5. /\ \A k \in Machine : steps_left'[k] <= steps_left[k]
      /\ \E k \in Machine : steps_left'[k] < steps_left[k]
  BY <1>1, <1>2, <1>3, <1>4
<1>6. Cardinality(PairsOf(Machine, steps_left')) < Cardinality(PairsOf(Machine, steps_left))
  BY <1>1, <1>5, InFlightAssumption, SumDown
<1>7. /\ Total(steps_left) = Cardinality(PairsOf(Machine, steps_left))
      /\ Total(steps_left)' = Cardinality(PairsOf(Machine, steps_left'))
      /\ Total(steps_left) \in Nat /\ Total(steps_left)' \in Nat
  <2>1. Total(steps_left)' = Total(steps_left')
    BY DEF Total
  <2> QED
    BY <1>1, <2>1, TotalType DEF Pairs
<1> QED
  BY <1>1, <1>6, <1>7 DEF RaceLeft

\* Every step, whoever takes it, leaves less to do than there was: the tasks
\* cannot keep each other busy without coming nearer to the end.  With
\* RaceNeverStuck and a runtime that runs what can run, they all join
\* (circle_1:295-312).
LessRace == /\ RaceLeft \in Nat /\ RaceLeft' \in Nat
            /\ RaceLeft' < RaceLeft
EveryStepCounts == [][LessRace]_racevars

\* For every number of machines and of rounds, no step of the race leaves as much to
\* do as there was (circle_1:295-312).
THEOREM RaceRunsDown == RaceSpec => EveryStepCounts
<1>1. ASSUME ProgramInv, [RaceNext]_racevars
      PROVE  [LessRace]_racevars
  <2> SUFFICES ASSUME RaceNext PROVE RaceLeft' < RaceLeft
    <3>1. RaceLeft \in Nat /\ RaceLeft' \in Nat
      BY <1>1, NextProgram, LeftType, LeftTypeNext DEF RaceLeft
    <3> QED
      BY <1>1, <3>1 DEF LessRace
  <2>0. ProgramInv'
    BY <1>1, NextProgram
  <2>t. /\ pc \in [Machine -> {"loop", "increment", "barrier"}] /\ step \in [Machine -> Nat]
    BY <1>1 DEF ProgramInv, BarrierInv, StageType, ProgramType
  <2>1. ASSUME NEW m \in Machine, NEW next, NEW value, Handled(m, next, value),
               UNCHANGED <<present, coordinator>>
        PROVE  RaceLeft' < RaceLeft
    <3>1. step'[m] = step[m] + 1 /\ \A k \in Machine : k # m => UNCHANGED <<step[k], pc[k]>>
      BY <2>1, <2>t DEF Handled
    <3>2. CoordinatorLeft' = CoordinatorLeft
      BY <2>1 DEF CoordinatorLeft
    <3> QED
      BY <1>1, <2>0, <3>1, <3>2, TaskMoved
  <2>2. ASSUME NEW m \in Machine, NEW place \in {"increment", "barrier"}, pc[m] = "loop",
               pc' = [pc EXCEPT ![m] = place], UNCHANGED <<step, coordinator>>,
               present' = present \/ present' = present \cup {m}
        PROVE  RaceLeft' < RaceLeft
    <3>1. /\ step'[m] = step[m] /\ pc'[m] # "loop"
          /\ \A k \in Machine : k # m => UNCHANGED <<step[k], pc[k]>>
      BY <2>2, <2>t
    <3>2. Coordinator \in present' <=> Coordinator \in present
      BY <2>2, InFlightAssumption
    <3>3. CoordinatorLeft' = CoordinatorLeft
      BY <2>2, <3>2 DEF CoordinatorLeft
    <3> QED
      BY <1>1, <2>0, <2>2, <3>1, <3>3, TaskMoved
  <2>3. ASSUME NEW m \in Machine, Begin(m) \/ IncrementReturns(m) \/ Decrement(m) \/ StartDrain(m)
                                    \/ DrainCompleteReturns(m)
        PROVE  RaceLeft' < RaceLeft
    <3>1. \E next, value : Handled(m, next, value) /\ UNCHANGED <<present, coordinator>>
      BY <2>3 DEF Begin, IncrementReturns, Decrement, StartDrain, DrainCompleteReturns
    <3> QED
      BY <2>1, <3>1
  <2>4. ASSUME NEW m \in Machine, Increment(m) PROVE RaceLeft' < RaceLeft
    BY <2>2, <2>4 DEF Increment, Increments, Phase
  <2>5. ASSUME NEW m \in Machine, DrainComplete(m) PROVE RaceLeft' < RaceLeft
    BY <2>2, <2>5 DEF DrainComplete, Completes, Phase
  <2>6. CASE Coordinate
    <3>1. UNCHANGED <<step, pc>>
      BY <2>6 DEF Coordinate, task
    <3>2. Total(steps_left)' = Total(steps_left)
      BY <3>1 DEF Total, steps_left, StepsLeft, Rounds
    <3>3. CoordinatorLeft' < CoordinatorLeft
      BY <1>1, <2>6 DEF Coordinate, CoordinatorLeft, ProgramInv, ProgramType
    <3>4. CoordinatorLeft \in Nat /\ CoordinatorLeft' \in Nat /\ Total(steps_left) \in Nat
      BY <1>1, <2>0, LeftType, LeftTypeNext
    <3> QED
      BY <3>2, <3>3, <3>4 DEF RaceLeft
  <2> QED
    BY <2>3, <2>4, <2>5, <2>6 DEF RaceNext
<1> QED
  BY <1>1, ProgramInvariant, PTL DEF RaceSpec, EveryStepCounts
-----------------------------------------------------------------------------
(***************************************************************************)
(* Circle 2.                                                               *)
(***************************************************************************)
\* What waits in a queue.
In(queue) == {queue[i] : i \in DOMAIN queue}
Distinct(queue) == \A i, j \in DOMAIN queue : queue[i] = queue[j] => i = j

\* Data waits only after it has been sent.
DataSent == IF main = "sent" /\ Data > 0 THEN {"ProcessEvent"} ELSE {}

Local(s, life, places, queues) == stage_state[s] = life /\ at[s] \in places /\ stage_rx[s] \in queues

\* The life of a stage: its state, where its task is and what waits for it.
Lives(s, n) ==
    \/ n = 0  /\ Local(s, "Uninitialized", {"loop"}, {<<"Initialize">>})
    \/ n = 1  /\ Local(s, "Uninitialized", {"initializing"}, {<<>>})
    \/ n = 2  /\ Local(s, "Materializing", {"loop"}, {<<>>})
    \/ n = 3  /\ Local(s, "Materializing", {"loop"}, {<<"MaterializationComplete">>})
    \/ n = 4  /\ Local(s, "Materialized", {"loop"}, {<<>>})
    \/ n = 5  /\ Local(s, "Materialized", {"loop"}, {<<"StartProcessing">>})
    \/ n = 6  /\ Local(s, "Materialized", {"barrier"}, {<<>>})
    \/ n = 7  /\ Local(s, "Running", {"loop"}, Seq(DataSent))
    \/ n = 8  /\ Local(s, "Running", {"draining"}, Seq(DataSent))
    \/ n = 9  /\ Local(s, "Draining", {"loop"}, Seq(DataSent \cup {"DrainComplete"}))
    \/ n = 9  /\ DataSent # {} /\ Local(s, "Draining", {"failed"}, Seq(DataSent \cup {"DrainComplete"}))
    \/ n = 10 /\ Local(s, "Drained", {"done"}, Seq(DataSent \cup {"DrainComplete"}))

\* The stages in got have reported, and each of the others at most once; after
\* the last, the pipeline has sent itself the event that all have.
Reports(rx, type, all, got) ==
    \/ got = Stage /\ rx = <<Msg(all, Pipeline)>>
    \/ got # Stage /\ rx \in Seq({Msg(type, s) : s \in Stage \ got}) /\ Distinct(rx)

Between(age, low, high) == \A s \in Stage : low <= age[s] /\ age[s] <= high

\* Nobody gets two phases ahead of anybody.
InStep(age) ==
    /\ \A s \in Stage : Lives(s, age[s])
    /\ \A s, t \in Stage : age[s] >= 2 => age[t] >= 1
    /\ \A s, t \in Stage : age[s] >= 7 => age[t] >= 6

\* What the channels, the barrier and the spawned tasks hold of a stage.
Messengers(age) ==
    /\ \A s \in Stage : age[s] = 2 <=> [stage |-> s, event |-> "MaterializationComplete"] \in spawned
    /\ \A s \in Stage : [stage |-> s, event |-> "DrainComplete"] \in spawned => age[s] >= 9
    /\ \A s \in Stage : s \in shutdown_rx => age[s] = 7 /\ pipeline_state = "Draining"
    /\ \A s \in Stage : s \in arrived <=> age[s] >= 6
    /\ Pipeline \in arrived <=> pipeline_state \notin {"Initializing", "WaitingForStages"}
    /\ \A s \in Stage : age[s] >= 7 => Pipeline \in arrived

\* What the pipeline's state says of the stages and of its queue.
PipelineAt(age) ==
    \/ /\ pipeline_state = "Initializing" /\ at[Pipeline] = "loop" /\ main = "waiting"
       /\ pipeline_rx = <<Msg("Start", Pipeline)>>
       /\ Between(age, 0, 1) /\ ready_stages = {} /\ drained_stages = {}
    \/ /\ pipeline_state = "WaitingForStages" /\ at[Pipeline] = "loop" /\ main = "waiting"
       /\ Reports(pipeline_rx, "StageReady", "AllStagesReady", ready_stages)
       /\ \A s \in Stage : age[s] = 4 <=> s \in ready_stages \/ Msg("StageReady", s) \in In(pipeline_rx)
       /\ Between(age, 0, 4) /\ drained_stages = {}
    \/ /\ pipeline_state = "Running" /\ at[Pipeline] = "barrier" /\ main = "waiting" /\ pipeline_rx = <<>>
       /\ Between(age, 5, 7) /\ drained_stages = {}
    \/ /\ pipeline_state = "Running" /\ at[Pipeline] = "loop" /\ main = "waiting" /\ pipeline_rx = <<>>
       /\ Between(age, 6, 7) /\ drained_stages = {}
    \/ /\ pipeline_state = "Running" /\ at[Pipeline] = "loop" /\ main = "sent"
       /\ pipeline_rx = <<Msg("BeginShutdown", Pipeline)>>
       /\ Between(age, 7, 7) /\ drained_stages = {}
    \/ /\ pipeline_state = "Draining" /\ at[Pipeline] = "loop" /\ main = "sent"
       /\ Reports(pipeline_rx, "StageDrained", "AllStagesDrained", drained_stages)
       /\ \A s \in Stage : age[s] = 10 <=> s \in drained_stages \/ Msg("StageDrained", s) \in In(pipeline_rx)
       /\ Between(age, 7, 10)
    \/ /\ pipeline_state = "Shutdown" /\ at[Pipeline] = "done" /\ main = "sent" /\ Between(age, 10, 10)

InvWith(age) == TypeOK /\ InStep(age) /\ Messengers(age) /\ PipelineAt(age)

CoordinationInv == \E age \in [Stage -> 0..10] : InvWith(age)

-----------------------------------------------------------------------------
\* The next of a queue in which nothing waits twice does not wait behind itself.
LEMMA Taken ==
    ASSUME NEW S, NEW queue \in Seq(S), queue # <<>>
    PROVE  /\ Tail(queue) \in Seq(S) /\ In(queue) = {Head(queue)} \cup In(Tail(queue))
           /\ Head(queue) \in S
           /\ Distinct(queue) => /\ Distinct(Tail(queue)) /\ Head(queue) \notin In(Tail(queue))
                                 /\ Tail(queue) \in Seq(S \ {Head(queue)})
<1>1. Tail(queue) \in Seq(S) /\ Head(queue) \in S /\ Head(queue) = queue[1] /\ 1 \in DOMAIN queue
  OBVIOUS
<1>2. \A i \in DOMAIN Tail(queue) : i + 1 \in DOMAIN queue /\ Tail(queue)[i] = queue[i + 1]
  OBVIOUS
<1>3. \A i \in DOMAIN queue : i = 1 \/ (i - 1 \in DOMAIN Tail(queue) /\ Tail(queue)[i - 1] = queue[i])
  OBVIOUS
<1> DEFINE head == Head(queue)  tail == Tail(queue)
<1>4. In(queue) = {head} \cup In(tail)
  <2> HIDE DEF head, tail
  <2>1. \A x \in In(queue) : x = head \/ x \in In(tail)
    BY <1>1, <1>3 DEF In, head, tail
  <2>2. \A x \in In(tail) : x \in In(queue)
    BY <1>2 DEF In, tail
  <2>3. head \in In(queue)
    BY <1>1 DEF In, head
  <2> QED
    BY <2>1, <2>2, <2>3
<1>5. ASSUME Distinct(queue)
      PROVE  /\ Distinct(Tail(queue)) /\ Head(queue) \notin In(Tail(queue))
             /\ Tail(queue) \in Seq(S \ {Head(queue)})
  <2>0. DOMAIN Tail(queue) \subseteq Nat \ {0}
    OBVIOUS
  <2>1. Distinct(Tail(queue))
    <3> SUFFICES ASSUME NEW i \in DOMAIN Tail(queue), NEW j \in DOMAIN Tail(queue), Tail(queue)[i] = Tail(queue)[j]
                 PROVE  i = j
      BY DEF Distinct
    <3>1. i + 1 = j + 1
      BY <1>2, <1>5 DEF Distinct
    <3> QED
      BY <3>1, <2>0
  <2>2. \A i \in DOMAIN Tail(queue) : Tail(queue)[i] # Head(queue)
    <3> SUFFICES ASSUME NEW i \in DOMAIN Tail(queue), Tail(queue)[i] = Head(queue) PROVE FALSE
      OBVIOUS
    <3>1. i + 1 = 1
      BY <1>1, <1>2, <1>5 DEF Distinct
    <3> QED
      BY <3>1, <2>0
  <2>3. Tail(queue) \in Seq(S \ {Head(queue)})
    <3>1. tail \in Seq(S) /\ DOMAIN tail = 1..Len(tail) /\ Len(tail) \in Nat
      BY <1>1 DEF tail
    <3>2. \A i \in DOMAIN tail : tail[i] # head
      BY <2>2 DEF tail, head
    <3> HIDE DEF tail, head
    <3>3. tail \in Seq(S \ {head})
      BY <3>1, <3>2
    <3> QED
      BY <3>3 DEF tail, head
  <2> QED
    BY <2>1, <2>2, <2>3 DEF In
<1> QED
  BY <1>1, <1>4, <1>5

LEMMA Sent ==
    ASSUME NEW S, NEW queue \in Seq(S), NEW m \in S, m \notin In(queue), Distinct(queue)
    PROVE  /\ Append(queue, m) \in Seq(S) /\ Distinct(Append(queue, m))
           /\ In(Append(queue, m)) = In(queue) \cup {m}
<1>1. /\ Append(queue, m) \in Seq(S)
      /\ DOMAIN Append(queue, m) = DOMAIN queue \cup {Len(queue) + 1}
      /\ \A i \in DOMAIN queue : Append(queue, m)[i] = queue[i]
      /\ Append(queue, m)[Len(queue) + 1] = m
  OBVIOUS
<1> QED
  BY <1>1 DEF In, Distinct

\* The barrier counts as many as there are tasks.
LEMMA Barrier ==
    ASSUME arrived \subseteq Task
    PROVE  BarrierFull <=> arrived = Task
<1> USE CoordinationAssumption
<1>1. IsFiniteSet(Task) /\ Cardinality(Task) = Cardinality(Stage) + 1
  BY FS_AddElement DEF Task
<1>2. IsFiniteSet(arrived) /\ Cardinality(arrived) <= Cardinality(Task)
      /\ (Cardinality(arrived) = Cardinality(Task) => arrived = Task)
  BY <1>1, FS_Subset
<1>3. Cardinality(arrived) \in Nat /\ Cardinality(Stage) \in Nat
  BY <1>2, FS_CardinalityType
<1> QED
  BY <1>1, <1>2, <1>3 DEF BarrierFull

LEMMA Apart == \A s \in Stage : s # Pipeline /\ s \in Task
  BY CoordinationAssumption DEF Task

\* When nobody can go on without a timer, every stage is at one of four places.
LEMMA WhenIdle ==
    ASSUME NEW age \in [Stage -> 0..10], InvWith(age), Idle
    PROVE  /\ \A s \in Stage : age[s] \notin {0, 3, 5}
           /\ at[Pipeline] = "loop" => pipeline_rx = <<>>
           /\ arrived = Task => at[Pipeline] # "barrier" /\ \A s \in Stage : age[s] # 6
<1>1. ASSUME NEW s \in Stage, age[s] \in {0, 3, 5} PROVE FALSE
  <2>1. at[s] = "loop" /\ stage_rx[s] # <<>>
    BY <1>1 DEF InvWith, InStep, Lives, Local
  <2> QED
    BY <2>1, Apart DEF Idle, CanRun
<1>2. at[Pipeline] = "loop" => pipeline_rx = <<>>
  BY DEF Idle, CanRun, Task
<1>3. ASSUME arrived = Task PROVE at[Pipeline] # "barrier" /\ \A s \in Stage : age[s] # 6
  <2>1. BarrierFull
    BY <1>3, Barrier
  <2>2. \A t \in Task : at[t] # "barrier"
    BY <2>1 DEF Idle, CanRun
  <2>3. \A s \in Stage : age[s] = 6 => at[s] = "barrier"
    BY DEF InvWith, InStep, Lives, Local
  <2> QED
    BY <2>2, <2>3, Apart DEF Task
<1> QED
  BY <1>1, <1>2, <1>3
-----------------------------------------------------------------------------
\* A stage moves on from one place of its life to another, the other stages stay.
LEMMA StageMoves ==
    ASSUME NEW age \in [Stage -> 0..10], InStep(age), NEW s \in Stage, NEW n \in 0..10, age[s] <= n,
           n >= 2 => \A t \in Stage : t # s => age[t] >= 1,
           n >= 7 => \A t \in Stage : t # s => age[t] >= 6,
           Lives(s, n)', UNCHANGED main,
           \A t \in Stage : t # s => UNCHANGED <<stage_state[t], at[t], stage_rx[t]>>
    PROVE  InStep([age EXCEPT ![s] = n])'
<1> DEFINE next == [age EXCEPT ![s] = n]
<1>1. next[s] = n /\ \A t \in Stage : t # s => next[t] = age[t]
  OBVIOUS
<1>2. \A t \in Stage : next[t] \in 0..10 /\ age[t] \in 0..10
  OBVIOUS
<1> HIDE DEF next
<1>3. \A t \in Stage : Lives(t, next[t])'
  <2> SUFFICES ASSUME NEW t \in Stage, t # s PROVE Lives(t, age[t])'
    BY <1>1
  <2> QED
    BY DEF InStep, Lives, Local, DataSent
<1>4. \A t, u \in Stage : next[t] >= 2 => next[u] >= 1
  BY <1>1, <1>2 DEF InStep
<1>5. \A t, u \in Stage : next[t] >= 7 => next[u] >= 6
  BY <1>1, <1>2 DEF InStep
<1> QED
  BY <1>3, <1>4, <1>5 DEF InStep, next

\* It moves on between two reports, within what the pipeline has allowed.
LEMMA PipelineStays ==
    ASSUME NEW age \in [Stage -> 0..10], PipelineAt(age), NEW s \in Stage, NEW n \in 0..10, age[s] <= n,
           age[s] = 4 <=> n = 4, age[s] = 10 <=> n = 10,
           pipeline_state = "Initializing" => n <= 1,
           pipeline_state = "WaitingForStages" => n <= 4,
           pipeline_state = "Running" => n <= 7,
           UNCHANGED <<pipeline_state, pipeline_rx, ready_stages, drained_stages, main, at[Pipeline]>>
    PROVE  PipelineAt([age EXCEPT ![s] = n])'
<1> DEFINE next == [age EXCEPT ![s] = n]
<1>1. next[s] = n /\ \A t \in Stage : t # s => next[t] = age[t]
  OBVIOUS
<1>2. \A t \in Stage : next[t] \in 0..10 /\ age[t] \in 0..10
  OBVIOUS
<1> HIDE DEF next
<1>3. \A t \in Stage : age[t] <= next[t] /\ (age[t] = 4 <=> next[t] = 4) /\ (age[t] = 10 <=> next[t] = 10)
  BY <1>1, <1>2
<1>4. ASSUME NEW low \in 0..10, NEW high \in 0..10, n <= high, Between(age, low, high)
      PROVE  Between(next, low, high)
  BY <1>1, <1>2, <1>3, <1>4 DEF Between
<1>5. Reports(pipeline_rx, "StageReady", "AllStagesReady", ready_stages) =>
        Reports(pipeline_rx, "StageReady", "AllStagesReady", ready_stages)'
  BY DEF Reports
<1>6. Reports(pipeline_rx, "StageDrained", "AllStagesDrained", drained_stages) =>
        Reports(pipeline_rx, "StageDrained", "AllStagesDrained", drained_stages)'
  BY DEF Reports
<1>7. \A low, high \in {0, 1, 4, 5, 6, 7, 10} : n <= high /\ Between(age, low, high) => Between(next, low, high)'
  BY <1>4 DEF Between
<1> HIDE DEF Between
<1>8. PipelineAt(next)'
  BY <1>3, <1>5, <1>6, <1>7 DEF PipelineAt
<1> QED
  BY <1>8 DEF next
-----------------------------------------------------------------------------
Places == {"loop", "initializing", "barrier", "draining", "done", "failed"}
Message == [type : {r[2] : r \in PipelineRows}, id : Task]

LEMMA Typed ==
    /\ {"Initialize", "MaterializationComplete", "StartProcessing", "ProcessEvent", "DrainComplete"}
          \subseteq StageEvents \ {"BeginDrain"}
    /\ {"Uninitialized", "Materializing", "Materialized", "Running", "Draining", "Drained"} \subseteq StageStates
    /\ {"Initializing", "WaitingForStages", "Running", "Draining", "Shutdown"} \subseteq PipelineStates
    /\ \A s \in Task : \A type \in {"Start", "StageReady", "AllStagesReady", "BeginShutdown", "StageDrained", "AllStagesDrained"} :
          Msg(type, s) \in Message
  BY DEF StageEvents, StageRows, StageStates, PipelineStates, PipelineRows, Message, Msg

LEMMA TypeNext ==
    ASSUME TypeOK, [Next]_vars,
           PipelineTakes("StageReady") \/ PipelineTakes("StageDrained") => Head(pipeline_rx).id \in Stage
    PROVE  TypeOK'
<1> DEFINE Events == StageEvents \ {"BeginDrain"}
           Spawns == [stage : Stage, event : {"MaterializationComplete", "DrainComplete"}]
<1>0. /\ pipeline_rx \in Seq(Message) /\ stage_state \in [Stage -> StageStates]
      /\ stage_rx \in [Stage -> Seq(Events)] /\ at \in [Task -> Places]
      /\ pipeline_state \in PipelineStates /\ main \in {"waiting", "sent"}
      /\ spawned \subseteq Spawns
      /\ shutdown_rx \subseteq Stage /\ ready_stages \subseteq Stage /\ drained_stages \subseteq Stage
      /\ arrived \subseteq Task
  BY DEF TypeOK, Message, Places
<1> SUFFICES /\ pipeline_rx' \in Seq(Message) /\ stage_state' \in [Stage -> StageStates]
             /\ stage_rx' \in [Stage -> Seq(Events)] /\ at' \in [Task -> Places]
             /\ pipeline_state' \in PipelineStates /\ main' \in {"waiting", "sent"}
             /\ spawned' \subseteq Spawns
             /\ shutdown_rx' \subseteq Stage /\ ready_stages' \subseteq Stage /\ drained_stages' \subseteq Stage
             /\ arrived' \subseteq Task
  BY DEF TypeOK, Message, Places
<1> HIDE DEF Events, Spawns
<1>e. {"Initialize", "MaterializationComplete", "StartProcessing", "ProcessEvent", "DrainComplete"} \subseteq Events
  BY Typed DEF Events
<1>p. {"Initializing", "WaitingForStages", "Running", "Draining", "Shutdown"} \subseteq PipelineStates
  BY Typed
<1>a. pipeline_rx # <<>> => Tail(pipeline_rx) \in Seq(Message)
  BY <1>0
<1>b. /\ \A s \in Stage : stage_rx[s] # <<>> => Tail(stage_rx[s]) \in Seq(Events)
      /\ \A s \in Stage : \A e \in Events : Append(stage_rx[s], e) \in Seq(Events)
  <2> SUFFICES ASSUME NEW s \in Stage
               PROVE  /\ stage_rx[s] # <<>> => Tail(stage_rx[s]) \in Seq(Events)
                      /\ \A e \in Events : Append(stage_rx[s], e) \in Seq(Events)
    OBVIOUS
  <2>1. stage_rx[s] \in Seq(Events)
    BY <1>0
  <2> QED
    BY <2>1
<1>1. CASE Start \/ BeginShutdown
  <2>1. pipeline_rx' = Tail(pipeline_rx) /\ pipeline_rx # <<>>
    BY <1>1 DEF Start, BeginShutdown, PipelineTakes
  <2>2. pipeline_state' \in PipelineStates
    BY <1>1, <1>p DEF Start, BeginShutdown
  <2> QED
    BY <1>0, <1>1, <1>a, <2>1, <2>2 DEF Start, BeginShutdown
<1>2. CASE StageReady \/ StageDrained
  <2>1. ASSUME NEW last \in BOOLEAN, NEW m \in Message, pipeline_rx # <<>>
        PROVE  Tail(pipeline_rx) \o (IF last THEN <<m>> ELSE <<>>) \in Seq(Message)
    BY <1>0, <2>1
  <2>2. Pipeline \in Task
    BY DEF Task
  <2>3. pipeline_rx' \in Seq(Message)
    BY <1>2, <2>1, <2>2, Typed DEF StageReady, StageDrained, PipelineTakes, Complete
  <2>4. ready_stages' \subseteq Stage /\ drained_stages' \subseteq Stage
    BY <1>0, <1>2 DEF StageReady, StageDrained, PipelineTakes
  <2> QED
    BY <1>0, <1>2, <2>3, <2>4 DEF StageReady, StageDrained
<1>3. CASE AllStagesReady
  <2>1. stage_rx' \in [Stage -> Seq(Events)]
    BY <1>b, <1>e, <1>3 DEF AllStagesReady
  <2>2. pipeline_rx' \in Seq(Message) /\ pipeline_state' \in PipelineStates
    BY <1>a, <1>p, <1>3 DEF AllStagesReady, PipelineTakes
  <2>3. at' \in [Task -> Places] /\ arrived' \subseteq Task
    BY <1>0, <1>3 DEF AllStagesReady, Places, Task
  <2> QED
    BY <1>0, <1>3, <2>1, <2>2, <2>3 DEF AllStagesReady
<1>4. CASE AllStagesDrained
  <2>1. pipeline_rx' \in Seq(Message) /\ pipeline_state' \in PipelineStates
    BY <1>a, <1>p, <1>4 DEF AllStagesDrained, PipelineTakes
  <2>2. at' \in [Task -> Places]
    BY <1>0, <1>4 DEF AllStagesDrained, Places
  <2> QED
    BY <1>0, <1>4, <2>1, <2>2 DEF AllStagesDrained
<1>5. CASE PipelineLeavesBarrier
  BY <1>0, <1>5 DEF PipelineLeavesBarrier, Places
<1>6. ASSUME NEW s \in Stage, StageStep(s) PROVE TypeOK'
  <2>1. ASSUME NEW event, StageTakes(s, event)
        PROVE  stage_rx' \in [Stage -> Seq(Events)] /\ shutdown_rx' \subseteq Stage
    BY <1>0, <1>b, <2>1 DEF StageTakes
  <2>2. ASSUME NEW event, NEW place \in Places, HandlerAwaits(s, event, place) PROVE TypeOK'
    BY <1>0, <2>1, <2>2, Apart DEF HandlerAwaits, StageHandles, Elsewhere, TypeOK, Message, Places, Events, Spawns
  <2>3. ASSUME NEW place, NEW next_state \in StageStates, NEW more, more \subseteq Spawns,
               HandlerReturns(s, place, next_state, more)
        PROVE  TypeOK'
    BY <1>0, <2>3 DEF HandlerReturns, Elsewhere, TypeOK, Message, Places, Events, Spawns
  <2>4. ASSUME NEW event, NEW next_state \in StageStates, NEW report \in {"StageReady", "StageDrained"}, NEW place \in Places,
               Report(s, event, next_state, report, place)
        PROVE  TypeOK'
    <3>1. Msg(report, s) \in Message
      BY Typed, Apart
    <3>2. pipeline_rx' \in Seq(Message)
      BY <1>0, <2>4, <3>1 DEF Report
    <3> QED
      BY <1>0, <2>1, <2>4, <3>2 DEF Report, StageHandles, Elsewhere, TypeOK, Message, Places, Events, Spawns
  <2>5. ASSUME NEW event, StageFails(s, event) PROVE TypeOK'
    BY <1>0, <2>1, <2>5 DEF StageFails, Elsewhere, TypeOK, Message, Places, Events, Spawns
  <2>6. CASE ProcessEvent(s)
    BY <1>0, <2>1, <2>6 DEF ProcessEvent, StageHandles, Elsewhere, TypeOK, Message, Places, Events, Spawns
  <2>7. {[stage |-> s, event |-> "MaterializationComplete"]} \subseteq Spawns
        /\ {[stage |-> s, event |-> "DrainComplete"]} \subseteq Spawns
    BY DEF Spawns
  <2> QED
    BY <1>6, <2>2, <2>3, <2>4, <2>5, <2>6, <2>7, Typed
    DEF StageStep, Initialize, Initialized, StartProcessing, Started, BeginDrain, Drained, Materialize, FinishDrain, Places
<1>7. ASSUME NEW k \in spawned, SpawnedSends(k) PROVE TypeOK'
  <2>1. k.stage \in Stage /\ k.event \in Events
    BY <1>0, <1>e DEF Spawns
  <2>2. stage_rx' \in [Stage -> Seq(Events)]
    <3>1. Append(stage_rx[k.stage], k.event) \in Seq(Events)
      BY <1>b, <2>1
    <3>2. CASE at[k.stage] = "failed"
      BY <1>0, <1>7, <3>2 DEF SpawnedSends
    <3>3. CASE at[k.stage] # "failed"
      <4>1. stage_rx' = [stage_rx EXCEPT ![k.stage] = Append(stage_rx[k.stage], k.event)]
        BY <1>7, <3>3 DEF SpawnedSends
      <4> QED
        BY <1>0, <3>1, <4>1
    <3> QED
      BY <3>2, <3>3
  <2> QED
    BY <1>0, <1>7, <2>2 DEF SpawnedSends, TypeOK, Message, Places, Events, Spawns
<1>8. CASE MainSends
  <2>1. [i \in 1..Data |-> "ProcessEvent"] \in Seq(Events)
    BY <1>e, CoordinationAssumption
  <2>2. stage_rx' \in [Stage -> Seq(Events)]
    BY <1>0, <1>8, <2>1 DEF MainSends
  <2>3. Msg("BeginShutdown", Pipeline) \in Message
    BY Typed DEF Task
  <2> QED
    <3> HIDE <1>8
    <3>1. Append(pipeline_rx, Msg("BeginShutdown", Pipeline)) \in Seq(Message)
      BY <1>0, <2>3
    <3> QED
      BY <1>0, <1>8, <2>2, <3>1 DEF MainSends
<1>9. CASE UNCHANGED vars
  BY <1>0, <1>9 DEF vars
<1> QED
  BY <1>1, <1>2, <1>3, <1>4, <1>5, <1>6, <1>7, <1>8, <1>9 DEF Next, PipelineStep, TypeOK, Message, Places, Events, Spawns
-----------------------------------------------------------------------------
\* What a stage can take, by the place of its life.
LEMMA WhatAStageTakes ==
    ASSUME NEW age \in [Stage -> 0..10], InvWith(age), NEW s \in Stage, NEW event, StageTakes(s, event)
    PROVE  \/ event = "Initialize" /\ age[s] = 0
           \/ event = "MaterializationComplete" /\ age[s] = 3
           \/ event = "StartProcessing" /\ age[s] = 5
           \/ event = "BeginDrain" /\ age[s] = 7
           \/ event = "ProcessEvent" /\ age[s] \in {7, 9} /\ DataSent = {"ProcessEvent"}
           \/ event = "DrainComplete" /\ age[s] = 9
<1>1. Lives(s, age[s])
  BY DEF InvWith, InStep
<1>2. CASE event = "BeginDrain"
  BY <1>2 DEF StageTakes, InvWith, Messengers
<1>3. CASE event # "BeginDrain"
  <2>1. at[s] = "loop" /\ stage_rx[s] # <<>> /\ Head(stage_rx[s]) = event
    BY <1>3 DEF StageTakes
  <2>2. CASE age[s] \in 0..6
    BY <1>1, <2>1, <2>2 DEF Lives, Local
  <2>3. CASE age[s] \in {7, 8}
    <3>1. age[s] = 7 /\ stage_rx[s] \in Seq(DataSent)
      BY <1>1, <2>1, <2>3 DEF Lives, Local
    <3>2. event \in DataSent
      BY <2>1, <3>1
    <3> QED
      BY <3>1, <3>2 DEF DataSent
  <2>4. CASE age[s] \in {9, 10}
    <3>1. age[s] = 9 /\ stage_rx[s] \in Seq(DataSent \cup {"DrainComplete"})
      BY <1>1, <2>1, <2>4 DEF Lives, Local
    <3>2. event \in DataSent \cup {"DrainComplete"}
      BY <2>1, <3>1
    <3> QED
      BY <3>1, <3>2 DEF DataSent
  <2> QED
    BY <2>2, <2>3, <2>4
<1> QED
  BY <1>2, <1>3

\* A stage may move on to n, between two reports.
MayMove(age, s, n) ==
    /\ age[s] <= n /\ (age[s] = 4 <=> n = 4) /\ (age[s] = 10 <=> n = 10)
    /\ n >= 2 => \A t \in Stage : t # s => age[t] >= 1
    /\ n >= 7 => \A t \in Stage : t # s => age[t] >= 6
    /\ pipeline_state = "Initializing" => n <= 1
    /\ pipeline_state = "WaitingForStages" => n <= 4
    /\ pipeline_state = "Running" => n <= 7
Alone(s) ==
    /\ UNCHANGED <<pipeline_state, pipeline_rx, ready_stages, drained_stages, main, at[Pipeline]>>
    /\ \A t \in Stage : t # s => UNCHANGED <<stage_state[t], at[t], stage_rx[t]>>

\* A stage moves on and reports nothing: only the channels are left to look at.
LEMMA StageAlone ==
    ASSUME NEW age \in [Stage -> 0..10], InvWith(age), TypeOK', NEW s \in Stage, NEW n \in 0..10,
           MayMove(age, s, n), Alone(s), Lives(s, n)', Messengers([age EXCEPT ![s] = n])'
    PROVE  CoordinationInv'
<1>1. InStep([age EXCEPT ![s] = n])'
  BY StageMoves DEF InvWith, MayMove, Alone
<1>2. PipelineAt([age EXCEPT ![s] = n])'
  BY PipelineStays DEF InvWith, MayMove, Alone
<1>3. [age EXCEPT ![s] = n] \in [Stage -> 0..10]
  OBVIOUS
<1> QED
  BY <1>1, <1>2, <1>3 DEF InvWith, CoordinationInv
-----------------------------------------------------------------------------
\* Where the ages of the stages are, by the state of the pipeline.
LEMMA Bounds ==
    ASSUME NEW age \in [Stage -> 0..10], InvWith(age), NEW s \in Stage
    PROVE  /\ age[s] \in 0..10
           /\ pipeline_state = "Initializing" => age[s] <= 1 /\ at[Pipeline] = "loop" /\ pipeline_rx # <<>>
           /\ pipeline_state = "WaitingForStages" => age[s] <= 4
           /\ pipeline_state = "Running" => age[s] \in 5..7
           /\ pipeline_state = "Draining" => age[s] \in 7..10
           /\ pipeline_state = "Shutdown" => age[s] = 10
           /\ pipeline_state \in {"Initializing", "WaitingForStages", "Running", "Draining", "Shutdown"}
<1>1. /\ pipeline_state = "Initializing" => Between(age, 0, 1) /\ at[Pipeline] = "loop" /\ pipeline_rx # <<>>
      /\ pipeline_state = "WaitingForStages" => Between(age, 0, 4)
      /\ pipeline_state = "Running" => Between(age, 5, 7) \/ Between(age, 6, 7) \/ Between(age, 7, 7)
      /\ pipeline_state = "Draining" => Between(age, 7, 10)
      /\ pipeline_state = "Shutdown" => Between(age, 10, 10)
      /\ pipeline_state \in {"Initializing", "WaitingForStages", "Running", "Draining", "Shutdown"}
  <2>1. <<Msg("Start", Pipeline)>> # <<>>
    OBVIOUS
  <2> QED
    BY <2>1 DEF InvWith, PipelineAt
<1> QED
  BY <1>1 DEF Between

LEMMA StageAwaits ==
    ASSUME NEW age \in [Stage -> 0..10], InvWith(age), TypeOK', NEW s \in Stage,
           Initialize(s) \/ StartProcessing(s) \/ BeginDrain(s)
    PROVE  CoordinationInv'
<1>0. /\ \A t \in Task : t # s => at'[t] = at[t]
      /\ \A t \in Stage : t # s => stage_rx'[t] = stage_rx[t]
      /\ UNCHANGED <<stage_state, pipeline_rx, spawned, pipeline_state, ready_stages, drained_stages, main>>
  BY DEF Initialize, StartProcessing, BeginDrain, HandlerAwaits, StageHandles, StageTakes, Elsewhere, TypeOK, InvWith
<1>1. s # Pipeline /\ s \in Task /\ Alone(s)
  BY Apart, <1>0 DEF Task, Alone
<1>2. Lives(s, age[s]) /\ \A t \in Stage : age[t] \in 0..10
  BY DEF InvWith, InStep
<1> SUFFICES \E n \in 0..10 : MayMove(age, s, n) /\ Lives(s, n)' /\ Messengers([age EXCEPT ![s] = n])'
  BY <1>1, StageAlone
<1>3. CASE Initialize(s)
  <2>1. age[s] = 0 /\ stage_rx' = [stage_rx EXCEPT ![s] = Tail(@)] /\ UNCHANGED <<shutdown_rx, arrived>>
        /\ at' = [at EXCEPT ![s] = "initializing"]
    BY <1>3, WhatAStageTakes DEF Initialize, HandlerAwaits, StageHandles, StageTakes
  <2>2. Lives(s, 1)'
    <3>1. stage_rx[s] = <<"Initialize">> /\ stage_state[s] = "Uninitialized"
      BY <1>2, <2>1 DEF Lives, Local
    <3>2. stage_rx'[s] = <<>> /\ at'[s] = "initializing"
      BY <1>1, <2>1, <3>1 DEF TypeOK, InvWith
    <3> QED
      BY <1>0, <3>1, <3>2 DEF Lives, Local
  <2>3. Messengers([age EXCEPT ![s] = 1])'
    BY <1>0, <1>2, <2>1 DEF InvWith, Messengers
  <2>4. MayMove(age, s, 1)
    BY <2>1 DEF MayMove
  <2> WITNESS 1 \in 0..10
  <2> QED
    BY <2>2, <2>3, <2>4
<1>4. CASE StartProcessing(s)
  <2>1. age[s] = 5 /\ stage_rx' = [stage_rx EXCEPT ![s] = Tail(@)] /\ UNCHANGED shutdown_rx
        /\ arrived' = arrived \cup {s} /\ at' = [at EXCEPT ![s] = "barrier"]
    BY <1>4, WhatAStageTakes DEF StartProcessing, HandlerAwaits, StageHandles, StageTakes
  <2>2. Lives(s, 6)'
    <3>1. stage_rx[s] = <<"StartProcessing">> /\ stage_state[s] = "Materialized"
      BY <1>2, <2>1 DEF Lives, Local
    <3>2. stage_rx'[s] = <<>> /\ at'[s] = "barrier"
      BY <1>1, <2>1, <3>1 DEF TypeOK, InvWith
    <3> QED
      BY <1>0, <3>1, <3>2 DEF Lives, Local
  <2>3. Messengers([age EXCEPT ![s] = 6])'
    BY <1>0, <1>1, <1>2, <2>1 DEF InvWith, Messengers
  <2>4. pipeline_state = "Running" /\ \A t \in Stage : t # s => age[t] >= 1
    <3>1. \A t \in Stage : age[t] >= 1
      BY <2>1, <1>2 DEF InvWith, InStep
    <3> QED
      BY <2>1, <3>1, Bounds
  <2>5. MayMove(age, s, 6)
    BY <2>1, <2>4 DEF MayMove
  <2> WITNESS 6 \in 0..10
  <2> QED
    BY <2>2, <2>3, <2>5
<1>5. CASE BeginDrain(s)
  <2>1. age[s] = 7 /\ s \in shutdown_rx /\ shutdown_rx' = shutdown_rx \ {s} /\ UNCHANGED <<stage_rx, arrived>>
        /\ at' = [at EXCEPT ![s] = "draining"]
    <3>1. StageTakes(s, "BeginDrain") /\ UNCHANGED arrived /\ at' = [at EXCEPT ![s] = "draining"]
      BY <1>5 DEF BeginDrain, HandlerAwaits, StageHandles
    <3>2. s \in shutdown_rx /\ shutdown_rx' = shutdown_rx \ {s} /\ UNCHANGED stage_rx
      BY <3>1 DEF StageTakes
    <3>3. age[s] = 7
      BY <3>2 DEF InvWith, Messengers
    <3> QED
      BY <3>1, <3>2, <3>3
  <2>2. Lives(s, 8)'
    <3>1. stage_rx[s] \in Seq(DataSent) /\ stage_state[s] = "Running"
      BY <1>2, <2>1 DEF Lives, Local
    <3>2. at'[s] = "draining" /\ DataSent' = DataSent
      BY <1>0, <1>1, <2>1, <3>1 DEF TypeOK, InvWith, DataSent
    <3> QED
      BY <1>0, <2>1, <3>1, <3>2 DEF Lives, Local
  <2>3. Messengers([age EXCEPT ![s] = 8])'
    BY <1>0, <1>1, <1>2, <2>1 DEF InvWith, Messengers
  <2>4. pipeline_state = "Draining" /\ \A t \in Stage : t # s => age[t] >= 1 /\ age[t] >= 6
    BY <2>1, <1>2 DEF InvWith, InStep, Messengers
  <2>5. MayMove(age, s, 8)
    BY <2>1, <2>4 DEF MayMove
  <2> WITNESS 8 \in 0..10
  <2> QED
    BY <2>2, <2>3, <2>5
<1> QED
  BY <1>3, <1>4, <1>5

LEMMA StageReturns ==
    ASSUME NEW age \in [Stage -> 0..10], InvWith(age), TypeOK', NEW s \in Stage,
           Initialized(s) \/ Started(s) \/ Drained(s)
    PROVE  CoordinationInv'
<1>0. /\ \A t \in Task : t # s => at'[t] = at[t]
      /\ \A t \in Stage : t # s => stage_state'[t] = stage_state[t]
      /\ at'[s] = "loop"
      /\ UNCHANGED <<stage_rx, shutdown_rx, pipeline_rx, arrived, pipeline_state, ready_stages, drained_stages, main>>
  BY Apart DEF Initialized, Started, Drained, HandlerReturns, Elsewhere, TypeOK, InvWith
<1>1. s # Pipeline /\ s \in Task /\ Alone(s) /\ DataSent' = DataSent
  BY Apart, <1>0 DEF Task, Alone, DataSent
<1>2. Lives(s, age[s]) /\ \A t \in Stage : age[t] \in 0..10
  BY DEF InvWith, InStep
<1> SUFFICES \E n \in 0..10 : MayMove(age, s, n) /\ Lives(s, n)' /\ Messengers([age EXCEPT ![s] = n])'
  BY <1>1, StageAlone
<1>3. CASE Initialized(s)
  <2> DEFINE k == [stage |-> s, event |-> "MaterializationComplete"]
  <2>1. at[s] = "initializing" /\ stage_state'[s] = "Materializing" /\ spawned' = spawned \cup {k} /\ Idle
    BY <1>3 DEF Initialized, HandlerReturns, TypeOK, InvWith
  <2>2. age[s] = 1 /\ stage_rx[s] = <<>>
    BY <1>2, <2>1 DEF Lives, Local
  <2>3. Lives(s, 2)'
    BY <1>0, <2>1, <2>2 DEF Lives, Local
  <2>4. /\ \A t \in Stage : t # s => [stage |-> t, event |-> "MaterializationComplete"] # k
        /\ \A t \in Stage : [stage |-> t, event |-> "DrainComplete"] # k
    OBVIOUS
  <2> HIDE DEF k
  <2>5. Messengers([age EXCEPT ![s] = 2])'
    BY <1>0, <1>2, <2>1, <2>2, <2>4 DEF InvWith, Messengers, k
  <2>6. /\ \A t \in Stage : age[t] >= 1
        /\ pipeline_state # "Initializing" /\ pipeline_state # "Running"
    BY <1>2, <2>1, <2>2, WhenIdle, Bounds
  <2>7. MayMove(age, s, 2)
    BY <2>2, <2>6 DEF MayMove
  <2> WITNESS 2 \in 0..10
  <2> QED
    BY <2>3, <2>5, <2>7
<1>4. CASE Started(s)
  <2>1. at[s] = "barrier" /\ stage_state'[s] = "Running" /\ UNCHANGED spawned /\ BarrierFull
    BY <1>4 DEF Started, HandlerReturns, TypeOK, InvWith
  <2>2. age[s] = 6 /\ stage_rx[s] = <<>>
    BY <1>2, <2>1 DEF Lives, Local
  <2>3. Lives(s, 7)'
    <3>1. <<>> \in Seq(DataSent)
      OBVIOUS
    <3> QED
      BY <1>0, <1>1, <2>1, <2>2, <3>1 DEF Lives, Local
  <2>4. arrived = Task
    BY <2>1, Barrier DEF InvWith, TypeOK
  <2>5. Pipeline \in arrived /\ \A t \in Stage : age[t] >= 6
    BY <2>4 DEF InvWith, Messengers, Task
  <2>6. Messengers([age EXCEPT ![s] = 7])'
    BY <1>0, <1>2, <2>1, <2>2, <2>5 DEF InvWith, Messengers
  <2>7. MayMove(age, s, 7)
    BY <1>2, <2>2, <2>5, Bounds DEF MayMove
  <2> WITNESS 7 \in 0..10
  <2> QED
    BY <2>3, <2>6, <2>7
<1>5. CASE Drained(s)
  <2> DEFINE k == [stage |-> s, event |-> "DrainComplete"]
  <2>1. at[s] = "draining" /\ stage_state'[s] = "Draining" /\ spawned' = spawned \cup {k}
    BY <1>5 DEF Drained, HandlerReturns, TypeOK, InvWith
  <2>2. age[s] = 8 /\ stage_rx[s] \in Seq(DataSent)
    BY <1>2, <2>1 DEF Lives, Local
  <2>3. Lives(s, 9)'
    <3>1. stage_rx[s] \in Seq(DataSent \cup {"DrainComplete"})
      BY <2>2
    <3> QED
      BY <1>0, <1>1, <2>1, <3>1 DEF Lives, Local
  <2>4. /\ \A t \in Stage : t # s => [stage |-> t, event |-> "DrainComplete"] # k
        /\ \A t \in Stage : [stage |-> t, event |-> "MaterializationComplete"] # k
    OBVIOUS
  <2> HIDE DEF k
  <2>5. Messengers([age EXCEPT ![s] = 9])'
    BY <1>0, <1>2, <2>1, <2>2, <2>4 DEF InvWith, Messengers, k
  <2>6. MayMove(age, s, 9)
    <3>1. \A t \in Stage : age[t] >= 6 /\ age[t] >= 1
      BY <1>2, <2>2 DEF InvWith, InStep
    <3> QED
      BY <2>2, <3>1, Bounds DEF MayMove
  <2> WITNESS 9 \in 0..10
  <2> QED
    BY <2>3, <2>5, <2>6
<1> QED
  BY <1>3, <1>4, <1>5
-----------------------------------------------------------------------------
\* Data is taken, or ends the stage in an error; nothing else does.
LEMMA StageTakesData ==
    ASSUME NEW age \in [Stage -> 0..10], InvWith(age), TypeOK', NEW s \in Stage,
           ProcessEvent(s) \/ \E event \in StageEvents : StageFails(s, event)
    PROVE  CoordinationInv'
<1>1. PICK event : StageTakes(s, event)
                   /\ \/ ProcessEvent(s) /\ event = "ProcessEvent" /\ <<stage_state[s], event>> \in StageRows
                      \/ StageFails(s, event)
  BY DEF ProcessEvent, StageHandles, StageFails
<1>2. Lives(s, age[s]) /\ \A t \in Stage : age[t] \in 0..10
  BY DEF InvWith, InStep
<1>3. ASSUME StageFails(s, event) PROVE event = "ProcessEvent" /\ age[s] = 9
  <2>1. <<stage_state[s], event>> \notin StageRows
    BY <1>3 DEF StageFails
  <2> QED
    BY <1>1, <1>2, <2>1, WhatAStageTakes DEF Lives, Local, StageRows
<1>4. ASSUME ProcessEvent(s) PROVE age[s] = 7 \/ age[s] = 9
  BY <1>1, <1>2, <1>3, WhatAStageTakes
<1>5. event = "ProcessEvent" /\ stage_rx[s] # <<>> /\ stage_rx' = [stage_rx EXCEPT ![s] = Tail(stage_rx[s])]
      /\ UNCHANGED shutdown_rx
  BY <1>1, <1>3 DEF StageTakes
<1>6. /\ UNCHANGED <<stage_state, pipeline_rx, spawned, arrived, pipeline_state, ready_stages, drained_stages, main>>
      /\ \A t \in Task : t # s => at'[t] = at[t]
      /\ at'[s] = at[s] \/ (age[s] = 9 /\ at'[s] = "failed")
  <2>1. CASE ProcessEvent(s)
    BY <2>1 DEF ProcessEvent, Elsewhere
  <2>2. CASE StageFails(s, event)
    <3>1. age[s] = 9 /\ s \in Task /\ at \in [Task -> Places] /\ at' = [at EXCEPT ![s] = "failed"]
      BY <1>3, <2>2, Apart DEF StageFails, InvWith, TypeOK, Places
    <3> QED
      BY <2>2, <3>1 DEF StageFails, Elsewhere
  <2> QED
    BY <1>1, <2>1, <2>2
<1>7. s # Pipeline /\ s \in Task /\ Alone(s) /\ DataSent' = DataSent
  BY <1>5, <1>6, Apart DEF Task, Alone, DataSent, InvWith, TypeOK
<1>8. Lives(s, age[s])'
  <2>1. stage_rx'[s] = Tail(stage_rx[s])
    BY <1>5 DEF InvWith, TypeOK
  <2>2. \/ age[s] = 7 /\ stage_rx[s] \in Seq(DataSent)
        \/ age[s] = 9 /\ stage_rx[s] \in Seq(DataSent \cup {"DrainComplete"})
    BY <1>1, <1>2, <1>3, <1>4 DEF Lives, Local
  <2>3. \/ age[s] = 7 /\ stage_rx'[s] \in Seq(DataSent)
        \/ age[s] = 9 /\ stage_rx'[s] \in Seq(DataSent \cup {"DrainComplete"})
    BY <1>5, <2>1, <2>2
  <2>4. DataSent = {"ProcessEvent"}
    <3>1. StageTakes(s, "ProcessEvent")
      BY <1>1, <1>5
    <3> QED
      BY <3>1, WhatAStageTakes
  <2>5. DataSent # {}
    BY <2>4
  <2> QED
    BY <1>2, <1>6, <1>7, <2>3, <2>5 DEF Lives, Local
<1>9. [age EXCEPT ![s] = age[s]] = age
  OBVIOUS
<1>10. Messengers(age)'
  BY <1>5, <1>6 DEF InvWith, Messengers
<1>11. MayMove(age, s, age[s])
  BY <1>2, Bounds DEF MayMove, InvWith, InStep
<1> QED
  BY <1>2, <1>7, <1>8, <1>9, <1>10, <1>11, StageAlone

\* A spawned task's event waits in the queue of a stage that is at the place for it.
LEMMA SpawnedReaches ==
    ASSUME NEW age \in [Stage -> 0..10], InvWith(age), TypeOK', NEW k \in spawned, SpawnedSends(k)
    PROVE  CoordinationInv'
<1> DEFINE s == k.stage
<1>1. s \in Stage /\ k = [stage |-> s, event |-> k.event] /\ k.event \in {"MaterializationComplete", "DrainComplete"}
      /\ spawned \subseteq [stage : Stage, event : {"MaterializationComplete", "DrainComplete"}]
  BY DEF InvWith, TypeOK
<1>2. /\ UNCHANGED <<pipeline_state, pipeline_rx, stage_state, at, shutdown_rx, ready_stages, drained_stages, arrived, main>>
      /\ spawned' = spawned \ {k}
      /\ IF at[s] = "failed" THEN UNCHANGED stage_rx ELSE stage_rx' = [stage_rx EXCEPT ![s] = Append(@, k.event)]
  BY DEF SpawnedSends
<1> HIDE DEF s
<1>3. Lives(s, age[s]) /\ \A t \in Stage : age[t] \in 0..10
  BY <1>1 DEF InvWith, InStep
<1>4. Alone(s) /\ DataSent' = DataSent
  BY <1>1, <1>2 DEF Alone, DataSent, InvWith, TypeOK
<1> SUFFICES \E n \in 0..10 : MayMove(age, s, n) /\ Lives(s, n)' /\ Messengers([age EXCEPT ![s] = n])'
  BY <1>1, <1>4, StageAlone
<1>5. CASE k.event = "MaterializationComplete"
  <2>1. age[s] = 2
    BY <1>1, <1>5 DEF InvWith, Messengers
  <2>2. at[s] = "loop" /\ stage_rx[s] = <<>> /\ stage_state[s] = "Materializing"
    BY <1>3, <2>1 DEF Lives, Local
  <2>3. stage_rx'[s] = <<"MaterializationComplete">>
    BY <1>1, <1>2, <1>5, <2>2 DEF InvWith, TypeOK
  <2>4. Lives(s, 3)'
    BY <1>2, <2>2, <2>3 DEF Lives, Local
  <2>5. /\ \A t \in Stage : [stage |-> t, event |-> "MaterializationComplete"] \in spawned' <=>
                                t # s /\ [stage |-> t, event |-> "MaterializationComplete"] \in spawned
        /\ \A t \in Stage : [stage |-> t, event |-> "DrainComplete"] \in spawned' =>
                                [stage |-> t, event |-> "DrainComplete"] \in spawned
    BY <1>1, <1>2, <1>5
  <2>6. Messengers([age EXCEPT ![s] = 3])'
    BY <1>2, <1>3, <2>1, <2>5 DEF InvWith, Messengers
  <2>7. MayMove(age, s, 3)
    <3>1. \A t \in Stage : age[t] >= 1
      BY <1>1, <1>3, <2>1 DEF InvWith, InStep
    <3> QED
      BY <1>1, <2>1, <3>1, Bounds DEF MayMove
  <2> WITNESS 3 \in 0..10
  <2> QED
    BY <2>4, <2>6, <2>7
<1>6. CASE k.event = "DrainComplete"
  <2>1. age[s] \in {9, 10}
    BY <1>1, <1>3, <1>6 DEF InvWith, Messengers
  <2>2. stage_rx[s] \in Seq(DataSent \cup {"DrainComplete"})
    BY <1>3, <2>1 DEF Lives, Local
  <2>3. stage_rx'[s] \in Seq(DataSent \cup {"DrainComplete"})
    <3>1. Append(stage_rx[s], k.event) \in Seq(DataSent \cup {"DrainComplete"})
      BY <1>6, <2>2
    <3>2. stage_rx'[s] = stage_rx[s] \/ stage_rx'[s] = Append(stage_rx[s], k.event)
      BY <1>1, <1>2 DEF InvWith, TypeOK
    <3> QED
      BY <2>2, <3>1, <3>2
  <2>4. Lives(s, age[s])'
    BY <1>2, <1>3, <1>4, <2>1, <2>3 DEF Lives, Local
  <2>5. [age EXCEPT ![s] = age[s]] = age
    OBVIOUS
  <2>6. \A t \in Stage : \A e \in {"MaterializationComplete", "DrainComplete"} :
            [stage |-> t, event |-> e] \in spawned' => [stage |-> t, event |-> e] \in spawned
    BY <1>2
  <2>7. \A t \in Stage : [stage |-> t, event |-> "MaterializationComplete"] \in spawned =>
            [stage |-> t, event |-> "MaterializationComplete"] \in spawned'
    BY <1>1, <1>2, <1>6
  <2>8. Messengers(age)'
    BY <1>2, <2>6, <2>7 DEF InvWith, Messengers
  <2>9. MayMove(age, s, age[s])
    BY <1>1, <1>3, Bounds DEF MayMove, InvWith, InStep
  <2> age[s] \in 0..10
    BY <1>1, <1>3
  <2> WITNESS age[s] \in 0..10
  <2> QED
    BY <2>4, <2>5, <2>8, <2>9
<1> QED
  BY <1>1, <1>5, <1>6
-----------------------------------------------------------------------------
\* A stage reports for the first time.
LEMMA Reported ==
    ASSUME NEW rx, NEW type, NEW all, NEW got, Reports(rx, type, all, got), NEW s \in Stage,
           s \notin got, Msg(type, s) \notin In(rx)
    PROVE  /\ Reports(Append(rx, Msg(type, s)), type, all, got)
           /\ In(Append(rx, Msg(type, s))) = In(rx) \cup {Msg(type, s)}
<1>1. got # Stage /\ rx \in Seq({Msg(type, t) : t \in Stage \ got}) /\ Distinct(rx)
  BY DEF Reports
<1>2. Msg(type, s) \in {Msg(type, t) : t \in Stage \ got}
  OBVIOUS
<1> QED
  BY <1>1, <1>2, Sent DEF Reports

\* The pipeline takes a report; the event that all have reported follows the last.
LEMMA ReportTaken ==
    ASSUME NEW rx, NEW type, NEW all, NEW got \in SUBSET Stage, Reports(rx, type, all, got), rx # <<>>,
           Head(rx).type = type, type # all
    PROVE  LET new == got \cup {Head(rx).id}
               rest == Tail(rx) \o (IF Complete(new) THEN <<Msg(all, Pipeline)>> ELSE <<>>)
           IN  /\ Head(rx).id \in Stage
               /\ Reports(rest, type, all, new)
               /\ \A s \in Stage : s \in got \/ Msg(type, s) \in In(rx) <=> s \in new \/ Msg(type, s) \in In(rest)
<1> DEFINE new == got \cup {Head(rx).id}
           tail == Tail(rx)
           all_msg == <<Msg(all, Pipeline)>>
           rest == tail \o (IF Complete(new) THEN all_msg ELSE <<>>)
<1>1. got # Stage /\ rx \in Seq({Msg(type, t) : t \in Stage \ got}) /\ Distinct(rx)
  BY DEF Reports, Msg
<1>2. /\ Head(rx) \in {Msg(type, t) : t \in Stage \ got}
      /\ tail \in Seq({Msg(type, t) : t \in Stage \ got} \ {Head(rx)}) /\ Distinct(tail)
      /\ In(rx) = {Head(rx)} \cup In(tail) /\ Head(rx) \notin In(tail)
  BY <1>1, Taken
<1>3. PICK h \in Stage \ got : Head(rx) = Msg(type, h) /\ Head(rx).id = h
  BY <1>2 DEF Msg
<1>4. {Msg(type, t) : t \in Stage \ got} \ {Head(rx)} = {Msg(type, t) : t \in Stage \ new}
  BY <1>3 DEF Msg
<1>5. new = got \cup {h} /\ new \subseteq Stage
  BY <1>3
<1>6. tail \in Seq({Msg(type, t) : t \in Stage \ new})
  BY <1>2, <1>4
<1>7. \A s \in Stage : s \in got \/ Msg(type, s) \in In(rx) <=> s \in new \/ Msg(type, s) \in In(tail)
  BY <1>2, <1>3, <1>5 DEF Msg
<1> HIDE DEF new, tail, all_msg
<1>8. CASE Complete(new)
  <2>1. new = Stage
    BY <1>8 DEF Complete
  <2>2. tail \in Seq({})
    BY <1>6, <2>1
  <2>3. tail = <<>>
    BY <2>2
  <2>4. rest = all_msg
    BY <1>8, <2>3 DEF all_msg
  <2>5. In(tail) = {}
    BY <2>3 DEF In
  <2> QED
    BY <1>3, <1>7, <2>1, <2>4, <2>5 DEF Reports, new, tail, all_msg
<1>9. CASE ~Complete(new)
  <2>1. rest = tail
    BY <1>6, <1>9
  <2> QED
    BY <1>2, <1>3, <1>6, <1>7, <1>9, <2>1 DEF Reports, Complete, new, tail, all_msg
<1> QED
  BY <1>8, <1>9

LEMMA AllReported ==
    ASSUME NEW rx, NEW type, NEW all, NEW got, Reports(rx, type, all, got), rx # <<>>,
           Head(rx).type = all, type # all
    PROVE  got = Stage /\ Tail(rx) = <<>>
<1>1. CASE got # Stage
  <2>1. rx \in Seq({Msg(type, t) : t \in Stage \ got})
    BY <1>1 DEF Reports
  <2>2. PICK t \in Stage : Head(rx) = Msg(type, t)
    BY <2>1
  <2>3. Msg(type, t).type = type
    BY DEF Msg
  <2> QED
    BY <2>2, <2>3
<1>2. CASE got = Stage
  <2>1. rx = <<Msg(all, Pipeline)>>
    BY <1>2 DEF Reports
  <2>2. \A m : Tail(<<m>>) = <<>>
    OBVIOUS
  <2> QED
    BY <1>2, <2>1, <2>2
<1> QED
  BY <1>1, <1>2
-----------------------------------------------------------------------------
LEMMA StageReports ==
    ASSUME NEW age \in [Stage -> 0..10], InvWith(age), TypeOK', NEW s \in Stage,
           Materialize(s) \/ FinishDrain(s)
    PROVE  CoordinationInv'
<1>0. /\ \A t \in Task : t # s => at'[t] = at[t]
      /\ \A t \in Stage : t # s => stage_state'[t] = stage_state[t] /\ stage_rx'[t] = stage_rx[t]
      /\ stage_rx' = [stage_rx EXCEPT ![s] = Tail(@)] /\ stage_rx[s] # <<>>
      /\ UNCHANGED <<spawned, arrived, shutdown_rx, pipeline_state, ready_stages, drained_stages, main>>
  BY DEF Materialize, FinishDrain, Report, StageHandles, StageTakes, Elsewhere, TypeOK, InvWith
<1>1. s # Pipeline /\ s \in Task /\ at'[Pipeline] = at[Pipeline] /\ DataSent' = DataSent
  BY Apart, <1>0 DEF Task, DataSent
<1>2. Lives(s, age[s]) /\ \A t \in Stage : age[t] \in 0..10
  BY DEF InvWith, InStep
<1>3. stage_rx'[s] = Tail(stage_rx[s])
  BY <1>0 DEF InvWith, TypeOK
<1>4. CASE Materialize(s)
  <2> DEFINE next == [age EXCEPT ![s] = 4]
             m == Msg("StageReady", s)
  <2>1. /\ age[s] = 3 /\ at'[s] = "loop" /\ stage_state'[s] = "Materialized" /\ pipeline_rx' = Append(pipeline_rx, m)
    <3>1. StageTakes(s, "MaterializationComplete")
      BY <1>4 DEF Materialize, Report, StageHandles
    <3>2. age[s] = 3
      BY <3>1, WhatAStageTakes
    <3> QED
      BY <1>1, <1>4, <3>2 DEF Materialize, Report, InvWith, TypeOK
  <2>2. Lives(s, 4)'
    <3>1. stage_rx[s] = <<"MaterializationComplete">>
      BY <1>2, <2>1 DEF Lives, Local
    <3>2. stage_rx'[s] = <<>>
      BY <1>3, <3>1
    <3> QED
      BY <2>1, <3>2 DEF Lives, Local
  <2>3. next \in [Stage -> 0..10] /\ next[s] = 4 /\ \A t \in Stage : t # s => next[t] = age[t]
    OBVIOUS
  <2>4. \A t \in Stage : age[t] >= 1
    BY <1>2, <2>1 DEF InvWith, InStep
  <2>5. InStep(next)'
    <3>1. UNCHANGED main
      BY <1>0
    <3>2. \A t \in Stage : t # s => UNCHANGED <<stage_state[t], at[t], stage_rx[t]>>
      BY <1>0, Apart
    <3>3. PICK n \in 0..10 : n = 4
      OBVIOUS
    <3>4. /\ Lives(s, n)' /\ age[s] <= n
          /\ n >= 2 => \A t \in Stage : t # s => age[t] >= 1
          /\ n >= 7 => \A t \in Stage : t # s => age[t] >= 6
      BY <2>1, <2>2, <2>4, <3>3
    <3>5. InStep([age EXCEPT ![s] = n])'
      BY <3>1, <3>2, <3>4, StageMoves DEF InvWith
    <3> QED
      BY <3>3, <3>5
  <2>6. pipeline_state = "WaitingForStages"
    BY <2>1, Bounds
  <2> HIDE DEF next
  <2>7. Messengers(next)'
    BY <1>0, <1>2, <2>1, <2>3 DEF InvWith, Messengers
  <2>8. /\ at[Pipeline] = "loop" /\ main = "waiting"
        /\ Reports(pipeline_rx, "StageReady", "AllStagesReady", ready_stages)
        /\ \A t \in Stage : age[t] = 4 <=> t \in ready_stages \/ Msg("StageReady", t) \in In(pipeline_rx)
        /\ Between(age, 0, 4) /\ drained_stages = {}
    BY <2>6 DEF InvWith, PipelineAt
  <2>9. s \notin ready_stages /\ m \notin In(pipeline_rx)
    BY <2>1, <2>8
  <2>10. /\ Reports(pipeline_rx', "StageReady", "AllStagesReady", ready_stages)
         /\ In(pipeline_rx') = In(pipeline_rx) \cup {m}
    BY <2>1, <2>8, <2>9, Reported
  <2>11. \A t \in Stage : next[t] = 4 <=> t \in ready_stages \/ Msg("StageReady", t) \in In(pipeline_rx')
    <3>1. \A t \in Stage : t # s => Msg("StageReady", t) # m
      BY DEF Msg
    <3> QED
      BY <2>3, <2>8, <2>10, <3>1
  <2>12. Between(next, 0, 4)
    BY <2>3, <2>8 DEF Between
  <2>13. PipelineAt(next)'
    BY <1>0, <1>1, <2>6, <2>8, <2>10, <2>11, <2>12 DEF PipelineAt, Between, In, Reports
  <2> QED
    BY <2>3, <2>5, <2>7, <2>13 DEF InvWith, CoordinationInv
<1>5. CASE FinishDrain(s)
  <2> DEFINE next == [age EXCEPT ![s] = 10]
             m == Msg("StageDrained", s)
  <2>1. /\ age[s] = 9 /\ at'[s] = "done" /\ stage_state'[s] = "Drained" /\ pipeline_rx' = Append(pipeline_rx, m)
    <3>1. StageTakes(s, "DrainComplete")
      BY <1>5 DEF FinishDrain, Report, StageHandles
    <3>2. age[s] = 9
      BY <3>1, WhatAStageTakes
    <3> QED
      BY <1>1, <1>5, <3>2 DEF FinishDrain, Report, InvWith, TypeOK
  <2>2. Lives(s, 10)'
    <3>1. stage_rx[s] \in Seq(DataSent \cup {"DrainComplete"})
      BY <1>2, <2>1 DEF Lives, Local
    <3>2. stage_rx'[s] \in Seq(DataSent \cup {"DrainComplete"})
      BY <1>0, <1>3, <3>1
    <3> QED
      BY <1>1, <2>1, <3>2 DEF Lives, Local
  <2>3. next \in [Stage -> 0..10] /\ next[s] = 10 /\ \A t \in Stage : t # s => next[t] = age[t]
    OBVIOUS
  <2>4. \A t \in Stage : age[t] >= 1 /\ age[t] >= 6
    BY <1>2, <2>1 DEF InvWith, InStep
  <2>5. InStep(next)'
    <3>1. UNCHANGED main
      BY <1>0
    <3>2. \A t \in Stage : t # s => UNCHANGED <<stage_state[t], at[t], stage_rx[t]>>
      BY <1>0, Apart
    <3>3. PICK n \in 0..10 : n = 10
      OBVIOUS
    <3>4. /\ Lives(s, n)' /\ age[s] <= n
          /\ n >= 2 => \A t \in Stage : t # s => age[t] >= 1
          /\ n >= 7 => \A t \in Stage : t # s => age[t] >= 6
      BY <2>1, <2>2, <2>4, <3>3
    <3>5. InStep([age EXCEPT ![s] = n])'
      BY <3>1, <3>2, <3>4, StageMoves DEF InvWith
    <3> QED
      BY <3>3, <3>5
  <2>6. pipeline_state = "Draining"
    BY <2>1, Bounds
  <2> HIDE DEF next
  <2>7. Messengers(next)'
    BY <1>0, <1>2, <2>1, <2>3 DEF InvWith, Messengers
  <2>8. /\ at[Pipeline] = "loop" /\ main = "sent"
        /\ Reports(pipeline_rx, "StageDrained", "AllStagesDrained", drained_stages)
        /\ \A t \in Stage : age[t] = 10 <=> t \in drained_stages \/ Msg("StageDrained", t) \in In(pipeline_rx)
        /\ Between(age, 7, 10)
    BY <2>6 DEF InvWith, PipelineAt
  <2>9. s \notin drained_stages /\ m \notin In(pipeline_rx)
    BY <2>1, <2>8
  <2>10. /\ Reports(pipeline_rx', "StageDrained", "AllStagesDrained", drained_stages)
         /\ In(pipeline_rx') = In(pipeline_rx) \cup {m}
    BY <2>1, <2>8, <2>9, Reported
  <2>11. \A t \in Stage : next[t] = 10 <=> t \in drained_stages \/ Msg("StageDrained", t) \in In(pipeline_rx')
    <3>1. \A t \in Stage : t # s => Msg("StageDrained", t) # m
      BY DEF Msg
    <3> QED
      BY <2>3, <2>8, <2>10, <3>1
  <2>12. Between(next, 7, 10)
    BY <2>3, <2>8 DEF Between
  <2>13. PipelineAt(next)'
    BY <1>0, <1>1, <2>6, <2>8, <2>10, <2>11, <2>12 DEF PipelineAt, Between, In, Reports
  <2> QED
    BY <2>3, <2>5, <2>7, <2>13 DEF InvWith, CoordinationInv
<1> QED
  BY <1>4, <1>5
-----------------------------------------------------------------------------
\* No stage moves.
LEMMA NoStageMoves ==
    ASSUME NEW age \in [Stage -> 0..10], InvWith(age), TypeOK', Messengers(age)', PipelineAt(age)',
           UNCHANGED <<stage_state, stage_rx, main>>, \A s \in Stage : at'[s] = at[s]
    PROVE  CoordinationInv'
<1>1. DataSent' = DataSent
  BY DEF DataSent
<1>2. InStep(age)'
  BY <1>1 DEF InvWith, InStep, Lives, Local
<1> QED
  BY <1>2 DEF InvWith, CoordinationInv

\* What the pipeline takes, by its state; it never takes anything else.
LEMMA WhatThePipelineTakes ==
    ASSUME NEW age \in [Stage -> 0..10], InvWith(age), at[Pipeline] = "loop", pipeline_rx # <<>>
    PROVE  \/ pipeline_state = "Initializing" /\ Head(pipeline_rx).type = "Start"
           \/ pipeline_state = "WaitingForStages" /\ Head(pipeline_rx).type \in {"StageReady", "AllStagesReady"}
           \/ pipeline_state = "Running" /\ Head(pipeline_rx).type = "BeginShutdown"
           \/ pipeline_state = "Draining" /\ Head(pipeline_rx).type \in {"StageDrained", "AllStagesDrained"}
<1>1. \A type, id : Head(<<Msg(type, id)>>).type = type
  BY DEF Msg
<1>2. ASSUME NEW type, NEW all, NEW got, Reports(pipeline_rx, type, all, got)
      PROVE  Head(pipeline_rx).type \in {type, all}
  <2>1. CASE got = Stage
    BY <1>1, <1>2, <2>1 DEF Reports
  <2>2. CASE got # Stage
    <3>1. pipeline_rx \in Seq({Msg(type, s) : s \in Stage \ got})
      BY <1>2, <2>2 DEF Reports
    <3>2. PICK s \in Stage : Head(pipeline_rx) = Msg(type, s)
      BY <3>1
    <3> QED
      BY <3>2 DEF Msg
  <2> QED
    BY <2>1, <2>2
<1>3. pipeline_state = "WaitingForStages" => Head(pipeline_rx).type \in {"StageReady", "AllStagesReady"}
  BY <1>2 DEF InvWith, PipelineAt
<1>4. pipeline_state = "Draining" => Head(pipeline_rx).type \in {"StageDrained", "AllStagesDrained"}
  BY <1>2 DEF InvWith, PipelineAt
<1>5. pipeline_state = "Shutdown" => at[Pipeline] = "done"
  BY DEF InvWith, PipelineAt
<1> QED
  BY <1>1, <1>3, <1>4, <1>5 DEF InvWith, PipelineAt

LEMMA PipelineMoves ==
    ASSUME NEW age \in [Stage -> 0..10], InvWith(age), TypeOK', Start \/ BeginShutdown \/ AllStagesDrained \/ PipelineLeavesBarrier
    PROVE  CoordinationInv'
<1>0. \A t \in Stage : age[t] \in 0..10
  OBVIOUS
<1>1. CASE Start
  <2>1. /\ pipeline_state = "Initializing" /\ at[Pipeline] = "loop" /\ main = "waiting"
        /\ pipeline_rx = <<Msg("Start", Pipeline)>>
        /\ Between(age, 0, 1) /\ ready_stages = {} /\ drained_stages = {}
    BY <1>1, WhatThePipelineTakes DEF Start, PipelineTakes, InvWith, PipelineAt
  <2>2. pipeline_state' = "WaitingForStages" /\ pipeline_rx' = <<>>
        /\ UNCHANGED <<stage_state, stage_rx, at, spawned, shutdown_rx, ready_stages, drained_stages, arrived, main>>
    BY <1>1, <2>1 DEF Start
  <2>3. Reports(<<>>, "StageReady", "AllStagesReady", {}) /\ In(<<>>) = {}
    BY CoordinationAssumption DEF Reports, Distinct, In
  <2>4. Between(age, 0, 4) /\ \A s \in Stage : age[s] # 4
    BY <1>0, <2>1 DEF Between
  <2>5. PipelineAt(age)'
    BY <2>1, <2>2, <2>3, <2>4 DEF PipelineAt, Reports, In, Between
  <2>6. Messengers(age)'
    BY <2>1, <2>2, <2>4 DEF InvWith, Messengers
  <2> QED
    BY <2>2, <2>5, <2>6, NoStageMoves
<1>2. CASE BeginShutdown
  <2>1. /\ pipeline_state = "Running" /\ at[Pipeline] = "loop" /\ pipeline_rx # <<>>
    BY <1>2, WhatThePipelineTakes DEF BeginShutdown, PipelineTakes
  <2>2. /\ main = "sent" /\ pipeline_rx = <<Msg("BeginShutdown", Pipeline)>>
        /\ Between(age, 7, 7) /\ drained_stages = {}
    BY <2>1 DEF InvWith, PipelineAt
  <2>3. pipeline_state' = "Draining" /\ pipeline_rx' = <<>> /\ shutdown_rx' = Stage
        /\ UNCHANGED <<stage_state, stage_rx, at, spawned, ready_stages, drained_stages, arrived, main>>
    BY <1>2, <2>2 DEF BeginShutdown
  <2>4. Reports(<<>>, "StageDrained", "AllStagesDrained", {}) /\ In(<<>>) = {}
    BY CoordinationAssumption DEF Reports, Distinct, In
  <2>5. Between(age, 7, 10) /\ \A s \in Stage : age[s] = 7
    BY <1>0, <2>2 DEF Between
  <2>6. PipelineAt(age)'
    BY <2>1, <2>2, <2>3, <2>4, <2>5 DEF PipelineAt, Reports, In, Between
  <2>7. Messengers(age)'
    BY <2>1, <2>3, <2>5 DEF InvWith, Messengers
  <2> QED
    BY <2>3, <2>6, <2>7, NoStageMoves
<1>3. CASE AllStagesDrained
  <2>1. pipeline_state = "Draining" /\ at[Pipeline] = "loop" /\ pipeline_rx # <<>>
        /\ Head(pipeline_rx).type = "AllStagesDrained"
    BY <1>3, WhatThePipelineTakes DEF AllStagesDrained, PipelineTakes
  <2>2. /\ Reports(pipeline_rx, "StageDrained", "AllStagesDrained", drained_stages)
        /\ \A s \in Stage : age[s] = 10 <=> s \in drained_stages \/ Msg("StageDrained", s) \in In(pipeline_rx)
    BY <2>1 DEF InvWith, PipelineAt
  <2>3. Between(age, 10, 10) /\ main = "sent"
    <3>1. "StageDrained" # "AllStagesDrained"
      OBVIOUS
    <3>2. /\ Reports(pipeline_rx, "StageDrained", "AllStagesDrained", drained_stages)
          /\ pipeline_rx # <<>> /\ Head(pipeline_rx).type = "AllStagesDrained"
      BY <2>1, <2>2
    <3>3. drained_stages = Stage /\ Tail(pipeline_rx) = <<>>
      BY <3>1, <3>2, AllReported
    <3> QED
      BY <2>1, <2>2, <3>3 DEF Between, InvWith, PipelineAt
  <2>4. /\ pipeline_state' = "Shutdown" /\ at' = [at EXCEPT ![Pipeline] = "done"]
        /\ UNCHANGED <<stage_state, stage_rx, spawned, shutdown_rx, ready_stages, drained_stages, arrived, main>>
    BY <1>3 DEF AllStagesDrained
  <2>5. at'[Pipeline] = "done" /\ \A s \in Stage : at'[s] = at[s]
    BY <2>4, Apart DEF InvWith, TypeOK, Task
  <2>6. PipelineAt(age)'
    BY <2>3, <2>4, <2>5 DEF PipelineAt, Between
  <2>7. \A s \in Stage : age[s] = 10
    BY <2>3, <1>0 DEF Between
  <2>8. Messengers(age)'
    BY <2>1, <2>4, <2>7 DEF InvWith, Messengers
  <2> QED
    BY <2>4, <2>5, <2>6, <2>8, NoStageMoves
<1>4. CASE PipelineLeavesBarrier
  <2>1. at[Pipeline] = "barrier" /\ BarrierFull /\ at' = [at EXCEPT ![Pipeline] = "loop"]
        /\ UNCHANGED <<pipeline_state, pipeline_rx, stage_state, stage_rx, spawned, shutdown_rx,
                       ready_stages, drained_stages, arrived, main>>
    BY <1>4 DEF PipelineLeavesBarrier
  <2>2. /\ pipeline_state = "Running" /\ main = "waiting" /\ pipeline_rx = <<>>
        /\ Between(age, 5, 7) /\ drained_stages = {}
    BY <2>1 DEF InvWith, PipelineAt
  <2>3. arrived = Task
    BY <2>1, Barrier DEF InvWith, TypeOK
  <2>4. \A s \in Stage : age[s] >= 6
    BY <2>3 DEF InvWith, Messengers, Task
  <2>5. Between(age, 6, 7)
    BY <1>0, <2>2, <2>4 DEF Between
  <2>6. at'[Pipeline] = "loop" /\ \A s \in Stage : at'[s] = at[s]
    BY <2>1, Apart DEF InvWith, TypeOK, Task
  <2>7. PipelineAt(age)'
    BY <2>1, <2>2, <2>5, <2>6 DEF PipelineAt, Between
  <2>8. Messengers(age)'
    BY <2>1 DEF InvWith, Messengers
  <2> QED
    BY <2>1, <2>6, <2>7, <2>8, NoStageMoves
<1> QED
  BY <1>1, <1>2, <1>3, <1>4

LEMMA PipelineHears ==
    ASSUME NEW age \in [Stage -> 0..10], InvWith(age), [Next]_vars, StageReady \/ StageDrained
    PROVE  CoordinationInv'
<1>0. \A t \in Stage : age[t] \in 0..10
  OBVIOUS
<1>1. CASE StageReady
  <2>1. /\ pipeline_state = "WaitingForStages" /\ at[Pipeline] = "loop" /\ pipeline_rx # <<>>
        /\ Head(pipeline_rx).type = "StageReady"
    BY <1>1, WhatThePipelineTakes DEF StageReady, PipelineTakes
  <2>2. /\ main = "waiting" /\ Between(age, 0, 4) /\ drained_stages = {}
        /\ Reports(pipeline_rx, "StageReady", "AllStagesReady", ready_stages)
        /\ \A s \in Stage : age[s] = 4 <=> s \in ready_stages \/ Msg("StageReady", s) \in In(pipeline_rx)
    BY <2>1 DEF InvWith, PipelineAt
  <2> DEFINE new == ready_stages \cup {Head(pipeline_rx).id}
  <2>3. /\ ready_stages' = new
        /\ pipeline_rx' = Tail(pipeline_rx)
                            \o (IF Complete(new) THEN <<Msg("AllStagesReady", Pipeline)>> ELSE <<>>)
        /\ UNCHANGED <<pipeline_state, stage_state, stage_rx, at, spawned, shutdown_rx, drained_stages, arrived, main>>
    BY <1>1 DEF StageReady
  <2>4. /\ Head(pipeline_rx).id \in Stage
        /\ Reports(pipeline_rx', "StageReady", "AllStagesReady", new)
        /\ \A s \in Stage : s \in ready_stages \/ Msg("StageReady", s) \in In(pipeline_rx)
                               <=> s \in new \/ Msg("StageReady", s) \in In(pipeline_rx')
    BY <2>1, <2>2, <2>3, ReportTaken DEF InvWith, TypeOK
  <2> HIDE DEF new
  <2>5. PipelineAt(age)'
    BY <2>1, <2>2, <2>3, <2>4 DEF PipelineAt, Reports, In, Between
  <2>6. Messengers(age)'
    BY <2>3 DEF InvWith, Messengers
  <2> QED
    BY <2>3, <2>4, <2>5, <2>6, TypeNext, NoStageMoves DEF InvWith
<1>2. CASE StageDrained
  <2>1. /\ pipeline_state = "Draining" /\ at[Pipeline] = "loop" /\ pipeline_rx # <<>>
        /\ Head(pipeline_rx).type = "StageDrained"
    BY <1>2, WhatThePipelineTakes DEF StageDrained, PipelineTakes
  <2>2. /\ main = "sent" /\ Between(age, 7, 10)
        /\ Reports(pipeline_rx, "StageDrained", "AllStagesDrained", drained_stages)
        /\ \A s \in Stage : age[s] = 10 <=> s \in drained_stages \/ Msg("StageDrained", s) \in In(pipeline_rx)
    BY <2>1 DEF InvWith, PipelineAt
  <2> DEFINE new == drained_stages \cup {Head(pipeline_rx).id}
  <2>3. /\ drained_stages' = new
        /\ pipeline_rx' = Tail(pipeline_rx)
                            \o (IF Complete(new) THEN <<Msg("AllStagesDrained", Pipeline)>> ELSE <<>>)
        /\ UNCHANGED <<pipeline_state, stage_state, stage_rx, at, spawned, shutdown_rx, ready_stages, arrived, main>>
    BY <1>2 DEF StageDrained
  <2>4. /\ Head(pipeline_rx).id \in Stage
        /\ Reports(pipeline_rx', "StageDrained", "AllStagesDrained", new)
        /\ \A s \in Stage : s \in drained_stages \/ Msg("StageDrained", s) \in In(pipeline_rx)
                               <=> s \in new \/ Msg("StageDrained", s) \in In(pipeline_rx')
    BY <2>1, <2>2, <2>3, ReportTaken DEF InvWith, TypeOK
  <2> HIDE DEF new
  <2>5. PipelineAt(age)'
    BY <2>1, <2>2, <2>3, <2>4 DEF PipelineAt, Reports, In, Between
  <2>6. Messengers(age)'
    BY <2>3 DEF InvWith, Messengers
  <2> QED
    BY <2>3, <2>4, <2>5, <2>6, TypeNext, NoStageMoves DEF InvWith
<1> QED
  BY <1>1, <1>2

LEMMA AllStart ==
    ASSUME NEW age \in [Stage -> 0..10], InvWith(age), TypeOK', AllStagesReady
    PROVE  CoordinationInv'
<1>1. /\ pipeline_state = "WaitingForStages" /\ at[Pipeline] = "loop" /\ pipeline_rx # <<>>
      /\ Head(pipeline_rx).type = "AllStagesReady"
  BY WhatThePipelineTakes DEF AllStagesReady, PipelineTakes
<1>2. /\ main = "waiting" /\ Between(age, 0, 4) /\ drained_stages = {}
      /\ Reports(pipeline_rx, "StageReady", "AllStagesReady", ready_stages)
      /\ \A s \in Stage : age[s] = 4 <=> s \in ready_stages \/ Msg("StageReady", s) \in In(pipeline_rx)
  BY <1>1 DEF InvWith, PipelineAt
<1>3. ready_stages = Stage /\ Tail(pipeline_rx) = <<>>
  <2>1. "StageReady" # "AllStagesReady"
    OBVIOUS
  <2> QED
    BY <1>1, <1>2, <2>1, AllReported
<1>4. \A s \in Stage : age[s] = 4
  BY <1>2, <1>3
<1>5. /\ stage_rx' = [s \in Stage |-> Append(stage_rx[s], "StartProcessing")]
      /\ pipeline_state' = "Running" /\ pipeline_rx' = <<>>
      /\ at' = [at EXCEPT ![Pipeline] = "barrier"] /\ arrived' = arrived \cup {Pipeline}
      /\ UNCHANGED <<stage_state, spawned, shutdown_rx, ready_stages, drained_stages, main>>
  BY <1>3 DEF AllStagesReady
<1>6. at'[Pipeline] = "barrier" /\ \A s \in Stage : at'[s] = at[s]
  BY <1>5, Apart DEF InvWith, TypeOK, Task
<1> DEFINE next == [s \in Stage |-> 5]
<1>7. next \in [Stage -> 0..10] /\ \A s \in Stage : next[s] = 5
  OBVIOUS
<1> HIDE DEF next
<1>8. InStep(next)'
  <2>1. ASSUME NEW s \in Stage PROVE Lives(s, next[s])'
    <3>1. stage_state[s] = "Materialized" /\ at[s] = "loop" /\ stage_rx[s] = <<>>
      BY <1>4 DEF InvWith, InStep, Lives, Local
    <3>2. stage_rx'[s] = <<"StartProcessing">>
      <4>1. Append(<<>>, "StartProcessing") = <<"StartProcessing">>
        OBVIOUS
      <4> QED
        BY <1>5, <3>1, <4>1
    <3> QED
      BY <1>5, <1>6, <1>7, <3>1, <3>2 DEF Lives, Local
  <2> QED
    BY <1>7, <2>1 DEF InStep
<1>9. Messengers(next)'
  <2>1. \A s \in Stage : s \in arrived' <=> s \in arrived
    BY <1>5, Apart
  <2> QED
    BY <1>1, <1>4, <1>5, <1>7, <2>1 DEF InvWith, Messengers
<1>10. PipelineAt(next)'
  <2>1. Between(next, 5, 7)
    BY <1>7 DEF Between
  <2> QED
    BY <1>2, <1>5, <1>6, <2>1 DEF PipelineAt, Between
<1> QED
  BY <1>7, <1>8, <1>9, <1>10 DEF InvWith, CoordinationInv

LEMMA DataIsSent ==
    ASSUME NEW age \in [Stage -> 0..10], InvWith(age), TypeOK', MainSends
    PROVE  CoordinationInv'
<1>0. \A t \in Stage : age[t] \in 0..10
  OBVIOUS
<1>1. /\ main = "waiting" /\ main' = "sent" /\ Idle /\ spawned = {} /\ \A s \in Stage : at[s] \notin {"initializing", "draining"}
      /\ stage_rx' = [s \in Stage |-> stage_rx[s] \o [i \in 1..Data |-> "ProcessEvent"]]
      /\ pipeline_rx' = Append(pipeline_rx, Msg("BeginShutdown", Pipeline))
      /\ UNCHANGED <<pipeline_state, stage_state, at, spawned, shutdown_rx, ready_stages, drained_stages, arrived>>
  BY DEF MainSends
<1>2. \A s \in Stage : age[s] \notin {0, 1, 2, 3, 5, 8}
  <2>1. \A s \in Stage : age[s] \notin {0, 3, 5}
    BY <1>1, WhenIdle
  <2>2. \A s \in Stage : age[s] # 2
    BY <1>1 DEF InvWith, Messengers
  <2>3. \A s \in Stage : age[s] \notin {1, 8}
    BY <1>1 DEF InvWith, InStep, Lives, Local
  <2> QED
    BY <2>1, <2>2, <2>3
<1>3. pipeline_state = "WaitingForStages" \/ pipeline_state = "Running"
  <2>1. <<Msg("Start", Pipeline)>> # <<>>
    OBVIOUS
  <2>2. at[Pipeline] = "loop" => pipeline_rx = <<>>
    BY <1>1, WhenIdle
  <2> QED
    BY <1>1, <2>1, <2>2 DEF InvWith, PipelineAt
<1>4. pipeline_state # "WaitingForStages"
  <2> SUFFICES ASSUME pipeline_state = "WaitingForStages" PROVE FALSE
    OBVIOUS
  <2>1. /\ at[Pipeline] = "loop" /\ Between(age, 0, 4)
        /\ Reports(pipeline_rx, "StageReady", "AllStagesReady", ready_stages)
        /\ \A s \in Stage : age[s] = 4 <=> s \in ready_stages \/ Msg("StageReady", s) \in In(pipeline_rx)
    BY DEF InvWith, PipelineAt
  <2>2. pipeline_rx = <<>> /\ In(pipeline_rx) = {}
    BY <1>1, <2>1, WhenIdle DEF In
  <2>3. \A s \in Stage : age[s] = 4
    BY <1>0, <1>2, <2>1 DEF Between
  <2>4. Stage \subseteq ready_stages
    BY <2>1, <2>2, <2>3
  <2>5. ready_stages # Stage
    BY <2>1, <2>2 DEF Reports
  <2> QED
    BY <2>4, <2>5 DEF InvWith, TypeOK
<1>5. \A s \in Stage : age[s] \in {6, 7}
  BY <1>0, <1>2, <1>3, <1>4, Bounds
<1>6. arrived = Task
  <2>1. Stage \subseteq arrived /\ Pipeline \in arrived
    BY <1>3, <1>4, <1>5 DEF InvWith, Messengers
  <2> QED
    BY <2>1 DEF Task, InvWith, TypeOK
<1>7. at[Pipeline] # "barrier" /\ \A s \in Stage : age[s] = 7
  BY <1>1, <1>5, <1>6, WhenIdle
<1>8. at[Pipeline] = "loop" /\ pipeline_rx = <<>> /\ drained_stages = {} /\ Between(age, 7, 7)
  BY <1>1, <1>3, <1>4, <1>7 DEF InvWith, PipelineAt, Between
<1>9. pipeline_rx' = <<Msg("BeginShutdown", Pipeline)>>
  <2>1. \A m : Append(<<>>, m) = <<m>>
    OBVIOUS
  <2> QED
    BY <1>1, <1>8, <2>1
<1>10. PipelineAt(age)'
  BY <1>1, <1>3, <1>4, <1>8, <1>9 DEF PipelineAt, Between
<1>11. Messengers(age)'
  BY <1>1 DEF InvWith, Messengers
<1>12. InStep(age)'
  <2>1. ASSUME NEW s \in Stage PROVE Lives(s, age[s])'
    <3>1. stage_state[s] = "Running" /\ at[s] = "loop" /\ stage_rx[s] \in Seq({})
      BY <1>1, <1>7 DEF InvWith, InStep, Lives, Local, DataSent
    <3>2. stage_rx[s] = <<>>
      BY <3>1
    <3>3. stage_rx'[s] = [i \in 1..Data |-> "ProcessEvent"]
      <4>1. [i \in 1..Data |-> "ProcessEvent"] \in Seq({"ProcessEvent"})
        BY CoordinationAssumption
      <4>2. <<>> \o [i \in 1..Data |-> "ProcessEvent"] = [i \in 1..Data |-> "ProcessEvent"]
        BY <4>1
      <4> QED
        BY <1>1, <3>2, <4>2
    <3>4. CASE Data = 0
      <4>1. [i \in 1..Data |-> "ProcessEvent"] \in Seq({})
        BY <3>4
      <4>2. DataSent' = {}
        BY <3>4 DEF DataSent
      <4> QED
        BY <1>1, <1>7, <3>1, <3>3, <4>1, <4>2 DEF Lives, Local
    <3>5. CASE Data > 0
      <4>1. [i \in 1..Data |-> "ProcessEvent"] \in Seq({"ProcessEvent"})
        BY CoordinationAssumption
      <4>2. DataSent' = {"ProcessEvent"}
        BY <1>1, <3>5 DEF DataSent
      <4> QED
        BY <1>1, <1>7, <3>1, <3>3, <4>1, <4>2 DEF Lives, Local
    <3> QED
      BY <3>4, <3>5, CoordinationAssumption
  <2> QED
    BY <1>7, <2>1 DEF InStep
<1> QED
  BY <1>10, <1>11, <1>12 DEF InvWith, CoordinationInv

LEMMA NextCoordination == CoordinationInv /\ [Next]_vars => CoordinationInv'
<1> SUFFICES ASSUME NEW age \in [Stage -> 0..10], InvWith(age), [Next]_vars PROVE CoordinationInv'
  BY DEF CoordinationInv
<1>1. TypeOK'
  <2>1. ASSUME PipelineTakes("StageReady") PROVE Head(pipeline_rx).id \in Stage
    <3>1. /\ Reports(pipeline_rx, "StageReady", "AllStagesReady", ready_stages)
          /\ pipeline_rx # <<>> /\ Head(pipeline_rx).type = "StageReady" /\ "StageReady" # "AllStagesReady"
      BY <2>1, WhatThePipelineTakes DEF PipelineTakes, InvWith, PipelineAt
    <3> QED
      BY <3>1, ReportTaken DEF InvWith, TypeOK
  <2>2. ASSUME PipelineTakes("StageDrained") PROVE Head(pipeline_rx).id \in Stage
    <3>1. /\ Reports(pipeline_rx, "StageDrained", "AllStagesDrained", drained_stages)
          /\ pipeline_rx # <<>> /\ Head(pipeline_rx).type = "StageDrained" /\ "StageDrained" # "AllStagesDrained"
      BY <2>2, WhatThePipelineTakes DEF PipelineTakes, InvWith, PipelineAt
    <3> QED
      BY <3>1, ReportTaken DEF InvWith, TypeOK
  <2> QED
    BY <2>1, <2>2, TypeNext DEF InvWith
<1>2. CASE PipelineStep
  BY <1>1, <1>2, PipelineMoves, PipelineHears, AllStart DEF PipelineStep
<1>3. ASSUME NEW s \in Stage, StageStep(s) PROVE CoordinationInv'
  BY <1>1, <1>3, StageAwaits, StageReturns, StageReports, StageTakesData DEF StageStep
<1>4. ASSUME NEW k \in spawned, SpawnedSends(k) PROVE CoordinationInv'
  BY <1>1, <1>4, SpawnedReaches
<1>5. CASE MainSends
  BY <1>1, <1>5, DataIsSent
<1>6. CASE UNCHANGED vars
  <2>1. Messengers(age)'
    BY <1>6 DEF vars, InvWith, Messengers
  <2>2. PipelineAt(age)'
    BY <1>6 DEF vars, InvWith, PipelineAt, Reports, In, Between
  <2> QED
    BY <1>1, <1>6, <2>1, <2>2, NoStageMoves DEF vars
<1> QED
  BY <1>2, <1>3, <1>4, <1>5, <1>6 DEF Next

LEMMA InitCoordination == Init => CoordinationInv
<1> SUFFICES ASSUME Init PROVE CoordinationInv
  OBVIOUS
<1> DEFINE age == [s \in Stage |-> 0]
<1>1. age \in [Stage -> 0..10] /\ \A s \in Stage : age[s] = 0
  OBVIOUS
<1> HIDE DEF age
<1>2. TypeOK
  <2>1. pipeline_rx \in Seq(Message)
    BY Typed DEF Init, Task
  <2>2. stage_rx \in [Stage -> Seq(StageEvents \ {"BeginDrain"})]
    BY Typed DEF Init
  <2> QED
    BY <2>1, <2>2, Typed DEF Init, TypeOK, Message
<1>3. InStep(age)
  BY <1>1, Apart DEF Init, InStep, Lives, Local
<1>4. Messengers(age)
  BY <1>1 DEF Init, Messengers
<1>5. PipelineAt(age)
  BY <1>1 DEF Init, PipelineAt, Between, Task
<1> QED
  BY <1>1, <1>2, <1>3, <1>4, <1>5 DEF CoordinationInv, InvWith
-----------------------------------------------------------------------------
\* However many stages there are, none materializes before all are initializing,
\* none runs before each has materialized and taken its start, and none drains
\* before the pipeline has begun the shutdown
\* (src/tests/circle_2_async_coordination.rs:666-694).
THEOREM StagesGoInStep == Spec => []LockStep
<1>1. CoordinationInv => LockStep
  <2> SUFFICES ASSUME NEW age \in [Stage -> 0..10], InvWith(age), NEW s \in Stage
               PROVE  /\ HasMaterialized(s) => \A t \in Stage : HasBegun(t)
                      /\ stage_state[s] \in {"Running", "Draining", "Drained"} =>
                            /\ \A t \in Stage : HasMaterialized(t) /\ ~Waits(t, "StartProcessing")
                            /\ pipeline_state \in {"Running", "Draining", "Shutdown"}
                      /\ stage_state[s] \in {"Draining", "Drained"} \/ at[s] = "draining" =>
                            pipeline_state \in {"Draining", "Shutdown"}
    BY DEF CoordinationInv, LockStep
  <2>1. \A t \in Stage : Lives(t, age[t]) /\ age[t] \in 0..10
    BY DEF InvWith, InStep
  <2>2. ASSUME NEW t \in Stage PROVE HasMaterialized(t) <=> age[t] >= 4
    BY <2>1 DEF Lives, Local, HasMaterialized
  <2>3. ASSUME NEW t \in Stage PROVE HasBegun(t) <=> age[t] >= 1
    BY <2>1 DEF Lives, Local, HasBegun
  <2>4. ASSUME NEW t \in Stage, age[t] >= 6 PROVE ~Waits(t, "StartProcessing")
    <3>1. stage_rx[t] = <<>> \/ stage_rx[t] \in Seq(DataSent) \/ stage_rx[t] \in Seq(DataSent \cup {"DrainComplete"})
      BY <2>1, <2>4 DEF Lives, Local
    <3>2. "StartProcessing" \notin DataSent \cup {"DrainComplete"}
      BY DEF DataSent
    <3> QED
      BY <3>1, <3>2 DEF Waits
  <2>5. /\ stage_state[s] \in {"Running", "Draining", "Drained"} <=> age[s] >= 7
        /\ stage_state[s] \in {"Draining", "Drained"} \/ at[s] = "draining" <=> age[s] >= 8
    BY <2>1 DEF Lives, Local
  <2>6. HasMaterialized(s) => \A t \in Stage : HasBegun(t)
    BY <2>1, <2>2, <2>3 DEF InvWith, InStep
  <2>7. age[s] >= 7 => \A t \in Stage : HasMaterialized(t) /\ ~Waits(t, "StartProcessing")
    BY <2>1, <2>2, <2>4 DEF InvWith, InStep
  <2> QED
    BY <2>1, <2>5, <2>6, <2>7, Bounds
<1> QED
  BY <1>1, InitCoordination, NextCoordination, PTL DEF Spec

\* However the reports of the stages interleave, the pipeline's state has a row for
\* the next event in its queue: no report comes early, late or twice
\* (src/tests/circle_2_async_coordination.rs:236-373).
THEOREM PipelineIsPrepared == Spec => []PipelineHandlesAll
<1>1. CoordinationInv => PipelineHandlesAll
  BY WhatThePipelineTakes DEF CoordinationInv, PipelineHandlesAll, PipelineRows
<1> QED
  BY <1>1, InitCoordination, NextCoordination, PTL DEF Spec

\* A stage's task ends in an error only over data that the shutdown signal overtook.
THEOREM FailsOverDataOnly == Spec => []OnlyQueuedDataFails
<1>1. CoordinationInv => OnlyQueuedDataFails
  <2> SUFFICES ASSUME NEW age \in [Stage -> 0..10], InvWith(age), NEW s \in Stage, at[s] = "failed"
               PROVE  stage_state[s] = "Draining" /\ main = "sent" /\ Data > 0
    BY DEF CoordinationInv, OnlyQueuedDataFails
  <2>1. Lives(s, age[s])
    BY DEF InvWith, InStep
  <2>2. stage_state[s] = "Draining" /\ DataSent # {}
    BY <2>1 DEF Lives, Local
  <2> QED
    BY <2>2 DEF DataSent
<1> QED
  BY <1>1, InitCoordination, NextCoordination, PTL DEF Spec

\* However many stages there are and in whatever order they report, the pipeline
\* reaches Shutdown only after every one of them has drained
\* (src/tests/circle_2_async_coordination.rs:334-373).
THEOREM PipelineIsLast == Spec => []PipelineLast
<1>1. CoordinationInv => PipelineLast
  <2> SUFFICES ASSUME NEW age \in [Stage -> 0..10], InvWith(age), NEW s \in Stage, pipeline_state = "Shutdown"
               PROVE  stage_state[s] = "Drained"
    BY DEF CoordinationInv, PipelineLast
  <2>1. age[s] = 10 /\ Lives(s, age[s])
    BY Bounds DEF InvWith, InStep
  <2> QED
    BY <2>1 DEF Lives, Local
<1> QED
  BY <1>1, InitCoordination, NextCoordination, PTL DEF Spec

\* Every queue holds only events its receiver can be sent, and every state is one
\* of its machine.
THEOREM CoordinationTyped == Spec => []TypeOK
<1>1. CoordinationInv => TypeOK
  BY DEF CoordinationInv, InvWith
<1> QED
  BY <1>1, InitCoordination, NextCoordination, PTL DEF Spec
-----------------------------------------------------------------------------
(***************************************************************************)
(* That the coordination comes to its end, as for circle 1: as long as it  *)
(* has not, somebody can go on, and every step leaves less to do.          *)
(***************************************************************************)
Ended == (\A t \in Task : at[t] = "done") \/ \E s \in Stage : at[s] = "failed"

\* The guards of the actions: who can go on.
PipelineCanGo ==
    /\ at[Pipeline] = "loop" /\ pipeline_rx # <<>>
    /\ <<pipeline_state, Head(pipeline_rx).type>> \in PipelineRows
StageCanGo(s) ==
    \/ at[s] = "loop" /\ (stage_rx[s] # <<>> \/ s \in shutdown_rx)
    \/ at[s] \in {"initializing", "draining"} /\ Idle
SpawnedCanGo == \E k \in spawned : k.event = "DrainComplete" \/ Idle
MainCanGo ==
    /\ main = "waiting" /\ Idle /\ spawned = {}
    /\ \A s \in Stage : at[s] \notin {"initializing", "draining"}
BarrierLetsGo == BarrierFull /\ \E t \in Task : at[t] = "barrier"
SomebodyCanGo ==
    PipelineCanGo \/ SpawnedCanGo \/ MainCanGo \/ BarrierLetsGo \/ \E s \in Stage : StageCanGo(s)

\* Unless the run has come to its end, somebody can go on.
NobodyWaitsForever == Ended \/ SomebodyCanGo

Owes(s, event) == [stage |-> s, event |-> event] \in spawned

\* What a stage waits for is on its way: the shutdown signal since the pipeline
\* drains, and the end of its drain since it drains itself.
OnItsWay(s) ==
    /\ pipeline_state = "Draining" /\ stage_state[s] = "Running" /\ at[s] = "loop" => s \in shutdown_rx
    /\ stage_state[s] = "Draining" /\ at[s] = "loop" =>
          Owes(s, "DrainComplete") \/ "DrainComplete" \in In(stage_rx[s])

ComingInv == CoordinationInv /\ \A s \in Stage : OnItsWay(s)

\* What waits in a queue still waits when more is put behind it.
LEMMA InAfter ==
    ASSUME NEW S, NEW q \in Seq(S), NEW more \in Seq(S)
    PROVE  In(q) \subseteq In(q \o more) /\ \A x \in S : x \in In(Append(q, x)) /\ In(q) \subseteq In(Append(q, x))
<1>1. \A i \in DOMAIN q : i \in DOMAIN (q \o more) /\ (q \o more)[i] = q[i]
  OBVIOUS
<1>2. ASSUME NEW x \in S
      PROVE  /\ \A i \in DOMAIN q : i \in DOMAIN Append(q, x) /\ Append(q, x)[i] = q[i]
             /\ Len(q) + 1 \in DOMAIN Append(q, x) /\ Append(q, x)[Len(q) + 1] = x
  OBVIOUS
<1> QED
  BY <1>1, <1>2 DEF In

\* A stage to which nothing happens but that more is put into its queue.
LEMMA StillComing ==
    ASSUME NEW s \in Stage, OnItsWay(s), UNCHANGED <<stage_state[s], at[s]>>,
           In(stage_rx[s]) \subseteq In(stage_rx'[s]),
           Owes(s, "DrainComplete") => Owes(s, "DrainComplete")',
           \/ pipeline_state' # "Draining"
           \/ pipeline_state' = pipeline_state /\ (s \in shutdown_rx => s \in shutdown_rx')
           \/ s \in shutdown_rx'
    PROVE  OnItsWay(s)'
  BY DEF OnItsWay, In, Owes

LEMMA NextComing == ComingInv /\ [Next]_vars => ComingInv'
<1> SUFFICES ASSUME ComingInv, NEW age \in [Stage -> 0..10], InvWith(age), [Next]_vars, NEW s \in Stage
             PROVE  OnItsWay(s)'
  BY NextCoordination DEF ComingInv, CoordinationInv
<1>0. OnItsWay(s) /\ s \in Task /\ s # Pipeline /\ TypeOK
  BY Apart DEF ComingInv, InvWith
<1>t. /\ stage_rx \in [Stage -> Seq(StageEvents \ {"BeginDrain"})] /\ at \in [Task -> Places]
      /\ stage_state \in [Stage -> StageStates]
  BY <1>0 DEF TypeOK, Places
<1>1. CASE PipelineStep
  <2>1. stage_state' = stage_state /\ spawned' = spawned /\ at'[s] = at[s]
    BY <1>1, <1>0, <1>t DEF PipelineStep, Start, StageReady, AllStagesReady, BeginShutdown, StageDrained,
       AllStagesDrained, PipelineLeavesBarrier
  <2>2. CASE AllStagesReady
    <3>1. stage_rx'[s] = Append(stage_rx[s], "StartProcessing") /\ pipeline_state' = "Running"
      BY <2>2 DEF AllStagesReady
    <3>2. stage_rx[s] \in Seq(StageEvents) /\ "StartProcessing" \in StageEvents
      BY <1>t, Typed
    <3>3. In(stage_rx[s]) \subseteq In(stage_rx'[s])
      BY <3>1, <3>2, InAfter
    <3> QED
      BY <1>0, <2>1, <3>1, <3>3, StillComing DEF Owes
  <2>3. CASE BeginShutdown
    <3>1. stage_rx' = stage_rx /\ s \in shutdown_rx'
      BY <2>3 DEF BeginShutdown
    <3> QED
      BY <1>0, <2>1, <3>1, StillComing DEF Owes, In
  <2>4. CASE Start \/ StageReady \/ StageDrained \/ AllStagesDrained \/ PipelineLeavesBarrier
    <3>1. /\ stage_rx' = stage_rx /\ shutdown_rx' = shutdown_rx
          /\ pipeline_state' = pipeline_state \/ pipeline_state' # "Draining"
      BY <2>4 DEF Start, StageReady, StageDrained, AllStagesDrained, PipelineLeavesBarrier
    <3> QED
      BY <1>0, <2>1, <3>1, StillComing DEF Owes, In
  <2> QED
    BY <1>1, <2>2, <2>3, <2>4 DEF PipelineStep
<1>2. ASSUME NEW r \in Stage, StageStep(r) PROVE OnItsWay(s)'
  <2>0. r \in Task /\ r # Pipeline
    BY Apart
  <2>1. UNCHANGED pipeline_state /\ spawned \subseteq spawned'
    BY <1>2 DEF StageStep, Initialize, Initialized, Materialize, StartProcessing, Started, ProcessEvent,
       BeginDrain, Drained, FinishDrain, StageFails, HandlerAwaits, HandlerReturns, Report, Elsewhere
  <2>2. CASE r # s
    <3>1. UNCHANGED <<stage_state[s], at[s], stage_rx[s]>> /\ (s \in shutdown_rx => s \in shutdown_rx')
      BY <1>2, <1>t, <1>0, <2>0, <2>2
      DEF StageStep, Initialize, Initialized, Materialize, StartProcessing, Started, ProcessEvent,
          BeginDrain, Drained, FinishDrain, StageFails, HandlerAwaits, HandlerReturns, Report,
          StageHandles, StageTakes
    <3> QED
      BY <1>0, <2>1, <3>1, StillComing DEF Owes, In
  <2>3. CASE r = s
    <3>1. CASE Initialize(s) \/ StartProcessing(s) \/ BeginDrain(s) \/ FinishDrain(s)
                 \/ \E e \in StageEvents : StageFails(s, e)
      <4>1. at'[s] # "loop"
        BY <3>1, <1>0, <1>t DEF Initialize, StartProcessing, BeginDrain, FinishDrain, StageFails,
           HandlerAwaits, Report
      <4> QED
        BY <4>1 DEF OnItsWay
    <3>2. CASE Initialized(s) \/ Materialize(s)
      <4>1. stage_state'[s] \in {"Materializing", "Materialized"}
        BY <3>2, <1>t DEF Initialized, Materialize, HandlerReturns, Report
      <4> QED
        BY <4>1 DEF OnItsWay
    <3>3. CASE Started(s)
      <4>1. at[s] = "barrier" /\ stage_state'[s] = "Running"
        BY <3>3, <1>t DEF Started, HandlerReturns
      <4>2. age[s] = 6
        BY <4>1 DEF InvWith, InStep, Lives, Local
      <4>3. pipeline_state # "Draining"
        BY <4>2, Bounds
      <4> QED
        BY <2>1, <4>1, <4>3 DEF OnItsWay
    <3>4. CASE Drained(s)
      <4>1. stage_state'[s] = "Draining" /\ Owes(s, "DrainComplete")'
        BY <3>4, <1>t DEF Drained, HandlerReturns, Owes
      <4> QED
        BY <4>1 DEF OnItsWay
    <3>5. CASE ProcessEvent(s)
      <4>1. /\ stage_rx[s] # <<>> /\ Head(stage_rx[s]) = "ProcessEvent"
            /\ stage_rx'[s] = Tail(stage_rx[s]) /\ UNCHANGED <<stage_state, at, shutdown_rx, spawned>>
        BY <3>5, <1>t DEF ProcessEvent, StageHandles, StageTakes
      <4>2. In(stage_rx[s]) = {"ProcessEvent"} \cup In(Tail(stage_rx[s]))
        BY <1>t, <4>1, Taken
      <4>3. "DrainComplete" \in In(stage_rx[s]) => "DrainComplete" \in In(stage_rx'[s])
        BY <4>1, <4>2
      <4> QED
        BY <1>0, <2>1, <4>1, <4>3 DEF OnItsWay, Owes, In
    <3> QED
      BY <1>2, <2>3, <3>1, <3>2, <3>3, <3>4, <3>5 DEF StageStep
  <2> QED
    BY <2>2, <2>3
<1>3. ASSUME NEW k \in spawned, SpawnedSends(k) PROVE OnItsWay(s)'
  <2>1. /\ UNCHANGED <<pipeline_state, stage_state, at, shutdown_rx>> /\ spawned' = spawned \ {k}
        /\ IF at[k.stage] = "failed" THEN UNCHANGED stage_rx
           ELSE stage_rx' = [stage_rx EXCEPT ![k.stage] = Append(@, k.event)]
    BY <1>3 DEF SpawnedSends
  <2>2. k.stage \in Stage /\ k = [stage |-> k.stage, event |-> k.event]
        /\ k.event \in {"MaterializationComplete", "DrainComplete"} /\ k.event \in StageEvents
    BY <1>0 DEF TypeOK, StageEvents, StageRows
  <2>3. stage_rx[s] \in Seq(StageEvents)
    BY <1>t
  <2>4. In(stage_rx[s]) \subseteq In(stage_rx'[s])
    <3>1. stage_rx'[s] = stage_rx[s] \/ stage_rx'[s] = Append(stage_rx[s], k.event)
      BY <1>t, <2>1, <2>2
    <3> QED
      BY <2>2, <2>3, <3>1, InAfter
  <2>5. CASE k = [stage |-> s, event |-> "DrainComplete"] /\ at[s] = "loop"
    <3>1. stage_rx'[s] = Append(stage_rx[s], "DrainComplete")
      BY <1>t, <2>1, <2>5
    <3>2. "DrainComplete" \in In(stage_rx'[s])
      <4>1. "DrainComplete" \in StageEvents
        BY DEF StageEvents, StageRows
      <4> QED
        BY <2>3, <3>1, <4>1, InAfter
    <3> QED
      BY <1>0, <2>1, <3>2 DEF OnItsWay
  <2>6. CASE ~(k = [stage |-> s, event |-> "DrainComplete"] /\ at[s] = "loop")
    <3>1. at[s] = "loop" => (Owes(s, "DrainComplete") => Owes(s, "DrainComplete")')
      BY <2>1, <2>6 DEF Owes
    <3> QED
      BY <1>0, <2>1, <2>4, <3>1 DEF OnItsWay
  <2> QED
    BY <2>5, <2>6
<1>4. CASE MainSends
  <2>1. /\ stage_rx'[s] = stage_rx[s] \o [i \in 1..Data |-> "ProcessEvent"]
        /\ UNCHANGED <<pipeline_state, stage_state, at, shutdown_rx, spawned>>
    BY <1>4 DEF MainSends
  <2>2. /\ stage_rx[s] \in Seq(StageEvents) /\ [i \in 1..Data |-> "ProcessEvent"] \in Seq(StageEvents)
    BY <1>t, CoordinationAssumption, Typed
  <2>3. In(stage_rx[s]) \subseteq In(stage_rx'[s])
    BY <2>1, <2>2, InAfter
  <2> QED
    BY <1>0, <2>1, <2>3, StillComing DEF Owes
<1>5. CASE UNCHANGED vars
  BY <1>0, <1>5 DEF vars, OnItsWay, Owes, In
<1> QED
  BY <1>1, <1>2, <1>3, <1>4, <1>5 DEF Next

LEMMA ComingInvariant == Spec => []ComingInv
<1>1. Init => ComingInv
  BY InitCoordination DEF Init, ComingInv, OnItsWay
<1> QED
  BY <1>1, NextComing, PTL DEF Spec

\* If the pipeline's queue is empty some stage has not reported.
LEMMA ReportsMissing ==
    ASSUME NEW rx, NEW type, NEW all, NEW got \in SUBSET Stage, Reports(rx, type, all, got), rx = <<>>
    PROVE  \E s \in Stage : ~(s \in got \/ Msg(type, s) \in In(rx))
<1>1. <<Msg(all, Pipeline)>> # <<>> /\ In(<<>>) = {}
  BY DEF In
<1>2. got # Stage
  BY <1>1 DEF Reports
<1> QED
  BY <1>1, <1>2

\* However the tasks run, as long as not all are done and no stage has failed one
\* of them can go on: nobody waits at the barrier, at a channel or for a report that
\* does not come (circle_2:640-725).
THEOREM CoordinationNeverStuck == Spec => []NobodyWaitsForever
<1>1. ComingInv => NobodyWaitsForever
  <2> SUFFICES ASSUME ComingInv, NEW age \in [Stage -> 0..10], InvWith(age), ~Ended, ~SomebodyCanGo PROVE FALSE
    BY DEF ComingInv, CoordinationInv, NobodyWaitsForever
  <2>0. /\ ~PipelineCanGo /\ ~SpawnedCanGo /\ ~MainCanGo /\ ~BarrierLetsGo
        /\ \A s \in Stage : ~StageCanGo(s) /\ Lives(s, age[s]) /\ age[s] \in 0..10
    BY DEF SomebodyCanGo, InvWith, InStep
  <2>1. Idle
    <3>1. ASSUME NEW s \in Stage PROVE ~CanRun(s)
      BY <2>0, Apart DEF CanRun, StageCanGo, BarrierLetsGo
    <3>2. ~CanRun(Pipeline)
      <4>1. at[Pipeline] = "loop" => pipeline_rx = <<>>
        BY <2>0, WhatThePipelineTakes DEF PipelineCanGo, PipelineRows
      <4> QED
        BY <2>0, <4>1 DEF CanRun, BarrierLetsGo, Task
    <3> QED
      BY <2>0, <3>1, <3>2 DEF Idle, Task, SpawnedCanGo
  <2>2. spawned = {}
    BY <2>0, <2>1 DEF SpawnedCanGo
  <2>3. /\ \A s \in Stage : age[s] \notin {0, 3, 5}
        /\ at[Pipeline] = "loop" => pipeline_rx = <<>>
        /\ arrived = Task => at[Pipeline] # "barrier" /\ \A s \in Stage : age[s] # 6
    BY <2>1, WhenIdle
  <2>4. ASSUME NEW s \in Stage PROVE age[s] \notin {1, 2, 8, 9}
    <3>1. age[s] \notin {1, 8}
      BY <2>0, <2>1 DEF StageCanGo, Lives, Local
    <3>2. age[s] # 2
      BY <2>2 DEF InvWith, Messengers
    <3>3. ASSUME age[s] = 9 PROVE FALSE
      <4>1. stage_state[s] = "Draining" /\ at[s] = "loop"
        BY <2>0, <3>3 DEF Lives, Local, Ended
      <4>2. "DrainComplete" \in In(stage_rx[s])
        BY <2>2, <4>1 DEF ComingInv, OnItsWay, Owes
      <4>3. stage_rx[s] # <<>>
        BY <4>2 DEF In
      <4> QED
        BY <2>0, <4>1, <4>3 DEF StageCanGo
    <3> QED
      BY <3>1, <3>2, <3>3
  <2>5. \A s \in Stage : age[s] \in {4, 6, 7, 10}
    BY <2>0, <2>3, <2>4
  <2>6. CASE pipeline_state = "Initializing"
    BY <2>3, <2>6, Bounds, CoordinationAssumption
  <2>7. CASE pipeline_state = "WaitingForStages"
    <3>1. /\ at[Pipeline] = "loop" /\ Reports(pipeline_rx, "StageReady", "AllStagesReady", ready_stages)
          /\ \A s \in Stage : age[s] = 4 <=> s \in ready_stages \/ Msg("StageReady", s) \in In(pipeline_rx)
      BY <2>7 DEF InvWith, PipelineAt
    <3>2. \A s \in Stage : age[s] = 4
      BY <2>5, <2>7, Bounds
    <3> QED
      BY <2>3, <3>1, <3>2, ReportsMissing DEF InvWith, TypeOK
  <2>8. CASE pipeline_state = "Running"
    <3>1. \A s \in Stage : age[s] \in {6, 7}
      BY <2>5, <2>8, Bounds
    <3>2. arrived = Task
      <4>1. Stage \subseteq arrived /\ Pipeline \in arrived
        BY <2>8, <3>1 DEF InvWith, Messengers
      <4> QED
        BY <4>1 DEF Task, InvWith, TypeOK
    <3>3. at[Pipeline] # "barrier" /\ \A s \in Stage : age[s] = 7
      BY <2>3, <3>1, <3>2
    <3>4. pipeline_rx = <<>> /\ main = "waiting"
      <4>1. \A m : <<m>> # <<>>
        OBVIOUS
      <4> QED
        BY <2>3, <2>8, <3>3, <4>1 DEF InvWith, PipelineAt
    <3>5. \A s \in Stage : at[s] = "loop"
      BY <2>0, <3>3 DEF Lives, Local
    <3> QED
      BY <2>0, <2>1, <2>2, <3>4, <3>5 DEF MainCanGo
  <2>9. CASE pipeline_state = "Draining"
    <3>1. /\ at[Pipeline] = "loop" /\ Reports(pipeline_rx, "StageDrained", "AllStagesDrained", drained_stages)
          /\ \A s \in Stage : age[s] = 10 <=> s \in drained_stages \/ Msg("StageDrained", s) \in In(pipeline_rx)
      BY <2>9 DEF InvWith, PipelineAt
    <3>2. ASSUME NEW s \in Stage PROVE age[s] = 10
      <4>1. age[s] \in {7, 10}
        BY <2>5, <2>9, Bounds
      <4>2. ASSUME age[s] = 7 PROVE FALSE
        <5>1. stage_state[s] = "Running" /\ at[s] = "loop"
          BY <2>0, <4>2 DEF Lives, Local
        <5>2. s \in shutdown_rx
          BY <2>9, <5>1 DEF ComingInv, OnItsWay
        <5> QED
          BY <2>0, <5>1, <5>2 DEF StageCanGo
      <4> QED
        BY <4>1, <4>2
    <3> QED
      BY <2>3, <3>1, <3>2, ReportsMissing DEF InvWith, TypeOK
  <2>10. CASE pipeline_state = "Shutdown"
    <3>1. at[Pipeline] = "done"
      BY <2>10 DEF InvWith, PipelineAt
    <3>2. ASSUME NEW s \in Stage PROVE at[s] = "done"
      <4>1. age[s] = 10
        BY <2>10, Bounds
      <4> QED
        BY <2>0, <4>1 DEF Lives, Local
    <3> QED
      BY <3>1, <3>2 DEF Ended, Task
  <2>11. pipeline_state \in {"Initializing", "WaitingForStages", "Running", "Draining", "Shutdown"}
    BY Bounds, CoordinationAssumption
  <2> QED
    BY <2>6, <2>7, <2>8, <2>9, <2>10, <2>11
<1> QED
  BY <1>1, ComingInvariant, PTL

\* What is left to do.  Of a stage: the states it has yet to go through and the
\* events it has been or may yet be sent, those of the tasks it has spawned, of the
\* pipeline and of the test; of the pipeline: the reports it has not counted.
One(p) == IF p THEN 1 ELSE 0
StatesLeft == [Uninitialized |-> 5, Materializing |-> 4, Materialized |-> 3, Running |-> 2, Draining |-> 1,
               Drained |-> 0]
Weigh(states, events, signal, first, last) == 3 * states + events + signal + 2 * first + 2 * last
StageLeft(s) ==
    Weigh(StatesLeft[stage_state[s]], Len(stage_rx[s]), One(s \in shutdown_rx),
          One(Owes(s, "MaterializationComplete")), One(Owes(s, "DrainComplete")))
OthersLeft(s) ==
    One(pipeline_state \in {"Initializing", "WaitingForStages"})
    + One(pipeline_state \in {"Initializing", "WaitingForStages", "Running"})
    + (IF main = "waiting" THEN Data ELSE 0)
    + One(s \notin ready_stages) + One(s \notin drained_stages)
WorkLeft(s) == StageLeft(s) + OthersLeft(s)
work_left == [s \in Stage |-> WorkLeft(s)]
PhasesLeft == [Initializing |-> 5, WaitingForStages |-> 4, Running |-> 2, Draining |-> 1, Shutdown |-> 0]
PipelineLeft == PhasesLeft[pipeline_state] + One(at[Pipeline] = "barrier") + One(main = "waiting")
AllLeft == Cardinality(PairsOf(Stage, work_left)) + PipelineLeft

LEMMA WeighType ==
    ASSUME NEW n \in Nat, NEW e \in Nat, NEW signal \in 0..1, NEW m \in 0..1, NEW d \in 0..1
    PROVE  Weigh(n, e, signal, m, d) \in Nat
  BY DEF Weigh

LEMMA WeighLess ==
    ASSUME NEW n \in Nat, NEW e \in Nat, NEW signal \in 0..1, NEW m \in 0..1, NEW d \in 0..1,
           NEW n1 \in Nat, NEW e1 \in Nat, NEW signal1 \in 0..1, NEW m1 \in 0..1, NEW d1 \in 0..1,
           \/ n1 <= n /\ m1 = m /\ d1 = d /\ e1 + signal1 < e + signal
           \/ n1 < n /\ e1 + signal1 = e + signal /\ (m1 = m \/ d1 = d)
           \/ n1 = n /\ e1 <= e + 1 /\ signal1 = signal /\ m1 + d1 < m + d
    PROVE  Weigh(n1, e1, signal1, m1, d1) < Weigh(n, e, signal, m, d)
  BY DEF Weigh

LEMMA StatesType ==
    /\ \A x \in StageStates : StatesLeft[x] \in Nat
    /\ \A x \in PipelineStates : PhasesLeft[x] \in Nat
  BY DEF StageStates, StageRows, StatesLeft, PipelineStates, PipelineRows, PhasesLeft

\* What is left is a number, before a step and after it.
LEMMA WorkType ==
    ASSUME TypeOK
    PROVE  /\ \A s \in Stage : StageLeft(s) \in Nat /\ OthersLeft(s) \in Nat /\ WorkLeft(s) \in Nat
           /\ work_left \in [Stage -> Nat] /\ PipelineLeft \in Nat /\ AllLeft \in Nat
<1>1. ASSUME NEW s \in Stage PROVE StageLeft(s) \in Nat /\ OthersLeft(s) \in Nat /\ WorkLeft(s) \in Nat
  <2>1. StatesLeft[stage_state[s]] \in Nat /\ Len(stage_rx[s]) \in Nat
    BY StatesType DEF TypeOK
  <2>4. /\ One(s \in shutdown_rx) \in 0..1
        /\ One(Owes(s, "MaterializationComplete")) \in 0..1 /\ One(Owes(s, "DrainComplete")) \in 0..1
    BY DEF One
  <2>5. StageLeft(s) = Weigh(StatesLeft[stage_state[s]], Len(stage_rx[s]), One(s \in shutdown_rx),
                             One(Owes(s, "MaterializationComplete")), One(Owes(s, "DrainComplete")))
    BY DEF StageLeft
  <2>2. StageLeft(s) \in Nat
    BY <2>1, <2>4, <2>5, WeighType
  <2>3. OthersLeft(s) \in Nat
    BY CoordinationAssumption DEF OthersLeft, One
  <2> QED
    BY <2>2, <2>3 DEF WorkLeft
<1>2. work_left \in [Stage -> Nat]
  BY <1>1 DEF work_left
<1>3. PipelineLeft \in Nat
  <2>1. PhasesLeft[pipeline_state] \in Nat
    BY StatesType DEF TypeOK
  <2> QED
    BY <2>1 DEF PipelineLeft, One
<1>4. Cardinality(PairsOf(Stage, work_left)) \in Nat
  BY <1>2, SumType, CoordinationAssumption
<1> QED
  BY <1>1, <1>2, <1>3, <1>4 DEF AllLeft

LEMMA WorkTypeNext ==
    ASSUME TypeOK'
    PROVE  /\ \A s \in Stage : StageLeft(s)' \in Nat /\ OthersLeft(s)' \in Nat /\ WorkLeft(s)' \in Nat
           /\ work_left' \in [Stage -> Nat] /\ PipelineLeft' \in Nat /\ AllLeft' \in Nat
<1>1. ASSUME NEW s \in Stage PROVE StageLeft(s)' \in Nat /\ OthersLeft(s)' \in Nat /\ WorkLeft(s)' \in Nat
  <2>1. StatesLeft[stage_state'[s]] \in Nat /\ Len(stage_rx'[s]) \in Nat
    BY StatesType DEF TypeOK
  <2>2. /\ One(s \in shutdown_rx)' \in 0..1
        /\ One(Owes(s, "MaterializationComplete"))' \in 0..1 /\ One(Owes(s, "DrainComplete"))' \in 0..1
    BY DEF One
  <2>5. StageLeft(s)' = Weigh(StatesLeft[stage_state'[s]], Len(stage_rx'[s]), One(s \in shutdown_rx)',
                              One(Owes(s, "MaterializationComplete"))', One(Owes(s, "DrainComplete"))')
    BY DEF StageLeft, StatesLeft, Weigh
  <2>6. StageLeft(s)' \in Nat
    BY <2>1, <2>2, <2>5, WeighType
  <2>3. OthersLeft(s)' \in Nat
    BY CoordinationAssumption DEF OthersLeft, One
  <2>4. WorkLeft(s)' = StageLeft(s)' + OthersLeft(s)'
    BY DEF WorkLeft
  <2> QED
    BY <2>3, <2>4, <2>6
<1>2. work_left' \in [Stage -> Nat]
  BY <1>1 DEF work_left
<1>3. PipelineLeft' \in Nat
  <2>1. PhasesLeft[pipeline_state'] \in Nat
    BY StatesType DEF TypeOK
  <2> QED
    BY <2>1 DEF PipelineLeft, One, PhasesLeft
<1>4. AllLeft' = Cardinality(PairsOf(Stage, work_left')) + PipelineLeft'
  BY DEF AllLeft, PairsOf
<1>5. Cardinality(PairsOf(Stage, work_left')) \in Nat
  BY <1>2, SumType, CoordinationAssumption
<1> QED
  BY <1>1, <1>2, <1>3, <1>4, <1>5

\* Nobody has more to do, and somebody has less.
LEMMA LessWork ==
    ASSUME TypeOK, TypeOK',
           \A s \in Stage : WorkLeft(s)' <= WorkLeft(s),
           PipelineLeft' <= PipelineLeft,
           PipelineLeft' < PipelineLeft \/ \E s \in Stage : WorkLeft(s)' < WorkLeft(s)
    PROVE  AllLeft' < AllLeft
<1>1. /\ work_left \in [Stage -> Nat] /\ work_left' \in [Stage -> Nat]
      /\ PipelineLeft \in Nat /\ PipelineLeft' \in Nat
  BY WorkType, WorkTypeNext
<1>2. \A s \in Stage : work_left[s] = WorkLeft(s) /\ work_left'[s] = WorkLeft(s)'
  BY DEF work_left
<1>3. /\ \A s \in Stage : work_left'[s] <= work_left[s]
      /\ (\E s \in Stage : WorkLeft(s)' < WorkLeft(s)) => \E s \in Stage : work_left'[s] < work_left[s]
  BY <1>2
<1>4. /\ Cardinality(PairsOf(Stage, work_left')) <= Cardinality(PairsOf(Stage, work_left))
      /\ (\E s \in Stage : work_left'[s] < work_left[s])
            => Cardinality(PairsOf(Stage, work_left')) < Cardinality(PairsOf(Stage, work_left))
  BY <1>1, <1>3, CoordinationAssumption, SumDown
<1>5. /\ Cardinality(PairsOf(Stage, work_left')) \in Nat
      /\ Cardinality(PairsOf(Stage, work_left)) \in Nat
  BY <1>1, CoordinationAssumption, SumType
<1>6. /\ AllLeft = Cardinality(PairsOf(Stage, work_left)) + PipelineLeft
      /\ AllLeft' = Cardinality(PairsOf(Stage, work_left')) + PipelineLeft'
  BY DEF AllLeft, PairsOf
<1> QED
  BY <1>1, <1>3, <1>4, <1>5, <1>6

\* A stage, its queue or a task it has spawned has moved, and nobody else.
LEMMA StageWorks ==
    ASSUME TypeOK, TypeOK', NEW s \in Stage,
           UNCHANGED <<pipeline_state, main, ready_stages, drained_stages, at[Pipeline]>>,
           \A r \in Stage : r # s => StageLeft(r)' = StageLeft(r),
           StageLeft(s)' < StageLeft(s)
    PROVE  AllLeft' < AllLeft
<1>1. \A r \in Stage : OthersLeft(r)' = OthersLeft(r)
  BY DEF OthersLeft, One
<1>2. PipelineLeft' = PipelineLeft /\ PipelineLeft \in Nat
  BY WorkType DEF PipelineLeft, One, PhasesLeft
<1>3. \A r \in Stage : WorkLeft(r)' = StageLeft(r)' + OthersLeft(r)' /\ WorkLeft(r) = StageLeft(r) + OthersLeft(r)
  BY DEF WorkLeft
<1>4. /\ \A r \in Stage : WorkLeft(r)' <= WorkLeft(r)
      /\ \E r \in Stage : WorkLeft(r)' < WorkLeft(r)
  BY <1>1, <1>3, WorkType, WorkTypeNext
<1> QED
  BY <1>2, <1>4, LessWork

\* A stage, or a task it has spawned, has moved: there is less to do of that stage,
\* by the events it has taken or by the states it has gone through.
LEMMA LessOfStage ==
    ASSUME TypeOK, TypeOK', NEW s \in Stage,
           NEW n \in Nat, n = StatesLeft[stage_state[s]],
           NEW n1 \in Nat, n1 = StatesLeft[stage_state'[s]],
           \/ /\ n1 <= n /\ UNCHANGED spawned
              /\ \/ Len(stage_rx'[s]) + 1 = Len(stage_rx[s]) /\ UNCHANGED shutdown_rx
                 \/ stage_rx'[s] = stage_rx[s] /\ s \in shutdown_rx /\ s \notin shutdown_rx'
           \/ /\ n1 < n /\ UNCHANGED shutdown_rx /\ stage_rx'[s] = stage_rx[s]
              /\ \/ Owes(s, "MaterializationComplete")' = Owes(s, "MaterializationComplete")
                 \/ Owes(s, "DrainComplete")' = Owes(s, "DrainComplete")
           \/ /\ n1 = n /\ UNCHANGED shutdown_rx /\ Len(stage_rx'[s]) <= Len(stage_rx[s]) + 1
              /\ \/ /\ Owes(s, "MaterializationComplete") /\ ~Owes(s, "MaterializationComplete")'
                    /\ Owes(s, "DrainComplete")' = Owes(s, "DrainComplete")
                 \/ /\ Owes(s, "DrainComplete") /\ ~Owes(s, "DrainComplete")'
                    /\ Owes(s, "MaterializationComplete")' = Owes(s, "MaterializationComplete")
    PROVE  StageLeft(s)' < StageLeft(s)
<1> DEFINE e == Len(stage_rx[s])   e1 == Len(stage_rx'[s])
           g == One(s \in shutdown_rx)   g1 == One(s \in shutdown_rx)'
           m == One(Owes(s, "MaterializationComplete"))   m1 == One(Owes(s, "MaterializationComplete"))'
           d == One(Owes(s, "DrainComplete"))   d1 == One(Owes(s, "DrainComplete"))'
<1>1. e \in Nat /\ e1 \in Nat
  BY DEF TypeOK
<1>2. /\ g \in 0..1 /\ g1 \in 0..1 /\ m \in 0..1 /\ m1 \in 0..1 /\ d \in 0..1 /\ d1 \in 0..1
  BY DEF One
<1>3. StageLeft(s) = Weigh(n, e, g, m, d) /\ StageLeft(s)' = Weigh(n1, e1, g1, m1, d1)
  BY DEF StageLeft, StatesLeft, Weigh
<1>4. /\ UNCHANGED shutdown_rx => g1 = g
      /\ s \in shutdown_rx /\ s \notin shutdown_rx' => g = 1 /\ g1 = 0
      /\ UNCHANGED spawned => m1 = m /\ d1 = d
      /\ Owes(s, "MaterializationComplete")' = Owes(s, "MaterializationComplete") => m1 = m
      /\ Owes(s, "DrainComplete")' = Owes(s, "DrainComplete") => d1 = d
      /\ Owes(s, "MaterializationComplete") /\ ~Owes(s, "MaterializationComplete")' => m = 1 /\ m1 = 0
      /\ Owes(s, "DrainComplete") /\ ~Owes(s, "DrainComplete")' => d = 1 /\ d1 = 0
  BY DEF One, Owes
<1>5. CASE /\ n1 <= n /\ UNCHANGED spawned
           /\ \/ e1 + 1 = e /\ UNCHANGED shutdown_rx
              \/ stage_rx'[s] = stage_rx[s] /\ s \in shutdown_rx /\ s \notin shutdown_rx'
  <2>1. /\ n1 <= n /\ m1 = m /\ d1 = d
        /\ \/ e1 + 1 = e /\ g1 = g
           \/ e1 = e /\ g = 1 /\ g1 = 0
    BY <1>4, <1>5
  <2> HIDE DEF e, e1, g, g1, m, m1, d, d1
  <2>2. e1 + g1 < e + g
    BY <1>1, <1>2, <2>1
  <2>3. Weigh(n1, e1, g1, m1, d1) < Weigh(n, e, g, m, d)
    BY <1>1, <1>2, <2>1, <2>2, WeighLess
  <2> QED
    BY <1>3, <2>3
<1>6. CASE /\ n1 < n /\ UNCHANGED shutdown_rx /\ stage_rx'[s] = stage_rx[s]
           /\ \/ Owes(s, "MaterializationComplete")' = Owes(s, "MaterializationComplete")
              \/ Owes(s, "DrainComplete")' = Owes(s, "DrainComplete")
  <2>1. n1 < n /\ e1 = e /\ g1 = g /\ (m1 = m \/ d1 = d)
    BY <1>4, <1>6
  <2> HIDE DEF e, e1, g, g1, m, m1, d, d1
  <2>2. e1 + g1 = e + g
    BY <2>1
  <2>3. Weigh(n1, e1, g1, m1, d1) < Weigh(n, e, g, m, d)
    BY <1>1, <1>2, <2>1, <2>2, WeighLess
  <2> QED
    BY <1>3, <2>3
<1>7. CASE /\ n1 = n /\ UNCHANGED shutdown_rx /\ e1 <= e + 1
           /\ \/ /\ Owes(s, "MaterializationComplete") /\ ~Owes(s, "MaterializationComplete")'
                 /\ Owes(s, "DrainComplete")' = Owes(s, "DrainComplete")
              \/ /\ Owes(s, "DrainComplete") /\ ~Owes(s, "DrainComplete")'
                 /\ Owes(s, "MaterializationComplete")' = Owes(s, "MaterializationComplete")
  <2>1. /\ n1 = n /\ e1 <= e + 1 /\ g1 = g
        /\ \/ m = 1 /\ m1 = 0 /\ d1 = d
           \/ d = 1 /\ d1 = 0 /\ m1 = m
    BY <1>4, <1>7
  <2> HIDE DEF e, e1, g, g1, m, m1, d, d1
  <2>2. m1 + d1 < m + d
    BY <1>2, <2>1
  <2>3. Weigh(n1, e1, g1, m1, d1) < Weigh(n, e, g, m, d)
    BY <1>1, <1>2, <2>1, <2>2, WeighLess
  <2> QED
    BY <1>3, <2>3
<1> QED
  BY <1>5, <1>6, <1>7

\* Every step of a stage leaves it less to do.
LEMMA StageStepCounts ==
    ASSUME CoordinationInv, TypeOK, TypeOK', NEW s \in Stage, StageStep(s)
    PROVE  StageLeft(s)' < StageLeft(s)
<1>0. PICK age \in [Stage -> 0..10] : InvWith(age) /\ Lives(s, age[s])
  BY DEF CoordinationInv, InvWith, InStep
<1>t. /\ stage_rx \in [Stage -> Seq(StageEvents \ {"BeginDrain"})] /\ at \in [Task -> Places]
      /\ stage_state \in [Stage -> StageStates] /\ s \in Task
  BY Apart DEF TypeOK, Places
<1> DEFINE n == StatesLeft[stage_state[s]]   n1 == StatesLeft[stage_state'[s]]
<1>n. n \in Nat /\ n1 \in Nat
  BY StatesType DEF TypeOK
<1>1. ASSUME NEW event, StageTakes(s, event)
      PROVE  \/ Len(stage_rx'[s]) + 1 = Len(stage_rx[s]) /\ UNCHANGED shutdown_rx
             \/ stage_rx'[s] = stage_rx[s] /\ s \in shutdown_rx /\ s \notin shutdown_rx'
  <2>1. CASE event = "BeginDrain"
    BY <1>1, <2>1 DEF StageTakes
  <2>2. CASE event # "BeginDrain"
    <3>1. stage_rx[s] # <<>> /\ stage_rx'[s] = Tail(stage_rx[s]) /\ UNCHANGED shutdown_rx
      BY <1>1, <1>t, <2>2 DEF StageTakes
    <3>2. stage_rx[s] \in Seq(StageEvents)
      BY <1>t
    <3>3. \A q \in Seq(StageEvents) : q # <<>> => Len(Tail(q)) + 1 = Len(q)
      OBVIOUS
    <3> QED
      BY <3>1, <3>2, <3>3
  <2> QED
    BY <2>1, <2>2
<1>2. ASSUME NEW event, StageTakes(s, event), UNCHANGED spawned, n1 <= n
      PROVE  StageLeft(s)' < StageLeft(s)
  <2> HIDE DEF n, n1
  <2>1. n = StatesLeft[stage_state[s]] /\ n1 = StatesLeft[stage_state'[s]]
    BY DEF n, n1
  <2> QED
    BY <1>1, <1>2, <1>n, <2>1, LessOfStage
<1>3. ASSUME UNCHANGED <<stage_rx, shutdown_rx>>, n1 < n,
             \/ Owes(s, "MaterializationComplete")' = Owes(s, "MaterializationComplete")
             \/ Owes(s, "DrainComplete")' = Owes(s, "DrainComplete")
      PROVE  StageLeft(s)' < StageLeft(s)
  <2> HIDE DEF n, n1
  <2>1. n = StatesLeft[stage_state[s]] /\ n1 = StatesLeft[stage_state'[s]]
    BY DEF n, n1
  <2> QED
    BY <1>3, <1>n, <2>1, LessOfStage
<1>4. CASE Initialize(s) \/ StartProcessing(s) \/ BeginDrain(s) \/ ProcessEvent(s)
           \/ \E e \in StageEvents : StageFails(s, e)
  <2>1. /\ \E event : StageTakes(s, event)
        /\ UNCHANGED <<stage_state, spawned>>
    BY <1>4 DEF Initialize, StartProcessing, BeginDrain, ProcessEvent, StageFails, HandlerAwaits, StageHandles
  <2>2. n1 = n
    BY <2>1
  <2>3. n1 <= n
    BY <2>2, <1>n
  <2> QED
    BY <1>2, <2>1, <2>3
<1>5. CASE Materialize(s) \/ FinishDrain(s)
  <2>1. /\ \E event : StageTakes(s, event)
        /\ UNCHANGED spawned
        /\ \/ stage_state[s] = "Materializing" /\ stage_state'[s] = "Materialized"
           \/ stage_state[s] = "Draining" /\ stage_state'[s] = "Drained"
    BY <1>5, <1>t DEF Materialize, FinishDrain, Report, StageHandles, StageRows
  <2>2. n1 <= n
    BY <2>1 DEF StatesLeft
  <2> QED
    BY <1>2, <2>1, <2>2
<1>6. CASE Initialized(s) \/ Started(s) \/ Drained(s)
  <2>1. /\ UNCHANGED <<stage_rx, shutdown_rx>>
        /\ \/ at[s] = "initializing" /\ stage_state'[s] = "Materializing"
           \/ at[s] = "barrier" /\ stage_state'[s] = "Running"
           \/ at[s] = "draining" /\ stage_state'[s] = "Draining"
    BY <1>6, <1>t DEF Initialized, Started, Drained, HandlerReturns
  <2>2. \/ stage_state[s] = "Uninitialized" /\ stage_state'[s] = "Materializing"
        \/ stage_state[s] = "Materialized" /\ stage_state'[s] = "Running"
        \/ stage_state[s] = "Running" /\ stage_state'[s] = "Draining"
    BY <1>0, <2>1 DEF Lives, Local
  <2>3. n1 < n
    BY <2>2 DEF StatesLeft
  <2>4. \/ Owes(s, "MaterializationComplete")' = Owes(s, "MaterializationComplete")
        \/ Owes(s, "DrainComplete")' = Owes(s, "DrainComplete")
    BY <1>6 DEF Initialized, Started, Drained, HandlerReturns, Owes
  <2> QED
    BY <1>3, <2>1, <2>3, <2>4
<1> QED
  BY <1>4, <1>5, <1>6 DEF StageStep

\* A step of one stage leaves the others what they have to do.
LEMMA OthersStay ==
    ASSUME TypeOK, NEW s \in Stage, NEW r \in Stage, r # s, StageStep(s) \/ \E k \in spawned : k.stage = s /\ SpawnedSends(k)
    PROVE  StageLeft(r)' = StageLeft(r)
<1>t. /\ stage_rx \in [Stage -> Seq(StageEvents \ {"BeginDrain"})] /\ stage_state \in [Stage -> StageStates]
  BY DEF TypeOK
<1>1. /\ stage_state'[r] = stage_state[r] /\ stage_rx'[r] = stage_rx[r]
      /\ r \in shutdown_rx' <=> r \in shutdown_rx
      /\ \A event : [stage |-> r, event |-> event] \in spawned' <=> [stage |-> r, event |-> event] \in spawned
  <2>1. CASE StageStep(s)
    BY <1>t, <2>1
    DEF StageStep, Initialize, Initialized, Materialize, StartProcessing, Started, ProcessEvent,
        BeginDrain, Drained, FinishDrain, StageFails, HandlerAwaits, HandlerReturns, Report,
        StageHandles, StageTakes
  <2>2. CASE \E k \in spawned : k.stage = s /\ SpawnedSends(k)
    BY <1>t, <2>2 DEF SpawnedSends
  <2> QED
    BY <2>1, <2>2
<1> QED
  BY <1>1 DEF StageLeft, Owes, One, StatesLeft

\* What a spawned task sends was owed: the event in the queue counts for less.
LEMMA SpawnedCounts ==
    ASSUME TypeOK, TypeOK', NEW k \in spawned, SpawnedSends(k)
    PROVE  StageLeft(k.stage)' < StageLeft(k.stage)
<1> DEFINE s == k.stage
<1>1. /\ s \in Stage /\ k.event \in {"MaterializationComplete", "DrainComplete"}
      /\ k = [stage |-> s, event |-> k.event]
      /\ stage_rx \in [Stage -> Seq(StageEvents \ {"BeginDrain"})]
      /\ spawned' = spawned \ {k} /\ UNCHANGED <<stage_state, shutdown_rx>>
      /\ stage_rx'[s] = stage_rx[s] \/ stage_rx'[s] = Append(stage_rx[s], k.event)
  BY DEF TypeOK, SpawnedSends
<1>2. Len(stage_rx'[s]) <= Len(stage_rx[s]) + 1
  <2>1. \A q \in Seq(StageEvents) : Len(q) <= Len(q) + 1 /\ \A x : Len(Append(q, x)) <= Len(q) + 1
    OBVIOUS
  <2>2. stage_rx[s] \in Seq(StageEvents)
    BY <1>1
  <2> QED
    BY <1>1, <2>1, <2>2
<1>3. \/ /\ Owes(s, "MaterializationComplete") /\ ~Owes(s, "MaterializationComplete")'
         /\ Owes(s, "DrainComplete")' = Owes(s, "DrainComplete")
      \/ /\ Owes(s, "DrainComplete") /\ ~Owes(s, "DrainComplete")'
         /\ Owes(s, "MaterializationComplete")' = Owes(s, "MaterializationComplete")
  <2>1. CASE k.event = "MaterializationComplete"
    BY <1>1, <2>1 DEF Owes
  <2>2. CASE k.event = "DrainComplete"
    BY <1>1, <2>2 DEF Owes
  <2> QED
    BY <1>1, <2>1, <2>2
<1> HIDE DEF s
<1>4. StatesLeft[stage_state[s]] \in Nat /\ stage_state'[s] = stage_state[s] /\ UNCHANGED shutdown_rx
  BY <1>1, StatesType DEF TypeOK
<1>5. StageLeft(s)' < StageLeft(s)
  <2> DEFINE n == StatesLeft[stage_state[s]]
  <2>1. n \in Nat /\ n = StatesLeft[stage_state[s]] /\ n = StatesLeft[stage_state'[s]]
    BY <1>4
  <2> HIDE DEF n
  <2> QED
    BY <1>1, <1>2, <1>3, <1>4, <2>1, LessOfStage
<1> QED
  BY <1>5 DEF s

\* So much more is in the channels of a stage as it is sent.
LEMMA StageIsSent ==
    ASSUME TypeOK, TypeOK', NEW s \in Stage, NEW more \in Nat, UNCHANGED <<stage_state, spawned>>,
           Len(stage_rx'[s]) + One(s \in shutdown_rx)' <= Len(stage_rx[s]) + One(s \in shutdown_rx) + more
    PROVE  StageLeft(s)' <= StageLeft(s) + more
<1> DEFINE n == StatesLeft[stage_state[s]]
           e == Len(stage_rx[s])   e1 == Len(stage_rx'[s])
           g == One(s \in shutdown_rx)   g1 == One(s \in shutdown_rx)'
           m == One(Owes(s, "MaterializationComplete"))   d == One(Owes(s, "DrainComplete"))
<1>1. e \in Nat /\ e1 \in Nat /\ n \in Nat
  BY StatesType DEF TypeOK
<1>2. g \in 0..1 /\ g1 \in 0..1 /\ m \in 0..1 /\ d \in 0..1
  BY DEF One
<1>3. StageLeft(s) = Weigh(n, e, g, m, d)
  BY DEF StageLeft
<1>4. StageLeft(s)' = Weigh(n, e1, g1, m, d)
  BY DEF StageLeft, StatesLeft, Weigh, Owes, One
<1>5. e1 + g1 <= e + g + more
  OBVIOUS
<1> HIDE DEF n, e, e1, g, g1, m, d
<1> QED
  BY <1>1, <1>2, <1>3, <1>4, <1>5 DEF Weigh

\* Who is next in the queue of reports has not been counted yet.
LEMMA NextReport ==
    ASSUME NEW rx, NEW type, NEW all, NEW got, Reports(rx, type, all, got), rx # <<>>,
           Head(rx).type = type, type # all
    PROVE  Head(rx).id \in Stage \ got
<1>1. Head(<<Msg(all, Pipeline)>>).type = all
  BY DEF Msg
<1>2. got # Stage /\ rx \in Seq({Msg(type, s) : s \in Stage \ got})
  BY <1>1 DEF Reports
<1>3. PICK s \in Stage \ got : Head(rx) = Msg(type, s)
  BY <1>2
<1> QED
  BY <1>3 DEF Msg

\* What a step that moves no stage leaves to be done.
LEMMA PipelineWorks ==
    ASSUME TypeOK, TypeOK', PipelineLeft' <= PipelineLeft,
           \A s \in Stage : \E more \in Nat :
               StageLeft(s)' <= StageLeft(s) + more /\ OthersLeft(s)' + more <= OthersLeft(s),
           \/ PipelineLeft' < PipelineLeft
           \/ \E s \in Stage : StageLeft(s)' <= StageLeft(s) /\ OthersLeft(s)' < OthersLeft(s)
    PROVE  AllLeft' < AllLeft
<1>1. /\ \A s \in Stage : StageLeft(s) \in Nat /\ OthersLeft(s) \in Nat
      /\ \A s \in Stage : StageLeft(s)' \in Nat /\ OthersLeft(s)' \in Nat
  BY WorkType, WorkTypeNext
<1>2. \A s \in Stage : WorkLeft(s)' = StageLeft(s)' + OthersLeft(s)' /\ WorkLeft(s) = StageLeft(s) + OthersLeft(s)
  BY DEF WorkLeft
<1>3. \A s \in Stage : WorkLeft(s)' <= WorkLeft(s)
  BY <1>1, <1>2
<1>4. ASSUME NEW s \in Stage, StageLeft(s)' <= StageLeft(s), OthersLeft(s)' < OthersLeft(s)
      PROVE  WorkLeft(s)' < WorkLeft(s)
  BY <1>1, <1>2, <1>4
<1> QED
  BY <1>3, <1>4, LessWork

\* Every step of the pipeline, and of the test, leaves less to do.
LEMMA PipelineCounts ==
    ASSUME CoordinationInv, TypeOK, TypeOK', PipelineStep \/ MainSends
    PROVE  AllLeft' < AllLeft
<1>0. PICK age \in [Stage -> 0..10] : InvWith(age)
  BY DEF CoordinationInv
<1>t. /\ stage_rx \in [Stage -> Seq(StageEvents \ {"BeginDrain"})] /\ at \in [Task -> Places]
      /\ Pipeline \in Task /\ \A s \in Stage : stage_rx[s] \in Seq(StageEvents)
  BY DEF TypeOK, Places, Task
\* The steps that send the stages nothing, and touch no report.
<1>1. ASSUME UNCHANGED <<stage_state, stage_rx, spawned, shutdown_rx, ready_stages, drained_stages, main>>,
             \/ pipeline_state' = pipeline_state
             \/ pipeline_state = "Initializing" /\ pipeline_state' = "WaitingForStages"
             \/ pipeline_state = "Draining" /\ pipeline_state' = "Shutdown",
             PipelineLeft' < PipelineLeft
      PROVE  AllLeft' < AllLeft
  <2>1. ASSUME NEW s \in Stage
        PROVE  StageLeft(s)' <= StageLeft(s) + 0 /\ OthersLeft(s)' + 0 <= OthersLeft(s)
    <3>1. StageLeft(s)' = StageLeft(s) /\ OthersLeft(s)' = OthersLeft(s)
      BY <1>1 DEF StageLeft, OthersLeft, Owes, One, StatesLeft
    <3> QED
      BY <3>1, WorkType
  <2>2. PipelineLeft' <= PipelineLeft
    BY <1>1, WorkType, WorkTypeNext
  <2> QED
    BY <1>1, <2>1, <2>2, PipelineWorks
<1>2. CASE Start
  <2>1. pipeline_state = "Initializing" /\ pipeline_state' = "WaitingForStages" /\ at' = at
    BY <1>2, <1>0, WhatThePipelineTakes DEF Start, PipelineTakes
  <2>2. PipelineLeft' < PipelineLeft
    BY <1>2, <2>1 DEF Start, PipelineLeft, PhasesLeft, One
  <2> QED
    BY <1>1, <1>2, <2>1, <2>2 DEF Start
<1>3. CASE PipelineLeavesBarrier
  <2>1. at[Pipeline] = "barrier" /\ at'[Pipeline] = "loop" /\ UNCHANGED <<pipeline_state, main>>
    BY <1>3, <1>t DEF PipelineLeavesBarrier
  <2>2. PhasesLeft[pipeline_state] \in Nat
    BY StatesType DEF TypeOK
  <2>3. PipelineLeft' < PipelineLeft
    BY <2>1, <2>2 DEF PipelineLeft, PhasesLeft, One
  <2> QED
    BY <1>1, <1>3, <2>1, <2>3 DEF PipelineLeavesBarrier
<1>4. CASE AllStagesDrained
  <2>1. /\ pipeline_state = "Draining" /\ pipeline_state' = "Shutdown" /\ main' = main
        /\ at[Pipeline] = "loop" /\ at'[Pipeline] = "done"
    BY <1>4, <1>0, <1>t, WhatThePipelineTakes DEF AllStagesDrained, PipelineTakes
  <2>2. PipelineLeft' < PipelineLeft
    BY <2>1 DEF PipelineLeft, PhasesLeft, One
  <2> QED
    BY <1>1, <1>4, <2>1, <2>2 DEF AllStagesDrained
<1>5. ASSUME UNCHANGED <<pipeline_state, stage_state, stage_rx, at, spawned, shutdown_rx, main>>,
             NEW h \in Stage,
             \/ h \notin ready_stages /\ ready_stages' = ready_stages \cup {h} /\ drained_stages' = drained_stages
             \/ h \notin drained_stages /\ drained_stages' = drained_stages \cup {h} /\ ready_stages' = ready_stages
      PROVE  AllLeft' < AllLeft
  <2>1. PipelineLeft' = PipelineLeft /\ \A s \in Stage : StageLeft(s)' = StageLeft(s)
    BY <1>5 DEF PipelineLeft, StageLeft, Owes, One, StatesLeft, PhasesLeft
  <2>2. ASSUME NEW s \in Stage
        PROVE  OthersLeft(s)' <= OthersLeft(s) /\ (s = h => OthersLeft(s)' < OthersLeft(s))
    <3> DEFINE sent == IF main = "waiting" THEN Data ELSE 0
    <3>1. sent \in Nat
      BY CoordinationAssumption
    <3>2. /\ OthersLeft(s) = One(pipeline_state \in {"Initializing", "WaitingForStages"})
                + One(pipeline_state \in {"Initializing", "WaitingForStages", "Running"})
                + sent + One(s \notin ready_stages) + One(s \notin drained_stages)
          /\ OthersLeft(s)' = One(pipeline_state \in {"Initializing", "WaitingForStages"})
                + One(pipeline_state \in {"Initializing", "WaitingForStages", "Running"})
                + sent + One(s \notin ready_stages') + One(s \notin drained_stages')
      BY <1>5 DEF OthersLeft, One
    <3> HIDE DEF sent
    <3> QED
      BY <1>5, <3>1, <3>2 DEF One
  <2>3. /\ PipelineLeft' <= PipelineLeft
        /\ \A s \in Stage : StageLeft(s)' <= StageLeft(s) /\ StageLeft(s)' <= StageLeft(s) + 0
        /\ \A s \in Stage : OthersLeft(s)' + 0 <= OthersLeft(s)
    BY <2>1, <2>2, WorkType, WorkTypeNext
  <2> QED
    BY <2>2, <2>3, PipelineWorks
<1>6. CASE StageReady
  <2>1. /\ pipeline_state = "WaitingForStages" /\ at[Pipeline] = "loop" /\ pipeline_rx # <<>>
        /\ Head(pipeline_rx).type = "StageReady"
    BY <1>6, <1>0, WhatThePipelineTakes DEF StageReady, PipelineTakes
  <2>2. Reports(pipeline_rx, "StageReady", "AllStagesReady", ready_stages)
    BY <1>0, <2>1 DEF InvWith, PipelineAt
  <2>3. Head(pipeline_rx).id \in Stage \ ready_stages
    BY <2>1, <2>2, NextReport
  <2> QED
    BY <1>5, <1>6, <2>3 DEF StageReady
<1>7. CASE StageDrained
  <2>1. /\ pipeline_state = "Draining" /\ at[Pipeline] = "loop" /\ pipeline_rx # <<>>
        /\ Head(pipeline_rx).type = "StageDrained"
    BY <1>7, <1>0, WhatThePipelineTakes DEF StageDrained, PipelineTakes
  <2>2. Reports(pipeline_rx, "StageDrained", "AllStagesDrained", drained_stages)
    BY <1>0, <2>1 DEF InvWith, PipelineAt
  <2>3. Head(pipeline_rx).id \in Stage \ drained_stages
    BY <2>1, <2>2, NextReport
  <2> QED
    BY <1>5, <1>7, <2>3 DEF StageDrained
\* The steps that send the stages something: what was to come is in the channels.
<1>8. CASE AllStagesReady
  <2>1. /\ pipeline_state = "WaitingForStages" /\ pipeline_state' = "Running" /\ at[Pipeline] = "loop"
        /\ UNCHANGED <<stage_state, spawned, shutdown_rx, ready_stages, drained_stages, main>>
        /\ at'[Pipeline] = "barrier" /\ \A s \in Stage : stage_rx'[s] = Append(stage_rx[s], "StartProcessing")
    BY <1>8, <1>0, <1>t, WhatThePipelineTakes DEF AllStagesReady, PipelineTakes
  <2>2. PipelineLeft' < PipelineLeft /\ PipelineLeft' <= PipelineLeft
    BY <2>1 DEF PipelineLeft, PhasesLeft, One
  <2>3. ASSUME NEW s \in Stage
        PROVE  StageLeft(s)' <= StageLeft(s) + 1 /\ OthersLeft(s)' + 1 <= OthersLeft(s)
    <3>1. \A q \in Seq(StageEvents) : \A x : Len(Append(q, x)) = Len(q) + 1
      OBVIOUS
    <3>2. Len(stage_rx'[s]) = Len(stage_rx[s]) + 1 /\ Len(stage_rx[s]) \in Nat
      BY <1>t, <2>1, <3>1
    <3>5. One(s \in shutdown_rx)' = One(s \in shutdown_rx) /\ One(s \in shutdown_rx) \in 0..1
      BY <2>1 DEF One
    <3>3. Len(stage_rx'[s]) + One(s \in shutdown_rx)' <= Len(stage_rx[s]) + One(s \in shutdown_rx) + 1
      BY <3>2, <3>5
    <3>4. OthersLeft(s)' + 1 <= OthersLeft(s)
      BY <2>1, CoordinationAssumption DEF OthersLeft, One
    <3> QED
      BY <2>1, <3>3, <3>4, StageIsSent
  <2> QED
    BY <2>2, <2>3, PipelineWorks
<1>9. CASE BeginShutdown
  <2>1. /\ pipeline_state = "Running" /\ pipeline_state' = "Draining"
        /\ UNCHANGED <<at, stage_state, stage_rx, spawned, ready_stages, drained_stages, main>>
    BY <1>9, <1>0, WhatThePipelineTakes DEF BeginShutdown, PipelineTakes
  <2>2. PipelineLeft' < PipelineLeft /\ PipelineLeft' <= PipelineLeft
    BY <2>1 DEF PipelineLeft, PhasesLeft, One
  <2>3. ASSUME NEW s \in Stage
        PROVE  StageLeft(s)' <= StageLeft(s) + 1 /\ OthersLeft(s)' + 1 <= OthersLeft(s)
    <3>1. Len(stage_rx[s]) \in Nat
      BY <1>t
    <3>4. One(s \in shutdown_rx)' \in 0..1 /\ One(s \in shutdown_rx) \in 0..1 /\ stage_rx'[s] = stage_rx[s]
      BY <2>1 DEF One
    <3>2. Len(stage_rx'[s]) + One(s \in shutdown_rx)' <= Len(stage_rx[s]) + One(s \in shutdown_rx) + 1
      BY <3>1, <3>4
    <3>3. OthersLeft(s)' + 1 <= OthersLeft(s)
      BY <2>1, CoordinationAssumption DEF OthersLeft, One
    <3> QED
      BY <2>1, <3>2, <3>3, StageIsSent
  <2> QED
    BY <2>2, <2>3, PipelineWorks
<1>10. CASE MainSends
  <2>1. /\ main = "waiting" /\ main' = "sent"
        /\ UNCHANGED <<at, pipeline_state, stage_state, spawned, shutdown_rx, ready_stages, drained_stages>>
        /\ \A s \in Stage : stage_rx'[s] = stage_rx[s] \o [i \in 1..Data |-> "ProcessEvent"]
    BY <1>10 DEF MainSends
  <2>2. PhasesLeft[pipeline_state] \in Nat
    BY StatesType DEF TypeOK
  <2>3. PipelineLeft' < PipelineLeft /\ PipelineLeft' <= PipelineLeft
    BY <2>1, <2>2 DEF PipelineLeft, PhasesLeft, One
  <2>4. ASSUME NEW s \in Stage
        PROVE  StageLeft(s)' <= StageLeft(s) + Data /\ OthersLeft(s)' + Data <= OthersLeft(s)
    <3> DEFINE data == [i \in 1..Data |-> "ProcessEvent"]
    <3>1. data \in Seq(StageEvents) /\ Len(data) = Data /\ stage_rx'[s] = stage_rx[s] \o data
      <4>1. "ProcessEvent" \in StageEvents /\ Data \in Nat
        BY CoordinationAssumption, Typed
      <4>2. data \in Seq(StageEvents) /\ Len(data) = Data
        BY <4>1
      <4>3. stage_rx'[s] = stage_rx[s] \o data
        BY <2>1
      <4> QED
        BY <4>2, <4>3
    <3>7. stage_rx[s] \in Seq(StageEvents) /\ Data \in Nat
      BY <1>t, CoordinationAssumption
    <3> HIDE DEF data
    <3>2. \A q, r \in Seq(StageEvents) : Len(q \o r) = Len(q) + Len(r)
      OBVIOUS
    <3>3. Len(stage_rx'[s]) = Len(stage_rx[s]) + Data /\ Len(stage_rx[s]) \in Nat
      <4>1. Len(stage_rx[s] \o data) = Len(stage_rx[s]) + Len(data)
        BY <3>1, <3>2, <3>7
      <4> QED
        BY <3>1, <3>7, <4>1
    <3>6. One(s \in shutdown_rx)' = One(s \in shutdown_rx) /\ One(s \in shutdown_rx) \in 0..1
      BY <2>1 DEF One
    <3>4. Len(stage_rx'[s]) + One(s \in shutdown_rx)' <= Len(stage_rx[s]) + One(s \in shutdown_rx) + Data
      BY <3>3, <3>6, CoordinationAssumption
    <3>5. OthersLeft(s)' + Data <= OthersLeft(s)
      BY <2>1, CoordinationAssumption DEF OthersLeft, One
    <3> QED
      BY <2>1, <3>4, <3>5, StageIsSent, CoordinationAssumption
  <2> QED
    BY <2>3, <2>4, PipelineWorks, CoordinationAssumption
<1> QED
  BY <1>2, <1>3, <1>4, <1>6, <1>7, <1>8, <1>9, <1>10 DEF PipelineStep

\* Every step, whoever takes it, leaves less to do than there was: reports,
\* starts and drains cannot chase each other without coming nearer to the end.
\* With CoordinationNeverStuck and a runtime that runs what can run, the run comes
\* to its end (circle_2:640-725).
LessToDo == /\ AllLeft \in Nat /\ AllLeft' \in Nat
            /\ AllLeft' < AllLeft
EveryTurnCounts == [][LessToDo]_vars

\* For every number of stages and of events, no step of the coordination leaves as
\* much to do as there was (circle_2:640-725).
THEOREM CoordinationRunsDown == Spec => EveryTurnCounts
<1>1. ASSUME CoordinationInv, [Next]_vars PROVE [LessToDo]_vars
  <2>0. TypeOK /\ TypeOK'
    BY <1>1, NextCoordination DEF CoordinationInv, InvWith
  <2> SUFFICES ASSUME Next PROVE AllLeft' < AllLeft
    BY <1>1, <2>0, WorkType, WorkTypeNext DEF LessToDo
  <2>1. ASSUME NEW s \in Stage, StageLeft(s)' < StageLeft(s),
               StageStep(s) \/ \E k \in spawned : k.stage = s /\ SpawnedSends(k)
        PROVE  AllLeft' < AllLeft
    <3>1. UNCHANGED <<pipeline_state, main, ready_stages, drained_stages, at[Pipeline]>>
      <4>1. s # Pipeline /\ at \in [Task -> Places]
        BY <2>0, Apart DEF TypeOK, Places
      <4>2. ASSUME NEW place, at' = [at EXCEPT ![s] = place] PROVE at'[Pipeline] = at[Pipeline]
        BY <4>1, <4>2 DEF Task
      <4>3. CASE StageStep(s)
        <5>1. UNCHANGED <<pipeline_state, main, ready_stages, drained_stages>>
          BY <4>3
          DEF StageStep, Initialize, Initialized, Materialize, StartProcessing, Started, ProcessEvent,
              BeginDrain, Drained, FinishDrain, StageFails, HandlerAwaits, HandlerReturns, Report, Elsewhere
        <5>2. UNCHANGED at \/ \E place : at' = [at EXCEPT ![s] = place]
          BY <4>3
          DEF StageStep, Initialize, Initialized, Materialize, StartProcessing, Started, ProcessEvent,
              BeginDrain, Drained, FinishDrain, StageFails, HandlerAwaits, HandlerReturns, Report
        <5> QED
          BY <4>2, <5>1, <5>2
      <4>4. CASE \E k \in spawned : k.stage = s /\ SpawnedSends(k)
        BY <4>4 DEF SpawnedSends
      <4> QED
        BY <2>1, <4>3, <4>4
    <3>2. \A r \in Stage : r # s => StageLeft(r)' = StageLeft(r)
      BY <2>0, <2>1, OthersStay
    <3> QED
      BY <2>0, <2>1, <3>1, <3>2, StageWorks
  <2>2. ASSUME NEW s \in Stage, StageStep(s) PROVE AllLeft' < AllLeft
    BY <1>1, <2>0, <2>1, <2>2, StageStepCounts
  <2>3. ASSUME NEW k \in spawned, SpawnedSends(k) PROVE AllLeft' < AllLeft
    <3>1. k.stage \in Stage
      BY <2>0 DEF TypeOK
    <3> QED
      BY <2>0, <2>1, <2>3, <3>1, SpawnedCounts
  <2> QED
    BY <1>1, <2>0, <2>2, <2>3, PipelineCounts DEF Next
<1>2. CoordinationInv /\ [Next]_vars => [LessToDo]_vars
  BY <1>1
<1> QED
  BY <1>2, InitCoordination, NextCoordination, PTL DEF Spec, EveryTurnCounts
=============================================================================
