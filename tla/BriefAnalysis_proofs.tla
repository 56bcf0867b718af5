--------------------------- MODULE BriefAnalysis_proofs ---------------------------
(***************************************************************************)
(* Theorems about the two analyses.  The first part is about               *)
(* SessionAnalysis, for any recording, profile and provider, any number of *)
(* calls and any times: what is shown and published, and then what is      *)
(* counted and measured.  The last is about BriefAnalysis, for any number  *)
(* of workers, submissions, attempts and crashes, any lease and any        *)
(* duration of a provider call.                                            *)
(***************************************************************************)
EXTENDS BriefAnalysis, SessionAnalysis, FiniteSetTheorems, NaturalsInduction, TLAPS

\* The lesser of two integers.
LEMMA LesserOfTwo ==
  ASSUME NEW a \in Int, NEW b \in Int
  PROVE  Min({a, b}) = IF a <= b THEN a ELSE b
BY DEF Min

\* What FirstOf returns is part of what it is given, and all of it if n is enough.
LEMMA FirstOfAll ==
  ASSUME NEW S, IsFiniteSet(S), NEW n \in Int, Cardinality(S) <= n,
         NEW order, \A i \in S : <<i, i>> \notin order
  PROVE  FirstOf(n, S, order) = S
<1> SUFFICES ASSUME NEW i \in S
             PROVE  Cardinality({j \in S : <<j, i>> \in order}) < n
  BY DEF FirstOf
<1> DEFINE T == {j \in S : <<j, i>> \in order}
<1>1. T \in SUBSET S /\ i \notin T
  OBVIOUS
<1>2. IsFiniteSet(T) /\ Cardinality(T) <= Cardinality(S) /\ Cardinality(S) # Cardinality(T)
  BY <1>1, FS_Subset
<1>3. Cardinality(T) \in Nat /\ Cardinality(S) \in Nat
  BY <1>2, FS_CardinalityType
<1> QED
  BY <1>2, <1>3

\* An order that tells any two elements of a set apart.
Orders(order, S) ==
  /\ \A i \in S : <<i, i>> \notin order
  /\ \A i, j \in S : i # j => <<i, j>> \in order \/ <<j, i>> \in order
  /\ \A i, j, k \in S : <<i, j>> \in order /\ <<j, k>> \in order => <<i, k>> \in order

\* How many elements come before one.
Place(order, S) == [i \in S |-> Cardinality({j \in S : <<j, i>> \in order})]

\* The place of an element is the number of those before it: it keeps the order.
LEMMA PlaceFacts ==
  ASSUME NEW S, IsFiniteSet(S), NEW order, Orders(order, S)
  PROVE  /\ Place(order, S) \in [S -> 0 .. Cardinality(S) - 1]
         /\ \A i, j \in S : <<i, j>> \in order => Place(order, S)[i] < Place(order, S)[j]
<1> DEFINE T(i) == {j \in S : <<j, i>> \in order}
<1>0. Cardinality(S) \in Nat
  BY FS_CardinalityType
<1>1. ASSUME NEW i \in S
      PROVE  /\ IsFiniteSet(T(i)) /\ Cardinality(T(i)) \in 0 .. Cardinality(S) - 1
             /\ Place(order, S)[i] = Cardinality(T(i))
  <2>1. T(i) \in SUBSET S /\ i \notin T(i)
    BY DEF Orders
  <2>2. IsFiniteSet(T(i)) /\ Cardinality(T(i)) <= Cardinality(S)
          /\ Cardinality(S) # Cardinality(T(i))
    BY <2>1, FS_Subset
  <2>3. Cardinality(T(i)) \in Nat
    BY <2>2, FS_CardinalityType
  <2> QED
    BY <1>0, <2>2, <2>3 DEF Place
<1>2. Place(order, S) \in [S -> 0 .. Cardinality(S) - 1]
  BY <1>1 DEF Place
<1>3. ASSUME NEW i \in S, NEW j \in S, <<i, j>> \in order
      PROVE  Place(order, S)[i] < Place(order, S)[j]
  <2>1. T(i) \in SUBSET T(j) /\ i \in T(j) /\ i \notin T(i)
    BY <1>3 DEF Orders
  <2>2. Cardinality(T(i)) <= Cardinality(T(j)) /\ Cardinality(T(j)) # Cardinality(T(i))
    BY <1>1, <2>1, FS_Subset
  <2>3. Place(order, S)[i] = Cardinality(T(i)) /\ Cardinality(T(i)) \in Int
    BY <1>0, <1>1
  <2>4. Place(order, S)[j] = Cardinality(T(j)) /\ Cardinality(T(j)) \in Int
    BY <1>0, <1>1
  <2> HIDE DEF T
  <2> QED
    BY <2>2, <2>3, <2>4
<1> QED
  BY <1>2, <1>3

\* FirstOf returns n elements, or all if there are fewer.
LEMMA FirstOfCounts ==
  ASSUME NEW S, IsFiniteSet(S), NEW n \in Nat, NEW order, Orders(order, S)
  PROVE  /\ FirstOf(n, S, order) \subseteq S
         /\ IsFiniteSet(FirstOf(n, S, order))
         /\ Cardinality(FirstOf(n, S, order)) =
              IF Cardinality(S) <= n THEN Cardinality(S) ELSE n
<1> DEFINE F == FirstOf(n, S, order)
           place == Place(order, S)
           c == Cardinality(S)
<1>1. F \subseteq S /\ IsFiniteSet(F) /\ c \in Nat
  BY FS_Subset, FS_CardinalityType DEF FirstOf
<1>2. CASE c <= n
  <2>1. \A i \in S : <<i, i>> \notin order
    BY DEF Orders
  <2>2. F = S
    BY <1>1, <1>2, <2>1, FirstOfAll
  <2> QED
    BY <1>1, <1>2, <2>2
<1>3. CASE ~(c <= n)
  <2>1. place \in [S -> 0 .. c - 1]
    BY PlaceFacts
  <2>2. \A i, j \in S : i # j => place[i] # place[j]
    <3> SUFFICES ASSUME NEW i \in S, NEW j \in S, i # j
                 PROVE  place[i] # place[j]
      OBVIOUS
    <3>1. <<i, j>> \in order \/ <<j, i>> \in order
      BY DEF Orders
    <3>2. place[i] < place[j] \/ place[j] < place[i]
      BY <3>1, PlaceFacts
    <3> HIDE DEF place
    <3>3. place[i] \in Nat /\ place[j] \in Nat
      BY <1>1, <2>1
    <3> QED
      BY <3>2, <3>3
  <2>3. place \in Injection(S, 0 .. c - 1)
    BY <2>1, <2>2 DEF Injection, IsInjective
  <2>4. IsFiniteSet(0 .. c - 1) /\ Cardinality(0 .. c - 1) = c
    <3>1. c - 1 \in Int
      BY <1>1
    <3> QED
      BY <1>1, <3>1, FS_Interval
  <2>5. place \in Surjection(S, 0 .. c - 1)
    BY <2>3, <2>4, FS_Injection
  <2>6. F = {i \in S : place[i] < n}
    BY DEF FirstOf, Place
  <2> DEFINE short == [i \in F |-> place[i]]
  <2> HIDE DEF F, place
  <2>7. short \in [F -> 0 .. n - 1]
    BY <1>1, <2>1, <2>6
  <2>8. short \in Injection(F, 0 .. n - 1)
    BY <1>1, <2>2, <2>7 DEF Injection, IsInjective
  <2>9. short \in Surjection(F, 0 .. n - 1)
    <3> SUFFICES ASSUME NEW k \in 0 .. n - 1
                 PROVE  \E i \in F : short[i] = k
      BY <2>7 DEF Surjection
    <3>1. k \in 0 .. c - 1
      BY <1>1, <1>3
    <3>2. PICK i \in S : place[i] = k
      BY <2>5, <3>1 DEF Surjection
    <3> QED
      BY <2>6, <3>2
  <2>10. IsFiniteSet(0 .. n - 1) /\ Cardinality(0 .. n - 1) = n
    BY FS_Interval
  <2>11. Cardinality(F) = n
    BY <2>8, <2>9, <2>10, FS_Injection
  <2> QED
    BY <1>1, <1>3, <2>11 DEF F
<1> QED
  BY <1>2, <1>3

-----------------------------------------------------------------------------
\* The choice of events.

\* The places of a recording are an interval from 1, and its durations are integers.
LEMMA RecordingFacts ==
  ASSUME NEW evs \in Recordings
  PROVE  /\ Len(evs) \in Nat /\ DOMAIN evs = 1 .. Len(evs)
         /\ IsFiniteSet(DOMAIN evs) /\ Cardinality(DOMAIN evs) = Len(evs)
         /\ \A i \in DOMAIN evs : i \in Int /\ evs[i].lasted \in Int
<1>1. Len(evs) \in Nat /\ DOMAIN evs = 1 .. Len(evs)
  BY RecordingsAssumption
<1>2. \A n \in Nat : IsFiniteSet(1 .. n) /\ Cardinality(1 .. n) = n
  BY FS_Interval
<1> QED
  BY <1>1, <1>2, RecordingsAssumption

\* The three orders in which events are chosen are total orders of their places.
LEMMA EventOrders ==
  ASSUME NEW evs \in Recordings, NEW S \in SUBSET DOMAIN evs
  PROVE  /\ Orders(Forward(evs), S) /\ Orders(Backward(evs), S)
         /\ Orders(Longest(evs), S)
<1>1. \A i \in S : i \in Int /\ i \in DOMAIN evs /\ evs[i].lasted \in Int
  BY RecordingFacts
<1>2. \A i, j \in S : <<i, j>> \in Forward(evs) <=> i < j
  BY <1>1 DEF Forward, Pairs
<1>3. \A i, j \in S : <<i, j>> \in Backward(evs) <=> i > j
  BY <1>1 DEF Backward, Pairs
<1>4. \A i, j \in S : <<i, j>> \in Longest(evs) <=>
         \/ evs[i].lasted > evs[j].lasted
         \/ evs[i].lasted = evs[j].lasted /\ i < j
  BY <1>1 DEF Longest, Pairs
<1>5. Orders(Forward(evs), S)
  BY <1>1, <1>2 DEF Orders
<1>6. Orders(Backward(evs), S)
  BY <1>1, <1>3 DEF Orders
<1>7. Orders(Longest(evs), S)
  BY <1>1, <1>4 DEF Orders
<1> QED
  BY <1>5, <1>6, <1>7

\* A union has at most the elements of both.
LEMMA UnionCount ==
  ASSUME NEW S, IsFiniteSet(S), NEW T, IsFiniteSet(T)
  PROVE  IsFiniteSet(S \union T) /\ Cardinality(S \union T) <= Cardinality(S) + Cardinality(T)
<1>1. /\ Cardinality(S) \in Nat /\ Cardinality(T) \in Nat
      /\ Cardinality(S \cap T) \in Nat
  BY FS_Intersection, FS_CardinalityType
<1>2. /\ IsFiniteSet(S \union T)
      /\ Cardinality(S \union T) = Cardinality(S) + Cardinality(T) - Cardinality(S \cap T)
  BY FS_Union
<1> QED
  BY <1>1, <1>2

\* What is wished for is added whole if there is room for it.
LEMMA AddedWhole ==
  ASSUME NEW chosen, IsFiniteSet(chosen), NEW wishes, IsFiniteSet(wishes), NEW n \in Nat,
         NEW order, \A i \in wishes : <<i, i>> \notin order,
         Cardinality(wishes) <= n,
         Cardinality(chosen) + Cardinality(wishes) <= MaxCandidates
  PROVE  AddUpTo(n, chosen, wishes, order) = chosen \union wishes
<1>1. /\ Cardinality(chosen) \in Nat /\ Cardinality(wishes) \in Nat
      /\ MaxCandidates \in Nat
  BY FS_CardinalityType, CandidatesAssumption
<1>2. /\ IsFiniteSet(wishes \ chosen) /\ Cardinality(wishes \ chosen) <= Cardinality(wishes)
      /\ Cardinality(wishes \ chosen) \in Nat
  BY FS_Subset, FS_CardinalityType
<1> DEFINE room == Min({n, MaxCandidates - Cardinality(chosen)})
<1>3. room \in Int /\ Cardinality(wishes) <= room
  BY <1>1, LesserOfTwo
<1> HIDE DEF room
<1>4. FirstOf(room, wishes \ chosen, order) = wishes \ chosen
  <2>1. Cardinality(wishes \ chosen) <= room
    BY <1>1, <1>2, <1>3
  <2> QED
    BY <1>2, <1>3, <2>1, FirstOfAll
<1> QED
  BY <1>4 DEF AddUpTo, room

\* What is added, and how much of it.
LEMMA AddedCounts ==
  ASSUME NEW chosen, IsFiniteSet(chosen), NEW wishes, IsFiniteSet(wishes),
         NEW order, Orders(order, wishes \ chosen),
         Cardinality(chosen) <= MaxCandidates
  PROVE  LET all == AddAll(chosen, wishes, order)
             open == Cardinality(wishes \ chosen)
             room == MaxCandidates - Cardinality(chosen)
         IN  /\ chosen \subseteq all /\ all \subseteq chosen \union wishes
             /\ IsFiniteSet(all)
             /\ Cardinality(all) =
                  Cardinality(chosen) + IF open <= room THEN open ELSE room
<1> DEFINE room == MaxCandidates - Cardinality(chosen)
           W == wishes \ chosen
           F == FirstOf(room, W, order)
<1>1. Cardinality(chosen) \in Nat /\ MaxCandidates \in Nat
  BY FS_CardinalityType, CandidatesAssumption
<1>2. room \in Nat /\ Min({MaxCandidates, room}) = room
  BY <1>1, LesserOfTwo
<1>3. AddAll(chosen, wishes, order) = chosen \union F
  BY <1>2 DEF AddAll, AddUpTo
<1>4. IsFiniteSet(W)
  BY FS_Subset
<1> HIDE DEF room, W
<1>5. /\ F \subseteq W /\ IsFiniteSet(F)
      /\ Cardinality(F) = IF Cardinality(W) <= room THEN Cardinality(W) ELSE room
  BY <1>2, <1>4, FirstOfCounts DEF W
<1> HIDE DEF F
<1>6. chosen \cap F = {} /\ F \subseteq wishes
  BY <1>5 DEF W
<1>7. Cardinality(F) \in Nat
  BY <1>5, FS_CardinalityType
<1>8. /\ IsFiniteSet(chosen \union F)
      /\ Cardinality(chosen \union F) = Cardinality(chosen) + Cardinality(F)
  BY <1>1, <1>5, <1>6, <1>7, FS_Union, FS_EmptySet
<1> QED
  BY <1>3, <1>5, <1>6, <1>8 DEF room, W

\* A failure has two neighbours at most.
LEMMA NeighboursCount ==
  ASSUME NEW evs \in Recordings, NEW X \in SUBSET DOMAIN evs
  PROVE  /\ Neighbours(evs, X) \subseteq DOMAIN evs
         /\ IsFiniteSet(Neighbours(evs, X))
         /\ Cardinality(Neighbours(evs, X)) <= 2 * Cardinality(X)
<1> DEFINE before == [f \in X |-> CHOOSE j \in LedTo(evs, f) : TRUE]
           after == [f \in X |-> CHOOSE j \in CameOf(evs, f) : TRUE]
           L == {before[f] : f \in X}
           C == {after[f] : f \in X}
<1>1. IsFiniteSet(X) /\ Cardinality(X) \in Nat
  BY RecordingFacts, FS_Subset, FS_CardinalityType
<1>2. IsFiniteSet(L) /\ Cardinality(L) <= Cardinality(X) /\ Cardinality(L) \in Nat
  <2>1. before \in Surjection(X, L)
    BY DEF Surjection
  <2> QED
    BY <1>1, <2>1, FS_Surjection, FS_CardinalityType
<1>3. IsFiniteSet(C) /\ Cardinality(C) <= Cardinality(X) /\ Cardinality(C) \in Nat
  <2>1. after \in Surjection(X, C)
    BY DEF Surjection
  <2> QED
    BY <1>1, <2>1, FS_Surjection, FS_CardinalityType
<1>4. ASSUME NEW f \in X
      PROVE  /\ LedTo(evs, f) \subseteq DOMAIN evs /\ CameOf(evs, f) \subseteq DOMAIN evs
             /\ LedTo(evs, f) \subseteq L /\ CameOf(evs, f) \subseteq C
  <2>1. \A i \in DOMAIN evs : i \in Int
    BY RecordingFacts
  <2>2. LedTo(evs, f) \subseteq DOMAIN evs /\ CameOf(evs, f) \subseteq DOMAIN evs
    BY DEF LedTo, CameOf, LastIn, At, Of
  <2>3. \A i, j \in LedTo(evs, f) : i = j
    BY <2>1, <2>2 DEF LedTo, LastIn
  <2>4. \A i, j \in CameOf(evs, f) : i = j
    BY <2>1, <2>2 DEF CameOf
  <2>5. LedTo(evs, f) # {} => LedTo(evs, f) = {before[f]}
    BY <2>3
  <2>6. CameOf(evs, f) # {} => CameOf(evs, f) = {after[f]}
    BY <2>4
  <2> QED
    BY <2>2, <2>5, <2>6
<1>5. Neighbours(evs, X) \subseteq DOMAIN evs /\ Neighbours(evs, X) \subseteq L \union C
  BY <1>4 DEF Neighbours
<1> HIDE DEF L, C
<1>6. /\ IsFiniteSet(L \union C)
      /\ Cardinality(L \union C) = Cardinality(L) + Cardinality(C) - Cardinality(L \cap C)
  BY <1>2, <1>3, FS_Union
<1>7. Cardinality(L \cap C) \in Nat
  BY <1>2, FS_Subset, FS_CardinalityType
<1>8. /\ IsFiniteSet(Neighbours(evs, X))
      /\ Cardinality(Neighbours(evs, X)) <= Cardinality(L \union C)
  BY <1>5, <1>6, FS_Subset
<1>9. Cardinality(Neighbours(evs, X)) \in Nat
  BY <1>8, FS_CardinalityType
<1> QED
  BY <1>1, <1>2, <1>3, <1>5, <1>6, <1>7, <1>8, <1>9

\* What the steps of the choice take.
LEMMA ChoiceFacts ==
  ASSUME NEW evs \in Recordings
  PROVE  /\ FirstFailures(evs) \subseteq Candidates(evs)
         /\ Neighbours(evs, FirstFailures(evs)) \subseteq Candidates(evs)
         /\ FirstOf(MaxIdles, LongIdles(evs), Longest(evs)) \subseteq Candidates(evs)
         /\ Candidates(evs) \subseteq DOMAIN evs
         /\ Cardinality(Candidates(evs)) = Min({MaxCandidates, Len(evs)})
<1> DEFINE D == DOMAIN evs
           F == FirstFailures(evs)
           N == Neighbours(evs, F)
           P == FirstOf(MaxIdles, LongIdles(evs), Longest(evs))
           R == RepeatedEdits(evs, WithPauses(evs))
<1>1. /\ {MaxCandidates, MaxFailures, MaxNeighbours, MaxIdles} \subseteq Nat
      /\ 2 * MaxFailures <= MaxNeighbours
      /\ MaxFailures + MaxNeighbours + MaxIdles <= MaxCandidates
  BY CandidatesAssumption
<1>2. /\ IsFiniteSet(D) /\ Cardinality(D) = Len(evs) /\ Len(evs) \in Nat
      /\ \A i \in D : i \in Int
  BY RecordingFacts
<1>3. ASSUME NEW S \in SUBSET D
      PROVE  IsFiniteSet(S) /\ Cardinality(S) \in Nat /\ Cardinality(S) <= Cardinality(D)
  BY <1>2, FS_Subset, FS_CardinalityType
<1>4. F \subseteq D /\ Cardinality(F) <= MaxFailures
  <2>1. Failures(evs) \subseteq D
    BY DEF Failures, Of
  <2>2. Orders(Forward(evs), Failures(evs)) /\ IsFiniteSet(Failures(evs))
          /\ Cardinality(Failures(evs)) \in Nat
    BY <1>3, <2>1, EventOrders
  <2>3. /\ F \subseteq Failures(evs)
        /\ Cardinality(F) = IF Cardinality(Failures(evs)) <= MaxFailures
                            THEN Cardinality(Failures(evs)) ELSE MaxFailures
    BY <1>1, <2>2, FirstOfCounts DEF FirstFailures
  <2> QED
    BY <1>1, <2>1, <2>2, <2>3
<1>5. N \subseteq D /\ Cardinality(N) <= MaxNeighbours
  <2>1. N \subseteq D /\ Cardinality(N) <= 2 * Cardinality(F)
    BY <1>4, NeighboursCount
  <2> QED
    BY <1>1, <1>3, <1>4, <2>1
<1>6. P \subseteq D /\ Cardinality(P) <= MaxIdles
  <2>1. LongIdles(evs) \subseteq D
    BY DEF LongIdles, Of
  <2>2. Orders(Longest(evs), LongIdles(evs)) /\ IsFiniteSet(LongIdles(evs))
          /\ Cardinality(LongIdles(evs)) \in Nat
    BY <1>3, <2>1, EventOrders
  <2>3. /\ P \subseteq LongIdles(evs)
        /\ Cardinality(P) = IF Cardinality(LongIdles(evs)) <= MaxIdles
                            THEN Cardinality(LongIdles(evs)) ELSE MaxIdles
    BY <1>1, <2>2, FirstOfCounts
  <2> QED
    BY <1>1, <2>1, <2>2, <2>3
<1>7. R \subseteq D
  BY DEF RepeatedEdits, Of
<1> HIDE DEF D, F, N, P, R
<1>8. WithFailures(evs) = F
  <2>1. \A i \in F : <<i, i>> \notin Forward(evs)
    BY <1>2, <1>4, EventOrders DEF Orders, D
  <2>2. /\ IsFiniteSet({}) /\ Cardinality({}) = 0
    BY FS_EmptySet
  <2>3. IsFiniteSet(F) /\ Cardinality(F) \in Nat
    BY <1>3, <1>4
  <2>4. AddUpTo(MaxCandidates, {}, F, Forward(evs)) = {} \union F
    <3>1. MaxCandidates \in Nat /\ Cardinality(F) <= MaxCandidates
      BY <1>1, <1>4, <2>3
    <3>2. Cardinality({}) + Cardinality(F) <= MaxCandidates
      BY <2>2, <2>3, <3>1
    <3> QED
      BY <2>1, <2>2, <2>3, <3>1, <3>2, AddedWhole
  <2> QED
    BY <2>4 DEF WithFailures, AddAll, F
<1>9. WithNeighbours(evs) = F \union N
  <2>1. \A i \in N : <<i, i>> \notin ByFailure(evs, F)
    <3> SUFFICES ASSUME NEW i \in N, <<i, i>> \in ByFailure(evs, F) PROVE FALSE
      OBVIOUS
    <3>1. PICK t \in Turns(evs, F, i) : \A u \in Turns(evs, F, i) : t < u
      BY DEF ByFailure
    <3>2. t \in Int
      BY <1>2, <1>4 DEF Turns
    <3> QED
      BY <3>1, <3>2
  <2>2. /\ IsFiniteSet(F) /\ Cardinality(F) \in Nat
        /\ IsFiniteSet(N) /\ Cardinality(N) \in Nat
    BY <1>3, <1>4, <1>5
  <2>3. AddUpTo(MaxNeighbours, F, N, ByFailure(evs, F)) = F \union N
    <3>1. Cardinality(F) + Cardinality(N) <= MaxCandidates
      BY <1>1, <1>4, <1>5, <2>2
    <3> QED
      BY <1>1, <1>5, <2>1, <2>2, <3>1, AddedWhole
  <2> QED
    BY <1>8, <2>3 DEF WithNeighbours, F, N
<1>10. /\ WithPauses(evs) = (F \union N) \union P
       /\ WithPauses(evs) \subseteq D /\ Cardinality(WithPauses(evs)) <= MaxCandidates
  <2>1. \A i \in P : <<i, i>> \notin Longest(evs)
    BY <1>6, EventOrders DEF Orders, D
  <2>2. /\ IsFiniteSet(F) /\ Cardinality(F) \in Nat
        /\ IsFiniteSet(N) /\ Cardinality(N) \in Nat
        /\ IsFiniteSet(P) /\ Cardinality(P) \in Nat
        /\ IsFiniteSet(F \union N) /\ Cardinality(F \union N) \in Nat
        /\ IsFiniteSet((F \union N) \union P) /\ Cardinality((F \union N) \union P) \in Nat
    BY <1>3, <1>4, <1>5, <1>6
  <2>3. Cardinality(F \union N) <= Cardinality(F) + Cardinality(N)
    BY <2>2, UnionCount
  <2>4. Cardinality((F \union N) \union P) <= Cardinality(F \union N) + Cardinality(P)
    BY <2>2, UnionCount
  <2>5. Cardinality(F \union N) + Cardinality(P) <= MaxCandidates
          /\ Cardinality(P) <= MaxCandidates
    BY <1>1, <1>4, <1>5, <1>6, <2>2, <2>3
  <2>6. AddUpTo(MaxCandidates, F \union N, P, Longest(evs)) = (F \union N) \union P
    BY <1>1, <2>1, <2>2, <2>5, AddedWhole
  <2>7. WithPauses(evs) = (F \union N) \union P
    BY <1>9, <2>6 DEF WithPauses, AddAll, P
  <2>8. Cardinality((F \union N) \union P) <= MaxCandidates
    BY <1>1, <2>2, <2>4, <2>5
  <2> QED
    BY <1>4, <1>5, <1>6, <2>7, <2>8
<1>11. /\ WithPauses(evs) \subseteq WithEdits(evs)
       /\ WithEdits(evs) \subseteq D /\ Cardinality(WithEdits(evs)) <= MaxCandidates
  <2> DEFINE W == WithPauses(evs)
  <2>1. IsFiniteSet(W) /\ IsFiniteSet(R) /\ Cardinality(W) \in Nat
    BY <1>3, <1>7, <1>10
  <2>2. Orders(Forward(evs), R \ W)
    BY <1>7, EventOrders DEF D
  <2>3. Cardinality(R \ W) \in Nat
    BY <1>3, <1>7
  <2> HIDE DEF W
  <2>4. /\ W \subseteq AddAll(W, R, Forward(evs))
        /\ AddAll(W, R, Forward(evs)) \subseteq W \union R
        /\ Cardinality(AddAll(W, R, Forward(evs))) =
              Cardinality(W) + IF Cardinality(R \ W) <= MaxCandidates - Cardinality(W)
                               THEN Cardinality(R \ W) ELSE MaxCandidates - Cardinality(W)
    BY <1>10, <2>1, <2>2, AddedCounts DEF W
  <2>5. WithEdits(evs) = AddAll(W, R, Forward(evs))
    BY DEF WithEdits, W, R
  <2>6. Cardinality(AddAll(W, R, Forward(evs))) <= MaxCandidates
    BY <1>1, <2>1, <2>3, <2>4
  <2> QED
    BY <1>7, <1>10, <2>4, <2>5, <2>6 DEF W
<1>12. /\ WithEdits(evs) \subseteq Candidates(evs) /\ Candidates(evs) \subseteq D
       /\ Cardinality(Candidates(evs)) = Min({MaxCandidates, Len(evs)})
  <2> DEFINE W == WithEdits(evs)
  <2>1. IsFiniteSet(W) /\ IsFiniteSet(D) /\ Cardinality(W) \in Nat
    BY <1>2, <1>3, <1>11
  <2>2. Orders(Backward(evs), D \ W)
    BY EventOrders DEF D
  <2>3. Cardinality(D \ W) = Cardinality(D) - Cardinality(W)
    <3>1. D \cap W = W
      BY <1>11
    <3> QED
      BY <2>1, <3>1, FS_Difference
  <2>4. W \subseteq D /\ Cardinality(W) <= MaxCandidates
    BY <1>11
  <2> HIDE DEF W
  <2>5. /\ W \subseteq AddAll(W, D, Backward(evs))
        /\ AddAll(W, D, Backward(evs)) \subseteq W \union D
        /\ Cardinality(AddAll(W, D, Backward(evs))) =
              Cardinality(W) + IF Cardinality(D \ W) <= MaxCandidates - Cardinality(W)
                               THEN Cardinality(D \ W) ELSE MaxCandidates - Cardinality(W)
    BY <2>1, <2>2, <2>4, AddedCounts
  <2>6. Candidates(evs) = AddAll(W, D, Backward(evs))
    BY DEF Candidates, W, D
  <2>7. Cardinality(Candidates(evs)) = IF MaxCandidates <= Len(evs)
                                       THEN MaxCandidates ELSE Len(evs)
    BY <1>1, <1>2, <2>1, <2>3, <2>4, <2>5, <2>6
  <2>8. Min({MaxCandidates, Len(evs)}) = IF MaxCandidates <= Len(evs)
                                         THEN MaxCandidates ELSE Len(evs)
    <3> DEFINE a == MaxCandidates
               b == Len(evs)
    <3>1. a \in Int /\ b \in Int
      BY <1>1, <1>2
    <3> HIDE DEF a, b
    <3>2. Min({a, b}) = IF a <= b THEN a ELSE b
      BY <3>1, LesserOfTwo
    <3> QED
      BY <3>2 DEF a, b
  <2> QED
    BY <2>4, <2>5, <2>6, <2>7, <2>8 DEF W
<1> QED
  BY <1>10, <1>11, <1>12 DEF D, F, N, P

\* Each early failure is among the first.
LEMMA EarlyIsFirst ==
  ASSUME NEW evs \in Recordings, NEW i \in DOMAIN evs,
         evs[i].kind = "code_execution", evs[i].result = "failure",
         Cardinality({j \in 1 .. i : /\ evs[j].kind = "code_execution"
                                     /\ evs[j].result = "failure"}) <= MaxFailures
  PROVE  i \in FirstFailures(evs)
<1> DEFINE E == {j \in 1 .. i : /\ evs[j].kind = "code_execution"
                                /\ evs[j].result = "failure"}
           T == {j \in Failures(evs) : <<j, i>> \in Forward(evs)}
<1>1. DOMAIN evs = 1 .. Len(evs) /\ Len(evs) \in Nat /\ i \in Nat /\ MaxFailures \in Nat
  BY RecordingFacts, CandidatesAssumption
<1>2. T \subseteq E /\ i \in E /\ i \notin T
  BY <1>1 DEF Failures, Of, Forward, Pairs
<1>3. IsFiniteSet(1 .. i)
  BY <1>1, FS_Interval
<1>4. IsFiniteSet(E)
  BY <1>3, FS_Subset
<1>5. IsFiniteSet(T) /\ Cardinality(T) <= Cardinality(E) /\ Cardinality(T) # Cardinality(E)
  BY <1>2, <1>4, FS_Subset
<1>6. Cardinality(T) \in Nat /\ Cardinality(E) \in Nat
  BY <1>4, <1>5, FS_CardinalityType
<1>7. i \in Failures(evs)
  BY DEF Failures, Of
<1>8. Cardinality(E) <= MaxFailures
  OBVIOUS
<1> HIDE DEF T, E
<1>9. Cardinality(T) < MaxFailures
  BY <1>1, <1>5, <1>6, <1>8
<1> QED
  BY <1>7, <1>9 DEF FirstFailures, FirstOf, T

\* A pause that is not shown is no longer than MaxIdles that are.
LEMMA LongerIdlesFirst ==
  ASSUME NEW evs \in Recordings, NEW i \in LongIdles(evs),
         i \notin FirstOf(MaxIdles, LongIdles(evs), Longest(evs))
  PROVE  /\ Cardinality(FirstOf(MaxIdles, LongIdles(evs), Longest(evs))) = MaxIdles
         /\ \A j \in FirstOf(MaxIdles, LongIdles(evs), Longest(evs)) :
               evs[j].lasted >= evs[i].lasted
<1> DEFINE S == LongIdles(evs)
           R == Longest(evs)
           P == FirstOf(MaxIdles, S, R)
           place == Place(R, S)
<1>1. MaxIdles \in Nat
  BY CandidatesAssumption
<1>2. S \subseteq DOMAIN evs
  BY DEF LongIdles, Of
<1>3. IsFiniteSet(S) /\ Orders(R, S) /\ Cardinality(S) \in Nat
  BY <1>2, RecordingFacts, EventOrders, FS_Subset, FS_CardinalityType
<1>4. /\ place \in [S -> 0 .. Cardinality(S) - 1]
      /\ \A j, k \in S : <<j, k>> \in R => place[j] < place[k]
  BY <1>3, PlaceFacts
<1>5. P = {j \in S : place[j] < MaxIdles}
  BY DEF FirstOf, Place
<1>6. Cardinality(P) = IF Cardinality(S) <= MaxIdles THEN Cardinality(S) ELSE MaxIdles
  BY <1>1, <1>3, FirstOfCounts
<1> HIDE DEF place, P
<1>7. i \in S /\ place[i] \in Int /\ ~(place[i] < MaxIdles) /\ Cardinality(S) > MaxIdles
  BY <1>1, <1>3, <1>4, <1>5 DEF P
<1>8. ASSUME NEW j \in P
      PROVE  evs[j].lasted >= evs[i].lasted
  <2>1. j \in S /\ place[j] \in Int /\ place[j] < MaxIdles
    BY <1>4, <1>5
  <2>2. ~(<<i, j>> \in R) /\ i # j
    BY <1>1, <1>4, <1>7, <2>1
  <2>3. <<j, i>> \in R
    BY <1>3, <1>7, <2>1, <2>2 DEF Orders
  <2>4. evs[j].lasted \in Int /\ evs[i].lasted \in Int
    BY <1>2, <1>7, <2>1, RecordingFacts
  <2> QED
    BY <2>3, <2>4 DEF Longest, Pairs
<1>9. Cardinality(P) = MaxIdles
  BY <1>1, <1>3, <1>6, <1>7
<1> QED
  BY <1>8, <1>9 DEF P

\* The choice keeps its promise for every recording.
LEMMA FailuresShown ==
  ASSUME NEW evs \in Recordings
  PROVE  FailuresAreShown(evs)
<1> DEFINE chosen == Candidates(evs)
           Failed(i) == evs[i].kind = "code_execution" /\ evs[i].result = "failure"
           Early(i) == Failed(i) /\ Cardinality({j \in 1 .. i : Failed(j)}) <= MaxFailures
           There(i, j) == Identity(evs[i]) = Identity(evs[j])
           Edited(j, i) ==
             /\ j < i /\ evs[j].kind \in Edits /\ There(i, j)
             /\ \A k \in (j + 1) .. (i - 1) : ~(evs[k].kind \in Edits /\ There(i, k))
           Rerun(j, i) ==
             /\ j > i /\ evs[j].kind = "code_execution" /\ There(i, j)
             /\ \A k \in (i + 1) .. (j - 1) :
                   ~(evs[k].kind = "code_execution" /\ There(i, k))
           Pause(i) == evs[i].kind = "idle" /\ evs[i].lasted >= IdleThreshold
           P == FirstOf(MaxIdles, LongIdles(evs), Longest(evs))
<1>1. /\ DOMAIN evs = 1 .. Len(evs) /\ Len(evs) \in Nat /\ IsFiniteSet(DOMAIN evs)
      /\ \A i \in DOMAIN evs : i \in Int
  BY RecordingFacts
<1>2. chosen \subseteq DOMAIN evs /\ Cardinality(chosen) = Min({MaxCandidates, Len(evs)})
  BY ChoiceFacts
<1>3. ASSUME NEW i \in DOMAIN evs, Early(i)
      PROVE  /\ i \in chosen
             /\ \A j \in DOMAIN evs : Edited(j, i) \/ Rerun(j, i) => j \in chosen
  <2>1. i \in FirstFailures(evs)
    BY <1>3, EarlyIsFirst
  <2>2. LedTo(evs, i) \subseteq chosen /\ CameOf(evs, i) \subseteq chosen
    <3>1. LedTo(evs, i) \union CameOf(evs, i) \subseteq Neighbours(evs, FirstFailures(evs))
      BY <2>1 DEF Neighbours
    <3>2. Neighbours(evs, FirstFailures(evs)) \subseteq chosen
      BY ChoiceFacts
    <3> QED
      BY <3>1, <3>2
  <2>3. ASSUME NEW j \in DOMAIN evs, Edited(j, i)
        PROVE  j \in LedTo(evs, i)
    <3>1. \A k \in DOMAIN evs : k < i /\ ~(k <= j) => k \in (j + 1) .. (i - 1)
      BY <1>1
    <3>2. j \in {k \in At(evs, Edits, Identity(evs[i])) : k < i}
      BY <2>3 DEF At, Of
    <3>3. \A k \in {k \in At(evs, Edits, Identity(evs[i])) : k < i} : k <= j
      BY <2>3, <3>1 DEF At, Of
    <3> QED
      BY <3>2, <3>3 DEF LedTo, LastIn
  <2>4. ASSUME NEW j \in DOMAIN evs, Rerun(j, i)
        PROVE  j \in CameOf(evs, i)
    <3>1. \A k \in DOMAIN evs : k > i /\ ~(j <= k) => k \in (i + 1) .. (j - 1)
      BY <1>1
    <3>2. j \in {k \in At(evs, {"code_execution"}, Identity(evs[i])) : k > i}
      BY <2>4 DEF At, Of
    <3>3. \A k \in {k \in At(evs, {"code_execution"}, Identity(evs[i])) : k > i} : j <= k
      BY <2>4, <3>1 DEF At, Of
    <3> QED
      BY <3>2, <3>3 DEF CameOf
  <2> HIDE DEF Edited, Rerun, chosen
  <2>5. i \in chosen
    BY <2>1, ChoiceFacts DEF chosen
  <2> QED
    BY <2>2, <2>3, <2>4, <2>5
<1>4. ASSUME NEW i \in DOMAIN evs \ chosen, Pause(i)
      PROVE  MaxIdles <= Cardinality({j \in chosen :
                             Pause(j) /\ evs[j].lasted >= evs[i].lasted})
  <2> DEFINE Q == {j \in chosen : Pause(j) /\ evs[j].lasted >= evs[i].lasted}
  <2>1. i \in LongIdles(evs) /\ P \subseteq chosen
    BY <1>4, ChoiceFacts DEF LongIdles, Of
  <2>2. Cardinality(P) = MaxIdles /\ \A j \in P : evs[j].lasted >= evs[i].lasted
    BY <1>4, <2>1, LongerIdlesFirst
  <2>3. P \subseteq Q
    BY <2>1, <2>2 DEF FirstOf, LongIdles, Of
  <2>4. IsFiniteSet(Q)
    BY <1>1, <1>2, FS_Subset
  <2> HIDE DEF P, Q
  <2>5. Cardinality(P) <= Cardinality(Q)
    BY <2>3, <2>4, FS_Subset
  <2> QED
    BY <2>2, <2>5 DEF Q
<1> HIDE DEF chosen, Early, Edited, Rerun, Pause
<1>5. /\ \A i \in DOMAIN evs : Early(i) =>
            /\ i \in chosen
            /\ \A j \in DOMAIN evs : Edited(j, i) \/ Rerun(j, i) => j \in chosen
      /\ \A i \in DOMAIN evs \ chosen : Pause(i) =>
            MaxIdles <= Cardinality({j \in chosen :
                            Pause(j) /\ evs[j].lasted >= evs[i].lasted})
  BY <1>3, <1>4
<1> QED
  BY <1>2, <1>5 DEF FailuresAreShown, chosen, Early, Edited, Rerun, Pause

-----------------------------------------------------------------------------
\* The asking.

\* A row that is taken has no fault, and is of a dimension that may be judged.
RowsAreSound ==
  \A d \in DOMAIN valid : d \in Analyzable /\ ~RowFault(d, valid[d])

\* Everything that was shown and is judged follows from the recording.
Begun ==
  /\ coverage = [d \in Dims |-> Coverage(Minimum[d], Signals(events))]
  /\ shown = Candidates(events)

\* What is left open when the asking ends has a reason.
GapsHaveReasons == Unsettled # {} => failure # Missing

\* The invariant behind the theorems about the asking.
AnalysisIInv ==
  /\ events \in Recordings
  /\ phase \in {"begin", "initial", "repair", "assemble", "done"}
  /\ clock \in Nat /\ EndsInTime
  /\ failure \in Reasons \union {Missing}
  /\ IF phase = "begin" THEN valid = <<>> ELSE Begun
  /\ RowsAreSound
  /\ phase \in {"assemble", "done"} => GapsHaveReasons
  /\ phase # "done" => outcome = Missing
  /\ ResultsAreHonest

\* A dimension that is judged has every signal it requires.
LEMMA CoverageFacts ==
  ASSUME NEW minimum, NEW signals
  PROVE  /\ Coverage(minimum, signals) \in
              {"sufficient_for_analysis", "insufficient_evidence", "not_computable"}
         /\ Coverage(minimum, signals) = "sufficient_for_analysis" =>
              \A s \in DOMAIN minimum : signals[s] # Missing /\ signals[s] >= minimum[s]
<1> DEFINE poor == DOMAIN minimum = {} \/ ~(DOMAIN minimum \subseteq Requirable)
           gaps == \E s \in DOMAIN minimum : signals[s] = Missing
           enough == \A s \in DOMAIN minimum : signals[s] >= minimum[s]
<1>1. Coverage(minimum, signals) =
        CASE poor            -> "not_computable"
          [] ~poor /\ gaps   -> "not_computable"
          [] OTHER           -> IF enough THEN "sufficient_for_analysis"
                                ELSE "insufficient_evidence"
  BY DEF Coverage
<1>2. ~gaps => \A s \in DOMAIN minimum : signals[s] # Missing
  OBVIOUS
<1> HIDE DEF poor, gaps
<1>3. Coverage(minimum, signals) = "sufficient_for_analysis" => ~gaps /\ enough
  BY <1>1
<1> QED
  BY <1>1, <1>2, <1>3

\* Every reason is published as an error, and only a reason is.
LEMMA ErrorCodeFacts ==
  /\ \A why \in Reasons : ErrorCode(why) \in ErrorCodes
  /\ \A why \in Reasons : why # Missing
  /\ ErrorCode(Missing) = Missing
  /\ Missing \notin ErrorCodes
<1>1. Missing \notin Reasons /\ Missing \notin ErrorCodes
  BY MissingAssumption
<1>2. ASSUME NEW why \in Reasons
      PROVE  ErrorCode(why) \in ErrorCodes
  <2>1. why # Missing
    BY <1>1
  <2>2. \/ why \in {"deadline", "timeout"} \/ why = "network" \/ why = "rate_limited"
        \/ why = "unauthorized" \/ why = "rejected" \/ why = "unavailable"
        \/ why = "truncated" \/ why \in {"invalid", "incomplete"}
        \/ why = "not_configured" \/ why = "unclassified"
    BY DEF Reasons, Transient, Final
  <2>3. CASE why \in {"deadline", "timeout"}
    BY <2>1, <2>3 DEF ErrorCode, ErrorCodes
  <2>4. CASE why \in {"invalid", "incomplete"}
    BY <2>1, <2>4 DEF ErrorCode, ErrorCodes
  <2>5. CASE why \in {"network", "rate_limited", "unauthorized", "rejected"}
    BY <2>1, <2>5 DEF ErrorCode, ErrorCodes
  <2>6. CASE why \in {"unavailable", "truncated", "not_configured", "unclassified"}
    BY <2>1, <2>6 DEF ErrorCode, ErrorCodes
  <2> QED
    BY <2>2, <2>3, <2>4, <2>5, <2>6
<1>3. ErrorCode(Missing) = Missing
  BY <1>1 DEF Reasons, Transient, Final, ErrorCode
<1> QED
  BY <1>1, <1>2, <1>3

\* Only rows without fault, of dimensions that were asked about, are taken.
LEMMA ValidatedFacts ==
  ASSUME NEW asked, NEW response
  PROVE  /\ DOMAIN Validated(asked, response) \subseteq asked
         /\ \A d \in DOMAIN Validated(asked, response) :
               ~RowFault(d, Validated(asked, response)[d])
BY DEF Validated

\* An answer in its time ends no later than Overrun after the deadline.
LEMMA CallsEnd ==
  ASSUME clock \in Nat, NEW t, CallMay(t)
  PROVE  t \in Nat /\ clock + t \in Nat /\ clock + t <= Total + Overrun
<1>1. CallTimeout \in Nat /\ Total \in Nat /\ Overrun \in Nat
  BY TimesAssumption
<1>2. Total - clock \in Int /\ clock < Total
  BY <1>1 DEF CallMay
<1>3. Allowed = IF CallTimeout <= Total - clock THEN CallTimeout ELSE Total - clock
  BY <1>1, <1>2, LesserOfTwo DEF Allowed
<1>4. t \in 0 .. (Allowed + Overrun)
  BY DEF CallMay
<1> QED
  BY <1>1, <1>2, <1>3, <1>4

\* What the validation and the worker agree on.
LEMMA VerdictFacts ==
  ASSUME AnalysisIInv, phase # "begin", NEW d \in Dims
  PROVE  LET v == Verdict(d)
         IN  /\ v.status = "resolved" =>
                  v.evidence \in {"observed", "not_observed",
                                  "insufficient_evidence", "not_computable"}
             /\ v.status = "partial" => v.evidence = Missing /\ v.level = Missing
             /\ v.evidence = "observed" =>
                  v.claims # {} /\ v.level \in {"possible", "clear"}
             /\ v.evidence # "observed" => v.level = Missing
             /\ v.status \in {"resolved", "partial"}
             /\ v.status = "partial" => d \in Unsettled
             /\ v.source = "llm_evidence" /\ v.status = "resolved" =>
                  d \in Analyzable /\ d \in DOMAIN valid /\ v.claims = valid[d].claims
<1>1. coverage[d] \in
        {"sufficient_for_analysis", "insufficient_evidence", "not_computable"}
  BY CoverageFacts DEF AnalysisIInv, Begun
<1>2. d \in Analyzable <=> coverage[d] = "sufficient_for_analysis"
  BY DEF Analyzable
<1>3. CASE coverage[d] # "sufficient_for_analysis"
  <2>1. Verdict(d) = [status |-> "resolved", evidence |-> coverage[d], level |-> Missing,
                      source |-> "coverage", claims |-> {}]
    <3>1. d \notin DOMAIN valid
      BY <1>2, <1>3 DEF AnalysisIInv, RowsAreSound
    <3> QED
      BY <1>3, <3>1 DEF Verdict
  <2>2. coverage[d] # "observed"
    BY <1>1
  <2> QED
    BY <1>1, <1>3, <2>1, <2>2
<1>4. CASE coverage[d] = "sufficient_for_analysis" /\ d \in DOMAIN valid
  <2>1. ~RowFault(d, valid[d])
    BY <1>4 DEF AnalysisIInv, RowsAreSound
  <2>2. Levels[d] \subseteq {"possible", "clear"}
    BY ProfileAssumption
  <2>3. /\ valid[d].status \in {"observed", "not_observed"}
        /\ valid[d].status = "not_observed" => valid[d].level = Missing
        /\ valid[d].status = "observed" => /\ valid[d].level \in {"possible", "clear"}
                                           /\ valid[d].claims # {}
    BY <2>1, <2>2 DEF RowFault, Ungrounded
  <2>4. Verdict(d) = [status |-> "resolved", evidence |-> valid[d].status,
                      level |-> valid[d].level, source |-> "llm_evidence",
                      claims |-> valid[d].claims]
    BY <1>4 DEF Verdict
  <2> QED
    BY <1>2, <1>4, <2>3, <2>4
<1>5. CASE coverage[d] = "sufficient_for_analysis" /\ d \notin DOMAIN valid
  <2>1. d \in Unsettled
    BY <1>2, <1>5 DEF Unsettled
  <2>2. Verdict(d) = [status |-> "partial", evidence |-> Missing, level |-> Missing,
                      source |-> "llm_evidence", claims |-> {}]
    BY <1>5 DEF Verdict
  <2> QED
    BY <2>1, <2>2, MissingAssumption
<1> QED
  BY <1>3, <1>4, <1>5

\* The result is honest as the worker assembles it.
LEMMA AssembleKeeps ==
  ASSUME AnalysisIInv, Assemble
  PROVE  AnalysisIInv'
<1> DEFINE verdicts == [d \in Dims |-> Verdict(d)]
           whole == /\ \A d \in Dims : verdicts[d].status = "resolved"
                    /\ strangers = {}
                    /\ failure = Missing
           published == [status |-> IF whole THEN "ready" ELSE "partial",
                         error |-> ErrorCode(failure), verdicts |-> verdicts]
<1>1. /\ phase = "assemble" /\ phase' = "done" /\ Begun /\ GapsHaveReasons
      /\ UNCHANGED <<events, coverage, shown, clock, valid, strangers, failure>>
  BY DEF Assemble, AnalysisIInv
<1>2. Publishable(verdicts)
  BY <1>1, VerdictFacts DEF Publishable
<1>3. outcome' = published
  BY <1>2 DEF Assemble
<1>4. ASSUME NEW d \in Dims
      PROVE  verdicts[d].source = "llm_evidence" /\ verdicts[d].status = "resolved" =>
                /\ \A s \in DOMAIN Minimum[d] :
                      /\ Signals(events)[s] # Missing
                      /\ Signals(events)[s] >= Minimum[d][s]
                /\ \A c \in verdicts[d].claims :
                      /\ c.event \in DOMAIN events
                      /\ c.event \in Candidates(events)
                      /\ <<c.criterion, c.direction>> \in
                            {<<k, Criteria[d][k]>> : k \in DOMAIN Criteria[d]}
  <2> SUFFICES ASSUME verdicts[d].source = "llm_evidence", verdicts[d].status = "resolved"
               PROVE  /\ \A s \in DOMAIN Minimum[d] :
                            /\ Signals(events)[s] # Missing
                            /\ Signals(events)[s] >= Minimum[d][s]
                      /\ \A c \in verdicts[d].claims :
                            /\ c.event \in DOMAIN events
                            /\ c.event \in Candidates(events)
                            /\ <<c.criterion, c.direction>> \in
                                  {<<k, Criteria[d][k]>> : k \in DOMAIN Criteria[d]}
    OBVIOUS
  <2>1. d \in Analyzable /\ d \in DOMAIN valid /\ verdicts[d].claims = valid[d].claims
    BY <1>1, VerdictFacts
  <2>2. Coverage(Minimum[d], Signals(events)) = "sufficient_for_analysis"
    BY <1>1, <2>1 DEF Begun, Analyzable
  <2>3. \A s \in DOMAIN Minimum[d] : /\ Signals(events)[s] # Missing
                                     /\ Signals(events)[s] >= Minimum[d][s]
    BY <2>2, CoverageFacts
  <2>4. ~RowFault(d, valid[d])
    BY <2>1 DEF AnalysisIInv, RowsAreSound
  <2>5. ASSUME NEW c \in valid[d].claims
        PROVE  /\ c.event \in shown /\ c.criterion \in DOMAIN Criteria[d]
               /\ c.direction = Criteria[d][c.criterion]
    BY <2>4 DEF RowFault
  <2>6. Candidates(events) \subseteq DOMAIN events
    BY ChoiceFacts DEF AnalysisIInv
  <2> QED
    BY <1>1, <2>1, <2>3, <2>5, <2>6 DEF Begun
<1>5. VerdictsAreGrounded'
  <2>1. outcome'.status # "error" /\ outcome'.verdicts = verdicts
    BY <1>3
  <2> HIDE DEF verdicts, published
  <2> QED
    BY <1>1, <1>4, <2>1 DEF VerdictsAreGrounded
<1>6. PartialSaysWhy'
  <2>1. /\ outcome'.status = IF whole THEN "ready" ELSE "partial"
        /\ outcome'.error = ErrorCode(failure)
        /\ outcome'.verdicts = verdicts
    BY <1>3
  <2>2. \A d \in Dims : verdicts[d].status # "resolved" =>
           verdicts[d].status = "partial"
    BY <1>1, VerdictFacts
  <2>3. (\E d \in Dims : verdicts[d].status = "partial") => failure # Missing
    BY <1>1, VerdictFacts DEF GapsHaveReasons
  <2>4. /\ failure # Missing => ErrorCode(failure) # Missing
        /\ failure = Missing => ErrorCode(failure) = Missing
    BY ErrorCodeFacts DEF AnalysisIInv
  <2> HIDE DEF verdicts, published
  <2>5. whole => /\ \A d \in Dims : verdicts[d].status = "resolved"
                 /\ failure = Missing
    OBVIOUS
  <2>6. ~whole /\ failure = Missing => strangers # {}
    BY <2>2, <2>3
  <2> HIDE DEF whole
  <2> QED
    BY <1>1, <2>1, <2>3, <2>4, <2>5, <2>6 DEF PartialSaysWhy
<1>7. RowsAreSound' /\ GapsHaveReasons' /\ Begun' /\ EndsInTime'
  BY <1>1 DEF AnalysisIInv, RowsAreSound, GapsHaveReasons, Begun, EndsInTime,
              Unsettled, Analyzable, RowFault, Ungrounded
<1> QED
  BY <1>1, <1>5, <1>6, <1>7 DEF AnalysisIInv, ResultsAreHonest

-----------------------------------------------------------------------------
\* The steps.

\* The invariant holds when an analysis begins.
LEMMA AnalysisBegins == AnalysisInit => AnalysisIInv
<1> SUFFICES ASSUME AnalysisInit PROVE AnalysisIInv
  OBVIOUS
<1>1. DOMAIN valid = {}
  BY DEF AnalysisInit
<1>2. Total \in Nat /\ Overrun \in Nat
  BY TimesAssumption
<1> QED
  BY <1>1, <1>2 DEF AnalysisInit, AnalysisIInv, RowsAreSound, EndsInTime,
     ResultsAreHonest, VerdictsAreGrounded, PartialSaysWhy

\* The choice of events and the first signals keep the invariant.
LEMMA BeginKeeps ==
  ASSUME AnalysisIInv, Begin
  PROVE  AnalysisIInv'
<1>1. /\ phase = "begin" /\ valid = <<>> /\ valid' = valid /\ events' = events
      /\ clock' = clock /\ failure' = failure /\ outcome' = outcome /\ outcome = Missing
  BY DEF Begin, AnalysisIInv
<1>2. DOMAIN valid' = {} /\ RowsAreSound'
  BY <1>1 DEF RowsAreSound
<1>3. Begun'
  BY <1>1 DEF Begin, Begun
<1>4. phase' \in {"initial", "assemble"} /\ (phase' = "assemble" => Analyzable' = {})
  BY DEF Begin, Analyzable
<1>5. phase' = "assemble" => GapsHaveReasons'
  BY <1>4 DEF GapsHaveReasons, Unsettled
<1>6. EndsInTime' /\ ResultsAreHonest'
  BY <1>1 DEF AnalysisIInv, EndsInTime, ResultsAreHonest, VerdictsAreGrounded,
              PartialSaysWhy
<1> QED
  BY <1>1, <1>2, <1>3, <1>4, <1>5, <1>6 DEF AnalysisIInv

\* A call that brings no row: it may end the asking, and then says why.
LEMMA FruitlessKeeps ==
  ASSUME AnalysisIInv, Asking,
         UNCHANGED <<events, coverage, shown, valid, strangers, outcome>>,
         clock' \in Nat, clock' <= Total + Overrun,
         \/ UNCHANGED <<phase, failure>>
         \/ phase' = "assemble" /\ failure' \in Reasons
  PROVE  AnalysisIInv'
<1>1. phase \in {"initial", "repair"} /\ outcome = Missing /\ Begun
  BY DEF Asking, AnalysisIInv
<1>2. Begun' /\ RowsAreSound' /\ EndsInTime'
  BY <1>1 DEF AnalysisIInv, Begun, RowsAreSound, EndsInTime, Analyzable,
              RowFault, Ungrounded
<1>3. ResultsAreHonest'
  BY <1>1 DEF ResultsAreHonest, VerdictsAreGrounded, PartialSaysWhy
<1>4. phase' = "assemble" => GapsHaveReasons'
  BY <1>1, ErrorCodeFacts DEF GapsHaveReasons
<1>5. phase' \in {"initial", "repair", "assemble"} /\ failure' \in Reasons \union {Missing}
  BY <1>1 DEF AnalysisIInv
<1> QED
  BY <1>1, <1>2, <1>3, <1>4, <1>5 DEF AnalysisIInv

\* An answer, whatever its rows, keeps the invariant.
LEMMA AnsweredKeeps ==
  ASSUME AnalysisIInv, NEW response, NEW t, Answered(response, t)
  PROVE  AnalysisIInv'
<1> DEFINE V == Validated(Unsettled, response)
<1>1. /\ CallMay(t) /\ Asking /\ clock' = clock + t /\ clock \in Nat
      /\ UNCHANGED <<events, coverage, shown, outcome>>
  BY DEF Answered, CallMay, AnalysisIInv
<1>2. clock' \in Nat /\ clock' <= Total + Overrun
  BY <1>1, CallsEnd
<1>3. CASE Breaks(Unsettled, response)
  <2>1. phase' = "assemble" /\ failure' = "unclassified" /\ UNCHANGED <<valid, strangers>>
    BY <1>3 DEF Answered, GiveUp
  <2>2. failure' \in Reasons
    BY <2>1 DEF Reasons, Final
  <2> QED
    BY <1>1, <1>2, <2>1, <2>2, FruitlessKeeps
<1>4. CASE ~Breaks(Unsettled, response)
  <2>1. valid' = Updated(valid, V) /\ Conclude(Unsettled \ DOMAIN valid')
    BY <1>4 DEF Answered
  <2>2. /\ DOMAIN V \subseteq Unsettled
        /\ \A d \in DOMAIN V : ~RowFault(d, V[d])
    BY ValidatedFacts
  <2> HIDE DEF V
  <2>3. /\ DOMAIN valid' = DOMAIN valid \union DOMAIN V
        /\ \A d \in DOMAIN valid' : valid'[d] = IF d \in DOMAIN V THEN V[d] ELSE valid[d]
    BY <2>1 DEF Updated
  <2>4. RowsAreSound'
    <3>1. \A d, row : RowFault(d, row)' <=> RowFault(d, row)
      BY <1>1 DEF RowFault, Ungrounded
    <3> SUFFICES ASSUME NEW d \in DOMAIN valid'
                 PROVE  d \in Analyzable' /\ ~RowFault(d, valid[d])'
      BY DEF RowsAreSound
    <3> QED
      BY <1>1, <2>2, <2>3 DEF AnalysisIInv, RowsAreSound, RowFault, Ungrounded,
                              Unsettled, Analyzable
  <2>5. /\ phase \in {"initial", "repair"} /\ outcome = Missing /\ Begun
        /\ failure \in Reasons \union {Missing}
    BY <1>1 DEF AnalysisIInv, Asking
  <2>6. /\ phase' \in {"repair", "assemble"} /\ failure' \in Reasons \union {Missing}
        /\ phase' = "assemble" /\ Unsettled \ DOMAIN valid' # {} => failure' # Missing
    BY <2>1, <2>5, MissingAssumption
       DEF Conclude, Finish, AskAgain, GiveUp, Reasons
  <2>7. Unsettled' = Unsettled \ DOMAIN valid'
    BY <1>1, <2>3 DEF Unsettled, Analyzable
  <2>8. phase' = "assemble" => GapsHaveReasons'
    BY <2>6, <2>7 DEF GapsHaveReasons
  <2>9. Begun' /\ EndsInTime' /\ ResultsAreHonest'
    BY <1>1, <1>2, <2>5 DEF Begun, EndsInTime, ResultsAreHonest, VerdictsAreGrounded,
                            PartialSaysWhy
  <2> QED
    BY <1>1, <1>2, <2>4, <2>5, <2>6, <2>8, <2>9 DEF AnalysisIInv
<1> QED
  BY <1>3, <1>4

\* Every step of the analysis keeps the invariant.
LEMMA AnalysisStep ==
  ASSUME AnalysisIInv, [AnalysisNext]_analysisVars
  PROVE  AnalysisIInv'
<1>1. CASE Begin
  BY <1>1, BeginKeeps
<1>2. CASE ProviderStep
  <2>1. PICK t \in 0 .. (CallTimeout + Overrun) :
          \/ \E response \in Responses : Answered(response, t)
          \/ Truncated(t)
          \/ \E why \in Transient : Unanswered(why, t)
          \/ TimedOut(t)
          \/ \E why \in Final : Refused(why, t)
    BY <1>2 DEF ProviderStep
  <2>2. CASE \E response \in Responses : Answered(response, t)
    BY <2>2, AnsweredKeeps
  <2>3. ASSUME CallMay(t)
        PROVE  /\ Asking /\ clock + t \in Nat /\ clock + t <= Total + Overrun
               /\ Total - (clock + t) > Wait =>
                     clock + t + Wait \in Nat /\ clock + t + Wait <= Total + Overrun
    <3>1. t \in Nat /\ clock + t \in Nat /\ clock + t <= Total + Overrun /\ clock \in Nat
      BY <2>3, CallsEnd DEF AnalysisIInv
    <3>2. Total \in Nat /\ Wait \in Nat /\ Overrun \in Nat
      BY TimesAssumption
    <3> QED
      BY <2>3, <3>1, <3>2 DEF CallMay
  <2>4. CASE Truncated(t)
    <3>1. \/ UNCHANGED <<phase, failure>>
          \/ phase' = "assemble" /\ failure' \in Reasons
      BY <2>4 DEF Truncated, GiveUp, Reasons
    <3> QED
      BY <2>3, <2>4, <3>1, FruitlessKeeps DEF Truncated
  <2>5. ASSUME NEW why \in Transient, Unanswered(why, t)
        PROVE  AnalysisIInv'
    <3>1. \/ UNCHANGED <<phase, failure>>
          \/ phase' = "assemble" /\ failure' \in Reasons
      BY <2>5 DEF Unanswered, GiveUp, Reasons
    <3>2. clock' \in Nat /\ clock' <= Total + Overrun
      BY <2>3, <2>5 DEF Unanswered
    <3> QED
      BY <2>3, <2>5, <3>1, <3>2, FruitlessKeeps DEF Unanswered
  <2>6. CASE TimedOut(t)
    <3>1. \/ UNCHANGED <<phase, failure>>
          \/ phase' = "assemble" /\ failure' \in Reasons
      BY <2>6 DEF TimedOut, GiveUp, Reasons
    <3> QED
      BY <2>3, <2>6, <3>1, FruitlessKeeps DEF TimedOut
  <2>7. ASSUME NEW why \in Final, Refused(why, t)
        PROVE  AnalysisIInv'
    <3>1. phase' = "assemble" /\ failure' \in Reasons
      BY <2>7 DEF Refused, GiveUp, Reasons
    <3> QED
      BY <2>3, <2>7, <3>1, FruitlessKeeps DEF Refused
  <2> QED
    BY <2>1, <2>2, <2>4, <2>5, <2>6, <2>7
<1>3. CASE OutOfTime
  <2>1. phase' = "assemble" /\ failure' \in Reasons
    BY <1>3 DEF OutOfTime, GiveUp, Reasons
  <2>2. clock' \in Nat /\ clock' <= Total + Overrun
    BY <1>3 DEF OutOfTime, AnalysisIInv, EndsInTime
  <2> QED
    BY <1>3, <2>1, <2>2, FruitlessKeeps DEF OutOfTime
<1>4. CASE Assemble
  BY <1>4, AssembleKeeps
<1>5. CASE UNCHANGED analysisVars
  BY <1>5 DEF analysisVars, AnalysisIInv, EndsInTime, Begun, RowsAreSound, GapsHaveReasons,
     ResultsAreHonest, VerdictsAreGrounded, PartialSaysWhy, Analyzable, Unsettled,
     RowFault, Ungrounded
<1> QED
  BY <1>1, <1>2, <1>3, <1>4, <1>5 DEF AnalysisNext, Done

(* The invariant holds of an analysis of any recording, for any profile and *)
(* any provider.                                                           *)
THEOREM AnalysisInvariant == AnalysisSpec => []AnalysisIInv
<1>1. AnalysisInit => AnalysisIInv
  BY AnalysisBegins
<1>2. AnalysisIInv /\ [AnalysisNext]_analysisVars => AnalysisIInv'
  BY AnalysisStep
<1> QED
  BY <1>1, <1>2, PTL DEF AnalysisSpec

(* A verdict that is published rests on what was recorded, and a result    *)
(* with a gap says why.                                                    *)
THEOREM ResultsHonest == AnalysisSpec => []ResultsAreHonest
<1>1. AnalysisIInv => ResultsAreHonest
  BY DEF AnalysisIInv
<1> QED
  BY <1>1, AnalysisInvariant, PTL

(* However it goes, an analysis ends within its time and one overrun.      *)
THEOREM AnalysisInTime == AnalysisSpec => []EndsInTime
<1>1. AnalysisIInv => EndsInTime
  BY DEF AnalysisIInv
<1> QED
  BY <1>1, AnalysisInvariant, PTL

(* The model is shown every early failure with what led to it and what     *)
(* came of it, and the longest pauses, whatever the recording.             *)
THEOREM FailuresReachModel == AnalysisSpec => []ModelSeesFailures
<1>1. AnalysisIInv => ModelSeesFailures
  BY FailuresShown DEF AnalysisIInv, ModelSeesFailures
<1> QED
  BY <1>1, AnalysisInvariant, PTL

-----------------------------------------------------------------------------
\* What the signals of a recording count, measure and share with its log.

\* A set of numbers has a least one.
LEMMA LeastNumber ==
  ASSUME NEW T, T \subseteq Nat, T # {}
  PROVE  \E x \in T : \A y \in T : x <= y
<1> DEFINE R == OpToRel(<, Nat)
<1>1. IsWellFoundedOn(R, Nat)
  BY NatLessThanWellFounded
<1>2. \A x, y \in Nat : <<y, x>> \in R <=> y < x
  BY DEF OpToRel
<1> HIDE DEF R
<1>3. PICK x \in T : \A y \in T : <<y, x>> \notin R
  BY <1>1, WFMin
<1>4. \A y \in T : x \in Nat /\ y \in Nat /\ ~(y < x)
  BY <1>2, <1>3
<1>5. \A y \in T : x <= y
  BY <1>4
<1> QED
  BY <1>5

\* What holds at the first place and is passed on from each place to the next
\* holds at all.
LEMMA StepByStep ==
  ASSUME NEW m \in Nat, NEW T, 0 \in T,
         \A n \in 1 .. m : n - 1 \in T => n \in T
  PROVE  0 .. m \subseteq T
<1> DEFINE U == (0 .. m) \ T
<1> SUFFICES ASSUME U # {}
             PROVE  FALSE
  OBVIOUS
<1>0. U \subseteq Nat
  OBVIOUS
<1>1. PICK x \in U : \A y \in U : x <= y
  <2> HIDE DEF U
  <2> QED
    BY <1>0, LeastNumber
<1>2. x \in 1 .. m /\ x - 1 \in 0 .. m /\ ~(x <= x - 1)
  BY <1>1
<1>3. x - 1 \in T
  BY <1>1, <1>2
<1> QED
  BY <1>1, <1>2, <1>3

\* f grows from start: each value follows from the one before it and its place.
Grows(f, m, R, start, g) ==
  /\ f \in [0 .. m -> R]
  /\ f[0] = start
  /\ \A n \in 1 .. m : f[n] = g[<<f[n - 1], n>>]

\* A function that is given at 0 and by its value one place before is there.
LEMMA Recursion ==
  ASSUME NEW m \in Nat, NEW R, NEW start \in R, NEW g \in [R \X (1 .. m) -> R]
  PROVE  \E f : Grows(f, m, R, start, g)
<1> DEFINE T == {k \in 0 .. m : \E f : Grows(f, k, R, start, g)}
<1>1. 0 \in T
  <2> DEFINE f == [n \in 0 .. 0 |-> start]
  <2>1. Grows(f, 0, R, start, g)
    BY DEF Grows
  <2> HIDE DEF f
  <2> QED
    BY <2>1
<1>2. ASSUME NEW k \in 1 .. m, k - 1 \in T
      PROVE  k \in T
  <2>1. PICK f : Grows(f, k - 1, R, start, g)
    BY <1>2
  <2> DEFINE h == [n \in 0 .. k |-> IF n = k THEN g[<<f[k - 1], k>>] ELSE f[n]]
  <2>2. f[k - 1] \in R /\ g[<<f[k - 1], k>>] \in R
    BY <2>1 DEF Grows
  <2>3. h \in [0 .. k -> R]
    BY <2>1, <2>2 DEF Grows
  <2>4. h[0] = start
    BY <2>1 DEF Grows
  <2>5. ASSUME NEW n \in 1 .. k
        PROVE  h[n] = g[<<h[n - 1], n>>]
    <3>1. n - 1 \in 0 .. k - 1 /\ h[n - 1] = f[n - 1]
      OBVIOUS
    <3>2. CASE n = k
      <4>1. h[k] = g[<<f[k - 1], k>>] /\ h[k - 1] = f[k - 1]
        BY <3>1, <3>2
      <4> HIDE DEF h
      <4> QED
        BY <3>2, <4>1
    <3>3. CASE n # k
      <4>1. n \in 1 .. k - 1 /\ h[n] = f[n]
        BY <3>3
      <4> QED
        BY <2>1, <3>1, <4>1 DEF Grows
    <3> QED
      BY <3>2, <3>3
  <2>6. Grows(h, k, R, start, g)
    <3> HIDE DEF h
    <3> QED
      BY <2>3, <2>4, <2>5 DEF Grows
  <2> HIDE DEF h
  <2> QED
    BY <2>6
<1>3. 0 .. m \subseteq T
  <2> HIDE DEF T
  <2> QED
    BY <1>1, <1>2, StepByStep
<1>4. m \in T
  <2> HIDE DEF T
  <2> QED
    BY <1>3
<1> QED
  BY <1>4

\* A finite set of integers has a greatest element.
LEMMA MaxIn ==
  ASSUME NEW S \in SUBSET Int, IsFiniteSet(S), S # {}
  PROVE  Max(S) \in S /\ \A x \in S : x <= Max(S)
<1> DEFINE T == {k \in Nat : \E x \in S : k = Cardinality({y \in S : y > x})}
<1>1. ASSUME NEW x \in S
      PROVE  Cardinality({y \in S : y > x}) \in T
  <2>1. IsFiniteSet({y \in S : y > x})
    BY FS_Subset
  <2> QED
    BY <2>1, FS_CardinalityType
<1>2. PICK k \in T : \A l \in T : k <= l
  BY <1>1, LeastNumber
<1>3. PICK x \in S : k = Cardinality({y \in S : y > x})
  BY <1>2
<1>4. \A y \in S : x >= y
  <2> SUFFICES ASSUME NEW y \in S, y > x
               PROVE  FALSE
    OBVIOUS
  <2> DEFINE A == {z \in S : z > x}
             B == {z \in S : z > y}
  <2>0. x \in Int /\ y \in Int /\ ~(y > y) /\ \A z \in S : z > y => z > x
    OBVIOUS
  <2>1. B \in SUBSET A /\ y \in A /\ y \notin B /\ A \in SUBSET S
    BY <2>0
  <2>2. /\ IsFiniteSet(A) /\ IsFiniteSet(B)
        /\ Cardinality(B) <= Cardinality(A) /\ Cardinality(A) # Cardinality(B)
    <3>1. IsFiniteSet(A)
      BY <2>1, FS_Subset
    <3> QED
      BY <2>1, <3>1, FS_Subset
  <2>3. Cardinality(B) \in Nat /\ Cardinality(A) \in Nat /\ Cardinality(B) \in T
    BY <1>1, <2>1, <2>2, FS_CardinalityType
  <2>4. k <= Cardinality(B) /\ k = Cardinality(A)
    BY <1>2, <1>3, <2>3
  <2> HIDE DEF A, B
  <2> QED
    BY <2>2, <2>3, <2>4
<1> QED
  BY <1>4 DEF Max

-----------------------------------------------------------------------------
\* The failures among the first n events that no run at their place followed.
OpenAfter(evs, n) ==
  {f \in 1 .. n :
     /\ f \in Runs(evs) /\ evs[f].result = "failure"
     /\ \A j \in (f + 1) .. n : j \in Runs(evs) => ~SamePlace(evs[f].place, evs[j].place)}

\* Failure f was followed by an edit at its place, by event n.
EditedSince(evs, f, n) ==
  \E j \in (f + 1) .. n :
     evs[j].kind \in Edits /\ SamePlace(evs[f].place, evs[j].place)

\* What was followed over the first n events.
FollowedUpTo(evs, st, n) ==
  /\ st \in [pending : SUBSET (1 .. n), edited : SUBSET (1 .. n), count : Nat]
  /\ st.pending = OpenAfter(evs, n)
  /\ \A f \in st.pending : f \in st.edited <=> EditedSince(evs, f, n)
  /\ st.count = Cardinality({i \in 1 .. n : AnswersFailure(evs, i)})

\* What is open at the place of an event was open before it.
LEMMA OpenHere ==
  ASSUME NEW evs, NEW n \in Nat \ {0}
  PROVE  Here(evs, OpenAfter(evs, n - 1), n) = OpenAt(evs, n)
BY DEF Here, OpenAfter, OpenAt

\* A run ends what is open at its place, and a failure is open after it.
LEMMA OpenNext ==
  ASSUME NEW evs, NEW n \in Nat \ {0}, n \in DOMAIN evs, OutcomesKnown(evs)
  PROVE  /\ n \notin Runs(evs) => OpenAfter(evs, n) = OpenAfter(evs, n - 1)
         /\ n \in Runs(evs) =>
              OpenAfter(evs, n) = (OpenAfter(evs, n - 1) \ OpenAt(evs, n))
                                    \union (IF evs[n].result = "failure" THEN {n} ELSE {})
<1>1. (n + 1) .. n = {} /\ n - 1 \in Nat
  OBVIOUS
<1>2. \A f \in 1 .. n - 1 : (f + 1) .. n = (f + 1) .. (n - 1) \union {n}
  OBVIOUS
<1>3. 1 .. n = 1 .. (n - 1) \union {n}
  OBVIOUS
<1> QED
  BY <1>1, <1>2, <1>3 DEF OpenAfter, OpenAt

\* One more place is counted if it belongs.
LEMMA CountNext ==
  ASSUME NEW n \in Nat \ {0}, NEW S
  PROVE  /\ Cardinality({i \in 1 .. n : i \in S}) \in Nat
         /\ Cardinality({i \in 1 .. n : i \in S}) =
              Cardinality({i \in 1 .. (n - 1) : i \in S}) + IF n \in S THEN 1 ELSE 0
<1> DEFINE A == {i \in 1 .. (n - 1) : i \in S}
           B == {i \in 1 .. n : i \in S}
<1>1. IsFiniteSet(1 .. (n - 1)) /\ IsFiniteSet(1 .. n)
  BY FS_Interval
<1>2. IsFiniteSet(A) /\ IsFiniteSet(B) /\ n \notin A
  BY <1>1, FS_Subset
<1>3. Cardinality(A) \in Nat /\ Cardinality(B) \in Nat
  BY <1>2, FS_CardinalityType
<1>4. B = IF n \in S THEN A \union {n} ELSE A
  OBVIOUS
<1>5. Cardinality(A \union {n}) = Cardinality(A) + 1
  BY <1>2, FS_AddElement
<1> HIDE DEF A, B
<1>6. Cardinality(B) = Cardinality(A) + IF n \in S THEN 1 ELSE 0
  BY <1>3, <1>4, <1>5
<1> QED
  BY <1>3, <1>6 DEF A, B

\* Following one more event keeps what was followed right.
LEMMA FollowStep ==
  ASSUME NEW evs, NEW n \in Nat \ {0}, n \in DOMAIN evs, OutcomesKnown(evs),
         NEW st, FollowedUpTo(evs, st, n - 1)
  PROVE  FollowedUpTo(evs, Follow(evs, st, n), n)
<1> DEFINE here == Here(evs, st.pending, n)
           edit == evs[n].kind \in Edits
           fail == evs[n].kind = "code_execution" /\ evs[n].result = "failure"
           pass == evs[n].kind = "code_execution" /\ evs[n].result = "success"
           new == Follow(evs, st, n)
           one == IF here # {} /\ Max(here) \in st.edited THEN 1 ELSE 0
<1>0. /\ st \in [pending : SUBSET (1 .. n - 1), edited : SUBSET (1 .. n - 1), count : Nat]
      /\ st.pending = OpenAfter(evs, n - 1)
      /\ \A f \in st.pending : f \in st.edited <=> EditedSince(evs, f, n - 1)
      /\ st.count = Cardinality({i \in 1 .. (n - 1) : AnswersFailure(evs, i)})
  BY DEF FollowedUpTo
<1>1. here = OpenAt(evs, n) /\ here \subseteq st.pending
  BY <1>0, OpenHere DEF Here
<1>2. (n \in Runs(evs) <=> fail \/ pass) /\ (edit => n \notin Runs(evs))
  BY DEF Runs, Of, Edits, OutcomesKnown
<1>3. /\ ~(edit /\ fail) /\ ~(edit /\ pass) /\ ~(fail /\ pass)
  BY DEF Edits
<1>4. st = [pending |-> st.pending, edited |-> st.edited, count |-> st.count]
  BY <1>0
<1>5. /\ edit => new = [pending |-> st.pending, edited |-> st.edited \union here,
                        count |-> st.count]
      /\ fail => new = [pending |-> (st.pending \ here) \union {n}, edited |-> st.edited,
                        count |-> st.count]
      /\ pass => new = [pending |-> st.pending \ here, edited |-> st.edited,
                        count |-> st.count + one]
      /\ ~edit /\ ~fail /\ ~pass => new = st
  <2>1. CASE edit
    BY <1>3, <1>4, <2>1 DEF Follow
  <2>2. CASE fail
    BY <1>3, <1>4, <2>2 DEF Follow, Opened
  <2>3. CASE pass
    BY <1>3, <1>4, <2>3 DEF Follow
  <2>4. CASE ~edit /\ ~fail /\ ~pass
    BY <2>4 DEF Follow
  <2> QED
    BY <1>3, <2>1, <2>2, <2>3, <2>4
<1> HIDE DEF new
<1>6. /\ new \in [pending : SUBSET (1 .. n), edited : SUBSET (1 .. n), count : Nat]
      /\ new.pending = OpenAfter(evs, n)
  <2>1. 1 .. (n - 1) \subseteq 1 .. n /\ n \in 1 .. n
    OBVIOUS
  <2>2. one \in Nat
    OBVIOUS
  <2> HIDE DEF here, one, edit, fail, pass
  <2>3. new \in [pending : SUBSET (1 .. n), edited : SUBSET (1 .. n), count : Nat]
    BY <1>0, <1>1, <1>5, <2>1, <2>2
  <2>4. /\ n \notin Runs(evs) => OpenAfter(evs, n) = st.pending
        /\ n \in Runs(evs) => OpenAfter(evs, n) = (st.pending \ here)
                              \union (IF evs[n].result = "failure" THEN {n} ELSE {})
    BY <1>0, <1>1, OpenNext
  <2>5. new.pending = OpenAfter(evs, n)
    <3>1. CASE fail
      <4>1. evs[n].result = "failure"
        BY <3>1 DEF fail
      <4> QED
        <5>1. new.pending = (st.pending \ here) \union {n}
          BY <1>5, <3>1
        <5>2. n \in Runs(evs)
          BY <1>2, <3>1
        <5>3. OpenAfter(evs, n) = (st.pending \ here) \union {n}
          BY <2>4, <4>1, <5>2
        <5> QED
          BY <5>1, <5>3
    <3>2. CASE pass
      <4>1. evs[n].result # "failure"
        BY <3>2 DEF pass
      <4> QED
        <5>1. new.pending = st.pending \ here
          BY <1>5, <3>2
        <5>2. n \in Runs(evs)
          BY <1>2, <3>2
        <5>3. OpenAfter(evs, n) = st.pending \ here
          BY <2>4, <4>1, <5>2
        <5> QED
          BY <5>1, <5>3
    <3>3. CASE ~fail /\ ~pass
      BY <1>2, <1>5, <2>4, <3>3
    <3> QED
      BY <3>1, <3>2, <3>3
  <2> QED
    BY <2>3, <2>5
<1>7. ASSUME NEW f \in new.pending
      PROVE  f \in new.edited <=> EditedSince(evs, f, n)
  <2>1. CASE f = n
    <3>1. ~EditedSince(evs, f, n) /\ n \notin 1 .. n - 1
      BY <2>1 DEF EditedSince
    <3>2. ~edit
      BY <1>0, <1>5, <2>1, <1>7
    <3> HIDE DEF here, one, edit, fail, pass
    <3>3. new.edited = st.edited
      BY <1>5, <3>2
    <3> QED
      BY <1>0, <2>1, <3>1, <3>3
  <2>2. CASE f # n
    <3>1. f \in st.pending
      BY <1>5, <2>2
    <3>2. (f + 1) .. n = (f + 1) .. (n - 1) \union {n}
      BY <1>0, <3>1
    <3>3. EditedSince(evs, f, n) <=> EditedSince(evs, f, n - 1)
                                      \/ (edit /\ SamePlace(evs[f].place, evs[n].place))
      BY <3>2 DEF EditedSince
    <3>4. f \in here <=> SamePlace(evs[f].place, evs[n].place)
      BY <3>1 DEF Here
    <3>5. f \in st.edited <=> EditedSince(evs, f, n - 1)
      BY <1>0, <3>1
    <3> HIDE DEF here, one, edit, fail, pass
    <3>6. /\ edit => new.edited = st.edited \union here
          /\ ~edit => new.edited = st.edited
      BY <1>5
    <3> QED
      BY <3>3, <3>4, <3>5, <3>6
  <2> QED
    BY <2>1, <2>2
<1>8. new.count = Cardinality({i \in 1 .. n : AnswersFailure(evs, i)})
  <2> DEFINE S == {i \in 1 .. n : AnswersFailure(evs, i)}
  <2>1. /\ {i \in 1 .. n : i \in S} = S
        /\ {i \in 1 .. (n - 1) : i \in S} = {i \in 1 .. (n - 1) : AnswersFailure(evs, i)}
        /\ n \in S <=> AnswersFailure(evs, n)
    OBVIOUS
  <2> HIDE DEF S
  <2>2. Cardinality(S) = st.count + IF AnswersFailure(evs, n) THEN 1 ELSE 0
    BY <1>0, <2>1, CountNext
  <2>3. pass /\ here # {} => (Max(here) \in st.edited <=> AnswersFailure(evs, n))
    <3> SUFFICES ASSUME pass, here # {}
                 PROVE  Max(here) \in st.edited <=> AnswersFailure(evs, n)
      OBVIOUS
    <3>1. Max(here) \in here
      <4>1. here \in SUBSET Int /\ IsFiniteSet(here)
        <5>1. IsFiniteSet(1 .. n - 1)
          BY FS_Interval
        <5> QED
          BY <1>0, <1>1, <5>1, FS_Subset
      <4> QED
        BY <4>1, MaxIn
    <3>2. Max(here) \in st.edited <=> EditedSince(evs, Max(here), n - 1)
      BY <1>0, <1>1, <3>1
    <3>3. AnswersFailure(evs, n) <=> EditedSince(evs, Max(here), n - 1)
      BY <1>1, <1>2 DEF AnswersFailure, EditedSince
    <3> QED
      BY <3>2, <3>3
  <2>4. AnswersFailure(evs, n) => pass /\ here # {}
    BY <1>1 DEF AnswersFailure, Runs, Of
  <2> HIDE DEF here, edit, fail, pass, one
  <2>5. st.count \in Nat
    BY <1>0
  <2>6. new.count = IF pass THEN st.count + one ELSE st.count
    BY <1>3, <1>5
  <2>7. pass => one = IF AnswersFailure(evs, n) THEN 1 ELSE 0
    BY <2>3, <2>4 DEF one
  <2> QED
    BY <2>2, <2>4, <2>5, <2>6, <2>7 DEF S
<1> QED
  BY <1>6, <1>7, <1>8 DEF FollowedUpTo, new

\* What was compared over the first n events.
ComparedUpTo(evs, st, n) ==
  /\ st \in [last : SUBSET (1 .. n), count : Nat]
  /\ st.last = OpenAfter(evs, n)
  /\ st.count = Cardinality({i \in 1 .. n : ChangesError(evs, i)})

\* Comparing one more event keeps what was compared right.
LEMMA CompareStep ==
  ASSUME NEW evs, NEW n \in Nat \ {0}, n \in DOMAIN evs, OutcomesKnown(evs),
         NEW st, ComparedUpTo(evs, st, n - 1)
  PROVE  ComparedUpTo(evs, Compare(evs, st, n), n)
<1> DEFINE here == Here(evs, st.last, n)
           fail == evs[n].kind = "code_execution" /\ evs[n].result = "failure"
           pass == evs[n].kind = "code_execution" /\ evs[n].result = "success"
           new == Compare(evs, st, n)
           one == IF here # {} /\ evs[Max(here)].error # evs[n].error THEN 1 ELSE 0
<1>0. /\ st \in [last : SUBSET (1 .. n - 1), count : Nat]
      /\ st.last = OpenAfter(evs, n - 1)
      /\ st.count = Cardinality({i \in 1 .. (n - 1) : ChangesError(evs, i)})
  BY DEF ComparedUpTo
<1>1. here = OpenAt(evs, n) /\ here \subseteq st.last
  BY <1>0, OpenHere DEF Here
<1>2. n \in Runs(evs) <=> fail \/ pass
  BY DEF Runs, Of, OutcomesKnown
<1>3. ~(fail /\ pass)
  OBVIOUS
<1>4. st = [last |-> st.last, count |-> st.count]
  BY <1>0
<1>5. /\ fail => new = [last |-> (st.last \ here) \union {n}, count |-> st.count + one]
      /\ pass => new = [last |-> st.last \ here, count |-> st.count]
      /\ ~fail /\ ~pass => new = st
  <2>1. CASE fail
    BY <1>3, <1>4, <2>1 DEF Compare
  <2>2. CASE pass
    BY <1>3, <1>4, <2>2 DEF Compare
  <2>3. CASE ~fail /\ ~pass
    BY <2>3 DEF Compare
  <2> QED
    BY <1>3, <2>1, <2>2, <2>3
<1> HIDE DEF new
<1>6. new \in [last : SUBSET (1 .. n), count : Nat] /\ new.last = OpenAfter(evs, n)
  <2>1. 1 .. (n - 1) \subseteq 1 .. n /\ n \in 1 .. n /\ one \in Nat
    OBVIOUS
  <2> HIDE DEF here, one, fail, pass
  <2>2. new \in [last : SUBSET (1 .. n), count : Nat]
    BY <1>0, <1>1, <1>5, <2>1
  <2>3. /\ n \notin Runs(evs) => OpenAfter(evs, n) = st.last
        /\ n \in Runs(evs) => OpenAfter(evs, n) = (st.last \ here)
                              \union (IF evs[n].result = "failure" THEN {n} ELSE {})
    BY <1>0, <1>1, OpenNext
  <2>4. CASE fail
    <3>1. new.last = (st.last \ here) \union {n}
      BY <1>5, <2>4
    <3>2. n \in Runs(evs) /\ evs[n].result = "failure"
      BY <1>2, <2>4 DEF fail
    <3>3. OpenAfter(evs, n) = (st.last \ here) \union {n}
      BY <2>3, <3>2
    <3> QED
      BY <2>2, <3>1, <3>3
  <2>5. CASE pass
    <3>1. new.last = st.last \ here
      BY <1>5, <2>5
    <3>2. n \in Runs(evs) /\ evs[n].result # "failure"
      BY <1>2, <2>5 DEF pass
    <3>3. OpenAfter(evs, n) = st.last \ here
      BY <2>3, <3>2
    <3> QED
      BY <2>2, <3>1, <3>3
  <2>6. CASE ~fail /\ ~pass
    BY <1>2, <1>5, <2>2, <2>3, <2>6
  <2> QED
    BY <2>4, <2>5, <2>6
<1>7. new.count = Cardinality({i \in 1 .. n : ChangesError(evs, i)})
  <2> DEFINE S == {i \in 1 .. n : ChangesError(evs, i)}
  <2>1. /\ {i \in 1 .. n : i \in S} = S
        /\ {i \in 1 .. (n - 1) : i \in S} = {i \in 1 .. (n - 1) : ChangesError(evs, i)}
        /\ n \in S <=> ChangesError(evs, n)
    OBVIOUS
  <2> HIDE DEF S
  <2>2. Cardinality(S) = st.count + IF ChangesError(evs, n) THEN 1 ELSE 0
    BY <1>0, <2>1, CountNext
  <2>3. /\ fail => one = IF ChangesError(evs, n) THEN 1 ELSE 0
        /\ ChangesError(evs, n) => fail
    BY <1>1, <1>2 DEF ChangesError, Runs, Of
  <2> HIDE DEF here, fail, pass, one
  <2>4. st.count \in Nat
    BY <1>0
  <2>5. new.count = IF fail THEN st.count + one ELSE st.count
    <3>1. CASE fail
      BY <1>5, <3>1
    <3>2. CASE pass
      BY <1>3, <1>5, <3>2
    <3>3. CASE ~fail /\ ~pass
      BY <1>5, <3>3
    <3> QED
      BY <3>1, <3>2, <3>3
  <2> QED
    BY <2>2, <2>3, <2>4, <2>5 DEF S
<1> QED
  BY <1>6, <1>7 DEF ComparedUpTo, new

\* What is followed has its type whatever it came from.
LEMMA FollowType ==
  ASSUME NEW evs, NEW n \in Nat,
         NEW st \in [pending : SUBSET Nat, edited : SUBSET Nat, count : Nat]
  PROVE  Follow(evs, st, n) \in [pending : SUBSET Nat, edited : SUBSET Nat, count : Nat]
<1> DEFINE here == Here(evs, st.pending, n)
           one == IF here # {} /\ Max(here) \in st.edited THEN 1 ELSE 0
<1>1. /\ here \subseteq Nat /\ one \in Nat
      /\ st = [pending |-> st.pending, edited |-> st.edited, count |-> st.count]
      /\ st.pending \in SUBSET Nat /\ st.edited \in SUBSET Nat /\ st.count \in Nat
  BY DEF Here
<1>2. \/ Follow(evs, st, n) = st
      \/ Follow(evs, st, n) = [pending |-> st.pending, edited |-> st.edited \union here,
                               count |-> st.count]
      \/ Follow(evs, st, n) = [pending |-> (st.pending \ here) \union {n},
                               edited |-> st.edited, count |-> st.count]
      \/ Follow(evs, st, n) = [pending |-> st.pending \ here, edited |-> st.edited,
                               count |-> st.count + one]
  <2>1. CASE evs[n].kind \in Edits
    <3>1. Follow(evs, st, n) = [st EXCEPT !.edited = @ \union here]
      BY <2>1 DEF Follow, Edits
    <3> HIDE DEF here
    <3> QED
      BY <1>1, <3>1
  <2>2. CASE evs[n].kind \notin Edits /\ evs[n].kind = "code_execution"
               /\ evs[n].result = "failure"
    BY <1>1, <2>2 DEF Follow, Opened
  <2>3. CASE evs[n].kind \notin Edits /\ evs[n].kind = "code_execution"
               /\ evs[n].result = "success"
    BY <1>1, <2>3 DEF Follow
  <2>4. CASE evs[n].kind \notin Edits
               /\ ~(evs[n].kind = "code_execution" /\ evs[n].result \in {"failure", "success"})
    BY <2>4 DEF Follow
  <2> QED
    BY <2>1, <2>2, <2>3, <2>4
<1> HIDE DEF here, one
<1>3. /\ st.edited \union here \in SUBSET Nat
      /\ (st.pending \ here) \union {n} \in SUBSET Nat
      /\ st.pending \ here \in SUBSET Nat
  BY <1>1, Zenon
<1>4. st.count + one \in Nat
  BY <1>1
<1> QED
  BY <1>1, <1>2, <1>3, <1>4

\* What is compared has its type whatever it came from.
LEMMA CompareType ==
  ASSUME NEW evs, NEW n \in Nat, NEW st \in [last : SUBSET Nat, count : Nat]
  PROVE  Compare(evs, st, n) \in [last : SUBSET Nat, count : Nat]
BY DEF Compare

\* The recoveries and changes of error counted are those the recording has.
LEMMA CountsReal ==
  ASSUME NEW evs \in Recordings
  PROVE  CountsAreReal(evs)
<1> DEFINE m == Len(evs)
<1>1. m \in Nat /\ DOMAIN evs = 1 .. m
  BY RecordingsAssumption
<1> HIDE DEF m
<1>2. 1 .. 0 = {} /\ 0 \in 0 .. m /\ OpenAfter(evs, 0) = {} /\ Cardinality({i \in 1 .. 0 : AnswersFailure(evs, i)}) = 0
        /\ Cardinality({i \in 1 .. 0 : ChangesError(evs, i)}) = 0
  <2>1. 1 .. 0 = {}
    OBVIOUS
  <2> QED
    BY <1>1, <2>1, FS_EmptySet DEF OpenAfter
<1>3. Signals(evs).recoveries # Missing =>
        Signals(evs).recoveries = Cardinality({i \in DOMAIN evs : AnswersFailure(evs, i)})
  <2> SUFFICES ASSUME RecoveryChains(evs) # Missing
               PROVE  RecoveryChains(evs) = Cardinality({i \in 1 .. m : AnswersFailure(evs, i)})
    BY <1>1 DEF Signals, m
  <2>1. OutcomesKnown(evs)
    BY DEF RecoveryChains
  <2> DEFINE start == [pending |-> {}, edited |-> {}, count |-> 0]
             R == [pending : SUBSET Nat, edited : SUBSET Nat, count : Nat]
             Is(f) == f = [n \in 0 .. m |-> IF n = 0 THEN start
                                            ELSE Follow(evs, f[n - 1], n)]
  <2>2. \E f : Is(f)
    <3> DEFINE g == [p \in R \X (1 .. m) |-> Follow(evs, p[1], p[2])]
    <3>1. start \in R /\ g \in [R \X (1 .. m) -> R]
      <4>1. start \in R
        OBVIOUS
      <4> HIDE DEF start
      <4>2. \A n \in 1 .. m : n \in Nat
        BY <1>1
      <4>3. \A st \in R, n \in 1 .. m : Follow(evs, st, n) \in R
        BY <4>2, FollowType
      <4> HIDE DEF R
      <4> QED
        BY <4>1, <4>3
    <3> HIDE DEF start, R
    <3>2. PICK f : Grows(f, m, R, start, g)
      <4> HIDE DEF g
      <4> QED
        BY <1>1, <3>1, Recursion
    <3>3. \A n \in 1 .. m : n - 1 \in 0 .. m
      BY <1>1
    <3>4. \A n \in 1 .. m : g[<<f[n - 1], n>>] = Follow(evs, f[n - 1], n)
      BY <3>2, <3>3 DEF Grows
    <3>5. Is(f)
      <4> HIDE DEF g
      <4>1. 0 .. m = {0} \union 1 .. m /\ 0 \notin 1 .. m
        BY <1>1
      <4>2. \A n \in 0 .. m : f[n] = IF n = 0 THEN start ELSE Follow(evs, f[n - 1], n)
        BY <3>2, <3>4, <4>1 DEF Grows
      <4> QED
        BY <3>2, <4>2 DEF Grows
    <3> QED
      BY <3>5
  <2>3. PICK f : Is(f) /\ RecoveryChains(evs) = f[m].count
    <3> HIDE DEF Is
    <3>1. \A f : Is(f) <=> f = [n \in 0 .. m |-> IF n = 0 THEN start
                                            ELSE Follow(evs, f[n - 1], n)]
      BY DEF Is
    <3> HIDE DEF start, R
    <3> QED
      BY <2>2, <3>1 DEF RecoveryChains, start, m
  <2>4. f[0] = start /\ \A n \in 1 .. m : f[n] = Follow(evs, f[n - 1], n)
    <3> HIDE DEF start
    <3>1. 0 \in 0 .. m /\ \A n \in 1 .. m : n \in 0 .. m /\ n # 0
      BY <1>1
    <3> QED
      BY <2>3, <3>1
  <2> DEFINE T == {n \in 0 .. m : FollowedUpTo(evs, f[n], n)}
  <2>5. 0 \in T
    <3>1. FollowedUpTo(evs, start, 0)
      BY <1>2 DEF FollowedUpTo
    <3> QED
      BY <1>2, <2>4, <3>1
  <2>6. ASSUME NEW n \in 1 .. m, n - 1 \in T
        PROVE  n \in T
    <3>1. n \in Nat \ {0} /\ n \in DOMAIN evs
      BY <1>1
    <3> HIDE DEF Is
    <3> QED
      BY <2>1, <2>4, <2>6, <3>1, FollowStep
  <2>7. m \in T
    <3> HIDE DEF T
    <3>1. 0 .. m \subseteq T /\ m \in 0 .. m
      BY <1>1, <2>5, <2>6, StepByStep
    <3> QED
      BY <3>1
  <2> QED
    BY <2>3, <2>7 DEF FollowedUpTo
<1>4. Signals(evs).changes # Missing =>
        Signals(evs).changes = Cardinality({i \in DOMAIN evs : ChangesError(evs, i)})
  <2> SUFFICES ASSUME ErrorChanges(evs) # Missing
               PROVE  ErrorChanges(evs) = Cardinality({i \in 1 .. m : ChangesError(evs, i)})
    BY <1>1 DEF Signals, m
  <2>1. OutcomesKnown(evs)
    BY DEF ErrorChanges
  <2> DEFINE start == [last |-> {}, count |-> 0]
             R == [last : SUBSET Nat, count : Nat]
             Is(f) == f = [n \in 0 .. m |-> IF n = 0 THEN start
                                            ELSE Compare(evs, f[n - 1], n)]
  <2>2. \E f : Is(f)
    <3> DEFINE g == [p \in R \X (1 .. m) |-> Compare(evs, p[1], p[2])]
    <3>1. start \in R /\ g \in [R \X (1 .. m) -> R]
      <4>1. start \in R
        OBVIOUS
      <4> HIDE DEF start
      <4>2. \A n \in 1 .. m : n \in Nat
        BY <1>1
      <4>3. \A st \in R, n \in 1 .. m : Compare(evs, st, n) \in R
        BY <4>2, CompareType
      <4> HIDE DEF R
      <4> QED
        BY <4>1, <4>3
    <3> HIDE DEF start, R
    <3>2. PICK f : Grows(f, m, R, start, g)
      <4> HIDE DEF g
      <4> QED
        BY <1>1, <3>1, Recursion
    <3>3. \A n \in 1 .. m : n - 1 \in 0 .. m
      BY <1>1
    <3>4. \A n \in 1 .. m : g[<<f[n - 1], n>>] = Compare(evs, f[n - 1], n)
      BY <3>2, <3>3 DEF Grows
    <3>5. Is(f)
      <4> HIDE DEF g
      <4>1. 0 .. m = {0} \union 1 .. m /\ 0 \notin 1 .. m
        BY <1>1
      <4>2. \A n \in 0 .. m : f[n] = IF n = 0 THEN start ELSE Compare(evs, f[n - 1], n)
        BY <3>2, <3>4, <4>1 DEF Grows
      <4> QED
        BY <3>2, <4>2 DEF Grows
    <3> QED
      BY <3>5
  <2>3. PICK f : Is(f) /\ ErrorChanges(evs) = f[m].count
    <3> HIDE DEF Is
    <3>1. \A f : Is(f) <=> f = [n \in 0 .. m |-> IF n = 0 THEN start
                                            ELSE Compare(evs, f[n - 1], n)]
      BY DEF Is
    <3> HIDE DEF start, R
    <3> QED
      BY <2>2, <3>1 DEF ErrorChanges, start, m
  <2>4. f[0] = start /\ \A n \in 1 .. m : f[n] = Compare(evs, f[n - 1], n)
    <3> HIDE DEF start
    <3>1. 0 \in 0 .. m /\ \A n \in 1 .. m : n \in 0 .. m /\ n # 0
      BY <1>1
    <3> QED
      BY <2>3, <3>1
  <2> DEFINE T == {n \in 0 .. m : ComparedUpTo(evs, f[n], n)}
  <2>5. 0 \in T
    <3>1. ComparedUpTo(evs, start, 0)
      BY <1>2 DEF ComparedUpTo
    <3> QED
      BY <1>2, <2>4, <3>1
  <2>6. ASSUME NEW n \in 1 .. m, n - 1 \in T
        PROVE  n \in T
    <3>1. n \in Nat \ {0} /\ n \in DOMAIN evs
      BY <1>1
    <3> HIDE DEF Is
    <3> QED
      BY <2>1, <2>4, <2>6, <3>1, CompareStep
  <2>7. m \in T
    <3> HIDE DEF T
    <3>1. 0 .. m \subseteq T /\ m \in 0 .. m
      BY <1>1, <2>5, <2>6, StepByStep
    <3> QED
      BY <3>1
  <2> QED
    BY <2>3, <2>7 DEF ComparedUpTo
<1> QED
  BY <1>3, <1>4 DEF CountsAreReal

-----------------------------------------------------------------------------
\* Intervals, and the instants in one.
Intervals == Int \X Int
In(t, v) == v[1] <= t /\ t < v[2]

\* The instants of some intervals.
LEMMA InstantsAre ==
  ASSUME NEW A \in SUBSET Intervals
  PROVE  /\ Instants(A) \subseteq Int
         /\ \A t \in Int : t \in Instants(A) <=> \E v \in A : In(t, v)
<1>1. \A v \in A : v[1] \in Int /\ v[2] \in Int
  BY DEF Intervals
<1>2. \A t \in Int, v \in A : t \in v[1] .. (v[2] - 1) <=> In(t, v)
  BY <1>1 DEF In
<1>3. \A v \in A : \A t \in v[1] .. (v[2] - 1) : t \in Int
  BY <1>1
<1> QED
  BY <1>2, <1>3 DEF Instants

\* Finitely many intervals can be ordered in one way, and Sorted does.
LEMMA SortedFacts ==
  ASSUME NEW A \in SUBSET Intervals, IsFiniteSet(A)
  PROVE  /\ Cardinality(A) \in Nat
         /\ Sorted(A) \in [1 .. Cardinality(A) -> A]
         /\ \A i, j \in 1 .. Cardinality(A) : i < j => Earlier(Sorted(A)[i], Sorted(A)[j])
         /\ \A v \in A : \E i \in 1 .. Cardinality(A) : Sorted(A)[i] = v
<1> DEFINE c == Cardinality(A)
           order == {p \in A \X A : Earlier(p[1], p[2])}
           place == Place(order, A)
           Fits(s) == \A i, j \in 1 .. c : i < j => Earlier(s[i], s[j])
<1>0. c \in Nat
  BY FS_CardinalityType
<1>1. \A v, w \in A : <<v, w>> \in order <=> Earlier(v, w)
  OBVIOUS
<1>2. /\ \A v \in A : ~Earlier(v, v)
      /\ \A v, w \in A : v # w => Earlier(v, w) \/ Earlier(w, v)
      /\ \A u, v, w \in A : Earlier(u, v) /\ Earlier(v, w) => Earlier(u, w)
      /\ \A v, w \in A : Earlier(v, w) => ~Earlier(w, v)
  <2>1. \A v \in A : v = <<v[1], v[2]>> /\ v[1] \in Int /\ v[2] \in Int
    BY DEF Intervals
  <2> QED
    BY <2>1 DEF Earlier
<1>3. Orders(order, A)
  <2> HIDE DEF order
  <2> QED
    BY <1>1, <1>2 DEF Orders
<1>4. /\ place \in [A -> 0 .. c - 1]
      /\ \A v, w \in A : Earlier(v, w) => place[v] < place[w]
  <2> HIDE DEF order
  <2> QED
    BY <1>1, <1>3, PlaceFacts
<1> HIDE DEF order, place
<1>5. \A v, w \in A : v # w => place[v] # place[w]
  <2> SUFFICES ASSUME NEW v \in A, NEW w \in A, v # w
               PROVE  place[v] # place[w]
    OBVIOUS
  <2>1. place[v] < place[w] \/ place[w] < place[v]
    BY <1>2, <1>4
  <2>2. place[v] \in Int /\ place[w] \in Int
    BY <1>0, <1>4
  <2> QED
    BY <2>1, <2>2
<1>6. place \in Surjection(A, 0 .. c - 1)
  <2>1. place \in Injection(A, 0 .. c - 1)
    BY <1>4, <1>5 DEF Injection, IsInjective
  <2>2. IsFiniteSet(0 .. c - 1) /\ Cardinality(0 .. c - 1) = c
    BY <1>0, c - 1 \in Int, FS_Interval
  <2> QED
    BY <2>1, <2>2, FS_Injection
<1>7. \E s \in [1 .. c -> A] : Fits(s)
  <2> DEFINE s == [i \in 1 .. c |-> CHOOSE v \in A : place[v] = i - 1]
  <2>1. \A i \in 1 .. c : s[i] \in A /\ place[s[i]] = i - 1
    <3> SUFFICES ASSUME NEW i \in 1 .. c
                 PROVE  \E v \in A : place[v] = i - 1
      OBVIOUS
    <3>1. i - 1 \in 0 .. c - 1
      BY <1>0
    <3> QED
      BY <1>6, <3>1 DEF Surjection
  <2> HIDE DEF s
  <2>2. ASSUME NEW i \in 1 .. c, NEW j \in 1 .. c, i < j
        PROVE  Earlier(s[i], s[j])
    <3>1. ~(place[s[j]] < place[s[i]]) /\ place[s[j]] # place[s[i]]
      BY <2>1, <2>2
    <3> QED
      BY <1>2, <1>4, <2>1, <3>1
  <2>3. s \in [1 .. c -> A]
    BY <2>1 DEF s
  <2> QED
    BY <2>2, <2>3
<1>8. Sorted(A) \in [1 .. c -> A] /\ Fits(Sorted(A))
  <2>1. \A s \in [1 .. c -> A] :
          Fits(s) <=> \A i, j \in DOMAIN s : i < j => Earlier(s[i], s[j])
    OBVIOUS
  <2>2. \E s \in [1 .. c -> A] : \A i, j \in DOMAIN s : i < j => Earlier(s[i], s[j])
    BY <1>7, <2>1
  <2>3. /\ Sorted(A) \in [1 .. c -> A]
        /\ \A i, j \in DOMAIN Sorted(A) : i < j => Earlier(Sorted(A)[i], Sorted(A)[j])
    BY <2>2 DEF Sorted
  <2> QED
    BY <2>3
<1>9. \A v \in A : \E i \in 1 .. c : Sorted(A)[i] = v
  <2>1. ASSUME NEW i \in 1 .. c, NEW j \in 1 .. c, i # j
        PROVE  Sorted(A)[i] # Sorted(A)[j]
    <3>1. i < j \/ j < i
      BY <2>1
    <3> QED
      BY <1>2, <1>8, <3>1
  <2>2. Sorted(A) \in Injection(1 .. c, A)
    BY <1>8, <2>1 DEF Injection, IsInjective
  <2>3. IsFiniteSet(1 .. c) /\ Cardinality(1 .. c) = c
    BY <1>0, FS_Interval
  <2>4. Sorted(A) \in Surjection(1 .. c, A)
    BY <2>2, <2>3, FS_Injection
  <2> QED
    BY <2>4 DEF Surjection
<1> QED
  BY <1>0, <1>8, <1>9

\* Which of two instants is the later.
LEMMA LaterOfTwo ==
  ASSUME NEW a \in Int, NEW b \in Int
  PROVE  Max({a, b}) = IF a <= b THEN b ELSE a
BY DEF Max

\* Intervals in order, with a gap between each and the next.
Spaced(m) ==
  /\ m \in Seq(Intervals)
  /\ \A k \in 1 .. Len(m) : m[k][1] < m[k][2]
  /\ \A k, l \in 1 .. Len(m) : k < l => m[k][2] < m[l][1]

\* The merged sequence after the first n intervals of s.
MergedUpTo(m, s, n) ==
  /\ Spaced(m)
  /\ n = 0 => m = <<>>
  /\ n > 0 => m # <<>> /\ m[Len(m)][1] <= s[n][1]
  /\ \A t \in Int : (\E k \in 1 .. Len(m) : In(t, m[k])) <=> \E i \in 1 .. n : In(t, s[i])

\* Joining keeps intervals a sequence of intervals.
LEMMA JoinedType ==
  ASSUME NEW m \in Seq(Intervals), NEW v \in Intervals
  PROVE  Joined(m, v) \in Seq(Intervals)
<1>1. CASE m = <<>> \/ v[1] > Last(m)[2]
  BY <1>1 DEF Joined
<1>2. CASE ~(m = <<>> \/ v[1] > Last(m)[2])
  <2> DEFINE w == <<m[Len(m)][1], Max({m[Len(m)][2], v[2]})>>
  <2>1. Len(m) \in 1 .. Len(m)
    BY <1>2
  <2>2. m[Len(m)] \in Intervals
    BY <2>1
  <2>3. w \in Intervals
    BY <2>2, LaterOfTwo DEF Intervals
  <2>4. Joined(m, v) = [m EXCEPT ![Len(m)] = w]
    BY <1>2 DEF Joined
  <2> HIDE DEF w
  <2> QED
    BY <2>1, <2>3, <2>4
<1> QED
  BY <1>1, <1>2

\* Joining the next interval, in order, keeps the sequence spaced and covering.
LEMMA JoinedStep ==
  ASSUME NEW c \in Nat, NEW s \in [1 .. c -> Intervals], NEW n \in 1 .. c,
         \A i \in 1 .. c : s[i][1] < s[i][2],
         \A i, j \in 1 .. c : i < j => Earlier(s[i], s[j]),
         NEW m, MergedUpTo(m, s, n - 1)
  PROVE  MergedUpTo(Joined(m, s[n]), s, n)
<1> DEFINE v == s[n]
           new == Joined(m, v)
           L == Len(m)
<1>1. /\ m \in Seq(Intervals) /\ L \in Nat /\ new \in Seq(Intervals)
      /\ v \in Intervals /\ v[1] \in Int /\ v[2] \in Int /\ v[1] < v[2]
      /\ \A k \in 1 .. L : m[k] \in Intervals /\ m[k][1] \in Int /\ m[k][2] \in Int
  <2>1. m \in Seq(Intervals) /\ v \in Intervals /\ v[1] < v[2]
    BY DEF MergedUpTo, Spaced
  <2>2. v[1] \in Int /\ v[2] \in Int
    BY <2>1 DEF Intervals
  <2>3. L \in Nat /\ \A k \in 1 .. L : m[k] \in Intervals
    BY <2>1
  <2>4. \A k \in 1 .. L : m[k][1] \in Int /\ m[k][2] \in Int
    BY <2>3 DEF Intervals
  <2>5. new \in Seq(Intervals)
    BY <2>1, JoinedType
  <2> QED
    BY <2>1, <2>2, <2>3, <2>4, <2>5
<1>2. /\ \A k \in 1 .. L : m[k][1] < m[k][2]
      /\ \A k, l \in 1 .. L : k < l => m[k][2] < m[l][1]
      /\ \A t \in Int : (\E k \in 1 .. L : In(t, m[k])) <=> \E i \in 1 .. n - 1 : In(t, s[i])
      /\ n = 1 => m = <<>>
      /\ n > 1 => m # <<>> /\ m[L][1] <= s[n - 1][1]
  BY DEF MergedUpTo, Spaced
<1>3. m # <<>> => L \in 1 .. L /\ m[L][1] <= v[1]
  <2> SUFFICES ASSUME m # <<>>
               PROVE  L \in 1 .. L /\ m[L][1] <= v[1]
    OBVIOUS
  <2>1. L \in 1 .. L /\ n > 1 /\ n - 1 \in 1 .. c /\ n - 1 < n
    BY <1>1, <1>2
  <2>2. Earlier(s[n - 1], v) /\ s[n - 1] \in Intervals
    BY <2>1
  <2>3. s[n - 1][1] \in Int
    BY <2>2 DEF Intervals
  <2>4. s[n - 1][1] <= v[1]
    BY <1>1, <2>2, <2>3 DEF Earlier
  <2>5. m[L][1] <= s[n - 1][1] /\ m[L][1] \in Int
    BY <1>1, <1>2, <2>1
  <2> HIDE DEF v, L
  <2> QED
    BY <1>1, <2>1, <2>3, <2>4, <2>5
<1>4. 1 .. n = 1 .. (n - 1) \union {n}
  OBVIOUS
<1>5. CASE m = <<>> \/ v[1] > m[L][2]
  <2>1. new = Append(m, v)
    BY <1>5 DEF Joined, Last
  <2>2. /\ Len(new) = L + 1 /\ new[L + 1] = v
        /\ \A k \in 1 .. L : new[k] = m[k]
        /\ 1 .. L + 1 = 1 .. L \union {L + 1} /\ L + 1 \notin 1 .. L
    BY <1>1, <2>1
  <2> HIDE DEF new, v
  <2>3. ASSUME NEW k \in 1 .. L
        PROVE  m[k][2] < v[1]
    <3>1. m # <<>> /\ L \in 1 .. L /\ v[1] > m[L][2]
      BY <1>1, <1>3, <1>5
    <3>2. CASE k = L
      BY <1>1, <3>1, <3>2
    <3>3. CASE k < L
      BY <1>1, <1>2, <3>1, <3>3, SMTT(30)
    <3> QED
      BY <1>1, <3>2, <3>3
  <2>4. Spaced(new)
    <3>1. \A k \in 1 .. L + 1 : new[k][1] < new[k][2]
      BY <1>1, <1>2, <2>2
    <3>2. ASSUME NEW k \in 1 .. L + 1, NEW l \in 1 .. L + 1, k < l
          PROVE  new[k][2] < new[l][1]
      <4>1. k \in 1 .. L
        BY <1>1, <3>2
      <4>2. CASE l = L + 1
        BY <2>2, <2>3, <4>1, <4>2
      <4>3. CASE l # L + 1
        BY <1>2, <2>2, <3>2, <4>1, <4>3
      <4> QED
        BY <4>2, <4>3
    <3> QED
      BY <1>1, <2>2, <3>1, <3>2 DEF Spaced
  <2>5. ASSUME NEW t \in Int
        PROVE  (\E k \in 1 .. L + 1 : In(t, new[k])) <=> \E i \in 1 .. n : In(t, s[i])
    <3>1. (\E k \in 1 .. L + 1 : In(t, new[k])) <=> (\E k \in 1 .. L : In(t, m[k])) \/ In(t, v)
      BY <2>2
    <3> QED
      BY <1>2, <1>4, <3>1 DEF v
  <2>6. new # <<>> /\ new[Len(new)][1] <= v[1]
    BY <1>1, <2>2
  <2> QED
    BY <2>2, <2>4, <2>5, <2>6 DEF MergedUpTo, v, new
<1>6. CASE ~(m = <<>> \/ v[1] > m[L][2])
  <2> DEFINE w == <<m[L][1], Max({m[L][2], v[2]})>>
  <2>1. L \in 1 .. L /\ m[L][1] <= v[1] /\ v[1] <= m[L][2]
    BY <1>1, <1>3, <1>6
  <2>2. new = [m EXCEPT ![L] = w]
    BY <1>6 DEF Joined, Last
  <2>3. w[1] = m[L][1] /\ w[2] = IF m[L][2] <= v[2] THEN v[2] ELSE m[L][2]
    BY <1>1, <2>1, LaterOfTwo
  <2> HIDE DEF w
  <2>4. /\ Len(new) = L /\ new[L] = w
        /\ \A k \in 1 .. L : k # L => new[k] = m[k]
    BY <1>1, <2>1, <2>2
  <2> HIDE DEF new, v
  <2>5. Spaced(new)
    <3>1. \A k \in 1 .. L : new[k][1] < new[k][2]
      BY <1>1, <1>2, <2>1, <2>3, <2>4, SMTT(30)
    <3>2. ASSUME NEW k \in 1 .. L, NEW l \in 1 .. L, k < l
          PROVE  new[k][2] < new[l][1]
      <4>1. k # L /\ m[k][2] < m[l][1] /\ new[k] = m[k]
        BY <1>1, <1>2, <2>4, <3>2
      <4>2. new[l][1] = m[l][1]
        BY <2>3, <2>4
      <4> QED
        BY <4>1, <4>2
    <3> QED
      BY <1>1, <2>4, <3>1, <3>2 DEF Spaced
  <2>6. ASSUME NEW t \in Int
        PROVE  (\E k \in 1 .. L : In(t, new[k])) <=> \E i \in 1 .. n : In(t, s[i])
    <3>1. In(t, w) <=> In(t, m[L]) \/ In(t, v)
      BY <1>1, <1>2, <2>1, <2>3 DEF In
    <3>2. (\E k \in 1 .. L : In(t, new[k])) <=> (\E k \in 1 .. L : In(t, m[k])) \/ In(t, v)
      BY <2>1, <2>4, <3>1
    <3> QED
      BY <1>2, <1>4, <3>2 DEF v
  <2>7. new # <<>> /\ new[Len(new)][1] <= v[1]
    BY <2>1, <2>3, <2>4, <1>6
  <2> QED
    BY <2>4, <2>5, <2>6, <2>7 DEF MergedUpTo, v, new
<1> QED
  BY <1>5, <1>6

\* Merging keeps the instants, in intervals apart from each other.
LEMMA MergedFacts ==
  ASSUME NEW A \in SUBSET Intervals, IsFiniteSet(A)
  PROVE  /\ Spaced(Merged(A))
         /\ \A t \in Int : (\E k \in 1 .. Len(Merged(A)) : In(t, Merged(A)[k]))
                             <=> t \in Instants(A)
<1> DEFINE B == {v \in A : v[1] < v[2]}
           c == Cardinality(B)
           s == Sorted(B)
           R == Seq(Intervals)
           Is(f) == f = [n \in 0 .. Len(s) |-> IF n = 0 THEN <<>> ELSE Joined(f[n - 1], s[n])]
<1>1. B \in SUBSET Intervals /\ IsFiniteSet(B)
  BY FS_Subset
<1>2. /\ c \in Nat /\ s \in [1 .. c -> Intervals]
      /\ \A i \in 1 .. c : s[i] \in B /\ s[i][1] < s[i][2]
      /\ \A i, j \in 1 .. c : i < j => Earlier(s[i], s[j])
      /\ \A v \in B : \E i \in 1 .. c : s[i] = v
  <2> HIDE DEF B
  <2>1. /\ c \in Nat /\ s \in [1 .. c -> B]
        /\ \A i, j \in 1 .. c : i < j => Earlier(s[i], s[j])
        /\ \A v \in B : \E i \in 1 .. c : s[i] = v
    BY <1>1, SortedFacts
  <2>2. \A v \in B : v[1] < v[2]
    BY DEF B
  <2> HIDE DEF s, c
  <2> QED
    BY <1>1, <2>1, <2>2
<1> HIDE DEF B, c, s
<1>3. s \in Seq(Intervals) /\ Len(s) = c
  BY <1>2
<1>4. \E f : Is(f)
  <2> DEFINE g == [p \in R \X (1 .. c) |-> Joined(p[1], s[p[2]])]
  <2>1. g \in [R \X (1 .. c) -> R] /\ <<>> \in R
    BY <1>2, JoinedType
  <2>2. PICK f : Grows(f, c, R, <<>>, g)
    <3> HIDE DEF g, R
    <3> QED
      BY <1>2, <2>1, Recursion
  <2>3. \A n \in 1 .. c : n - 1 \in 0 .. c
    BY <1>2
  <2>4. \A n \in 1 .. c : g[<<f[n - 1], n>>] = Joined(f[n - 1], s[n])
    BY <2>2, <2>3 DEF Grows
  <2>5. Is(f)
    <3> HIDE DEF g, R
    <3>1. 0 .. c = {0} \union 1 .. c /\ 0 \notin 1 .. c
      BY <1>2
    <3>2. \A n \in 0 .. c : f[n] = IF n = 0 THEN <<>> ELSE Joined(f[n - 1], s[n])
      BY <2>2, <2>4, <3>1 DEF Grows
    <3> QED
      BY <1>3, <2>2, <3>2 DEF Grows
  <2> QED
    BY <2>5
<1>5. PICK f : Is(f) /\ Merged(A) = f[c]
  <2> HIDE DEF Is
  <2>1. \A f : Is(f) <=> f = [n \in 0 .. Len(s) |-> IF n = 0 THEN <<>>
                                                    ELSE Joined(f[n - 1], s[n])]
    BY DEF Is
  <2> QED
    BY <1>3, <1>4, <2>1 DEF Merged, s, B
<1>6. f[0] = <<>> /\ \A n \in 1 .. c : f[n] = Joined(f[n - 1], s[n])
  <2>1. 0 \in 0 .. c /\ \A n \in 1 .. c : n \in 0 .. c /\ n # 0
    BY <1>2
  <2> QED
    BY <1>3, <1>5, <2>1
<1> DEFINE T == {n \in 0 .. c : MergedUpTo(f[n], s, n)}
<1>7. 0 \in T
  <2>1. MergedUpTo(<<>>, s, 0)
    BY DEF MergedUpTo, Spaced
  <2> QED
    BY <1>2, <1>6, <2>1
<1>8. ASSUME NEW n \in 1 .. c, n - 1 \in T
      PROVE  n \in T
  <2> HIDE DEF Is
  <2>1. MergedUpTo(f[n - 1], s, n - 1)
    BY <1>8
  <2>2. MergedUpTo(Joined(f[n - 1], s[n]), s, n)
    BY <1>2, <2>1, JoinedStep
  <2>3. n \in 0 .. c
    BY <1>2
  <2> QED
    BY <1>6, <2>2, <2>3
<1>9. MergedUpTo(Merged(A), s, c)
  <2> HIDE DEF T
  <2>1. 0 .. c \subseteq T /\ c \in 0 .. c
    <3>1. c \in Nat
      BY <1>2
    <3> QED
      BY <1>7, <1>8, <3>1, StepByStep
  <2> QED
    BY <1>5, <2>1 DEF T
<1>10. ASSUME NEW t \in Int
       PROVE  (\E i \in 1 .. c : In(t, s[i])) <=> t \in Instants(A)
  <2>1. (\E i \in 1 .. c : In(t, s[i])) <=> \E v \in B : In(t, v)
    BY <1>2
  <2>2. \A v \in A : In(t, v) => v \in B
    <3>1. \A v \in A : v[1] \in Int /\ v[2] \in Int
      BY DEF Intervals
    <3> QED
      BY <3>1 DEF In, B
  <2>3. B \subseteq A
    BY DEF B
  <2> QED
    BY <2>1, <2>2, <2>3, InstantsAre
<1> QED
  BY <1>9, <1>10 DEF MergedUpTo

\* What is left of v after the first n exclusions: up to the cursor, which is the
\* end of an exclusion or the beginning of v, it is decided.
LeftUpTo(st, v, E, n) ==
  /\ st \in [cursor : Int, kept : SUBSET Intervals]
  /\ st.cursor = v[1] \/ \E k \in 1 .. n : st.cursor = E[k][2]
  /\ st.cursor >= v[1]
  /\ \A k \in 1 .. n : E[k][2] <= st.cursor \/ E[k][1] >= v[2]
  /\ \A w \in st.kept : /\ w[1] < w[2] /\ w[2] < v[2]
                        /\ w[1] = v[1] \/ \E k \in 1 .. n : In(w[1] - 1, E[k])
                        /\ \E k \in 1 .. n : In(w[2], E[k])
  /\ \A t \in Int : (\E w \in st.kept : In(t, w)) <=>
        In(t, v) /\ t < st.cursor /\ \A k \in 1 .. n : ~In(t, E[k])

\* A cut leaves intervals.
LEMMA CutType ==
  ASSUME NEW st \in [cursor : Int, kept : SUBSET Intervals],
         NEW v \in Intervals, NEW x \in Intervals
  PROVE  Cut(st, v, x) \in [cursor : Int, kept : SUBSET Intervals]
<1>1. /\ st.cursor \in Int /\ st.kept \in SUBSET Intervals /\ x[1] \in Int /\ x[2] \in Int
      /\ Max({st.cursor, x[2]}) \in Int
  BY LaterOfTwo DEF Intervals
<1>2. <<st.cursor, x[1]>> \in Intervals
  BY <1>1 DEF Intervals
<1>3. st.kept \union {<<st.cursor, x[1]>>} \in SUBSET Intervals
  BY <1>1, <1>2
<1> QED
  BY <1>1, <1>3 DEF Cut

\* One more exclusion is cut out and nothing else.
LEMMA CutStep ==
  ASSUME NEW v \in Intervals, v[1] < v[2], NEW E, Spaced(E), NEW n \in 1 .. Len(E),
         NEW st, LeftUpTo(st, v, E, n - 1)
  PROVE  LeftUpTo(Cut(st, v, E[n]), v, E, n)
<1> DEFINE x == E[n]
           new == Cut(st, v, x)
           cur == st.cursor
<1>1. /\ E \in Seq(Intervals) /\ Len(E) \in Nat
      /\ v[1] \in Int /\ v[2] \in Int
      /\ \A k \in 1 .. Len(E) : E[k] \in Intervals
      /\ \A k \in 1 .. Len(E) : E[k][1] \in Int /\ E[k][2] \in Int
  <2>1. E \in Seq(Intervals)
    BY DEF Spaced
  <2>2. Len(E) \in Nat /\ \A k \in 1 .. Len(E) : E[k] \in Intervals
    BY <2>1
  <2>3. \A k \in 1 .. Len(E) : E[k][1] \in Int /\ E[k][2] \in Int
    BY <2>2 DEF Intervals
  <2>4. v[1] \in Int /\ v[2] \in Int
    BY DEF Intervals
  <2> QED
    BY <2>1, <2>2, <2>3, <2>4
<1>2. /\ \A k \in 1 .. Len(E) : E[k][1] < E[k][2]
      /\ \A k, l \in 1 .. Len(E) : k < l => E[k][2] < E[l][1]
  BY DEF Spaced
<1>3. /\ st \in [cursor : Int, kept : SUBSET Intervals]
      /\ cur \in Int /\ st.kept \in SUBSET Intervals
      /\ cur = v[1] \/ \E k \in 1 .. (n - 1) : cur = E[k][2]
      /\ cur >= v[1]
      /\ \A k \in 1 .. (n - 1) : E[k][2] <= cur \/ E[k][1] >= v[2]
  BY DEF LeftUpTo
<1>4. \A w \in st.kept : /\ w[1] < w[2] /\ w[2] < v[2]
                         /\ w[1] = v[1] \/ \E k \in 1 .. (n - 1) : In(w[1] - 1, E[k])
                         /\ \E k \in 1 .. (n - 1) : In(w[2], E[k])
  BY DEF LeftUpTo
<1>5. \A t \in Int : (\E w \in st.kept : In(t, w)) <=>
        In(t, v) /\ t < cur /\ \A k \in 1 .. (n - 1) : ~In(t, E[k])
  BY DEF LeftUpTo
<1>6. 1 .. n = 1 .. (n - 1) \union {n} /\ \A k \in 1 .. (n - 1) : k \in 1 .. Len(E) /\ k < n
  BY <1>1
<1>7. /\ x[1] \in Int /\ x[2] \in Int /\ x[1] < x[2] /\ x \in Intervals
      /\ \A k \in 1 .. (n - 1) : E[k][2] < x[1]
  BY <1>1, <1>2, <1>6
<1>8. cur = v[1] \/ cur < x[1]
  BY <1>3, <1>7
<1>9. CASE x[2] <= cur \/ x[1] >= v[2]
  <2>1. new = st
    BY <1>9 DEF Cut
  <2>2. \A t \in Int : In(t, v) /\ t < cur => ~In(t, x)
    BY <1>1, <1>3, <1>7, <1>8, <1>9 DEF In
  <2>3. \A t \in Int : (\E w \in st.kept : In(t, w)) <=>
            In(t, v) /\ t < cur /\ \A k \in 1 .. n : ~In(t, E[k])
    BY <1>5, <1>6, <2>2
  <2>4. /\ cur = v[1] \/ \E k \in 1 .. n : cur = E[k][2]
        /\ \A k \in 1 .. n : E[k][2] <= cur \/ E[k][1] >= v[2]
    BY <1>3, <1>6, <1>9
  <2>5. \A w \in st.kept : /\ w[1] < w[2] /\ w[2] < v[2]
                           /\ w[1] = v[1] \/ \E k \in 1 .. n : In(w[1] - 1, E[k])
                           /\ \E k \in 1 .. n : In(w[2], E[k])
    BY <1>4, <1>6
  <2> QED
    BY <1>3, <2>1, <2>3, <2>4, <2>5 DEF LeftUpTo
<1>10. CASE ~(x[2] <= cur \/ x[1] >= v[2])
  <2> DEFINE piece == <<cur, x[1]>>
             kept == IF x[1] > cur THEN st.kept \union {piece} ELSE st.kept
  <2>1. Max({cur, x[2]}) = x[2]
    BY <1>3, <1>7, <1>10, LaterOfTwo
  <2>2. new = [cursor |-> x[2], kept |-> kept]
    BY <1>10, <2>1 DEF Cut
  <2>3. new \in [cursor : Int, kept : SUBSET Intervals] /\ new.cursor = x[2] /\ new.kept = kept
    <3>1. new \in [cursor : Int, kept : SUBSET Intervals]
      BY <1>3, <1>7, CutType
    <3> HIDE DEF kept
    <3> QED
      BY <2>2, <3>1
  <2> HIDE DEF new
  <2>4. x[2] > cur /\ x[1] < v[2]
    BY <1>1, <1>3, <1>7, <1>10
  <2>5. /\ \E k \in 1 .. n : x[2] = E[k][2]
        /\ x[2] >= v[1]
        /\ \A k \in 1 .. n : E[k][2] <= x[2] \/ E[k][1] >= v[2]
    <3>1. n \in 1 .. n
      OBVIOUS
    <3>2. \A k \in 1 .. (n - 1) : E[k][2] <= x[2]
      BY <1>1, <1>6, <1>7, SMTT(30)
    <3> QED
      BY <1>1, <1>3, <1>6, <1>7, <2>4, <3>1, <3>2
  <2>6. piece[1] = cur /\ piece[2] = x[1]
    OBVIOUS
  <2> HIDE DEF piece
  <2>7. ASSUME NEW w \in kept
        PROVE  /\ w[1] < w[2] /\ w[2] < v[2]
               /\ w[1] = v[1] \/ \E k \in 1 .. n : In(w[1] - 1, E[k])
               /\ \E k \in 1 .. n : In(w[2], E[k])
    <3>1. CASE w \in st.kept
      BY <1>4, <1>6, <3>1
    <3>2. CASE w = piece /\ x[1] > cur
      <4>1. w[1] < w[2] /\ w[2] < v[2]
        BY <1>3, <1>7, <2>4, <2>6, <3>2
      <4>2. In(w[2], E[n]) /\ n \in 1 .. n
        BY <1>7, <2>6, <3>2 DEF In
      <4>3. w[1] = v[1] \/ \E k \in 1 .. n : In(w[1] - 1, E[k])
        <5>1. CASE cur = v[1]
          BY <2>6, <3>2, <5>1
        <5>2. CASE cur # v[1]
          <6>1. PICK k \in 1 .. (n - 1) : cur = E[k][2]
            BY <1>3, <5>2
          <6>2. In(w[1] - 1, E[k])
            BY <1>1, <1>2, <1>6, <2>6, <3>2, <6>1 DEF In
          <6> QED
            BY <1>6, <6>2
        <5> QED
          BY <5>1, <5>2
      <4> QED
        BY <4>1, <4>2, <4>3
    <3> QED
      BY <3>1, <3>2
  <2>8. ASSUME NEW t \in Int
        PROVE  (\E w \in kept : In(t, w)) <=>
                  In(t, v) /\ t < x[2] /\ \A k \in 1 .. n : ~In(t, E[k])
    <3>1. (\E w \in kept : In(t, w)) <=>
             (\E w \in st.kept : In(t, w)) \/ (cur <= t /\ t < x[1])
      BY <1>3, <1>7, <2>6 DEF In
    <3>2. (\A k \in 1 .. n : ~In(t, E[k])) <=>
             (\A k \in 1 .. (n - 1) : ~In(t, E[k])) /\ ~In(t, x)
      BY <1>6
    <3>3. t < cur /\ In(t, v) => ~In(t, x)
      BY <1>1, <1>3, <1>7, <1>8 DEF In
    <3>4. cur <= t /\ t < x[1] => In(t, v) /\ t < x[2] /\ ~In(t, x)
      BY <1>1, <1>3, <1>7, <2>4 DEF In
    <3>5. cur <= t /\ t < v[2] => \A k \in 1 .. (n - 1) : ~In(t, E[k])
      BY <1>1, <1>3, <1>6 DEF In
    <3>6. In(t, v) /\ t < x[2] /\ ~In(t, x) => t < x[1]
      BY <1>7 DEF In
    <3>7. In(t, v) => t < v[2]
      BY DEF In
    <3>8. t < cur \/ cur <= t
      BY <1>3
    <3>9. t < cur => t < x[2]
      BY <1>3, <1>7, <2>4
    <3> QED
      BY <1>5, <3>1, <3>2, <3>3, <3>4, <3>5, <3>6, <3>7, <3>8, <3>9
  <2> HIDE DEF kept, x
  <2> QED
    BY <2>3, <2>5, <2>7, <2>8 DEF LeftUpTo, new, x
<1> QED
  BY <1>9, <1>10

\* The pieces an interval is cut into hold what is in no exclusion, and each
\* begins and ends with the interval or beside an exclusion.
LEMMA LeftFacts ==
  ASSUME NEW v \in Intervals, v[1] < v[2], NEW E, Spaced(E)
  PROVE  /\ LeftOf(v, E) \in SUBSET Intervals
         /\ \A w \in LeftOf(v, E) :
               /\ w[1] < w[2]
               /\ w[1] = v[1] \/ \E k \in 1 .. Len(E) : In(w[1] - 1, E[k])
               /\ w[2] = v[2] \/ \E k \in 1 .. Len(E) : In(w[2], E[k])
         /\ \A t \in Int : (\E w \in LeftOf(v, E) : In(t, w)) <=>
               In(t, v) /\ \A k \in 1 .. Len(E) : ~In(t, E[k])
<1> DEFINE c == Len(E)
           start == [cursor |-> v[1], kept |-> {}]
           R == [cursor : Int, kept : SUBSET Intervals]
           Is(f) == f = [n \in 0 .. c |-> IF n = 0 THEN start ELSE Cut(f[n - 1], v, E[n])]
           Whole(end) == IF end.cursor < v[2] THEN end.kept \union {<<end.cursor, v[2]>>}
                         ELSE end.kept
<1>1. /\ c \in Nat /\ v[1] \in Int /\ v[2] \in Int
      /\ \A k \in 1 .. c : E[k] \in Intervals
      /\ \A k \in 1 .. c : E[k][1] \in Int /\ E[k][2] \in Int /\ E[k][1] < E[k][2]
  <2>1. E \in Seq(Intervals) /\ \A k \in 1 .. c : E[k][1] < E[k][2]
    BY DEF Spaced
  <2>2. c \in Nat /\ \A k \in 1 .. c : E[k] \in Intervals
    BY <2>1
  <2>3. \A k \in 1 .. c : E[k][1] \in Int /\ E[k][2] \in Int
    BY <2>2 DEF Intervals
  <2>4. v[1] \in Int /\ v[2] \in Int
    BY DEF Intervals
  <2> QED
    BY <2>1, <2>2, <2>3, <2>4
<1>2. \E f : Is(f)
  <2> DEFINE g == [p \in R \X (1 .. c) |-> Cut(p[1], v, E[p[2]])]
  <2>1. g \in [R \X (1 .. c) -> R] /\ start \in R
    <3>1. start \in R
      BY <1>1
    <3>2. \A st \in R, n \in 1 .. c : Cut(st, v, E[n]) \in R
      BY <1>1, CutType
    <3> HIDE DEF R, start
    <3> QED
      BY <3>1, <3>2
  <2> HIDE DEF start, R
  <2>2. PICK f : Grows(f, c, R, start, g)
    <3> HIDE DEF g
    <3> QED
      BY <1>1, <2>1, Recursion
  <2>3. \A n \in 1 .. c : n - 1 \in 0 .. c
    BY <1>1
  <2>4. \A n \in 1 .. c : g[<<f[n - 1], n>>] = Cut(f[n - 1], v, E[n])
    BY <2>2, <2>3 DEF Grows
  <2>5. Is(f)
    <3> HIDE DEF g
    <3>1. 0 .. c = {0} \union 1 .. c /\ 0 \notin 1 .. c
      BY <1>1
    <3>2. \A n \in 0 .. c : f[n] = IF n = 0 THEN start ELSE Cut(f[n - 1], v, E[n])
      BY <2>2, <2>4, <3>1 DEF Grows
    <3> QED
      BY <2>2, <3>2 DEF Grows
  <2> QED
    BY <2>5
<1>3. PICK f : Is(f) /\ LeftOf(v, E) = Whole(f[c])
  <2> DEFINE F == CHOOSE f : f = [n \in 0 .. Len(E) |->
                                    IF n = 0 THEN [cursor |-> v[1], kept |-> {}]
                                    ELSE Cut(f[n - 1], v, E[n])]
  <2>1. LeftOf(v, E) = Whole(F[c])
    BY DEF LeftOf
  <2>2. Is(F)
    BY <1>2
  <2> HIDE DEF F, Is, Whole
  <2> QED
    BY <2>1, <2>2
<1> HIDE DEF c
<1>4. f[0] = start /\ \A n \in 1 .. c : f[n] = Cut(f[n - 1], v, E[n])
  <2> HIDE DEF start
  <2>1. 0 \in 0 .. c /\ \A n \in 1 .. c : n \in 0 .. c /\ n # 0
    BY <1>1
  <2> QED
    BY <1>3, <2>1
<1> DEFINE T == {n \in 0 .. c : LeftUpTo(f[n], v, E, n)}
<1>5. 0 \in T
  <2>1. LeftUpTo(start, v, E, 0)
    <3>1. 1 .. 0 = {} /\ start \in R /\ start.cursor = v[1] /\ start.kept = {}
      BY <1>1
    <3> HIDE DEF start
    <3>2. \A t \in Int : ~(In(t, v) /\ t < v[1])
      BY <1>1 DEF In
    <3> QED
      BY <1>1, <3>1, <3>2 DEF LeftUpTo
  <2> QED
    BY <1>1, <1>4, <2>1
<1>6. ASSUME NEW n \in 1 .. c, n - 1 \in T
      PROVE  n \in T
  <2>1. LeftUpTo(f[n - 1], v, E, n - 1)
    BY <1>6
  <2>2. LeftUpTo(Cut(f[n - 1], v, E[n]), v, E, n)
    BY <2>1, CutStep DEF c
  <2>3. n \in 0 .. c
    BY <1>1
  <2> QED
    BY <1>4, <2>2, <2>3
<1>7. LeftUpTo(f[c], v, E, c)
  <2> HIDE DEF T
  <2>1. c \in Nat
    BY <1>1
  <2>2. 0 .. c \subseteq T /\ c \in 0 .. c
    BY <1>5, <1>6, <2>1, StepByStep
  <2> QED
    BY <2>2 DEF T
<1> DEFINE end == f[c]
           cur == end.cursor
           kept == end.kept
<1>8. /\ cur \in Int /\ kept \in SUBSET Intervals
      /\ cur = v[1] \/ \E k \in 1 .. c : cur = E[k][2]
      /\ cur >= v[1]
      /\ \A k \in 1 .. c : E[k][2] <= cur \/ E[k][1] >= v[2]
  BY <1>7 DEF LeftUpTo
<1>9. /\ \A w \in kept : /\ w[1] < w[2] /\ w[2] < v[2]
                         /\ w[1] = v[1] \/ \E k \in 1 .. c : In(w[1] - 1, E[k])
                         /\ \E k \in 1 .. c : In(w[2], E[k])
      /\ \A t \in Int : (\E w \in kept : In(t, w)) <=>
            In(t, v) /\ t < cur /\ \A k \in 1 .. c : ~In(t, E[k])
  BY <1>7 DEF LeftUpTo
<1>10. LeftOf(v, E) = IF cur < v[2] THEN kept \union {<<cur, v[2]>>} ELSE kept
  BY <1>3
<1> HIDE DEF end, cur, kept
<1>11. CASE ~(cur < v[2])
  <2>1. \A t \in Int : In(t, v) => t < cur
    BY <1>1, <1>8, <1>11 DEF In
  <2>2. LeftOf(v, E) = kept
    BY <1>10, <1>11
  <2>3. \A t \in Int : (\E w \in kept : In(t, w)) <=>
            In(t, v) /\ \A k \in 1 .. c : ~In(t, E[k])
    BY <1>9, <2>1
  <2>4. \A w \in kept :
               /\ w[1] < w[2]
               /\ w[1] = v[1] \/ \E k \in 1 .. c : In(w[1] - 1, E[k])
               /\ w[2] = v[2] \/ \E k \in 1 .. c : In(w[2], E[k])
    BY <1>9
  <2> QED
    BY <1>8, <2>2, <2>3, <2>4 DEF c
<1>12. CASE cur < v[2]
  <2> DEFINE last == <<cur, v[2]>>
  <2>1. last[1] = cur /\ last[2] = v[2] /\ last \in Intervals
    BY <1>1, <1>8 DEF Intervals
  <2>2. LeftOf(v, E) = kept \union {last}
    BY <1>10, <1>12
  <2> HIDE DEF last
  <2>3. cur = v[1] \/ \E k \in 1 .. c : In(cur - 1, E[k])
    <3>1. \A k \in 1 .. c : cur = E[k][2] => In(cur - 1, E[k])
      BY <1>1, <1>8 DEF In
    <3> QED
      BY <1>8, <3>1
  <2>4. ASSUME NEW t \in Int
        PROVE  (\E w \in kept \union {last} : In(t, w)) <=>
                  In(t, v) /\ \A k \in 1 .. c : ~In(t, E[k])
    <3>1. In(t, last) <=> cur <= t /\ t < v[2]
      BY <2>1 DEF In
    <3>2. cur <= t /\ t < v[2] => In(t, v) /\ \A k \in 1 .. c : ~In(t, E[k])
      BY <1>1, <1>8 DEF In
    <3>3. In(t, v) => t < v[2] /\ (t < cur \/ cur <= t)
      BY <1>8 DEF In
    <3> QED
      BY <1>9, <3>1, <3>2, <3>3
  <2>5. \A w \in kept \union {last} :
               /\ w[1] < w[2]
               /\ w[1] = v[1] \/ \E k \in 1 .. c : In(w[1] - 1, E[k])
               /\ w[2] = v[2] \/ \E k \in 1 .. c : In(w[2], E[k])
    <3>1. ASSUME NEW w \in kept
          PROVE  /\ w[1] < w[2]
                 /\ w[1] = v[1] \/ \E k \in 1 .. c : In(w[1] - 1, E[k])
                 /\ w[2] = v[2] \/ \E k \in 1 .. c : In(w[2], E[k])
      BY <1>9
    <3> QED
      BY <1>12, <2>1, <2>3, <3>1
  <2> QED
    BY <1>8, <2>1, <2>2, <2>4, <2>5 DEF c
<1> QED
  BY <1>11, <1>12

\* Intervals that hold all of some instants, and none of which can be longer,
\* are the longest stretches of them.
LEMMA LongestAreStretches ==
  ASSUME NEW T \in SUBSET Int, NEW S \in SUBSET Intervals,
         \A w \in S : w[1] < w[2] /\ w[1] - 1 \notin T /\ w[2] \notin T,
         \A t \in Int : t \in T <=> \E w \in S : In(t, w)
  PROVE  S = Stretches(T)
<1>1. \A w \in S : w[1] \in Int /\ w[2] \in Int /\ w = <<w[1], w[2]>>
  BY DEF Intervals
<1>2. ASSUME NEW w \in S
      PROVE  w \in Stretches(T)
  <2>1. w[1] \in T /\ w[2] - 1 \in T /\ w[2] = (w[2] - 1) + 1
    BY <1>1 DEF In
  <2>2. \A t \in w[1] .. (w[2] - 1) : t \in T
    BY <1>1 DEF In
  <2>3. w \in T \X {t + 1 : t \in T}
    <3>1. w[2] \in {t + 1 : t \in T}
      BY <2>1
    <3> QED
      BY <1>1, <2>1, <3>1
  <2> QED
    BY <2>2, <2>3 DEF Stretches
<1>3. ASSUME NEW v \in Stretches(T)
      PROVE  v \in S
  <2>1. /\ v = <<v[1], v[2]>> /\ v[1] \in T /\ v[2] \in Int /\ v[1] < v[2]
        /\ v[1] .. (v[2] - 1) \subseteq T
        /\ v[1] - 1 \notin T /\ v[2] \notin T
    BY DEF Stretches
  <2>2. v[1] \in Int
    BY <2>1
  <2>3. PICK w \in S : In(v[1], w)
    BY <2>1, <2>2
  <2>4. w[1] = v[1]
    <3>1. ~In(v[1] - 1, w)
      BY <2>1, <2>2
    <3> QED
      BY <1>1, <2>2, <2>3, <3>1 DEF In
  <2>5. w[2] = v[2]
    <3>1. ~In(v[2], w)
      BY <2>1
    <3>2. w[2] \notin v[1] .. (v[2] - 1)
      BY <2>1
    <3> QED
      BY <1>1, <2>1, <2>2, <2>3, <3>1, <3>2 DEF In
  <2> QED
    BY <1>1, <2>1, <2>4, <2>5
<1> QED
  BY <1>2, <1>3

\* Beside an interval of a merged sequence there is no instant.
LEMMA SpacedEnds ==
  ASSUME NEW m, Spaced(m), NEW T,
         \A t \in Int : (\E k \in 1 .. Len(m) : In(t, m[k])) <=> t \in T,
         NEW k \in 1 .. Len(m)
  PROVE  /\ m[k][1] \in Int /\ m[k][2] \in Int /\ m[k][1] < m[k][2]
         /\ m[k][1] - 1 \notin T /\ m[k][2] \notin T
<1>1. m \in Seq(Intervals) /\ Len(m) \in Nat
  BY DEF Spaced
<1>2. \A l \in 1 .. Len(m) : m[l] \in Intervals
  BY <1>1
<1>3. \A l \in 1 .. Len(m) : m[l][1] \in Int /\ m[l][2] \in Int
  BY <1>2 DEF Intervals
<1>4. /\ \A l \in 1 .. Len(m) : m[l][1] < m[l][2]
      /\ \A i, j \in 1 .. Len(m) : i < j => m[i][2] < m[j][1]
  BY DEF Spaced
<1>5. ASSUME NEW l \in 1 .. Len(m)
      PROVE  ~In(m[k][1] - 1, m[l]) /\ ~In(m[k][2], m[l])
  <2>1. l = k \/ l < k \/ k < l
    BY <1>1
  <2>2. CASE l = k
    BY <1>3, <1>4, <2>2 DEF In
  <2>3. CASE l < k
    BY <1>3, <1>4, <2>3 DEF In
  <2>4. CASE k < l
    BY <1>3, <1>4, <2>4 DEF In
  <2> QED
    BY <2>1, <2>2, <2>3, <2>4
<1>6. m[k][1] - 1 \in Int /\ m[k][2] \in Int /\ m[k][1] < m[k][2]
  BY <1>3, <1>4
<1>7. m[k][1] - 1 \notin T
  <2>1. m[k][1] - 1 \in T => \E l \in 1 .. Len(m) : In(m[k][1] - 1, m[l])
    BY <1>6
  <2> QED
    BY <1>5, <2>1
<1>8. m[k][2] \notin T
  <2>1. m[k][2] \in T => \E l \in 1 .. Len(m) : In(m[k][2], m[l])
    BY <1>6
  <2> QED
    BY <1>5, <2>1
<1> QED
  BY <1>3, <1>6, <1>7, <1>8

\* The intervals of a merged sequence.
LEMMA MergedStretches ==
  ASSUME NEW A \in SUBSET Intervals, IsFiniteSet(A)
  PROVE  /\ ToSet(Merged(A)) = Stretches(Instants(A))
         /\ Instants(ToSet(Merged(A))) = Instants(A)
<1> DEFINE M == Merged(A)
           T == Instants(A)
<1>1. /\ Spaced(M)
      /\ \A t \in Int : (\E k \in 1 .. Len(M) : In(t, M[k])) <=> t \in T
  BY MergedFacts
<1>2. M \in Seq(Intervals) /\ Len(M) \in Nat /\ DOMAIN M = 1 .. Len(M)
  BY <1>1 DEF Spaced
<1>3. ToSet(M) = {M[k] : k \in 1 .. Len(M)} /\ ToSet(M) \in SUBSET Intervals
  BY <1>2 DEF ToSet
<1>4. T \in SUBSET Int
  BY InstantsAre
<1> HIDE DEF M, T
<1>5. \A k \in 1 .. Len(M) : /\ M[k][1] \in Int /\ M[k][2] \in Int
                             /\ M[k][1] < M[k][2]
                             /\ M[k][1] - 1 \notin T /\ M[k][2] \notin T
  BY <1>1, SpacedEnds
<1>6. \A w \in ToSet(M) : w[1] < w[2] /\ w[1] - 1 \notin T /\ w[2] \notin T
  BY <1>3, <1>5
<1>7. \A t \in Int : t \in T <=> \E w \in ToSet(M) : In(t, w)
  BY <1>1, <1>3
<1>8. ToSet(M) = Stretches(T)
  BY <1>3, <1>4, <1>6, <1>7, LongestAreStretches
<1>9. Instants(ToSet(M)) = T
  BY <1>3, <1>4, <1>7, InstantsAre
<1> QED
  BY <1>8, <1>9 DEF M, T

\* What a subtraction leaves are the longest stretches outside the exclusions.
LEMMA SubtractedStretches ==
  ASSUME NEW A \in SUBSET Intervals, IsFiniteSet(A),
         NEW B \in SUBSET Intervals, IsFiniteSet(B)
  PROVE  /\ Subtracted(A, B) = Stretches(Instants(A) \ Instants(B))
         /\ Instants(Subtracted(A, B)) = Instants(A) \ Instants(B)
<1> DEFINE M == Merged(A)
           E == Merged(B)
           S == Instants(A)
           X == Instants(B)
           T == S \ X
           W == Subtracted(A, B)
<1>1. /\ Spaced(M)
      /\ \A t \in Int : (\E k \in 1 .. Len(M) : In(t, M[k])) <=> t \in S
  BY MergedFacts
<1>2. /\ Spaced(E)
      /\ \A t \in Int : (\E k \in 1 .. Len(E) : In(t, E[k])) <=> t \in X
  BY MergedFacts
<1>3. M \in Seq(Intervals) /\ Len(M) \in Nat /\ DOMAIN M = 1 .. Len(M)
  BY <1>1 DEF Spaced
<1>4. W = UNION {LeftOf(M[k], E) : k \in 1 .. Len(M)}
  BY <1>3 DEF Subtracted, ToSet
<1>5. T \in SUBSET Int
  BY InstantsAre
<1> HIDE DEF M, E, S, X, W
<1>6. \A k \in 1 .. Len(M) : /\ M[k][1] \in Int /\ M[k][2] \in Int
                             /\ M[k][1] < M[k][2] /\ M[k] \in Intervals
                             /\ M[k][1] - 1 \notin S /\ M[k][2] \notin S
  <2>1. \A k \in 1 .. Len(M) : M[k] \in Intervals
    BY <1>3
  <2>2. \A k \in 1 .. Len(M) : /\ M[k][1] \in Int /\ M[k][2] \in Int
                               /\ M[k][1] < M[k][2]
                               /\ M[k][1] - 1 \notin S /\ M[k][2] \notin S
    BY <1>1, SpacedEnds
  <2> QED
    BY <2>1, <2>2
<1>7. ASSUME NEW k \in 1 .. Len(M)
      PROVE  /\ LeftOf(M[k], E) \in SUBSET Intervals
             /\ \A w \in LeftOf(M[k], E) :
                   w[1] < w[2] /\ w[1] - 1 \notin T /\ w[2] \notin T
             /\ \A t \in Int : (\E w \in LeftOf(M[k], E) : In(t, w)) <=>
                   In(t, M[k]) /\ t \notin X
  <2>1. /\ LeftOf(M[k], E) \in SUBSET Intervals
        /\ \A w \in LeftOf(M[k], E) :
              /\ w[1] < w[2]
              /\ w[1] = M[k][1] \/ \E l \in 1 .. Len(E) : In(w[1] - 1, E[l])
              /\ w[2] = M[k][2] \/ \E l \in 1 .. Len(E) : In(w[2], E[l])
        /\ \A t \in Int : (\E w \in LeftOf(M[k], E) : In(t, w)) <=>
              In(t, M[k]) /\ \A l \in 1 .. Len(E) : ~In(t, E[l])
    BY <1>2, <1>6, LeftFacts
  <2>2. ASSUME NEW w \in LeftOf(M[k], E)
        PROVE  w[1] < w[2] /\ w[1] - 1 \notin T /\ w[2] \notin T
    <3>1. w[1] \in Int /\ w[2] \in Int /\ w[1] - 1 \in Int
      BY <2>1 DEF Intervals
    <3> QED
      BY <1>2, <1>6, <2>1, <3>1
  <2> QED
    BY <1>2, <2>1, <2>2
<1>8. W \in SUBSET Intervals
  BY <1>4, <1>7
<1>9. \A w \in W : w[1] < w[2] /\ w[1] - 1 \notin T /\ w[2] \notin T
  BY <1>4, <1>7
<1>10. ASSUME NEW t \in Int
       PROVE  t \in T <=> \E w \in W : In(t, w)
  <2>1. (\E w \in W : In(t, w)) <=>
          \E k \in 1 .. Len(M) : \E w \in LeftOf(M[k], E) : In(t, w)
    BY <1>4
  <2>2. (\E w \in W : In(t, w)) <=> \E k \in 1 .. Len(M) : In(t, M[k]) /\ t \notin X
    BY <1>7, <2>1
  <2> QED
    BY <1>1, <2>2
<1> HIDE DEF T
<1>11. W = Stretches(T)
  BY <1>5, <1>8, <1>9, <1>10, LongestAreStretches
<1>12. Instants(W) = T
  BY <1>5, <1>8, <1>10, InstantsAre
<1> QED
  BY <1>11, <1>12 DEF T, S, X, W

-----------------------------------------------------------------------------
\* A sum over the parts of S, as it is computed: one element at a time.
Pick(s) == CHOOSE x \in s : TRUE

Sums(sum, S, f) ==
  sum = [s \in SUBSET S |-> IF s = {} THEN 0 ELSE f[Pick(s)] + sum[s \ {Pick(s)}]]

\* F adds f up the same way.
Adds(F, S, f) ==
  /\ F[{}] = 0
  /\ \A s \in SUBSET S : s # {} => F[s] = f[Pick(s)] + F[s \ {Pick(s)}]

\* A sum over the elements of a finite set, taken one by one, is what any function
\* of its parts is that grows the same way.
LEMMA SumIs ==
  ASSUME NEW S, IsFiniteSet(S), NEW f, NEW F, NEW sum,
         Sums(sum, S, f), Adds(F, S, f)
  PROVE  sum[S] = F[S]
<1> DEFINE m == Cardinality(S)
           T == {n \in 0 .. m : \A s \in SUBSET S : Cardinality(s) = n => sum[s] = F[s]}
<1>1. m \in Nat
  BY FS_CardinalityType
<1>2. \A s \in SUBSET S : IsFiniteSet(s) /\ Cardinality(s) \in Nat
  BY FS_Subset, FS_CardinalityType
<1>3. 0 \in T
  <2>1. \A s \in SUBSET S : Cardinality(s) = 0 => s = {}
    BY <1>2, FS_EmptySet
  <2>2. {} \in SUBSET S /\ sum[{}] = 0 /\ F[{}] = 0
    BY DEF Sums, Adds
  <2>3. 0 \in 0 .. m
    BY <1>1
  <2> HIDE DEF m
  <2> QED
    BY <2>1, <2>2, <2>3
<1>4. ASSUME NEW n \in 1 .. m, n - 1 \in T
      PROVE  n \in T
  <2>1. ASSUME NEW s \in SUBSET S, Cardinality(s) = n
        PROVE  sum[s] = F[s]
    <3> DEFINE x == Pick(s)
    <3>1. s # {}
      <4>1. Cardinality(s) # 0
        BY <1>1, <2>1
      <4> QED
        BY <4>1, FS_EmptySet
    <3>2. x \in s
      BY <3>1 DEF Pick
    <3>3. sum[s] = f[x] + sum[s \ {x}] /\ F[s] = f[x] + F[s \ {x}]
      BY <3>1 DEF Sums, Adds
    <3> HIDE DEF x
    <3>4. s \ {x} \in SUBSET S /\ Cardinality(s \ {x}) = n - 1
      BY <1>2, <2>1, <3>2, FS_RemoveElement
    <3>5. sum[s \ {x}] = F[s \ {x}]
      BY <1>4, <3>4
    <3> QED
      BY <3>3, <3>5
  <2>2. n \in 0 .. m
    BY <1>1
  <2> QED
    BY <2>1, <2>2
<1>5. m \in T
  <2> HIDE DEF T, m
  <2>1. 0 .. m \subseteq T /\ m \in 0 .. m
    BY <1>1, <1>3, <1>4, StepByStep
  <2> QED
    BY <2>1
<1> QED
  BY <1>5

\* Finitely many intervals have finitely many instants.
LEMMA InstantsFinite ==
  ASSUME NEW A \in SUBSET Intervals, IsFiniteSet(A)
  PROVE  IsFiniteSet(Instants(A)) /\ Cardinality(Instants(A)) \in Nat
<1> DEFINE f == [v \in A |-> v[1] .. (v[2] - 1)]
           S == {f[v] : v \in A}
<1>1. IsFiniteSet(S)
  <2>1. f \in [A -> S]
    OBVIOUS
  <2>2. f \in Surjection(A, S)
    BY <2>1 DEF Surjection
  <2> HIDE DEF f, S
  <2> QED
    BY <2>2, FS_Surjection
<1>2. \A s \in S : IsFiniteSet(s)
  <2>1. \A v \in A : v[1] \in Int /\ v[2] - 1 \in Int
    BY DEF Intervals
  <2> QED
    BY <2>1, FS_Interval
<1>3. IsFiniteSet(UNION S)
  <2> HIDE DEF S
  <2> QED
    BY <1>1, <1>2, FS_UNION
<1>4. Instants(A) = UNION S
  BY DEF Instants
<1> QED
  BY <1>3, <1>4, FS_CardinalityType

\* The longest stretches of finitely many instants are finitely many, and no two
\* of them have an instant in common.
LEMMA StretchFacts ==
  ASSUME NEW T \in SUBSET Int, IsFiniteSet(T)
  PROVE  /\ Stretches(T) \in SUBSET Intervals /\ IsFiniteSet(Stretches(T))
         /\ \A v \in Stretches(T) : v[1] < v[2]
         /\ \A v, w \in Stretches(T), t \in Int : In(t, v) /\ In(t, w) => v = w
<1> DEFINE f == [t \in T |-> t + 1]
           U == {t + 1 : t \in T}
<1>1. IsFiniteSet(U)
  <2>1. f \in Surjection(T, U)
    BY DEF Surjection
  <2> HIDE DEF f, U
  <2> QED
    BY <2>1, FS_Surjection
<1>2. IsFiniteSet(T \X U)
  <2> HIDE DEF U
  <2> QED
    BY <1>1, FS_Product
<1>3. Stretches(T) \in SUBSET (T \X U)
  BY DEF Stretches
<1>4. IsFiniteSet(Stretches(T))
  <2> HIDE DEF U
  <2> QED
    BY <1>2, <1>3, FS_Subset
<1>5. \A v \in Stretches(T) : /\ v = <<v[1], v[2]>> /\ v[1] \in Int /\ v[2] \in Int
                              /\ v[1] < v[2] /\ v[1] - 1 \notin T /\ v[2] \notin T
                              /\ \A t \in Int : In(t, v) => t \in T
  <2> SUFFICES ASSUME NEW v \in Stretches(T)
               PROVE  /\ v = <<v[1], v[2]>> /\ v[1] \in Int /\ v[2] \in Int
                      /\ v[1] < v[2] /\ v[1] - 1 \notin T /\ v[2] \notin T
                      /\ \A t \in Int : In(t, v) => t \in T
    OBVIOUS
  <2>1. /\ v = <<v[1], v[2]>> /\ v[1] \in Int /\ v[2] \in Int
        /\ v[1] < v[2] /\ v[1] - 1 \notin T /\ v[2] \notin T
        /\ v[1] .. (v[2] - 1) \subseteq T
    <3>1. /\ v \in T \X U /\ v[1] < v[2] /\ v[1] .. (v[2] - 1) \subseteq T
          /\ v[1] - 1 \notin T /\ v[2] \notin T
      BY DEF Stretches
    <3> HIDE DEF U
    <3>2. v = <<v[1], v[2]>> /\ v[1] \in T /\ v[2] \in U
      BY <3>1
    <3>3. U \in SUBSET Int
      BY DEF U
    <3> QED
      BY <3>1, <3>2, <3>3
  <2>2. \A t \in Int : In(t, v) => t \in v[1] .. (v[2] - 1)
    BY <2>1 DEF In
  <2> QED
    BY <2>1, <2>2
<1>6. Stretches(T) \in SUBSET Intervals
  BY <1>5 DEF Intervals
<1>7. ASSUME NEW v \in Stretches(T), NEW w \in Stretches(T), NEW t \in Int,
             In(t, v), In(t, w)
      PROVE  v = w
  <2>1. ~In(w[1] - 1, v) /\ ~In(v[1] - 1, w) /\ ~In(v[2], w) /\ ~In(w[2], v)
    BY <1>5
  <2>2. v[1] = w[1] /\ v[2] = w[2]
    BY <1>5, <1>7, <2>1 DEF In
  <2> QED
    BY <1>5, <2>2
<1> QED
  BY <1>4, <1>5, <1>6, <1>7

\* The length of intervals that have no instant in common is the number of their
\* instants.
LEMMA DurationCounts ==
  ASSUME NEW D \in SUBSET Intervals, IsFiniteSet(D),
         \A v \in D : v[1] < v[2],
         \A v, w \in D, t \in Int : In(t, v) /\ In(t, w) => v = w
  PROVE  Duration(D) = Cardinality(Instants(D))
<1> DEFINE F == [s \in SUBSET D |-> Cardinality(Instants(s))]
           f == [v \in D |-> v[2] - v[1]]
           Is(h) == h = [s \in SUBSET D |->
                           IF s = {} THEN 0
                           ELSE ((CHOOSE x \in s : TRUE)[2] - (CHOOSE x \in s : TRUE)[1])
                                  + h[s \ {CHOOSE x \in s : TRUE}]]
<1>1. F[{}] = 0
  <2>1. Instants({}) = {}
    BY DEF Instants
  <2> QED
    BY <2>1, FS_EmptySet
<1>2. ASSUME NEW s \in SUBSET D, s # {}
      PROVE  F[s] = f[Pick(s)] + F[s \ {Pick(s)}]
  <2> DEFINE x == Pick(s)
             r == s \ {x}
             one == x[1] .. (x[2] - 1)
  <2>1. x \in s
    BY <1>2 DEF Pick
  <2> HIDE DEF x
  <2>2. x \in D /\ r \in SUBSET D /\ x[1] \in Int /\ x[2] \in Int /\ x[1] < x[2]
    BY <2>1 DEF Intervals
  <2>3. IsFiniteSet(one) /\ Cardinality(one) = x[2] - x[1]
    <3>1. x[1] \in Int /\ x[2] - 1 \in Int /\ ~(x[1] > x[2] - 1)
            /\ (x[2] - 1) - x[1] + 1 = x[2] - x[1]
      BY <2>2
    <3> QED
      BY <3>1, FS_Interval
  <2>4. IsFiniteSet(r)
    BY <2>2, FS_Subset
  <2>5. IsFiniteSet(Instants(r)) /\ Cardinality(Instants(r)) \in Nat
    <3> HIDE DEF r
    <3> QED
      BY <2>2, <2>4, InstantsFinite
  <2>6. Instants(s) = one \union Instants(r)
    BY <2>1 DEF Instants
  <2>7. one \cap Instants(r) = {}
    <3> SUFFICES ASSUME NEW t \in one, t \in Instants(r)
                 PROVE  FALSE
      OBVIOUS
    <3>1. t \in Int /\ In(t, x)
      BY <2>2 DEF In
    <3>2. PICK w \in r : In(t, w)
      <4> HIDE DEF r
      <4> QED
        BY <2>2, <3>1, InstantsAre
    <3>3. w \in D /\ w # x
      BY <2>2, <3>2
    <3> QED
      BY <2>2, <3>1, <3>2, <3>3
  <2> HIDE DEF one, r
  <2>8. Cardinality(Instants(s)) = (x[2] - x[1]) + Cardinality(Instants(r))
    <3>1. Cardinality(one \union Instants(r)) =
            Cardinality(one) + Cardinality(Instants(r)) - Cardinality(one \cap Instants(r))
      BY <2>3, <2>5, FS_Union
    <3> QED
      <4>1. Cardinality(one \cap Instants(r)) = 0
        BY <2>7, FS_EmptySet
      <4>2. x[2] - x[1] \in Int
        BY <2>2
      <4> QED
        BY <2>3, <2>5, <2>6, <3>1, <4>1, <4>2
  <2>9. F[s] = Cardinality(Instants(s)) /\ F[r] = Cardinality(Instants(r))
          /\ f[x] = x[2] - x[1]
    BY <2>2
  <2> QED
    BY <2>8, <2>9 DEF x, r
<1>3. \A s \in SUBSET D : s # {} =>
        f[Pick(s)] = (CHOOSE x \in s : TRUE)[2] - (CHOOSE x \in s : TRUE)[1]
  BY DEF Pick
<1>4. Is(F)
  <2> DEFINE rest(s) == s \ {CHOOSE x \in s : TRUE}
             one(s) == (CHOOSE x \in s : TRUE)[2] - (CHOOSE x \in s : TRUE)[1]
  <2> SUFFICES F = [s \in SUBSET D |-> IF s = {} THEN 0 ELSE one(s) + F[rest(s)]]
    OBVIOUS
  <2>1. \A s \in SUBSET D : s # {} => F[s] = one(s) + F[rest(s)]
    <3> HIDE DEF f, F
    <3> QED
      BY <1>2, <1>3 DEF Pick
  <2>2. F = [s \in SUBSET D |-> F[s]]
    OBVIOUS
  <2> HIDE DEF F, one, rest
  <2> QED
    BY <1>1, <2>1, <2>2
<1> DEFINE sum == CHOOSE h : Is(h)
<1>5. Duration(D) = sum[D]
  BY DEF Duration, MapThenSumSet, MapThenFoldSet
<1>6. Is(sum)
  <2> HIDE DEF Is, F
  <2> QED
    BY <1>4
<1> HIDE DEF sum
<1>7. Sums(sum, D, f)
  <2> HIDE DEF f
  <2> QED
    BY <1>3, <1>6 DEF Sums, Pick
<1>8. Adds(F, D, f)
  <2> HIDE DEF f, F
  <2> QED
    BY <1>1, <1>2 DEF Adds
<1>9. sum[D] = F[D]
  <2> HIDE DEF f, F, Is
  <2> QED
    BY <1>7, <1>8, SumIs
<1> QED
  BY <1>5, <1>9

\* Merged intervals last as long as the instants they cover.
LEMMA MergedDuration ==
  ASSUME NEW A \in SUBSET Intervals, IsFiniteSet(A)
  PROVE  Duration(ToSet(Merged(A))) = Cardinality(Instants(A))
<1>1. Instants(A) \in SUBSET Int /\ IsFiniteSet(Instants(A))
  BY InstantsAre, InstantsFinite
<1>2. Duration(Stretches(Instants(A))) = Cardinality(Instants(Stretches(Instants(A))))
  BY <1>1, StretchFacts, DurationCounts
<1> QED
  BY <1>2, MergedStretches

\* What is left after subtracting lasts as long as the instants left.
LEMMA SubtractedDuration ==
  ASSUME NEW A \in SUBSET Intervals, IsFiniteSet(A),
         NEW B \in SUBSET Intervals, IsFiniteSet(B)
  PROVE  Duration(Subtracted(A, B)) = Cardinality(Instants(A) \ Instants(B))
<1> DEFINE T == Instants(A) \ Instants(B)
<1>1. T \in SUBSET Int /\ IsFiniteSet(T)
  <2>1. Instants(A) \in SUBSET Int /\ IsFiniteSet(Instants(A)) /\ T \in SUBSET Instants(A)
    BY InstantsAre, InstantsFinite
  <2> HIDE DEF T
  <2> QED
    BY <2>1, FS_Subset
<1>2. Duration(Stretches(T)) = Cardinality(Instants(Stretches(T)))
  <2> HIDE DEF T
  <2> QED
    BY <1>1, StretchFacts, DurationCounts
<1> QED
  BY <1>2, SubtractedStretches

\* The times counted are those the instants of the events take.
LEMMA TimesMeasured ==
  ASSUME NEW evs \in Recordings
  PROVE  TimesAreMeasured(evs)
<1> DEFINE obs == IntervalsOf(evs, Observed)
           exc == IntervalsOf(evs, Excluded)
           idl == IntervalsOf(evs, {"idle"})
           awy == IntervalsOf(evs, {"page_away"})
           idle == Instants(idl) \ Instants(exc)
           long == {v \in Stretches(idle) : v[2] - v[1] >= IdleThreshold}
           s == Signals(evs)
<1>1. IsFiniteSet(DOMAIN evs) /\ \A i \in DOMAIN evs : evs[i].from \in Int /\ evs[i].to \in Int
  <2>1. Len(evs) \in Nat /\ DOMAIN evs = 1 .. Len(evs)
    BY RecordingsAssumption
  <2>2. IsFiniteSet(1 .. Len(evs))
    BY <2>1, FS_Interval
  <2> QED
    BY <2>1, <2>2, RecordingsAssumption
<1>2. ASSUME NEW kinds
      PROVE  IntervalsOf(evs, kinds) \in SUBSET Intervals /\ IsFiniteSet(IntervalsOf(evs, kinds))
  <2> DEFINE P == Of(evs, kinds)
             J == IntervalsOf(evs, kinds)
             f == [i \in P |-> <<evs[i].from, evs[i].to>>]
  <2>1. P \in SUBSET DOMAIN evs
    BY DEF Of
  <2>2. J \in SUBSET Intervals
    BY <1>1, <2>1 DEF IntervalsOf, Intervals
  <2>3. f \in Surjection(P, J)
    BY DEF Surjection, IntervalsOf
  <2> HIDE DEF P, J, f
  <2>4. IsFiniteSet(P)
    BY <1>1, <2>1, FS_Subset
  <2>5. IsFiniteSet(J)
    BY <2>3, <2>4, FS_Surjection
  <2> QED
    BY <2>2, <2>5 DEF J
<1>3. /\ obs \in SUBSET Intervals /\ IsFiniteSet(obs)
      /\ exc \in SUBSET Intervals /\ IsFiniteSet(exc)
      /\ idl \in SUBSET Intervals /\ IsFiniteSet(idl)
      /\ awy \in SUBSET Intervals /\ IsFiniteSet(awy)
  BY <1>2
<1>4. s.observed # Missing =>
        /\ s.observed = Duration(Subtracted(obs, exc))
        /\ s.away = Duration(ToSet(Merged(awy)))
        /\ s.idles = Cardinality(IdleFragments(evs))
        /\ s.idleTime = Duration(ToSet(Merged(IdleFragments(evs))))
  BY DEF Signals
<1> HIDE DEF obs, exc, idl, awy, s
<1>5. IdleFragments(evs) = long
  BY <1>3, SubtractedStretches DEF IdleFragments, idl, exc
<1>6. long \in SUBSET Intervals /\ IsFiniteSet(long)
  <2>1. idle \in SUBSET Int /\ IsFiniteSet(idle)
    <3>1. /\ Instants(idl) \in SUBSET Int /\ IsFiniteSet(Instants(idl))
          /\ idle \in SUBSET Instants(idl)
      BY <1>3, InstantsAre, InstantsFinite
    <3> HIDE DEF idle
    <3> QED
      BY <3>1, FS_Subset
  <2> HIDE DEF idle
  <2>2. Stretches(idle) \in SUBSET Intervals /\ IsFiniteSet(Stretches(idle))
    BY <2>1, StretchFacts
  <2>3. long \in SUBSET Stretches(idle)
    OBVIOUS
  <2> HIDE DEF long
  <2> QED
    BY <2>2, <2>3, FS_Subset
<1>7. Duration(Subtracted(obs, exc)) = Cardinality(Instants(obs) \ Instants(exc))
  BY <1>3, SubtractedDuration
<1>8. Duration(ToSet(Merged(awy))) = Cardinality(Instants(awy))
  BY <1>3, MergedDuration
<1>9. Duration(ToSet(Merged(long))) = Cardinality(Instants(long))
  <2> HIDE DEF long
  <2> QED
    BY <1>6, MergedDuration
<1> QED
  BY <1>4, <1>5, <1>7, <1>8, <1>9 DEF TimesAreMeasured, obs, exc, idl, awy, s

-----------------------------------------------------------------------------
\* The runs that failed, and those that succeeded, when no outcome is unknown.
FailedRuns(evs) == {i \in Runs(evs) : evs[i].result = "failure"}
Wins(evs) == Succeeded(evs, Runs(evs))

\* Every run failed or succeeded, and not both.
LEMMA OutcomesSplit ==
  ASSUME NEW evs \in Recordings, OutcomesKnown(evs)
  PROVE  /\ IsFiniteSet(Runs(evs)) /\ IsFiniteSet(FailedRuns(evs)) /\ IsFiniteSet(Wins(evs))
         /\ Cardinality(Runs(evs)) \in Nat /\ Cardinality(FailedRuns(evs)) \in Nat
         /\ Cardinality(Wins(evs)) = Cardinality(Runs(evs)) - Cardinality(FailedRuns(evs))
         /\ \A r \in SUBSET Runs(evs) :
               r \ Succeeded(evs, r) = {i \in r : evs[i].result = "failure"}
         /\ \A i \in Runs(evs) : i \in Wins(evs) <=> i \notin FailedRuns(evs)
<1> DEFINE R == Runs(evs)
           L == FailedRuns(evs)
           W == Wins(evs)
<1>1. IsFiniteSet(R)
  <2>1. R \in SUBSET (1 .. Len(evs)) /\ Len(evs) \in Nat
    BY RecordingsAssumption DEF Runs, Of
  <2>2. IsFiniteSet(1 .. Len(evs))
    BY <2>1, FS_Interval
  <2> QED
    BY <2>1, <2>2, FS_Subset
<1>2. L \in SUBSET R /\ W \in SUBSET R /\ L \union W = R /\ L \cap W = {}
  BY DEF FailedRuns, Wins, Succeeded, OutcomesKnown
<1>3. \A r \in SUBSET Runs(evs) :
        r \ Succeeded(evs, r) = {i \in r : evs[i].result = "failure"}
  BY DEF Succeeded, OutcomesKnown
<1>4. \A i \in R : i \in W <=> i \notin L
  BY <1>2
<1> HIDE DEF R, L, W
<1>5. IsFiniteSet(L) /\ IsFiniteSet(W)
  BY <1>1, <1>2, FS_Subset
<1>6. Cardinality(R) \in Nat /\ Cardinality(L) \in Nat /\ Cardinality(W) \in Nat
  BY <1>1, <1>5, FS_CardinalityType
<1>7. Cardinality(R) = Cardinality(L) + Cardinality(W)
  <2>1. Cardinality(L \cap W) = 0
    BY <1>2, FS_EmptySet
  <2>2. Cardinality(L \union W) = Cardinality(L) + Cardinality(W) - Cardinality(L \cap W)
    BY <1>5, FS_Union
  <2> QED
    BY <1>2, <1>6, <2>1, <2>2
<1> QED
  BY <1>1, <1>3, <1>4, <1>5, <1>6, <1>7 DEF R, L, W

\* The failures the details of the summary count, cell by cell, are all of them.
LEMMA DetailCounts ==
  ASSUME NEW evs \in Recordings, OutcomesKnown(evs)
  PROVE  MapThenSumSet(LAMBDA key : Summary(evs).detail[key].failures,
                       DOMAIN Summary(evs).detail) = Cardinality(FailedRuns(evs))
<1> DEFINE detail == Summary(evs).detail
           L == FailedRuns(evs)
           BadIn(K) == {i \in L : ExecutionKey(evs[i].place) \in K}
           D == DOMAIN detail
           F == [K \in SUBSET D |-> Cardinality(BadIn(K))]
           f == [key \in D |-> detail[key].failures]
           Is(h) == h = [s \in SUBSET D |->
                           IF s = {} THEN 0
                           ELSE detail[CHOOSE x \in s : TRUE].failures
                                  + h[s \ {CHOOSE x \in s : TRUE}]]
<1>1. IsFiniteSet(L)
  BY OutcomesSplit
<1>2. \A key \in D : detail[key].failures = Cardinality(BadIn({key}))
  <2> SUFFICES ASSUME NEW key \in D
               PROVE  detail[key].failures = Cardinality(BadIn({key}))
    OBVIOUS
  <2> DEFINE r == RunsUnder(evs, key)
  <2>1. r \in SUBSET Runs(evs) /\ {i \in r : evs[i].result = "failure"} = BadIn({key})
    BY DEF RunsUnder, FailedRuns
  <2>2. r \ Succeeded(evs, r) = BadIn({key})
    <3> HIDE DEF r, BadIn
    <3> QED
      BY <2>1, OutcomesSplit
  <2>3. detail[key].failures = Cardinality(r \ Succeeded(evs, r))
    BY DEF Summary, Restrict, ExecutionStats
  <2> QED
    BY <2>2, <2>3
<1>3. \A i \in L : ExecutionKey(evs[i].place) \in D
  <2> SUFFICES ASSUME NEW i \in L
               PROVE  ExecutionKey(evs[i].place) \in D
    OBVIOUS
  <2> DEFINE key == ExecutionKey(evs[i].place)
             r == RunsUnder(evs, key)
             bad == r \ Succeeded(evs, r)
  <2>1. i \in bad /\ bad \in SUBSET Runs(evs) /\ i \in Runs(evs)
    BY DEF RunsUnder, FailedRuns, Succeeded
  <2> HIDE DEF bad
  <2>2. IsFiniteSet(bad)
    BY <2>1, OutcomesSplit, FS_Subset
  <2>3. Cardinality(bad) \in Nat /\ Cardinality(bad) # 0
    BY <2>1, <2>2, FS_CardinalityType, FS_EmptySet
  <2>4. key \in DOMAIN ExecutionStats(evs) /\ ExecutionStats(evs)[key].failures = Cardinality(bad)
    BY <2>1 DEF ExecutionStats, bad
  <2>5. ExecutionStats(evs)[key].failures > 0
    BY <2>3, <2>4
  <2> HIDE DEF key
  <2>6. key \in D
    BY <2>4, <2>5 DEF Summary, Restrict
  <2> QED
    BY <2>6 DEF key
<1>4. IsFiniteSet(D)
  <2> DEFINE k == [i \in Runs(evs) |-> ExecutionKey(evs[i].place)]
             E == {ExecutionKey(evs[i].place) : i \in Runs(evs)}
  <2>1. k \in Surjection(Runs(evs), E)
    BY DEF Surjection
  <2>2. IsFiniteSet(E)
    <3> HIDE DEF k, E
    <3> QED
      BY <2>1, OutcomesSplit, FS_Surjection
  <2>3. D \in SUBSET E
    BY DEF Summary, Restrict, ExecutionStats
  <2> HIDE DEF D, E
  <2> QED
    BY <2>2, <2>3, FS_Subset
<1> HIDE DEF detail, L
<1>5. \A K \in SUBSET D : IsFiniteSet(BadIn(K)) /\ Cardinality(BadIn(K)) \in Nat
  <2> SUFFICES ASSUME NEW K \in SUBSET D
               PROVE  IsFiniteSet(BadIn(K)) /\ Cardinality(BadIn(K)) \in Nat
    OBVIOUS
  <2>1. BadIn(K) \in SUBSET L
    OBVIOUS
  <2> HIDE DEF BadIn
  <2> QED
    BY <1>1, <2>1, FS_Subset, FS_CardinalityType
<1>6. F[{}] = 0
  <2>1. BadIn({}) = {} /\ {} \in SUBSET D
    OBVIOUS
  <2> QED
    BY <2>1, FS_EmptySet
<1>7. ASSUME NEW s \in SUBSET D, s # {}
      PROVE  F[s] = f[Pick(s)] + F[s \ {Pick(s)}]
  <2> DEFINE x == Pick(s)
             r == s \ {x}
  <2>1. x \in s
    BY <1>7 DEF Pick
  <2> HIDE DEF x
  <2>2. x \in D /\ r \in SUBSET D /\ {x} \in SUBSET D
    BY <2>1
  <2>3. BadIn(s) = BadIn({x}) \union BadIn(r) /\ BadIn({x}) \cap BadIn(r) = {}
    BY <2>1
  <2> HIDE DEF BadIn, r
  <2>4. Cardinality(BadIn({x}) \cap BadIn(r)) = 0
    BY <2>3, FS_EmptySet
  <2>5. Cardinality(BadIn(s)) = Cardinality(BadIn({x})) + Cardinality(BadIn(r))
    <3>1. Cardinality(BadIn({x}) \union BadIn(r)) =
            Cardinality(BadIn({x})) + Cardinality(BadIn(r)) - Cardinality(BadIn({x}) \cap BadIn(r))
      BY <1>5, <2>2, FS_Union
    <3> QED
      BY <1>5, <2>2, <2>3, <2>4, <3>1
  <2>6. F[s] = Cardinality(BadIn(s)) /\ F[r] = Cardinality(BadIn(r)) /\ f[x] = Cardinality(BadIn({x}))
    BY <1>2, <2>2
  <2> QED
    BY <2>5, <2>6 DEF x, r
<1>8. \A s \in SUBSET D : s # {} => f[Pick(s)] = detail[CHOOSE x \in s : TRUE].failures
  BY DEF Pick
<1>9. Is(F)
  <2> DEFINE rest(s) == s \ {CHOOSE x \in s : TRUE}
             one(s) == detail[CHOOSE x \in s : TRUE].failures
  <2> SUFFICES F = [s \in SUBSET D |-> IF s = {} THEN 0 ELSE one(s) + F[rest(s)]]
    OBVIOUS
  <2>1. \A s \in SUBSET D : s # {} => F[s] = one(s) + F[rest(s)]
    <3> HIDE DEF f, F
    <3> QED
      BY <1>7, <1>8 DEF Pick
  <2>2. F = [s \in SUBSET D |-> F[s]]
    OBVIOUS
  <2> HIDE DEF F, one, rest
  <2> QED
    BY <1>6, <2>1, <2>2
<1> DEFINE sum == CHOOSE h : Is(h)
<1>10. MapThenSumSet(LAMBDA key : detail[key].failures, D) = sum[D]
  BY DEF MapThenSumSet, MapThenFoldSet
<1>11. Is(sum)
  <2> HIDE DEF Is, F
  <2> QED
    BY <1>9
<1> HIDE DEF sum
<1>12. Sums(sum, D, f)
  <2> HIDE DEF f
  <2> QED
    BY <1>8, <1>11 DEF Sums, Pick
<1>13. Adds(F, D, f)
  <2> HIDE DEF f, F
  <2> QED
    BY <1>6, <1>7 DEF Adds
<1>14. sum[D] = F[D]
  <2> HIDE DEF f, F, Is, D
  <2> QED
    BY <1>4, <1>12, <1>13, SumIs
<1>15. F[D] = Cardinality(L)
  <2>1. BadIn(D) = L
    BY <1>3
  <2> QED
    BY <2>1
<1> HIDE DEF F
<1> QED
  BY <1>10, <1>14, <1>15 DEF detail, L

\* A run that answers a failure comes after a failure of its own cell or file,
\* which succeeds by it, if every edit and run knows its own.
LEMMA AnswersFollowFailures ==
  ASSUME NEW evs \in Recordings, OutcomesKnown(evs),
         \A i \in Of(evs, Edits \union {"code_execution"}) :
            ExecutionKey(evs[i].place) # Missing,
         NEW i \in DOMAIN evs, AnswersFailure(evs, i)
  PROVE  Section(evs, i).prior \notin {Missing, 0}
<1> DEFINE key == ExecutionKey(evs[i].place)
           before == {j \in RunsUnder(evs, key) : j < i}
           bad == before \ Succeeded(evs, before)
           g == Max(OpenAt(evs, i))
<1>1. i \in Runs(evs) /\ i \in Succeeded(evs, Runs(evs)) /\ OpenAt(evs, i) # {}
  BY DEF AnswersFailure, Succeeded
<1>2. PICK f \in OpenAt(evs, i) : TRUE
  BY <1>1
<1>3. /\ f \in Runs(evs) /\ evs[f].result = "failure"
      /\ SamePlace(evs[f].place, evs[i].place)
      /\ f < i
  <2>1. DOMAIN evs = 1 .. Len(evs) /\ Len(evs) \in Nat
    BY RecordingsAssumption
  <2>2. i \in Nat
    BY <2>1
  <2> QED
    BY <1>2, <2>2 DEF OpenAt
<1>4. \A j \in Runs(evs) : ExecutionKey(evs[j].place) # Missing
  BY DEF Runs, Of
<1>5. ExecutionKey(evs[f].place) = key
  <2>1. ExecutionKey(evs[f].place) # Missing /\ key # Missing
    BY <1>1, <1>3, <1>4
  <2> DEFINE p == evs[f].place
             q == evs[i].place
  <2>2. SamePlace(p, q) /\ ExecutionKey(p) # Missing /\ ExecutionKey(q) # Missing
    BY <1>3, <2>1
  <2> HIDE DEF p, q
  <2>3. ExecutionKey(p) = ExecutionKey(q)
    BY <2>2 DEF SamePlace, SameDocument, Agree, BothKnow, ExecutionKey
  <2> QED
    BY <2>3 DEF p, q
<1>6. f \in bad /\ bad \in SUBSET Runs(evs)
  BY <1>3, <1>5 DEF RunsUnder, Succeeded
<1>7. Section(evs, i).prior = Cardinality(bad)
  <2>1. key # Missing
    BY <1>1, <1>4
  <2>2. FailuresBefore(evs, i) = Cardinality(bad)
    BY <2>1 DEF FailuresBefore
  <2> QED
    BY <1>1, <2>2 DEF Section
<1> HIDE DEF bad
<1>8. IsFiniteSet(bad)
  BY <1>6, OutcomesSplit, FS_Subset
<1>9. Cardinality(bad) \in Nat /\ Cardinality(bad) # 0
  BY <1>6, <1>8, FS_CardinalityType, FS_EmptySet
<1>10. Cardinality(bad) # Missing
  BY <1>9, MissingAssumption
<1> QED
  BY <1>7, <1>9, <1>10

\* A section that tells of failures before it is of a success in a cell or file
\* of which the summary says that it failed and succeeded.
LEMMA SectionsInSummary ==
  ASSUME NEW evs \in Recordings, OutcomesKnown(evs),
         NEW i \in DOMAIN evs, Section(evs, i).prior \notin {Missing, 0}
  PROVE  Summary(evs).detail[ExecutionKey(evs[i].place)].success
<1> DEFINE key == ExecutionKey(evs[i].place)
           before == {j \in RunsUnder(evs, key) : j < i}
           earlier == before \ Succeeded(evs, before)
           r == RunsUnder(evs, key)
           bad == r \ Succeeded(evs, r)
           stats == ExecutionStats(evs)
<1>1. i \in Succeeded(evs, Runs(evs))
  BY DEF Section
<1>2. Cardinality(earlier) # 0
  <2>1. FailuresBefore(evs, i) # 0
    BY <1>1 DEF Section
  <2> QED
    BY <2>1 DEF FailuresBefore
<1>3. earlier # {}
  <2> HIDE DEF earlier
  <2> QED
    BY <1>2, FS_EmptySet
<1>4. bad # {} /\ bad \in SUBSET Runs(evs)
  BY <1>3 DEF RunsUnder, Succeeded
<1>5. /\ key \in DOMAIN stats
      /\ stats[key].failures = Cardinality(bad)
      /\ stats[key].success = (Succeeded(evs, r) # {})
  <2>1. key \in {ExecutionKey(evs[j].place) : j \in Runs(evs)}
    BY <1>1 DEF Succeeded
  <2> HIDE DEF key
  <2> QED
    BY <2>1 DEF ExecutionStats
<1>6. i \in Succeeded(evs, r)
  BY <1>1 DEF Succeeded, RunsUnder
<1> HIDE DEF bad
<1>7. IsFiniteSet(bad)
  BY <1>4, OutcomesSplit, FS_Subset
<1>8. Cardinality(bad) \in Nat /\ Cardinality(bad) # 0
  BY <1>4, <1>7, FS_CardinalityType, FS_EmptySet
<1>9. stats[key].failures > 0
  BY <1>5, <1>8
<1>10. stats[key].success
  <2>1. Succeeded(evs, r) # {}
    BY <1>6
  <2> HIDE DEF stats, r, key
  <2> QED
    BY <1>5, <2>1
<1> HIDE DEF stats, key
<1>11. Summary(evs).detail[key] = stats[key]
  BY <1>5, <1>9 DEF Summary, Restrict, stats
<1> QED
  BY <1>11, <1>10 DEF key

\* The log of a recording tells what its signals do.
LEMMA LogAgrees ==
  ASSUME NEW evs \in Recordings
  PROVE  LogAgreesWithSignals(evs)
<1> DEFINE s == Signals(evs)
           summary == Summary(evs)
           line == Timeline(evs)
           Rows(value) == {i \in DOMAIN line : line[i].outcome = value}
           own == Of(evs, Edits \union {"code_execution"})
           after == {i \in DOMAIN evs :
                        Section(evs, i).prior \notin {Missing, 0}}
<1> SUFFICES ASSUME s.failures # Missing
             PROVE  /\ summary.counted = [failures  |-> s.failures,
                                          successes |-> s.runs - s.failures]
                    /\ MapThenSumSet(LAMBDA key : summary.detail[key].failures,
                                     DOMAIN summary.detail) = s.failures
                    /\ Cardinality(Rows("failure")) = s.failures
                    /\ Cardinality(Rows("success")) = s.runs - s.failures
                    /\ (s.recoveries # Missing
                          /\ \A i \in own : ExecutionKey(evs[i].place) # Missing) =>
                         /\ s.recoveries <= Cardinality(after)
                         /\ \A i \in after :
                               summary.detail[ExecutionKey(evs[i].place)].success
  BY DEF LogAgreesWithSignals
<1>1. OutcomesKnown(evs)
  BY DEF Signals
<1>2. s.failures = Cardinality(FailedRuns(evs)) /\ s.runs = Cardinality(Runs(evs))
  BY <1>1 DEF Signals, FailedRuns
<1>3. Cardinality(Wins(evs)) = s.runs - s.failures
  <2> HIDE DEF s
  <2> QED
    BY <1>1, <1>2, OutcomesSplit
<1>4. summary.counted = [failures  |-> s.failures, successes |-> s.runs - s.failures]
  <2>1. Runs(evs) \ Succeeded(evs, Runs(evs)) = FailedRuns(evs)
    BY <1>1, OutcomesSplit DEF FailedRuns
  <2>2. summary.counted = [failures |-> Cardinality(FailedRuns(evs)),
                           successes |-> Cardinality(Wins(evs))]
    BY <2>1 DEF Summary, TotalExecutions, Wins
  <2> HIDE DEF s, summary
  <2> QED
    BY <1>2, <1>3, <2>2
<1>5. MapThenSumSet(LAMBDA key : summary.detail[key].failures,
                    DOMAIN summary.detail) = s.failures
  <2> HIDE DEF s
  <2> QED
    BY <1>1, <1>2, DetailCounts
<1>6. Rows("failure") = FailedRuns(evs) /\ Rows("success") = Wins(evs)
  <2>1. DOMAIN line = DOMAIN evs /\ Runs(evs) \subseteq DOMAIN evs
    BY DEF Timeline, Runs, Of
  <2>2. \A i \in DOMAIN evs :
          line[i].outcome = IF i \in Runs(evs)
                            THEN IF evs[i].result = "success" THEN "success" ELSE "failure"
                            ELSE Missing
    BY DEF Timeline
  <2>3. Missing # "failure" /\ Missing # "success"
    BY MissingAssumption
  <2> HIDE DEF line
  <2>4. \A i \in DOMAIN evs : line[i].outcome = "failure" <=> i \in FailedRuns(evs)
    BY <1>1, <2>2, <2>3 DEF FailedRuns, OutcomesKnown
  <2>5. \A i \in DOMAIN evs : line[i].outcome = "success" <=> i \in Wins(evs)
    BY <1>1, <2>2, <2>3 DEF Wins, Succeeded, OutcomesKnown
  <2>6. FailedRuns(evs) \subseteq DOMAIN evs /\ Wins(evs) \subseteq DOMAIN evs
    BY <2>1 DEF FailedRuns, Wins, Succeeded
  <2> QED
    BY <2>1, <2>4, <2>5, <2>6
<1>7. ASSUME s.recoveries # Missing, \A i \in own : ExecutionKey(evs[i].place) # Missing
      PROVE  /\ s.recoveries <= Cardinality(after)
             /\ \A i \in after : summary.detail[ExecutionKey(evs[i].place)].success
  <2> DEFINE answering == {i \in DOMAIN evs : AnswersFailure(evs, i)}
  <2>1. s.recoveries = Cardinality(answering)
    BY <1>7, CountsReal DEF CountsAreReal
  <2>2. answering \in SUBSET after
    <3> SUFFICES ASSUME NEW i \in DOMAIN evs, AnswersFailure(evs, i)
                 PROVE  Section(evs, i).prior \notin {Missing, 0}
      OBVIOUS
    <3> QED
      BY <1>1, <1>7, AnswersFollowFailures
  <2>3. IsFiniteSet(after)
    <3>1. Len(evs) \in Nat /\ after \in SUBSET (1 .. Len(evs))
      BY RecordingsAssumption
    <3>2. IsFiniteSet(1 .. Len(evs))
      BY <3>1, FS_Interval
    <3> HIDE DEF after
    <3> QED
      BY <3>1, <3>2, FS_Subset
  <2>4. \A i \in after : summary.detail[ExecutionKey(evs[i].place)].success
    BY <1>1, SectionsInSummary
  <2>5. Cardinality(answering) <= Cardinality(after)
    <3> HIDE DEF after, answering
    <3> QED
      BY <2>2, <2>3, FS_Subset
  <2> HIDE DEF s, answering, after
  <2> QED
    BY <2>1, <2>4, <2>5
<1> HIDE DEF s, summary, Rows, own, after
<1> QED
  BY <1>2, <1>3, <1>4, <1>5, <1>6, <1>7

(* Whatever the recording, the recoveries and changes of error counted are *)
(* those it has, the times are the instants its events cover, each once,   *)
(* and the log people read of it agrees.                                   *)
THEOREM SignalsTrue == AnalysisSpec => []SignalsAreTrue
<1>1. AnalysisIInv => SignalsAreTrue
  BY CountsReal, TimesMeasured, LogAgrees DEF AnalysisIInv, SignalsAreTrue
<1> QED
  BY <1>1, AnalysisInvariant, PTL

-----------------------------------------------------------------------------
\* The jobs of a brief.

USE BoundsAssumption, NoneAssumption

Unfinished == {"pending", "leased"}
Answers == {"ready", "unavailable"}

\* A job belongs to a submission that asked for it.
JobsHaveSource ==
  \A j \in Job : job[j].status # "absent" =>
    j <= Len(briefs) /\ briefs[j].source = 0 /\ briefs[j].ai = "pending"

\* A submission's number is a job id; any other revision answers the one before it.
Revisions ==
  \A i \in 1..Len(briefs) :
    /\ briefs[i].source = 0 => i \in Job
    /\ briefs[i].source # 0 => /\ briefs[i].source = i - 1
                               /\ briefs[i - 1].ai = "pending"
                               /\ briefs[i].ai \in Answers

\* A worker past its claim has one job and no exhausted one.
WorkersHold ==
  \A w \in Worker :
    /\ worker[w].pc \notin {"loop", "exhausting"} =>
         worker[w].cur \in Job /\ worker[w].attempt \in 1..MaxAttempts
    /\ worker[w].pc # "exhausting" => worker[w].todo = {}

\* The invariant behind every theorem below.
IInv == TypeOK /\ JobsHaveSource /\ Revisions /\ PendingHasJob /\ WorkersHold

-----------------------------------------------------------------------------
(* What the parts of an action do *)

\* What giving a lease back leaves of a job.
LEMMA ReleaseFacts ==
  ASSUME TypeOK, NEW j \in Job, NEW status \in {"pending", "completed"}, NEW wait \in Nat,
         Release(j, status, wait)
  PROVE  /\ job' \in [Job -> JobRow]
         /\ job'[j].status = status /\ job'[j].attempts = job[j].attempts
         /\ \A k \in Job : k # j => job'[k] = job[k]
<1>1. job[j].attempts \in 0..MaxAttempts
  BY DEF TypeOK, JobRow
<1> QED
  BY <1>1 DEF Release, TypeOK, JobRow

\* Settling a job completes it and touches no other job.
LEMMA SettleFacts ==
  ASSUME TypeOK, NEW j \in Job, NEW ai \in Answers, Settle(j, ai)
  PROVE  /\ briefs' \in Seq(BriefRow) /\ Len(briefs') <= MaxRevision + 1
         /\ job' \in [Job -> JobRow]
         /\ job'[j].status = "completed" /\ job'[j].attempts = job[j].attempts
         /\ \A k \in Job : k # j => job'[k] = job[k]
<1>1. job[j].wait \in Nat
  BY DEF TypeOK, JobRow
<1>2. [source |-> j, ai |-> ai] \in BriefRow
  BY DEF BriefRow, Job, Answers
<1> QED
  BY SMTT(30), <1>1, <1>2, ReleaseFacts DEF Settle, TypeOK, Job

\* After a failure the job is due again, or settled as unavailable.
LEMMA FailFacts ==
  ASSUME TypeOK, NEW j \in Job, NEW attempt \in 0..MaxAttempts, NEW retry \in BOOLEAN,
         retry => attempt # 0, Fail(j, attempt, retry)
  PROVE  \/ Settle(j, "unavailable")
         \/ /\ briefs' = briefs /\ job' \in [Job -> JobRow]
            /\ job'[j].status = "pending" /\ job'[j].attempts = job[j].attempts
            /\ \A k \in Job : k # j => job'[k] = job[k]
<1>1. CASE retry /\ attempt < MaxAttempts
  <2>1. RetryDelay[attempt] \in Nat
    BY <1>1
  <2> QED
    BY <1>1, <2>1, ReleaseFacts DEF Fail
<1>2. CASE ~(retry /\ attempt < MaxAttempts)
  BY <1>2 DEF Fail
<1> QED
  BY <1>1, <1>2

\* A submission adds one revision, and one job if it asks for an analysis.
LEMMA SubmitFacts ==
  ASSUME TypeOK, NEW ai \in {"not_requested", "pending", "unavailable"}, Submit(ai)
  PROVE  /\ briefs' \in Seq(BriefRow) /\ Len(briefs') = Len(briefs) + 1
         /\ Len(briefs') \in Job
         /\ briefs'[Len(briefs')] = [source |-> 0, ai |-> ai]
         /\ \A i \in 1..Len(briefs) : briefs'[i] = briefs[i]
         /\ job' \in [Job -> JobRow]
         /\ \A k \in Job : k # Len(briefs') => job'[k] = job[k]
         /\ ai = "pending" => /\ job'[Len(briefs')].status = "pending"
                              /\ job'[Len(briefs')].attempts = job[Len(briefs')].attempts
         /\ ai # "pending" => job' = job
<1>1. [source |-> 0, ai |-> ai] \in BriefRow
  BY DEF BriefRow
<1>2. /\ briefs' \in Seq(BriefRow) /\ Len(briefs') = Len(briefs) + 1
      /\ briefs'[Len(briefs')] = [source |-> 0, ai |-> ai]
      /\ \A i \in 1..Len(briefs) : briefs'[i] = briefs[i]
  BY <1>1 DEF Submit, TypeOK
<1>3. Len(briefs') \in Job
  BY <1>2 DEF Submit, TypeOK, Job
<1>4. /\ [job[Len(briefs')] EXCEPT !.status = "pending"] \in JobRow
      /\ [job[Len(briefs')] EXCEPT !.status = "pending"].status = "pending"
      /\ [job[Len(briefs')] EXCEPT !.status = "pending"].attempts = job[Len(briefs')].attempts
  BY <1>3 DEF TypeOK, JobRow
<1> QED
  BY <1>2, <1>3, <1>4 DEF Submit, TypeOK

\* One tick of a countdown timer.
LEMMA LessFacts ==
  ASSUME NEW n \in Nat
  PROVE  /\ Less(n) \in Nat /\ Less(n) <= n
         /\ n # 0 => Less(n) = n - 1
  BY DEF Less

\* The timers of a job row have their types.
LEMMA JobRowTimers ==
  ASSUME NEW r \in JobRow, NEW wait \in Nat, NEW lease \in 0..Lease
  PROVE  [r EXCEPT !.wait = wait, !.lease = lease] \in JobRow
  BY DEF JobRow

\* The timer of a worker's call has its type.
LEMMA WorkerLeft ==
  ASSUME NEW r \in WorkerState, NEW left \in 0..Budget
  PROVE  [r EXCEPT !.left = left] \in WorkerState
  BY DEF WorkerState

\* A job leased by a worker is typed.
LEMMA LeasedByType ==
  ASSUME TypeOK, NEW w \in Worker, NEW j \in Job, NEW attempts \in 0..MaxAttempts
  PROVE  LeasedBy(w, j, attempts) \in JobRow
  BY DEF TypeOK, JobRow, LeasedBy, Names

\* Before and after its call a worker keeps its job, its attempt and its time.
LEMMA CallingFacts ==
  ASSUME TypeOK, NEW w \in Worker, ReadSource(w) \/ Answer(w)
  PROVE  /\ \A v \in Worker : v # w => worker'[v] = worker[v]
         /\ worker[w].pc \in {"starting", "calling"}
         /\ worker'[w].pc \in {"calling", "completing", "failing"}
         /\ worker'[w].cur = worker[w].cur /\ worker'[w].attempt = worker[w].attempt
         /\ worker'[w].todo = worker[w].todo /\ worker'[w].left = worker[w].left
<1>0. worker \in [Worker -> WorkerState] /\ worker[w] \in WorkerState
  BY DEF TypeOK
<1>1. /\ \A v \in Worker : v # w => worker'[v] = worker[v]
      /\ worker[w].pc \in {"starting", "calling"}
  BY <1>0 DEF ReadSource, Answer
<1>2. \/ \E pc \in {"calling", "completing"} : worker'[w] = [worker[w] EXCEPT !.pc = pc]
      \/ \E retry \in BOOLEAN : worker'[w] = [worker[w] EXCEPT !.pc = "failing", !.retry = retry]
  BY <1>0 DEF ReadSource, Answer
<1>3. CASE \E pc \in {"calling", "completing"} : worker'[w] = [worker[w] EXCEPT !.pc = pc]
  BY <1>0, <1>1, <1>3 DEF WorkerState
<1>4. CASE \E retry \in BOOLEAN : worker'[w] = [worker[w] EXCEPT !.pc = "failing", !.retry = retry]
  BY <1>0, <1>1, <1>4 DEF WorkerState
<1> QED
  BY <1>2, <1>3, <1>4

-----------------------------------------------------------------------------
(* Types *)

\* The rows start with their types.
LEMMA InitTypeOK == Init => TypeOK
  BY DEF Init, TypeOK, NoJob, IdleWorker, JobRow, WorkerState, Job

\* Every step of the jobs and the workers keeps the types.
LEMMA NextTypeOK == IInv /\ [Next]_vars => TypeOK'
<1> SUFFICES ASSUME IInv, [Next]_vars
             PROVE  TypeOK'
  OBVIOUS
<1>0. /\ TypeOK
      /\ \A j \in Job : job[j] \in JobRow
      /\ \A w \in Worker : worker[w] \in WorkerState
  BY DEF IInv, TypeOK
<1>1. IdleWorker \in WorkerState
  BY DEF IdleWorker, WorkerState
<1>2. ASSUME NEW w \in Worker, LeaseExhausted(w) PROVE TypeOK'
  <2>1. job' \in [Job -> JobRow]
    BY <1>0, <1>2, LeasedByType DEF LeaseExhausted, JobRow
  <2>2. [worker[w] EXCEPT !.pc = "exhausting", !.todo = Exhausted, !.left = Budget] \in WorkerState
    <3>1. Exhausted \in SUBSET Job /\ Budget \in 0..Budget
      BY DEF Exhausted, Available
    <3> QED
      BY <1>0, <3>1 DEF WorkerState
  <2> QED
    BY <1>0, <1>2, <2>1, <2>2 DEF LeaseExhausted, TypeOK
<1>3. ASSUME NEW w \in Worker, NEW j \in Job, FailExhausted(w, j) PROVE TypeOK'
  <2>1. [worker[w] EXCEPT !.todo = @ \ {j}] \in WorkerState
    BY <1>0 DEF WorkerState
  <2>2. job[j].attempts \in 0..MaxAttempts
    BY <1>0 DEF JobRow
  <2>3. briefs' \in Seq(BriefRow) /\ Len(briefs') <= MaxRevision + 1 /\ job' \in [Job -> JobRow]
    <3>1. CASE Held(w, j)
      <4>1. Fail(j, job[j].attempts, FALSE)
        BY <1>3, <3>1 DEF FailExhausted
      <4> QED
        BY <1>0, <2>2, <4>1, FailFacts, SettleFacts DEF TypeOK, Answers
    <3>2. CASE ~Held(w, j)
      BY <1>0, <1>3, <3>2 DEF FailExhausted, TypeOK
    <3> QED
      BY <3>1, <3>2
  <2> QED
    BY <1>0, <1>3, <2>1, <2>3 DEF FailExhausted, TypeOK
<1>4. ASSUME NEW w \in Worker, NEW j \in Job, Claim(w, j) PROVE TypeOK'
  <2>1. job[j].attempts < MaxAttempts /\ job[j].attempts \in 0..MaxAttempts
    BY <1>0, <1>4 DEF Claim, Claimable, JobRow
  <2>2. job' \in [Job -> JobRow]
    BY <1>0, <1>4, <2>1, LeasedByType DEF Claim, TypeOK
  <2>3. [pc |-> "starting", todo |-> {}, cur |-> j, retry |-> FALSE,
         attempt |-> job[j].attempts + 1, left |-> Budget] \in WorkerState
    BY <2>1 DEF WorkerState, Job
  <2> QED
    BY <1>0, <1>4, <2>2, <2>3 DEF Claim, TypeOK
<1>5. ASSUME NEW w \in Worker, ReadSource(w) PROVE TypeOK'
  <2>1. /\ [worker[w] EXCEPT !.pc = "calling"] \in WorkerState
        /\ \A r \in BOOLEAN : [worker[w] EXCEPT !.pc = "failing", !.retry = r] \in WorkerState
    BY <1>0 DEF WorkerState
  <2>2. worker[w].cur \in Job
    BY <1>5 DEF ReadSource, IInv, WorkersHold
  <2>3. calls' \in [Job -> Nat]
    <3>1. calls[worker[w].cur] + 1 \in Nat
      BY <1>0, <2>2 DEF TypeOK
    <3> QED
      BY <1>0, <1>5, <2>2, <3>1 DEF ReadSource, TypeOK
  <2>4. worker' \in [Worker -> WorkerState]
    BY <1>0, <1>5, <2>1 DEF ReadSource, TypeOK
  <2> QED
    BY <1>0, <1>5, <2>3, <2>4 DEF ReadSource, TypeOK
<1>6. ASSUME NEW w \in Worker, Answer(w) PROVE TypeOK'
  <2>1. /\ [worker[w] EXCEPT !.pc = "completing"] \in WorkerState
        /\ \A retry \in BOOLEAN : [worker[w] EXCEPT !.pc = "failing", !.retry = retry] \in WorkerState
    BY <1>0 DEF WorkerState
  <2> QED
    BY <1>0, <1>6, <2>1 DEF Answer, TypeOK
<1>7. ASSUME NEW w \in Worker, Complete(w) \/ RecordFailure(w) PROVE TypeOK'
  <2>1. worker[w].cur \in Job /\ worker[w].attempt \in 1..MaxAttempts /\ worker[w].retry \in BOOLEAN
    BY <1>0, <1>7 DEF Complete, RecordFailure, IInv, WorkersHold, WorkerState
  <2>2. briefs' \in Seq(BriefRow) /\ Len(briefs') <= MaxRevision + 1 /\ job' \in [Job -> JobRow]
    <3>1. CASE Complete(w)
      BY <1>0, <2>1, <3>1, SettleFacts DEF Complete, TypeOK, Answers
    <3>2. CASE RecordFailure(w)
      BY <1>0, <2>1, <3>2, FailFacts, SettleFacts DEF RecordFailure, TypeOK, Answers
    <3> QED
      BY <1>7, <3>1, <3>2
  <2> QED
    BY <1>0, <1>1, <1>7, <2>2 DEF Complete, RecordFailure, TypeOK
<1>8. ASSUME NEW w \in Worker, ClaimNothing(w) \/ WorkerCrash(w) PROVE TypeOK'
  <2>1. worker' \in [Worker -> WorkerState] /\ UNCHANGED <<briefs, job, calls>>
    BY <1>0, <1>1, <1>8 DEF ClaimNothing, WorkerCrash, TypeOK
  <2>2. crashes' \in 0..MaxCrash
    BY <1>0, <1>8 DEF ClaimNothing, WorkerCrash, TypeOK
  <2> QED
    BY <1>0, <2>1, <2>2 DEF TypeOK
<1>9. CASE Tick
  <2>1. \A j \in Job : [job[j] EXCEPT !.wait = Less(job[j].wait), !.lease = Less(job[j].lease)]
                        \in JobRow
    <3> SUFFICES ASSUME NEW j \in Job
                 PROVE  [job[j] EXCEPT !.wait = Less(job[j].wait), !.lease = Less(job[j].lease)] \in JobRow
      OBVIOUS
    <3>1. job[j] \in JobRow /\ job[j].wait \in Nat /\ job[j].lease \in 0..Lease
      BY <1>0 DEF JobRow
    <3>2. Less(job[j].wait) \in Nat
      BY <3>1, LessFacts
    <3>3. Less(job[j].lease) \in 0..Lease
      BY <3>1 DEF Less
    <3> QED
      BY <3>1, <3>2, <3>3, JobRowTimers
  <2>2. \A w \in Worker : [worker[w] EXCEPT !.left = Less(@)] \in WorkerState
    <3> SUFFICES ASSUME NEW w \in Worker
                 PROVE  [worker[w] EXCEPT !.left = Less(worker[w].left)] \in WorkerState
      OBVIOUS
    <3>1. worker[w] \in WorkerState
      BY <1>0
    <3>2. worker[w].left \in 0..Budget /\ Budget \in Nat
      BY <3>1, BoundsAssumption DEF WorkerState, BoundsAssumption
    <3>3. Less(worker[w].left) \in 0..Budget
      BY <3>2 DEF Less
    <3> QED
      BY <3>1, <3>3, WorkerLeft
  <2> QED
    BY <1>0, <1>9, <2>1, <2>2 DEF Tick, TypeOK
<1>10. ASSUME NEW ai \in {"not_requested", "pending", "unavailable"}, Submit(ai) PROVE TypeOK'
  <2>1. Len(briefs') <= MaxRevision + 1
    BY <1>0, <1>10, SubmitFacts DEF Job
  <2> QED
    BY <1>0, <1>10, <2>1, SubmitFacts DEF Submit, TypeOK
<1>11. CASE UNCHANGED vars
  BY <1>0, <1>11 DEF vars, TypeOK
<1> QED
  BY <1>2, <1>3, <1>4, <1>5, <1>6, <1>7, <1>8, <1>9, <1>10, <1>11 DEF Next, WorkerStep

-----------------------------------------------------------------------------
(* The workers *)

\* What a worker has in hand stays true of the rows, whatever the others commit.
LEMMA NextWorkersHold == IInv /\ [Next]_vars => WorkersHold'
<1> SUFFICES ASSUME IInv, [Next]_vars, NEW v \in Worker
             PROVE  /\ worker'[v].pc \notin {"loop", "exhausting"} =>
                         worker'[v].cur \in Job /\ worker'[v].attempt \in 1..MaxAttempts
                    /\ worker'[v].pc # "exhausting" => worker'[v].todo = {}
  BY DEF WorkersHold
<1> DEFINE Goal == /\ worker'[v].pc \notin {"loop", "exhausting"} =>
                         worker'[v].cur \in Job /\ worker'[v].attempt \in 1..MaxAttempts
                   /\ worker'[v].pc # "exhausting" => worker'[v].todo = {}
<1>0. /\ worker \in [Worker -> WorkerState]
      /\ worker[v] \in WorkerState
      /\ worker[v].pc \notin {"loop", "exhausting"} =>
           worker[v].cur \in Job /\ worker[v].attempt \in 1..MaxAttempts
      /\ worker[v].pc # "exhausting" => worker[v].todo = {}
  BY DEF IInv, TypeOK, WorkersHold
<1>1. ASSUME worker'[v] = worker[v] \/ worker'[v] = IdleWorker PROVE Goal
  BY <1>0, <1>1 DEF IdleWorker
<1>2. ASSUME NEW w \in Worker, LeaseExhausted(w) PROVE Goal
  BY <1>0, <1>2 DEF LeaseExhausted, WorkerState
<1>3. ASSUME NEW w \in Worker, NEW j \in Job, FailExhausted(w, j) PROVE Goal
  BY <1>0, <1>3 DEF FailExhausted, WorkerState
<1>4. ASSUME NEW w \in Worker, NEW j \in Job, Claim(w, j) PROVE Goal
  <2>1. job[j].attempts + 1 \in 1..MaxAttempts
    BY <1>4 DEF Claim, Claimable, IInv, TypeOK, JobRow
  <2> QED
    BY <1>0, <1>4, <2>1 DEF Claim, WorkerState
<1>5. ASSUME NEW w \in Worker, ReadSource(w) \/ Answer(w) PROVE Goal
  <2>1. TypeOK
    BY DEF IInv
  <2> QED
    BY <1>0, <1>5, <2>1, CallingFacts
<1>6. ASSUME NEW w \in Worker,
             Complete(w) \/ RecordFailure(w) \/ ClaimNothing(w) \/ WorkerCrash(w)
      PROVE Goal
  BY <1>0, <1>1, <1>6 DEF Complete, RecordFailure, ClaimNothing, WorkerCrash
<1>7. ASSUME Tick PROVE Goal
  <2>1. worker'[v] = [worker[v] EXCEPT !.left = Less(worker[v].left)]
    BY <1>7 DEF Tick
  <2>2. /\ worker'[v].pc = worker[v].pc /\ worker'[v].cur = worker[v].cur
        /\ worker'[v].attempt = worker[v].attempt /\ worker'[v].todo = worker[v].todo
    BY <1>0, <2>1 DEF WorkerState
  <2> QED
    BY <1>0, <2>2
<1>8. ASSUME UNCHANGED vars \/ \E ai \in {"not_requested", "pending", "unavailable"} : Submit(ai)
      PROVE Goal
  BY <1>1, <1>8 DEF vars, Submit
<1> QED
  BY <1>2, <1>3, <1>4, <1>5, <1>6, <1>7, <1>8 DEF Next, WorkerStep

-----------------------------------------------------------------------------
(* Revisions and jobs *)

\* Only these steps change the brief or finish a job.
LEMMA RowSteps ==
  ASSUME IInv, [Next]_vars
  PROVE  \/ \E ai \in {"not_requested", "pending", "unavailable"} : Submit(ai)
         \/ \E j \in Job, ai \in Answers : job[j].status = "leased" /\ Settle(j, ai)
         \/ /\ briefs' = briefs
            /\ \A j \in Job : /\ job'[j].status \in Unfinished <=> job[j].status \in Unfinished
                              /\ job'[j].status = "absent" <=> job[j].status = "absent"
<1> DEFINE Kept == /\ briefs' = briefs
                   /\ \A j \in Job : /\ job'[j].status \in Unfinished <=> job[j].status \in Unfinished
                                     /\ job'[j].status = "absent" <=> job[j].status = "absent"
<1>0. /\ TypeOK
      /\ \A j \in Job : job[j] \in JobRow
      /\ \A w \in Worker : worker[w] \in WorkerState
  BY DEF IInv, TypeOK
<1>1. ASSUME NEW w \in Worker, LeaseExhausted(w) PROVE Kept
  BY <1>1 DEF LeaseExhausted, Exhausted, Available, LeasedBy, Unfinished
<1>2. ASSUME NEW w \in Worker, NEW j \in Job, Claim(w, j) PROVE Kept
  BY <1>0, <1>2 DEF Claim, Claimable, Available, LeasedBy, Unfinished, TypeOK
<1>3. ASSUME NEW j \in Job, job[j].status = "leased", NEW attempt \in 0..MaxAttempts,
             NEW retry \in BOOLEAN, retry => attempt # 0, Fail(j, attempt, retry)
      PROVE  Kept \/ \E ai \in Answers : Settle(j, ai)
  BY <1>0, <1>3, FailFacts DEF Answers, Unfinished
<1>4. ASSUME NEW w \in Worker, NEW j \in Job, FailExhausted(w, j)
      PROVE  Kept \/ \E k \in Job, ai \in Answers : job[k].status = "leased" /\ Settle(k, ai)
  <2>1. job[j].attempts \in 0..MaxAttempts
    BY <1>0 DEF JobRow
  <2>2. CASE Held(w, j)
    <3>1. Fail(j, job[j].attempts, FALSE) /\ job[j].status = "leased"
      BY <1>4, <2>2 DEF FailExhausted, Held
    <3> QED
      BY <1>3, <2>1, <3>1
  <2>3. CASE ~Held(w, j)
    BY <1>4, <2>3 DEF FailExhausted
  <2> QED
    BY <2>2, <2>3
<1>5. ASSUME NEW w \in Worker, Complete(w)
      PROVE  Kept \/ \E k \in Job, ai \in Answers : job[k].status = "leased" /\ Settle(k, ai)
  <2>1. worker[w].cur \in Job
    BY <1>5 DEF Complete, IInv, WorkersHold
  <2> QED
    BY <1>5, <2>1 DEF Complete, Held, Answers
<1>6. ASSUME NEW w \in Worker, RecordFailure(w)
      PROVE  Kept \/ \E k \in Job, ai \in Answers : job[k].status = "leased" /\ Settle(k, ai)
  <2> DEFINE j == worker[w].cur
  <2>1. j \in Job /\ worker[w].attempt \in 1..MaxAttempts /\ worker[w].retry \in BOOLEAN
    BY <1>0, <1>6 DEF RecordFailure, IInv, WorkersHold, WorkerState
  <2>2. CASE Held(w, j)
    <3>1. Fail(j, worker[w].attempt, worker[w].retry) /\ job[j].status = "leased"
      BY <1>6, <2>2 DEF RecordFailure, Held
    <3> HIDE DEF j
    <3>2. worker[w].attempt \in 0..MaxAttempts /\ worker[w].attempt # 0
      BY <2>1
    <3> QED
      BY <1>3, <2>1, <3>1, <3>2
  <2>3. CASE ~Held(w, j)
    BY <1>6, <2>3 DEF RecordFailure
  <2> QED
    BY <2>2, <2>3
<1>7. ASSUME Tick PROVE Kept
  BY <1>0, <1>7 DEF Tick, JobRow
<1>8. ASSUME \/ UNCHANGED vars
             \/ \E w \in Worker : ReadSource(w) \/ Answer(w) \/ ClaimNothing(w) \/ WorkerCrash(w)
      PROVE  Kept
  BY <1>8 DEF vars, ReadSource, Answer, ClaimNothing, WorkerCrash
<1> QED
  BY <1>1, <1>2, <1>4, <1>5, <1>6, <1>7, <1>8 DEF Next, WorkerStep

\* What a settled job leaves of the brief.
LEMMA AnswerAppended ==
  ASSUME TypeOK, NEW j \in Job, NEW ai \in Answers, Settle(j, ai)
  PROVE  \/ briefs' = briefs /\ Len(briefs) # j
         \/ /\ Len(briefs) = j /\ Len(briefs') = j + 1
            /\ briefs'[j + 1] = [source |-> j, ai |-> ai]
            /\ \A i \in 1..j : briefs'[i] = briefs[i]
<1>1. CASE Len(briefs) = j
  <2>1. briefs' = Append(briefs, [source |-> j, ai |-> ai])
    BY <1>1 DEF Settle
  <2> QED
    BY <1>1, <2>1 DEF TypeOK
<1>2. CASE Len(briefs) # j
  BY <1>2 DEF Settle
<1> QED
  BY <1>1, <1>2

Rows == JobsHaveSource /\ Revisions /\ PendingHasJob

\* Revisions and jobs go on agreeing with each other.
LEMMA NextRows == IInv /\ [Next]_vars => Rows'
<1> SUFFICES ASSUME IInv, [Next]_vars
             PROVE  Rows'
  OBVIOUS
<1>0. TypeOK /\ JobsHaveSource /\ Revisions /\ PendingHasJob /\ Len(briefs) \in Nat
  BY DEF IInv, TypeOK
<1>1. CASE \E ai \in {"not_requested", "pending", "unavailable"} : Submit(ai)
  <2>1. PICK ai \in {"not_requested", "pending", "unavailable"} : Submit(ai)
    BY <1>1
  <2> DEFINE n == Len(briefs)
  <2>2. /\ Len(briefs') = n + 1 /\ n + 1 \in Job
        /\ briefs'[n + 1] = [source |-> 0, ai |-> ai]
        /\ \A i \in 1..n : briefs'[i] = briefs[i]
        /\ \A k \in Job : k # n + 1 => job'[k] = job[k]
        /\ ai = "pending" => job'[n + 1].status = "pending"
        /\ ai # "pending" => job' = job
    BY <1>0, <2>1, SubmitFacts
  <2> HIDE DEF n
  <2>3. job[n + 1].status = "absent"
    BY <1>0, <2>2 DEF JobsHaveSource, n
  <2>4. JobsHaveSource'
    <3> SUFFICES ASSUME NEW j \in Job, job'[j].status # "absent"
                 PROVE  j <= n + 1 /\ briefs'[j].source = 0 /\ briefs'[j].ai = "pending"
      BY <2>2 DEF JobsHaveSource
    <3>1. CASE j = n + 1
      BY <2>2, <2>3, <3>1
    <3>2. CASE j # n + 1
      <4>1. j <= n /\ briefs[j].source = 0 /\ briefs[j].ai = "pending"
        BY <1>0, <2>2, <3>2 DEF JobsHaveSource, n
      <4> QED
        BY <1>0, <2>2, <4>1 DEF Job, n
    <3> QED
      BY <3>1, <3>2
  <2>5. Revisions'
    <3> SUFFICES ASSUME NEW i \in 1..(n + 1)
                 PROVE  /\ briefs'[i].source = 0 => i \in Job
                        /\ briefs'[i].source # 0 => /\ briefs'[i].source = i - 1
                                                    /\ briefs'[i - 1].ai = "pending"
                                                    /\ briefs'[i].ai \in Answers
      BY <2>2 DEF Revisions
    <3>1. CASE i = n + 1
      BY <2>2, <3>1
    <3>2. CASE i # n + 1
      <4>1. i \in 1..n /\ i - 1 \in Nat
        BY <1>0, <3>2 DEF n
      <4>2. briefs'[i] = briefs[i]
        BY <2>2, <4>1
      <4>3. CASE i - 1 = 0
        BY <1>0, <4>1, <4>2, <4>3 DEF Revisions, n
      <4>4. CASE i - 1 # 0
        <5>1. i - 1 \in 1..n
          BY <1>0, <4>1, <4>4 DEF n
        <5> QED
          BY <1>0, <2>2, <4>1, <4>2, <5>1 DEF Revisions, n
      <4> QED
        BY <4>3, <4>4
    <3> QED
      BY <3>1, <3>2
  <2>6. PendingHasJob'
    BY <1>0, <2>2 DEF PendingHasJob, n
  <2> QED
    BY <2>4, <2>5, <2>6 DEF Rows
<1>2. CASE \E j \in Job, ai \in Answers : job[j].status = "leased" /\ Settle(j, ai)
  <2>1. PICK j \in Job, ai \in Answers : job[j].status = "leased" /\ Settle(j, ai)
    BY <1>2
  <2>2. /\ job'[j].status = "completed"
        /\ \A k \in Job : k # j => job'[k] = job[k]
    BY <1>0, <2>1, SettleFacts
  <2>3. j <= Len(briefs) /\ briefs[j].source = 0 /\ briefs[j].ai = "pending" /\ j \in Nat /\ j # 0
    BY <1>0, <2>1 DEF JobsHaveSource, Job
  <2>4. CASE briefs' = briefs /\ Len(briefs) # j
    <3>1. JobsHaveSource' /\ Revisions'
      BY <1>0, <2>1, <2>2, <2>4 DEF JobsHaveSource, Revisions
    <3>2. PendingHasJob'
      <4> SUFFICES ASSUME NEW i \in 1..Len(briefs), i = Len(briefs), briefs[i].ai = "pending"
                   PROVE  job'[i].status \in {"pending", "leased"}
        BY <2>4 DEF PendingHasJob
      <4>1. i \in Job
        BY <1>0 DEF Revisions, Answers
      <4> QED
        BY <1>0, <2>2, <2>4, <4>1 DEF PendingHasJob
    <3> QED
      BY <3>1, <3>2 DEF Rows
  <2>5. CASE /\ Len(briefs) = j /\ Len(briefs') = j + 1
             /\ briefs'[j + 1] = [source |-> j, ai |-> ai]
             /\ \A i \in 1..j : briefs'[i] = briefs[i]
    <3>1. JobsHaveSource'
      <4> SUFFICES ASSUME NEW k \in Job, job'[k].status # "absent"
                   PROVE  k <= j + 1 /\ briefs'[k].source = 0 /\ briefs'[k].ai = "pending"
        BY <2>5 DEF JobsHaveSource
      <4>1. job[k].status # "absent"
        BY <2>1, <2>2
      <4>2. k <= j /\ k \in 1..j /\ briefs[k].source = 0 /\ briefs[k].ai = "pending"
        BY <1>0, <2>5, <4>1 DEF JobsHaveSource, Job
      <4> QED
        BY <2>3, <2>5, <4>2
    <3>2. Revisions'
      <4> SUFFICES ASSUME NEW i \in 1..(j + 1)
                   PROVE  /\ briefs'[i].source = 0 => i \in Job
                          /\ briefs'[i].source # 0 => /\ briefs'[i].source = i - 1
                                                      /\ briefs'[i - 1].ai = "pending"
                                                      /\ briefs'[i].ai \in Answers
        BY <2>5 DEF Revisions
      <4>1. CASE i = j + 1
        <5>1. j \in 1..j /\ i - 1 = j
          BY <2>3, <4>1
        <5> QED
          BY <2>3, <2>5, <4>1, <5>1
      <4>2. CASE i # j + 1
        <5>1. i \in 1..j /\ briefs'[i] = briefs[i]
          BY <2>3, <2>5, <4>2
        <5>2. CASE i - 1 = 0
          BY <1>0, <2>5, <5>1, <5>2 DEF Revisions
        <5>3. CASE i - 1 # 0
          <6>1. i - 1 \in 1..j
            BY <2>3, <5>1, <5>3
          <6> QED
            BY <1>0, <2>5, <5>1, <6>1 DEF Revisions
        <5> QED
          BY <5>2, <5>3
      <4> QED
        BY <4>1, <4>2
    <3>3. PendingHasJob'
      BY <2>3, <2>5 DEF PendingHasJob, Answers
    <3> QED
      BY <3>1, <3>2, <3>3 DEF Rows
  <2> QED
    BY <1>0, <2>1, <2>4, <2>5, AnswerAppended
<1>3. CASE /\ briefs' = briefs
           /\ \A j \in Job : /\ job'[j].status \in Unfinished <=> job[j].status \in Unfinished
                             /\ job'[j].status = "absent" <=> job[j].status = "absent"
  <2>1. JobsHaveSource' /\ Revisions'
    BY <1>0, <1>3 DEF JobsHaveSource, Revisions
  <2>2. PendingHasJob'
    <3> SUFFICES ASSUME NEW i \in 1..Len(briefs), i = Len(briefs), briefs[i].ai = "pending"
                 PROVE  job'[i].status \in {"pending", "leased"}
      BY <1>3 DEF PendingHasJob
    <3>1. i \in Job
      BY <1>0 DEF Revisions, Answers
    <3> QED
      BY <1>0, <1>3, <3>1 DEF PendingHasJob, Unfinished
  <2> QED
    BY <2>1, <2>2 DEF Rows
<1> QED
  BY <1>1, <1>2, <1>3, RowSteps

\* The invariant holds at the start.
LEMMA InitIInv == Init => IInv
<1> SUFFICES ASSUME Init
             PROVE  IInv
  OBVIOUS
<1>1. JobsHaveSource /\ Revisions /\ PendingHasJob
  BY DEF Init, NoJob, JobsHaveSource, Revisions, PendingHasJob
<1>2. WorkersHold
  BY DEF Init, IdleWorker, WorkersHold
<1> QED
  BY <1>1, <1>2, InitTypeOK DEF IInv

\* Types, and the agreement of revisions, jobs and workers, hold in every
\* reachable state of the analysis jobs.
THEOREM Invariant == Spec => []IInv
<1>1. IInv /\ [Next]_vars => IInv'
  BY NextTypeOK, NextWorkersHold, NextRows DEF IInv, Rows
<1> QED
  BY InitIInv, <1>1, PTL DEF Spec

-----------------------------------------------------------------------------
(* Theorems *)

\* Every row and process keeps its type.
THEOREM TypeCorrect == Spec => []TypeOK
<1>1. IInv => TypeOK
  BY DEF IInv
<1> QED
  BY Invariant, <1>1, PTL

\* An analysis always directly follows the revision that asked for it, so
\* none hides a newer submission and no source has two.
THEOREM AnalysesFollow == Spec => []AnalysisFollowsSource
<1>1. IInv => AnalysisFollowsSource
  BY DEF IInv, Revisions, AnalysisFollowsSource
<1> QED
  BY Invariant, <1>1, PTL

\* A brief that shows "pending" always has an unfinished job behind it.
THEOREM PendingBriefsHaveJobs == Spec => []PendingHasJob
<1>1. IInv => PendingHasJob
  BY DEF IInv
<1> QED
  BY Invariant, <1>1, PTL

-----------------------------------------------------------------------------
(* Attempts pay for provider calls *)

\* Workers that have claimed j and not yet called the provider.
Starting(j) == {w \in Worker : worker[w].pc = "starting" /\ worker[w].cur = j}

\* The strengthening of CallsArePaid: claims not yet used are paid too.
CallsPaid == \A j \in Job : calls[j] + Cardinality(Starting(j)) <= job[j].attempts

\* The workers about to call are finitely many.
LEMMA StartingFinite ==
  \A j : IsFiniteSet(Starting(j)) /\ Cardinality(Starting(j)) \in Nat
<1>1. \A j : IsFiniteSet(Starting(j))
  BY WorkerAssumption, FS_Subset DEF Starting
<1> QED
  BY <1>1, FS_CardinalityType

\* Only a claim adds an attempt, and only reading the source leads to a call.
LEMMA CallSteps ==
  ASSUME IInv, [Next]_vars, NEW j \in Job
  PROVE  \/ \E w \in Worker : Claim(w, j)
         \/ \E w \in Worker : ReadSource(w) /\ worker[w].cur = j
         \/ /\ calls'[j] = calls[j] /\ job'[j].attempts = job[j].attempts
            /\ Starting(j)' \subseteq Starting(j)
<1> DEFINE Kept == /\ calls'[j] = calls[j] /\ job'[j].attempts = job[j].attempts
                   /\ Starting(j)' \subseteq Starting(j)
<1>0. /\ TypeOK
      /\ \A k \in Job : job[k] \in JobRow
      /\ \A w \in Worker : worker[w] \in WorkerState
  BY DEF IInv, TypeOK
<1>1. ASSUME NEW w \in Worker, LeaseExhausted(w) PROVE Kept
  BY <1>0, <1>1 DEF LeaseExhausted, LeasedBy, Starting, WorkerState, TypeOK
<1>2. ASSUME NEW k \in Job, NEW attempt \in 0..MaxAttempts, NEW retry \in BOOLEAN,
             retry => attempt # 0, Fail(k, attempt, retry)
      PROVE  job'[j].attempts = job[j].attempts
  BY <1>0, <1>2, FailFacts, SettleFacts DEF Answers
<1>3. ASSUME NEW w \in Worker, NEW k \in Job, FailExhausted(w, k) PROVE Kept
  <2>1. job[k].attempts \in 0..MaxAttempts
    BY <1>0 DEF JobRow
  <2>2. job'[j].attempts = job[j].attempts
    BY <1>2, <1>3, <2>1 DEF FailExhausted
  <2> QED
    BY <1>0, <1>3, <2>2 DEF FailExhausted, Starting, WorkerState, TypeOK
<1>4. ASSUME NEW w \in Worker, NEW k \in Job, k # j, Claim(w, k) PROVE Kept
  BY <1>0, <1>4 DEF Claim, LeasedBy, Starting, WorkerState, TypeOK
<1>5. ASSUME NEW w \in Worker, ReadSource(w), worker[w].cur # j PROVE Kept
  <2>1. calls'[j] = calls[j]
    BY <1>0, <1>5 DEF ReadSource, TypeOK
  <2> QED
    BY <1>0, <1>5, <2>1, CallingFacts DEF ReadSource, Starting
<1>6. ASSUME NEW w \in Worker, Answer(w) PROVE Kept
  BY <1>0, <1>6, CallingFacts DEF Answer, Starting
<1>7. ASSUME NEW w \in Worker, Complete(w) \/ RecordFailure(w) PROVE Kept
  <2>1. worker[w].cur \in Job /\ worker[w].attempt \in 1..MaxAttempts /\ worker[w].retry \in BOOLEAN
    BY <1>0, <1>7 DEF Complete, RecordFailure, IInv, WorkersHold, WorkerState
  <2>2. job'[j].attempts = job[j].attempts
    <3>1. CASE Complete(w)
      BY <1>0, <2>1, <3>1, SettleFacts DEF Complete, Answers
    <3>2. CASE RecordFailure(w)
      <4>1. worker[w].attempt \in 0..MaxAttempts /\ worker[w].attempt # 0
        BY <2>1
      <4>2. \/ Fail(worker[w].cur, worker[w].attempt, worker[w].retry)
            \/ job' = job
        BY <3>2 DEF RecordFailure
      <4> QED
        BY <1>2, <2>1, <4>1, <4>2
    <3> QED
      BY <1>7, <3>1, <3>2
  <2>3. worker' = [worker EXCEPT ![w] = IdleWorker] /\ calls' = calls
    BY <1>7 DEF Complete, RecordFailure
  <2> QED
    BY <1>0, <2>2, <2>3 DEF Starting, IdleWorker, TypeOK
<1>8. ASSUME NEW w \in Worker, ClaimNothing(w) \/ WorkerCrash(w) PROVE Kept
  <2>1. worker' = [worker EXCEPT ![w] = IdleWorker] /\ calls' = calls /\ job' = job
    BY <1>8 DEF ClaimNothing, WorkerCrash
  <2> QED
    BY <1>0, <2>1 DEF Starting, IdleWorker, TypeOK
<1>9. ASSUME Tick PROVE Kept
  <2>1. \A w \in Worker : worker'[w].pc = worker[w].pc /\ worker'[w].cur = worker[w].cur
    BY <1>0, <1>9 DEF Tick, WorkerState
  <2>2. job'[j].attempts = job[j].attempts
    BY <1>0, <1>9 DEF Tick, JobRow
  <2> QED
    BY <1>9, <2>1, <2>2 DEF Tick, Starting
<1>10. ASSUME NEW ai \in {"not_requested", "pending", "unavailable"}, Submit(ai) PROVE Kept
  BY <1>0, <1>10, SubmitFacts DEF Submit, Starting
<1>11. ASSUME UNCHANGED vars PROVE Kept
  BY <1>11 DEF vars, Starting
<1> QED
  BY <1>1, <1>3, <1>4, <1>5, <1>6, <1>7, <1>8, <1>9, <1>10, <1>11 DEF Next, WorkerStep

\* A claim pays one attempt for the call that uses it.
LEMMA NextCallsPaid == IInv /\ IInv' /\ CallsPaid /\ [Next]_vars => CallsPaid'
<1> SUFFICES ASSUME IInv, IInv', CallsPaid, [Next]_vars, NEW j \in Job
             PROVE  calls'[j] + Cardinality(Starting(j)') <= job'[j].attempts
  BY DEF CallsPaid
<1>0. /\ TypeOK /\ calls[j] \in Nat /\ calls'[j] \in Nat
      /\ job[j].attempts \in Nat /\ job'[j].attempts \in Nat
      /\ calls[j] + Cardinality(Starting(j)) <= job[j].attempts
  BY SMTT(30) DEF IInv, TypeOK, JobRow, CallsPaid
<1>1. /\ IsFiniteSet(Starting(j)) /\ Cardinality(Starting(j)) \in Nat
      /\ IsFiniteSet(Starting(j)') /\ Cardinality(Starting(j)') \in Nat
  <2>1. IsFiniteSet(Starting(j)')
    BY WorkerAssumption, FS_Subset DEF Starting
  <2> QED
    BY <2>1, StartingFinite, FS_CardinalityType
<1>2. CASE \E w \in Worker : Claim(w, j)
  <2>1. PICK w \in Worker : Claim(w, j)
    BY <1>2
  <2>2. Starting(j)' = Starting(j) \cup {w} /\ w \notin Starting(j)
    BY <1>0, <2>1 DEF Claim, Starting, TypeOK
  <2>3. Cardinality(Starting(j)') = Cardinality(Starting(j)) + 1
    BY <1>1, <2>2, FS_AddElement
  <2>4. job'[j].attempts = job[j].attempts + 1 /\ calls' = calls
    BY <1>0, <2>1 DEF Claim, LeasedBy, TypeOK
  <2> QED
    BY <1>0, <1>1, <2>3, <2>4
<1>3. CASE \E w \in Worker : ReadSource(w) /\ worker[w].cur = j
  <2>1. PICK w \in Worker : ReadSource(w) /\ worker[w].cur = j
    BY <1>3
  <2>2. worker[w].pc = "starting"
    BY <2>1 DEF ReadSource
  <2>3. /\ worker'[w].pc # "starting"
        /\ \A v \in Worker : v # w => worker'[v] = worker[v]
    BY <1>0, <2>1, CallingFacts
  <2>4. Starting(j)' = Starting(j) \ {w} /\ w \in Starting(j)
    BY <2>1, <2>2, <2>3 DEF Starting
  <2>5. Cardinality(Starting(j)') = Cardinality(Starting(j)) - 1
    BY <1>1, <2>4, FS_RemoveElement
  <2>6. job'[j].attempts = job[j].attempts /\ calls'[j] <= calls[j] + 1
    BY <1>0, <2>1 DEF ReadSource, TypeOK
  <2> QED
    BY SMTT(30), <1>0, <1>1, <2>5, <2>6
<1>4. CASE /\ calls'[j] = calls[j] /\ job'[j].attempts = job[j].attempts
           /\ Starting(j)' \subseteq Starting(j)
  <2>1. Cardinality(Starting(j)') <= Cardinality(Starting(j))
    BY <1>1, <1>4, FS_Subset
  <2> QED
    BY <1>0, <1>1, <1>4, <2>1
<1> QED
  BY <1>2, <1>3, <1>4, CallSteps

\* However workers die, stall and share their id, the provider is called at
\* most once for an attempt and at most MaxAttempts times for a job.
THEOREM CallsStayPaid == Spec => []CallsArePaid
<1>1. Init => CallsPaid
  <2> SUFFICES ASSUME Init, NEW j \in Job
               PROVE  calls[j] + Cardinality(Starting(j)) <= job[j].attempts
    BY DEF CallsPaid
  <2>1. Starting(j) = {} /\ calls[j] = 0 /\ job[j].attempts = 0
    BY DEF Init, Starting, IdleWorker, NoJob
  <2> QED
    BY <2>1, FS_EmptySet
<1>2. IInv /\ CallsPaid => CallsArePaid
  <2> SUFFICES ASSUME IInv, CallsPaid, NEW j \in Job
               PROVE  calls[j] <= job[j].attempts /\ calls[j] <= MaxAttempts
    BY DEF CallsArePaid
  <2>1. job[j].attempts \in 0..MaxAttempts /\ calls[j] \in Nat
    BY DEF IInv, TypeOK, JobRow
  <2> QED
    BY <2>1, StartingFinite DEF CallsPaid
<1> QED
  BY Invariant, <1>1, <1>2, NextCallsPaid, PTL DEF Spec

-----------------------------------------------------------------------------
(* A lease that outlasts the work done under it *)

\* The jobs a worker has leased and not given back.
Takes(w) == worker[w].todo \cup
            (IF worker[w].pc \in {"loop", "exhausting"} THEN {} ELSE {worker[w].cur})

\* Leases outlast the time their holders still have, and holders share no job.
LeaseCovers ==
  \A w \in Worker : \A j \in Takes(w) :
    /\ job[j].status = "leased" /\ job[j].owner = Name[w]
    /\ job[j].lease > worker[w].left

Apart == \A v, w \in Worker : \A j \in Takes(v) \cap Takes(w) : v = w

\* A worker under way took its jobs from the table.
LEMMA TakesJobs ==
  ASSUME IInv, NEW w \in Worker
  PROVE  /\ Takes(w) \subseteq Job
         /\ worker[w].pc = "loop" => Takes(w) = {}
         /\ worker[w].pc = "exhausting" => Takes(w) = worker[w].todo
         /\ worker[w].pc \notin {"loop", "exhausting"} => Takes(w) = {worker[w].cur}
         /\ Leasing(w) <=> Takes(w) # {}
<1>1. /\ worker[w].todo \subseteq Job
      /\ worker[w].pc \notin {"loop", "exhausting"} => worker[w].cur \in Job
      /\ worker[w].pc # "exhausting" => worker[w].todo = {}
  BY DEF IInv, TypeOK, WorkerState, WorkersHold
<1> QED
  BY <1>1 DEF Takes, Leasing

\* Nobody holds a job that is free to be leased.
LEMMA AvailableFree ==
  ASSUME IInv, LeaseCovers, NEW w \in Worker, NEW j \in Takes(w)
  PROVE  j \notin Available
<1>1. /\ job[j].owner = Name[w] /\ job[j].lease > worker[w].left
      /\ worker[w].left \in Nat /\ job[j].lease \in Nat
  BY TakesJobs DEF LeaseCovers, IInv, TypeOK, WorkerState, JobRow
<1>2. Name[w] # None
  BY DEF Names
<1> QED
  BY <1>1, <1>2 DEF Available

\* While the budget is shorter than the lease no second worker takes a job.
LEMMA NextCovered ==
  ASSUME Budget < Lease, IInv, IInv', LeaseCovers, Apart, [Next]_vars
  PROVE  LeaseCovers' /\ Apart'
<1> DEFINE Goal == LeaseCovers' /\ Apart'
<1>0. /\ TypeOK
      /\ \A j \in Job : job[j] \in JobRow
      /\ \A w \in Worker : worker[w] \in WorkerState
  BY DEF IInv, TypeOK
<1>a. /\ \A w \in Worker : Takes(w) \subseteq Job
      /\ \A w \in Worker : Takes(w)' \subseteq Job
  <2>1. \A w \in Worker : Takes(w)' \subseteq Job
    BY DEF IInv, TypeOK, WorkerState, WorkersHold, Takes
  <2> QED
    BY <2>1, TakesJobs
<1>b. \A w \in Worker : worker[w].left \in Nat /\ worker'[w].left \in Nat
  <2>1. \A w \in Worker : worker[w] \in WorkerState /\ worker'[w] \in WorkerState
    BY DEF IInv, TypeOK, WorkerState
  <2>2. \A r \in WorkerState : r.left \in Nat
    BY BoundsAssumption DEF WorkerState, BoundsAssumption
  <2> QED
    BY <2>1, <2>2
\* A step after which every worker holds no more than before, and its jobs are as they were.
<1>1. ASSUME \A v \in Worker : /\ Takes(v)' \subseteq Takes(v) /\ worker'[v].left <= worker[v].left
                               /\ \A j \in Takes(v)' : job'[j] = job[j]
      PROVE  Goal
  <2>1. LeaseCovers'
    <3> SUFFICES ASSUME NEW v \in Worker, NEW j \in Takes(v)'
                 PROVE  /\ job'[j].status = "leased" /\ job'[j].owner = Name[v]
                        /\ job'[j].lease > worker'[v].left
      BY DEF LeaseCovers
    <3>1. job[j].lease \in Nat
      BY <1>0, <1>a DEF JobRow
    <3> QED
      BY <1>1, <1>b, <3>1 DEF LeaseCovers
  <2>2. Apart'
    BY <1>1 DEF Apart
  <2> QED
    BY <2>1, <2>2
\* A step in which one worker that held nothing leases available jobs.
<1>2. ASSUME NEW w \in Worker, Takes(w) = {}, Takes(w)' \subseteq Available,
             worker'[w].left = Budget,
             \A v \in Worker : v # w => worker'[v] = worker[v],
             \A j \in Job : IF j \in Takes(w)'
                            THEN /\ job'[j].status = "leased" /\ job'[j].owner = Name[w]
                                 /\ job'[j].lease = Lease
                            ELSE job'[j] = job[j]
      PROVE  Goal
  <2>1. \A v \in Worker : v # w => Takes(v)' = Takes(v)
    BY <1>2 DEF Takes
  <2>2. \A v \in Worker : v # w => \A j \in Takes(v) : j \notin Takes(w)' /\ job'[j] = job[j]
    BY <1>2, <1>a, AvailableFree
  <2>3. LeaseCovers'
    <3> SUFFICES ASSUME NEW v \in Worker, NEW j \in Takes(v)'
                 PROVE  /\ job'[j].status = "leased" /\ job'[j].owner = Name[v]
                        /\ job'[j].lease > worker'[v].left
      BY DEF LeaseCovers
    <3>1. CASE v = w
      BY <1>2, <1>a, <3>1
    <3>2. CASE v # w
      BY <1>2, <2>1, <2>2, <3>2 DEF LeaseCovers
    <3> QED
      BY <3>1, <3>2
  <2>4. Apart'
    <3> SUFFICES ASSUME NEW u \in Worker, NEW v \in Worker, NEW j \in Takes(u)' \cap Takes(v)'
                 PROVE  u = v
      BY DEF Apart
    <3>1. CASE u # w /\ v # w
      BY <2>1, <3>1 DEF Apart
    <3>2. CASE u = w \/ v = w
      BY <2>1, <2>2, <3>2
    <3> QED
      BY <3>1, <3>2
  <2> QED
    BY <2>3, <2>4
<1>3. ASSUME NEW w \in Worker, LeaseExhausted(w) PROVE Goal
  <2>1. Takes(w) = {}
    BY <1>3, TakesJobs DEF LeaseExhausted
  <2>2. worker'[w] = [worker[w] EXCEPT !.pc = "exhausting", !.todo = Exhausted, !.left = Budget]
    BY <1>0, <1>3 DEF LeaseExhausted, TypeOK
  <2>3. worker'[w].pc = "exhausting" /\ worker'[w].todo = Exhausted /\ worker'[w].left = Budget
    BY <1>0, <2>2 DEF WorkerState
  <2>4. Takes(w)' = Exhausted
    BY <2>3 DEF Takes
  <2>5. \A v \in Worker : v # w => worker'[v] = worker[v]
    BY <1>0, <1>3 DEF LeaseExhausted, TypeOK
  <2>6. \A j \in Job : IF j \in Exhausted
                       THEN /\ job'[j].status = "leased" /\ job'[j].owner = Name[w]
                            /\ job'[j].lease = Lease
                       ELSE job'[j] = job[j]
    BY <1>3 DEF LeaseExhausted, LeasedBy
  <2> QED
    BY <1>2, <2>1, <2>3, <2>4, <2>5, <2>6 DEF Exhausted
<1>4. ASSUME NEW w \in Worker, NEW j \in Job, Claim(w, j) PROVE Goal
  <2>1. Takes(w) = {} /\ j \in Available
    BY <1>4, TakesJobs DEF Claim, Claimable
  <2>2. Takes(w)' = {j} /\ worker'[w].left = Budget
    BY <1>0, <1>4 DEF Claim, Takes, TypeOK
  <2>3. \A v \in Worker : v # w => worker'[v] = worker[v]
    BY <1>0, <1>4 DEF Claim, TypeOK
  <2>4. \A k \in Job : IF k \in {j}
                       THEN /\ job'[k].status = "leased" /\ job'[k].owner = Name[w]
                            /\ job'[k].lease = Lease
                       ELSE job'[k] = job[k]
    BY <1>0, <1>4 DEF Claim, LeasedBy, TypeOK
  <2> QED
    BY <1>2, <2>1, <2>2, <2>3, <2>4
\* A step in which one worker gives back one job.
<1>5. ASSUME NEW w \in Worker, NEW j \in Takes(w),
             Takes(w)' \subseteq Takes(w) \ {j}, worker'[w].left <= worker[w].left,
             \A v \in Worker : v # w => worker'[v] = worker[v],
             \A k \in Job : k # j => job'[k] = job[k]
      PROVE  Goal
  <2>1. \A v \in Worker : v # w => Takes(v)' = Takes(v) /\ j \notin Takes(v)
    BY <1>5 DEF Takes, Apart
  <2>2. \A v \in Worker : v # w => worker'[v].left <= worker[v].left
    BY <1>5, <1>b
  <2>3. \A v \in Worker : /\ Takes(v)' \subseteq Takes(v) /\ worker'[v].left <= worker[v].left
                           /\ \A k \in Takes(v)' : job'[k] = job[k]
    BY <1>5, <1>a, <2>1, <2>2
  <2> QED
    BY <1>1, <2>3
<1>6. ASSUME NEW k \in Job, NEW attempt \in 0..MaxAttempts, NEW retry \in BOOLEAN,
             retry => attempt # 0, Fail(k, attempt, retry)
      PROVE  \A x \in Job : x # k => job'[x] = job[x]
  BY <1>0, <1>6, FailFacts, SettleFacts DEF Answers
<1>7. ASSUME NEW w \in Worker, NEW j \in Job, FailExhausted(w, j) PROVE Goal
  <2>1. Takes(w) = worker[w].todo /\ j \in Takes(w)
    BY <1>7, TakesJobs DEF FailExhausted
  <2>2. worker'[w] = [worker[w] EXCEPT !.todo = worker[w].todo \ {j}]
    BY <1>0, <1>7 DEF FailExhausted, TypeOK
  <2>3. /\ worker'[w].pc = "exhausting" /\ worker'[w].todo = worker[w].todo \ {j}
        /\ worker'[w].left = worker[w].left
    BY <1>0, <1>7, <2>2 DEF FailExhausted, WorkerState
  <2>4. Takes(w)' \subseteq Takes(w) \ {j} /\ worker'[w].left <= worker[w].left
    BY <1>b, <2>1, <2>3 DEF Takes
  <2>5. \A v \in Worker : v # w => worker'[v] = worker[v]
    BY <1>0, <1>7 DEF FailExhausted, TypeOK
  <2>6. \A k \in Job : k # j => job'[k] = job[k]
    <3>1. job[j].attempts \in 0..MaxAttempts
      BY <1>0 DEF JobRow
    <3>2. Fail(j, job[j].attempts, FALSE) \/ job' = job
      BY <1>7 DEF FailExhausted
    <3> QED
      BY <1>6, <3>1, <3>2
  <2> QED
    BY <1>5, <2>1, <2>4, <2>5, <2>6
<1>8. ASSUME NEW w \in Worker, Complete(w) \/ RecordFailure(w) PROVE Goal
  <2> DEFINE j == worker[w].cur
  <2>1. /\ j \in Job /\ worker[w].attempt \in 1..MaxAttempts /\ worker[w].retry \in BOOLEAN
        /\ Takes(w) = {j}
    BY <1>0, <1>8, TakesJobs DEF Complete, RecordFailure, IInv, WorkersHold, WorkerState
  <2>2. worker' = [worker EXCEPT ![w] = IdleWorker]
    BY <1>8 DEF Complete, RecordFailure
  <2>3. /\ worker'[w] = IdleWorker
        /\ \A v \in Worker : v # w => worker'[v] = worker[v]
    BY <1>0, <2>2 DEF TypeOK
  <2>4. Takes(w)' = {} /\ worker'[w].left <= worker[w].left
    BY <1>b, <2>3 DEF Takes, IdleWorker
  <2>5. \A k \in Job : k # j => job'[k] = job[k]
    <3>1. CASE Complete(w)
      BY <1>0, <2>1, <3>1, SettleFacts DEF Complete, Answers
    <3>2. CASE RecordFailure(w)
      <4>1. Fail(j, worker[w].attempt, worker[w].retry) \/ job' = job
        BY <3>2 DEF RecordFailure
      <4>2. worker[w].attempt \in 0..MaxAttempts /\ worker[w].attempt # 0
        BY <2>1
      <4> QED
        BY <1>6, <2>1, <4>1, <4>2
    <3> QED
      BY <1>8, <3>1, <3>2
  <2> HIDE DEF j
  <2> QED
    BY <1>5, <2>1, <2>3, <2>4, <2>5
<1>9. ASSUME NEW w \in Worker, ReadSource(w) \/ Answer(w) PROVE Goal
  <2>1. job' = job
    BY <1>9 DEF ReadSource, Answer
  <2>2. \A v \in Worker : Takes(v)' = Takes(v) /\ worker'[v].left = worker[v].left
    BY <1>0, <1>9, CallingFacts DEF Takes
  <2> QED
    BY <1>1, <1>b, <2>1, <2>2
<1>10. ASSUME NEW w \in Worker, ClaimNothing(w) \/ WorkerCrash(w) PROVE Goal
  <2>1. worker' = [worker EXCEPT ![w] = IdleWorker] /\ job' = job
    BY <1>10 DEF ClaimNothing, WorkerCrash
  <2>2. /\ worker'[w] = IdleWorker
        /\ \A v \in Worker : v # w => worker'[v] = worker[v]
    BY <1>0, <2>1 DEF TypeOK
  <2>3. \A v \in Worker : Takes(v)' \subseteq Takes(v) /\ worker'[v].left <= worker[v].left
    BY <1>b, <2>2 DEF Takes, IdleWorker
  <2> QED
    BY <1>1, <2>1, <2>3
<1>11. ASSUME Tick PROVE Goal
  <2>1. \A v \in Worker : /\ worker'[v].pc = worker[v].pc /\ worker'[v].cur = worker[v].cur
                           /\ worker'[v].todo = worker[v].todo
                           /\ worker'[v].left = Less(worker[v].left)
    BY <1>0, <1>11 DEF Tick, WorkerState
  <2>2. \A v \in Worker : Takes(v)' = Takes(v)
    BY <2>1 DEF Takes
  <2>3. \A j \in Job : /\ job'[j].status = job[j].status /\ job'[j].owner = job[j].owner
                       /\ job'[j].lease = Less(job[j].lease)
    BY <1>0, <1>11 DEF Tick, JobRow
  <2>4. LeaseCovers'
    <3> SUFFICES ASSUME NEW v \in Worker, NEW j \in Takes(v)
                 PROVE  /\ job'[j].status = "leased" /\ job'[j].owner = Name[v]
                        /\ job'[j].lease > worker'[v].left
      BY <2>2 DEF LeaseCovers
    <3>1. worker[v].left > 0
      BY <1>11, TakesJobs DEF Tick
    <3>2. /\ job[j].status = "leased" /\ job[j].owner = Name[v]
          /\ job[j].lease > worker[v].left
      BY DEF LeaseCovers
    <3>3. j \in Job /\ job[j].lease \in Nat /\ worker[v].left \in Nat
      BY <1>0, <1>a, <1>b DEF JobRow
    <3>4. Less(job[j].lease) > Less(worker[v].left)
      BY <3>1, <3>2, <3>3 DEF Less
    <3> QED
      BY <2>1, <2>3, <3>2, <3>3, <3>4
  <2>5. Apart'
    BY <2>2 DEF Apart
  <2> QED
    BY <2>4, <2>5
<1>12. ASSUME NEW ai \in {"not_requested", "pending", "unavailable"}, Submit(ai) PROVE Goal
  <2>1. worker' = worker
    BY <1>12 DEF Submit
  <2>2. \A v \in Worker : Takes(v)' = Takes(v)
    BY <2>1 DEF Takes
  <2>3. /\ \A k \in Job : k # Len(briefs) + 1 => job'[k] = job[k]
        /\ Len(briefs) \in Nat
    BY <1>0, <1>12, SubmitFacts DEF TypeOK
  <2>4. \A v \in Worker : \A j \in Takes(v) : job'[j] = job[j]
    <3> SUFFICES ASSUME NEW v \in Worker, NEW j \in Takes(v)
                 PROVE  job'[j] = job[j]
      OBVIOUS
    <3>1. j \in Job /\ job[j].status = "leased"
      BY <1>a DEF LeaseCovers
    <3>2. j <= Len(briefs)
      BY <3>1 DEF IInv, JobsHaveSource
    <3> QED
      BY <2>3, <3>1, <3>2 DEF Job
  <2> QED
    BY <1>1, <1>b, <2>1, <2>2, <2>4
<1>13. ASSUME UNCHANGED vars PROVE Goal
  <2>1. \A v \in Worker : Takes(v)' = Takes(v) /\ worker' = worker /\ job' = job
    BY <1>13 DEF vars, Takes
  <2> QED
    BY <1>1, <1>b, <2>1
<1> QED
  BY <1>3, <1>4, <1>7, <1>8, <1>9, <1>10, <1>11, <1>12, <1>13 DEF Next, WorkerStep

\* When the work done under a lease fits in it, no two workers ever call the
\* provider for one job at the same time, even under one worker id.
THEOREM CallsAreExclusive ==
  ASSUME Budget < Lease
  PROVE  Spec => []OneCallPerJob
<1>1. Init => LeaseCovers /\ Apart
  <2> SUFFICES ASSUME Init
               PROVE  \A w \in Worker : Takes(w) = {}
    BY DEF LeaseCovers, Apart
  <2> QED
    BY DEF Init, Takes, IdleWorker
<1>2. IInv /\ IInv' /\ LeaseCovers /\ Apart /\ [Next]_vars => LeaseCovers' /\ Apart'
  BY NextCovered
<1>3. Apart => OneCallPerJob
  BY DEF Apart, OneCallPerJob, Calling, Takes
<1> QED
  BY Invariant, <1>1, <1>2, <1>3, PTL DEF Spec

-----------------------------------------------------------------------------
(* The refinement of AnalysisOutcome *)

Outcomes == [r \in Job |-> Outcome(r)]

\* The outcome of a revision before and after a change of its row.
LEMMA OutcomeCases ==
  ASSUME NEW r \in Job, Len(briefs) \in Nat
  PROVE  /\ r > Len(briefs) => Outcome(r) = "none"
         /\ r <= Len(briefs) /\ briefs[r].ai # "pending" => Outcome(r) = "none"
         /\ r = Len(briefs) /\ briefs[r].ai = "pending" => Outcome(r) = "pending"
         /\ r < Len(briefs) /\ briefs[r].ai = "pending" =>
              Outcome(r) = IF briefs[r + 1].source = r THEN briefs[r + 1].ai ELSE "superseded"
<1>1. r \in Nat
  BY DEF Job
<1> QED
  BY <1>1 DEF Outcome

\* The same for the next state.
LEMMA OutcomeCasesNext ==
  ASSUME NEW r \in Job, Len(briefs') \in Nat
  PROVE  /\ r > Len(briefs') => Outcome(r)' = "none"
         /\ r <= Len(briefs') /\ briefs'[r].ai # "pending" => Outcome(r)' = "none"
         /\ r = Len(briefs') /\ briefs'[r].ai = "pending" => Outcome(r)' = "pending"
         /\ r < Len(briefs') /\ briefs'[r].ai = "pending" =>
              Outcome(r)' = IF briefs'[r + 1].source = r THEN briefs'[r + 1].ai ELSE "superseded"
<1>1. r \in Nat
  BY DEF Job
<1> QED
  BY <1>1 DEF Outcome

\* The initial states refine those of AnalysisOutcome.
LEMMA InitOutcome == Init => AO!Init
<1> SUFFICES ASSUME Init
             PROVE  AO!Init
  OBVIOUS
<1>1. \A r \in Job : Outcome(r) = "none"
  BY OutcomeCases DEF Init, Job
<1> QED
  BY <1>1 DEF AO!Init

\* Every step is one of AnalysisOutcome, or leaves every outcome alone.
LEMMA OutcomeSteps ==
  ASSUME IInv, [Next]_vars
  PROVE  \/ AO!Resubmit
         \/ \E r \in Job : AO!Ask(r) \/ AO!Answer(r)
         \/ Outcomes' = Outcomes
<1>0. TypeOK /\ Revisions /\ Len(briefs) \in Nat
  BY DEF IInv, TypeOK
<1>1. CASE \E ai \in {"not_requested", "pending", "unavailable"} : Submit(ai)
  <2>1. PICK ai \in {"not_requested", "pending", "unavailable"} : Submit(ai)
    BY <1>1
  <2> DEFINE n == Len(briefs)
  <2>2. /\ Len(briefs') = n + 1 /\ n + 1 \in Job /\ n \in Nat
        /\ briefs'[n + 1] = [source |-> 0, ai |-> ai]
        /\ \A i \in 1..n : briefs'[i] = briefs[i]
    BY <1>0, <2>1, SubmitFacts
  <2>3. ASSUME NEW r \in Job, r < n
        PROVE  Outcome(r)' = Outcome(r) /\ Outcome(r) # "pending"
    <3>1. r \in 1..n /\ r + 1 \in 1..n /\ r \in Nat
      BY <2>2, <2>3 DEF Job
    <3>2. briefs'[r] = briefs[r] /\ briefs'[r + 1] = briefs[r + 1]
      BY <2>2, <3>1
    <3>3. briefs[r + 1].source = r => briefs[r + 1].ai # "pending"
      BY <1>0, <3>1 DEF Revisions, Answers, Job
    <3> QED
      BY <1>0, <2>2, <2>3, <3>1, <3>2, <3>3, OutcomeCases, OutcomeCasesNext
  <2>4. ASSUME NEW r \in Job, r = n
        PROVE  Outcome(r)' = (IF Outcome(r) = "pending" THEN "superseded" ELSE Outcome(r))
    <3>1. r \in 1..n /\ briefs'[r] = briefs[r] /\ briefs'[r + 1].source # r
      BY <2>2, <2>4 DEF Job
    <3> QED
      BY <1>0, <2>2, <2>4, <3>1, OutcomeCases, OutcomeCasesNext
  <2>5. ASSUME NEW r \in Job, r > n
        PROVE  /\ Outcome(r) = "none"
               /\ Outcome(r)' = IF r = n + 1 /\ ai = "pending" THEN "pending" ELSE "none"
    BY <1>0, <2>2, <2>5, OutcomeCases, OutcomeCasesNext DEF Job
  <2> HIDE DEF n
  <2>6. \A r \in Job : Outcome(r)' =
          IF r = n + 1 /\ ai = "pending" THEN "pending"
          ELSE IF Outcome(r) = "pending" THEN "superseded" ELSE Outcome(r)
    BY <2>2, <2>3, <2>4, <2>5 DEF Job
  <2>7. CASE ai = "pending"
    <3>1. Outcome(n + 1) = "none"
      BY <2>2, <2>5
    <3>2. Outcomes' = [AO!Superseded EXCEPT ![n + 1] = "pending"]
      BY <2>2, <2>6, <2>7 DEF Outcomes, AO!Superseded
    <3>3. AO!Ask(n + 1)
      BY <2>2, <3>1, <3>2 DEF AO!Ask, Outcomes
    <3> QED
      BY <2>2, <3>3
  <2>8. CASE ai # "pending"
    BY <2>6, <2>8 DEF AO!Resubmit, AO!Superseded
  <2> QED
    BY <2>7, <2>8
<1>2. CASE \E j \in Job, ai \in Answers : job[j].status = "leased" /\ Settle(j, ai)
  <2>1. PICK j \in Job, ai \in Answers : job[j].status = "leased" /\ Settle(j, ai)
    BY <1>2
  <2>2. CASE briefs' = briefs
    BY <2>2 DEF Outcomes, Outcome
  <2>3. CASE /\ Len(briefs) = j /\ Len(briefs') = j + 1
             /\ briefs'[j + 1] = [source |-> j, ai |-> ai]
             /\ \A i \in 1..j : briefs'[i] = briefs[i]
    <3>1. briefs[j].ai = "pending" /\ j \in Nat /\ j \in 1..j /\ ai # "pending"
      BY <2>1 DEF IInv, JobsHaveSource, Job, Answers
    <3>2. ASSUME NEW r \in Job, r < j
          PROVE  Outcome(r)' = Outcome(r)
      <4>1. r \in 1..j /\ r + 1 \in 1..j /\ r \in Nat
        BY <3>1, <3>2 DEF Job
      <4>2. briefs'[r] = briefs[r] /\ briefs'[r + 1] = briefs[r + 1]
        BY <2>3, <4>1
      <4> QED
        BY SMTT(30), <1>0, <2>3, <3>1, <3>2, <4>1, <4>2, OutcomeCases, OutcomeCasesNext
    <3>3. Outcome(j) = "pending" /\ Outcome(j)' = ai
      <4>1. briefs'[j] = briefs[j]
        BY <2>3, <3>1
      <4> QED
        BY <1>0, <2>3, <3>1, <4>1, OutcomeCases, OutcomeCasesNext
    <3>4. ASSUME NEW r \in Job, r > j
          PROVE  Outcome(r)' = Outcome(r)
      BY <1>0, <2>3, <3>1, <3>4, OutcomeCases, OutcomeCasesNext DEF Job
    <3>5. \A r \in Job : Outcome(r)' = IF r = j THEN ai ELSE Outcome(r)
      BY <3>1, <3>2, <3>3, <3>4 DEF Job
    <3>6. Outcomes' = [Outcomes EXCEPT ![j] = ai]
      BY <3>5 DEF Outcomes
    <3>7. AO!Answer(j)
      BY <3>3, <3>6 DEF AO!Answer, Outcomes, Answers
    <3> QED
      BY <3>7
  <2> QED
    BY <1>0, <2>1, <2>2, <2>3, AnswerAppended
<1>3. CASE briefs' = briefs
  BY <1>3 DEF Outcomes, Outcome
<1> QED
  BY <1>1, <1>2, <1>3, RowSteps

\* Whatever the workers do, a request gets one outcome that never changes,
\* and a newer submission supersedes the one that was pending.
THEOREM ImplementsAnalysisOutcome == Spec => OneOutcome
<1>1. IInv /\ [Next]_vars => [AO!Next]_Outcomes
  BY OutcomeSteps DEF AO!Next
<1> QED
  BY Invariant, InitOutcome, <1>1, PTL DEF Spec, OneOutcome, AO!Safety, Outcomes

=============================================================================
