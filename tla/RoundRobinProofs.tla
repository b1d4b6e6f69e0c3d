-------------------------- MODULE RoundRobinProofs --------------------------
(***************************************************************************)
(* Turns are even, for any fleet, any number of requests at a time and any *)
(* width of the counter.                                                   *)
(*                                                                         *)
(* Each ticket is a first call, made or still owed. Counted together they  *)
(* are a stair of one step (Stair): the upstreams below the next ticket's  *)
(* have had one turn more than the others, whenever the requests get to    *)
(* make their calls. The step starts over when the counter wraps, which is *)
(* what Forgiven takes off. From the stair no lead exceeds the requests in *)
(* progress by more than one, so the bound MaxLead is never reached and    *)
(* Level only shifts what it is given (LevelShifts).                       *)
(***************************************************************************)
EXTENDS RoundRobin, FiniteSetTheorems, TLAPS

\* First calls of u, made and owed.
Turns(u) == led[u] + Cardinality(Owed(u))

Stair ==
  \E b \in Int : \A u \in Upstreams :
    Turns(u) = IF u < (next % Size) THEN b + 1 ELSE b

IInv == TypeOK /\ Stair

-----------------------------------------------------------------------------
(* Numbers *)

\* A number is its quotient and its remainder, and the remainder is below n.
LEMMA Remainder ==
  ASSUME NEW n \in Nat \ {0}, NEW x \in Nat
  PROVE  /\ (x \div n) \in Nat /\ (x % n) \in 0 .. n - 1
         /\ x = (n * (x \div n)) + (x % n)
OBVIOUS

\* A remainder below n is the only one.
LEMMA RemainderIs ==
  ASSUME NEW n \in Nat \ {0}, NEW q \in Nat, NEW r \in 0 .. n - 1
  PROVE  ((n * q) + r) % n = r
OBVIOUS

\* The next number has the next remainder, or none.
LEMMA NextRemainder ==
  ASSUME NEW n \in Nat \ {0}, NEW x \in Nat
  PROVE  (x + 1) % n = IF (x % n) = n - 1 THEN 0 ELSE (x % n) + 1
<1>1. PICK q \in Nat, r \in 0 .. n - 1 : x = (n * q) + r /\ r = (x % n)
  BY Remainder
<1>2. CASE r = n - 1
  <2>1. x + 1 = (n * (q + 1)) + 0
    <3>1. n * (q + 1) = (n * q) + n
      OBVIOUS
    <3>2. PICK p \in Nat : p = n * q
      OBVIOUS
    <3>3. QED
      BY <1>1, <1>2, <3>1, <3>2
  <2>2. (x + 1) % n = 0
    BY <2>1, RemainderIs, q + 1 \in Nat, 0 \in 0 .. n - 1
  <2>3. QED
    BY <1>1, <1>2, <2>2
<1>3. CASE r # n - 1
  <2>1. x + 1 = (n * q) + (r + 1) /\ r + 1 \in 0 .. n - 1
    BY <1>1, <1>3
  <2>2. (x + 1) % n = r + 1
    BY <2>1, RemainderIs
  <2>3. QED
    BY <1>1, <1>3, <2>2
<1>4. QED
  BY <1>2, <1>3

\* A number below n, or up to once more.
LEMMA SmallRemainder ==
  ASSUME NEW n \in Nat \ {0}, NEW x \in Nat, x < 2 * n
  PROVE  (x % n) = IF x < n THEN x ELSE x - n
<1>1. CASE x < n
  <2>1. x = (n * 0) + x /\ x \in 0 .. n - 1
    BY <1>1
  <2>2. QED
    BY <1>1, <2>1, RemainderIs, 0 \in Nat
<1>2. CASE ~(x < n)
  <2>1. x = (n * 1) + (x - n) /\ x - n \in 0 .. n - 1
    BY <1>2
  <2>2. (x % n) = x - n
    BY <2>1, RemainderIs, 1 \in Nat
  <2>3. QED
    BY <1>2, <2>2
<1>3. QED
  BY <1>1, <1>2

\* Of finitely many numbers one is the smallest.
LEMMA LeastElement ==
  ASSUME NEW S \in SUBSET Int, S # {}, IsFiniteSet(S)
  PROVE  \E m \in S : \A n \in S : m <= n
<1> DEFINE Below(m) == {n \in S : n < m}
           Segments == {Below(m) : m \in S}
<1>1. IsWellFoundedOn(StrictSubsetOrdering(S), SUBSET S)
  BY FS_StrictSubsetOrderingWellFounded, FS_FiniteSubsetsOfFinite
<1>2. Segments \subseteq SUBSET S
  OBVIOUS
<1>3. Segments # {}
  <2>1. PICK m : m \in S
    OBVIOUS
  <2>2. Below(m) \in Segments
    BY <2>1
  <2>3. QED
    BY <2>2
<1>4. PICK T \in Segments : \A U \in Segments : <<U, T>> \notin StrictSubsetOrdering(S)
  <2> HIDE DEF Segments
  <2>1. QED
    BY <1>1, <1>2, <1>3, WFMin
<1>5. PICK m \in S : T = Below(m)
  OBVIOUS
<1>6. ASSUME NEW n \in S, n < m PROVE FALSE
  <2>1. n \in Int /\ m \in Int
    OBVIOUS
  <2>2. n \in Below(m) /\ n \notin Below(n)
    BY <1>6, <2>1
  <2>3. ASSUME NEW k \in Below(n) PROVE k \in Below(m)
    <3>1. k \in Int /\ k < n
      OBVIOUS
    <3>2. k < m
      BY <1>6, <2>1, <3>1
    <3>3. QED
      BY <3>2
  <2>4. Below(n) \in Segments /\ Below(n) \in SUBSET S /\ Below(m) \in SUBSET S
    OBVIOUS
  <2> HIDE DEF Segments, Below
  <2>5. Below(n) \subseteq Below(m) /\ Below(n) # Below(m)
    BY <2>2, <2>3
  <2>6. <<Below(n), T>> \in StrictSubsetOrdering(S)
    BY <1>5, <2>4, <2>5 DEF StrictSubsetOrdering
  <2>7. QED
    BY <1>4, <2>4, <2>6
<1>7. \A n \in S : m <= n
  BY <1>6
<1>8. QED
  BY <1>7

-----------------------------------------------------------------------------
(* Chains and leads *)

\* How long a chain is.
Length == IF MaxAttempt < Size THEN MaxAttempt ELSE Size

\* What is handed out for ticket r: the fleet from upstream r on, once round.
LEMMA TakeRotated ==
  ASSUME NEW r \in Upstreams
  PROVE  /\ Take(Rotated(r)) = [i \in 1 .. Length |-> (r + i - 1) % Size]
         /\ Take(Rotated(r)) \in Chains
<1>1. /\ Size \in Nat /\ Size >= 1 /\ r \in Nat /\ r < Size
      /\ MaxAttempt \in Nat /\ MaxAttempt >= 1
  BY SizeAssumption, MaxAttemptAssumption DEF Upstreams
<1>2. /\ Fleet \in Seq(Upstreams) /\ Len(Fleet) = Size
      /\ \A i \in 1 .. Size : Fleet[i] = i - 1
  BY <1>1 DEF Fleet, Upstreams
<1>3. /\ SubSeq(Fleet, r + 1, Size) \in Seq(Upstreams)
      /\ Len(SubSeq(Fleet, r + 1, Size)) = Size - r
      /\ \A i \in 1 .. Size - r : SubSeq(Fleet, r + 1, Size)[i] = r + i - 1
  BY <1>1, <1>2
<1>4. /\ SubSeq(Fleet, 1, r) \in Seq(Upstreams) /\ Len(SubSeq(Fleet, 1, r)) = r
      /\ \A i \in 1 .. r : SubSeq(Fleet, 1, r)[i] = i - 1
  BY <1>1, <1>2
<1>5. /\ Rotated(r) \in Seq(Upstreams) /\ Len(Rotated(r)) = Size
      /\ \A i \in 1 .. Size : Rotated(r)[i] = IF i <= Size - r THEN r + i - 1 ELSE r + i - 1 - Size
  <2>1. /\ Rotated(r) \in Seq(Upstreams) /\ Len(Rotated(r)) = Size
        /\ \A i \in 1 .. Size : Rotated(r)[i] =
             IF i <= Size - r THEN SubSeq(Fleet, r + 1, Size)[i]
                              ELSE SubSeq(Fleet, 1, r)[i - (Size - r)]
    BY <1>1, <1>3, <1>4 DEF Rotated
  <2>2. \A i \in 1 .. Size : i > Size - r =>
           SubSeq(Fleet, 1, r)[i - (Size - r)] = r + i - 1 - Size
    BY <1>1, <1>4
  <2>3. \A i \in 1 .. Size : i <= Size - r => SubSeq(Fleet, r + 1, Size)[i] = r + i - 1
    BY <1>1, <1>3
  <2>4. \A i \in 1 .. Size : i <= Size - r \/ i > Size - r
    BY <1>1
  <2> HIDE DEF Upstreams, Rotated, Fleet
  <2>5. QED
    BY <2>1, <2>2, <2>3, <2>4
<1>6. \A i \in 1 .. Size : Rotated(r)[i] = (r + i - 1) % Size
  <2> SUFFICES ASSUME NEW i \in 1 .. Size PROVE Rotated(r)[i] = (r + i - 1) % Size
    OBVIOUS
  <2>1. PICK x \in Nat : x = r + i - 1 /\ x < 2 * Size
    BY <1>1
  <2>2. (x % Size) = IF x < Size THEN x ELSE x - Size
    BY SizeAssumption, <2>1, SmallRemainder
  <2>3. QED
    BY <1>1, <1>5, <2>1, <2>2
<1>7. PICK l \in 1 .. Size : l = Length
  BY <1>1 DEF Length
<1>8. Take(Rotated(r)) = SubSeq(Rotated(r), 1, l)
  BY <1>1, <1>5, <1>7 DEF Take, Length
<1>9. Take(Rotated(r)) = [i \in 1 .. l |-> Rotated(r)[i]]
  BY <1>1, <1>5, <1>7, <1>8
<1>10. Take(Rotated(r)) = [i \in 1 .. Length |-> (r + i - 1) % Size]
  <2>1. \A i \in 1 .. l : i \in 1 .. Size
    BY <1>1
  <2>2. \A i \in 1 .. l : Rotated(r)[i] = (r + i - 1) % Size
    BY <1>6, <2>1
  <2>3. QED
    BY <1>7, <1>9, <2>2, Zenon
<1>11. QED
  BY <1>10 DEF Chains, Length

\* Every chain starts somewhere.
LEMMA ChainsHaveHeads ==
  ASSUME NEW u \in Upstreams
  PROVE  LET chain == [i \in 1 .. Length |-> (u + i - 1) % Size]
         IN  chain # <<>> /\ Head(chain) = u
<1> DEFINE chain == [i \in 1 .. Length |-> (u + i - 1) % Size]
<1>1. Size \in Nat \ {0} /\ u \in Nat /\ u < Size /\ 1 \in 1 .. Length
  BY SizeAssumption, MaxAttemptAssumption DEF Upstreams, Length
<1>2. PICK x \in Nat : x = u + 1 - 1 /\ x = u /\ x < 2 * Size
  BY <1>1
<1>3. (x % Size) = u
  BY <1>1, <1>2, SmallRemainder
<1>4. chain[1] = u /\ DOMAIN chain = 1 .. Length
  BY <1>1, <1>2, <1>3
<1>5. chain # <<>>
  BY <1>1, <1>4
<1>6. Head(chain) = chain[1]
  OBVIOUS
<1>7. QED
  BY <1>4, <1>5, <1>6

\* While no lead is beyond the bound, Level takes the same from every count.
LEMMA LevelShifts ==
  ASSUME NEW counts \in [Upstreams -> Int],
         \A u, v \in Upstreams : counts[u] - counts[v] <= MaxLead
  PROVE  /\ Level(counts) \in [Upstreams -> 0 .. MaxLead]
         /\ \E f \in Int : \A u \in Upstreams : Level(counts)[u] = counts[u] - f
<1> DEFINE S == {counts[u] : u \in Upstreams}
           fewest == CHOOSE n \in S : \A u \in Upstreams : n <= counts[u]
<1>1. IsFiniteSet(Upstreams) /\ 0 \in Upstreams
  BY SizeAssumption, FS_Interval DEF Upstreams
<1>2. S \in SUBSET Int /\ S # {}
  BY <1>1
<1>3. IsFiniteSet(S)
  <2>1. counts \in Surjection(Upstreams, S)
    BY DEF Surjection
  <2>2. QED
    BY <1>1, <2>1, FS_Surjection
<1>4. \E m \in S : \A n \in S : m <= n
  <2> HIDE DEF S
  <2>1. QED
    BY <1>2, <1>3, LeastElement
<1>5. fewest \in S /\ \A u \in Upstreams : fewest <= counts[u]
  BY <1>4
<1>6. PICK v \in Upstreams : fewest = counts[v]
  BY <1>5
<1>7. fewest \in Int /\ \A u \in Upstreams : counts[u] \in Int
  BY <1>6
<1>8. MaxLead \in Nat
  BY TasksAssumption, FS_CardinalityType DEF MaxLead
<1>9. Level(counts) = [u \in Upstreams |->
        IF counts[u] - fewest < MaxLead THEN counts[u] - fewest ELSE MaxLead]
  BY DEF Level
<1> HIDE DEF fewest
<1>10. \A u \in Upstreams : counts[u] - fewest <= MaxLead /\ counts[u] - fewest >= 0
  BY <1>5, <1>6, <1>7
<1>11. \A u \in Upstreams : Level(counts)[u] = counts[u] - fewest
  BY <1>7, <1>8, <1>9, <1>10
<1>12. Level(counts) \in [Upstreams -> 0 .. MaxLead]
  BY <1>7, <1>8, <1>9, <1>10
<1>13. QED
  BY <1>7, <1>11, <1>12

-----------------------------------------------------------------------------
(* Steps *)

\* From the stair: no lead comes near the bound.
LEMMA StairIsEven ==
  ASSUME TypeOK, Stair
  PROVE  /\ \A u \in Upstreams : /\ IsFiniteSet(Owed(u)) /\ Cardinality(Owed(u)) \in Nat
                                 /\ Cardinality(Owed(u)) <= MaxLead - 2
         /\ \A u, v \in Upstreams : led[u] - led[v] <= 1 + Cardinality(Owed(v))
<1>1. \A u \in Upstreams : /\ IsFiniteSet(Owed(u)) /\ Cardinality(Owed(u)) \in Nat
                           /\ Cardinality(Owed(u)) <= MaxLead - 2
  <2> SUFFICES ASSUME NEW u \in Upstreams
               PROVE  /\ IsFiniteSet(Owed(u)) /\ Cardinality(Owed(u)) \in Nat
                      /\ Cardinality(Owed(u)) <= MaxLead - 2
    OBVIOUS
  <2>1. Owed(u) \subseteq Tasks
    BY DEF Owed
  <2>2. /\ IsFiniteSet(Owed(u)) /\ Cardinality(Owed(u)) \in Nat /\ Cardinality(Tasks) \in Nat
        /\ Cardinality(Owed(u)) <= Cardinality(Tasks)
    BY <2>1, TasksAssumption, FS_Subset, FS_CardinalityType
  <2>3. QED
    BY <2>2 DEF MaxLead
<1>2. PICK b \in Int : \A u \in Upstreams :
        Turns(u) = IF u < (next % Size) THEN b + 1 ELSE b
  BY DEF Stair
<1>3. \A u \in Upstreams : led[u] \in Int /\ Turns(u) \in {b, b + 1}
  <2>1. \A u \in Upstreams : led[u] \in Int
    BY DEF TypeOK
  <2>2. QED
    BY <1>2, <2>1
<1>4. ASSUME NEW u \in Upstreams, NEW v \in Upstreams
      PROVE  led[u] - led[v] <= 1 + Cardinality(Owed(v))
  <2>1. PICK m \in Nat, n \in Nat : m = Cardinality(Owed(u)) /\ n = Cardinality(Owed(v))
    BY <1>1
  <2>2. led[u] + m \in {b, b + 1} /\ led[v] + n \in {b, b + 1}
    BY <1>3, <2>1 DEF Turns
  <2>3. led[u] \in Int /\ led[v] \in Int
    BY <1>3
  <2>4. led[u] - led[v] <= 1 + n
    BY <2>1, <2>2, <2>3
  <2>5. QED
    BY <2>1, <2>4
<1>5. QED
  BY <1>1, <1>4

\* At the start nobody has had a turn.
LEMMA InitEstablishes == Init => IInv
<1> SUFFICES ASSUME Init PROVE IInv
  OBVIOUS
<1>1. MaxLead \in Nat /\ Size \in Nat \ {0} /\ Wrap \in Nat /\ Wrap >= 1
  BY SizeAssumption, WrapAssumption, TasksAssumption, FS_CardinalityType DEF MaxLead
<1>2. TypeOK
  BY <1>1 DEF Init, TypeOK
<1>3. \A u \in Upstreams : Owed(u) = {}
  BY DEF Init, Owed
<1>4. \A u \in Upstreams : Turns(u) = 0
  <2>1. \A u \in Upstreams : Cardinality(Owed(u)) = 0 /\ led[u] = 0
    BY <1>3, FS_EmptySet DEF Init
  <2>2. QED
    BY <2>1 DEF Turns
<1>5. (next % Size) = 0
  BY <1>1, NextRemainder, SmallRemainder DEF Init
<1>6. Stair
  BY <1>4, <1>5 DEF Stair, Upstreams
<1>7. QED
  BY <1>2, <1>6 DEF IInv

\* A ticket is a turn for the upstream it names, and the stair's step moves on.
LEMMA DecidePreserves ==
  ASSUME IInv, NEW t \in Tasks, Decide(t)
  PROVE  IInv'
<1>1. PICK r \in Upstreams : r = (next % Size)
  <2>1. next \in Nat
    BY DEF IInv, TypeOK
  <2>2. QED
    BY <2>1, SizeAssumption, Remainder DEF Upstreams
<1>2. /\ Size \in Nat \ {0} /\ r \in Nat /\ r < Size /\ Wrap \in Nat /\ Wrap >= Size
      /\ next \in Nat /\ next < Wrap
  BY SizeAssumption, WrapAssumption DEF Upstreams, IInv, TypeOK
<1>3. PICK chain \in Chains : /\ chain = Take(Rotated(r)) /\ chain # <<>> /\ Head(chain) = r
  BY TakeRotated, ChainsHaveHeads
<1>4. /\ task[t] = <<>> /\ task' = [task EXCEPT ![t] = chain]
      /\ next' = (next + 1) % Wrap
      /\ led' = Level([u \in Upstreams |-> led[u] - Forgiven(u)])
  BY <1>1, <1>3 DEF Decide
<1>5. task' \in [Tasks -> {<<>>} \cup Chains]
  BY <1>3, <1>4 DEF IInv, TypeOK
<1>6. next' \in 0 .. Wrap - 1
      /\ next' = IF next = Wrap - 1 THEN 0 ELSE next + 1
  <2>1. PICK x \in Nat : x = next + 1 /\ x < 2 * Wrap /\ Wrap \in Nat \ {0}
    BY <1>2
  <2>2. (x % Wrap) = IF x < Wrap THEN x ELSE x - Wrap
    BY <2>1, SmallRemainder
  <2>3. QED
    BY <1>2, <1>4, <2>1, <2>2
<1>7. \A u \in Upstreams :
        /\ IsFiniteSet(Owed(u)) /\ Cardinality(Owed(u)) \in Nat
        /\ Cardinality(Owed(u))' = IF u = r THEN Cardinality(Owed(u)) + 1 ELSE Cardinality(Owed(u))
  <2>1. ASSUME NEW u \in Upstreams PROVE IsFiniteSet(Owed(u)) /\ Cardinality(Owed(u)) \in Nat
    BY StairIsEven DEF IInv
  <2>2. ASSUME NEW u \in Upstreams, u # r PROVE Owed(u)' = Owed(u)
    BY <1>3, <1>4, <2>2 DEF Owed, IInv, TypeOK
  <2>3. Owed(r)' = Owed(r) \cup {t} /\ t \notin Owed(r)
    BY <1>3, <1>4 DEF Owed, IInv, TypeOK
  <2>4. Cardinality(Owed(r))' = Cardinality(Owed(r)) + 1
    BY <2>1, <2>3, FS_AddElement
  <2>5. QED
    BY <2>1, <2>2, <2>4
<1>8. PICK b \in Int : \A u \in Upstreams : Turns(u) = IF u < r THEN b + 1 ELSE b
  BY <1>1 DEF IInv, Stair
<1> DEFINE counts == [u \in Upstreams |-> led[u] - Forgiven(u)]
<1>9. \A u \in Upstreams : /\ led[u] \in Int /\ Forgiven(u) \in {0, 1} /\ u \in Nat
                           /\ counts[u] = led[u] - Forgiven(u)
  BY DEF IInv, TypeOK, Forgiven, Upstreams
<1>10. /\ Level(counts) \in [Upstreams -> 0 .. MaxLead]
       /\ \E f \in Int : \A u \in Upstreams : Level(counts)[u] = counts[u] - f
  <2>1. counts \in [Upstreams -> Int]
    BY <1>9
  <2>2. ASSUME NEW u \in Upstreams, NEW v \in Upstreams PROVE counts[u] - counts[v] <= MaxLead
    <3>1. led[u] - led[v] <= 1 + Cardinality(Owed(v))
      BY StairIsEven DEF IInv
    <3>2. Cardinality(Owed(v)) \in Nat /\ Cardinality(Owed(v)) <= MaxLead - 2 /\ MaxLead \in Nat
      BY StairIsEven, TasksAssumption, FS_CardinalityType DEF IInv, MaxLead
    <3>3. QED
      BY <1>9, <3>1, <3>2
  <2> HIDE DEF counts
  <2>3. QED
    BY <2>1, <2>2, LevelShifts
<1>11. PICK f \in Int : \A u \in Upstreams : led'[u] = led[u] - Forgiven(u) - f
  BY <1>4, <1>9, <1>10
<1>12. TypeOK'
  BY <1>4, <1>5, <1>6, <1>10 DEF TypeOK
<1>13. \A u \in Upstreams : Turns(u)' = IF u <= r THEN b + 1 - Forgiven(u) - f
                                                  ELSE b - Forgiven(u) - f
  <2> SUFFICES ASSUME NEW u \in Upstreams
               PROVE  Turns(u)' = IF u <= r THEN b + 1 - Forgiven(u) - f
                                            ELSE b - Forgiven(u) - f
    OBVIOUS
  <2>1. PICK n \in Nat : n = Cardinality(Owed(u))
    BY <1>7
  <2>2. led[u] + n = IF u < r THEN b + 1 ELSE b
    BY <1>8, <2>1 DEF Turns
  <2>3. Turns(u)' = led'[u] + (IF u = r THEN n + 1 ELSE n)
    BY <1>7, <2>1 DEF Turns
  <2>4. QED
    BY <1>2, <1>9, <1>11, <2>1, <2>2, <2>3
<1>14. Stair'
  <2>1. CASE next # Wrap - 1
    <3>1. (next' % Size) = IF r = Size - 1 THEN 0 ELSE r + 1
      BY <1>1, <1>2, <1>6, <2>1, NextRemainder
    <3>2. \A u \in Upstreams : Forgiven(u) = 0
      BY <2>1 DEF Forgiven
    <3>3. CASE r = Size - 1
      <4>1. \A u \in Upstreams : u <= r /\ ~(u < 0)
        BY <1>2, <3>3 DEF Upstreams
      <4>2. \A u \in Upstreams : Turns(u)' = IF u < (next' % Size) THEN (b + 1 - f) + 1 ELSE b + 1 - f
        BY <1>13, <3>1, <3>2, <3>3, <4>1
      <4>3. QED
        BY <4>2, b + 1 - f \in Int DEF Stair
    <3>4. CASE r # Size - 1
      <4>1. \A u \in Upstreams : u <= r <=> u < r + 1
        BY <1>2, <1>9
      <4>2. \A u \in Upstreams : Turns(u)' = IF u < (next' % Size) THEN (b - f) + 1 ELSE b - f
        BY <1>13, <3>1, <3>2, <3>4, <4>1
      <4>3. QED
        BY <4>2, b - f \in Int DEF Stair
    <3>5. QED
      BY <3>3, <3>4
  <2>2. CASE next = Wrap - 1
    <3>1. (Wrap % Size) = IF r = Size - 1 THEN 0 ELSE r + 1
      <4>1. Wrap = next + 1
        BY <1>2, <2>2
      <4>2. QED
        BY <1>1, <1>2, <4>1, NextRemainder
    <3>2. (next' % Size) = 0
      BY <1>2, <1>6, <2>2, SmallRemainder
    <3>3. \A u \in Upstreams : Forgiven(u) = IF u < (Wrap % Size) THEN 1 ELSE 0
      BY <2>2 DEF Forgiven
    <3>4. \E a \in Int : \A u \in Upstreams : Turns(u)' = a
      <4>1. CASE r = Size - 1
        <5>1. \A u \in Upstreams : u <= r /\ Forgiven(u) = 0
          BY <1>2, <3>1, <3>3, <4>1 DEF Upstreams
        <5>2. \A u \in Upstreams : Turns(u)' = b + 1 - f
          BY <1>13, <5>1
        <5>3. QED
          BY <5>2, b + 1 - f \in Int
      <4>2. CASE r # Size - 1
        <5>1. \A u \in Upstreams : Forgiven(u) = IF u <= r THEN 1 ELSE 0
          BY <1>2, <1>9, <3>1, <3>3, <4>2
        <5>2. \A u \in Upstreams : Turns(u)' = b - f
          BY <1>13, <5>1
        <5>3. QED
          BY <5>2, b - f \in Int
      <4>3. QED
        BY <4>1, <4>2
    <3>5. \A u \in Upstreams : ~(u < 0)
      BY <1>9
    <3>6. QED
      BY <3>2, <3>4, <3>5 DEF Stair
  <2>3. QED
    BY <2>1, <2>2
<1>15. QED
  BY <1>12, <1>14 DEF IInv

\* A first call was owed, and now is made: nobody has more turns, nobody fewer.
LEMMA FirstCallPreserves ==
  ASSUME IInv, NEW t \in Tasks, FirstCall(t)
  PROVE  IInv'
<1>1. PICK h \in Upstreams : h = Head(task[t])
  <2>1. task[t] \in Chains
    BY DEF FirstCall, IInv, TypeOK
  <2>2. PICK u \in Upstreams : task[t] = [i \in 1 .. Length |-> (u + i - 1) % Size]
    BY <2>1 DEF Chains, Length
  <2>3. QED
    BY <2>2, ChainsHaveHeads
<1>2. /\ task[t] # <<>> /\ task' = [task EXCEPT ![t] = <<>>]
      /\ next' = next
      /\ led' = Level([led EXCEPT ![h] = @ + 1])
  BY <1>1 DEF FirstCall
<1>3. \A u \in Upstreams :
        /\ IsFiniteSet(Owed(u)) /\ Cardinality(Owed(u)) \in Nat
        /\ Cardinality(Owed(u))' = IF u = h THEN Cardinality(Owed(u)) - 1 ELSE Cardinality(Owed(u))
  <2>1. ASSUME NEW u \in Upstreams PROVE IsFiniteSet(Owed(u)) /\ Cardinality(Owed(u)) \in Nat
    BY StairIsEven DEF IInv
  <2>2. ASSUME NEW u \in Upstreams, u # h PROVE Owed(u)' = Owed(u)
    BY <1>1, <1>2, <2>2 DEF Owed, IInv, TypeOK
  <2>3. Owed(h)' = Owed(h) \ {t} /\ t \in Owed(h)
    BY <1>1, <1>2 DEF Owed, IInv, TypeOK
  <2>4. Cardinality(Owed(h))' = Cardinality(Owed(h)) - 1
    BY <2>1, <2>3, FS_RemoveElement
  <2>5. QED
    BY <2>1, <2>2, <2>4
<1>4. PICK b \in Int : \A u \in Upstreams : Turns(u) = IF u < (next % Size) THEN b + 1 ELSE b
  BY DEF IInv, Stair
<1> DEFINE counts == [led EXCEPT ![h] = @ + 1]
<1>5. \A u \in Upstreams : /\ led[u] \in Int
                           /\ counts[u] = IF u = h THEN led[u] + 1 ELSE led[u]
  BY DEF IInv, TypeOK
<1>6. /\ Level(counts) \in [Upstreams -> 0 .. MaxLead]
      /\ \E f \in Int : \A u \in Upstreams : Level(counts)[u] = counts[u] - f
  <2>1. counts \in [Upstreams -> Int]
    BY DEF IInv, TypeOK
  <2>2. ASSUME NEW u \in Upstreams, NEW v \in Upstreams PROVE counts[u] - counts[v] <= MaxLead
    <3>1. led[u] - led[v] <= 1 + Cardinality(Owed(v)) /\ led[u] \in Int /\ led[v] \in Int
      BY <1>5, StairIsEven DEF IInv
    <3>2. Cardinality(Owed(v)) \in Nat /\ Cardinality(Owed(v)) <= MaxLead - 2 /\ MaxLead \in Nat
      BY StairIsEven, TasksAssumption, FS_CardinalityType DEF IInv, MaxLead
    <3>3. QED
      BY <1>5, <3>1, <3>2
  <2> HIDE DEF counts
  <2>3. QED
    BY <2>1, <2>2, LevelShifts
<1>7. PICK f \in Int : \A u \in Upstreams : led'[u] = counts[u] - f
  BY <1>2, <1>6
<1>8. TypeOK'
  BY <1>2, <1>6 DEF IInv, TypeOK
<1>9. \A u \in Upstreams : Turns(u)' = IF u < (next % Size) THEN (b - f) + 1 ELSE b - f
  <2> SUFFICES ASSUME NEW u \in Upstreams PROVE Turns(u)' = Turns(u) - f
    BY <1>4
  <2>1. PICK n \in Nat : n = Cardinality(Owed(u))
    BY <1>3
  <2>2. Turns(u)' = led'[u] + (IF u = h THEN n - 1 ELSE n) /\ Turns(u) = led[u] + n
    BY <1>3, <2>1 DEF Turns
  <2>3. QED
    BY <1>5, <1>7, <2>1, <2>2
<1>10. Stair'
  BY <1>2, <1>9, b - f \in Int DEF Stair
<1>11. QED
  BY <1>8, <1>10 DEF IInv

-----------------------------------------------------------------------------

\* In every reachable state the turns, taken and owed, are a stair of one step.
THEOREM Invariance == Spec => []IInv
<1>1. IInv /\ [Next]_vars => IInv'
  <2> SUFFICES ASSUME IInv, [Next]_vars PROVE IInv'
    OBVIOUS
  <2>1. CASE UNCHANGED vars
    <3>1. \A u \in Upstreams : Owed(u)' = Owed(u)
      BY <2>1 DEF vars, Owed
    <3>2. \A u \in Upstreams : Turns(u)' = Turns(u)
      BY <2>1, <3>1 DEF vars, Turns
    <3>3. QED
      BY <2>1, <3>2 DEF vars, IInv, TypeOK, Stair
  <2>2. CASE Next
    BY <2>2, DecidePreserves, FirstCallPreserves DEF Next
  <2>3. QED
    BY <2>1, <2>2
<1>2. QED
  BY InitEstablishes, <1>1, PTL DEF Spec

\* Every chain decide of round_robin.rs hands out is the fleet in its order,
\* once round at most, from some upstream on; the ticket counter stays a usize.
THEOREM TypeCorrect == Spec => []TypeOK
<1>1. IInv => TypeOK
  BY DEF IInv
<1>2. QED
  BY Invariance, <1>1, PTL

\* However the requests that drew tickets are scheduled, and however often the
\* counter of round_robin.rs wraps, one upstream leads another by at most one
\* first call and those that are still owed to the other.
THEOREM EvenTurns == Spec => []TurnsAreEven
<1>1. IInv => TurnsAreEven
  BY StairIsEven DEF IInv, TurnsAreEven
<1>2. QED
  BY Invariance, <1>1, PTL
=============================================================================
