---------------------------- MODULE RankingProofs ----------------------------
(***************************************************************************)
(* What Ranking says of the refresher's window, of the scores and of the   *)
(* ranking itself, for any fleet, any number of requests and any window.   *)
(*                                                                         *)
(* The window. idle[u] is how long u has not been called, in refreshes; a  *)
(* score is the difference between a snapshot and the oldest of the        *)
(* window. The two agree because the window is flat over the last idle[u]  *)
(* snapshots (FlatWhileIdle) and rises just before them, if it reaches     *)
(* that far (RisesBeforeIdle). The requests' side, and how the ranking is  *)
(* sorted, plays no part.                                                  *)
(*                                                                         *)
(* The ranking. Sorted is defined by what a stable sort returns; that      *)
(* there is such an order is SortedIsStable, which rests on the fact that  *)
(* a finite set can be listed in any strict order of it (OrderedListing).  *)
(* From there on the ranking is a permutation, and so is whatever a        *)
(* request is handed of it.                                                *)
(***************************************************************************)
EXTENDS Ranking, FiniteSetTheorems, SequenceTheorems, TLAPS

Types ==
  /\ samples \in Counts
  /\ window \in Seq(Counts) /\ Len(window) \in 1..Ticks
  /\ current \in Counts \cup {None}
  /\ idle \in [Upstreams -> 0..Ticks]

\* Snapshots grow; between any two, not only neighbours.
Grows ==
  \A u \in Upstreams :
    /\ \A i, j \in 1..Len(window) : i <= j => window[i][u] <= window[j][u]
    /\ Latest[u] <= samples[u]
    /\ current # None => Latest[u] <= current[u] /\ current[u] <= samples[u]

FlatWhileIdle ==
  \A u \in Upstreams : \A j \in 1..Len(window) :
    Len(window) - j <= idle[u] => window[j][u] = Latest[u]

RisesBeforeIdle ==
  \A u \in Upstreams : idle[u] + 1 < Ticks =>
    /\ Len(window) >= idle[u] + 2
    /\ window[Len(window) - idle[u] - 1][u] < Latest[u]

IInv ==
  /\ Types
  /\ Grows
  /\ FlatWhileIdle
  /\ RisesBeforeIdle
  /\ ScoresAgeOut

-----------------------------------------------------------------------------

LEMMA SnapshotsAreNotNone == None \notin Counts
BY FleetAssumption DEF None, Counts

LEMMA InitEstablishes == Init => IInv
<1> SUFFICES ASSUME Init PROVE IInv
  OBVIOUS
<1>1. samples \in Counts /\ \A u \in Upstreams : samples[u] = 0
  BY DEF Init, Counts
<1>2. window = <<samples>> /\ Len(window) = 1 /\ window[1] = samples /\ Latest = samples
  BY DEF Init, Latest
<1>3. Ticks \in Nat /\ Ticks >= 1
  BY NumbersAssumption
<1>4. idle = [u \in Upstreams |-> Ticks] /\ current = None
      /\ means = [u \in Upstreams |-> Unscored]
  BY DEF Init
<1>5. Types
  BY <1>1, <1>2, <1>3, <1>4 DEF Types
<1>6. Grows /\ FlatWhileIdle /\ RisesBeforeIdle
  BY <1>1, <1>2, <1>3, <1>4 DEF Grows, FlatWhileIdle, RisesBeforeIdle
<1>7. ScoresAgeOut
  BY <1>4 DEF ScoresAgeOut
<1>8. QED
  BY <1>5, <1>6, <1>7 DEF IInv

\* A request can only count calls.
LEMMA RequestPreserves ==
  ASSUME IInv, NEW t \in Tasks, Request(t)
  PROVE  IInv'
<1>1. UNCHANGED <<window, current, idle, means>>
  BY DEF Request, Load, Decide, Serve
<1>2. samples' \in Counts /\ \A u \in Upstreams : samples[u] <= samples'[u]
  <2>1. CASE UNCHANGED samples
    BY <2>1 DEF IInv, Types, Counts
  <2>2. CASE \E counted : samples' = [u \in Upstreams |-> Counted(u, counted)]
    BY <2>2 DEF IInv, Types, Counts, Counted
  <2>3. QED
    BY <2>1, <2>2 DEF Request, Load, Decide, Serve
<1>3. Types'
  BY <1>1, <1>2 DEF IInv, Types
<1>4. Latest' = Latest
  BY <1>1 DEF Latest
<1>5. \A u \in Upstreams : Latest[u] \in Nat /\ samples[u] \in Nat /\ samples'[u] \in Nat
                           /\ (current # None => current[u] \in Nat)
  BY <1>2 DEF IInv, Types, Counts, Latest
<1>6. Grows'
  BY <1>1, <1>2, <1>4, <1>5 DEF IInv, Grows
<1>7. FlatWhileIdle' /\ RisesBeforeIdle' /\ ScoresAgeOut'
  BY <1>1, <1>4 DEF IInv, FlatWhileIdle, RisesBeforeIdle, ScoresAgeOut
<1>8. QED
  BY <1>3, <1>6, <1>7 DEF IInv

LEMMA ReadPreserves ==
  ASSUME IInv, ReadCounters
  PROVE  IInv'
<1>1. UNCHANGED <<window, samples, idle, means>> /\ current' = samples
  BY DEF ReadCounters
<1>2. Types' /\ Latest' = Latest
  BY <1>1 DEF IInv, Types, Latest
<1>3. \A u \in Upstreams : samples[u] <= samples[u]
  BY DEF IInv, Types, Counts
<1>4. Grows'
  BY <1>1, <1>2, <1>3 DEF IInv, Grows
<1>5. FlatWhileIdle' /\ RisesBeforeIdle' /\ ScoresAgeOut'
  BY <1>1, <1>2 DEF IInv, FlatWhileIdle, RisesBeforeIdle, ScoresAgeOut
<1>6. QED
  BY <1>2, <1>4, <1>5 DEF IInv

\* Window::advance leaves the newest snapshots, at most Ticks of them: counted
\* from the back, snapshot d + 1 is what snapshot d was.
LEMMA AdvanceShifts ==
  ASSUME IInv, current \in Counts, NEW m, m = Advance(window, current)
  PROVE  /\ m \in Seq(Counts) /\ Len(m) \in 1..Ticks
         /\ Len(m) <= Len(window) + 1
         /\ Len(m) = Len(window) + 1 \/ Len(m) = Ticks
         /\ m[Len(m)] = current
         /\ \A j \in 1..(Len(m) - 1) :
              /\ j + Len(window) + 1 - Len(m) \in 1..Len(window)
              /\ m[j] = window[j + Len(window) + 1 - Len(m)]
<1> DEFINE pushed == Append(window, current)
<1>1. window \in Seq(Counts) /\ Len(window) \in 1..Ticks /\ Ticks \in Nat /\ Ticks >= 1
  BY NumbersAssumption DEF IInv, Types
<1>2. /\ pushed \in Seq(Counts) /\ Len(pushed) = Len(window) + 1
      /\ pushed[Len(window) + 1] = current
      /\ \A j \in 1..Len(window) : pushed[j] = window[j]
  BY <1>1
<1>3. CASE Len(pushed) > Ticks
  <2>1. m = Tail(pushed)
    BY <1>3 DEF Advance
  <2>2. Len(window) = Ticks
    BY <1>1, <1>2, <1>3
  <2>3. m \in Seq(Counts) /\ Len(m) = Ticks /\ \A j \in 1..Ticks : m[j] = pushed[j + 1]
    BY <1>1, <1>2, <2>1, <2>2
  <2>4. m[Ticks] = current
    BY <1>1, <1>2, <2>2, <2>3
  <2>5. \A j \in 1..(Ticks - 1) : /\ j + Ticks + 1 - Ticks = j + 1 /\ j + 1 \in 1..Ticks
                                /\ m[j] = window[j + 1]
    BY <1>1, <1>2, <2>2, <2>3
  <2>6. PICK l : l = Len(m) /\ l = Ticks
    BY <2>3
  <2>7. \A j \in 1..(l - 1) : /\ j + Ticks + 1 - l \in 1..Ticks
                            /\ m[j] = window[j + Ticks + 1 - l]
    BY <2>5, <2>6
  <2>8. l \in 1..Ticks /\ l <= Ticks + 1 /\ m[l] = current
    BY <1>1, <2>4, <2>6
  <2>9. QED
    BY <2>2, <2>3, <2>6, <2>7, <2>8
<1>4. CASE ~(Len(pushed) > Ticks)
  <2>1. m = pushed
    BY <1>4 DEF Advance
  <2>2. QED
    BY <1>1, <1>2, <1>4, <2>1
<1>5. QED
  BY <1>3, <1>4

\* A refresh: scores are taken against the oldest snapshot, before it goes.
LEMMA PublishPreserves ==
  ASSUME IInv, NEW score, Publish(score)
  PROVE  IInv'
<1>m. PICK m, n : m = Advance(window, current) /\ n = Len(m)
  OBVIOUS
<1>1. current \in Counts /\ Ticks \in Nat /\ Ticks >= 1 /\ MinSamples \in Nat /\ MinSamples >= 1
  BY NumbersAssumption DEF Publish, IInv, Types
<1>2. /\ m \in Seq(Counts) /\ n \in 1..Ticks
      /\ n <= Len(window) + 1
      /\ n = Len(window) + 1 \/ n = Ticks
      /\ m[n] = current
      /\ \A j \in 1..(n - 1) : /\ j + Len(window) + 1 - n \in 1..Len(window)
                               /\ m[j] = window[j + Len(window) + 1 - n]
  BY <1>m, <1>1, AdvanceShifts
<1>3. /\ window' = [i \in 1..n |-> Less(m[i], Head(m))]
      /\ samples' = Less(samples, Head(m))
      /\ current' = None
      /\ idle' = [u \in Upstreams |->
                    IF current[u] # Latest[u] THEN 0
                    ELSE IF idle[u] < Ticks THEN idle[u] + 1 ELSE Ticks]
      /\ means' = [u \in Upstreams |-> MeanOf(u, score)]
  BY <1>m DEF Publish
<1>4. Head(m) = m[1] /\ Oldest = window[1] /\ Latest = window[Len(window)]
      /\ Len(window) \in 1..Ticks
  BY <1>m, <1>2 DEF Oldest, Latest, IInv, Types
<1>n. PICK w \in Nat : w = Len(window) /\ w >= 1 /\ w <= Ticks /\ n \in Nat /\ n >= 1
  BY <1>1, <1>2, <1>4
<1>s. /\ n <= w + 1
      /\ n = w + 1 \/ n = Ticks
      /\ \A j \in 1..(n - 1) : j + w + 1 - n \in 1..w /\ m[j] = window[j + w + 1 - n]
  BY <1>2, <1>n
<1>5. \A u \in Upstreams :
        /\ samples[u] \in Nat /\ current[u] \in Nat /\ idle[u] \in 0..Ticks
        /\ \A i \in 1..n : m[i][u] \in Nat
        /\ \A i \in 1..Len(window) : window[i][u] \in Nat
  <2>1. (\A i \in 1..n : m[i] \in Counts) /\ \A i \in 1..Len(window) : window[i] \in Counts
    BY <1>m, <1>2 DEF IInv, Types
  <2>2. samples \in Counts /\ idle \in [Upstreams -> 0..Ticks]
    BY DEF IInv, Types
  <2>3. QED
    BY <1>1, <2>1, <2>2 DEF Counts
<1>6. \A u \in Upstreams :
        /\ \A i, j \in 1..n : i <= j => m[i][u] <= m[j][u]
        /\ current[u] <= samples[u]
  <2> SUFFICES ASSUME NEW u \in Upstreams, NEW i \in 1..n, NEW j \in 1..n, i <= j
               PROVE  m[i][u] <= m[j][u] /\ current[u] <= samples[u]
    BY <1>2
  <2>1. current # None
    BY <1>1, SnapshotsAreNotNone
  <2>2. current[u] <= samples[u] /\ Latest[u] <= current[u]
    BY <2>1 DEF IInv, Grows
  <2>3. CASE j = n /\ i = n
    BY <1>5, <2>2, <2>3
  <2>4. CASE j = n /\ i # n
    <3>1. i \in 1..(n - 1)
      BY <1>2, <2>4
    <3>2. PICK k \in 1..Len(window) : m[i] = window[k]
      BY <1>2, <3>1
    <3>3. window[k][u] <= Latest[u]
      BY <1>4, <3>2 DEF IInv, Grows
    <3>4. window[k][u] \in Nat /\ Latest[u] \in Nat /\ current[u] \in Nat
      BY <1>4, <1>5
    <3>5. window[k][u] <= current[u]
      BY <2>2, <3>3, <3>4
    <3>6. QED
      BY <1>2, <2>2, <2>4, <3>2, <3>5
  <2>5. CASE j # n
    <3>1. i \in 1..(n - 1) /\ j \in 1..(n - 1)
      BY <1>2, <2>5
    <3>2. PICK a \in 1..Len(window), b \in 1..Len(window) :
            a <= b /\ m[i] = window[a] /\ m[j] = window[b]
      <4>1. i + Len(window) + 1 - n <= j + Len(window) + 1 - n
        BY <1>2, <1>4, <3>1
      <4>2. QED
        BY <1>2, <3>1, <4>1
    <3>3. QED
      BY <2>2, <3>2 DEF IInv, Grows
  <2>6. QED
    BY <2>3, <2>4, <2>5
<1>7. /\ Len(window') = n
      /\ \A i \in 1..n, u \in Upstreams : window'[i][u] = m[i][u] - m[1][u]
      /\ \A u \in Upstreams : samples'[u] = samples[u] - m[1][u]
      /\ Latest' = window'[n]
  <2>1. Len(window') = n
    BY <1>2, <1>3
  <2>2. \A i \in 1..n, u \in Upstreams : window'[i][u] = m[i][u] - m[1][u]
    BY <1>3, <1>4 DEF Less
  <2>3. \A u \in Upstreams : samples'[u] = samples[u] - m[1][u]
    BY <1>3, <1>4 DEF Less
  <2>4. QED
    BY <2>1, <2>2, <2>3 DEF Latest
<1>8. Types'
  <2>1. ASSUME NEW i \in 1..n PROVE Less(m[i], Head(m)) \in Counts
    <3>1. \A u \in Upstreams : m[i][u] - m[1][u] \in Nat
      BY <1>2, <1>5, <1>6
    <3>2. QED
      BY <1>4, <3>1 DEF Less, Counts
  <2>2. window' \in Seq(Counts)
    BY <1>2, <1>3, <2>1
  <2>3. \A u \in Upstreams : samples[u] - m[1][u] \in Nat
    BY <1>2, <1>5, <1>6
  <2>4. samples' \in Counts
    BY <1>3, <1>4, <2>3 DEF Less, Counts
  <2>5. idle' \in [Upstreams -> 0..Ticks]
    BY <1>1, <1>3, <1>5
  <2>6. QED
    BY <1>2, <1>3, <1>7, <2>2, <2>4, <2>5 DEF Types
<1>9. Grows'
  <2>1. ASSUME NEW u \in Upstreams, NEW i \in 1..n, NEW j \in 1..n, i <= j
        PROVE  window'[i][u] <= window'[j][u]
    <3>1. /\ m[i][u] \in Nat /\ m[j][u] \in Nat /\ m[1][u] \in Nat
          /\ m[i][u] <= m[j][u]
      BY <1>n, <1>2, <1>5, <1>6, <2>1
    <3>2. QED
      BY <1>7, <3>1
  <2>2. ASSUME NEW u \in Upstreams PROVE window'[n][u] <= samples'[u]
    <3>1. /\ m[n][u] \in Nat /\ m[1][u] \in Nat /\ samples[u] \in Nat
          /\ m[n][u] <= samples[u]
      BY <1>n, <1>2, <1>5, <1>6
    <3>2. n \in 1..n
      BY <1>n
    <3>3. QED
      BY <1>7, <3>1, <3>2
  <2>3. QED
    BY <1>3, <1>7, <2>1, <2>2 DEF Grows
<1>10. FlatWhileIdle'
  <2> SUFFICES ASSUME NEW u \in Upstreams, NEW j \in 1..n, n - j <= idle'[u]
               PROVE  m[j][u] = m[n][u]
    <3>1. Len(window') = n /\ Latest' = window'[n] /\ n \in 1..n
      BY <1>n, <1>7
    <3>2. \A v \in Upstreams : \A i \in 1..n : window'[i][v] = m[i][v] - m[1][v]
      BY <1>7
    <3>3. QED
      BY <3>1, <3>2 DEF FlatWhileIdle
  <2>1. CASE j = n
    BY <2>1
  <2>2. CASE j # n
    <3> DEFINE k == j + Len(window) + 1 - n
    <3>1. k \in 1..Len(window) /\ m[j] = window[k]
      BY <1>2, <2>2
    <3>2. current[u] = Latest[u] /\ Len(window) - k <= idle[u]
      <4>1. idle'[u] = IF current[u] # Latest[u] THEN 0
                       ELSE IF idle[u] < Ticks THEN idle[u] + 1 ELSE Ticks
        BY <1>3
      <4>2. PICK a \in Nat, x \in Nat : a = idle[u] /\ x = idle'[u] /\ x <= a + 1
        BY <1>1, <1>5, <4>1
      <4>3. x # 0 /\ n - j <= a + 1
        BY <1>n, <2>2, <4>2
      <4>4. Len(window) - k = n - j - 1
        BY <1>n
      <4>5. QED
        BY <1>n, <4>1, <4>2, <4>3, <4>4
    <3>3. window[k][u] = Latest[u]
      BY <3>1, <3>2 DEF IInv, FlatWhileIdle
    <3>4. QED
      BY <1>2, <3>1, <3>2, <3>3
  <2>3. QED
    BY <2>1, <2>2
<1>11. RisesBeforeIdle'
  <2>1. ASSUME NEW u \in Upstreams, idle'[u] + 1 < Ticks
        PROVE  n >= idle'[u] + 2 /\ m[n - idle'[u] - 1][u] < m[n][u]
    <3>1. CASE current[u] # Latest[u]
      <4>1. idle'[u] = 0 /\ n >= 2
        BY <1>1, <1>2, <1>3, <1>4, <2>1, <3>1
      <4>2. n - 1 \in 1..(n - 1) /\ (n - 1) + w + 1 - n = w
        BY <1>n, <4>1
      <4>3. m[n - 1] = Latest
        BY <1>4, <1>n, <1>s, <4>2
      <4>4. Latest[u] <= current[u] /\ Latest[u] \in Nat /\ current[u] \in Nat
        BY <1>1, <1>4, <1>5, SnapshotsAreNotNone DEF IInv, Grows
      <4>5. Latest[u] < current[u]
        BY <3>1, <4>4
      <4>6. n - idle'[u] - 1 = n - 1
        BY <1>2, <4>1
      <4>7. QED
        BY <1>2, <4>1, <4>3, <4>5, <4>6
    <3>2. CASE current[u] = Latest[u]
      <4>1. idle'[u] = idle[u] + 1 /\ idle[u] + 1 < Ticks
        BY <1>1, <1>3, <1>5, <2>1, <3>2
      <4>2. Len(window) >= idle[u] + 2 /\ window[Len(window) - idle[u] - 1][u] < Latest[u]
        BY <4>1 DEF IInv, RisesBeforeIdle
      <4>3. idle[u] \in Nat
        BY <1>1, <1>5
      <4>4. n >= idle'[u] + 2
        BY <1>1, <1>n, <1>s, <2>1, <4>1, <4>2, <4>3
      <4>d. PICK d \in Nat : d = idle'[u]
        BY <4>1, <4>3
      <4>5. PICK j \in 1..(n - 1) : j = n - idle'[u] - 1
        <5>1. n - d - 1 \in 1..(n - 1)
          BY <1>n, <4>4, <4>d
        <5>2. QED
          BY <4>d, <5>1
      <4>6. j + w + 1 - n = w - idle[u] - 1
        <5>1. d = idle[u] + 1 /\ j = n - d - 1
          BY <4>1, <4>d, <4>5
        <5>2. n \in Nat /\ w \in Nat
          BY <1>n
        <5>3. QED
          BY ONLY <4>3, <5>1, <5>2
      <4>7. m[j] = window[Len(window) - idle[u] - 1]
        BY <1>n, <1>s, <4>6
      <4>8. QED
        BY <1>2, <3>2, <4>2, <4>4, <4>5, <4>7
    <3>3. QED
      BY <3>1, <3>2
  <2>2. ASSUME NEW u \in Upstreams, idle'[u] + 1 < Ticks
        PROVE  n - idle'[u] - 1 \in 1..n /\ m[n - idle'[u] - 1][u] - m[1][u] < m[n][u] - m[1][u]
    <3>1. idle'[u] \in Nat
      BY <1>1, <1>8 DEF Types
    <3>2. n - idle'[u] - 1 \in 1..n /\ m[n - idle'[u] - 1][u] < m[n][u]
      BY <1>1, <1>2, <2>1, <2>2, <3>1
    <3>3. QED
      BY <1>2, <1>5, <3>2
  <2>3. ASSUME NEW u \in Upstreams, idle'[u] + 1 < Ticks
        PROVE  /\ Len(window') >= idle'[u] + 2
               /\ window'[Len(window') - idle'[u] - 1][u] < Latest'[u]
    <3>1. n >= idle'[u] + 2
      BY <2>1, <2>3
    <3>2. PICK a \in 1..n : a = n - idle'[u] - 1 /\ m[a][u] - m[1][u] < m[n][u] - m[1][u]
      BY <2>2, <2>3
    <3>3. Len(window') = n /\ Latest' = window'[n] /\ n \in 1..n
      BY <1>n, <1>7
    <3>4. window'[a][u] = m[a][u] - m[1][u] /\ window'[n][u] = m[n][u] - m[1][u]
      BY <1>7, <3>3
    <3>5. QED
      BY <3>1, <3>2, <3>3, <3>4
  <2>4. QED
    BY <2>3 DEF RisesBeforeIdle
<1>12. ScoresAgeOut'
  <2> SUFFICES ASSUME NEW u \in Upstreams
               PROVE  /\ idle'[u] = Ticks => means'[u] = Unscored
                      /\ MinSamples = 1 /\ idle'[u] # Ticks => means'[u] # Unscored
    BY DEF ScoresAgeOut
  <2>1. u \in Measured <=> current[u] - Oldest[u] >= MinSamples
    BY <1>1, SnapshotsAreNotNone DEF Measured
  <2>2. /\ u \in Measured => means'[u] # Unscored
        /\ u \notin Measured => means'[u] = Unscored
    BY <1>3 DEF MeanOf, Scored, Unscored
  <2>3. Oldest[u] <= Latest[u] /\ Latest[u] <= current[u]
    BY <1>1, <1>4, SnapshotsAreNotNone DEF IInv, Grows
  <2>4. Oldest[u] \in Nat /\ Latest[u] \in Nat /\ current[u] \in Nat
    BY <1>4, <1>5
  <2>5. ASSUME idle'[u] = Ticks PROVE u \notin Measured
    <3>1. current[u] = Latest[u] /\ idle[u] >= Ticks - 1
      BY <1>1, <1>3, <1>5, <2>5
    <3>2. Oldest[u] = Latest[u]
      BY <1>1, <1>4, <1>5, <3>1 DEF IInv, FlatWhileIdle
    <3>3. QED
      BY <1>1, <2>1, <2>4, <3>1, <3>2
  <2>6. ASSUME MinSamples = 1, idle'[u] # Ticks PROVE u \in Measured
    <3>1. CASE current[u] # Latest[u]
      BY <2>1, <2>3, <2>4, <2>6, <3>1
    <3>2. CASE current[u] = Latest[u]
      <4>1. idle[u] + 1 < Ticks
        BY <1>1, <1>3, <1>5, <2>6, <3>2
      <4>2. PICK k \in 1..Len(window) : window[k][u] < Latest[u]
        <5>1. /\ Len(window) >= idle[u] + 2
              /\ window[Len(window) - idle[u] - 1][u] < Latest[u]
          BY <4>1 DEF IInv, RisesBeforeIdle
        <5>2. Len(window) - idle[u] - 1 \in 1..Len(window)
          BY <1>1, <1>4, <1>5, <5>1
        <5>3. QED
          BY <5>1, <5>2
      <4>3. Oldest[u] <= window[k][u]
        BY <1>4 DEF IInv, Grows
      <4>4. QED
        BY <1>5, <2>1, <2>4, <2>6, <3>2, <4>2, <4>3
    <3>3. QED
      BY <3>1, <3>2
  <2>7. QED
    BY <2>2, <2>5, <2>6
<1>13. QED
  BY <1>8, <1>9, <1>10, <1>11, <1>12 DEF IInv

-----------------------------------------------------------------------------

\* The inductive invariant holds in every reachable state.
THEOREM Invariance == Spec => []IInv
<1>1. IInv /\ [Next]_vars => IInv'
  <2> SUFFICES ASSUME IInv, [Next]_vars PROVE IInv'
    OBVIOUS
  <2>1. CASE UNCHANGED vars
    BY <2>1 DEF vars, IInv, Types, Grows, FlatWhileIdle, RisesBeforeIdle, ScoresAgeOut, Latest
  <2>2. CASE Next
    BY <2>2, RequestPreserves, ReadPreserves, PublishPreserves DEF Next, Refresh
  <2>3. QED
    BY <2>1, <2>2
<1>2. QED
  BY InitEstablishes, <1>1, PTL DEF Spec

\* Whatever is counted between a refresh's load of the counters (snapshots of
\* observer/mod.rs) and its next one, the snapshots of a window are in order and
\* Snapshot::diff never saturates: no window loses a call.
THEOREM NoCallIsLost == Spec => []WindowInOrder
<1>1. IInv => WindowInOrder
  BY DEF IInv, Types, Grows, WindowInOrder
<1>2. QED
  BY Invariance, <1>1, PTL

\* Window::advance and refresh of both ranked deciders: an upstream that nobody
\* called for Ticks refreshes has no score, and, with one sample enough, every
\* other upstream has one.
THEOREM ScoresAge == Spec => []ScoresAgeOut
BY Invariance, PTL DEF IInv

-----------------------------------------------------------------------------
(* The ranking *)

\* Of sets that are parts of a finite set, one holds none of the others.
LEMMA SmallestExists ==
  ASSUME NEW S, IsFiniteSet(S), NEW F, F \subseteq SUBSET S, F # {}
  PROVE  \E T \in F : \A U \in F : U \subseteq T => U = T
<1>1. IsWellFoundedOn(StrictSubsetOrdering(S), SUBSET S)
  BY FS_StrictSubsetOrderingWellFounded, FS_FiniteSubsetsOfFinite
<1>2. PICK T \in F : \A U \in F : <<U, T>> \notin StrictSubsetOrdering(S)
  BY <1>1, WFMin
<1>3. QED
  BY <1>2 DEF StrictSubsetOrdering

\* Induction over the subsets of a finite set, with the property as a set: what
\* holds of a set when it holds of all its subsets that lack one element.
LEMMA SubsetInduction ==
  ASSUME NEW S, IsFiniteSet(S), NEW Good,
         \A T \in SUBSET S : (\A x \in T : T \ {x} \in Good) => T \in Good
  PROVE  S \in Good
<1> DEFINE Bad == (SUBSET S) \ Good
<1> SUFFICES ASSUME Bad # {} PROVE FALSE
  OBVIOUS
<1>1. PICK T \in Bad : \A U \in Bad : U \subseteq T => U = T
  <2>1. Bad \subseteq SUBSET S /\ Bad # {}
    OBVIOUS
  <2> HIDE DEF Bad
  <2>2. QED
    BY <2>1, SmallestExists
<1>2. ASSUME NEW x \in T PROVE T \ {x} \in Good
  <2>1. T \ {x} \in SUBSET S /\ T \ {x} # T
    OBVIOUS
  <2>2. QED
    BY <1>1, <2>1
<1>3. QED
  BY <1>1, <1>2

\* A finite set that R orders has a last element.
LEMMA LastExists ==
  ASSUME NEW S, IsFiniteSet(S), S # {}, NEW R,
         \A a, b \in S : a # b => <<a, b>> \in R \/ <<b, a>> \in R,
         \A a, b, c \in S : <<a, b>> \in R /\ <<b, c>> \in R => <<a, c>> \in R,
         \A a \in S : <<a, a>> \notin R
  PROVE  \E m \in S : \A a \in S : a # m => <<a, m>> \in R
<1> DEFINE Above(m) == {a \in S : <<m, a>> \in R}
           Segments == {Above(m) : m \in S}
<1>1. Segments \subseteq SUBSET S
  OBVIOUS
<1>2. Segments # {}
  <2>1. PICK m : m \in S
    OBVIOUS
  <2>2. Above(m) \in Segments
    BY <2>1
  <2>3. QED
    BY <2>2
<1>3. PICK T \in Segments : \A U \in Segments : U \subseteq T => U = T
  <2> HIDE DEF Segments
  <2>1. QED
    BY <1>1, <1>2, SmallestExists
<1>4. PICK m \in S : T = Above(m)
  OBVIOUS
<1>5. ASSUME NEW a \in S, <<m, a>> \in R PROVE FALSE
  <2>1. a \in Above(m) /\ a \notin Above(a)
    BY <1>5
  <2>2. Above(a) \subseteq Above(m)
    BY <1>5
  <2>3. Above(a) \in Segments
    OBVIOUS
  <2> HIDE DEF Segments, Above
  <2>4. QED
    BY <1>3, <1>4, <2>1, <2>2, <2>3
<1>6. QED
  BY <1>5

\* A finite set that R orders can be listed in that order.
LEMMA OrderedListing ==
  ASSUME NEW S, IsFiniteSet(S), NEW R,
         \A a, b \in S : a # b => <<a, b>> \in R \/ <<b, a>> \in R,
         \A a, b, c \in S : <<a, b>> \in R /\ <<b, c>> \in R => <<a, c>> \in R,
         \A a \in S : <<a, a>> \notin R
  PROVE  \E s \in [1..Cardinality(S) -> S] :
           \A i, j \in 1..Cardinality(S) : i < j => <<s[i], s[j]>> \in R
<1> DEFINE Ordered(s, n) == \A i, j \in 1..n : i < j => <<s[i], s[j]>> \in R
           Listed == {T \in SUBSET S : \E s \in [1..Cardinality(T) -> T] :
                                         Ordered(s, Cardinality(T))}
<1>1. ASSUME NEW T \in SUBSET S, \A x \in T : T \ {x} \in Listed
      PROVE  T \in Listed
  <2>1. CASE T = {}
    <3>1. Cardinality(T) = 0 /\ 1..0 = {}
      BY <2>1, FS_EmptySet
    <3>2. [i \in 1..0 |-> 0] \in [1..0 -> T]
      BY <3>1
    <3>3. QED
      BY <3>1, <3>2
  <2>2. CASE T # {}
    <3>1. IsFiniteSet(T)
      BY FS_Subset
    <3>2. PICK m \in T : \A a \in T : a # m => <<a, m>> \in R
      <4>1. \A a \in T : a \in S
        OBVIOUS
      <4>2. /\ \A a, b \in T : a # b => <<a, b>> \in R \/ <<b, a>> \in R
            /\ \A a, b, c \in T : <<a, b>> \in R /\ <<b, c>> \in R => <<a, c>> \in R
            /\ \A a \in T : <<a, a>> \notin R
        BY <4>1
      <4> HIDE DEF Listed
      <4>3. QED
        BY <2>2, <3>1, <4>2, LastExists
    <3>3. PICK n \in Nat : n = Cardinality(T \ {m}) /\ Cardinality(T) = n + 1
      <4>1. IsFiniteSet(T \ {m}) /\ Cardinality(T \ {m}) = Cardinality(T) - 1
        BY <3>1, FS_RemoveElement
      <4>2. Cardinality(T) \in Nat /\ Cardinality(T \ {m}) \in Nat
        BY <3>1, <4>1, FS_CardinalityType
      <4>3. QED
        BY <4>1, <4>2
    <3>4. PICK s \in [1..n -> T \ {m}] : Ordered(s, n)
      BY <1>1, <3>3
    <3> DEFINE t == [i \in 1..(n + 1) |-> IF i = n + 1 THEN m ELSE s[i]]
    <3>5. t \in [1..(n + 1) -> T]
      OBVIOUS
    <3>6. ASSUME NEW i \in 1..(n + 1), NEW j \in 1..(n + 1), i < j
          PROVE  <<t[i], t[j]>> \in R
      <4>1. i \in 1..n /\ t[i] = s[i] /\ s[i] \in T \ {m}
        BY <3>6
      <4>2. CASE j = n + 1
        BY <3>2, <4>1, <4>2
      <4>3. CASE j # n + 1
        BY <3>4, <3>6, <4>1, <4>3
      <4>4. QED
        BY <4>2, <4>3
    <3>7. Ordered(t, n + 1)
      BY <3>6
    <3>8. \E x \in [1..(n + 1) -> T] : Ordered(x, n + 1)
      BY <3>5, <3>7
    <3>9. QED
      BY <3>3, <3>8
  <2>3. QED
    BY <2>1, <2>2
<1>2. S \in Listed
  <2> HIDE DEF Listed
  <2>1. \A T \in SUBSET S : (\A x \in T : T \ {x} \in Listed) => T \in Listed
    BY <1>1
  <2>2. QED
    BY <2>1, SubsetInduction
<1>3. QED
  BY <1>2


\* There is somebody to rank.
LEMMA SizeIsPositive == Size \in Nat \ {0} /\ Challengers \in Nat
<1>1. Size \in Nat
  BY FleetAssumption, FS_CardinalityType DEF Size
<1>2. Size # 0
  BY FleetAssumption, FS_EmptySet DEF Size
<1>3. QED
  BY <1>1, <1>2 DEF Challengers

\* A ranking is a permutation: nobody is left out.
LEMMA EveryoneIsRanked ==
  ASSUME NEW s \in Rankings, NEW u \in Upstreams
  PROVE  /\ Position(u, s) \in 1..Size /\ s[Position(u, s)] = u
         /\ \A i \in 1..Size : s[i] = u => Position(u, s) = i
<1>1. IsFiniteSet(1..Size) /\ Cardinality(1..Size) = Size
  BY SizeIsPositive, FS_Interval
<1>2. s \in Injection(1..Size, Upstreams) /\ DOMAIN s = 1..Size
  BY DEF Rankings, Injection, IsInjective
<1>3. s \in Surjection(1..Size, Upstreams)
  BY <1>1, <1>2, FleetAssumption, FS_Injection DEF Size
<1>4. PICK i \in 1..Size : s[i] = u
  BY <1>3 DEF Surjection
<1>5. QED
  BY <1>2, <1>4 DEF Position, Rankings

\* sort_by returns: there is a stable order, and Sorted is one.
LEMMA SortedIsStable ==
  ASSUME ranking \in Rankings, NEW key \in [Upstreams -> Keys]
  PROVE  /\ Sorted(key) \in Rankings
         /\ \A i, j \in 1..Size : i < j => SortsBefore(Sorted(key)[i], Sorted(key)[j], key)
<1> DEFINE R == {p \in Upstreams \X Upstreams : SortsBefore(p[1], p[2], key)}
<1>1. \A a, b \in Upstreams : <<a, b>> \in R <=> SortsBefore(a, b, key)
  OBVIOUS
<1>2. /\ \A a \in Upstreams : Position(a, ranking) \in Nat
      /\ \A a, b \in Upstreams : Position(a, ranking) = Position(b, ranking) => a = b
  BY EveryoneIsRanked, SizeIsPositive
<1>3. \A a \in Upstreams : /\ key[a].unscored \in BOOLEAN /\ key[a].score \in Nat
                           /\ key[a] = [unscored |-> key[a].unscored, score |-> key[a].score]
  BY DEF Keys
<1>4. \A a, b \in Upstreams : a # b => SortsBefore(a, b, key) \/ SortsBefore(b, a, key)
  BY <1>2, <1>3 DEF SortsBefore, KeyLess
<1>5. \A a, b, c \in Upstreams :
        SortsBefore(a, b, key) /\ SortsBefore(b, c, key) => SortsBefore(a, c, key)
  BY <1>2, <1>3 DEF SortsBefore, KeyLess
<1>6. \A a \in Upstreams : ~SortsBefore(a, a, key)
  BY <1>2, <1>3 DEF SortsBefore, KeyLess
<1>7. PICK s \in [1..Size -> Upstreams] : \A i, j \in 1..Size : i < j => <<s[i], s[j]>> \in R
  <2> HIDE DEF R
  <2>1. /\ \A a, b \in Upstreams : a # b => <<a, b>> \in R \/ <<b, a>> \in R
        /\ \A a, b, c \in Upstreams : <<a, b>> \in R /\ <<b, c>> \in R => <<a, c>> \in R
        /\ \A a \in Upstreams : <<a, a>> \notin R
    BY <1>1, <1>4, <1>5, <1>6
  <2>2. QED
    BY <2>1, FleetAssumption, OrderedListing DEF Size
<1>8. \A i, j \in 1..Size : i < j => SortsBefore(s[i], s[j], key)
  BY <1>1, <1>7
<1>9. s \in Rankings
  <2>1. ASSUME NEW i \in 1..Size, NEW j \in 1..Size, s[i] = s[j] PROVE i = j
    <3>1. ~(i < j) /\ ~(j < i)
      BY <1>6, <1>8, <2>1
    <3>2. QED
      BY <3>1
  <2>2. QED
    BY <2>1 DEF Rankings
<1>10. QED
  BY <1>8, <1>9 DEF Sorted

\* A sort key is scored when its mean is, and then stands for it four or five
\* times.
LEMMA KeysAreMeans ==
  ASSUME ranking \in Rankings, NEW m \in [Upstreams -> Keys], NEW a \in Upstreams
  PROVE  /\ SortKey(a, m[a]) \in Keys
         /\ SortKey(a, m[a]).unscored = m[a].unscored
         /\ m[a].unscored => SortKey(a, m[a]).score = 0
         /\ ~m[a].unscored => SortKey(a, m[a]).score =
              (IF a = ranking[1] THEN 4 * m[a].score ELSE 5 * m[a].score)
<1>1. m[a] \in Keys /\ m[a].score \in Nat /\ m[a].unscored \in BOOLEAN
  BY DEF Keys
<1>2. CASE m[a].unscored
  BY <1>1, <1>2 DEF SortKey, Unscored, Keys
<1>3. CASE ~m[a].unscored
  <2>1. PICK v \in Nat : v = IF a = ranking[1] THEN 4 * m[a].score ELSE 5 * m[a].score
    BY <1>1
  <2>2. SortKey(a, m[a]) = [unscored |-> FALSE, score |-> v]
    BY <1>3, <2>1 DEF SortKey, Scored
  <2>3. [unscored |-> FALSE, score |-> v] \in Keys
    BY <2>1 DEF Keys
  <2>4. m[a].unscored = FALSE
    BY <1>1, <1>3
  <2>5. SortKey(a, m[a]).unscored = FALSE /\ SortKey(a, m[a]).score = v
    BY <2>2
  <2>6. QED
    BY <2>1, <2>2, <2>3, <2>4, <2>5
<1>4. QED
  BY <1>2, <1>3

\* A probe never goes to the head: the position is one of the challengers'.
LEMMA ProbedIsChallenger ==
  ASSUME NEW n \in Nat, Challengers # 0
  PROVE  Probed(n) \in 2..Size
<1>1. ProbeEvery \in Nat \ {0} /\ Challengers \in Nat \ {0} /\ Size = Challengers + 1
  BY SizeIsPositive, NumbersAssumption DEF Challengers
<1>2. PICK q \in Nat : q = n \div ProbeEvery
  BY <1>1
<1>3. (q % Challengers) \in 0..(Challengers - 1)
  BY <1>1
<1>4. QED
  BY <1>1, <1>2, <1>3 DEF Probed

\* A probe is handed the same upstreams in another order.
LEMMA ToFrontIsRanking ==
  ASSUME NEW s \in Rankings, NEW p \in 2..Size
  PROVE  ToFront(s, p) \in Rankings
<1>1. s \in Seq(Upstreams) /\ Len(s) = Size /\ Size \in Nat
  BY SizeIsPositive DEF Rankings
<1>2. /\ SubSeq(s, 1, p - 1) \in Seq(Upstreams) /\ Len(SubSeq(s, 1, p - 1)) = p - 1
      /\ \A i \in 1..(p - 1) : SubSeq(s, 1, p - 1)[i] = s[i]
  BY <1>1
<1>3. /\ SubSeq(s, p + 1, Size) \in Seq(Upstreams) /\ Len(SubSeq(s, p + 1, Size)) = Size - p
      /\ \A i \in 1..(Size - p) : SubSeq(s, p + 1, Size)[i] = s[p + i]
  BY <1>1
<1>4. /\ ToFront(s, p) \in Seq(Upstreams) /\ Len(ToFront(s, p)) = Size
      /\ \A i \in 1..Size : ToFront(s, p)[i] =
           IF i = 1 THEN s[p] ELSE IF i <= p THEN s[i - 1] ELSE s[i]
  <2> DEFINE head == <<s[p]>> \o SubSeq(s, 1, p - 1)
  <2>1. /\ head \in Seq(Upstreams) /\ Len(head) = p
        /\ \A i \in 1..p : head[i] = IF i = 1 THEN s[p] ELSE s[i - 1]
    BY <1>1, <1>2
  <2> HIDE DEF head
  <2>2. /\ head \o SubSeq(s, p + 1, Size) \in Seq(Upstreams)
        /\ Len(head \o SubSeq(s, p + 1, Size)) = Size
        /\ \A i \in 1..Size : (head \o SubSeq(s, p + 1, Size))[i] =
             IF i <= p THEN head[i] ELSE SubSeq(s, p + 1, Size)[i - p]
    <3>1. PICK tail \in Seq(Upstreams) : tail = SubSeq(s, p + 1, Size) /\ Len(tail) = Size - p
      BY <1>3
    <3>2. /\ head \o tail \in Seq(Upstreams)
          /\ Len(head \o tail) = Len(head) + Len(tail)
          /\ \A i \in 1..(Len(head) + Len(tail)) :
               (head \o tail)[i] = IF i <= Len(head) THEN head[i] ELSE tail[i - Len(head)]
      <4>1. head \in Seq(Upstreams)
        BY <2>1
      <4>2. QED
        BY ONLY <4>1, tail \in Seq(Upstreams), SMTT(30)
    <3>3. Len(head) = p /\ Len(head) + Len(tail) = Size
      BY <1>1, <2>1, <3>1
    <3>4. QED
      BY <3>1, <3>2, <3>3
  <2>3. ASSUME NEW i \in 1..Size, i > p PROVE SubSeq(s, p + 1, Size)[i - p] = s[i]
    <3>1. PICK k \in 1..(Size - p) : k = i - p /\ p + k = i
      <4>1. Size \in Nat /\ p \in Nat /\ i \in Nat /\ p < i /\ i <= Size
        BY <1>1, <2>3
      <4>2. i - p \in 1..(Size - p) /\ p + (i - p) = i
        BY ONLY <4>1
      <4>3. QED
        BY <4>2
    <3>2. SubSeq(s, p + 1, Size)[k] = s[p + k]
      BY <1>3
    <3>3. QED
      BY <3>1, <3>2
  <2>4. ToFront(s, p) = head \o SubSeq(s, p + 1, Size)
    BY <1>1 DEF ToFront, head
  <2>5. QED
    BY <1>1, <2>1, <2>2, <2>3, <2>4
<1>5. \A i, j \in 1..Size : ToFront(s, p)[i] = ToFront(s, p)[j] => i = j
  BY <1>1, <1>4 DEF Rankings
<1>6. ToFront(s, p) \in [1..Size -> Upstreams]
  BY <1>4
<1>7. QED
  BY <1>5, <1>6 DEF Rankings

\* What decide hands out.
Handed(chain) ==
  /\ chain \in Seq(Upstreams)
  /\ Len(chain) = IF MaxAttempt < Size THEN MaxAttempt ELSE Size
  /\ \A i, j \in DOMAIN chain : chain[i] = chain[j] => i = j

\* Of a ranking, decide hands out distinct upstreams, and as many as it should.
LEMMA ChainIsHanded ==
  ASSUME NEW order \in Rankings, NEW n \in Nat
  PROVE  Handed(Chain(order, n))
<1>1. PICK s \in Rankings : Chain(order, n) = Take(s, MaxAttempt)
  <2>1. CASE IsProbe(n)
    BY <2>1, ProbedIsChallenger, ToFrontIsRanking DEF Chain, IsProbe
  <2>2. CASE ~IsProbe(n)
    BY <2>2 DEF Chain
  <2>3. QED
    BY <2>1, <2>2
<1>2. s \in Seq(Upstreams) /\ Len(s) = Size /\ Size \in Nat /\ MaxAttempt \in Nat
      /\ \A i, j \in 1..Size : s[i] = s[j] => i = j
  BY SizeIsPositive, NumbersAssumption DEF Rankings
<1>3. PICK l \in 0..Size : l = IF MaxAttempt < Size THEN MaxAttempt ELSE Size
  BY <1>2
<1>4. /\ SubSeq(s, 1, l) \in Seq(Upstreams) /\ Len(SubSeq(s, 1, l)) = l
      /\ \A i \in 1..l : SubSeq(s, 1, l)[i] = s[i]
      /\ DOMAIN SubSeq(s, 1, l) = 1..l
  BY <1>2
<1>5. Take(s, MaxAttempt) = SubSeq(s, 1, l)
  BY <1>2, <1>3 DEF Take
<1>6. QED
  BY <1>1, <1>2, <1>3, <1>4, <1>5 DEF Handed

-----------------------------------------------------------------------------


\* What a request can be at, and with which upstreams.
TaskStates == [at : {"idle", "loaded", "serving"}, order : Seq(Upstreams)]

RankTypes ==
  /\ decider \in Deciders
  /\ ranking \in Rankings
  /\ requests \in 0..(Round - 1)
  /\ task \in [Tasks -> TaskStates]
  /\ means \in [Upstreams -> Keys]
  /\ served \subseteq Upstreams

\* A request that has not decided holds what was published when it loaded.
LoadedAreRankings == \A t \in Tasks : task[t].at = "loaded" => task[t].order \in Rankings

\* A request that has decided holds a chain that decide can hand out.
ServedAreHanded == \A t \in Tasks : task[t].at = "serving" => Handed(task[t].order)

\* Nobody with a score ranks below somebody without.
ScoredRankFirst ==
  \A i, j \in 1..Size :
    i < j /\ means[ranking[i]].unscored => means[ranking[j]].unscored

RankInv ==
  /\ RankTypes
  /\ LoadedAreRankings
  /\ ServedAreHanded
  /\ ScoredRankFirst

\* Requests are numbered modulo a number.
LEMMA RoundIsPositive == Round \in Nat \ {0} /\ MinSamples \in Nat
<1>1. CASE Challengers = 0
  BY <1>1, NumbersAssumption DEF Round
<1>2. CASE Challengers # 0
  <2>1. \A a, b \in Nat \ {0} : a * b \in Nat \ {0}
    OBVIOUS
  <2>2. QED
    BY <1>2, <2>1, SizeIsPositive, NumbersAssumption DEF Round
<1>3. QED
  BY <1>1, <1>2

\* The first ranking is the configured order, and nobody has a score.
LEMMA InitRanks == Init => RankInv
<1> SUFFICES ASSUME Init PROVE RankInv
  OBVIOUS
<1>1. Idle \in TaskStates /\ Idle.at = "idle"
  BY DEF Idle, TaskStates
<1>2. Unscored \in Keys /\ Unscored.unscored
  BY DEF Unscored, Keys
<1>3. QED
  BY <1>1, <1>2, RoundIsPositive, SizeIsPositive
     DEF Init, RankInv, RankTypes, LoadedAreRankings, ServedAreHanded, ScoredRankFirst, Rankings

\* A request that loads or decides works on a ranking, be it an old one.
LEMMA RequestRanks ==
  ASSUME RankInv, NEW t \in Tasks, Request(t)
  PROVE  RankInv'
<1>1. UNCHANGED <<decider, ranking, means>>
  BY DEF Request, Load, Decide, Serve
<1>2. ScoredRankFirst'
  BY <1>1 DEF RankInv, ScoredRankFirst
<1>3. PICK v : task' = [task EXCEPT ![t] = v]
  BY DEF Request, Load, Decide, Serve
<1>4. /\ v \in TaskStates /\ requests' \in 0..(Round - 1) /\ served' \subseteq Upstreams
      /\ v.at = "loaded" => v.order \in Rankings
      /\ v.at = "serving" => Handed(v.order)
  <2>1. CASE Load(t)
    <3>1. /\ task'[t] = [at |-> "loaded", order |-> ranking]
          /\ served' = {} /\ UNCHANGED requests
      BY <2>1 DEF Load, RankInv, RankTypes
    <3>2. ranking \in Rankings /\ ranking \in Seq(Upstreams)
      BY SizeIsPositive DEF RankInv, RankTypes, Rankings
    <3>3. QED
      BY <1>3, <3>1, <3>2 DEF RankInv, RankTypes, TaskStates
  <2>2. CASE Decide(t)
    <3>1. /\ task'[t] = [at |-> "serving", order |-> Chain(task[t].order, requests)]
          /\ UNCHANGED served
          /\ requests' \in {requests, (requests + 1) % Round}
      BY <2>2 DEF Decide, RankInv, RankTypes
    <3>2. Handed(Chain(task[t].order, requests))
      BY <2>2, ChainIsHanded, RoundIsPositive DEF Decide, RankInv, RankTypes, LoadedAreRankings
    <3>3. requests' \in 0..(Round - 1)
      BY <3>1, RoundIsPositive DEF RankInv, RankTypes
    <3>4. QED
      BY <1>3, <3>1, <3>2, <3>3 DEF RankInv, RankTypes, TaskStates, Handed
  <2>3. ASSUME NEW k \in 1..Size, NEW counted, Serve(t, k, counted)
        PROVE  /\ v = Idle /\ UNCHANGED requests /\ served' \subseteq Upstreams
    <3>1. task'[t] = Idle /\ UNCHANGED requests
      BY <2>3 DEF Serve, RankInv, RankTypes
    <3>2. task[t].order \in Seq(Upstreams)
      BY DEF RankInv, RankTypes, TaskStates
    <3>3. served' \subseteq Upstreams
      BY <2>3, <3>2 DEF Serve
    <3>4. QED
      BY <1>3, <3>1, <3>3 DEF RankInv, RankTypes
  <2>4. Idle \in TaskStates /\ Idle.at = "idle"
    BY DEF Idle, TaskStates
  <2>5. QED
    BY <2>1, <2>2, <2>3, <2>4 DEF Request, RankInv, RankTypes
<1>5. RankTypes'
  BY <1>1, <1>3, <1>4 DEF RankInv, RankTypes
<1>6. LoadedAreRankings' /\ ServedAreHanded'
  BY <1>3, <1>4 DEF RankInv, RankTypes, LoadedAreRankings, ServedAreHanded
<1>7. QED
  BY <1>2, <1>5, <1>6 DEF RankInv

\* What a refresh publishes: everyone, in stable order of their new keys.
LEMMA PublishSorts ==
  ASSUME RankInv, NEW score \in [Measured -> Scores], Publish(score)
  PROVE  /\ means' \in [Upstreams -> Keys] /\ ranking' \in Rankings
         /\ \A i, j \in 1..Size : i < j =>
              LET a == ranking'[i]
                  b == ranking'[j]
                  ka == SortKey(a, means'[a])
                  kb == SortKey(b, means'[b])
              IN  \/ KeyLess(ka, kb)
                  \/ ka = kb /\ Position(a, ranking) < Position(b, ranking)
<1> DEFINE key == [u \in Upstreams |-> SortKey(u, means'[u])]
<1>1. means' \in [Upstreams -> Keys]
  <2>1. \A u \in Upstreams : u \in Measured => score[u] \in Nat
    BY NumbersAssumption
  <2>2. \A u \in Upstreams : MeanOf(u, score) \in Keys
    BY <2>1 DEF MeanOf, Scored, Unscored, Keys
  <2>3. QED
    BY <2>2 DEF Publish
<1>2. ranking \in Rankings
  BY DEF RankInv, RankTypes
<1>3. key \in [Upstreams -> Keys]
  BY <1>1, <1>2, KeysAreMeans
<1>4. ranking' = Sorted(key)
  BY DEF Publish
<1> HIDE DEF key
<1>5. /\ ranking' \in Rankings
      /\ \A i, j \in 1..Size : i < j => SortsBefore(ranking'[i], ranking'[j], key)
  BY <1>2, <1>3, <1>4, SortedIsStable
<1>6. \A u \in Upstreams : key[u] = SortKey(u, means'[u])
  BY DEF key
<1>7. \A i \in 1..Size : ranking'[i] \in Upstreams
  BY <1>5 DEF Rankings
<1>8. QED
  BY <1>1, <1>5, <1>6, <1>7 DEF SortsBefore

\* A refresh replaces the ranking and leaves the requests what they loaded.
LEMMA PublishRanks ==
  ASSUME RankInv, NEW score \in [Measured -> Scores], Publish(score)
  PROVE  RankInv'
<1>1. UNCHANGED <<decider, requests, task, served>>
  BY DEF Publish
<1>2. RankTypes'
  BY <1>1, PublishSorts DEF RankInv, RankTypes
<1>3. LoadedAreRankings' /\ ServedAreHanded'
  BY <1>1 DEF RankInv, LoadedAreRankings, ServedAreHanded
<1>4. ScoredRankFirst'
  <2> SUFFICES ASSUME NEW i \in 1..Size, NEW j \in 1..Size, i < j,
                      means'[ranking'[i]].unscored
               PROVE  means'[ranking'[j]].unscored
    BY DEF ScoredRankFirst
  <2>1. PICK a \in Upstreams, b \in Upstreams : a = ranking'[i] /\ b = ranking'[j]
    BY PublishSorts DEF Rankings
  <2>2. \/ KeyLess(SortKey(a, means'[a]), SortKey(b, means'[b]))
        \/ SortKey(a, means'[a]) = SortKey(b, means'[b])
    BY <2>1, PublishSorts
  <2>3. /\ SortKey(a, means'[a]).unscored = means'[a].unscored
        /\ SortKey(b, means'[b]).unscored = means'[b].unscored
    BY PublishSorts, KeysAreMeans DEF RankInv, RankTypes
  <2>4. QED
    BY <2>1, <2>2, <2>3 DEF KeyLess
<1>5. QED
  BY <1>2, <1>3, <1>4 DEF RankInv

\* The published ranking is always a permutation of the fleet, scored upstreams
\* first, and the chains of the requests are cut from such a permutation.
THEOREM RankInvariance == Spec => []RankInv
<1>1. RankInv /\ [Next]_vars => RankInv'
  <2> SUFFICES ASSUME RankInv, [Next]_vars PROVE RankInv'
    OBVIOUS
  <2>1. CASE UNCHANGED <<decider, ranking, requests, task, means, served>>
    BY <2>1 DEF RankInv, RankTypes, LoadedAreRankings, ServedAreHanded, ScoredRankFirst
  <2>2. CASE Next
    <3>1. CASE \E t \in Tasks : Request(t)
      BY <3>1, RequestRanks
    <3>2. CASE ReadCounters
      BY <2>1, <3>2 DEF ReadCounters
    <3>3. CASE \E score \in [Measured -> Scores] : Publish(score)
      BY <3>3, PublishRanks
    <3>4. QED
      BY <2>2, <3>1, <3>2, <3>3 DEF Next, Refresh
  <2>3. QED
    BY <2>1, <2>2 DEF vars
<1>2. QED
  BY InitRanks, <1>1, PTL DEF Spec

\* Whatever is published between a request's load of the ranking and its
\* decision, it is handed distinct upstreams, as many as it asked for or the
\* whole fleet (decide of both refreshers).
THEOREM ChainsDistinct == Spec => []ChainsAreDistinct
<1>1. RankInv => ChainsAreDistinct
  BY DEF RankInv, ServedAreHanded, Handed, ChainsAreDistinct
<1>2. QED
  BY RankInvariance, <1>1, PTL

\* No refresh replaces the head but by an upstream with a score and, if the head
\* has one, a better one by more than PROMOTION_MARGIN.
THEOREM Sticky == Spec => HeadIsSticky
<1> DEFINE Step == ranking'[1] # ranking[1] =>
                     /\ ~means'[ranking'[1]].unscored
                     /\ \/ means'[ranking[1]].unscored
                        \/ 5 * means'[ranking'[1]].score < 4 * means'[ranking[1]].score
<1>1. RankInv /\ [Next]_vars => Step
  <2> SUFFICES ASSUME RankInv, [Next]_vars, ranking'[1] # ranking[1] PROVE Step
    OBVIOUS
  <2>1. PICK score \in [Measured -> Scores] : Publish(score)
    BY DEF Next, vars, Refresh, ReadCounters, Request, Load, Decide, Serve
  <2>2. ranking \in Rankings /\ means' \in [Upstreams -> Keys] /\ ranking' \in Rankings
    BY <2>1, PublishSorts DEF RankInv, RankTypes
  <2>3. 1 \in 1..Size
    BY SizeIsPositive
  <2>4. PICK old \in Upstreams, new \in Upstreams : old = ranking[1] /\ new = ranking'[1]
    BY <2>2, <2>3 DEF Rankings
  <2>5. PICK j \in 1..Size : ranking'[j] = old /\ 1 < j
    BY <2>2, <2>3, <2>4, EveryoneIsRanked, SizeIsPositive
  <2>6. Position(old, ranking) = 1 /\ Position(new, ranking) \in 1..Size
    BY <2>2, <2>3, <2>4, EveryoneIsRanked
  <2>7. KeyLess(SortKey(new, means'[new]), SortKey(old, means'[old]))
    BY <2>1, <2>3, <2>4, <2>5, <2>6, PublishSorts
  <2>8. /\ SortKey(new, means'[new]).unscored = means'[new].unscored
        /\ SortKey(old, means'[old]).unscored = means'[old].unscored
        /\ means'[new].unscored => SortKey(new, means'[new]).score = 0
        /\ means'[old].unscored => SortKey(old, means'[old]).score = 0
        /\ ~means'[new].unscored => SortKey(new, means'[new]).score = 5 * means'[new].score
        /\ ~means'[old].unscored => SortKey(old, means'[old]).score = 4 * means'[old].score
    BY <2>2, <2>4, KeysAreMeans
  <2>9. /\ ~means'[new].unscored
        /\ \/ means'[old].unscored
           \/ SortKey(new, means'[new]).score < SortKey(old, means'[old]).score
    BY <2>7, <2>8 DEF KeyLess
  <2>10. ~means'[new].unscored /\
         (means'[old].unscored \/ 5 * means'[new].score < 4 * means'[old].score)
    BY <2>8, <2>9
  <2>11. QED
    BY <2>4, <2>10
<1>2. QED
  BY RankInvariance, <1>1, PTL DEF Spec, HeadIsSticky

\* No refresh lets an upstream overtake another one that measured as well: the
\* sort is stable and the margin favours the head alone.
THEOREM Earned == Spec => OvertakingIsEarned
<1> DEFINE Step == \A a, b \in Upstreams :
                     /\ Position(a, ranking) < Position(b, ranking)
                     /\ Position(b, ranking') < Position(a, ranking')
                     => KeyLess(means'[b], means'[a])
<1>1. RankInv /\ [Next]_vars => Step
  <2> SUFFICES ASSUME RankInv, [Next]_vars, NEW a \in Upstreams, NEW b \in Upstreams,
                      Position(a, ranking) < Position(b, ranking),
                      Position(b, ranking') < Position(a, ranking')
               PROVE  KeyLess(means'[b], means'[a])
    OBVIOUS
  <2>1. ranking \in Rankings /\ Position(a, ranking) \in Nat /\ Position(b, ranking) \in Nat
    BY EveryoneIsRanked, SizeIsPositive DEF RankInv, RankTypes
  <2>2. ranking' # ranking
    BY <2>1
  <2>3. PICK score \in [Measured -> Scores] : Publish(score)
    BY <2>2 DEF Next, vars, Refresh, ReadCounters, Request, Load, Decide, Serve
  <2>4. means' \in [Upstreams -> Keys] /\ ranking' \in Rankings
    BY <2>3, PublishSorts
  <2>5. PICK i \in 1..Size, j \in 1..Size : ranking'[i] = b /\ ranking'[j] = a /\ i < j
    BY <2>4, EveryoneIsRanked
  <2>6. KeyLess(SortKey(b, means'[b]), SortKey(a, means'[a]))
    BY <2>1, <2>3, <2>5, PublishSorts
  <2>7. b # ranking[1]
    <3>1. 1 \in 1..Size /\ Position(a, ranking) \in 1..Size
      BY <2>1, EveryoneIsRanked, SizeIsPositive
    <3>2. QED
      BY <2>1, <3>1, EveryoneIsRanked
  <2>8. /\ SortKey(a, means'[a]).unscored = means'[a].unscored
        /\ SortKey(b, means'[b]).unscored = means'[b].unscored
        /\ means'[a].unscored => SortKey(a, means'[a]).score = 0
        /\ means'[b].unscored => SortKey(b, means'[b]).score = 0
        /\ ~means'[b].unscored => SortKey(b, means'[b]).score = 5 * means'[b].score
        /\ ~means'[a].unscored =>
             SortKey(a, means'[a]).score \in {4 * means'[a].score, 5 * means'[a].score}
    BY <2>1, <2>4, <2>7, KeysAreMeans
  <2>9. means'[a].score \in Nat /\ means'[b].score \in Nat
    BY <2>4 DEF Keys
  <2>10. ~means'[b].unscored
    BY <2>6, <2>8 DEF KeyLess
  <2>11. CASE means'[a].unscored
    BY <2>10, <2>11 DEF KeyLess
  <2>12. CASE ~means'[a].unscored
    <3>1. SortKey(b, means'[b]).score < SortKey(a, means'[a]).score
      BY <2>6, <2>8, <2>10, <2>12 DEF KeyLess
    <3>2. means'[b].score < means'[a].score
      BY <2>8, <2>9, <2>10, <2>12, <3>1
    <3>3. means'[b].unscored = means'[a].unscored
      BY <2>4, <2>10, <2>12 DEF Keys
    <3>4. QED
      BY <3>2, <3>3 DEF KeyLess
  <2>13. QED
    BY <2>11, <2>12
<1>2. QED
  BY RankInvariance, <1>1, PTL DEF Spec, OvertakingIsEarned

\* Every reachable state has the types of TypeOK: the ranking stays a permutation
\* and no counter or snapshot goes below zero.
THEOREM TypeCorrect == Spec => []TypeOK
<1>1. IInv /\ RankInv => TypeOK
  BY DEF IInv, Types, RankInv, RankTypes, TaskStates, TypeOK
<1>2. QED
  BY Invariance, RankInvariance, <1>1, PTL

\* The windows lose no call, a score stands for the last Ticks refreshes, no more
\* and no fewer, and no upstream with a score ranks below one without: what the
\* refresher publishes covers its window (window.rs, and refresh of both
\* refreshers).
THEOREM CoversTheWindow == Spec => []ScoresCoverTheWindow
<1>1. IInv => ScoresAgeOut
  BY DEF IInv
<1>2. RankInv => ScoredRankFirst
  BY DEF RankInv
<1>3. WindowInOrder /\ ScoresAgeOut /\ ScoredRankFirst => ScoresCoverTheWindow
  BY DEF ScoredRankFirst, ScoresCoverTheWindow
<1>4. QED
  BY Invariance, RankInvariance, NoCallIsLost, <1>1, <1>2, <1>3, PTL
=============================================================================
