----------------------------- MODULE StatsProofs -----------------------------
(***************************************************************************)
(* Snapshots without a lock are torn only by what overlaps them, for any   *)
(* number of writers and calls and any durations.                          *)
(*                                                                         *)
(* A snapshot in progress is read as the one it would be if the rest of    *)
(* its loads were made now (View): a load leaves View as it is, so only    *)
(* calls and their fetch_adds move it. The counters and what the writers   *)
(* have still to add are together the calls (AllRecorded), so View has all *)
(* calls but a part of those being recorded when the snapshot began, and   *)
(* of those that began since: the overlap (Faithful). A complete snapshot  *)
(* stays what it was while the calls grow, and from two of them follow the *)
(* window's counts, times and score, each within its overlaps.             *)
(*                                                                         *)
(* Sums are cardinalities of sets of units (Total), which needs no         *)
(* recursive definition; CostOfIs shows that the fold which the model      *)
(* computes CostOf with is such a sum.                                     *)
(***************************************************************************)
EXTENDS Stats, FiniteSetTheorems, TLAPS

-----------------------------------------------------------------------------
(* Sums *)

\* The sum of g over S, as the number of units that the values are made of.
Units(S, g) == {p \in S \X (Nat \ {0}) : p[2] <= g[p[1]]}
Total(S, g) == Cardinality(Units(S, g))

\* Induction over the elements of a finite set; the property is a set of sets.
LEMMA SetInduction ==
  ASSUME NEW S, IsFiniteSet(S), NEW Good, {} \in Good,
         \A T \in SUBSET S : \A x \in S \ T : T \in Good => T \cup {x} \in Good
  PROVE  S \in Good
<1> DEFINE Bad == (SUBSET S) \ Good
<1> SUFFICES ASSUME Bad # {} PROVE FALSE
  OBVIOUS
<1>1. IsWellFoundedOn(StrictSubsetOrdering(S), SUBSET S)
  BY FS_StrictSubsetOrderingWellFounded, FS_FiniteSubsetsOfFinite
<1>2. PICK T \in Bad : \A U \in Bad : <<U, T>> \notin StrictSubsetOrdering(S)
  BY <1>1, WFMin
<1>3. PICK x : x \in T
  OBVIOUS
<1>4. T \ {x} \in Good
  <2>1. T \ {x} \in SUBSET S /\ T \in SUBSET S /\ T \ {x} # T /\ (T \ {x}) \subseteq T
    BY <1>3
  <2>2. <<T \ {x}, T>> \in StrictSubsetOrdering(S)
    BY <2>1 DEF StrictSubsetOrdering
  <2>3. QED
    BY <1>2, <2>1, <2>2
<1>5. (T \ {x}) \cup {x} = T
  BY <1>3
<1>6. QED
  BY <1>2, <1>3, <1>4, <1>5

\* Adding an element adds its value.
LEMMA UnitsOfOneMore ==
  ASSUME NEW S, NEW x, x \notin S, NEW g, g[x] \in Nat, IsFiniteSet(Units(S, g))
  PROVE  /\ IsFiniteSet(Units(S \cup {x}, g))
         /\ Total(S \cup {x}, g) = Total(S, g) + g[x]
<1>n. PICK n \in Nat : n = g[x]
  OBVIOUS
<1> DEFINE own == {x} \X (1 .. n)
<1>1. Units(S \cup {x}, g) = Units(S, g) \cup own
  BY <1>n DEF Units
<1>2. Units(S, g) \cap own = {}
  BY DEF Units
<1>3. IsFiniteSet(own) /\ Cardinality(own) = n
  <2>1. IsFiniteSet({x}) /\ Cardinality({x}) = 1
    BY FS_Singleton
  <2>2. IsFiniteSet(1 .. n) /\ Cardinality(1 .. n) = n
    BY FS_Interval
  <2>3. IsFiniteSet(own) /\ Cardinality(own) = Cardinality({x}) * Cardinality(1 .. n)
    BY <2>1, <2>2, FS_Product
  <2>4. QED
    BY <2>1, <2>2, <2>3
<1> HIDE DEF own
<1>4. /\ IsFiniteSet(Units(S, g) \cup own)
      /\ Cardinality(Units(S, g) \cup own) = Total(S, g) + n - Cardinality(Units(S, g) \cap own)
  BY <1>3, FS_Union DEF Total
<1>5. Cardinality(Units(S, g) \cap own) = 0 /\ Total(S, g) \in Nat
  BY <1>2, FS_EmptySet, FS_CardinalityType DEF Total
<1>6. Cardinality(Units(S, g) \cup own) = Total(S, g) + n
  BY <1>4, <1>5
<1>7. QED
  BY <1>n, <1>1, <1>4, <1>6 DEF Total

\* A sum of finitely many numbers is a number.
LEMMA UnitsAreFinite ==
  ASSUME NEW S, IsFiniteSet(S), NEW g, \A x \in S : g[x] \in Nat
  PROVE  IsFiniteSet(Units(S, g)) /\ Total(S, g) \in Nat
<1> DEFINE Good == {T \in SUBSET S : IsFiniteSet(Units(T, g))}
<1>1. {} \in Good
  <2>1. Units({}, g) = {}
    BY DEF Units
  <2>2. QED
    BY <2>1, FS_EmptySet
<1>2. \A T \in SUBSET S : \A x \in S \ T : T \in Good => T \cup {x} \in Good
  BY UnitsOfOneMore
<1>3. S \in Good
  <2> HIDE DEF Good
  <2>1. QED
    BY <1>1, <1>2, SetInduction
<1>4. QED
  BY <1>3, FS_CardinalityType DEF Total

\* A sum of nothing.
LEMMA TotalOfNone == ASSUME NEW g PROVE Total({}, g) = 0
<1>1. Units({}, g) = {}
  BY DEF Units
<1>2. QED
  BY <1>1, FS_EmptySet DEF Total

\* One element more, of a set whose values are all numbers.
LEMMA TotalOfOneMore ==
  ASSUME NEW S, IsFiniteSet(S), NEW x, x \notin S, NEW g, \A y \in S \cup {x} : g[y] \in Nat
  PROVE  /\ Total(S \cup {x}, g) = Total(S, g) + g[x]
         /\ Total(S, g) \in Nat /\ g[x] \in Nat
BY UnitsOfOneMore, UnitsAreFinite

\* What is not looked at makes no difference.
LEMMA TotalOfSame ==
  ASSUME NEW S, NEW g, NEW h, \A x \in S : g[x] = h[x]
  PROVE  Total(S, g) = Total(S, h)
<1>1. Units(S, g) = Units(S, h)
  BY DEF Units
<1>2. QED
  BY <1>1 DEF Total

\* Parts add up.
LEMMA TotalOfParts ==
  ASSUME NEW S, NEW T, IsFiniteSet(S), IsFiniteSet(T), S \cap T = {},
         NEW g, \A x \in S \cup T : g[x] \in Nat
  PROVE  Total(S \cup T, g) = Total(S, g) + Total(T, g)
<1>1. Units(S \cup T, g) = Units(S, g) \cup Units(T, g)
  BY DEF Units
<1>2. Units(S, g) \cap Units(T, g) = {}
  BY DEF Units
<1>3. /\ IsFiniteSet(Units(S, g)) /\ Total(S, g) \in Nat
      /\ IsFiniteSet(Units(T, g)) /\ Total(T, g) \in Nat
  BY UnitsAreFinite
<1>4. Cardinality(Units(S, g) \cup Units(T, g)) =
        Cardinality(Units(S, g)) + Cardinality(Units(T, g)) - Cardinality({})
  BY <1>2, <1>3, FS_Union
<1>5. Cardinality({}) = 0
  BY FS_EmptySet
<1>6. PICK a \in Nat, b \in Nat : a = Total(S, g) /\ b = Total(T, g)
  BY <1>3
<1>7. Total(S \cup T, g) = a + b - 0
  BY <1>1, <1>4, <1>5, <1>6 DEF Total
<1>8. QED
  BY <1>6, <1>7

\* Values that are at most m.
LEMMA TotalIsBounded ==
  ASSUME NEW S, IsFiniteSet(S), NEW m \in Nat, NEW g, \A x \in S : g[x] \in 0 .. m
  PROVE  Total(S, g) \in Nat /\ Total(S, g) <= Cardinality(S) * m
<1> DEFINE box == S \X (1 .. m)
<1>1. Units(S, g) \subseteq box
  BY DEF Units
<1>2. IsFiniteSet(1 .. m) /\ Cardinality(1 .. m) = m
  BY FS_Interval
<1>3. IsFiniteSet(box) /\ Cardinality(box) = Cardinality(S) * m
  BY <1>2, FS_Product
<1> HIDE DEF box
<1>4. Units(S, g) \in SUBSET box
  BY <1>1
<1>5. Total(S, g) <= Cardinality(box)
  BY <1>3, <1>4, FS_Subset DEF Total
<1>6. QED
  BY <1>3, <1>5, UnitsAreFinite

\* One value is changed.
LEMMA TotalOfChanged ==
  ASSUME NEW S, IsFiniteSet(S), NEW x \in S, NEW g, NEW h,
         \A y \in S : g[y] \in Nat /\ h[y] \in Nat /\ (y # x => h[y] = g[y])
  PROVE  Total(S, h) = Total(S, g) - g[x] + h[x]
<1> DEFINE T == S \ {x}
<1>1. IsFiniteSet(T) /\ S = T \cup {x} /\ x \notin T
  BY FS_RemoveElement
<1>2. \A y \in T : g[y] = h[y]
  OBVIOUS
<1>3. \A y \in T \cup {x} : g[y] \in Nat /\ h[y] \in Nat
  OBVIOUS
<1> HIDE DEF T
<1>4. Total(T, g) = Total(T, h)
  BY <1>2, TotalOfSame
<1>5. /\ Total(S, g) = Total(T, g) + g[x] /\ Total(T, g) \in Nat /\ g[x] \in Nat
      /\ Total(S, h) = Total(T, h) + h[x] /\ h[x] \in Nat
  BY <1>1, <1>3, TotalOfOneMore
<1>6. QED
  BY <1>4, <1>5

\* Values that are nowhere greater add up to no more.
LEMMA TotalGrows ==
  ASSUME NEW S, IsFiniteSet(S), NEW g, NEW h,
         \A x \in S : g[x] \in Nat /\ h[x] \in Nat /\ g[x] <= h[x]
  PROVE  Total(S, g) <= Total(S, h)
<1>1. Units(S, g) \in SUBSET Units(S, h)
  BY DEF Units
<1>2. IsFiniteSet(Units(S, h))
  BY UnitsAreFinite
<1>3. QED
  BY <1>1, <1>2, FS_Subset DEF Total

\* Where the values are zero nothing is added.
LEMMA TotalOfSupport ==
  ASSUME NEW S, NEW T, T \subseteq S, NEW g, \A x \in S \ T : g[x] = 0
  PROVE  Total(S, g) = Total(T, g)
<1>1. Units(S, g) = Units(T, g)
  BY DEF Units
<1>2. QED
  BY <1>1 DEF Total

-----------------------------------------------------------------------------

\* Of finitely many durations one is the longest.
LEMMA LongestDuration ==
  /\ Max(Durations) \in Durations /\ Max(Durations) \in Nat
  /\ \A d \in Durations : d \in Nat /\ d <= Max(Durations)
<1> DEFINE Above(m) == {n \in Durations : n > m}
           Segments == {Above(m) : m \in Durations}
<1>1. IsWellFoundedOn(StrictSubsetOrdering(Durations), SUBSET Durations)
  BY DurationsAssumption, FS_StrictSubsetOrderingWellFounded, FS_FiniteSubsetsOfFinite
<1>2. Segments \subseteq SUBSET Durations
  OBVIOUS
<1>3. Segments # {}
  <2>1. PICK m : m \in Durations
    BY DurationsAssumption
  <2>2. Above(m) \in Segments
    BY <2>1
  <2>3. QED
    BY <2>2
<1>4. PICK T \in Segments :
        \A U \in Segments : <<U, T>> \notin StrictSubsetOrdering(Durations)
  <2> HIDE DEF Segments
  <2>1. QED
    BY <1>1, <1>2, <1>3, WFMin
<1>5. PICK m \in Durations : T = Above(m)
  OBVIOUS
<1>6. ASSUME NEW n \in Durations, n > m PROVE FALSE
  <2>1. n \in Nat /\ m \in Nat
    BY DurationsAssumption
  <2>2. n \in Above(m) /\ n \notin Above(n)
    BY <1>6, <2>1
  <2>3. ASSUME NEW k \in Above(n) PROVE k \in Above(m)
    <3>1. k \in Nat /\ k > n
      BY DurationsAssumption
    <3>2. k > m
      BY <1>6, <2>1, <3>1
    <3>3. QED
      BY <3>2
  <2>4. Above(n) \in Segments /\ Above(n) \in SUBSET Durations /\ Above(m) \in SUBSET Durations
    OBVIOUS
  <2> HIDE DEF Segments, Above
  <2>5. Above(n) \subseteq Above(m) /\ Above(n) # Above(m)
    BY <2>2, <2>3
  <2>6. <<Above(n), T>> \in StrictSubsetOrdering(Durations)
    BY <1>5, <2>4, <2>5 DEF StrictSubsetOrdering
  <2>7. QED
    BY <1>4, <2>4, <2>6
<1>7. \A n \in Durations : n \in Nat /\ m >= n
  BY <1>6, DurationsAssumption
<1>8. QED
  BY <1>7 DEF Max

-----------------------------------------------------------------------------

\* The most one call adds to a field.
Most(f) == IF f \in {"micros", "retryable_micros"} THEN Max(Durations) ELSE 1

\* What the calls add to field f, and the first n of them together.
Column(f) == [i \in 1 .. Len(calls) |-> Adds(calls[i])[f]]
Recorded(f, n) == Total(1 .. n, Column(f))

\* What the calls being recorded have yet to add to field f; and how many of
\* them have yet to count their outcome.
Left(f)   == Total(Writers, [w \in Writers |-> adds[w][f]])
Uncounted == Total(Writers, [w \in Writers |-> SampleCount(adds[w])])

\* What the snapshot in progress would be if it made the rest of its loads now.
Seen(f) == \E i \in 1 .. loaded : FieldSeq[i] = f
View == [f \in Fields |-> IF Seen(f) THEN reading[f] ELSE stats[f]]

AddsAreParts ==
  \A w \in Writers : /\ \A f \in Fields : adds[w][f] <= Most(f)
                     /\ SampleCount(adds[w]) <= 1

\* Every call is in the counters but for what is still to add.
AllRecorded ==
  /\ \A f \in Fields : stats[f] + Left(f) = Recorded(f, Len(calls))
  /\ SampleCount(stats) + Uncounted = Len(calls)

InOrder ==
  /\ \A f \in Fields : base[f] <= last[f] /\ last[f] <= View[f] /\ View[f] <= stats[f]
  /\ taken["base"].begun <= taken["last"].begun
  /\ taken["last"].begun <= Len(calls)
  /\ loaded > 0 => taken["last"].begun <= taken["reading"].begun

\* v is a snapshot that began and ended as t says, with n calls begun by its end:
\* it has everything of them but what the calls it overlapped can hide.
Faithful(v, t, n) ==
  /\ n \in 0 .. Len(calls)
  /\ t.begun <= n /\ n <= t.begun + t.overlap
  /\ \A f \in Fields : /\ v[f] <= Recorded(f, n)
                       /\ Recorded(f, n) <= v[f] + (t.overlap * Most(f))
  /\ SampleCount(v) <= n /\ n <= SampleCount(v) + t.overlap

\* The older snapshot ended before the later one did.
SnapshotsAreFaithful ==
  /\ \E m, n \in 0 .. Len(calls) : /\ m <= n
                                   /\ Faithful(base, taken["base"], m)
                                   /\ Faithful(last, taken["last"], n)
  /\ loaded > 0 => Faithful(View, taken["reading"], Len(calls))

IInv ==
  /\ TypeOK
  /\ AddsAreParts
  /\ AllRecorded
  /\ InOrder
  /\ SnapshotsAreFaithful

-----------------------------------------------------------------------------
(* The model's operators *)

\* The fields by name, and each of them loaded once.
LEMMA FieldsAre ==
  /\ Fields = {"success", "error", "abandoned", "retryable_failures", "bucket",
               "micros", "retryable_micros"}
  /\ Len(FieldSeq) = 7
  /\ \A i \in 1 .. 7 : FieldSeq[i] \in Fields
  /\ \A i, j \in 1 .. 7 : FieldSeq[i] = FieldSeq[j] => i = j
<1>1. Len(FieldSeq) = 7
  BY DEF FieldSeq
<1>2. /\ FieldSeq[1] = "success" /\ FieldSeq[2] = "error" /\ FieldSeq[3] = "abandoned"
      /\ FieldSeq[4] = "retryable_failures" /\ FieldSeq[5] = "bucket"
      /\ FieldSeq[6] = "micros" /\ FieldSeq[7] = "retryable_micros"
  BY DEF FieldSeq
<1>3. \A i \in 1 .. 7 : i \in {1, 2, 3, 4, 5, 6, 7}
  OBVIOUS
<1>4. Fields = {"success", "error", "abandoned", "retryable_failures", "bucket",
               "micros", "retryable_micros"}
  BY <1>1, <1>2, <1>3 DEF Fields
<1>5. \A i, j \in 1 .. 7 : FieldSeq[i] = FieldSeq[j] => i = j
  BY <1>2, <1>3
<1>6. QED
  BY <1>1, <1>4, <1>5 DEF Fields

\* sample_count is a number.
LEMMA CountsAdd ==
  ASSUME NEW v \in Counts
  PROVE  /\ \A f \in Fields : v[f] \in Nat
         /\ SampleCount(v) \in Nat
         /\ v["success"] \in Nat /\ v["error"] \in Nat /\ v["abandoned"] \in Nat
BY FieldsAre DEF Counts, SampleCount

\* What one call adds.
LEMMA AddsOfCall ==
  ASSUME NEW c \in Calls
  PROVE  /\ Adds(c) \in Counts
         /\ \A f \in Fields : Adds(c)[f] \in 0 .. Most(f)
         /\ SampleCount(Adds(c)) = 1
         /\ Adds(c)["retryable_failures"] <= Adds(c)["error"]
         /\ Adds(c)["retryable_micros"] <= Adds(c)["micros"]
         /\ Cost(c) \in Nat
         /\ Cost(c) + Adds(c)["retryable_micros"] =
              Adds(c)["micros"] + (Adds(c)["retryable_failures"] * Penalty)
<1>1. /\ c.micros \in Nat /\ c.micros <= Max(Durations) /\ c.outcome \in Outcomes
      /\ c.retryable \in BOOLEAN /\ (c.retryable => c.outcome = "error")
      /\ Max(Durations) \in Nat /\ Penalty \in Nat
  BY LongestDuration, NumbersAssumption DEF Calls
<1>2. Retried(c) = IF c.retryable THEN 1 ELSE 0
  BY DEF Retried
<1>3. PICK rm \in Nat : rm = Retried(c) * c.micros /\ rm = IF c.retryable THEN c.micros ELSE 0
  BY <1>1, <1>2
<1>4. /\ Adds(c)["micros"] = c.micros /\ Adds(c)["retryable_micros"] = rm
      /\ Adds(c)["retryable_failures"] = Retried(c)
      /\ Adds(c)["bucket"] \in {0, 1}
      /\ Adds(c)["success"] = IF c.outcome = "success" THEN 1 ELSE 0
      /\ Adds(c)["error"] = IF c.outcome = "error" THEN 1 ELSE 0
      /\ Adds(c)["abandoned"] = IF c.outcome = "abandoned" THEN 1 ELSE 0
  BY <1>1, <1>3, FieldsAre DEF Adds, Outcomes
<1>5. \A f \in Fields : Adds(c)[f] \in 0 .. Most(f)
  BY <1>1, <1>2, <1>3, <1>4, FieldsAre DEF Most
<1>6. Adds(c) \in Counts
  <2>1. \A f \in Fields : Adds(c)[f] \in Nat /\ Most(f) \in Nat
    BY <1>1, <1>5 DEF Most
  <2>2. Adds(c) = [f \in Fields |-> Adds(c)[f]]
    BY DEF Adds
  <2>3. QED
    BY <2>1, <2>2 DEF Counts
<1>7. SampleCount(Adds(c)) = 1
  BY <1>1, <1>4 DEF SampleCount, Outcomes
<1>8. Cost(c) \in Nat /\ Cost(c) + rm = c.micros + (Retried(c) * Penalty)
  BY <1>1, <1>2, <1>3 DEF Cost
<1>9. QED
  BY <1>1, <1>2, <1>3, <1>4, <1>5, <1>6, <1>7, <1>8

\* The most a call adds is a number.
LEMMA MostIs == \A f \in Fields : Most(f) \in Nat
BY LongestDuration DEF Most

\* Every call has its entry in every column.
LEMMA ColumnIs ==
  ASSUME TypeOK, NEW f \in Fields
  PROVE  /\ Len(calls) \in Nat
         /\ \A i \in 1 .. Len(calls) : /\ calls[i] \in Calls
                                       /\ Column(f)[i] = Adds(calls[i])[f]
                                       /\ Column(f)[i] \in Nat
                                       /\ Column(f)[i] \in 0 .. Most(f)
<1>1. calls \in Seq(Calls) /\ Len(calls) \in Nat
  BY DEF TypeOK
<1>2. \A i \in 1 .. Len(calls) : calls[i] \in Calls
  BY <1>1
<1>3. \A i \in 1 .. Len(calls) : Column(f)[i] = Adds(calls[i])[f]
  BY DEF Column
<1>4. \A i \in 1 .. Len(calls) : Adds(calls[i])[f] \in 0 .. Most(f)
  BY <1>2, AddsOfCall
<1>5. QED
  BY <1>1, <1>2, <1>3, <1>4, MostIs

\* The first n calls, and between m and n of them.
LEMMA RecordedIs ==
  ASSUME TypeOK, NEW f \in Fields, NEW m \in 0 .. Len(calls), NEW n \in 0 .. Len(calls), m <= n
  PROVE  /\ Recorded(f, m) \in Nat /\ Recorded(f, n) \in Nat
         /\ Recorded(f, n) = Recorded(f, m) + Total((m + 1) .. n, Column(f))
         /\ Total((m + 1) .. n, Column(f)) \in Nat
         /\ Total((m + 1) .. n, Column(f)) <= (n - m) * Most(f)
<1>1. Len(calls) \in Nat /\ m \in Nat /\ n \in Nat
  BY ColumnIs
<1>2. 1 .. n = (1 .. m) \cup ((m + 1) .. n) /\ (1 .. m) \cap ((m + 1) .. n) = {}
  BY <1>1
<1>3. IsFiniteSet(1 .. m) /\ IsFiniteSet((m + 1) .. n) /\ Cardinality((m + 1) .. n) = n - m
  <2>1. PICK a \in Int : a = m + 1
    BY <1>1
  <2>2. IsFiniteSet(1 .. m) /\ IsFiniteSet(a .. n)
    BY <1>1, FS_Interval
  <2>3. Cardinality(a .. n) = IF a > n THEN 0 ELSE n - a + 1
    BY <1>1, FS_Interval
  <2>4. QED
    BY <1>1, <2>1, <2>2, <2>3
<1>4. /\ \A i \in 1 .. m : Column(f)[i] \in Nat
      /\ \A i \in (m + 1) .. n : Column(f)[i] \in Nat /\ Column(f)[i] \in 0 .. Most(f)
  BY <1>1, ColumnIs
<1>5. Total(1 .. n, Column(f)) = Total(1 .. m, Column(f)) + Total((m + 1) .. n, Column(f))
  BY <1>2, <1>3, <1>4, TotalOfParts
<1>6. Total(1 .. m, Column(f)) \in Nat
  BY <1>3, <1>4, UnitsAreFinite
<1>7. /\ Total((m + 1) .. n, Column(f)) \in Nat
      /\ Total((m + 1) .. n, Column(f)) <= (n - m) * Most(f)
  BY <1>3, <1>4, MostIs, TotalIsBounded
<1>8. QED
  BY <1>5, <1>6, <1>7 DEF Recorded

\* Loading a field shows nothing that View had not.
LEMMA ViewIs ==
  ASSUME TypeOK
  PROVE  /\ View \in Counts
         /\ loaded = 0 => View = stats
         /\ loaded = 7 => View = reading
<1>1. View \in Counts
  BY DEF View, TypeOK, Counts
<1>2. ASSUME loaded = 0 PROVE View = stats
  <2>1. \A f \in Fields : ~Seen(f)
    BY <1>2 DEF Seen
  <2>2. View = [f \in Fields |-> stats[f]]
    BY <2>1 DEF View
  <2>3. QED
    BY <2>2 DEF TypeOK, Counts
<1>3. ASSUME loaded = 7 PROVE View = reading
  <2>1. \A f \in Fields : Seen(f)
    BY <1>3, FieldsAre DEF Seen, Fields
  <2>2. View = [f \in Fields |-> reading[f]]
    BY <2>1 DEF View
  <2>3. QED
    BY <2>2 DEF TypeOK, Counts
<1>4. QED
  BY <1>1, <1>2, <1>3

\* No calls add nothing.
LEMMA NothingRecorded ==
  ASSUME NEW f
  PROVE  Recorded(f, 0) = 0
<1>1. 1 .. 0 = {}
  OBVIOUS
<1>2. QED
  BY <1>1, TotalOfNone DEF Recorded

-----------------------------------------------------------------------------
(* The inductive invariant *)

\* Nothing is recorded yet, and every snapshot is empty.
LEMMA InitEstablishes == Init => IInv
<1> SUFFICES ASSUME Init PROVE IInv
  OBVIOUS
<1>1. /\ stats = Zero /\ base = Zero /\ last = Zero /\ reading = Zero /\ loaded = 0
      /\ calls = <<>> /\ Len(calls) = 0 /\ snapshots = 0
      /\ \A w \in Writers : adds[w] = Zero
  BY DEF Init
<1>2. /\ taken["base"] = [begun |-> 0, overlap |-> 0]
      /\ taken["last"] = [begun |-> 0, overlap |-> 0]
  BY DEF Init
<1>3. Zero \in Counts /\ \A f \in Fields : Zero[f] = 0
  BY DEF Zero, Counts
<1>4. SampleCount(Zero) = 0
  BY <1>3, FieldsAre DEF SampleCount
<1>5. TypeOK
  BY <1>1, <1>3, FieldsAre, NumbersAssumption DEF Init, TypeOK
<1>6. View = stats
  BY <1>1, <1>5, ViewIs
<1>7. AddsAreParts
  BY <1>1, <1>3, <1>4, LongestDuration DEF AddsAreParts, Most
<1>8. AllRecorded
  <2>1. ASSUME NEW g, \A w \in Writers : g[w] = 0 PROVE Total(Writers, g) = 0
    <3>1. Total(Writers, g) = Total({}, g)
      BY <2>1, TotalOfSupport
    <3>2. QED
      BY <3>1, TotalOfNone
  <2>2. \A f \in Fields : Left(f) = 0
    BY <1>1, <1>3, <2>1 DEF Left
  <2>3. Uncounted = 0
    BY <1>1, <1>4, <2>1 DEF Uncounted
  <2>4. \A f \in Fields : Recorded(f, Len(calls)) = 0
    BY <1>1, NothingRecorded
  <2>5. QED
    BY <1>1, <1>3, <1>4, <2>2, <2>3, <2>4 DEF AllRecorded
<1>9. InOrder
  BY <1>1, <1>2, <1>3, <1>6 DEF InOrder
<1>10. Faithful(Zero, [begun |-> 0, overlap |-> 0], 0)
  <2>1. \A f \in Fields : Recorded(f, 0) = 0 /\ Zero[f] = 0 /\ 0 * Most(f) = 0
    BY <1>3, NothingRecorded, MostIs
  <2>2. QED
    BY <1>1, <1>4, <2>1 DEF Faithful
<1>11. SnapshotsAreFaithful
  <2>1. 0 \in 0 .. Len(calls) /\ 0 <= 0
    BY <1>1
  <2>2. /\ Faithful(base, taken["base"], 0) /\ Faithful(last, taken["last"], 0)
        /\ ~(loaded > 0)
    BY <1>1, <1>2, <1>10
  <2>3. QED
    BY <2>1, <2>2 DEF SnapshotsAreFaithful
<1>12. QED
  BY <1>5, <1>7, <1>8, <1>9, <1>11 DEF IInv

\* What was recorded stays so, and a snapshot that is complete stays faithful.
LEMMA PastStays ==
  ASSUME TypeOK, TypeOK', UNCHANGED calls \/ \E c \in Calls : calls' = Append(calls, c)
  PROVE  /\ Len(calls) \in Nat /\ Len(calls') \in Nat /\ Len(calls) <= Len(calls')
         /\ \A f \in Fields : \A n \in 0 .. Len(calls) : Recorded(f, n)' = Recorded(f, n)
         /\ \A n \in 0 .. Len(calls) : \A v, t : Faithful(v, t, n) => Faithful(v, t, n)'
<1>1. /\ calls \in Seq(Calls) /\ calls' \in Seq(Calls)
      /\ Len(calls) \in Nat /\ Len(calls') \in Nat /\ Len(calls) <= Len(calls')
      /\ \A i \in 1 .. Len(calls) : calls'[i] = calls[i]
  <2>1. calls \in Seq(Calls) /\ calls' \in Seq(Calls)
    BY DEF TypeOK
  <2>2. CASE UNCHANGED calls
    BY <2>1, <2>2
  <2>3. CASE \E c \in Calls : calls' = Append(calls, c)
    BY <2>1, <2>3
  <2>4. QED
    BY <2>2, <2>3
<1>2. ASSUME NEW f \in Fields, NEW n \in 0 .. Len(calls)
      PROVE  Recorded(f, n)' = Recorded(f, n)
  <2>1. \A i \in 1 .. n : i \in 1 .. Len(calls) /\ i \in 1 .. Len(calls')
    BY <1>1
  <2>2. \A i \in 1 .. n : Column(f)'[i] = Column(f)[i]
    BY <1>1, <2>1 DEF Column
  <2>3. Total(1 .. n, Column(f)') = Total(1 .. n, Column(f))
    BY <2>2, TotalOfSame
  <2>4. QED
    BY <2>3 DEF Recorded, Total, Units
<1>3. ASSUME NEW n \in 0 .. Len(calls), NEW v, NEW t, Faithful(v, t, n)
      PROVE  Faithful(v, t, n)'
  <2>1. n \in 0 .. Len(calls')
    BY <1>1
  <2>2. QED
    BY <1>2, <1>3, <2>1 DEF Faithful, SampleCount, Most
<1>4. QED
  BY <1>1, <1>2, <1>3

\* A snapshot in progress is lifted by what is recorded meanwhile, and never
\* overtakes it.
LEMMA RecordPreserves ==
  ASSUME IInv, NEW w \in Writers, NEW c \in Calls, Record(w, c)
  PROVE  IInv'
<1>1. /\ adds[w] = Zero /\ adds' = [adds EXCEPT ![w] = Adds(c)]
      /\ calls' = Append(calls, c)
      /\ UNCHANGED <<stats, loaded, reading, base, last, snapshots>>
      /\ taken' = IF loaded = 0 THEN taken ELSE [taken EXCEPT !.reading.overlap = @ + 1]
  BY DEF Record, Busy
<1>2. TypeOK
  BY DEF IInv
<1>3. /\ taken'["base"] = taken["base"] /\ taken'["last"] = taken["last"]
      /\ taken'["reading"].begun = taken["reading"].begun
      /\ loaded > 0 => taken'["reading"].overlap = taken["reading"].overlap + 1
      /\ taken["reading"].overlap \in Nat /\ taken["reading"].begun \in Nat
      /\ loaded \in Nat
      /\ taken' \in [{"base", "last", "reading"} -> [begun : Nat, overlap : Nat]]
  <2>1. /\ taken \in [{"base", "last", "reading"} -> [begun : Nat, overlap : Nat]]
        /\ loaded \in Nat
    BY <1>2, FieldsAre DEF TypeOK
  <2>2. CASE loaded = 0
    BY <1>1, <2>1, <2>2
  <2>3. CASE loaded > 0
    <3>1. PICK r \in [begun : Nat, overlap : Nat] : r = taken["reading"]
      BY <2>1
    <3>2. taken' = [taken EXCEPT !.reading.overlap = @ + 1]
      BY <1>1, <2>3
    <3>3. taken' = [taken EXCEPT !["reading"] = [r EXCEPT !.overlap = r.overlap + 1]]
      BY <3>1, <3>2
    <3>4. taken'["reading"] = [r EXCEPT !.overlap = r.overlap + 1]
      BY <2>1, <3>3
    <3>5. [r EXCEPT !.overlap = r.overlap + 1] \in [begun : Nat, overlap : Nat]
      OBVIOUS
    <3>6. taken' \in [{"base", "last", "reading"} -> [begun : Nat, overlap : Nat]]
      BY <2>1, <3>3, <3>5
    <3>7. taken'["base"] = taken["base"] /\ taken'["last"] = taken["last"]
      BY <2>1, <3>3
    <3>8. QED
      BY <2>1, <2>3, <3>1, <3>4, <3>6, <3>7
  <2>4. QED
    BY <2>1, <2>2, <2>3
<1>4. TypeOK'
  BY <1>1, <1>2, <1>3, AddsOfCall DEF TypeOK
<1>5. PICK l \in Nat : l = Len(calls) /\ Len(calls') = l + 1 /\ calls'[l + 1] = c
  BY <1>1, <1>2 DEF TypeOK
<1>6. View' = View
  BY <1>1 DEF View, Seen
<1>7. AddsAreParts'
  <2>1. \A x \in Writers : adds'[x] = IF x = w THEN Adds(c) ELSE adds[x]
    BY <1>1, <1>2 DEF TypeOK
  <2>2. \A f \in Fields : Adds(c)[f] <= Most(f)
    BY AddsOfCall, MostIs
  <2>3. QED
    BY <2>1, <2>2, AddsOfCall DEF IInv, AddsAreParts
<1>8. /\ \A f \in Fields : \A n \in 0 .. l : Recorded(f, n)' = Recorded(f, n)
      /\ \A n \in 0 .. l : \A v, t : Faithful(v, t, n) => Faithful(v, t, n)'
  BY <1>1, <1>2, <1>4, <1>5, PastStays
<1>9. \A f \in Fields : /\ Recorded(f, l) \in Nat
                        /\ Recorded(f, l + 1)' = Recorded(f, l) + Adds(c)[f]
  <2> SUFFICES ASSUME NEW f \in Fields
               PROVE  /\ Recorded(f, l) \in Nat
                      /\ Recorded(f, l + 1)' = Recorded(f, l) + Adds(c)[f]
    OBVIOUS
  <2>1. /\ \A i \in 1 .. l : Column(f)[i] \in Nat
        /\ \A i \in 1 .. (l + 1) : Column(f)'[i] \in Nat
        /\ \A i \in 1 .. l : Column(f)'[i] = Column(f)[i]
        /\ Column(f)'[l + 1] = Adds(c)[f]
    <3>1. /\ \A i \in 1 .. l : Column(f)[i] = Adds(calls[i])[f]
          /\ \A i \in 1 .. (l + 1) : Column(f)'[i] = Adds(calls'[i])[f]
      BY <1>5 DEF Column
    <3>2. /\ \A i \in 1 .. l : calls[i] \in Calls /\ calls'[i] = calls[i]
          /\ \A i \in 1 .. (l + 1) : calls'[i] \in Calls
      BY <1>1, <1>2, <1>4, <1>5 DEF TypeOK
    <3>3. \A d \in Calls : Adds(d)[f] \in Nat
      BY AddsOfCall, CountsAdd
    <3>4. \A i \in 1 .. l : i \in 1 .. (l + 1)
      BY <1>5
    <3>5. l + 1 \in 1 .. (l + 1)
      BY <1>5
    <3>6. QED
      BY <1>5, <3>1, <3>2, <3>3, <3>4, <3>5
  <2>2. 1 .. (l + 1) = (1 .. l) \cup {l + 1} /\ l + 1 \notin 1 .. l /\ IsFiniteSet(1 .. l)
    BY FS_Interval
  <2>3. /\ Total((1 .. l) \cup {l + 1}, Column(f)') = Total(1 .. l, Column(f)') + Column(f)'[l + 1]
        /\ Total(1 .. l, Column(f)') \in Nat
    <3>1. PICK h : h = Column(f)'
      OBVIOUS
    <3>2. PICK k \in Nat : k = l + 1
      OBVIOUS
    <3>3. \A y \in (1 .. l) \cup {k} : h[y] \in Nat
      BY <2>1, <2>2, <3>1, <3>2
    <3>4. k \notin 1 .. l /\ IsFiniteSet(1 .. l)
      BY <2>2, <3>2
    <3>5. Total((1 .. l) \cup {k}, h) = Total(1 .. l, h) + h[k] /\ Total(1 .. l, h) \in Nat
      BY <3>3, <3>4, TotalOfOneMore
    <3>6. QED
      BY <3>1, <3>2, <3>5 DEF Total, Units
  <2>4. Total(1 .. l, Column(f)') = Total(1 .. l, Column(f))
    BY <2>1, TotalOfSame
  <2>5. QED
    BY <2>1, <2>2, <2>3, <2>4 DEF Recorded, Total, Units
<1>10. \A f \in Fields : Left(f) \in Nat /\ Left(f)' = Left(f) + Adds(c)[f]
  <2> SUFFICES ASSUME NEW f \in Fields
               PROVE  Left(f) \in Nat /\ Left(f)' = Left(f) + Adds(c)[f]
    OBVIOUS
  <2> DEFINE g == [x \in Writers |-> adds[x][f]]
             h == [x \in Writers |-> adds'[x][f]]
  <2>1. \A x \in Writers : g[x] \in Nat /\ h[x] \in Nat /\ (x # w => h[x] = g[x])
    BY <1>1, <1>2, <1>4 DEF TypeOK, Counts
  <2>2. g[w] = 0 /\ h[w] = Adds(c)[f] /\ Adds(c)[f] \in Nat
    BY <1>1, <1>2, AddsOfCall, CountsAdd DEF TypeOK, Zero
  <2> HIDE DEF g, h
  <2>3. Total(Writers, h) = Total(Writers, g) - g[w] + h[w] /\ Total(Writers, g) \in Nat
    BY <2>1, WritersAssumption, TotalOfChanged, UnitsAreFinite
  <2>4. Total(Writers, h) = Total(Writers, g) + Adds(c)[f]
    BY <2>2, <2>3
  <2>5. QED
    BY <2>3, <2>4 DEF Left, Total, Units, g, h
<1>11. Uncounted \in Nat /\ Uncounted' = Uncounted + 1
  <2> DEFINE g == [x \in Writers |-> SampleCount(adds[x])]
             h == [x \in Writers |-> SampleCount(adds'[x])]
  <2>1. \A x \in Writers : g[x] \in Nat /\ h[x] \in Nat /\ (x # w => h[x] = g[x])
    BY <1>1, <1>2, <1>4, CountsAdd DEF TypeOK
  <2>2. g[w] = 0 /\ h[w] = 1
    <3>1. Zero["success"] = 0 /\ Zero["error"] = 0 /\ Zero["abandoned"] = 0
      BY FieldsAre DEF Zero
    <3>2. SampleCount(Zero) = 0
      BY <3>1 DEF SampleCount
    <3>3. adds'[w] = Adds(c)
      BY <1>1, <1>2 DEF TypeOK
    <3>4. g[w] = SampleCount(Zero) /\ h[w] = SampleCount(Adds(c))
      BY <1>1, <3>3
    <3>5. QED
      BY <3>2, <3>4, AddsOfCall
  <2> HIDE DEF g, h
  <2>3. Total(Writers, h) = Total(Writers, g) - g[w] + h[w] /\ Total(Writers, g) \in Nat
    BY <2>1, WritersAssumption, TotalOfChanged, UnitsAreFinite
  <2>4. Total(Writers, h) = Total(Writers, g) + 1
    BY <2>2, <2>3
  <2>5. QED
    BY <2>3, <2>4 DEF Uncounted, Total, Units, g, h, SampleCount
<1>12. AllRecorded'
  <2>1. ASSUME NEW f \in Fields PROVE (stats[f] + Left(f) = Recorded(f, Len(calls)))'
    <3>1. stats[f] + Left(f) = Recorded(f, l) /\ stats[f] \in Nat /\ Adds(c)[f] \in Nat
      BY <1>2, <1>5, AddsOfCall, CountsAdd DEF IInv, AllRecorded, TypeOK
    <3>2. /\ stats'[f] = stats[f] /\ Left(f)' = Left(f) + Adds(c)[f] /\ Left(f) \in Nat
          /\ Recorded(f, l + 1)' = Recorded(f, l) + Adds(c)[f]
      BY <1>1, <1>9, <1>10
    <3>3. (stats[f] + Left(f))' = Recorded(f, l + 1)'
      BY <3>1, <3>2
    <3>4. Recorded(f, Len(calls))' = Recorded(f, l + 1)'
      BY <1>5 DEF Recorded, Total, Units
    <3>5. QED
      BY <3>3, <3>4
  <2>2. (SampleCount(stats) + Uncounted = Len(calls))'
    <3>1. SampleCount(stats) + Uncounted = l /\ SampleCount(stats) \in Nat
      BY <1>2, <1>5, CountsAdd DEF IInv, AllRecorded, TypeOK
    <3>2. SampleCount(stats)' = SampleCount(stats)
      BY <1>1 DEF SampleCount
    <3>3. QED
      BY <1>5, <1>11, <3>1, <3>2
  <2>3. QED
    BY <2>1, <2>2 DEF AllRecorded
<1>13. InOrder'
  <2>1. taken["last"].begun <= l + 1
    BY <1>2, <1>5 DEF IInv, InOrder, TypeOK
  <2>2. QED
    BY <1>1, <1>3, <1>5, <1>6, <2>1 DEF IInv, InOrder
<1>14. SnapshotsAreFaithful'
  <2>1. \A n \in 0 .. l : n \in 0 .. Len(calls')
    BY <1>5
  <2>2. PICK m \in 0 .. l, n \in 0 .. l :
          m <= n /\ Faithful(base, taken["base"], m) /\ Faithful(last, taken["last"], n)
    BY <1>5 DEF IInv, SnapshotsAreFaithful
  <2>3. /\ m \in 0 .. Len(calls') /\ n \in 0 .. Len(calls') /\ m <= n
        /\ Faithful(base, taken["base"], m)' /\ Faithful(last, taken["last"], n)'
    BY <1>1, <1>3, <1>8, <2>1, <2>2
  <2>4. ASSUME loaded > 0 PROVE Faithful(View, taken["reading"], Len(calls))'
    <3>1. PICK o \in Nat, b \in Nat : o = taken["reading"].overlap /\ b = taken["reading"].begun
      BY <1>3
    <3>2. Faithful(View, taken["reading"], l)
      BY <1>5, <2>4 DEF IInv, SnapshotsAreFaithful
    <3>3. /\ b <= l /\ l <= b + o
          /\ \A f \in Fields : /\ View[f] <= Recorded(f, l)
                               /\ Recorded(f, l) <= View[f] + (o * Most(f))
          /\ SampleCount(View) <= l /\ l <= SampleCount(View) + o
      BY <3>1, <3>2 DEF Faithful
    <3>4. View \in Counts
      BY <1>2, ViewIs
    <3>5. ASSUME NEW f \in Fields
          PROVE  /\ View[f] <= Recorded(f, l + 1)'
                 /\ Recorded(f, l + 1)' <= View[f] + ((o + 1) * Most(f))
      <4>1. PICK most \in Nat, p \in Nat :
                 most = Most(f) /\ p = o * most /\ (o + 1) * most = p + most
        BY MostIs
      <4>2. PICK x \in Nat : x = Adds(c)[f] /\ x <= most
        BY <4>1, AddsOfCall
      <4>3. View[f] \in Nat /\ View[f] <= Recorded(f, l) /\ Recorded(f, l) <= View[f] + p
        BY <3>3, <3>4, <4>1, CountsAdd
      <4>4. View[f] <= Recorded(f, l) + x /\ Recorded(f, l) + x <= View[f] + (p + most)
        BY <1>9, <4>2, <4>3
      <4>5. QED
        BY <1>9, <4>1, <4>2, <4>4
    <3>6. SampleCount(View) <= l + 1 /\ l + 1 <= SampleCount(View) + (o + 1)
      BY <3>3, <3>4, CountsAdd
    <3>7. taken'["reading"].overlap = o + 1 /\ taken'["reading"].begun = b
      BY <1>3, <2>4, <3>1
    <3>8. \A f \in Fields : Most(f)' = Most(f)
      BY DEF Most
    <3>9. SampleCount(View)' = SampleCount(View)
      BY <1>6 DEF SampleCount
    <3>10. l + 1 \in 0 .. Len(calls') /\ b <= l + 1 /\ l + 1 <= b + (o + 1)
      BY <1>5, <3>3
    <3>11. QED
      BY <1>5, <1>6, <3>5, <3>6, <3>7, <3>8, <3>9, <3>10 DEF Faithful
  <2>5. QED
    BY <1>1, <2>2, <2>3, <2>4 DEF SnapshotsAreFaithful
<1>15. QED
  BY <1>4, <1>7, <1>12, <1>13, <1>14 DEF IInv

\* More in every field is no fewer samples.
LEMMA SampleGrows ==
  ASSUME NEW u \in Counts, NEW v \in Counts, \A f \in Fields : u[f] <= v[f]
  PROVE  SampleCount(u) <= SampleCount(v)
<1>1. /\ u["success"] <= v["success"] /\ u["error"] <= v["error"]
      /\ u["abandoned"] <= v["abandoned"]
  BY FieldsAre
<1>2. QED
  BY <1>1, CountsAdd DEF SampleCount

\* What is left is a number.
LEMMA LeftIsPart ==
  ASSUME TypeOK
  PROVE  Uncounted \in Nat /\ \A f \in Fields : Left(f) \in Nat
<1>1. ASSUME NEW f \in Fields PROVE Left(f) \in Nat
  <2> DEFINE g == [x \in Writers |-> adds[x][f]]
  <2>1. \A x \in Writers : g[x] \in Nat
    BY DEF TypeOK, Counts
  <2> HIDE DEF g
  <2>2. Total(Writers, g) \in Nat
    BY <2>1, WritersAssumption, UnitsAreFinite
  <2>3. QED
    BY <2>2 DEF Left, g
<1>2. Uncounted \in Nat
  <2> DEFINE g == [x \in Writers |-> SampleCount(adds[x])]
  <2>1. \A x \in Writers : g[x] \in Nat
    BY CountsAdd DEF TypeOK
  <2> HIDE DEF g
  <2>2. Total(Writers, g) \in Nat
    BY <2>1, WritersAssumption, UnitsAreFinite
  <2>3. QED
    BY <2>2 DEF Uncounted, g
<1>3. QED
  BY <1>1, <1>2

\* Only the calls that are being recorded have something left.
LEMMA LeftIsBounded ==
  ASSUME TypeOK, AddsAreParts
  PROVE  /\ Cardinality(Busy) \in Nat
         /\ Uncounted <= Cardinality(Busy)
         /\ \A f \in Fields : Left(f) <= Cardinality(Busy) * Most(f)
<1>1. Busy \subseteq Writers /\ IsFiniteSet(Busy) /\ Cardinality(Busy) \in Nat
  BY WritersAssumption, FS_Subset, FS_CardinalityType DEF Busy
<1>2. ASSUME NEW f \in Fields PROVE Left(f) <= Cardinality(Busy) * Most(f)
  <2> DEFINE g == [x \in Writers |-> adds[x][f]]
  <2>1. \A x \in Writers \ Busy : g[x] = 0
    BY DEF Busy, Zero
  <2>2. \A x \in Busy : g[x] \in 0 .. Most(f)
    BY <1>1, MostIs DEF AddsAreParts, TypeOK, Counts
  <2> HIDE DEF g
  <2>3. Total(Writers, g) = Total(Busy, g)
    BY <1>1, <2>1, TotalOfSupport
  <2>4. Total(Busy, g) <= Cardinality(Busy) * Most(f)
    BY <1>1, <2>2, MostIs, TotalIsBounded
  <2>5. QED
    BY <2>3, <2>4 DEF Left, g
<1>3. Uncounted <= Cardinality(Busy)
  <2> DEFINE g == [x \in Writers |-> SampleCount(adds[x])]
  <2>1. \A x \in Writers \ Busy : g[x] = 0
    BY FieldsAre DEF Busy, Zero, SampleCount
  <2>2. \A x \in Busy : g[x] \in 0 .. 1
    BY <1>1, CountsAdd DEF AddsAreParts, TypeOK
  <2> HIDE DEF g
  <2>3. Total(Writers, g) = Total(Busy, g)
    BY <1>1, <2>1, TotalOfSupport
  <2>4. Total(Busy, g) <= Cardinality(Busy) * 1
    BY <1>1, <2>2, TotalIsBounded
  <2>5. Total(Writers, g) <= Cardinality(Busy)
    BY <1>1, <2>3, <2>4
  <2>6. QED
    BY <2>5 DEF Uncounted, g
<1>4. QED
  BY <1>1, <1>2, <1>3

\* A fetch_add moves its part from what is left to what is there; a snapshot in
\* progress may still see it.
LEMMA FetchAddPreserves ==
  ASSUME IInv, NEW w \in Writers, NEW f \in Fields, FetchAdd(w, f)
  PROVE  IInv'
<1>1. /\ stats' = [stats EXCEPT ![f] = @ + adds[w][f]]
      /\ adds' = [adds EXCEPT ![w][f] = 0]
      /\ UNCHANGED <<loaded, reading, base, last, calls, taken, snapshots>>
  BY DEF FetchAdd
<1>2. TypeOK
  BY DEF IInv
<1>3. PICK a \in Counts : a = adds[w]
  BY <1>2 DEF TypeOK
<1>4. PICK b \in Counts : b = [a EXCEPT ![f] = 0] /\ adds' = [adds EXCEPT ![w] = b]
  <2>1. [a EXCEPT ![f] = 0] \in Counts
    BY DEF Counts
  <2>2. QED
    BY <1>1, <1>3, <2>1
<1>5. /\ \A g \in Fields : b[g] = IF g = f THEN 0 ELSE a[g]
      /\ a[f] \in Nat /\ b[f] = 0
  BY <1>4 DEF Counts
<1>6. /\ stats' \in Counts
      /\ \A g \in Fields : stats'[g] = IF g = f THEN stats[g] + a[f] ELSE stats[g]
  BY <1>1, <1>2, <1>3, <1>5 DEF TypeOK, Counts
<1>7. TypeOK'
  BY <1>1, <1>2, <1>4, <1>6 DEF TypeOK
<1>8. \A x \in Writers : adds'[x] = IF x = w THEN b ELSE adds[x]
  BY <1>2, <1>4 DEF TypeOK
<1>9. AddsAreParts'
  <2>1. \A g \in Fields : b[g] <= a[g]
    BY <1>5, CountsAdd
  <2>2. SampleCount(b) <= SampleCount(a)
    BY <2>1, SampleGrows
  <2>3. \A g \in Fields : b[g] <= Most(g)
    BY <1>3, <1>5, <2>1, CountsAdd, MostIs DEF IInv, AddsAreParts
  <2>4. SampleCount(b) <= 1
    BY <1>3, <2>2, CountsAdd DEF IInv, AddsAreParts
  <2>5. QED
    BY <1>8, <2>3, <2>4 DEF IInv, AddsAreParts, Most, SampleCount
<1>10. \A g \in Fields : Left(g) \in Nat /\ Left(g)' = IF g = f THEN Left(g) - a[f] ELSE Left(g)
  <2> SUFFICES ASSUME NEW g \in Fields
               PROVE  Left(g) \in Nat /\ Left(g)' = IF g = f THEN Left(g) - a[f] ELSE Left(g)
    OBVIOUS
  <2> DEFINE old == [x \in Writers |-> adds[x][g]]
             new == [x \in Writers |-> adds'[x][g]]
  <2>1. \A x \in Writers : old[x] \in Nat /\ new[x] \in Nat /\ (x # w => new[x] = old[x])
    BY <1>2, <1>7, <1>8 DEF TypeOK, Counts
  <2>2. old[w] = a[g] /\ new[w] = b[g] /\ a[g] \in Nat
    BY <1>3, <1>8, CountsAdd
  <2> HIDE DEF old, new
  <2>3. Total(Writers, new) = Total(Writers, old) - old[w] + new[w] /\ Total(Writers, old) \in Nat
    BY <2>1, WritersAssumption, TotalOfChanged, UnitsAreFinite
  <2>4. Total(Writers, new) = IF g = f THEN Total(Writers, old) - a[f] ELSE Total(Writers, old)
    BY <1>5, <2>2, <2>3
  <2>5. QED
    BY <2>3, <2>4 DEF Left, Total, Units, old, new
<1>11. PICK d \in Nat : /\ SampleCount(a) = SampleCount(b) + d
                        /\ SampleCount(stats') = SampleCount(stats) + d
  <2> DEFINE part(g) == IF f = g THEN a[f] ELSE 0
  <2>1. \A g \in Fields : /\ part(g) \in Nat /\ a[g] = b[g] + part(g)
                          /\ stats'[g] = stats[g] + part(g)
    <3> SUFFICES ASSUME NEW g \in Fields
                 PROVE  /\ part(g) \in Nat /\ a[g] = b[g] + part(g)
                        /\ stats'[g] = stats[g] + part(g)
      OBVIOUS
    <3>1. a[g] \in Nat /\ stats[g] \in Nat
      <4>1. stats \in Counts
        BY <1>2 DEF TypeOK
      <4>2. QED
        BY <4>1, CountsAdd
    <3>2. CASE g = f
      BY <1>5, <1>6, <3>1, <3>2
    <3>3. CASE g # f
      BY <1>5, <1>6, <3>1, <3>3
    <3>4. QED
      BY <3>2, <3>3
  <2>2. PICK x \in Nat, y \in Nat, z \in Nat :
          x = part("success") /\ y = part("error") /\ z = part("abandoned")
    BY <2>1, FieldsAre
  <2> HIDE DEF part
  <2>3. /\ a["success"] = b["success"] + x /\ stats'["success"] = stats["success"] + x
        /\ a["error"] = b["error"] + y /\ stats'["error"] = stats["error"] + y
        /\ a["abandoned"] = b["abandoned"] + z /\ stats'["abandoned"] = stats["abandoned"] + z
    BY <2>1, <2>2, FieldsAre
  <2>4. stats \in Counts
    BY <1>2 DEF TypeOK
  <2>5. x + y + z \in Nat
    OBVIOUS
  <2>6. SampleCount(a) = SampleCount(b) + (x + y + z)
    BY <2>3, CountsAdd DEF SampleCount
  <2>7. SampleCount(stats') = SampleCount(stats) + (x + y + z)
    BY <2>3, <2>4, CountsAdd DEF SampleCount
  <2>8. QED
    BY <2>5, <2>6, <2>7
<1>12. Uncounted \in Nat /\ Uncounted' = Uncounted - d
  <2> DEFINE old == [x \in Writers |-> SampleCount(adds[x])]
             new == [x \in Writers |-> SampleCount(adds'[x])]
  <2>1. \A x \in Writers : old[x] \in Nat /\ new[x] \in Nat /\ (x # w => new[x] = old[x])
    BY <1>2, <1>7, <1>8, CountsAdd DEF TypeOK
  <2>2. old[w] = SampleCount(a) /\ new[w] = SampleCount(b)
    BY <1>3, <1>8
  <2> HIDE DEF old, new
  <2>3. Total(Writers, new) = Total(Writers, old) - old[w] + new[w] /\ Total(Writers, old) \in Nat
    BY <2>1, WritersAssumption, TotalOfChanged, UnitsAreFinite
  <2>4. Total(Writers, new) = Total(Writers, old) - d
    BY <1>11, <2>1, <2>2, <2>3, CountsAdd
  <2>5. QED
    BY <2>3, <2>4 DEF Uncounted, Total, Units, old, new, SampleCount
<1>13. /\ Len(calls) \in Nat /\ Len(calls') = Len(calls)
       /\ \A g \in Fields : \A n \in 0 .. Len(calls) : Recorded(g, n)' = Recorded(g, n)
       /\ \A n \in 0 .. Len(calls) : \A v, t : Faithful(v, t, n) => Faithful(v, t, n)'
  BY <1>1, <1>2, <1>7, PastStays
<1>14. AllRecorded'
  <2>1. ASSUME NEW g \in Fields PROVE (stats[g] + Left(g) = Recorded(g, Len(calls)))'
    <3>1. stats[g] + Left(g) = Recorded(g, Len(calls)) /\ stats[g] \in Nat
      BY <1>2, CountsAdd DEF IInv, AllRecorded, TypeOK
    <3>2. Recorded(g, Len(calls))' = Recorded(g, Len(calls))
      BY <1>1, <1>13
    <3>3. stats'[g] + Left(g)' = stats[g] + Left(g)
      BY <1>5, <1>6, <1>10, <3>1
    <3>4. QED
      BY <3>1, <3>2, <3>3
  <2>2. (SampleCount(stats) + Uncounted = Len(calls))'
    <3>1. SampleCount(stats) + Uncounted = Len(calls) /\ SampleCount(stats) \in Nat
      BY <1>2, CountsAdd DEF IInv, AllRecorded, TypeOK
    <3>2. SampleCount(stats)' = SampleCount(stats')
      BY DEF SampleCount
    <3>3. QED
      BY <1>11, <1>12, <1>13, <3>1, <3>2
  <2>3. QED
    BY <2>1, <2>2 DEF AllRecorded
<1>15. /\ View \in Counts /\ View' \in Counts
       /\ \A g \in Fields : View[g] <= View'[g] /\ View'[g] <= stats'[g]
  <2>0. View' \in Counts
    BY <1>7 DEF View, TypeOK, Counts
  <2>1. View \in Counts /\ View' \in Counts
    BY <1>2, <2>0, ViewIs
  <2>2. \A g \in Fields : View[g] <= stats[g]
    BY DEF IInv, InOrder
  <2>3. \A g \in Fields : /\ Seen(g)' <=> Seen(g)
                          /\ View[g] = IF Seen(g) THEN reading[g] ELSE stats[g]
                          /\ View'[g] = IF Seen(g) THEN reading[g] ELSE stats'[g]
    BY <1>1 DEF View, Seen
  <2>4. \A g \in Fields : /\ stats[g] \in Nat /\ stats'[g] \in Nat /\ stats[g] <= stats'[g]
                          /\ View[g] \in Nat
    <3>1. stats \in Counts
      BY <1>2 DEF TypeOK
    <3>2. QED
      BY <1>5, <1>6, <2>1, <3>1, CountsAdd
  <2>5. QED
    BY <2>1, <2>2, <2>3, <2>4
<1>16. InOrder'
  <2>1. \A g \in Fields : /\ last[g] <= View[g]
                          /\ last[g] \in Nat /\ View[g] \in Nat /\ View'[g] \in Nat
    BY <1>2, <1>15, CountsAdd DEF IInv, InOrder, TypeOK
  <2>2. QED
    BY <1>1, <1>15, <2>1 DEF IInv, InOrder
<1>17. SnapshotsAreFaithful'
  <2>1. \E m, n \in 0 .. Len(calls') :
          m <= n /\ Faithful(base, taken["base"], m)' /\ Faithful(last, taken["last"], n)'
    BY <1>1, <1>13 DEF IInv, SnapshotsAreFaithful
  <2>2. ASSUME loaded > 0 PROVE Faithful(View, taken["reading"], Len(calls))'
    <3>1. PICK l \in Nat, t \in [begun : Nat, overlap : Nat] :
            l = Len(calls) /\ t = taken["reading"]
      BY <1>2, <1>13 DEF TypeOK
    <3>2. Faithful(View, t, l)
      BY <2>2, <3>1 DEF IInv, SnapshotsAreFaithful
    <3>3. SampleCount(View') <= l /\ \A g \in Fields : View'[g] <= Recorded(g, l)'
      <4>1. SampleCount(View') <= SampleCount(stats')
        BY <1>6, <1>15, SampleGrows
      <4>2. SampleCount(stats') + Uncounted' = l /\ Uncounted' \in Nat
        <5>1. (SampleCount(stats) + Uncounted = Len(calls))'
          BY <1>14 DEF AllRecorded
        <5>2. adds' \in [Writers -> Counts]
          BY <1>7 DEF TypeOK
        <5> DEFINE new == [x \in Writers |-> SampleCount(adds'[x])]
        <5>3. \A x \in Writers : new[x] \in Nat
          BY <5>2, CountsAdd
        <5> HIDE DEF new
        <5>4. Total(Writers, new) \in Nat
          BY <5>3, WritersAssumption, UnitsAreFinite
        <5>5. Uncounted' \in Nat
          BY <5>4 DEF Uncounted, Total, Units, SampleCount, new
        <5>6. QED
          BY <1>13, <3>1, <5>1, <5>5 DEF SampleCount
      <4>3. SampleCount(View') <= l
        BY <1>6, <1>15, <4>1, <4>2, CountsAdd
      <4>4. ASSUME NEW g \in Fields PROVE View'[g] <= Recorded(g, l)'
        <5>1. stats'[g] + Left(g)' = Recorded(g, l)'
          BY <1>13, <1>14, <3>1 DEF AllRecorded
        <5>2. stats'[g] + Left(g)' = stats[g] + Left(g) /\ Left(g) \in Nat /\ stats[g] \in Nat
          <6>1. stats[g] + Left(g) = Recorded(g, l) /\ Recorded(g, l)' = Recorded(g, l)
            BY <1>13, <3>1 DEF IInv, AllRecorded
          <6>2. stats \in Counts
            BY <1>2 DEF TypeOK
          <6>3. QED
            BY <1>10, <5>1, <6>1, <6>2, CountsAdd
        <5>3. PICK r \in Nat : r = Left(g)'
          <6>1. adds' \in [Writers -> Counts]
            BY <1>7 DEF TypeOK
          <6> DEFINE new == [x \in Writers |-> adds'[x][g]]
          <6>2. \A x \in Writers : new[x] \in Nat
            BY <6>1, CountsAdd
          <6> HIDE DEF new
          <6>3. Total(Writers, new) \in Nat
            BY <6>2, WritersAssumption, UnitsAreFinite
          <6>4. QED
            BY <6>3 DEF Left, Total, Units, new
        <5>4. View'[g] <= stats'[g] /\ View'[g] \in Nat /\ stats'[g] \in Nat
          BY <1>6, <1>15, CountsAdd
        <5>5. QED
          BY <5>1, <5>3, <5>4
      <4>5. QED
        BY <4>3, <4>4
    <3>4. \A g \in Fields : Recorded(g, l)' <= View'[g] + (t.overlap * Most(g))
      <4> SUFFICES ASSUME NEW g \in Fields
                   PROVE  Recorded(g, l)' <= View'[g] + (t.overlap * Most(g))
        OBVIOUS
      <4>1. PICK p \in Nat : p = t.overlap * Most(g)
        BY MostIs
      <4>2. Recorded(g, l) <= View[g] + p /\ Recorded(g, l) \in Nat
        BY <1>2, <1>13, <3>1, <3>2, <4>1, RecordedIs DEF Faithful
      <4>3. View[g] \in Nat /\ View'[g] \in Nat /\ View[g] <= View'[g]
        BY <1>15, CountsAdd
      <4>4. Recorded(g, l)' = Recorded(g, l)
        BY <1>13, <3>1
      <4>5. QED
        BY <4>1, <4>2, <4>3, <4>4
    <3>5. l <= SampleCount(View') + t.overlap
      <4>1. SampleCount(View) <= SampleCount(View')
        BY <1>15, SampleGrows
      <4>2. QED
        BY <1>15, <3>2, <4>1, CountsAdd DEF Faithful
    <3>6. l \in 0 .. Len(calls') /\ t.begun <= l /\ l <= t.begun + t.overlap
      BY <1>1, <3>1, <3>2 DEF Faithful
    <3>7. taken'["reading"] = t /\ Len(calls') = l
      BY <1>1, <3>1
    <3>8. \A g \in Fields : Most(g)' = Most(g)
      BY DEF Most
    <3>9. SampleCount(View)' = SampleCount(View')
      BY DEF SampleCount
    <3>10. QED
      BY <3>3, <3>4, <3>5, <3>6, <3>7, <3>8, <3>9 DEF Faithful
  <2>3. QED
    BY <1>1, <2>1, <2>2 DEF SnapshotsAreFaithful
<1>18. QED
  BY <1>7, <1>9, <1>14, <1>16, <1>17 DEF IInv

\* A load shows nothing that was not visible; the first one begins a snapshot,
\* which all that has been recorded is in.
LEMMA LoadPreserves ==
  ASSUME IInv, Load
  PROVE  IInv'
<1> DEFINE f == FieldSeq[loaded + 1]
<1>1. /\ loaded < 7 /\ loaded' = loaded + 1
      /\ loaded = 0 => snapshots < MaxSnapshots
      /\ reading' = [reading EXCEPT ![f] = stats[f]]
      /\ snapshots' = IF loaded = 0 THEN snapshots + 1 ELSE snapshots
      /\ taken' = IF loaded = 0
                  THEN [taken EXCEPT !.reading = [begun |-> Len(calls),
                                                  overlap |-> Cardinality(Busy)]]
                  ELSE taken
      /\ UNCHANGED <<stats, adds, base, last, calls>>
  BY FieldsAre DEF Load
<1>2. TypeOK
  BY DEF IInv
<1>3. loaded \in 0 .. 6 /\ f \in Fields
  BY <1>1, <1>2, FieldsAre DEF TypeOK
<1>4. PICK l \in Nat, o \in Nat, r \in [begun : Nat, overlap : Nat] :
        /\ l = Len(calls) /\ o = Cardinality(Busy)
        /\ r = [begun |-> l, overlap |-> o]
  <2>1. PICK l \in Nat, o \in Nat : l = Len(calls) /\ o = Cardinality(Busy)
    BY <1>2, LeftIsBounded DEF IInv, TypeOK
  <2>2. [begun |-> l, overlap |-> o] \in [begun : Nat, overlap : Nat]
    OBVIOUS
  <2>3. QED
    BY <2>1, <2>2
<1>5. /\ taken' \in [{"base", "last", "reading"} -> [begun : Nat, overlap : Nat]]
      /\ taken'["base"] = taken["base"] /\ taken'["last"] = taken["last"]
      /\ taken'["reading"] = IF loaded = 0 THEN r ELSE taken["reading"]
  <2>1. taken \in [{"base", "last", "reading"} -> [begun : Nat, overlap : Nat]]
    BY <1>2 DEF TypeOK
  <2>2. taken' = IF loaded = 0 THEN [taken EXCEPT !["reading"] = r] ELSE taken
    BY <1>1, <1>4
  <2>3. QED
    BY <2>1, <2>2
<1>6. TypeOK'
  <2>1. reading' \in Counts
    BY <1>1, <1>2, <1>3 DEF TypeOK, Counts
  <2>2. loaded' \in 0 .. 7
    BY <1>1, <1>3
  <2>3. snapshots' \in 0 .. MaxSnapshots
    <3>1. snapshots \in 0 .. MaxSnapshots /\ MaxSnapshots \in Nat
      BY <1>2, NumbersAssumption DEF TypeOK
    <3>2. CASE loaded = 0
      BY <1>1, <3>1, <3>2
    <3>3. CASE loaded # 0
      BY <1>1, <3>1, <3>3
    <3>4. QED
      BY <3>2, <3>3
  <2>4. QED
    BY <1>1, <1>2, <1>5, <2>1, <2>2, <2>3, FieldsAre DEF TypeOK
<1>7. View' = View
  <2>1. ASSUME NEW g \in Fields PROVE View'[g] = View[g]
    <3>1. Seen(g)' <=> (Seen(g) \/ g = f)
      <4>1. \A i : i \in 1 .. loaded' <=> (i \in 1 .. loaded \/ i = loaded + 1)
        BY <1>1, <1>3
      <4>2. QED
        BY <4>1 DEF Seen
    <3>2. ~Seen(f)
      <4>1. \A i \in 1 .. loaded : i \in 1 .. 7 /\ i # loaded + 1
        BY <1>3
      <4>2. loaded + 1 \in 1 .. 7
        BY <1>3
      <4>3. QED
        BY <4>1, <4>2, FieldsAre DEF Seen
    <3>3. reading \in [Fields -> Nat]
      BY <1>2 DEF TypeOK, Counts
    <3>4. View[g] = IF Seen(g) THEN reading[g] ELSE stats[g]
      BY DEF View
    <3>5. View'[g] = IF Seen(g)' THEN reading'[g] ELSE stats[g]
      BY <1>1 DEF View
    <3>6. reading'[g] = IF g = f THEN stats[g] ELSE reading[g]
      BY <1>1, <3>3
    <3> HIDE DEF f
    <3>7. CASE g = f
      BY <3>1, <3>2, <3>4, <3>5, <3>6, <3>7
    <3>8. CASE g # f
      BY <3>1, <3>4, <3>5, <3>6, <3>8
    <3>9. QED
      BY <3>7, <3>8
  <2>2. View = [g \in Fields |-> View[g]] /\ View' = [g \in Fields |-> View'[g]]
    BY DEF View
  <2>3. [g \in Fields |-> View[g]] = [g \in Fields |-> View'[g]]
    BY <2>1
  <2>4. QED
    BY <2>2, <2>3
<1>8. AddsAreParts' /\ AllRecorded'
  BY <1>1 DEF IInv, AddsAreParts, AllRecorded, Left, Uncounted, Recorded, Column, Total, Units,
              SampleCount, Most
<1>9. InOrder'
  <2>1. taken["last"].begun <= l
    BY <1>4 DEF IInv, InOrder
  <2>2. taken["last"].begun <= taken'["reading"].begun
    <3>1. CASE loaded = 0
      BY <1>4, <1>5, <2>1, <3>1
    <3>2. CASE loaded # 0
      <4>1. loaded > 0
        BY <1>3, <3>2
      <4>2. taken["last"].begun <= taken["reading"].begun
        BY <4>1 DEF IInv, InOrder
      <4>3. QED
        BY <1>5, <3>2, <4>2
    <3>3. QED
      BY <3>1, <3>2
  <2>3. QED
    BY <1>1, <1>5, <1>7, <2>2 DEF IInv, InOrder
<1>10. /\ \A g \in Fields : \A n \in 0 .. l : Recorded(g, n)' = Recorded(g, n)
       /\ \A n \in 0 .. l : \A v, t : Faithful(v, t, n) => Faithful(v, t, n)'
       /\ Len(calls') = l
  BY <1>1, <1>2, <1>4, <1>6, PastStays
<1>11. SnapshotsAreFaithful'
  <2>1. PICK m \in 0 .. l, n \in 0 .. l :
          m <= n /\ Faithful(base, taken["base"], m) /\ Faithful(last, taken["last"], n)
    BY <1>4 DEF IInv, SnapshotsAreFaithful
  <2>2. /\ m \in 0 .. Len(calls') /\ n \in 0 .. Len(calls') /\ m <= n
        /\ Faithful(base, taken["base"], m)' /\ Faithful(last, taken["last"], n)'
    BY <1>1, <1>5, <1>10, <2>1
  <2>3. ASSUME loaded = 0 PROVE Faithful(View, r, l)
    <3>1. View = stats /\ stats \in Counts
      BY <1>2, <2>3, ViewIs DEF TypeOK
    <3>2. /\ Uncounted \in Nat /\ Uncounted <= o
          /\ \A g \in Fields : Left(g) \in Nat /\ Left(g) <= o * Most(g)
      BY <1>2, <1>4, LeftIsPart, LeftIsBounded DEF IInv
    <3>3. SampleCount(stats) + Uncounted = l /\ SampleCount(stats) \in Nat
      BY <1>4, <3>1, CountsAdd DEF IInv, AllRecorded
    <3>4. SampleCount(stats) <= l /\ l <= SampleCount(stats) + o
      BY <3>2, <3>3
    <3>5. ASSUME NEW g \in Fields
          PROVE  stats[g] <= Recorded(g, l) /\ Recorded(g, l) <= stats[g] + (o * Most(g))
      <4>1. PICK p \in Nat : p = o * Most(g)
        BY MostIs
      <4>2. stats[g] + Left(g) = Recorded(g, l) /\ stats[g] \in Nat
        BY <1>4, <3>1, CountsAdd DEF IInv, AllRecorded
      <4>3. Left(g) \in Nat /\ Left(g) <= p
        BY <3>2, <4>1
      <4>4. stats[g] <= Recorded(g, l) /\ Recorded(g, l) <= stats[g] + p
        BY <4>2, <4>3
      <4>5. QED
        BY <4>1, <4>4
    <3>6. r.begun = l /\ r.overlap = o
      BY <1>4
    <3>7. l \in 0 .. Len(calls) /\ l <= l + o
      BY <1>4
    <3>8. QED
      BY <3>1, <3>4, <3>5, <3>6, <3>7 DEF Faithful
  <2>4. Faithful(View, taken'["reading"], l)
    <3>1. CASE loaded = 0
      BY <1>5, <2>3, <3>1
    <3>2. CASE loaded # 0
      <4>1. loaded > 0
        BY <1>3, <3>2
      <4>2. QED
        BY <1>4, <1>5, <3>2, <4>1 DEF IInv, SnapshotsAreFaithful
    <3>3. QED
      BY <3>1, <3>2
  <2>5. l \in 0 .. l
    OBVIOUS
  <2>6. Faithful(View, taken["reading"], Len(calls))'
    <3>1. PICK v, t : v = View /\ t = taken'["reading"]
      OBVIOUS
    <3>2. Faithful(v, t, l)'
      BY <1>10, <2>4, <2>5, <3>1
    <3>3. v = View' /\ t = taken'["reading"] /\ l = Len(calls')
      BY <1>7, <1>10, <3>1
    <3>4. SampleCount(v) = SampleCount(View)'
      BY <3>3 DEF SampleCount
    <3>5. QED
      BY <3>2, <3>3, <3>4 DEF Faithful, SampleCount
  <2>7. QED
    BY <2>1, <2>2, <2>6 DEF SnapshotsAreFaithful
<1>12. QED
  BY <1>6, <1>8, <1>9, <1>11 DEF IInv

\* A snapshot that is complete is what was visible.
LEMMA KeepPreserves ==
  ASSUME IInv, Keep
  PROVE  IInv'
<1>1. /\ loaded = 7 /\ loaded' = 0 /\ reading' = Zero /\ base' = last /\ last' = reading
      /\ taken' = [taken EXCEPT !.base = taken.last, !.last = taken.reading]
      /\ UNCHANGED <<stats, adds, calls, snapshots>>
  BY FieldsAre DEF Keep
<1>2. TypeOK
  BY DEF IInv
<1>3. PICK l \in Nat : l = Len(calls)
  BY <1>2 DEF TypeOK
<1>4. /\ taken' \in [{"base", "last", "reading"} -> [begun : Nat, overlap : Nat]]
      /\ taken'["base"] = taken["last"] /\ taken'["last"] = taken["reading"]
  BY <1>1, <1>2 DEF TypeOK
<1>5. Zero \in Counts
  BY DEF Zero, Counts
<1>6. TypeOK'
  <2>1. {reading, base, last}' \subseteq Counts
    BY <1>1, <1>2, <1>5 DEF TypeOK
  <2>2. QED
    BY <1>1, <1>2, <1>4, <2>1, FieldsAre DEF TypeOK
<1>7. View = last' /\ View' = stats
  <2>1. View = reading
    BY <1>1, <1>2, ViewIs
  <2>2. \A g \in Fields : ~Seen(g)'
    BY <1>1 DEF Seen
  <2>3. View' = [g \in Fields |-> stats[g]]
    BY <1>1, <2>2 DEF View
  <2>4. QED
    BY <1>1, <1>2, <2>1, <2>3 DEF TypeOK, Counts
<1>8. AddsAreParts' /\ AllRecorded'
  BY <1>1 DEF IInv, AddsAreParts, AllRecorded, Left, Uncounted, Recorded, Column, Total, Units,
              SampleCount, Most
<1>9. Faithful(View, taken["reading"], l)
  BY <1>1, <1>3 DEF IInv, SnapshotsAreFaithful
<1>10. InOrder'
  <2>1. taken["last"].begun <= taken["reading"].begun
    BY <1>1 DEF IInv, InOrder
  <2>2. taken["reading"].begun <= l
    BY <1>9 DEF Faithful
  <2>3. \A g \in Fields : last[g] <= View[g] /\ View[g] <= stats[g] /\ stats[g] <= stats[g]
    BY <1>2 DEF IInv, InOrder, TypeOK, Counts
  <2>4. QED
    BY <1>1, <1>3, <1>4, <1>7, <2>1, <2>2, <2>3 DEF InOrder
<1>11. /\ \A n \in 0 .. l : \A v, t : Faithful(v, t, n) => Faithful(v, t, n)'
       /\ Len(calls') = l
  BY <1>1, <1>2, <1>3, <1>6, PastStays
<1>12. SnapshotsAreFaithful'
  <2>1. PICK m \in 0 .. l : Faithful(last, taken["last"], m)
    BY <1>3 DEF IInv, SnapshotsAreFaithful
  <2>2. Faithful(base, taken["base"], m)'
    BY <1>1, <1>4, <1>11, <2>1
  <2>3. Faithful(last, taken["last"], l)'
    BY <1>3, <1>4, <1>7, <1>9, <1>11, l \in 0 .. l
  <2>4. m \in 0 .. Len(calls') /\ l \in 0 .. Len(calls') /\ m <= l
    BY <1>11
  <2>5. QED
    BY <1>1, <2>2, <2>3, <2>4 DEF SnapshotsAreFaithful
<1>13. QED
  BY <1>6, <1>8, <1>10, <1>12 DEF IInv

\* The counters and what is still to add are the calls, the snapshots are in
\* order, and each has all the calls but what it overlapped, in every state.
THEOREM Invariance == Spec => []IInv
<1>1. Init => IInv
  BY InitEstablishes
<1>2. IInv /\ [Next]_vars => IInv'
  <2> SUFFICES ASSUME IInv, [Next]_vars PROVE IInv'
    OBVIOUS
  <2>1. ASSUME NEW w \in Writers, NEW c \in Calls, Record(w, c) PROVE IInv'
    BY <2>1, RecordPreserves
  <2>2. ASSUME NEW w \in Writers, NEW f \in Fields, FetchAdd(w, f) PROVE IInv'
    BY <2>2, FetchAddPreserves
  <2>3. CASE Load
    BY <2>3, LoadPreserves
  <2>4. CASE Keep
    BY <2>4, KeepPreserves
  <2>5. CASE UNCHANGED vars
    <3>1. TypeOK'
      BY <2>5 DEF vars, IInv, TypeOK
    <3>2. AddsAreParts' /\ AllRecorded' /\ InOrder'
      BY <2>5 DEF vars, IInv, AddsAreParts, AllRecorded, InOrder, Left, Uncounted, Recorded,
                  Column, Total, Units, SampleCount, Most, View, Seen
    <3>3. SnapshotsAreFaithful'
      <4>1. UNCHANGED <<calls, base, last, loaded, taken, View>>
        BY <2>5 DEF vars, View, Seen
      <4>2. \A v, t, n : Faithful(v, t, n)' <=> Faithful(v, t, n)
        BY <4>1 DEF Faithful, Recorded, Column, Total, Units, SampleCount, Most
      <4>3. QED
        BY <4>1, <4>2 DEF IInv, SnapshotsAreFaithful
    <3>4. QED
      BY <3>1, <3>2, <3>3 DEF IInv
  <2>6. QED
    BY <2>1, <2>2, <2>3, <2>4, <2>5 DEF Next
<1>3. QED
  BY <1>1, <1>2, PTL DEF Spec

\* Every counter, snapshot and register keeps its type: in particular no field
\* goes below zero and no snapshot loads past the last field.
THEOREM TypeCorrect == Spec => []TypeOK
<1>1. IInv => TypeOK
  BY DEF IInv
<1>2. QED
  BY <1>1, Invariance, PTL

-----------------------------------------------------------------------------
(* What snapshots promise *)

\* The saturating subtraction of Snapshot::diff loses nothing.
LEMMA NeverSaturates ==
  ASSUME TypeOK, InOrder
  PROVE  DiffNeverSaturates
<1>1. ASSUME NEW f \in Fields PROVE base[f] <= last[f] /\ last[f] <= stats[f]
  <2>1. last[f] \in Nat /\ View[f] \in Nat /\ stats[f] \in Nat
    BY ViewIs DEF TypeOK, Counts
  <2>2. base[f] <= last[f] /\ last[f] <= View[f] /\ View[f] <= stats[f]
    BY DEF InOrder
  <2>3. QED
    BY <2>1, <2>2
<1>2. QED
  BY <1>1 DEF DiffNeverSaturates

\* A scrape's histogram is torn by no more than the calls whose recording
\* overlapped it, and what Snapshot::diff makes of two snapshots shows no more
\* retryable failures than failures but for the calls that overlapped either
\* (snapshot.rs): the older snapshot ended at some call, the later at a later
\* one, the calls between them have no more of the one than of the other, and
\* each snapshot adds what it overlapped.
THEOREM Torn == Spec => []TornByOverlapOnly
<1>1. ASSUME IInv PROVE TornByOverlapOnly
  <2>1. TypeOK /\ last \in Counts
    BY <1>1 DEF IInv, TypeOK
  <2>2. PICK m \in 0 .. Len(calls), n \in 0 .. Len(calls) :
          m <= n /\ Faithful(base, taken["base"], m) /\ Faithful(last, taken["last"], n)
    BY <1>1 DEF IInv, SnapshotsAreFaithful
  <2>3. PICK o \in Nat, u \in Nat : o = taken["last"].overlap /\ u = taken["base"].overlap
    BY <2>1 DEF TypeOK
  <2>4. /\ n \in Nat /\ Len(calls) \in Nat /\ 0 \in 0 .. Len(calls) /\ n <= SampleCount(last) + o
        /\ SampleCount(last) \in Nat
    BY <2>1, <2>2, <2>3, CountsAdd DEF Faithful, TypeOK
  <2>5. last["bucket"] <= SampleCount(last) + o
    <3>1. last["bucket"] <= Recorded("bucket", n) /\ last["bucket"] \in Nat
      BY <2>1, <2>2, FieldsAre, CountsAdd DEF Faithful
    <3>2. Most("bucket") = 1
      BY DEF Most
    <3>3. /\ Recorded("bucket", n) = Recorded("bucket", 0) + Total((0 + 1) .. n, Column("bucket"))
          /\ Recorded("bucket", n) \in Nat
          /\ Total((0 + 1) .. n, Column("bucket")) \in Nat
          /\ Total((0 + 1) .. n, Column("bucket")) <= (n - 0) * 1
      BY <2>1, <2>4, <3>2, FieldsAre, RecordedIs
    <3>4. Recorded("bucket", 0) = 0
      BY NothingRecorded
    <3>5. Recorded("bucket", n) <= n
      BY <2>4, <3>3, <3>4
    <3>6. QED
      BY <2>4, <3>1, <3>3, <3>5
  <2> DEFINE d == Diff(last, base)
             R(f) == Recorded(f, n)
             Q(f) == Recorded(f, m)
             T(f) == Total((m + 1) .. n, Column(f))
  <2>6. /\ d["retryable_failures"] = last["retryable_failures"] - base["retryable_failures"]
        /\ d["error"] = last["error"] - base["error"]
        /\ \A f \in Fields : base[f] \in Nat /\ last[f] \in Nat
    <3>1. DiffNeverSaturates /\ base \in Counts
      BY <1>1, <2>1, NeverSaturates DEF IInv, TypeOK
    <3>2. \A f \in Fields : base[f] \in Nat /\ last[f] \in Nat /\ base[f] <= last[f]
      BY <2>1, <3>1, CountsAdd DEF DiffNeverSaturates
    <3>3. \A f \in Fields : d[f] = last[f] - base[f]
      BY <3>2 DEF Diff, Monus
    <3> HIDE DEF d
    <3>4. QED
      BY <3>2, <3>3, FieldsAre
  <2>7. ASSUME NEW f \in {"retryable_failures", "error"}
        PROVE  /\ R(f) \in Nat /\ Q(f) \in Nat /\ T(f) \in Nat /\ R(f) = Q(f) + T(f)
               /\ base[f] <= Q(f) /\ Q(f) <= base[f] + u
               /\ last[f] <= R(f) /\ R(f) <= last[f] + o
    <3>1. f \in Fields /\ Most(f) = 1 /\ u * 1 = u /\ o * 1 = o
      BY FieldsAre DEF Most
    <3>2. R(f) \in Nat /\ Q(f) \in Nat /\ T(f) \in Nat /\ R(f) = Q(f) + T(f)
      BY <2>1, <2>2, <3>1, RecordedIs
    <3>3. /\ base[f] <= Q(f) /\ Q(f) <= base[f] + (u * Most(f))
          /\ last[f] <= R(f) /\ R(f) <= last[f] + (o * Most(f))
      BY <2>2, <2>3, <3>1 DEF Faithful
    <3> HIDE DEF R, Q, T
    <3>4. QED
      BY <3>1, <3>2, <3>3
  <2>8. T("retryable_failures") <= T("error")
    <3>1. \A i \in (m + 1) .. n : i \in 1 .. Len(calls)
      BY <2>4
    <3>2. /\ "retryable_failures" \in Fields /\ "error" \in Fields /\ TypeOK
      BY <2>1, FieldsAre
    <3>3. \A i \in 1 .. Len(calls) :
            /\ calls[i] \in Calls
            /\ Column("retryable_failures")[i] = Adds(calls[i])["retryable_failures"]
            /\ Column("error")[i] = Adds(calls[i])["error"]
            /\ Column("retryable_failures")[i] \in Nat /\ Column("error")[i] \in Nat
      BY <3>2, ColumnIs
    <3>4. \A c \in Calls : Adds(c)["retryable_failures"] <= Adds(c)["error"]
      BY AddsOfCall
    <3>5. PICK g, h, k : g = Column("retryable_failures") /\ h = Column("error") /\ k = m + 1
      OBVIOUS
    <3>6. \A i \in k .. n : g[i] \in Nat /\ h[i] \in Nat /\ g[i] <= h[i]
      BY <3>1, <3>3, <3>4, <3>5
    <3>7. IsFiniteSet(k .. n)
      BY <2>2, <2>4, <3>5, FS_Interval
    <3>8. Total(k .. n, g) <= Total(k .. n, h)
      BY <3>6, <3>7, TotalGrows
    <3>9. QED
      BY <3>5, <3>8
  <2>9. d["retryable_failures"] <= d["error"] + u + o
    <3> HIDE DEF d, R, Q, T
    <3>1. PICK lr \in Nat, br \in Nat, le \in Nat, be \in Nat :
            /\ lr = last["retryable_failures"] /\ br = base["retryable_failures"]
            /\ le = last["error"] /\ be = base["error"]
      BY <2>6, FieldsAre
    <3>2. /\ lr <= R("retryable_failures") /\ Q("retryable_failures") <= br + u
          /\ R("error") <= le + o /\ be <= Q("error")
      BY <2>7, <3>1
    <3>3. PICK rr \in Nat, qr \in Nat, tr \in Nat, re \in Nat, qe \in Nat, te \in Nat :
            /\ rr = R("retryable_failures") /\ qr = Q("retryable_failures")
            /\ tr = T("retryable_failures")
            /\ re = R("error") /\ qe = Q("error") /\ te = T("error")
      BY <2>7
    <3>4. rr = qr + tr /\ re = qe + te /\ tr <= te
      BY <2>7, <2>8, <3>3
    <3>5. lr <= rr /\ qr <= br + u /\ re <= le + o /\ be <= qe
      BY <3>2, <3>3
    <3>6. lr - br <= (le - be) + u + o
      BY <3>4, <3>5
    <3>7. QED
      BY <2>6, <3>1, <3>6
  <2> HIDE DEF d
  <2>10. d["retryable_failures"] <= d["error"] + taken["base"].overlap + taken["last"].overlap
    BY <2>3, <2>9
  <2>11. FiniteBuckets(last) <= SampleCount(last) + taken["last"].overlap
    BY <2>3, <2>5 DEF FiniteBuckets
  <2>12. QED
    BY <2>10, <2>11 DEF d, TornByOverlapOnly
<1>2. QED
  BY <1>1, Invariance, PTL

-----------------------------------------------------------------------------

Costs == [i \in 1 .. Len(calls) |-> Cost(calls[i])]

\* The sum in CostOf, whatever the order it is taken in.
LEMMA CostOfIs ==
  ASSUME TypeOK, NEW I \in SUBSET (1 .. Len(calls)), IsFiniteSet(I)
  PROVE  CostOf(I) = Total(I, Costs)
<1> DEFINE pick(s) == CHOOSE x \in s : TRUE
           IsSum(h) == h = [s \in SUBSET I |-> IF s = {} THEN 0
                                               ELSE Cost(calls[pick(s)]) + h[s \ {pick(s)}]]
           sum == [s \in SUBSET I |-> Total(s, Costs)]
<1>1. CostOf(I) = (CHOOSE h : IsSum(h))[I]
  BY Zenon DEF CostOf, MapThenSumSet, MapThenFoldSet
<1>2. ASSUME NEW s \in SUBSET I, s # {}
      PROVE  /\ pick(s) \in s
             /\ Total(s, Costs) = Cost(calls[pick(s)]) + Total(s \ {pick(s)}, Costs)
             /\ IsFiniteSet(s \ {pick(s)})
  <2>1. PICK x : x = pick(s) /\ x \in s
    BY <1>2
  <2>2. x \in 1 .. Len(calls)
    BY <2>1
  <2>3. s = (s \ {x}) \cup {x} /\ x \notin s \ {x} /\ IsFiniteSet(s \ {x})
    BY <2>1, FS_Subset
  <2>4. \A y \in 1 .. Len(calls) : Costs[y] = Cost(calls[y]) /\ Costs[y] \in Nat
    <3>1. \A y \in 1 .. Len(calls) : calls[y] \in Calls
      BY DEF TypeOK
    <3>2. QED
      BY <3>1, AddsOfCall DEF Costs
  <2>5. \A y \in (s \ {x}) \cup {x} : Costs[y] \in Nat
    BY <2>2, <2>4
  <2>6. /\ Total((s \ {x}) \cup {x}, Costs) = Total(s \ {x}, Costs) + Costs[x]
        /\ Total(s \ {x}, Costs) \in Nat /\ Costs[x] \in Nat
    BY <2>3, <2>5, TotalOfOneMore
  <2>7. Total(s, Costs) = Total(s \ {x}, Costs) + Costs[x]
    BY <2>3, <2>6
  <2>8. QED
    BY <2>1, <2>2, <2>3, <2>4, <2>6, <2>7
<1>3. IsSum(sum)
  <2>1. \A s \in SUBSET I : sum[s] = IF s = {} THEN 0
                                     ELSE Cost(calls[pick(s)]) + sum[s \ {pick(s)}]
    <3> SUFFICES ASSUME NEW s \in SUBSET I
                 PROVE  sum[s] = IF s = {} THEN 0
                                 ELSE Cost(calls[pick(s)]) + sum[s \ {pick(s)}]
      OBVIOUS
    <3>1. CASE s = {}
      BY <3>1, TotalOfNone
    <3>2. CASE s # {}
      <4>1. s \ {pick(s)} \in SUBSET I
        OBVIOUS
      <4> HIDE DEF pick
      <4>2. QED
        BY <1>2, <3>2, <4>1
    <3>3. QED
      BY <3>1, <3>2
  <2> HIDE DEF pick
  <2>2. sum = [s \in SUBSET I |-> sum[s]]
    OBVIOUS
  <2> HIDE DEF sum
  <2>3. [s \in SUBSET I |-> sum[s]] = [s \in SUBSET I |-> IF s = {} THEN 0
                                     ELSE Cost(calls[pick(s)]) + sum[s \ {pick(s)}]]
    BY <2>1
  <2>4. QED
    BY <2>2, <2>3
<1>4. PICK h : h = (CHOOSE g : IsSum(g)) /\ IsSum(h)
  <2> HIDE DEF IsSum, sum
  <2>1. QED
    BY <1>3
<1>5. \A s \in SUBSET I : h[s] = IF s = {} THEN 0 ELSE Cost(calls[pick(s)]) + h[s \ {pick(s)}]
  <2> HIDE DEF pick
  <2>1. QED
    BY <1>4
<1> HIDE DEF IsSum, sum, pick
<1>6. h[I] = Total(I, Costs)
  <2> DEFINE Bad == {s \in SUBSET I : h[s] # Total(s, Costs)}
  <2> SUFFICES ASSUME Bad # {} PROVE FALSE
    OBVIOUS
  <2>1. Bad \subseteq SUBSET I
    OBVIOUS
  <2>2. IsWellFoundedOn(StrictSubsetOrdering(I), SUBSET I)
    BY FS_StrictSubsetOrderingWellFounded, FS_FiniteSubsetsOfFinite
  <2>3. PICK s \in Bad : \A u \in Bad : <<u, s>> \notin StrictSubsetOrdering(I)
    <3> HIDE DEF Bad
    <3>1. QED
      BY <2>1, <2>2, WFMin
  <2>4. CASE s = {}
    BY <1>5, <2>4, TotalOfNone
  <2>5. CASE s # {}
    <3>1. PICK x : x = pick(s)
      OBVIOUS
    <3>2. /\ x \in s /\ Total(s, Costs) = Cost(calls[x]) + Total(s \ {x}, Costs)
          /\ h[s] = Cost(calls[x]) + h[s \ {x}]
      BY <1>2, <1>5, <2>5, <3>1
    <3>3. h[s \ {x}] # Total(s \ {x}, Costs)
      BY <3>2
    <3>4. s \ {x} \in Bad
      BY <3>3
    <3>5. <<s \ {x}, s>> \in StrictSubsetOrdering(I)
      <4>1. s \ {x} \in SUBSET I /\ s \in SUBSET I /\ s \ {x} \subseteq s /\ s \ {x} # s
        BY <3>2
      <4>2. QED
        BY <4>1 DEF StrictSubsetOrdering
    <3>6. QED
      BY <2>3, <3>4, <3>5
  <2>6. QED
    BY <2>4, <2>5
<1>7. QED
  BY <1>1, <1>4, <1>6

\* What a call costs, in terms of what it adds; summed over any set of calls.
LEMMA CostsAddUp ==
  ASSUME TypeOK, NEW I \in SUBSET (1 .. Len(calls)), IsFiniteSet(I)
  PROVE  /\ Total(I, Costs) \in Nat
         /\ Total(I, Column("micros")) \in Nat
         /\ Total(I, Column("retryable_micros")) \in Nat
         /\ Total(I, Column("retryable_failures")) \in Nat
         /\ Total(I, Column("retryable_micros")) <= Total(I, Column("micros"))
         /\ Total(I, Costs) + Total(I, Column("retryable_micros")) =
              Total(I, Column("micros")) + (Total(I, Column("retryable_failures")) * Penalty)
<1>1. PICK k, mi, rm, rf : /\ k = Costs /\ mi = Column("micros")
                           /\ rm = Column("retryable_micros")
                           /\ rf = Column("retryable_failures")
  OBVIOUS
<1>2. PICK P \in Nat : P = Penalty
  BY NumbersAssumption
<1>3. \A i \in 1 .. Len(calls) : /\ k[i] \in Nat /\ mi[i] \in Nat /\ rm[i] \in Nat /\ rf[i] \in Nat
                                 /\ rm[i] <= mi[i]
                                 /\ k[i] + rm[i] = mi[i] + (rf[i] * P)
  <2> SUFFICES ASSUME NEW i \in 1 .. Len(calls)
               PROVE  /\ k[i] \in Nat /\ mi[i] \in Nat /\ rm[i] \in Nat /\ rf[i] \in Nat
                      /\ rm[i] <= mi[i]
                      /\ k[i] + rm[i] = mi[i] + (rf[i] * P)
    OBVIOUS
  <2>1. PICK c \in Calls : c = calls[i]
    BY DEF TypeOK
  <2>2. /\ k[i] = Cost(c) /\ mi[i] = Adds(c)["micros"] /\ rm[i] = Adds(c)["retryable_micros"]
        /\ rf[i] = Adds(c)["retryable_failures"]
    BY <1>1, <2>1 DEF Costs, Column
  <2>3. \A f \in Fields : Adds(c)[f] \in Nat
    BY AddsOfCall, CountsAdd
  <2>4. QED
    BY <1>2, <2>2, <2>3, AddsOfCall, FieldsAre
<1>4. \A T \in SUBSET I : \A x \in T : x \in 1 .. Len(calls)
  OBVIOUS
<1> DEFINE Good == {T \in SUBSET I : /\ Total(T, k) \in Nat /\ Total(T, mi) \in Nat
                                     /\ Total(T, rm) \in Nat /\ Total(T, rf) \in Nat
                                     /\ Total(T, rm) <= Total(T, mi)
                                     /\ Total(T, k) + Total(T, rm) =
                                          Total(T, mi) + (Total(T, rf) * P)}
<1>5. {} \in Good
  <2>1. /\ Total({}, k) = 0 /\ Total({}, mi) = 0 /\ Total({}, rm) = 0 /\ Total({}, rf) = 0
    BY TotalOfNone
  <2>2. QED
    BY <2>1
<1>6. \A T \in SUBSET I : \A x \in I \ T : T \in Good => T \cup {x} \in Good
  <2> SUFFICES ASSUME NEW T \in SUBSET I, NEW x \in I \ T, T \in Good
               PROVE  T \cup {x} \in Good
    OBVIOUS
  <2>1. IsFiniteSet(T) /\ x \notin T /\ T \cup {x} \in SUBSET I
    BY FS_Subset
  <2>2. \A y \in T \cup {x} : y \in 1 .. Len(calls)
    OBVIOUS
  <2>3. /\ Total(T \cup {x}, k) = Total(T, k) + k[x] /\ Total(T \cup {x}, mi) = Total(T, mi) + mi[x]
        /\ Total(T \cup {x}, rm) = Total(T, rm) + rm[x]
        /\ Total(T \cup {x}, rf) = Total(T, rf) + rf[x]
    <3> HIDE DEF Good
    <3>1. /\ Total(T \cup {x}, k) = Total(T, k) + k[x]
          /\ Total(T \cup {x}, mi) = Total(T, mi) + mi[x]
      BY <1>3, <2>1, <2>2, TotalOfOneMore
    <3>2. /\ Total(T \cup {x}, rm) = Total(T, rm) + rm[x]
          /\ Total(T \cup {x}, rf) = Total(T, rf) + rf[x]
      BY <1>3, <2>1, <2>2, TotalOfOneMore
    <3>3. QED
      BY <3>1, <3>2
  <2>4. PICK a \in Nat, b \in Nat, c \in Nat, d \in Nat :
          a = Total(T, k) /\ b = Total(T, mi) /\ c = Total(T, rm) /\ d = Total(T, rf)
    OBVIOUS
  <2>5. PICK e \in Nat, g \in Nat, h \in Nat, j \in Nat :
          e = k[x] /\ g = mi[x] /\ h = rm[x] /\ j = rf[x]
    BY <1>3, <2>2
  <2>6. PICK p \in Nat, q \in Nat : p = d * P /\ q = j * P /\ (d + j) * P = p + q
    OBVIOUS
  <2>7. c <= b /\ h <= g /\ a + c = b + p /\ e + h = g + q
    BY <1>3, <2>2, <2>4, <2>5, <2>6
  <2>8. c + h <= b + g /\ (a + e) + (c + h) = (b + g) + (p + q)
    BY <2>7
  <2> HIDE DEF Good
  <2>9. /\ Total(T \cup {x}, k) = a + e /\ Total(T \cup {x}, mi) = b + g
        /\ Total(T \cup {x}, rm) = c + h /\ Total(T \cup {x}, rf) = d + j
        /\ a + e \in Nat /\ b + g \in Nat /\ c + h \in Nat /\ d + j \in Nat
    <3>1. a + e \in Nat /\ b + g \in Nat /\ c + h \in Nat /\ d + j \in Nat
      OBVIOUS
    <3>2. Total(T \cup {x}, k) = a + e /\ Total(T \cup {x}, mi) = b + g
      BY <2>3, <2>4, <2>5, Zenon
    <3>3. Total(T \cup {x}, rm) = c + h /\ Total(T \cup {x}, rf) = d + j
      BY <2>3, <2>4, <2>5, Zenon
    <3>4. QED
      BY <3>1, <3>2, <3>3
  <2>10. QED
    BY <2>1, <2>6, <2>8, <2>9 DEF Good
<1>7. I \in Good
  <2> HIDE DEF Good
  <2>1. QED
    BY <1>5, <1>6, SetInduction
<1>8. QED
  BY <1>1, <1>2, <1>7

\* A complete snapshot holds what the calls begun before it added, give or take
\* what the overlapping ones may have.
LEMMA SnapshotIsClose ==
  ASSUME TypeOK, NEW v \in Counts, NEW t \in [begun : Nat, overlap : Nat],
         t.begun <= Len(calls), \E n \in 0 .. Len(calls) : Faithful(v, t, n)
  PROVE  /\ \A f \in Fields : /\ Recorded(f, t.begun) \in Nat
                              /\ v[f] <= Recorded(f, t.begun) + (t.overlap * Most(f))
                              /\ Recorded(f, t.begun) <= v[f] + (t.overlap * Most(f))
         /\ SampleCount(v) <= t.begun + t.overlap
         /\ t.begun <= SampleCount(v) + t.overlap
<1>1. PICK n \in 0 .. Len(calls) : Faithful(v, t, n)
  OBVIOUS
<1>2. PICK b \in Nat, o \in Nat : b = t.begun /\ o = t.overlap
  OBVIOUS
<1>3. /\ n \in Nat /\ Len(calls) \in Nat /\ b <= n /\ n <= b + o /\ b \in 0 .. Len(calls)
      /\ SampleCount(v) \in Nat /\ SampleCount(v) <= n /\ n <= SampleCount(v) + o
  BY <1>1, <1>2, CountsAdd DEF Faithful, TypeOK
<1>4. ASSUME NEW f \in Fields
      PROVE  /\ Recorded(f, b) \in Nat
             /\ v[f] <= Recorded(f, b) + (o * Most(f))
             /\ Recorded(f, b) <= v[f] + (o * Most(f))
  <2>1. PICK m \in Nat : m = Most(f)
    BY MostIs
  <2>2. PICK x \in Nat, p \in Nat, q \in Nat :
          x = n - b /\ p = x * m /\ q = o * m /\ p <= q
    <3>1. PICK x \in Nat, y \in Nat : x = n - b /\ y = o - x
      BY <1>3
    <3>2. PICK p \in Nat, r \in Nat : p = x * m /\ r = y * m
      OBVIOUS
    <3>3. o = x + y /\ (x + y) * m = p + r
      <4>1. o = x + y
        BY <1>2, <3>1
      <4>2. (x + y) * m = (x * m) + (y * m)
        OBVIOUS
      <4>3. QED
        BY <3>2, <4>1, <4>2
    <3>4. o * m = p + r /\ p <= p + r /\ p + r \in Nat
      BY <3>2, <3>3
    <3>5. QED
      BY <3>1, <3>2, <3>4
  <2>3. /\ Recorded(f, b) \in Nat /\ Recorded(f, n) \in Nat
        /\ Recorded(f, n) = Recorded(f, b) + Total((b + 1) .. n, Column(f))
        /\ Total((b + 1) .. n, Column(f)) \in Nat
        /\ Total((b + 1) .. n, Column(f)) <= (n - b) * m
    BY <1>3, <2>1, RecordedIs
  <2>4. Recorded(f, n) <= Recorded(f, b) + q /\ Recorded(f, b) <= Recorded(f, n)
    BY <2>2, <2>3
  <2>5. v[f] \in Nat /\ v[f] <= Recorded(f, n) /\ Recorded(f, n) <= v[f] + q
    BY <1>1, <1>2, <2>1, <2>2, CountsAdd DEF Faithful
  <2>6. v[f] <= Recorded(f, b) + q /\ Recorded(f, b) <= v[f] + q
    <3>1. PICK lo \in Nat, hi \in Nat : lo = Recorded(f, b) /\ hi = Recorded(f, n)
      BY <2>3
    <3>2. lo <= hi /\ hi <= lo + q /\ v[f] \in Nat /\ v[f] <= hi /\ hi <= v[f] + q
      BY <2>4, <2>5, <3>1
    <3>3. v[f] <= lo + q /\ lo <= v[f] + q
      BY ONLY <3>2, lo \in Nat, hi \in Nat, q \in Nat
    <3>4. QED
      BY <3>1, <3>3
  <2>7. QED
    BY <2>1, <2>2, <2>3, <2>6
<1>5. SampleCount(v) <= b + o /\ b <= SampleCount(v) + o
  BY <1>2, <1>3
<1>6. QED
  BY <1>2, <1>4, <1>5

\* Diff::latency_score is the mean cost of exactly the window's calls, within
\* twice the longest call and one penalty for each call that overlapped one of
\* the window's two snapshots.
THEOREM ScoreIsRight == Spec => []ScoreIsTheMeanCost
<1>1. ASSUME IInv PROVE ScoreIsTheMeanCost
  <2>1. /\ TypeOK /\ InOrder /\ base \in Counts /\ last \in Counts
        /\ DiffNeverSaturates
    BY <1>1, NeverSaturates DEF IInv, TypeOK
  <2>2. PICK t0 \in [begun : Nat, overlap : Nat], t1 \in [begun : Nat, overlap : Nat] :
          t0 = taken["base"] /\ t1 = taken["last"]
    BY <2>1 DEF TypeOK
  <2>3. PICK b0 \in Nat, b1 \in Nat, o0 \in Nat, o1 \in Nat :
          b0 = t0.begun /\ b1 = t1.begun /\ o0 = t0.overlap /\ o1 = t1.overlap
    OBVIOUS
  <2>4. b0 <= b1 /\ b1 <= Len(calls) /\ Len(calls) \in Nat /\ b0 <= Len(calls)
    BY <2>1, <2>2, <2>3 DEF InOrder, TypeOK
  <2>5. /\ \E n \in 0 .. Len(calls) : Faithful(base, t0, n)
        /\ \E n \in 0 .. Len(calls) : Faithful(last, t1, n)
    BY <1>1, <2>2 DEF IInv, SnapshotsAreFaithful
  <2>6. /\ \A f \in Fields : /\ Recorded(f, b0) \in Nat
                             /\ base[f] <= Recorded(f, b0) + (o0 * Most(f))
                             /\ Recorded(f, b0) <= base[f] + (o0 * Most(f))
        /\ SampleCount(base) <= b0 + o0 /\ b0 <= SampleCount(base) + o0
    BY <2>1, <2>3, <2>4, <2>5, SnapshotIsClose
  <2>7. /\ \A f \in Fields : /\ Recorded(f, b1) \in Nat
                             /\ last[f] <= Recorded(f, b1) + (o1 * Most(f))
                             /\ Recorded(f, b1) <= last[f] + (o1 * Most(f))
        /\ SampleCount(last) <= b1 + o1 /\ b1 <= SampleCount(last) + o1
    BY <2>1, <2>3, <2>4, <2>5, SnapshotIsClose
  <2>8. PICK t \in Nat : t = o0 + o1
    OBVIOUS
  <2>9. Window = (b0 + 1) .. b1
    BY <2>2, <2>3 DEF Window
  <2> DEFINE d == Diff(last, base)
             Sum(f) == Total(Window, Column(f))
  <2>10. \A f \in Fields : /\ d[f] \in Nat /\ d[f] = last[f] - base[f]
                           /\ base[f] \in Nat /\ last[f] \in Nat
    <3> SUFFICES ASSUME NEW f \in Fields
                 PROVE  /\ d[f] \in Nat /\ d[f] = last[f] - base[f]
                        /\ base[f] \in Nat /\ last[f] \in Nat
      OBVIOUS
    <3>1. base[f] \in Nat /\ last[f] \in Nat /\ base[f] <= last[f]
      BY <2>1, CountsAdd DEF DiffNeverSaturates
    <3>2. d[f] = Monus(last[f], base[f])
      BY DEF Diff
    <3>3. d[f] = last[f] - base[f]
      BY <3>1, <3>2 DEF Monus
    <3> HIDE DEF d
    <3>4. QED
      BY <3>1, <3>3
  <2>11. \A f \in Fields : /\ Sum(f) \in Nat /\ Sum(f) = Recorded(f, b1) - Recorded(f, b0)
    <3> SUFFICES ASSUME NEW f \in Fields
                 PROVE  /\ Sum(f) \in Nat /\ Sum(f) = Recorded(f, b1) - Recorded(f, b0)
      OBVIOUS
    <3>1. b0 \in 0 .. Len(calls) /\ b1 \in 0 .. Len(calls)
      BY <2>4
    <3>2. /\ Recorded(f, b1) = Recorded(f, b0) + Total((b0 + 1) .. b1, Column(f))
          /\ Recorded(f, b0) \in Nat /\ Recorded(f, b1) \in Nat
          /\ Total((b0 + 1) .. b1, Column(f)) \in Nat
      BY <2>1, <2>4, <3>1, RecordedIs
    <3>3. Sum(f) = Total((b0 + 1) .. b1, Column(f))
      BY <2>9
    <3> HIDE DEF Sum
    <3>4. QED
      BY <3>2, <3>3
  <2> HIDE DEF d, Sum
  <2>12. ASSUME NEW f \in Fields
         PROVE  d[f] <= Sum(f) + (t * Most(f)) /\ Sum(f) <= d[f] + (t * Most(f))
    <3>1. PICK p \in Nat, q \in Nat : p = o0 * Most(f) /\ q = o1 * Most(f) /\ t * Most(f) = p + q
      <4>1. PICK m \in Nat : m = Most(f)
        BY MostIs
      <4>2. (o0 + o1) * m = (o0 * m) + (o1 * m) /\ o0 * m \in Nat /\ o1 * m \in Nat
        OBVIOUS
      <4>3. QED
        BY <2>8, <4>1, <4>2
    <3>2. PICK x \in Nat, y \in Nat : x = Recorded(f, b0) /\ y = Recorded(f, b1)
      BY <2>6, <2>7
    <3>3. /\ base[f] <= x + p /\ x <= base[f] + p /\ last[f] <= y + q /\ y <= last[f] + q
      BY <2>6, <2>7, <3>1, <3>2
    <3>4. d[f] = last[f] - base[f] /\ Sum(f) = y - x /\ base[f] \in Nat /\ last[f] \in Nat
      BY <2>10, <2>11, <3>2
    <3>5. QED
      BY <3>1, <3>3, <3>4
  <2>13. PICK M \in Nat, P \in Nat : M = Max(Durations) /\ P = Penalty
    BY LongestDuration, NumbersAssumption
  <2>14. /\ Most("micros") = M /\ Most("retryable_micros") = M /\ Most("retryable_failures") = 1
         /\ t * 1 = t
    BY <2>13 DEF Most
  <2>15. PICK dm \in Nat, dr \in Nat, df \in Nat :
           dm = d["micros"] /\ dr = d["retryable_micros"] /\ df = d["retryable_failures"]
    BY <2>10, FieldsAre
  <2>16. PICK wm \in Nat, wr \in Nat, wf \in Nat :
           /\ wm = Sum("micros") /\ wr = Sum("retryable_micros")
           /\ wf = Sum("retryable_failures")
    BY <2>11, FieldsAre
  <2>17. PICK tm \in Nat : tm = t * M
    OBVIOUS
  <2>18. /\ dm <= wm + tm /\ wm <= dm + tm /\ dr <= wr + tm /\ wr <= dr + tm
         /\ df <= wf + t /\ wf <= df + t
    <3>1. dm <= wm + tm /\ wm <= dm + tm
      BY <2>12, <2>14, <2>15, <2>16, <2>17, FieldsAre
    <3>2. dr <= wr + tm /\ wr <= dr + tm
      BY <2>12, <2>14, <2>15, <2>16, <2>17, FieldsAre
    <3>3. df <= wf + t /\ wf <= df + t
      BY <2>12, <2>14, <2>15, <2>16, FieldsAre
    <3>4. QED
      BY <3>1, <3>2, <3>3
  <2>19. /\ IsFiniteSet(Window) /\ Window \in SUBSET (1 .. Len(calls))
         /\ Cardinality(Window) = b1 - b0
    <3>1. PICK a \in Nat : a = b0 + 1
      OBVIOUS
    <3>2. IsFiniteSet(a .. b1) /\ Cardinality(a .. b1) = IF a > b1 THEN 0 ELSE b1 - a + 1
      <4>1. a \in Int /\ b1 \in Int
        OBVIOUS
      <4>2. QED
        BY <4>1, FS_Interval
    <3>3. \A i \in a .. b1 : i \in 1 .. Len(calls)
      BY <2>4, <3>1
    <3>4. QED
      BY <2>4, <2>9, <3>1, <3>2, <3>3
  <2>20. PICK w \in Nat : w = CostOf(Window) /\ wr <= wm /\ w + wr = wm + (wf * P)
    BY <2>1, <2>13, <2>16, <2>19, CostOfIs, CostsAddUp DEF Sum
  <2>21. PICK fp \in Nat, wp \in Nat, tp \in Nat :
           fp = df * P /\ wp = wf * P /\ tp = t * P /\ fp <= wp + tp /\ wp <= fp + tp
    <3>1. PICK fp \in Nat, wp \in Nat, tp \in Nat : fp = df * P /\ wp = wf * P /\ tp = t * P
      OBVIOUS
    <3>2. ASSUME NEW x \in Nat, NEW y \in Nat, x <= y + t PROVE x * P <= (y * P) + tp
      <4>1. PICK z \in Nat : x + z = y + t
        BY <3>2
      <4>2. (x + z) * P = (x * P) + (z * P) /\ (y + t) * P = (y * P) + (t * P)
        OBVIOUS
      <4>3. x * P \in Nat /\ z * P \in Nat /\ y * P \in Nat
        OBVIOUS
      <4>4. (x * P) + (z * P) = (y * P) + tp
        BY <3>1, <4>1, <4>2
      <4>5. QED
        BY <4>3, <4>4
    <3>3. df * P <= (wf * P) + tp /\ wf * P <= (df * P) + tp
      BY <2>18, <3>2
    <3>4. QED
      BY <3>1, <3>3
  <2>22. PICK mo \in Nat : mo = Monus(dm, dr) /\ mo = IF dm < dr THEN 0 ELSE dm - dr
    BY DEF Monus
  <2>23. LatencyTotal(d) = mo + fp
    BY <2>13, <2>15, <2>21, <2>22 DEF LatencyTotal
  <2>24. t * ((2 * M) + P) = (tm + tm) + tp
    <3>1. t * ((2 * M) + P) = (t * (2 * M)) + (t * P)
      BY <2>8
    <3>2. t * (2 * M) = (t * M) + (t * M)
      OBVIOUS
    <3>3. QED
      BY <2>17, <2>21, <3>1, <3>2
  <2>25. mo + fp <= w + ((tm + tm) + tp) /\ w <= (mo + fp) + ((tm + tm) + tp)
    <3>1. w + wr = wm + wp
      BY <2>20, <2>21
    <3>2. mo + wr <= wm + (tm + tm) /\ wm <= mo + wr + (tm + tm)
      BY <2>18, <2>20, <2>22
    <3>3. mo + fp <= w + ((tm + tm) + tp)
      BY <2>21, <3>1, <3>2
    <3>4. w <= (mo + fp) + ((tm + tm) + tp)
      BY <2>21, <3>1, <3>2
    <3>5. QED
      BY <3>3, <3>4
  <2>26. PICK c \in Nat : c = CallsIn(d) /\ c = SampleCount(last) - SampleCount(base)
    <3>1. /\ d["success"] = last["success"] - base["success"]
          /\ d["error"] = last["error"] - base["error"]
          /\ d["abandoned"] = last["abandoned"] - base["abandoned"]
          /\ d["success"] \in Nat /\ d["error"] \in Nat /\ d["abandoned"] \in Nat
      BY <2>10, FieldsAre
    <3>2. d["error"] + d["success"] + d["abandoned"] = SampleCount(last) - SampleCount(base)
      BY <2>1, <3>1, CountsAdd DEF SampleCount
    <3>3. d["error"] + d["success"] + d["abandoned"] \in Nat
      BY <3>1
    <3>4. QED
      BY <3>2, <3>3 DEF CallsIn, Answered
  <2>27. /\ CallsIn(d) <= Cardinality(Window) + t /\ Cardinality(Window) <= CallsIn(d) + t
    <3>1. SampleCount(last) \in Nat /\ SampleCount(base) \in Nat
      BY <2>1, CountsAdd
    <3>2. c <= (b1 - b0) + t /\ b1 - b0 <= c + t
      BY <2>6, <2>7, <2>8, <2>26, <3>1
    <3>3. QED
      BY <2>19, <2>26, <3>2
  <2>28. taken["base"].overlap + taken["last"].overlap = t
    BY <2>2, <2>3, <2>8
  <2>29. /\ LatencyTotal(Diff(last, base)) <= CostOf(Window) + (t * ((2 * M) + P))
         /\ CostOf(Window) <= LatencyTotal(Diff(last, base)) + (t * ((2 * M) + P))
    BY <2>20, <2>23, <2>24, <2>25 DEF d
  <2>30. QED
    BY <2>1, <2>13, <2>27, <2>28, <2>29 DEF ScoreIsTheMeanCost, d
<1>2. QED
  BY <1>1, Invariance, PTL
=============================================================================
