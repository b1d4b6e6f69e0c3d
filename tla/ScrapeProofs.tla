---------------------------- MODULE ScrapeProofs ----------------------------
(***************************************************************************)
(* The families of a scrape agree but for the chains that ran while it was *)
(* taken, for any fleet, any methods and any number of chains.             *)
(*                                                                         *)
(* The argument is one for all the families: in each pair of sums (Pairs)  *)
(* a chain that adds to the first, once, adds to the second as well, in an *)
(* order nobody knows. So the first and the chains that still owe it are   *)
(* never more than the second and those that owe that (Backed). A scrape   *)
(* in progress is read as the one it would be if the rest of its loads     *)
(* were made now (View): at its first load that is the counters, so only   *)
(* chains running then, or begun since, are missing from the second        *)
(* (ViewIsBacked); its values only rise, and never above the counters, so  *)
(* the first shows no more than was backed.                                *)
(*                                                                         *)
(* That every counter has its load is induction over the sequences that    *)
(* LoadOrder is flattened from (FlattenSeqIs). Sums are cardinalities of   *)
(* sets of units (Total); SumIs shows that the fold of the model is one.   *)
(***************************************************************************)
EXTENDS Scrape, FiniteSetTheorems, SequenceTheorems, TLAPS

-----------------------------------------------------------------------------
(* Induction, and sequences end to end *)

\* Induction on a finite set: what holds of the empty set and of one element
\* more holds of all of it.
LEMMA SetInduction ==
  ASSUME NEW S, IsFiniteSet(S), NEW Good, {} \in Good,
         \A T \in SUBSET S : \A x \in S \ T : T \in Good => T \cup {x} \in Good
  PROVE  S \in Good
<1> DEFINE Bad == (SUBSET S) \ Good
<1> SUFFICES ASSUME Bad # {} PROVE FALSE
  OBVIOUS
<1>1. IsWellFoundedOn(StrictSubsetOrdering(S), SUBSET S)
  BY FS_StrictSubsetOrderingWellFounded, FS_FiniteSubsetsOfFinite
<1>2. PICK T \in Bad : \A U \in Bad : <<U, T>> \notin StrictSubsetOrdering(S)
  BY <1>1, WFMin
<1>3. PICK x : x \in T
  OBVIOUS
<1>4. T \ {x} \in Good
  <2>1. T \ {x} \in SUBSET S /\ T \in SUBSET S /\ T \ {x} # T /\ (T \ {x}) \subseteq T
    BY <1>3
  <2>2. <<T \ {x}, T>> \in StrictSubsetOrdering(S)
    BY <2>1 DEF StrictSubsetOrdering
  <2>3. QED
    BY <1>2, <2>1, <2>2
<1>5. (T \ {x}) \cup {x} = T
  BY <1>3
<1>6. QED
  BY <1>2, <1>3, <1>4, <1>5

\* Induction over the numbers up to n.
LEMMA CountingUp ==
  ASSUME NEW n \in Nat, NEW Good, 0 \in Good,
         \A i \in 0 .. n : i < n /\ i \in Good => i + 1 \in Good
  PROVE  \A i \in 0 .. n : i \in Good
<1> SUFFICES ASSUME NEW i \in 0 .. n PROVE i \in Good
  OBVIOUS
<1> DEFINE Sets == {T \in SUBSET (1 .. i) : Cardinality(T) \in Good}
<1>1. {} \in Sets
  BY FS_EmptySet
<1>2. IsFiniteSet(1 .. i) /\ Cardinality(1 .. i) = i
  BY FS_Interval
<1>3. ASSUME NEW T \in SUBSET (1 .. i), NEW x \in (1 .. i) \ T, T \in Sets
      PROVE  T \cup {x} \in Sets
  <2>1. IsFiniteSet(T) /\ x \notin T
    BY <1>2, FS_Subset
  <2>2. Cardinality(T \cup {x}) = Cardinality(T) + 1 /\ Cardinality(T) \in Nat
    BY <2>1, FS_AddElement, FS_CardinalityType
  <2>3. T \cup {x} \in SUBSET (1 .. i)
    OBVIOUS
  <2>4. Cardinality(T \cup {x}) <= i
    BY <1>2, <2>3, FS_Subset
  <2>5. Cardinality(T) \in 0 .. n /\ Cardinality(T) < n
    BY <2>2, <2>4
  <2>6. Cardinality(T) + 1 \in Good
    BY <1>3, <2>5
  <2>7. QED
    BY <2>2, <2>3, <2>6
<1>4. 1 .. i \in Sets
  <2> HIDE DEF Sets
  <2>1. QED
    BY <1>1, <1>2, <1>3, SetInduction
<1>5. QED
  BY <1>2, <1>4

\* The sequence of the elements of all.
LEMMA FlattenSeqIs ==
  ASSUME NEW S, NEW seqs \in Seq(Seq(S))
  PROVE  /\ FlattenSeq(seqs) \in Seq(S)
         /\ \A i \in 1 .. Len(seqs) : \A j \in 1 .. Len(seqs[i]) :
              \E l \in 1 .. Len(FlattenSeq(seqs)) : FlattenSeq(seqs)[l] = seqs[i][j]
<1>n. PICK n \in Nat : n = Len(seqs)
  OBVIOUS
<1>1. CASE n = 0
  <2>1. FlattenSeq(seqs) = seqs
    BY <1>n, <1>1 DEF FlattenSeq
  <2>2. seqs = << >>
    BY <1>n, <1>1, EmptySeq
  <2>3. << >> \in Seq(S) /\ Len(seqs) = 0
    BY <1>n, <1>1, EmptySeq
  <2>4. \A i \in 1 .. Len(seqs) : FALSE
    BY <2>3
  <2>5. QED
    BY <2>1, <2>2, <2>3, <2>4
<1>2. CASE n # 0
  <2> DEFINE IsFlat(h) == h = [i \in 1 .. n |-> IF i = 1 THEN seqs[i] ELSE h[i - 1] \o seqs[i]]
             IsPart(h, m) == \A i \in 1 .. m : /\ h[i] \in Seq(S)
                                               /\ h[i] = IF i = 1 THEN seqs[i]
                                                         ELSE h[i - 1] \o seqs[i]
             Parts == {m \in 0 .. n : \E h : IsPart(h, m)}
  <2>1. FlattenSeq(seqs) = (CHOOSE h : IsFlat(h))[n]
    BY Zenon, <1>n, <1>2 DEF FlattenSeq
  <2>2. 0 \in Parts
    OBVIOUS
  <2>3. ASSUME NEW m \in 0 .. n, m < n, m \in Parts PROVE m + 1 \in Parts
    <3>1. PICK h : IsPart(h, m)
      BY <2>3
    <3>2. PICK t \in Seq(S) : t = IF m = 0 THEN seqs[1] ELSE h[m] \o seqs[m + 1]
      <4>1. m + 1 \in 1 .. Len(seqs) /\ 1 \in 1 .. Len(seqs)
        BY <1>n, <1>2, <2>3
      <4>2. seqs[m + 1] \in Seq(S) /\ seqs[1] \in Seq(S)
        BY <4>1
      <4>3. m # 0 => h[m] \in Seq(S)
        BY <3>1
      <4>4. m # 0 => h[m] \o seqs[m + 1] \in Seq(S)
        BY <4>2, <4>3, ConcatProperties
      <4>5. QED
        BY <4>2, <4>4
    <3> DEFINE g == [i \in 1 .. (m + 1) |-> IF i = m + 1 THEN t ELSE h[i]]
    <3>3. \A i \in 1 .. m : g[i] = h[i]
      OBVIOUS
    <3>4. g[m + 1] = t
      OBVIOUS
    <3> HIDE DEF g
    <3>5. ASSUME NEW i \in 1 .. (m + 1)
          PROVE  g[i] \in Seq(S) /\ g[i] = IF i = 1 THEN seqs[i] ELSE g[i - 1] \o seqs[i]
      <4>1. CASE i = m + 1
        <5>1. CASE m = 0
          BY <3>2, <3>4, <4>1, <5>1
        <5>2. CASE m # 0
          <6>1. m \in 1 .. m /\ i - 1 = m /\ i # 1
            BY <4>1, <5>2
          <6>2. g[i - 1] = h[m]
            BY <3>3, <6>1
          <6>3. QED
            BY <3>2, <3>4, <4>1, <5>2, <6>1, <6>2
        <5>3. QED
          BY <5>1, <5>2
      <4>2. CASE i # m + 1
        <5>1. i \in 1 .. m /\ g[i] = h[i]
          BY <3>3, <4>2
        <5>2. CASE i = 1
          BY <3>1, <5>1, <5>2
        <5>3. CASE i # 1
          <6>1. i - 1 \in 1 .. m /\ g[i - 1] = h[i - 1]
            BY <3>3, <5>1, <5>3
          <6>2. QED
            BY <3>1, <5>1, <5>3, <6>1
        <5>4. QED
          BY <5>2, <5>3
      <4>3. QED
        BY <4>1, <4>2
    <3>6. IsPart(g, m + 1)
      BY <3>5
    <3>7. m + 1 \in 0 .. n
      BY <2>3
    <3> HIDE DEF IsPart
    <3>8. QED
      BY <3>6, <3>7
  <2>4. n \in Parts
    <3> HIDE DEF Parts
    <3>1. \A m \in 0 .. n : m < n /\ m \in Parts => m + 1 \in Parts
      BY <2>3
    <3>2. \A m \in 0 .. n : m \in Parts
      BY <2>2, <3>1, CountingUp
    <3>3. QED
      BY <3>2
  <2>5. \E h : IsFlat(h)
    <3>1. PICK h : IsPart(h, n)
      BY <2>4
    <3> DEFINE g == [i \in 1 .. n |-> h[i]]
    <3>2. \A i \in 1 .. n : g[i] = IF i = 1 THEN seqs[i] ELSE g[i - 1] \o seqs[i]
      <4>1. \A i \in 1 .. n : i # 1 => i - 1 \in 1 .. n
        OBVIOUS
      <4>2. QED
        BY <3>1, <4>1
    <3>3. g = [i \in 1 .. n |-> g[i]]
      OBVIOUS
    <3> HIDE DEF g
    <3>4. [i \in 1 .. n |-> g[i]] = [i \in 1 .. n |-> IF i = 1 THEN seqs[i] ELSE g[i - 1] \o seqs[i]]
      BY <3>2
    <3>5. IsFlat(g)
      BY <3>3, <3>4
    <3> HIDE DEF IsFlat
    <3>6. QED
      BY <3>5
  <2>6. PICK f : f = (CHOOSE h : IsFlat(h)) /\ IsFlat(f)
    <3> HIDE DEF IsFlat
    <3>1. QED
      BY <2>5
  <2>7. \A i \in 1 .. n : f[i] = IF i = 1 THEN seqs[i] ELSE f[i - 1] \o seqs[i]
    BY <2>6
  <2>8. \A i \in 1 .. n : seqs[i] \in Seq(S)
    BY <1>n
  <2> DEFINE Has(s, t) == \A j \in 1 .. Len(t) : \E l \in 1 .. Len(s) : s[l] = t[j]
             Good == {m \in 0 .. n : m = 0 \/ (f[m] \in Seq(S) /\ \A i \in 1 .. m : Has(f[m], seqs[i]))}
  <2>9. 0 \in Good
    OBVIOUS
  <2>10. ASSUME NEW m \in 0 .. n, m < n, m \in Good PROVE m + 1 \in Good
    <3>1. m + 1 \in 1 .. n /\ m + 1 \in 0 .. n
      BY <2>10
    <3>2. CASE m = 0
      <4>1. f[1] = seqs[1] /\ f[1] \in Seq(S) /\ m + 1 = 1
        BY <2>7, <2>8, <3>1, <3>2
      <4>2. Has(f[1], seqs[1])
        BY <4>1
      <4>3. \A i \in 1 .. 1 : Has(f[1], seqs[i])
        BY <4>2
      <4> HIDE DEF Has
      <4>4. QED
        BY <3>1, <4>1, <4>3
    <3>3. CASE m # 0
      <4>1. PICK p \in Seq(S), q \in Seq(S), r \in Seq(S) :
              p = f[m] /\ q = seqs[m + 1] /\ r = f[m + 1] /\ r = p \o q
        <5>1. m + 1 # 1 /\ (m + 1) - 1 = m
          BY <3>3
        <5>2. f[m + 1] = f[m] \o seqs[m + 1]
          BY <2>7, <3>1, <5>1
        <5>3. f[m] \in Seq(S) /\ seqs[m + 1] \in Seq(S)
          BY <2>8, <2>10, <3>1, <3>3
        <5>4. f[m] \o seqs[m + 1] \in Seq(S)
          BY <5>3, ConcatProperties
        <5>5. QED
          BY <5>2, <5>3, <5>4
      <4>2. /\ Len(r) = Len(p) + Len(q) /\ Len(p) \in Nat /\ Len(q) \in Nat
            /\ \A l \in 1 .. Len(p) : r[l] = p[l]
            /\ \A l \in 1 .. Len(q) : r[Len(p) + l] = q[l]
        <5>1. PICK a \in Nat, b \in Nat : a = Len(p) /\ b = Len(q)
          OBVIOUS
        <5>2. /\ Len(r) = a + b
              /\ \A i \in 1 .. a + b : r[i] = IF i <= a THEN p[i] ELSE q[i - a]
          <6>1. /\ Len(p \o q) = Len(p) + Len(q)
                /\ \A i \in 1 .. Len(p) + Len(q) :
                     (p \o q)[i] = IF i <= Len(p) THEN p[i] ELSE q[i - Len(p)]
            BY ONLY p \in Seq(S), q \in Seq(S), ConcatProperties
          <6>2. r = p \o q
            BY <4>1
          <6>3. QED
            BY ONLY <5>1, <6>1, <6>2
        <5>3. \A l \in 1 .. a : r[l] = p[l]
          BY <5>2
        <5>4. \A l \in 1 .. b : a + l \in 1 .. a + b /\ ~(a + l <= a) /\ (a + l) - a = l
          OBVIOUS
        <5>5. \A l \in 1 .. b : r[a + l] = q[l]
          BY <5>2, <5>4
        <5>6. QED
          BY <5>1, <5>2, <5>3, <5>5
      <4>3. \A l \in 1 .. Len(p) : l \in 1 .. Len(r)
        BY <4>2
      <4>4. \A l \in 1 .. Len(q) : Len(p) + l \in 1 .. Len(r)
        BY <4>2
      <4>5. Has(r, q)
        BY <4>2, <4>4
      <4>6. ASSUME NEW i \in 1 .. m PROVE Has(r, seqs[i])
        <5>1. Has(p, seqs[i])
          BY <2>10, <3>3, <4>1
        <5>2. QED
          BY <4>2, <4>3, <5>1
      <4> HIDE DEF Has
      <4>7. \A i \in 1 .. (m + 1) : Has(r, seqs[i])
        <5>1. \A i \in 1 .. (m + 1) : i \in 1 .. m \/ i = m + 1
          OBVIOUS
        <5>2. QED
          BY <4>1, <4>5, <4>6, <5>1
      <4>8. QED
        BY <3>1, <4>1, <4>7
    <3>4. QED
      BY <3>2, <3>3
  <2>11. n \in Good
    <3> HIDE DEF Good
    <3>1. \A m \in 0 .. n : m < n /\ m \in Good => m + 1 \in Good
      BY <2>10
    <3>2. \A m \in 0 .. n : m \in Good
      BY <2>9, <3>1, CountingUp
    <3>3. QED
      BY <3>2
  <2>12. FlattenSeq(seqs) = f[n]
    BY <2>1, <2>6
  <2>13. QED
    BY <1>n, <1>2, <2>11, <2>12
<1>3. QED
  BY <1>1, <1>2

-----------------------------------------------------------------------------
(* The counters, by name *)

\* Every counter that a record or a property names.
Keys ==
  {<<t, u>> : t \in {"success", "error", "failovers"}, u \in Upstreams} \cup
  {<<t, u, v>> : t \in {"started", "won"}, u \in Upstreams, v \in Upstreams} \cup
  {<<t, m>> : t \in {"answered", "failed", "few", "attempts"}, m \in Labels} \cup
  {<<"coalesced">>}

\* k is somewhere in s.
Holds(s, k) == \E l \in 1 .. Len(s) : s[l] = k

\* A function on 1 .. n is a sequence.
LEMMA FunctionIsSeq ==
  ASSUME NEW S, NEW n \in Nat, NEW f \in [1 .. n -> S]
  PROVE  f \in Seq(S) /\ Len(f) = n
BY SeqDef

\* A sequence of sequences made from a sequence, end to end.
LEMMA AllOf ==
  ASSUME NEW S, NEW seq, seq \in Seq(Range(seq)), NEW parts \in [DOMAIN seq -> Seq(S)]
  PROVE  /\ FlattenSeq(parts) \in Seq(S)
         /\ \A x \in Range(seq) : \E i \in DOMAIN seq :
              seq[i] = x /\ \A j \in 1 .. Len(parts[i]) : Holds(FlattenSeq(parts), parts[i][j])
<1>1. PICK n \in Nat : n = Len(seq) /\ DOMAIN seq = 1 .. n
  BY LenProperties
<1>2. parts \in [1 .. n -> Seq(S)]
  BY <1>1
<1>3. parts \in Seq(Seq(S)) /\ Len(parts) = n
  <2>1. \A f \in [1 .. n -> Seq(S)] : f \in Seq(Seq(S)) /\ Len(f) = n
    BY SeqDef
  <2>2. QED
    BY <1>2, <2>1
<1>4. /\ FlattenSeq(parts) \in Seq(S)
      /\ \A i \in 1 .. n : \A j \in 1 .. Len(parts[i]) : Holds(FlattenSeq(parts), parts[i][j])
  <2>1. /\ FlattenSeq(parts) \in Seq(S)
        /\ \A i \in 1 .. Len(parts) : \A j \in 1 .. Len(parts[i]) :
             \E l \in 1 .. Len(FlattenSeq(parts)) : FlattenSeq(parts)[l] = parts[i][j]
    BY <1>3, FlattenSeqIs
  <2>2. QED
    BY <1>3, <2>1 DEF Holds
<1>5. QED
  BY <1>1, <1>4 DEF Range

\* One sequence after another has the members of both.
LEMMA Joined ==
  ASSUME NEW S, NEW s \in Seq(S), NEW t \in Seq(S)
  PROVE  /\ s \o t \in Seq(S)
         /\ \A k : Holds(s, k) \/ Holds(t, k) => Holds(s \o t, k)
<1>1. PICK a \in Nat, b \in Nat : a = Len(s) /\ b = Len(t)
  OBVIOUS
<1>2. /\ s \o t \in Seq(S) /\ Len(s \o t) = a + b
      /\ \A i \in 1 .. a + b : (s \o t)[i] = IF i <= a THEN s[i] ELSE t[i - a]
  BY <1>1, ConcatProperties
<1> DEFINE r == s \o t
<1> HIDE DEF r
<1>3. \A l \in 1 .. a : l \in 1 .. a + b /\ l <= a
  OBVIOUS
<1>4. \A l \in 1 .. b : a + l \in 1 .. a + b /\ ~(a + l <= a) /\ (a + l) - a = l
  OBVIOUS
<1>5. \A k : Holds(s, k) => Holds(r, k)
  BY <1>1, <1>2, <1>3 DEF Holds, r
<1>6. \A k : Holds(t, k) => Holds(r, k)
  <2> SUFFICES ASSUME NEW k, NEW l \in 1 .. b, t[l] = k PROVE Holds(r, k)
    BY <1>1 DEF Holds
  <2>1. r[a + l] = t[l]
    BY <1>2, <1>4 DEF r
  <2>2. QED
    BY <1>2, <1>4, <2>1 DEF Holds, r
<1>7. QED
  BY <1>2, <1>5, <1>6 DEF r

\* The loads are of counters, and of all that are named.
LEMMA LoadOrderIs ==
  /\ LoadOrder \in Seq(Keys)
  /\ \A u \in Upstreams : /\ Holds(LoadOrder, <<"success", u>>)
                          /\ Holds(LoadOrder, <<"error", u>>)
                          /\ Holds(LoadOrder, <<"failovers", u>>)
  /\ \A u, v \in Upstreams : u # v => /\ Holds(LoadOrder, <<"started", u, v>>)
                                      /\ Holds(LoadOrder, <<"won", u, v>>)
  /\ \A m \in Labels : /\ Holds(LoadOrder, <<"answered", m>>)
                       /\ Holds(LoadOrder, <<"failed", m>>)
                       /\ Holds(LoadOrder, <<"few", m>>)
                       /\ Holds(LoadOrder, <<"attempts", m>>)
  /\ Holds(LoadOrder, <<"coalesced">>)
<1>1. Fleet \in Seq(Range(Fleet)) /\ Methods \in Seq(Range(Methods))
  BY FleetAssumption
<1>2. /\ \A i \in DOMAIN Fleet : Fleet[i] \in Upstreams
      /\ \A i \in DOMAIN Methods : Methods[i] \in Labels
  BY DEF Upstreams, Labels, Range
<1> DEFINE ups == [i \in DOMAIN Fleet |-> PerUpstream(Fleet[i])]
           row(u) == [j \in DOMAIN Fleet |-> PerPair(u, Fleet[j])]
           rows == [i \in DOMAIN Fleet |-> FlattenSeq(row(Fleet[i]))]
           methods == [i \in DOMAIN Methods |-> PerMethod(Methods[i])]
           fails == [i \in DOMAIN Fleet |-> <<"failovers", Fleet[i]>>]
           co == << <<"coalesced">> >>
<1>3. LoadOrder = FlattenSeq(ups) \o FlattenSeq(rows) \o FlattenSeq(methods) \o fails \o co
  BY DEF LoadOrder, ForAll
<1>4. /\ FlattenSeq(ups) \in Seq(Keys)
      /\ \A u \in Upstreams : /\ Holds(FlattenSeq(ups), <<"success", u>>)
                              /\ Holds(FlattenSeq(ups), <<"error", u>>)
  <2>1. ASSUME NEW u \in Upstreams
        PROVE  /\ PerUpstream(u) \in Seq(Keys) /\ Len(PerUpstream(u)) = 2
               /\ PerUpstream(u)[1] = <<"success", u>> /\ PerUpstream(u)[2] = <<"error", u>>
    <3>1. <<"success", u>> \in Keys /\ <<"error", u>> \in Keys
      BY DEF Keys
    <3>2. DOMAIN Outcomes = 1 .. 2 /\ Outcomes[1] = "success" /\ Outcomes[2] = "error"
      BY DEF Outcomes
    <3>3. PerUpstream(u) = [i \in 1 .. 2 |-> <<Outcomes[i], u>>]
      BY <3>2 DEF PerUpstream
    <3>4. \A i \in 1 .. 2 : i = 1 \/ i = 2
      OBVIOUS
    <3>5. PerUpstream(u)[1] = <<"success", u>> /\ PerUpstream(u)[2] = <<"error", u>>
      BY <3>2, <3>3
    <3>6. PerUpstream(u) \in [1 .. 2 -> Keys]
      BY <3>1, <3>2, <3>3, <3>4
    <3>7. PerUpstream(u) \in Seq(Keys) /\ Len(PerUpstream(u)) = 2
      <4>1. 2 \in Nat
        OBVIOUS
      <4>2. QED
        BY <3>6, <4>1, FunctionIsSeq
    <3>8. QED
      BY <3>5, <3>7
  <2>2. ups = [i \in DOMAIN Fleet |-> ups[i]] /\ \A i \in DOMAIN Fleet : ups[i] = PerUpstream(Fleet[i])
    OBVIOUS
  <2> HIDE DEF ups
  <2>3. /\ FlattenSeq(ups) \in Seq(Keys)
        /\ \A x \in Range(Fleet) : \E i \in DOMAIN Fleet :
             Fleet[i] = x /\ \A j \in 1 .. Len(ups[i]) : Holds(FlattenSeq(ups), ups[i][j])
    <3>1. ups \in [DOMAIN Fleet -> Seq(Keys)]
      BY <1>2, <2>1, <2>2
    <3>2. QED
      BY <1>1, <3>1, AllOf
  <2>4. ASSUME NEW u \in Upstreams
        PROVE  Holds(FlattenSeq(ups), <<"success", u>>) /\ Holds(FlattenSeq(ups), <<"error", u>>)
    <3>1. PICK i \in DOMAIN Fleet :
            Fleet[i] = u /\ \A j \in 1 .. Len(ups[i]) : Holds(FlattenSeq(ups), ups[i][j])
      BY <2>3 DEF Upstreams
    <3>2. ups[i] = PerUpstream(u) /\ 1 \in 1 .. Len(ups[i]) /\ 2 \in 1 .. Len(ups[i])
      BY <2>1, <2>2, <3>1
    <3>3. QED
      BY <2>1, <3>1, <3>2
  <2>5. QED
    BY <2>3, <2>4
<1>5. /\ FlattenSeq(rows) \in Seq(Keys)
      /\ \A u, v \in Upstreams : u # v => /\ Holds(FlattenSeq(rows), <<"started", u, v>>)
                                          /\ Holds(FlattenSeq(rows), <<"won", u, v>>)
  <2>1. ASSUME NEW u \in Upstreams, NEW v \in Upstreams
        PROVE  /\ PerPair(u, v) \in Seq(Keys)
               /\ u # v => /\ Len(PerPair(u, v)) = 2
                           /\ PerPair(u, v)[1] = <<"started", u, v>>
                           /\ PerPair(u, v)[2] = <<"won", u, v>>
    <3>1. <<"started", u, v>> \in Keys /\ <<"won", u, v>> \in Keys
      BY DEF Keys
    <3>2. << >> \in Seq(Keys)
      BY EmptySeq
    <3>3. \A a, b \in Keys : /\ <<a, b>> \in Seq(Keys) /\ Len(<<a, b>>) = 2
                             /\ <<a, b>>[1] = a /\ <<a, b>>[2] = b
      OBVIOUS
    <3>4. QED
      BY <3>1, <3>2, <3>3 DEF PerPair
  <2>2. ASSUME NEW u \in Upstreams
        PROVE  /\ FlattenSeq(row(u)) \in Seq(Keys)
               /\ \A v \in Upstreams : u # v => /\ Holds(FlattenSeq(row(u)), <<"started", u, v>>)
                                                /\ Holds(FlattenSeq(row(u)), <<"won", u, v>>)
    <3>1. PICK r : r = row(u)
      OBVIOUS
    <3>2. r = [i \in DOMAIN Fleet |-> r[i]] /\ \A i \in DOMAIN Fleet : r[i] = PerPair(u, Fleet[i])
      BY <3>1
    <3>3. /\ FlattenSeq(r) \in Seq(Keys)
          /\ \A x \in Range(Fleet) : \E i \in DOMAIN Fleet :
               Fleet[i] = x /\ \A j \in 1 .. Len(r[i]) : Holds(FlattenSeq(r), r[i][j])
      <4> HIDE DEF row
      <4>1. r \in [DOMAIN Fleet -> Seq(Keys)]
        BY <1>2, <2>1, <3>2
      <4>2. QED
        BY <1>1, <4>1, AllOf
    <3>4. ASSUME NEW v \in Upstreams, u # v
          PROVE  /\ Holds(FlattenSeq(r), <<"started", u, v>>)
                 /\ Holds(FlattenSeq(r), <<"won", u, v>>)
      <4>1. PICK i \in DOMAIN Fleet :
              Fleet[i] = v /\ \A j \in 1 .. Len(r[i]) : Holds(FlattenSeq(r), r[i][j])
        BY <3>3 DEF Upstreams
      <4>2. r[i] = PerPair(u, v) /\ 1 \in 1 .. Len(r[i]) /\ 2 \in 1 .. Len(r[i])
        BY <2>1, <3>2, <3>4, <4>1
      <4>3. QED
        BY <2>1, <3>4, <4>1, <4>2
    <3>5. QED
      BY <3>1, <3>3, <3>4
  <2> HIDE DEF row
  <2>3. rows = [i \in DOMAIN Fleet |-> rows[i]]
        /\ \A i \in DOMAIN Fleet : rows[i] = FlattenSeq(row(Fleet[i]))
    OBVIOUS
  <2> HIDE DEF rows
  <2>4. /\ FlattenSeq(rows) \in Seq(Keys)
        /\ \A x \in Range(Fleet) : \E i \in DOMAIN Fleet :
             Fleet[i] = x /\ \A j \in 1 .. Len(rows[i]) : Holds(FlattenSeq(rows), rows[i][j])
    <3>1. rows \in [DOMAIN Fleet -> Seq(Keys)]
      BY <1>2, <2>2, <2>3
    <3>2. QED
      BY <1>1, <3>1, AllOf
  <2>5. ASSUME NEW u \in Upstreams, NEW k, Holds(FlattenSeq(row(u)), k)
        PROVE  Holds(FlattenSeq(rows), k)
    <3>1. PICK i \in DOMAIN Fleet :
            Fleet[i] = u /\ \A j \in 1 .. Len(rows[i]) : Holds(FlattenSeq(rows), rows[i][j])
      BY <2>4 DEF Upstreams
    <3>2. rows[i] = FlattenSeq(row(u))
      BY <2>3, <3>1
    <3>3. PICK j \in 1 .. Len(rows[i]) : rows[i][j] = k
      BY <2>5, <3>2 DEF Holds
    <3>4. QED
      BY <3>1, <3>3
  <2>6. QED
    BY <2>2, <2>4, <2>5
<1>6. /\ FlattenSeq(methods) \in Seq(Keys)
      /\ \A m \in Labels : /\ Holds(FlattenSeq(methods), <<"answered", m>>)
                           /\ Holds(FlattenSeq(methods), <<"failed", m>>)
                           /\ Holds(FlattenSeq(methods), <<"few", m>>)
                           /\ Holds(FlattenSeq(methods), <<"attempts", m>>)
  <2>1. ASSUME NEW m \in Labels
        PROVE  /\ PerMethod(m) \in Seq(Keys) /\ Len(PerMethod(m)) = 4
               /\ PerMethod(m)[1] = <<"answered", m>> /\ PerMethod(m)[2] = <<"failed", m>>
               /\ PerMethod(m)[3] = <<"few", m>> /\ PerMethod(m)[4] = <<"attempts", m>>
    <3>1. /\ <<"answered", m>> \in Keys /\ <<"failed", m>> \in Keys
          /\ <<"few", m>> \in Keys /\ <<"attempts", m>> \in Keys
      BY DEF Keys
    <3>2. PICK names : names = <<"answered", "failed", "few", "attempts">>
      OBVIOUS
    <3>3. names[1] = "answered" /\ names[2] = "failed" /\ names[3] = "few" /\ names[4] = "attempts"
      BY <3>2
    <3>4. PerMethod(m) = [i \in 1 .. 4 |-> <<names[i], m>>]
      BY <3>2 DEF PerMethod
    <3>5. \A i \in 1 .. 4 : i = 1 \/ i = 2 \/ i = 3 \/ i = 4
      OBVIOUS
    <3>6. /\ PerMethod(m)[1] = <<"answered", m>> /\ PerMethod(m)[2] = <<"failed", m>>
          /\ PerMethod(m)[3] = <<"few", m>> /\ PerMethod(m)[4] = <<"attempts", m>>
      BY <3>3, <3>4
    <3>7. PerMethod(m) \in [1 .. 4 -> Keys]
      BY <3>1, <3>4, <3>5, <3>6
    <3>8. PerMethod(m) \in Seq(Keys) /\ Len(PerMethod(m)) = 4
      <4>1. 4 \in Nat
        OBVIOUS
      <4>2. PICK four \in [1 .. 4 -> Keys] : four = PerMethod(m)
        BY <3>7
      <4>3. four \in Seq(Keys) /\ Len(four) = 4
        BY ONLY <4>1, FunctionIsSeq, four \in [1 .. 4 -> Keys]
      <4>4. QED
        BY <4>2, <4>3
    <3>9. QED
      BY <3>6, <3>8
  <2>2. methods = [i \in DOMAIN Methods |-> methods[i]]
        /\ \A i \in DOMAIN Methods : methods[i] = PerMethod(Methods[i])
    OBVIOUS
  <2> HIDE DEF methods
  <2>3. /\ FlattenSeq(methods) \in Seq(Keys)
        /\ \A x \in Range(Methods) : \E i \in DOMAIN Methods :
             Methods[i] = x /\ \A j \in 1 .. Len(methods[i]) : Holds(FlattenSeq(methods), methods[i][j])
    <3>1. methods \in [DOMAIN Methods -> Seq(Keys)]
      BY <1>2, <2>1, <2>2
    <3>2. QED
      BY <1>1, <3>1, AllOf
  <2>4. ASSUME NEW m \in Labels
        PROVE  /\ Holds(FlattenSeq(methods), <<"answered", m>>)
               /\ Holds(FlattenSeq(methods), <<"failed", m>>)
               /\ Holds(FlattenSeq(methods), <<"few", m>>)
               /\ Holds(FlattenSeq(methods), <<"attempts", m>>)
    <3>1. PICK i \in DOMAIN Methods :
            Methods[i] = m /\ \A j \in 1 .. Len(methods[i]) : Holds(FlattenSeq(methods), methods[i][j])
      BY <2>3 DEF Labels
    <3>2. /\ methods[i] = PerMethod(m) /\ 1 \in 1 .. Len(methods[i]) /\ 2 \in 1 .. Len(methods[i])
          /\ 3 \in 1 .. Len(methods[i]) /\ 4 \in 1 .. Len(methods[i])
      BY <2>1, <2>2, <3>1
    <3>3. QED
      BY <2>1, <3>1, <3>2
  <2>5. QED
    BY <2>3, <2>4
<1>7. /\ fails \in Seq(Keys) /\ \A u \in Upstreams : Holds(fails, <<"failovers", u>>)
  <2>1. PICK n \in Nat : n = Len(Fleet) /\ DOMAIN Fleet = 1 .. n
    BY <1>1, LenProperties
  <2>2. \A i \in 1 .. n : <<"failovers", Fleet[i]>> \in Keys
    BY <1>2, <2>1 DEF Keys
  <2>3. fails \in [1 .. n -> Keys]
    BY <2>1, <2>2
  <2>4. \A f \in [1 .. n -> Keys] : f \in Seq(Keys) /\ Len(f) = n
    BY SeqDef
  <2>5. fails \in Seq(Keys) /\ Len(fails) = n
    BY <2>3, <2>4
  <2>6. \A i \in 1 .. n : fails[i] = <<"failovers", Fleet[i]>>
    BY <2>1
  <2> HIDE DEF fails
  <2>7. ASSUME NEW u \in Upstreams PROVE Holds(fails, <<"failovers", u>>)
    <3>1. PICK i \in 1 .. n : Fleet[i] = u
      BY <2>1 DEF Upstreams, Range
    <3>2. QED
      BY <2>5, <2>6, <3>1 DEF Holds
  <2>8. QED
    BY <2>5, <2>7
<1>8. co \in Seq(Keys) /\ Holds(co, <<"coalesced">>)
  <2>1. <<"coalesced">> \in Keys
    BY DEF Keys
  <2>2. \A k \in Keys : <<k>> \in Seq(Keys) /\ Len(<<k>>) = 1 /\ <<k>>[1] = k
    OBVIOUS
  <2>3. QED
    BY <2>1, <2>2 DEF Holds
<1> DEFINE a == FlattenSeq(ups)
           b == FlattenSeq(rows)
           c == FlattenSeq(methods)
<1> HIDE DEF ups, rows, methods, fails, co
<1>9. PICK w, x, y, z : w = a \o b /\ x = w \o c /\ y = x \o fails /\ z = y \o co /\ LoadOrder = z
  BY <1>3
<1> HIDE DEF a, b, c
<1>10. w \in Seq(Keys) /\ \A k : Holds(a, k) \/ Holds(b, k) => Holds(w, k)
  BY <1>4, <1>5, <1>9, Joined DEF a, b
<1>11. x \in Seq(Keys) /\ \A k : Holds(w, k) \/ Holds(c, k) => Holds(x, k)
  BY <1>6, <1>9, <1>10, Joined DEF c
<1>12. y \in Seq(Keys) /\ \A k : Holds(x, k) \/ Holds(fails, k) => Holds(y, k)
  BY <1>7, <1>9, <1>11, Joined
<1>13. z \in Seq(Keys) /\ \A k : Holds(y, k) \/ Holds(co, k) => Holds(z, k)
  BY <1>8, <1>9, <1>12, Joined
<1>14. \A k : Holds(a, k) \/ Holds(b, k) \/ Holds(c, k) \/ Holds(fails, k) \/ Holds(co, k)
              => Holds(LoadOrder, k)
  BY <1>9, <1>10, <1>11, <1>12, <1>13
<1>15. QED
  BY <1>4, <1>5, <1>6, <1>7, <1>8, <1>9, <1>13, <1>14 DEF a, b, c

\* Each counter has a load, and the counters a record is made of are there.
LEMMA CountersAre ==
  /\ Len(LoadOrder) \in Nat
  /\ \A i \in 1 .. Len(LoadOrder) : LoadOrder[i] \in Counters
  /\ \A k \in Counters : \E i \in 1 .. Len(LoadOrder) : LoadOrder[i] = k
  /\ \A u \in Upstreams : /\ <<"success", u>> \in Counters /\ <<"error", u>> \in Counters
                          /\ <<"failovers", u>> \in Counters
  /\ \A u, v \in Upstreams : u # v => /\ <<"started", u, v>> \in Counters
                                      /\ <<"won", u, v>> \in Counters
  /\ \A m \in Labels : /\ <<"answered", m>> \in Counters /\ <<"failed", m>> \in Counters
                       /\ <<"few", m>> \in Counters /\ <<"attempts", m>> \in Counters
  /\ <<"coalesced">> \in Counters
<1>1. LoadOrder \in Seq(Keys) /\ Len(LoadOrder) \in Nat /\ DOMAIN LoadOrder = 1 .. Len(LoadOrder)
  BY LoadOrderIs, LenProperties
<1>2. \A k : k \in Counters <=> \E i \in 1 .. Len(LoadOrder) : LoadOrder[i] = k
  BY <1>1 DEF Counters, Range
<1>3. \A k : Holds(LoadOrder, k) => k \in Counters
  BY <1>2 DEF Holds
<1>4. QED
  BY <1>1, <1>2, <1>3, LoadOrderIs

-----------------------------------------------------------------------------
(* Records and scripts *)

\* A record adds something.
Records == [Counters -> Nat] \ {Nothing}

\* Script s has still to add to a counter of A; and what it adds to those of A
\* is one unit.
Owes(s, A) == \E i \in DOMAIN s : \E k \in A : s[i][k] # 0
OneUnit(s, A) ==
  \A i, j \in DOMAIN s : \A k, l \in A :
    s[i][k] # 0 /\ s[j][l] # 0 => i = j /\ k = l /\ s[i][k] = 1

\* Of each pair, a chain that adds to the first adds to the second.
Pairs ==
  {<<{<<"few", m>>}, {<<"answered", m>>, <<"failed", m>>}>> : m \in Labels} \cup
  {<<{<<"answered", m>>, <<"failed", m>>}, {<<"attempts", m>>}>> : m \in Labels} \cup
  {<<{<<"won", o[1], o[2]>>}, {<<"started", o[1], o[2]>>}>> :
     o \in {o \in Upstreams \X Upstreams : o[1] # o[2]}} \cup
  {<<{<<"answered", m>> : m \in Labels}, {<<"success", u>> : u \in Upstreams}>>} \cup
  {<<{<<"failovers", u>>}, {<<"error", u>>}>> : u \in Upstreams}

\* The same, of the counters of a kind.
TagSets == {{"few"}, {"answered", "failed"}, {"won"}, {"failovers"}}
OneOfKind(s, T) ==
  \A i, j \in DOMAIN s : \A k, l \in Counters :
    k[1] \in T /\ l[1] \in T /\ s[i][k] # 0 /\ s[j][l] # 0 => i = j /\ k = l /\ s[i][k] = 1

\* One adds one to its counter.
LEMMA OneIs ==
  ASSUME NEW k \in Counters
  PROVE  One(k) \in Records /\ \A l \in Counters : One(k)[l] = IF l = k THEN 1 ELSE 0
<1>1. One(k) \in [Counters -> Nat] /\ \A l \in Counters : One(k)[l] = IF l = k THEN 1 ELSE 0
  BY DEF One, Nothing
<1>2. One(k)[k] # Nothing[k]
  BY <1>1 DEF Nothing
<1>3. QED
  BY <1>1, <1>2 DEF Records

\* What the record of a request adds.
LEMMA RequestIs ==
  ASSUME NEW m \in Labels, NEW answered \in BOOLEAN, NEW n \in {1, 2}
  PROVE  /\ Request(m, answered, n) \in Records
         /\ \A l \in Counters :
              Request(m, answered, n)[l] =
                IF l = <<"few", m>> THEN (IF n <= LastBound THEN 1 ELSE 0)
                ELSE IF l = <<"attempts", m>> THEN n
                ELSE IF l = <<IF answered THEN "answered" ELSE "failed", m>> THEN 1 ELSE 0
<1> DEFINE a == <<IF answered THEN "answered" ELSE "failed", m>>
           r == Request(m, answered, n)
<1>1. a \in Counters /\ <<"few", m>> \in Counters /\ <<"attempts", m>> \in Counters
  BY CountersAre
<1>2. <<"few", m>> # <<"attempts", m>> /\ a # <<"few", m>> /\ a # <<"attempts", m>>
  OBVIOUS
<1>3. PICK few \in Nat : few = IF n <= LastBound THEN 1 ELSE 0
  OBVIOUS
<1>4. r = [One(a) EXCEPT ![<<"attempts", m>>] = n, ![<<"few", m>>] = few]
  BY <1>3 DEF Request
<1>5. One(a) \in [Counters -> Nat] /\ \A l \in Counters : One(a)[l] = IF l = a THEN 1 ELSE 0
  BY <1>1, OneIs DEF Records
<1> HIDE DEF a, r
<1>6. /\ r \in [Counters -> Nat]
      /\ \A l \in Counters : r[l] = IF l = <<"few", m>> THEN few
                                    ELSE IF l = <<"attempts", m>> THEN n
                                    ELSE IF l = a THEN 1 ELSE 0
  BY <1>1, <1>2, <1>4, <1>5
<1>7. r # Nothing
  <2>1. r[a] # Nothing[a]
    BY <1>1, <1>2, <1>6 DEF Nothing
  <2>2. QED
    BY <2>1
<1>8. QED
  BY <1>3, <1>6, <1>7 DEF Records, a, r

\* The counters that a script adds to, and the pairs in terms of them.
Support(s) == {k \in Counters : \E i \in DOMAIN s : s[i][k] # 0}
Balanced(K) ==
  /\ \A m \in Labels : /\ <<"few", m>> \in K => <<"answered", m>> \in K \/ <<"failed", m>> \in K
                       /\ <<"answered", m>> \in K \/ <<"failed", m>> \in K => <<"attempts", m>> \in K
                       /\ <<"answered", m>> \in K => \E u \in Upstreams : <<"success", u>> \in K
  /\ \A u, v \in Upstreams : u # v /\ <<"won", u, v>> \in K => <<"started", u, v>> \in K
  /\ \A u \in Upstreams : <<"failovers", u>> \in K => <<"error", u>> \in K

\* The pairs, by what the proofs use of them: counters, the kinds of the first,
\* and that whoever adds to counters K in keeping with Balanced keeps to them.
LEMMA PairsAre ==
  ASSUME NEW p \in Pairs
  PROVE  /\ p[1] \subseteq Counters /\ p[2] \subseteq Counters
         /\ \E T \in TagSets : \A k \in p[1] : k[1] \in T
         /\ \A K : Balanced(K) /\ (\E k \in p[1] : k \in K) => \E k \in p[2] : k \in K
<1>1. CASE \E m \in Labels : p = <<{<<"few", m>>}, {<<"answered", m>>, <<"failed", m>>}>>
  <2>1. PICK m \in Labels : p[1] = {<<"few", m>>} /\ p[2] = {<<"answered", m>>, <<"failed", m>>}
    BY <1>1
  <2>2. \A k \in p[1] : k[1] \in {"few"}
    BY <2>1
  <2>3. QED
    BY <2>1, <2>2, CountersAre DEF TagSets, Balanced
<1>2. CASE \E m \in Labels : p = <<{<<"answered", m>>, <<"failed", m>>}, {<<"attempts", m>>}>>
  <2>1. PICK m \in Labels : p[1] = {<<"answered", m>>, <<"failed", m>>} /\ p[2] = {<<"attempts", m>>}
    BY <1>2
  <2>2. \A k \in p[1] : k[1] \in {"answered", "failed"}
    BY <2>1
  <2>3. QED
    BY <2>1, <2>2, CountersAre DEF TagSets, Balanced
<1>3. CASE \E o \in Upstreams \X Upstreams :
             o[1] # o[2] /\ p = <<{<<"won", o[1], o[2]>>}, {<<"started", o[1], o[2]>>}>>
  <2>1. PICK u \in Upstreams, v \in Upstreams :
          u # v /\ p[1] = {<<"won", u, v>>} /\ p[2] = {<<"started", u, v>>}
    BY <1>3
  <2>2. \A k \in p[1] : k[1] \in {"won"}
    BY <2>1
  <2>3. QED
    BY <2>1, <2>2, CountersAre DEF TagSets, Balanced
<1>4. CASE p = <<{<<"answered", m>> : m \in Labels}, {<<"success", u>> : u \in Upstreams}>>
  <2>1. p[1] = {<<"answered", m>> : m \in Labels} /\ p[2] = {<<"success", u>> : u \in Upstreams}
    BY <1>4
  <2>2. \A k \in p[1] : k[1] \in {"answered", "failed"}
    BY <2>1
  <2>3. p[1] \subseteq Counters /\ p[2] \subseteq Counters
    BY <2>1, CountersAre
  <2>4. ASSUME NEW K, Balanced(K), NEW k \in p[1], k \in K
        PROVE  \E l \in p[2] : l \in K
    <3>1. PICK m \in Labels : k = <<"answered", m>>
      BY <2>1
    <3>2. PICK u \in Upstreams : <<"success", u>> \in K
      BY <2>4, <3>1 DEF Balanced
    <3>3. QED
      BY <2>1, <3>2
  <2>5. QED
    BY <2>2, <2>3, <2>4 DEF TagSets
<1>5. CASE \E u \in Upstreams : p = <<{<<"failovers", u>>}, {<<"error", u>>}>>
  <2>1. PICK u \in Upstreams : p[1] = {<<"failovers", u>>} /\ p[2] = {<<"error", u>>}
    BY <1>5
  <2>2. \A k \in p[1] : k[1] \in {"failovers"}
    BY <2>1
  <2>3. QED
    BY <2>1, <2>2, CountersAre DEF TagSets, Balanced
<1>6. QED
  BY <1>1, <1>2, <1>3, <1>4, <1>5 DEF Pairs

\* A record of one counter, and that of a request, by the kinds they add to.
Kinds(r, T) == \A k \in Counters : r[k] # 0 => k[1] \in T
Once(r, T) == \A k, l \in Counters :
                k[1] \in T /\ l[1] \in T /\ r[k] # 0 /\ r[l] # 0 => k = l /\ r[k] = 1

\* The kinds of counter that each record adds to.
LEMMA RecordKinds ==
  /\ \A k \in Counters : /\ One(k) \in Records /\ Kinds(One(k), {k[1]})
                         /\ \A T : Once(One(k), T)
  /\ \A m \in Labels : \A answered \in BOOLEAN : \A n \in {1, 2} :
       LET r == Request(m, answered, n)
           a == IF answered THEN "answered" ELSE "failed"
       IN /\ r \in Records
          /\ Kinds(r, {"few", "attempts", a})
          /\ Once(r, {"few"}) /\ Once(r, {"answered", "failed"})
          /\ r[<<"attempts", m>>] # 0 /\ r[<<a, m>>] # 0
          /\ \A k \in Counters : r[k] # 0 => k \in {<<"few", m>>, <<"attempts", m>>, <<a, m>>}
<1>1. ASSUME NEW k \in Counters
      PROVE  One(k) \in Records /\ Kinds(One(k), {k[1]}) /\ \A T : Once(One(k), T)
  BY OneIs DEF Kinds, Once
<1>2. ASSUME NEW m \in Labels, NEW answered \in BOOLEAN, NEW n \in {1, 2}
      PROVE  LET r == Request(m, answered, n)
                 a == IF answered THEN "answered" ELSE "failed"
             IN /\ r \in Records
                /\ Kinds(r, {"few", "attempts", a})
                /\ Once(r, {"few"}) /\ Once(r, {"answered", "failed"})
                /\ r[<<"attempts", m>>] # 0 /\ r[<<a, m>>] # 0
                /\ \A k \in Counters : r[k] # 0 => k \in {<<"few", m>>, <<"attempts", m>>, <<a, m>>}
  <2>1. PICK r, a : r = Request(m, answered, n) /\ a = IF answered THEN "answered" ELSE "failed"
    OBVIOUS
  <2>2. /\ r \in Records
        /\ \A l \in Counters : r[l] = IF l = <<"few", m>> THEN (IF n <= LastBound THEN 1 ELSE 0)
                                      ELSE IF l = <<"attempts", m>> THEN n
                                      ELSE IF l = <<a, m>> THEN 1 ELSE 0
    BY <2>1, RequestIs
  <2>3. a \in {"answered", "failed"} /\ <<a, m>> \in Counters /\ <<"attempts", m>> \in Counters
    BY <2>1, CountersAre
  <2>4. \A k \in Counters : r[k] # 0 => k \in {<<"few", m>>, <<"attempts", m>>, <<a, m>>}
    BY <2>2
  <2>5. r[<<"attempts", m>>] # 0 /\ r[<<a, m>>] = 1
    BY <2>2, <2>3
  <2>6. Kinds(r, {"few", "attempts", a})
    BY <2>4 DEF Kinds
  <2>7. \A k \in Counters : k[1] = "few" /\ r[k] # 0 => k = <<"few", m>> /\ r[k] = 1
    BY <2>2, <2>3, <2>4
  <2>8. \A k \in Counters : k[1] \in {"answered", "failed"} /\ r[k] # 0 => k = <<a, m>> /\ r[k] = 1
    BY <2>2, <2>3, <2>4
  <2>9. Once(r, {"few"}) /\ Once(r, {"answered", "failed"})
    BY <2>7, <2>8 DEF Once
  <2>10. QED
    BY <2>1, <2>2, <2>4, <2>5, <2>6, <2>9
<1>3. QED
  BY <1>1, <1>2

\* A kind that all records but one leave alone, and that one adds to once.
LEMMA OnlyThere ==
  ASSUME NEW s, NEW T, NEW at, \A i \in DOMAIN s : i # at => \A k \in Counters : s[i][k] # 0 => k[1] \notin T,
         at \in DOMAIN s => Once(s[at], T)
  PROVE  OneOfKind(s, T)
BY DEF OneOfKind, Once

\* What a script is, of whatever chain.
ScriptIs(s) ==
  /\ s \in Seq(Records) /\ s # << >>
  /\ \A T \in TagSets : OneOfKind(s, T)
  /\ Balanced(Support(s))

\* A chain of one call.
LEMMA ShortScript ==
  ASSUME NEW m \in Labels, NEW u \in Upstreams, NEW answered \in BOOLEAN, NEW outcome,
         outcome = IF answered THEN "success" ELSE "error",
         NEW s, s = <<Call(u, outcome), Request(m, answered, 1)>>
  PROVE  ScriptIs(s)
<1>1. PICK r, q, a : /\ r = One(<<outcome, u>>) /\ q = Request(m, answered, 1) /\ s = <<r, q>>
                     /\ a = IF answered THEN "answered" ELSE "failed"
  BY DEF Call
<1>2. <<outcome, u>> \in Counters /\ outcome \in {"success", "error"}
  BY CountersAre
<1>3. /\ r \in Records /\ Kinds(r, {outcome}) /\ \A T : Once(r, T)
      /\ q \in Records /\ Kinds(q, {"few", "attempts", a})
      /\ Once(q, {"few"}) /\ Once(q, {"answered", "failed"})
      /\ q[<<"attempts", m>>] # 0 /\ q[<<a, m>>] # 0
      /\ \A k \in Counters : q[k] # 0 => k \in {<<"few", m>>, <<"attempts", m>>, <<a, m>>}
  BY <1>1, <1>2, RecordKinds
<1>4. /\ \A l \in Counters : r[l] = IF l = <<outcome, u>> THEN 1 ELSE 0
  BY <1>1, <1>2, OneIs
<1>5. s \in Seq(Records) /\ DOMAIN s = {1, 2} /\ s[1] = r /\ s[2] = q /\ s # << >>
  BY <1>1, <1>3
<1>6. ASSUME NEW T \in TagSets PROVE OneOfKind(s, T)
  <2>1. CASE T = {"few"} \/ T = {"answered", "failed"}
    <3>1. \A i \in DOMAIN s : i # 2 => \A k \in Counters : s[i][k] # 0 => k[1] \notin T
      BY <1>2, <1>3, <1>5, <2>1 DEF Kinds
    <3>2. Once(s[2], T)
      BY <1>3, <1>5, <2>1
    <3>3. QED
      BY <3>1, <3>2, OnlyThere
  <2>2. CASE T = {"won"} \/ T = {"failovers"}
    <3>1. \A i \in DOMAIN s : i # 0 => \A k \in Counters : s[i][k] # 0 => k[1] \notin T
      BY <1>1, <1>2, <1>3, <1>5, <2>2 DEF Kinds
    <3>2. 0 \in DOMAIN s => Once(s[0], T)
      BY <1>5
    <3>3. QED
      BY ONLY <3>1, <3>2, OnlyThere, Zenon
  <2>3. QED
    BY <2>1, <2>2 DEF TagSets
<1>7. Balanced(Support(s))
  <2>1. <<a, m>> \in Counters /\ <<"attempts", m>> \in Counters
    BY <1>1, CountersAre
  <2>2. /\ \A k \in Support(s) : k \in {<<outcome, u>>, <<"few", m>>, <<"attempts", m>>, <<a, m>>}
        /\ <<outcome, u>> \in Support(s) /\ <<"attempts", m>> \in Support(s)
        /\ <<a, m>> \in Support(s)
    BY <1>2, <1>3, <1>4, <1>5, <2>1 DEF Support
  <2>3. PICK K : K = Support(s)
    OBVIOUS
  <2>4. Balanced(K)
    BY <1>1, <1>2, <2>2, <2>3 DEF Balanced
  <2>5. QED
    BY <2>3, <2>4
<1>8. QED
  BY <1>5, <1>6, <1>7 DEF ScriptIs

\* Scripts of four records are sequences of four.
LEMMA FourRecords ==
  ASSUME NEW r1 \in Records, NEW r2 \in Records, NEW r3 \in Records, NEW r4 \in Records,
         NEW s, s = <<r1, r2, r3, r4>>
  PROVE  /\ s \in Seq(Records) /\ s # << >> /\ DOMAIN s = {1, 2, 3, 4}
         /\ s[1] = r1 /\ s[2] = r2 /\ s[3] = r3 /\ s[4] = r4
         /\ \A k \in Counters : k \in Support(s) <=> r1[k] # 0 \/ r2[k] # 0 \/ r3[k] # 0 \/ r4[k] # 0
<1>1. s \in Seq(Records) /\ s # << >>
  OBVIOUS
<1>2. DOMAIN s = 1 .. 4
  OBVIOUS
<1>3. 1 .. 4 = {1, 2, 3, 4}
  OBVIOUS
<1>4. s[1] = r1 /\ s[2] = r2 /\ s[3] = r3 /\ s[4] = r4
  OBVIOUS
<1>5. DOMAIN s = {1, 2, 3, 4}
  BY <1>2, <1>3
<1>6. \A k \in Counters : k \in Support(s) <=> \E i \in {1, 2, 3, 4} : s[i][k] # 0
  BY ONLY <1>5 DEF Support
<1>7. QED
  BY ONLY <1>1, <1>4, <1>5, <1>6

\* A chain that fails over.
LEMMA FailoverScript ==
  ASSUME NEW m \in Labels, NEW u \in Upstreams, NEW v \in Upstreams, u # v,
         NEW s, s = << Call(u, "error"), FailoverFrom(u), Call(v, "success"), Request(m, TRUE, 2) >>
  PROVE  ScriptIs(s)
<1>1. PICK r1, r2, r3, q :
        /\ r1 = One(<<"error", u>>) /\ r2 = One(<<"failovers", u>>) /\ r3 = One(<<"success", v>>)
        /\ q = Request(m, TRUE, 2) /\ s = <<r1, r2, r3, q>>
  BY DEF Call, FailoverFrom
<1>2. <<"error", u>> \in Counters /\ <<"failovers", u>> \in Counters /\ <<"success", v>> \in Counters
  BY CountersAre
<1>3. /\ r1 \in Records /\ Kinds(r1, {"error"})
      /\ r2 \in Records /\ Kinds(r2, {"failovers"}) /\ \A T : Once(r2, T)
      /\ r3 \in Records /\ Kinds(r3, {"success"})
  BY <1>1, <1>2, RecordKinds
<1>4. /\ q \in Records /\ Kinds(q, {"few", "attempts", "answered"})
      /\ Once(q, {"few"}) /\ Once(q, {"answered", "failed"})
      /\ q[<<"attempts", m>>] # 0 /\ q[<<"answered", m>>] # 0
      /\ \A k \in Counters : q[k] # 0 => k \in {<<"few", m>>, <<"attempts", m>>, <<"answered", m>>}
  BY <1>1, RecordKinds
<1>5. /\ \A l \in Counters : r1[l] = IF l = <<"error", u>> THEN 1 ELSE 0
      /\ \A l \in Counters : r2[l] = IF l = <<"failovers", u>> THEN 1 ELSE 0
      /\ \A l \in Counters : r3[l] = IF l = <<"success", v>> THEN 1 ELSE 0
  BY <1>1, <1>2, OneIs
<1>6. /\ s \in Seq(Records) /\ DOMAIN s = {1, 2, 3, 4} /\ s # << >>
      /\ s[1] = r1 /\ s[2] = r2 /\ s[3] = r3 /\ s[4] = q
      /\ \A k \in Counters : k \in Support(s) <=> r1[k] # 0 \/ r2[k] # 0 \/ r3[k] # 0 \/ q[k] # 0
  <2>1. /\ r1 \in Records /\ r2 \in Records /\ r3 \in Records /\ q \in Records
        /\ s = <<r1, r2, r3, q>>
    BY <1>1, <1>3, <1>4
  <2>2. QED
    BY ONLY <2>1, FourRecords
<1>7. ASSUME NEW T \in TagSets PROVE OneOfKind(s, T)
  <2>1. CASE T = {"few"} \/ T = {"answered", "failed"}
    <3>1. \A i \in DOMAIN s : i # 4 => \A k \in Counters : s[i][k] # 0 => k[1] \notin T
      BY <1>3, <1>6, <2>1 DEF Kinds
    <3>2. Once(s[4], T)
      BY <1>4, <1>6, <2>1
    <3>3. QED
      BY <3>1, <3>2, OnlyThere
  <2>2. CASE T = {"won"} \/ T = {"failovers"}
    <3>1. \A i \in DOMAIN s : i # 2 => \A k \in Counters : s[i][k] # 0 => k[1] \notin T
      BY <1>3, <1>4, <1>6, <2>2 DEF Kinds
    <3>2. Once(s[2], T)
      BY <1>3, <1>6
    <3>3. QED
      BY <3>1, <3>2, OnlyThere
  <2>3. QED
    BY <2>1, <2>2 DEF TagSets
<1>8. Balanced(Support(s))
  <2>1. <<"answered", m>> \in Counters /\ <<"attempts", m>> \in Counters
    BY CountersAre
  <2>2. /\ \A k \in Support(s) : k \in {<<"error", u>>, <<"failovers", u>>, <<"success", v>>,
                                        <<"few", m>>, <<"attempts", m>>, <<"answered", m>>}
        /\ <<"error", u>> \in Support(s) /\ <<"success", v>> \in Support(s)
        /\ <<"attempts", m>> \in Support(s) /\ <<"answered", m>> \in Support(s)
    <3>1. Support(s) \subseteq Counters
      BY DEF Support
    <3>2. PICK K : K = Support(s)
      OBVIOUS
    <3>3. \A k \in Counters : k \in K <=> r1[k] # 0 \/ r2[k] # 0 \/ r3[k] # 0 \/ q[k] # 0
      BY <1>6, <3>2
    <3>4. K \subseteq Counters
      BY <3>1, <3>2
    <3>5. \A k \in K : \/ k = <<"error", u>> \/ k = <<"failovers", u>> \/ k = <<"success", v>>
                      \/ k \in {<<"few", m>>, <<"attempts", m>>, <<"answered", m>>}
      BY <1>4, <1>5, <3>3, <3>4
    <3>6. <<"error", u>> \in K /\ <<"success", v>> \in K
      BY <1>2, <1>5, <3>3
    <3>7. <<"attempts", m>> \in K /\ <<"answered", m>> \in K
      BY <1>4, <2>1, <3>3
    <3>8. QED
      BY <3>2, <3>5, <3>6, <3>7
  <2>3. PICK K : K = Support(s)
    OBVIOUS
  <2>4. Balanced(K)
    BY <2>2, <2>3 DEF Balanced
  <2>5. QED
    BY <2>3, <2>4
<1>9. QED
  BY <1>6, <1>7, <1>8 DEF ScriptIs

\* A chain whose hedge wins.
LEMMA HedgeScript ==
  ASSUME NEW m \in Labels, NEW u \in Upstreams, NEW v \in Upstreams, u # v,
         NEW s, s = << HedgeStart(u, v), Call(v, "success"), HedgeWin(u, v), Request(m, TRUE, 2) >>
  PROVE  ScriptIs(s)
<1>1. PICK r1, r2, r3, q :
        /\ r1 = One(<<"started", u, v>>) /\ r2 = One(<<"success", v>>) /\ r3 = One(<<"won", u, v>>)
        /\ q = Request(m, TRUE, 2) /\ s = <<r1, r2, r3, q>>
  BY DEF Call, HedgeStart, HedgeWin
<1>2. <<"started", u, v>> \in Counters /\ <<"won", u, v>> \in Counters /\ <<"success", v>> \in Counters
  BY CountersAre
<1>3. /\ r1 \in Records /\ Kinds(r1, {"started"})
      /\ r2 \in Records /\ Kinds(r2, {"success"})
      /\ r3 \in Records /\ Kinds(r3, {"won"}) /\ \A T : Once(r3, T)
  BY <1>1, <1>2, RecordKinds
<1>4. /\ q \in Records /\ Kinds(q, {"few", "attempts", "answered"})
      /\ Once(q, {"few"}) /\ Once(q, {"answered", "failed"})
      /\ q[<<"attempts", m>>] # 0 /\ q[<<"answered", m>>] # 0
      /\ \A k \in Counters : q[k] # 0 => k \in {<<"few", m>>, <<"attempts", m>>, <<"answered", m>>}
  BY <1>1, RecordKinds
<1>5. /\ \A l \in Counters : r1[l] = IF l = <<"started", u, v>> THEN 1 ELSE 0
      /\ \A l \in Counters : r2[l] = IF l = <<"success", v>> THEN 1 ELSE 0
      /\ \A l \in Counters : r3[l] = IF l = <<"won", u, v>> THEN 1 ELSE 0
  BY <1>1, <1>2, OneIs
<1>6. /\ s \in Seq(Records) /\ DOMAIN s = {1, 2, 3, 4} /\ s # << >>
      /\ s[1] = r1 /\ s[2] = r2 /\ s[3] = r3 /\ s[4] = q
      /\ \A k \in Counters : k \in Support(s) <=> r1[k] # 0 \/ r2[k] # 0 \/ r3[k] # 0 \/ q[k] # 0
  <2>1. /\ r1 \in Records /\ r2 \in Records /\ r3 \in Records /\ q \in Records
        /\ s = <<r1, r2, r3, q>>
    BY <1>1, <1>3, <1>4
  <2>2. QED
    BY ONLY <2>1, FourRecords
<1>7. ASSUME NEW T \in TagSets PROVE OneOfKind(s, T)
  <2>1. CASE T = {"few"} \/ T = {"answered", "failed"}
    <3>1. \A i \in DOMAIN s : i # 4 => \A k \in Counters : s[i][k] # 0 => k[1] \notin T
      BY <1>3, <1>6, <2>1 DEF Kinds
    <3>2. Once(s[4], T)
      BY <1>4, <1>6, <2>1
    <3>3. QED
      BY <3>1, <3>2, OnlyThere
  <2>2. CASE T = {"won"} \/ T = {"failovers"}
    <3>1. \A i \in DOMAIN s : i # 3 => \A k \in Counters : s[i][k] # 0 => k[1] \notin T
      BY <1>3, <1>4, <1>6, <2>2 DEF Kinds
    <3>2. Once(s[3], T)
      BY <1>3, <1>6
    <3>3. QED
      BY <3>1, <3>2, OnlyThere
  <2>3. QED
    BY <2>1, <2>2 DEF TagSets
<1>8. Balanced(Support(s))
  <2>1. <<"answered", m>> \in Counters /\ <<"attempts", m>> \in Counters
    BY CountersAre
  <2>2. /\ \A k \in Support(s) : k \in {<<"started", u, v>>, <<"won", u, v>>, <<"success", v>>,
                                        <<"few", m>>, <<"attempts", m>>, <<"answered", m>>}
        /\ <<"started", u, v>> \in Support(s) /\ <<"success", v>> \in Support(s)
        /\ <<"attempts", m>> \in Support(s) /\ <<"answered", m>> \in Support(s)
    <3>1. Support(s) \subseteq Counters
      BY DEF Support
    <3>2. PICK K : K = Support(s)
      OBVIOUS
    <3>3. \A k \in Counters : k \in K <=> r1[k] # 0 \/ r2[k] # 0 \/ r3[k] # 0 \/ q[k] # 0
      BY <1>6, <3>2
    <3>4. K \subseteq Counters
      BY <3>1, <3>2
    <3>5. \A k \in K : \/ k = <<"started", u, v>> \/ k = <<"won", u, v>> \/ k = <<"success", v>>
                      \/ k \in {<<"few", m>>, <<"attempts", m>>, <<"answered", m>>}
      BY <1>4, <1>5, <3>3, <3>4
    <3>6. <<"started", u, v>> \in K /\ <<"success", v>> \in K
      BY <1>2, <1>5, <3>3
    <3>7. <<"attempts", m>> \in K /\ <<"answered", m>> \in K
      BY <1>4, <2>1, <3>3
    <3>8. QED
      BY <3>2, <3>5, <3>6, <3>7
  <2>3. PICK K : K = Support(s)
    OBVIOUS
  <2>4. Balanced(K)
    BY <2>2, <2>3 DEF Balanced
  <2>5. QED
    BY <2>3, <2>4
<1>9. QED
  BY <1>6, <1>7, <1>8 DEF ScriptIs

\* A follower.
LEMMA FollowerScript ==
  ASSUME NEW s, s = <<Coalesced>>
  PROVE  ScriptIs(s)
<1>1. PICK r : r = One(<<"coalesced">>) /\ s = <<r>>
  BY DEF Coalesced
<1>2. /\ r \in Records /\ Kinds(r, {"coalesced"})
      /\ \A l \in Counters : r[l] = IF l = <<"coalesced">> THEN 1 ELSE 0
  BY <1>1, CountersAre, RecordKinds, OneIs
<1>3. s \in Seq(Records) /\ DOMAIN s = {1} /\ s[1] = r /\ s # << >>
  BY <1>1, <1>2
<1>4. ASSUME NEW T \in TagSets PROVE OneOfKind(s, T)
  <2>1. \A i \in DOMAIN s : \A k \in Counters : s[i][k] # 0 => k[1] \notin T
    BY <1>2, <1>3 DEF Kinds, TagSets
  <2>2. QED
    BY <2>1 DEF OneOfKind
<1>5. Balanced(Support(s))
  <2>1. \A k \in Support(s) : k = <<"coalesced">>
    BY <1>2, <1>3 DEF Support
  <2>2. PICK K : K = Support(s)
    OBVIOUS
  <2>3. \A k \in K : k[1] = "coalesced"
    BY <2>1, <2>2
  <2>4. Balanced(K)
    BY <2>3 DEF Balanced
  <2>5. QED
    BY <2>2, <2>4
<1>6. QED
  BY <1>3, <1>4, <1>5 DEF ScriptIs

\* Every chain's records.
LEMMA ScriptsAre ==
  ASSUME NEW s \in Scripts
  PROVE  /\ s \in Seq(Records) /\ s # << >>
         /\ \A p \in Pairs : OneUnit(s, p[1]) /\ (Owes(s, p[1]) => Owes(s, p[2]))
<1>1. ScriptIs(s)
  <2>1. CASE s = <<Coalesced>>
    BY <2>1, FollowerScript
  <2>2. CASE s # <<Coalesced>>
    <3>1. PICK m \in Labels, order \in Orders : s \in ScriptsOf(m, order[1], order[2])
      BY <2>2 DEF Scripts
    <3>2. PICK u \in Upstreams, v \in Upstreams : u # v /\ u = order[1] /\ v = order[2]
      BY OrdersAssumption DEF Upstreams
    <3>3. \/ s = << Call(u, "success"), Request(m, TRUE, 1) >>
          \/ s = << Call(u, "error"), Request(m, FALSE, 1) >>
          \/ s = << Call(u, "error"), FailoverFrom(u), Call(v, "success"), Request(m, TRUE, 2) >>
          \/ s = << HedgeStart(u, v), Call(v, "success"), HedgeWin(u, v), Request(m, TRUE, 2) >>
      BY <3>1, <3>2 DEF ScriptsOf
    <3>4. QED
      BY <3>3, <3>2, ShortScript, FailoverScript, HedgeScript
  <2>3. QED
    BY <2>1, <2>2
<1>2. ASSUME NEW p \in Pairs PROVE OneUnit(s, p[1]) /\ (Owes(s, p[1]) => Owes(s, p[2]))
  <2>1. /\ p[1] \subseteq Counters /\ p[2] \subseteq Counters
        /\ \E T \in TagSets : \A k \in p[1] : k[1] \in T
        /\ \A K : Balanced(K) /\ (\E k \in p[1] : k \in K) => \E k \in p[2] : k \in K
    BY PairsAre
  <2>2. OneUnit(s, p[1])
    <3>1. PICK T \in TagSets : \A k \in p[1] : k[1] \in T
      BY <2>1
    <3>2. OneOfKind(s, T)
      BY <1>1 DEF ScriptIs
    <3>3. QED
      BY <2>1, <3>1, <3>2 DEF OneOfKind, OneUnit
  <2>3. ASSUME Owes(s, p[1]) PROVE Owes(s, p[2])
    <3>1. Balanced(Support(s))
      BY <1>1 DEF ScriptIs
    <3>2. \E k \in p[1] : k \in Support(s)
      BY <2>1, <2>3 DEF Owes, Support
    <3>3. PICK k \in p[2] : k \in Support(s)
      BY <2>1, <3>1, <3>2
    <3>4. QED
      BY <3>3 DEF Owes, Support
  <2>4. QED
    BY <2>2, <2>3
<1>3. QED
  BY <1>1, <1>2 DEF ScriptIs

-----------------------------------------------------------------------------
(* The inductive invariant *)

\* The sum of g over S, as the number of its units.
Units(S, g) == {p \in S \X (Nat \ {0}) : p[2] <= g[p[1]]}
Total(S, g) == Cardinality(Units(S, g))

\* What the scrape in progress would read if it made the rest of its loads now.
Seen(k) == \E i \in 1 .. loaded : LoadOrder[i] = k
View == [k \in Counters |-> IF Seen(k) THEN reading[k] ELSE counters[k]]

\* The chains that have still to add to a counter of A.
Owing(A) == {c \in Chains : Owes(script[c], A)}

\* What a chain has still to record adds at most one unit to the first of a pair.
ScriptsAreValid ==
  /\ script \in [Chains -> Seq(Records)]
  /\ \A c \in Chains : \A p \in Pairs : OneUnit(script[c], p[1])

\* Only chains that have begun overlap a scrape, and only so many are made.
ScrapeIsBounded ==
  /\ overlap <= Cardinality(ran)
  /\ loaded > 0 => scrapes < MaxScrapes

\* A scrape shows no less than the last, and no more than there is.
InOrder == \A k \in Counters : shown.values[k] <= View[k] /\ View[k] <= counters[k]

\* Of each pair, whoever adds to the first has added to the second or will.
Backed ==
  \A p \in Pairs : Total(p[1], counters) + Cardinality(Owing(p[1]))
                     <= Total(p[2], counters) + Cardinality(Owing(p[2]))

\* And what a scrape in progress shows of the second lacks at most the chains
\* that overlap it.
ViewIsBacked ==
  loaded > 0 => \A p \in Pairs : Total(p[1], counters) + Cardinality(Owing(p[1]))
                                   <= Total(p[2], View) + overlap

\* And so in the scrape shown.
ShownIsBacked ==
  \A p \in Pairs : Total(p[1], shown.values) <= Total(p[2], shown.values) + shown.overlap

\* The inductive invariant.
IInv ==
  /\ TypeOK
  /\ ScriptsAreValid
  /\ ScrapeIsBounded
  /\ InOrder
  /\ Backed
  /\ ViewIsBacked
  /\ ShownIsBacked

-----------------------------------------------------------------------------
(* Sums *)

\* Adding an element adds its value.
LEMMA UnitsOfOneMore ==
  ASSUME NEW S, NEW x, x \notin S, NEW g, g[x] \in Nat, IsFiniteSet(Units(S, g))
  PROVE  /\ IsFiniteSet(Units(S \cup {x}, g))
         /\ Total(S \cup {x}, g) = Total(S, g) + g[x]
<1>n. PICK n \in Nat : n = g[x]
  OBVIOUS
<1> DEFINE own == {x} \X (1 .. n)
<1>1. Units(S \cup {x}, g) = Units(S, g) \cup own
  BY <1>n DEF Units
<1>2. Units(S, g) \cap own = {}
  BY DEF Units
<1>3. IsFiniteSet(own) /\ Cardinality(own) = n
  <2>1. IsFiniteSet({x}) /\ Cardinality({x}) = 1
    BY FS_Singleton
  <2>2. IsFiniteSet(1 .. n) /\ Cardinality(1 .. n) = n
    BY FS_Interval
  <2>3. IsFiniteSet(own) /\ Cardinality(own) = Cardinality({x}) * Cardinality(1 .. n)
    BY <2>1, <2>2, FS_Product
  <2>4. QED
    BY <2>1, <2>2, <2>3
<1> HIDE DEF own
<1>4. /\ IsFiniteSet(Units(S, g) \cup own)
      /\ Cardinality(Units(S, g) \cup own) = Total(S, g) + n - Cardinality(Units(S, g) \cap own)
  BY <1>3, FS_Union DEF Total
<1>5. Cardinality(Units(S, g) \cap own) = 0 /\ Total(S, g) \in Nat
  BY <1>2, FS_EmptySet, FS_CardinalityType DEF Total
<1>6. Cardinality(Units(S, g) \cup own) = Total(S, g) + n
  BY <1>4, <1>5
<1>7. QED
  BY <1>n, <1>1, <1>4, <1>6 DEF Total

\* A sum of finitely many numbers is a number.
LEMMA UnitsAreFinite ==
  ASSUME NEW S, IsFiniteSet(S), NEW g, \A x \in S : g[x] \in Nat
  PROVE  IsFiniteSet(Units(S, g)) /\ Total(S, g) \in Nat
<1> DEFINE Good == {T \in SUBSET S : IsFiniteSet(Units(T, g))}
<1>1. {} \in Good
  <2>1. Units({}, g) = {}
    BY DEF Units
  <2>2. QED
    BY <2>1, FS_EmptySet
<1>2. \A T \in SUBSET S : \A x \in S \ T : T \in Good => T \cup {x} \in Good
  BY UnitsOfOneMore
<1>3. S \in Good
  <2> HIDE DEF Good
  <2>1. QED
    BY <1>1, <1>2, SetInduction
<1>4. QED
  BY <1>3, FS_CardinalityType DEF Total

\* A sum of nothing.
LEMMA TotalOfNone == ASSUME NEW g PROVE Total({}, g) = 0
<1>1. Units({}, g) = {}
  BY DEF Units
<1>2. QED
  BY <1>1, FS_EmptySet DEF Total

\* One element more, of a set whose values are all numbers.
LEMMA TotalOfOneMore ==
  ASSUME NEW S, IsFiniteSet(S), NEW x, x \notin S, NEW g, \A y \in S \cup {x} : g[y] \in Nat
  PROVE  /\ Total(S \cup {x}, g) = Total(S, g) + g[x]
         /\ Total(S, g) \in Nat /\ g[x] \in Nat
BY UnitsOfOneMore, UnitsAreFinite

\* What is not looked at makes no difference.
LEMMA TotalOfSame ==
  ASSUME NEW S, NEW g, NEW h, \A x \in S : g[x] = h[x]
  PROVE  Total(S, g) = Total(S, h)
<1>1. Units(S, g) = Units(S, h)
  BY DEF Units
<1>2. QED
  BY <1>1 DEF Total

\* One value is changed.
LEMMA TotalOfChanged ==
  ASSUME NEW S, IsFiniteSet(S), NEW x \in S, NEW g, NEW h,
         \A y \in S : g[y] \in Nat /\ h[y] \in Nat /\ (y # x => h[y] = g[y])
  PROVE  Total(S, h) = Total(S, g) - g[x] + h[x]
<1> DEFINE T == S \ {x}
<1>1. IsFiniteSet(T) /\ S = T \cup {x} /\ x \notin T
  BY FS_RemoveElement
<1>2. \A y \in T : g[y] = h[y]
  OBVIOUS
<1>3. \A y \in T \cup {x} : g[y] \in Nat /\ h[y] \in Nat
  OBVIOUS
<1> HIDE DEF T
<1>4. Total(T, g) = Total(T, h)
  BY <1>2, TotalOfSame
<1>5. /\ Total(S, g) = Total(T, g) + g[x] /\ Total(T, g) \in Nat /\ g[x] \in Nat
      /\ Total(S, h) = Total(T, h) + h[x] /\ h[x] \in Nat
  BY <1>1, <1>3, TotalOfOneMore
<1>6. QED
  BY <1>4, <1>5

\* Values that are nowhere greater add up to no more.
LEMMA TotalGrows ==
  ASSUME NEW S, IsFiniteSet(S), NEW g, NEW h, \A x \in S : g[x] \in Nat /\ h[x] \in Nat /\ g[x] <= h[x]
  PROVE  Total(S, g) <= Total(S, h)
<1>1. Units(S, g) \in SUBSET Units(S, h)
  BY DEF Units
<1>2. IsFiniteSet(Units(S, h))
  BY UnitsAreFinite
<1>3. QED
  BY <1>1, <1>2, FS_Subset DEF Total

\* Where the values are zero nothing is added.
LEMMA TotalOfSupport ==
  ASSUME NEW S, NEW T, T \subseteq S, NEW g, \A x \in S \ T : g[x] = 0
  PROVE  Total(S, g) = Total(T, g)
<1>1. Units(S, g) = Units(T, g)
  BY DEF Units
<1>2. QED
  BY <1>1 DEF Total

\* There are finitely many counters, and so in each pair.
LEMMA CountersAreFinite ==
  /\ IsFiniteSet(Counters)
  /\ \A p \in Pairs : /\ IsFiniteSet(p[1]) /\ p[1] \subseteq Counters
                      /\ IsFiniteSet(p[2]) /\ p[2] \subseteq Counters
<1>1. IsFiniteSet(1 .. Len(LoadOrder))
  BY CountersAre, FS_Interval
<1>2. LoadOrder \in [1 .. Len(LoadOrder) -> Counters]
  <2>1. LoadOrder \in [1 .. Len(LoadOrder) -> Keys]
    BY LoadOrderIs, LenProperties
  <2>2. QED
    BY <2>1, CountersAre
<1>3. LoadOrder \in Surjection(1 .. Len(LoadOrder), Counters)
  BY <1>2, CountersAre DEF Surjection
<1>4. IsFiniteSet(Counters)
  BY <1>1, <1>3, FS_Surjection
<1>5. QED
  BY <1>4, PairsAre, FS_Subset

\* The sums of a pair are numbers.
LEMMA TotalsOfPairs ==
  ASSUME NEW p \in Pairs, NEW v \in [Counters -> Nat]
  PROVE  Total(p[1], v) \in Nat /\ Total(p[2], v) \in Nat
<1>1. /\ IsFiniteSet(p[1]) /\ \A k \in p[1] : v[k] \in Nat
      /\ IsFiniteSet(p[2]) /\ \A k \in p[2] : v[k] \in Nat
  BY CountersAreFinite
<1>2. QED
  BY <1>1, UnitsAreFinite

\* They do not fall when no counter does.
LEMMA PairsGrow ==
  ASSUME NEW p \in Pairs, NEW v \in [Counters -> Nat], NEW w \in [Counters -> Nat],
         \A k \in Counters : v[k] <= w[k]
  PROVE  Total(p[1], v) <= Total(p[1], w) /\ Total(p[2], v) <= Total(p[2], w)
<1>1. /\ IsFiniteSet(p[1]) /\ \A k \in p[1] : v[k] \in Nat /\ w[k] \in Nat /\ v[k] <= w[k]
      /\ IsFiniteSet(p[2]) /\ \A k \in p[2] : v[k] \in Nat /\ w[k] \in Nat /\ v[k] <= w[k]
  BY CountersAreFinite
<1>2. QED
  BY <1>1, TotalGrows

-----------------------------------------------------------------------------
(* Steps *)

\* Finitely many chains owe.
LEMMA OwingIs ==
  ASSUME NEW A
  PROVE  Owing(A) \subseteq Chains /\ IsFiniteSet(Owing(A)) /\ Cardinality(Owing(A)) \in Nat
BY ChainsAssumption, FS_Subset, FS_CardinalityType DEF Owing

\* Before the first load the view is of the counters, after the last of what was
\* read.
LEMMA ViewIs ==
  ASSUME TypeOK
  PROVE  /\ View \in [Counters -> Nat]
         /\ \A k \in Counters : View[k] = IF Seen(k) THEN reading[k] ELSE counters[k]
         /\ loaded = 0 => View = counters
         /\ loaded = Len(LoadOrder) => View = reading
<1>1. counters \in [Counters -> Nat] /\ reading \in [Counters -> Nat]
  BY DEF TypeOK
<1>2. View \in [Counters -> Nat] /\ \A k \in Counters : View[k] = IF Seen(k) THEN reading[k] ELSE counters[k]
  BY <1>1 DEF View
<1>3. ASSUME loaded = 0 PROVE View = counters
  <2>1. \A k \in Counters : ~Seen(k)
    BY <1>3 DEF Seen
  <2>2. QED
    BY <1>1, <1>2, <2>1
<1>4. ASSUME loaded = Len(LoadOrder) PROVE View = reading
  <2>1. \A k \in Counters : Seen(k)
    BY <1>4, CountersAre DEF Seen
  <2>2. QED
    BY <1>1, <1>2, <2>1
<1>5. QED
  BY <1>2, <1>3, <1>4

\* Nothing is recorded and nothing is shown.
LEMMA InitEstablishes == Init => IInv
<1> SUFFICES ASSUME Init PROVE IInv
  OBVIOUS
<1>1. /\ counters = Nothing /\ script = [c \in Chains |-> << >>] /\ ran = {} /\ loaded = 0
      /\ reading = Nothing /\ overlap = 0 /\ scrapes = 0
      /\ shown.values = Nothing /\ shown.overlap = 0
  BY DEF Init
<1>2. Nothing \in [Counters -> Nat] /\ \A k \in Counters : Nothing[k] = 0
  BY DEF Nothing
<1>3. Cardinality(Chains) \in Nat /\ Cardinality(ran) = 0 /\ Len(LoadOrder) \in Nat
  BY <1>1, ChainsAssumption, FS_CardinalityType, FS_EmptySet, CountersAre
<1>4. \A c \in Chains : script[c] = << >>
  BY <1>1
<1>5. TypeOK
  <2>1. /\ {counters, reading, shown.values} \subseteq [Counters -> Nat]
        /\ {overlap, shown.overlap} \subseteq 0 .. Cardinality(Chains)
        /\ scrapes \in 0 .. MaxScrapes /\ loaded \in 0 .. Len(LoadOrder)
    BY <1>1, <1>2, <1>3, BoundsAssumption
  <2>2. QED
    BY <1>1, <1>4, <2>1 DEF TypeOK
<1>6. ScriptsAreValid
  <2>1. << >> \in Seq(Records) /\ DOMAIN << >> = {}
    BY EmptySeq
  <2>2. QED
    BY <1>1, <1>4, <2>1 DEF ScriptsAreValid, OneUnit
<1>7. View = counters
  BY <1>1, <1>5, ViewIs
<1>8. \A p \in Pairs : Total(p[1], Nothing) = 0 /\ Total(p[2], Nothing) = 0
  <2> SUFFICES ASSUME NEW p \in Pairs
               PROVE  Total(p[1], Nothing) = 0 /\ Total(p[2], Nothing) = 0
    OBVIOUS
  <2>1. (\A k \in p[1] : Nothing[k] = 0) /\ (\A k \in p[2] : Nothing[k] = 0)
    BY <1>2, CountersAreFinite
  <2>2. Total(p[1], Nothing) = Total({}, Nothing) /\ Total(p[2], Nothing) = Total({}, Nothing)
    BY <2>1, TotalOfSupport
  <2>3. QED
    BY <2>2, TotalOfNone
<1>9. \A A : Cardinality(Owing(A)) = 0
  <2>1. \A A : Owing(A) = {}
    BY <1>4 DEF Owing, Owes
  <2>2. QED
    BY <2>1, FS_EmptySet
<1>10. InOrder
  BY <1>1, <1>2, <1>7 DEF InOrder
<1>11. Backed /\ ViewIsBacked /\ ShownIsBacked
  BY <1>1, <1>8, <1>9 DEF Backed, ViewIsBacked, ShownIsBacked
<1>12. ScrapeIsBounded
  BY <1>1, <1>3 DEF ScrapeIsBounded
<1>13. QED
  BY <1>5, <1>6, <1>10, <1>11, <1>12 DEF IInv

\* A chain that begins owes the second of each pair whose first it owes, and
\* overlaps the scrape in progress.
LEMMA BeginPreserves ==
  ASSUME IInv, NEW c \in Chains, NEW s \in Scripts, Begin(c, s)
  PROVE  IInv'
<1>1. /\ c \notin ran /\ ran' = ran \cup {c} /\ script' = [script EXCEPT ![c] = s]
      /\ overlap' = IF loaded = 0 THEN overlap ELSE overlap + 1
      /\ UNCHANGED <<counters, loaded, reading, shown, scrapes>>
  BY DEF Begin
<1>2. TypeOK /\ ScriptsAreValid /\ script \in [Chains -> Seq(Records)]
  BY DEF IInv, ScriptsAreValid
<1>3. /\ s \in Seq(Records) /\ s # << >>
      /\ \A p \in Pairs : OneUnit(s, p[1]) /\ (Owes(s, p[1]) => Owes(s, p[2]))
  BY ScriptsAre
<1>4. script[c] = << >> /\ \A d \in Chains : script'[d] = IF d = c THEN s ELSE script[d]
  BY <1>1, <1>2 DEF TypeOK
<1>5. PICK n \in Nat : n = Cardinality(ran) /\ Cardinality(ran') = n + 1 /\ n + 1 <= Cardinality(Chains)
                       /\ Cardinality(Chains) \in Nat
  <2>1. ran \subseteq Chains /\ ran' \subseteq Chains
    BY <1>1, <1>2 DEF TypeOK
  <2>2. IsFiniteSet(ran) /\ Cardinality(ran) \in Nat
    BY <2>1, ChainsAssumption, FS_Subset, FS_CardinalityType
  <2>3. Cardinality(ran') = Cardinality(ran) + 1
    BY <1>1, <2>2, FS_AddElement
  <2>4. Cardinality(ran') <= Cardinality(Chains) /\ Cardinality(Chains) \in Nat
    BY <2>1, ChainsAssumption, FS_Subset, FS_CardinalityType
  <2>5. QED
    BY <2>2, <2>3, <2>4
<1>6. overlap \in Nat /\ overlap <= n /\ loaded \in Nat
  BY <1>2, <1>5, CountersAre DEF IInv, ScrapeIsBounded, TypeOK
<1>7. TypeOK'
  <2>1. overlap' \in 0 .. Cardinality(Chains)
    BY <1>1, <1>5, <1>6
  <2>2. {overlap, shown.overlap}' \subseteq 0 .. Cardinality(Chains)
    BY <1>1, <1>2, <2>1 DEF TypeOK
  <2>3. \A d \in Chains : script'[d] # << >> => d \in ran' /\ Head(script'[d]) # Nothing
    <3>1. Head(s) # Nothing
      BY <1>3 DEF Records
    <3>2. QED
      BY <1>1, <1>2, <1>4, <3>1 DEF TypeOK
  <2>4. QED
    BY <1>1, <1>2, <2>2, <2>3 DEF TypeOK
<1>8. ScriptsAreValid'
  BY <1>1, <1>2, <1>3, <1>4 DEF ScriptsAreValid
<1>9. ScrapeIsBounded'
  BY <1>1, <1>5, <1>6 DEF IInv, ScrapeIsBounded
<1>10. View' = View
  BY <1>1 DEF View, Seen
<1>11. InOrder'
  BY <1>1, <1>10 DEF IInv, InOrder
<1>12. \A A : /\ Cardinality(Owing(A)) \in Nat
              /\ Cardinality(Owing(A)') = Cardinality(Owing(A)) + (IF Owes(s, A) THEN 1 ELSE 0)
  <2> SUFFICES ASSUME NEW A
               PROVE  /\ Cardinality(Owing(A)) \in Nat
                      /\ Cardinality(Owing(A)') = Cardinality(Owing(A)) + (IF Owes(s, A) THEN 1 ELSE 0)
    OBVIOUS
  <2>1. ~Owes(<< >>, A)
    BY DEF Owes
  <2>2. c \notin Owing(A)
    BY <1>4, <2>1 DEF Owing
  <2>3. Owing(A)' = IF Owes(s, A) THEN Owing(A) \cup {c} ELSE Owing(A)
    <3>1. Owing(A)' = {d \in Chains : Owes(script'[d], A)}
      BY DEF Owing, Owes
    <3>2. \A d \in Chains : Owes(script'[d], A) <=> IF d = c THEN Owes(s, A) ELSE Owes(script[d], A)
      BY <1>4
    <3>3. QED
      BY <2>2, <3>1, <3>2 DEF Owing
  <2>4. IsFiniteSet(Owing(A)) /\ Cardinality(Owing(A)) \in Nat
    BY OwingIs
  <2>5. Cardinality(Owing(A) \cup {c}) = Cardinality(Owing(A)) + 1
    BY <2>2, <2>4, FS_AddElement
  <2>6. QED
    BY <2>3, <2>4, <2>5
<1>13. \A p \in Pairs : Total(p[1], counters) \in Nat /\ Total(p[2], counters) \in Nat
                        /\ Total(p[2], View) \in Nat
  BY <1>2, ViewIs, TotalsOfPairs DEF TypeOK
<1>14. Backed'
  <2> SUFFICES ASSUME NEW p \in Pairs
               PROVE  Total(p[1], counters) + Cardinality(Owing(p[1])')
                        <= Total(p[2], counters) + Cardinality(Owing(p[2])')
    BY <1>1 DEF Backed, Total, Units
  <2>1. Total(p[1], counters) + Cardinality(Owing(p[1])) <= Total(p[2], counters) + Cardinality(Owing(p[2]))
    BY DEF IInv, Backed
  <2>2. QED
    BY <1>3, <1>12, <1>13, <2>1
<1>15. ViewIsBacked'
  <2> SUFFICES ASSUME NEW p \in Pairs, loaded > 0
               PROVE  Total(p[1], counters) + Cardinality(Owing(p[1])') <= Total(p[2], View) + overlap'
    BY <1>1, <1>10 DEF ViewIsBacked, Total, Units
  <2>1. Total(p[1], counters) + Cardinality(Owing(p[1])) <= Total(p[2], View) + overlap
    BY DEF IInv, ViewIsBacked
  <2>2. overlap' = overlap + 1
    BY <1>1, <1>6
  <2>3. QED
    BY <1>6, <1>12, <1>13, <2>1, <2>2
<1>16. ShownIsBacked'
  BY <1>1 DEF IInv, ShownIsBacked, Total, Units
<1>17. QED
  BY <1>7, <1>8, <1>9, <1>11, <1>14, <1>15, <1>16 DEF IInv

\* Entries that come from distinct places of s are not two where s has one.
LEMMA OneUnitMoves ==
  ASSUME NEW s, NEW t, NEW A, NEW shift \in Int, DOMAIN t \subseteq Int, OneUnit(s, A),
         \A i \in DOMAIN t : \A l \in A :
           t[i][l] # 0 => i + shift \in DOMAIN s /\ s[i + shift][l] = t[i][l]
  PROVE  OneUnit(t, A)
<1> SUFFICES ASSUME NEW i \in DOMAIN t, NEW j \in DOMAIN t, NEW l \in A, NEW m \in A,
                    t[i][l] # 0, t[j][m] # 0
             PROVE  i = j /\ l = m /\ t[i][l] = 1
  BY DEF OneUnit
<1>1. \E a \in DOMAIN s : a = i + shift /\ s[a][l] = t[i][l]
  OBVIOUS
<1>2. \E b \in DOMAIN s : b = j + shift /\ s[b][m] = t[j][m]
  OBVIOUS
<1>3. PICK a \in DOMAIN s : a = i + shift /\ s[a][l] = t[i][l]
  BY ONLY <1>1
<1>4. PICK b \in DOMAIN s : b = j + shift /\ s[b][m] = t[j][m]
  BY ONLY <1>2
<1>5. a = b /\ l = m /\ s[a][l] = 1
  BY <1>3, <1>4 DEF OneUnit
<1>6. i \in Int /\ j \in Int
  OBVIOUS
<1>7. QED
  BY <1>3, <1>4, <1>5, <1>6

\* What a fetch_add leaves of the script.
LEMMA OneLess ==
  ASSUME NEW s \in Seq(Records), s # << >>, NEW k \in Counters, s[1][k] # 0,
         NEW left, left = [s EXCEPT ![1][k] = 0],
         NEW t, t = IF left[1] = Nothing THEN Tail(left) ELSE left
  PROVE  /\ t \in Seq(Records)
         /\ \A A \in SUBSET Counters :
              /\ Owes(t, A) => Owes(s, A)
              /\ k \notin A /\ Owes(s, A) => Owes(t, A)
              /\ OneUnit(s, A) => OneUnit(t, A)
              /\ k \in A /\ OneUnit(s, A) => Owes(s, A) /\ ~Owes(t, A) /\ s[1][k] = 1
<1>1. PICK n \in Nat : n = Len(s) /\ n > 0 /\ DOMAIN s = 1 .. n
  BY EmptySeq, LenProperties
<1>2. PICK r \in Records : r = s[1]
  BY <1>1
<1>3. PICK q \in [Counters -> Nat] : q = [r EXCEPT ![k] = 0]
  <2>1. [r EXCEPT ![k] = 0] \in [Counters -> Nat]
    BY DEF Records
  <2>2. QED
    BY <2>1
<1>4. \A l \in Counters : q[l] = IF l = k THEN 0 ELSE r[l]
  BY <1>3 DEF Records
<1>5. left = [s EXCEPT ![1] = q]
  BY <1>2, <1>3
<1>6. /\ DOMAIN left = 1 .. n /\ left[1] = q /\ \A i \in 1 .. n : i # 1 => left[i] = s[i]
      /\ \A i \in 1 .. n : s[i] \in Records
  BY <1>1, <1>5
<1>7. t = IF q = Nothing THEN Tail(left) ELSE left
  BY <1>6
\* where each entry of t comes from
<1>8. PICK shift \in {0, 1} :
        /\ t \in Seq(Records)
        /\ shift = IF q = Nothing THEN 1 ELSE 0
        /\ DOMAIN t = 1 .. (n - shift)
        /\ \A i \in 1 .. (n - shift) : i + shift \in 1 .. n /\ t[i] = left[i + shift]
  <2>1. CASE q # Nothing
    <3>1. q \in Records
      BY <2>1 DEF Records
    <3>2. left \in [1 .. n -> Records]
      BY <1>1, <1>5, <1>6, <3>1
    <3>3. left \in Seq(Records)
      BY <3>2, FunctionIsSeq
    <3>4. n - 0 = n /\ \A i \in 1 .. n : i + 0 = i
      OBVIOUS
    <3>5. QED
      BY <1>6, <1>7, <2>1, <3>3, <3>4
  <2>2. CASE q = Nothing
    <3>1. left \in [1 .. n -> [Counters -> Nat]]
      BY <1>1, <1>5, <1>6 DEF Records
    <3>2. left \in Seq([Counters -> Nat]) /\ Len(left) = n
      BY <3>1, FunctionIsSeq
    <3>3. left # << >>
      BY <1>1, <3>2
    <3>4. /\ Tail(left) \in Seq([Counters -> Nat]) /\ Len(Tail(left)) = n - 1
          /\ \A i \in 1 .. n - 1 : Tail(left)[i] = left[i + 1]
      BY <3>2, <3>3, HeadTailProperties
    <3>5. t = Tail(left) /\ DOMAIN t = 1 .. n - 1
      BY <1>7, <2>2, <3>4, LenProperties
    <3>6. \A i \in 1 .. n - 1 : i + 1 \in 1 .. n /\ i + 1 # 1
      BY <1>1
    <3>7. ASSUME NEW i \in 1 .. n - 1 PROVE t[i] \in Records
      <4>1. t[i] = left[i + 1]
        BY <3>4, <3>5
      <4>2. i + 1 \in 1 .. n /\ i + 1 # 1
        BY <3>6
      <4>3. left[i + 1] = s[i + 1] /\ s[i + 1] \in Records
        BY <1>6, <4>2
      <4>4. QED
        BY <4>1, <4>3
    <3>8. t \in [1 .. n - 1 -> Records]
      <4>1. t \in [1 .. n - 1 -> [Counters -> Nat]]
        BY <3>4, <3>5, LenProperties
      <4>2. QED
        BY <3>7, <4>1
    <3>9. t \in Seq(Records)
      <4>1. n - 1 \in Nat
        BY <1>1
      <4>2. QED
        BY <3>8, <4>1, FunctionIsSeq
    <3>10. QED
      BY <2>2, <3>4, <3>5, <3>6, <3>9
  <2>3. QED
    BY <2>1, <2>2
<1>9. \A i \in 1 .. n : \A l \in Counters :
        left[i][l] = IF i = 1 /\ l = k THEN 0 ELSE s[i][l]
  BY <1>2, <1>4, <1>6
<1>10. \A i \in DOMAIN t : \A l \in Counters :
         t[i][l] # 0 => i + shift \in DOMAIN s /\ s[i + shift][l] = t[i][l]
                        /\ ~(i + shift = 1 /\ l = k)
  <2> SUFFICES ASSUME NEW i \in 1 .. (n - shift), NEW l \in Counters, t[i][l] # 0
               PROVE  /\ i + shift \in DOMAIN s /\ s[i + shift][l] = t[i][l]
                      /\ ~(i + shift = 1 /\ l = k)
    BY <1>8
  <2>1. PICK j \in 1 .. n : j = i + shift /\ t[i] = left[j]
    BY <1>8
  <2>2. left[j][l] = IF j = 1 /\ l = k THEN 0 ELSE s[j][l]
    BY <1>9
  <2>3. QED
    BY <1>1, <2>1, <2>2
<1>11. \A i \in DOMAIN s : \A l \in Counters :
         s[i][l] # 0 /\ ~(i = 1 /\ l = k) => i - shift \in DOMAIN t /\ t[i - shift][l] # 0
  <2> SUFFICES ASSUME NEW i \in 1 .. n, NEW l \in Counters, s[i][l] # 0, ~(i = 1 /\ l = k)
               PROVE  i - shift \in DOMAIN t /\ t[i - shift][l] # 0
    BY <1>1
  <2>1. left[i][l] # 0
    BY <1>9
  <2>2. i = 1 => shift = 0
    <3>1. ASSUME i = 1, q = Nothing PROVE FALSE
      <4>1. left[i][l] = 0
        BY <1>6, <3>1 DEF Nothing
      <4>2. QED
        BY <2>1, <4>1
    <3>2. QED
      BY <1>8, <3>1
  <2>3. i - shift \in 1 .. (n - shift) /\ (i - shift) + shift = i
    BY <2>2
  <2>4. QED
    BY <1>8, <2>1, <2>3
<1>12. ASSUME NEW A \in SUBSET Counters
       PROVE  /\ Owes(t, A) => Owes(s, A)
              /\ k \notin A /\ Owes(s, A) => Owes(t, A)
              /\ OneUnit(s, A) => OneUnit(t, A)
              /\ k \in A /\ OneUnit(s, A) => Owes(s, A) /\ ~Owes(t, A) /\ s[1][k] = 1
  <2>1. Owes(t, A) => Owes(s, A)
    BY <1>10 DEF Owes
  <2>2. ASSUME k \notin A, Owes(s, A) PROVE Owes(t, A)
    <3>1. PICK i \in DOMAIN s, l \in A : s[i][l] # 0
      BY <2>2 DEF Owes
    <3>2. l # k /\ l \in Counters
      BY <2>2
    <3>3. i - shift \in DOMAIN t /\ t[i - shift][l] # 0
      BY <1>11, <3>1, <3>2
    <3>4. QED
      BY <3>3 DEF Owes
  <2>3. ASSUME OneUnit(s, A) PROVE OneUnit(t, A)
    <3>1. shift \in Int /\ DOMAIN t \subseteq Int
      BY <1>8
    <3>2. \A i \in DOMAIN t : \A l \in A :
            t[i][l] # 0 => i + shift \in DOMAIN s /\ s[i + shift][l] = t[i][l]
      BY ONLY <1>10, A \in SUBSET Counters
    <3>3. shift \in Int /\ DOMAIN t \subseteq Int /\ OneUnit(s, A)
      BY <2>3, <3>1
    <3>4. QED
      BY ONLY <3>2, <3>3, OneUnitMoves, SMTT(60)
  <2>4. ASSUME k \in A, OneUnit(s, A) PROVE Owes(s, A) /\ ~Owes(t, A) /\ s[1][k] = 1
    <3>1. 1 \in DOMAIN s
      BY <1>1
    <3>2. Owes(s, A) /\ s[1][k] = 1
      BY <2>4, <3>1 DEF Owes, OneUnit
    <3>3. ASSUME NEW i \in DOMAIN t, NEW l \in A, t[i][l] # 0 PROVE FALSE
      <4>1. i + shift \in DOMAIN s /\ s[i + shift][l] # 0 /\ ~(i + shift = 1 /\ l = k)
        BY ONLY <1>10, <3>3, i \in DOMAIN t, l \in A, A \in SUBSET Counters
      <4>2. i + shift = 1 /\ l = k
        BY <2>4, <3>1, <4>1 DEF OneUnit
      <4>3. QED
        BY <4>1, <4>2
    <3>4. QED
      BY <3>2, <3>3 DEF Owes
  <2>5. QED
    BY <2>1, <2>2, <2>3, <2>4
<1>13. QED
  BY <1>8, <1>12

\* A counter of A is raised, or none is.
LEMMA RaisedTotal ==
  ASSUME NEW v \in [Counters -> Nat], NEW k \in Counters, NEW d \in Nat,
         NEW w, \A l \in Counters : w[l] = IF l = k THEN v[l] + d ELSE v[l],
         NEW A, A \subseteq Counters, IsFiniteSet(A)
  PROVE  /\ Total(A, v) \in Nat
         /\ Total(A, w) = Total(A, v) + (IF k \in A THEN d ELSE 0)
<1>1. \A l \in Counters : w[l] = IF l = k THEN v[l] + d ELSE v[l]
  OBVIOUS
<1>2. \A l \in A : v[l] \in Nat
  OBVIOUS
<1>3. Total(A, v) \in Nat
  BY <1>2, UnitsAreFinite
<1>4. CASE k \in A
  <2>1. \A l \in A : v[l] \in Nat /\ w[l] \in Nat /\ (l # k => w[l] = v[l])
    BY <1>1, <1>2
  <2>2. Total(A, w) = Total(A, v) - v[k] + w[k]
    BY ONLY <1>4, <2>1, IsFiniteSet(A), TotalOfChanged
  <2>3. v[k] \in Nat /\ w[k] = v[k] + d
    BY <1>1
  <2>4. Total(A, w) = Total(A, v) + d
    BY <1>3, <2>2, <2>3
  <2>5. QED
    BY <1>3, <1>4, <2>4
<1>5. CASE k \notin A
  <2>1. \A l \in A : v[l] = w[l]
    BY <1>1, <1>5
  <2>2. Total(A, w) = Total(A, v)
    BY <2>1, TotalOfSame
  <2>3. QED
    BY <1>3, <1>5, <2>2
<1>6. QED
  BY <1>4, <1>5

\* A fetch_add to the first of a pair pays what its chain owes it; one to the
\* second adds at least the one chain that may owe it no longer.
LEMMA FetchAddPreserves ==
  ASSUME IInv, NEW c \in Chains, NEW k \in Counters, FetchAdd(c, k)
  PROVE  IInv'
<1> DEFINE left == [script[c] EXCEPT ![1][k] = 0]
           t == IF left[1] = Nothing THEN Tail(left) ELSE left
<1>1. /\ script[c] # << >> /\ script[c][1][k] # 0
      /\ counters' = [counters EXCEPT ![k] = @ + script[c][1][k]]
      /\ script' = [script EXCEPT ![c] = t]
      /\ UNCHANGED <<ran, loaded, reading, overlap, shown, scrapes>>
  BY DEF FetchAdd
<1>2. TypeOK /\ ScriptsAreValid /\ script \in [Chains -> Seq(Records)]
  BY DEF IInv, ScriptsAreValid
<1>3. PICK s \in Seq(Records) : s = script[c]
  BY <1>2
<1>4. /\ t \in Seq(Records)
      /\ \A A \in SUBSET Counters :
           /\ Owes(t, A) => Owes(s, A)
           /\ k \notin A /\ Owes(s, A) => Owes(t, A)
           /\ OneUnit(s, A) => OneUnit(t, A)
           /\ k \in A /\ OneUnit(s, A) => Owes(s, A) /\ ~Owes(t, A) /\ s[1][k] = 1
  <2>1. s # << >> /\ s[1][k] # 0
    BY <1>1, <1>3
  <2>2. \A lft, u : /\ lft = [s EXCEPT ![1][k] = 0]
                    /\ u = IF lft[1] = Nothing THEN Tail(lft) ELSE lft
          => /\ u \in Seq(Records)
             /\ \A A \in SUBSET Counters :
                  /\ Owes(u, A) => Owes(s, A)
                  /\ k \notin A /\ Owes(s, A) => Owes(u, A)
                  /\ OneUnit(s, A) => OneUnit(u, A)
                  /\ k \in A /\ OneUnit(s, A) => Owes(s, A) /\ ~Owes(u, A) /\ s[1][k] = 1
    BY ONLY s \in Seq(Records), k \in Counters, <2>1, OneLess
  <2>3. left = [s EXCEPT ![1][k] = 0] /\ t = IF left[1] = Nothing THEN Tail(left) ELSE left
    BY <1>3
  <2> HIDE DEF t, left
  <2>4. QED
    BY ONLY <2>2, <2>3
<1>5. PICK d \in Nat : d = s[1][k] /\ d > 0
  <2>1. s[1] \in Records
    BY <1>1, <1>3, EmptySeq, LenProperties
  <2>2. s[1][k] \in Nat
    BY <2>1 DEF Records
  <2>3. QED
    BY <1>1, <1>3, <2>2
<1> HIDE DEF t, left
<1>6. \A e \in Chains : script[e] \in Seq(Records) /\ script'[e] = IF e = c THEN t ELSE script[e]
  BY <1>1, <1>2
<1>7. PICK v \in [Counters -> Nat], w \in [Counters -> Nat] :
        v = counters /\ w = counters' /\ w = [v EXCEPT ![k] = @ + d]
  <2>1. counters \in [Counters -> Nat]
    BY <1>2 DEF TypeOK
  <2>2. counters' = [counters EXCEPT ![k] = @ + d]
    BY <1>1, <1>3, <1>5
  <2>3. counters' \in [Counters -> Nat]
    BY <2>1, <2>2
  <2>4. QED
    BY <2>1, <2>2, <2>3
<1>8. \A l \in Counters : v[l] \in Nat /\ w[l] \in Nat /\ v[l] <= w[l]
  BY <1>7
<1>9. TypeOK'
  <2>1. \A e \in Chains : script'[e] # << >> => e \in ran' /\ Head(script'[e]) # Nothing
    <3>1. t # << >> => Head(t) # Nothing
      <4>1. t # << >> => Head(t) \in Records
        BY <1>4, HeadTailProperties
      <4>2. QED
        BY <4>1 DEF Records
    <3>2. c \in ran
      BY <1>1, <1>2 DEF TypeOK
    <3>3. QED
      BY <1>1, <1>2, <1>6, <3>1, <3>2 DEF TypeOK
  <2>2. {counters, reading, shown.values}' \subseteq [Counters -> Nat]
    BY <1>1, <1>2, <1>7 DEF TypeOK
  <2>3. QED
    BY <1>1, <1>2, <2>1, <2>2 DEF TypeOK
<1>10. ScriptsAreValid'
  <2>1. script' \in [Chains -> Seq(Records)]
    BY <1>1, <1>2, <1>4
  <2>2. ASSUME NEW e \in Chains, NEW p \in Pairs PROVE OneUnit(script'[e], p[1])
    <3>1. OneUnit(script[e], p[1]) /\ p[1] \in SUBSET Counters
      BY <1>2, PairsAre DEF ScriptsAreValid
    <3>2. QED
      BY <1>3, <1>4, <1>6, <3>1
  <2>3. QED
    BY <2>1, <2>2 DEF ScriptsAreValid, OneUnit
<1>11. ScrapeIsBounded'
  BY <1>1 DEF IInv, ScrapeIsBounded
<1>12. /\ View \in [Counters -> Nat] /\ View' \in [Counters -> Nat]
       /\ \A l \in Counters : View[l] <= View'[l] /\ View'[l] <= w[l]
  <2>1. View \in [Counters -> Nat] /\ \A l \in Counters : View[l] = IF Seen(l) THEN reading[l] ELSE v[l]
    BY <1>2, <1>7, ViewIs
  <2>2. reading \in [Counters -> Nat] /\ View' = [l \in Counters |-> IF Seen(l) THEN reading[l] ELSE w[l]]
    BY <1>1, <1>2, <1>7 DEF View, Seen, TypeOK
  <2>3. \A l \in Counters : View[l] <= v[l]
    BY <1>7 DEF IInv, InOrder
  <2>4. \A l \in Counters : Seen(l) \in BOOLEAN
    BY DEF Seen
  <2>5. View' \in [Counters -> Nat] /\ \A l \in Counters : View'[l] = IF Seen(l) THEN reading[l] ELSE w[l]
    BY <1>8, <2>2
  <2>6. ASSUME NEW l \in Counters PROVE View[l] <= View'[l] /\ View'[l] <= w[l]
    <3>1. v[l] \in Nat /\ w[l] \in Nat /\ v[l] <= w[l] /\ reading[l] \in Nat
      BY <1>8, <2>2
    <3>2. View[l] = (IF Seen(l) THEN reading[l] ELSE v[l]) /\ View'[l] = (IF Seen(l) THEN reading[l] ELSE w[l])
      BY <2>1, <2>5
    <3>3. View[l] <= v[l]
      BY <2>3
    <3>4. QED
      BY <3>1, <3>2, <3>3
  <2>7. QED
    BY <2>1, <2>5, <2>6
<1>13. InOrder'
  <2>1. ASSUME NEW l \in Counters PROVE shown.values[l] <= View'[l]
    <3>1. shown.values[l] <= View[l] /\ shown.values[l] \in Nat
      BY <1>2 DEF IInv, InOrder, TypeOK
    <3>2. View[l] \in Nat /\ View'[l] \in Nat /\ View[l] <= View'[l]
      BY <1>12
    <3>3. QED
      BY <3>1, <3>2
  <2>2. QED
    BY <1>1, <1>7, <1>12, <2>1 DEF InOrder
<1>14. \A A : /\ Cardinality(Owing(A)) \in Nat /\ Cardinality(Owing(A)') \in Nat
              /\ Cardinality(Owing(A)) <= Cardinality(Owing(A)') + 1
              /\ A \subseteq Counters /\ k \notin A => Cardinality(Owing(A)') = Cardinality(Owing(A))
              /\ A \subseteq Counters /\ k \in A /\ OneUnit(s, A)
                   => Cardinality(Owing(A)) = Cardinality(Owing(A)') + 1 /\ d = 1
  <2> SUFFICES ASSUME NEW A
               PROVE  /\ Cardinality(Owing(A)) \in Nat /\ Cardinality(Owing(A)') \in Nat
                      /\ Cardinality(Owing(A)) <= Cardinality(Owing(A)') + 1
                      /\ A \subseteq Counters /\ k \notin A => Cardinality(Owing(A)') = Cardinality(Owing(A))
                      /\ A \subseteq Counters /\ k \in A /\ OneUnit(s, A)
                           => Cardinality(Owing(A)) = Cardinality(Owing(A)') + 1 /\ d = 1
    OBVIOUS
  <2>1. Owing(A) = {e \in Chains : Owes(script[e], A)} /\ Owing(A)' = {e \in Chains : Owes(script'[e], A)}
    BY DEF Owing, Owes
  <2>2. \A e \in Chains : Owes(script'[e], A) <=> IF e = c THEN Owes(t, A) ELSE Owes(script[e], A)
    BY <1>6
  <2>3. Owes(script[c], A) <=> Owes(s, A)
    BY <1>3
  <2>4. PICK B : B = {e \in Chains : e # c /\ Owes(script[e], A)}
    OBVIOUS
  <2>5. IsFiniteSet(B) /\ Cardinality(B) \in Nat /\ c \notin B
    BY <2>4, ChainsAssumption, FS_Subset, FS_CardinalityType
  <2>6. Owing(A) = IF Owes(s, A) THEN B \cup {c} ELSE B
    BY <2>1, <2>3, <2>4
  <2>7. Owing(A)' = IF Owes(t, A) THEN B \cup {c} ELSE B
    BY <2>1, <2>2, <2>4
  <2>8. PICK n \in Nat : Cardinality(B) = n /\ Cardinality(B \cup {c}) = n + 1
    BY <2>5, FS_AddElement
  <2>9. /\ Cardinality(Owing(A)) = IF Owes(s, A) THEN n + 1 ELSE n
        /\ Cardinality(Owing(A)') = IF Owes(t, A) THEN n + 1 ELSE n
    BY <2>6, <2>7, <2>8
  <2>10. A \subseteq Counters =>
           /\ Owes(t, A) => Owes(s, A)
           /\ k \notin A /\ Owes(s, A) => Owes(t, A)
           /\ k \in A /\ OneUnit(s, A) => Owes(s, A) /\ ~Owes(t, A) /\ d = 1
    BY <1>4, <1>5
  <2>11. Owes(s, A) \in BOOLEAN /\ Owes(t, A) \in BOOLEAN
    BY DEF Owes
  <2>12. QED
    BY ONLY <2>8, <2>9, <2>10, <2>11, n \in Nat
<1>15. ASSUME NEW p \in Pairs
       PROVE  /\ Total(p[1], v) \in Nat /\ Total(p[1], w) \in Nat /\ Total(p[2], v) \in Nat /\ Total(p[2], w) \in Nat
              /\ Total(p[1], w) + Cardinality(Owing(p[1])') = Total(p[1], v) + Cardinality(Owing(p[1]))
              /\ Total(p[2], v) + Cardinality(Owing(p[2])) <= Total(p[2], w) + Cardinality(Owing(p[2])')
  <2>1. p[1] \subseteq Counters /\ p[2] \subseteq Counters /\ IsFiniteSet(p[1]) /\ IsFiniteSet(p[2])
    BY CountersAreFinite
  <2>2. OneUnit(s, p[1])
    BY <1>2, <1>3 DEF ScriptsAreValid
  <2>3. /\ Total(p[1], v) \in Nat /\ Total(p[1], w) = Total(p[1], v) + (IF k \in p[1] THEN d ELSE 0)
        /\ Total(p[2], v) \in Nat /\ Total(p[2], w) = Total(p[2], v) + (IF k \in p[2] THEN d ELSE 0)
    <3>1. \A l \in Counters : w[l] = IF l = k THEN v[l] + d ELSE v[l]
      BY <1>7
    <3>2. \A A : A \subseteq Counters /\ IsFiniteSet(A)
                   => Total(A, v) \in Nat /\ Total(A, w) = Total(A, v) + (IF k \in A THEN d ELSE 0)
      <4> SUFFICES ASSUME NEW A, A \subseteq Counters, IsFiniteSet(A)
                   PROVE  Total(A, v) \in Nat /\ Total(A, w) = Total(A, v) + (IF k \in A THEN d ELSE 0)
        OBVIOUS
      <4>1. QED
        BY ONLY RaisedTotal, v \in [Counters -> Nat], k \in Counters, d \in Nat, <3>1,
                A \subseteq Counters, IsFiniteSet(A)
    <3>3. QED
      BY ONLY <2>1, <3>2
  <2>4. /\ Cardinality(Owing(p[1])) \in Nat /\ Cardinality(Owing(p[1])') \in Nat
        /\ k \notin p[1] => Cardinality(Owing(p[1])') = Cardinality(Owing(p[1]))
        /\ k \in p[1] => Cardinality(Owing(p[1])) = Cardinality(Owing(p[1])') + 1 /\ d = 1
    BY <1>14, <2>1, <2>2
  <2>5. /\ Cardinality(Owing(p[2])) \in Nat /\ Cardinality(Owing(p[2])') \in Nat
        /\ Cardinality(Owing(p[2])) <= Cardinality(Owing(p[2])') + 1
        /\ k \notin p[2] => Cardinality(Owing(p[2])') = Cardinality(Owing(p[2]))
    BY <1>14, <2>1
  <2>6. QED
    <3>1. PICK t1 \in Nat, t2 \in Nat : t1 = Total(p[1], v) /\ t2 = Total(p[2], v)
      BY ONLY <2>3
    <3>2. PICK a1 \in Nat, b1 \in Nat, a2 \in Nat, b2 \in Nat :
            /\ a1 = Cardinality(Owing(p[1])) /\ b1 = Cardinality(Owing(p[1])')
            /\ a2 = Cardinality(Owing(p[2])) /\ b2 = Cardinality(Owing(p[2])')
      BY ONLY <2>4, <2>5
    <3>3. PICK u1 \in Nat, u2 \in Nat : u1 = Total(p[1], w) /\ u2 = Total(p[2], w)
      BY ONLY <2>3, d \in Nat
    <3>4. /\ k \in p[1] => u1 = t1 + d
          /\ k \notin p[1] => u1 = t1
          /\ k \in p[2] => u2 = t2 + d
          /\ k \notin p[2] => u2 = t2
      BY ONLY <2>3, <3>1, <3>3, t1 \in Nat, t2 \in Nat
    <3>5. u1 + b1 = t1 + a1 /\ t2 + a2 <= u2 + b2
      <4>1. /\ k \notin p[1] => b1 = a1
            /\ k \in p[1] => a1 = b1 + 1 /\ d = 1
        BY ONLY <2>4, <3>2
      <4>2. /\ a2 <= b2 + 1
            /\ k \notin p[2] => b2 = a2
        BY ONLY <2>5, <3>2
      <4>3. d > 0
        BY <1>5
      <4>4. u1 + b1 = t1 + a1
        BY ONLY <3>4, <4>1, u1 \in Nat, t1 \in Nat, a1 \in Nat, b1 \in Nat
      <4>5. t2 + a2 <= u2 + b2
        BY ONLY <3>4, <4>2, <4>3, d \in Nat, u2 \in Nat, t2 \in Nat, a2 \in Nat, b2 \in Nat
      <4>6. QED
        BY ONLY <4>4, <4>5
    <3>6. QED
      BY ONLY <3>1, <3>2, <3>3, <3>5
<1>16. Backed'
  <2> SUFFICES ASSUME NEW p \in Pairs
               PROVE  Total(p[1], w) + Cardinality(Owing(p[1])') <= Total(p[2], w) + Cardinality(Owing(p[2])')
    BY <1>7 DEF Backed, Total, Units
  <2>1. Total(p[1], v) + Cardinality(Owing(p[1])) <= Total(p[2], v) + Cardinality(Owing(p[2]))
    BY <1>7 DEF IInv, Backed
  <2>2. /\ Cardinality(Owing(p[1])) \in Nat /\ Cardinality(Owing(p[1])') \in Nat
        /\ Cardinality(Owing(p[2])) \in Nat /\ Cardinality(Owing(p[2])') \in Nat
    BY <1>14
  <2>3. QED
    BY <1>15, <2>1, <2>2
<1>17. ViewIsBacked'
  <2> SUFFICES ASSUME NEW p \in Pairs, loaded > 0
               PROVE  Total(p[1], w) + Cardinality(Owing(p[1])') <= Total(p[2], View') + overlap
    BY <1>1, <1>7 DEF ViewIsBacked, Total, Units
  <2>1. Total(p[1], v) + Cardinality(Owing(p[1])) <= Total(p[2], View) + overlap
    BY <1>7 DEF IInv, ViewIsBacked
  <2>2. Total(p[2], View) <= Total(p[2], View') /\ Total(p[2], View) \in Nat /\ Total(p[2], View') \in Nat
    BY <1>12, PairsGrow, TotalsOfPairs
  <2>3. overlap \in Nat
    BY <1>2, ChainsAssumption, FS_CardinalityType DEF TypeOK
  <2>4. /\ Cardinality(Owing(p[1])) \in Nat /\ Cardinality(Owing(p[1])') \in Nat
    BY <1>14
  <2>5. /\ Total(p[1], v) \in Nat /\ Total(p[1], w) \in Nat
        /\ Total(p[1], w) + Cardinality(Owing(p[1])') = Total(p[1], v) + Cardinality(Owing(p[1]))
    BY <1>15
  <2>6. QED
    BY ONLY <2>1, <2>2, <2>3, <2>4, <2>5
<1>18. ShownIsBacked'
  BY <1>1 DEF IInv, ShownIsBacked, Total, Units
<1>19. QED
  BY <1>9, <1>10, <1>11, <1>13, <1>16, <1>17, <1>18 DEF IInv

\* Whoever owes is running, and whoever runs has begun.
LEMMA RunningIs ==
  ASSUME IInv
  PROVE  /\ Cardinality(Running) \in Nat /\ Cardinality(ran) \in Nat /\ Cardinality(Chains) \in Nat
         /\ Cardinality(Running) <= Cardinality(ran) /\ Cardinality(ran) <= Cardinality(Chains)
         /\ \A A : Cardinality(Owing(A)) <= Cardinality(Running)
<1>1. ran \subseteq Chains /\ Running \subseteq ran
  BY DEF IInv, TypeOK, Running
<1>2. IsFiniteSet(ran) /\ Cardinality(ran) <= Cardinality(Chains)
  BY <1>1, ChainsAssumption, FS_Subset
<1>3. IsFiniteSet(Running) /\ Cardinality(Running) <= Cardinality(ran)
  BY <1>1, <1>2, FS_Subset
<1>4. ASSUME NEW A PROVE Cardinality(Owing(A)) <= Cardinality(Running)
  <2>1. ~Owes(<< >>, A)
    BY DEF Owes
  <2>2. Owing(A) \in SUBSET Running
    BY <2>1 DEF IInv, TypeOK, Owing, Running
  <2>3. QED
    BY <1>3, <2>2, FS_Subset
<1>5. QED
  BY <1>2, <1>3, <1>4, ChainsAssumption, FS_CardinalityType

\* A load keeps or raises the view; the first one counts the chains running, who
\* are all that can owe.
LEMMA LoadPreserves ==
  ASSUME IInv, Load
  PROVE  IInv'
<1> DEFINE k == LoadOrder[loaded + 1]
<1>1. /\ loaded < Len(LoadOrder) /\ scrapes < MaxScrapes
      /\ reading' = [reading EXCEPT ![k] = counters[k]]
      /\ loaded' = loaded + 1
      /\ overlap' = IF loaded = 0 THEN Cardinality(Running) ELSE overlap
      /\ UNCHANGED <<counters, script, ran, shown, scrapes>>
  BY DEF Load
<1>2. TypeOK /\ ScriptsAreValid
  BY DEF IInv
<1>3. /\ loaded \in Nat /\ Len(LoadOrder) \in Nat /\ loaded + 1 \in 1 .. Len(LoadOrder)
      /\ k \in Counters
  BY <1>1, <1>2, CountersAre DEF TypeOK
<1> HIDE DEF k
<1>4. /\ counters \in [Counters -> Nat] /\ reading \in [Counters -> Nat] /\ reading' \in [Counters -> Nat]
      /\ \A l \in Counters : reading'[l] = IF l = k THEN counters[l] ELSE reading[l]
  BY <1>1, <1>2, <1>3 DEF TypeOK
<1>5. \A l : Seen(l)' <=> Seen(l) \/ l = k
  <2>1. \A i : i \in 1 .. loaded + 1 <=> i \in 1 .. loaded \/ i = loaded + 1
    BY <1>3
  <2>2. QED
    BY <1>1, <2>1 DEF Seen, k
<1>6. /\ View \in [Counters -> Nat] /\ View' \in [Counters -> Nat]
      /\ \A l \in Counters : View[l] <= View'[l] /\ View'[l] <= counters[l]
  <2>1. View \in [Counters -> Nat] /\ \A l \in Counters : View[l] = IF Seen(l) THEN reading[l] ELSE counters[l]
    BY <1>2, ViewIs
  <2>2. View' = [l \in Counters |-> IF Seen(l)' THEN reading'[l] ELSE counters[l]]
    BY <1>1 DEF View
  <2>3. ASSUME NEW l \in Counters
        PROVE  View'[l] = (IF l = k THEN counters[l] ELSE View[l]) /\ View'[l] \in Nat
    <3>1. View'[l] = IF Seen(l)' THEN reading'[l] ELSE counters[l]
      BY <2>2
    <3>2. reading'[l] = (IF l = k THEN counters[l] ELSE reading[l]) /\ counters[l] \in Nat /\ reading[l] \in Nat
      BY <1>4
    <3>3. View[l] = IF Seen(l) THEN reading[l] ELSE counters[l]
      BY <2>1
    <3>4. Seen(l)' <=> Seen(l) \/ l = k
      BY <1>5
    <3>5. QED
      BY <3>1, <3>2, <3>3, <3>4
  <2>4. View' \in [Counters -> Nat]
    BY <2>2, <2>3
  <2>5. \A l \in Counters : View[l] <= counters[l] /\ View[l] \in Nat /\ counters[l] \in Nat
    BY <1>4, <2>1 DEF IInv, InOrder
  <2>6. QED
    BY <2>1, <2>3, <2>4, <2>5
<1>7. /\ Cardinality(Running) \in Nat /\ Cardinality(ran) \in Nat /\ Cardinality(Chains) \in Nat
      /\ Cardinality(Running) <= Cardinality(ran) /\ Cardinality(ran) <= Cardinality(Chains)
      /\ \A A : Cardinality(Owing(A)) <= Cardinality(Running)
  BY RunningIs
<1>8. overlap \in Nat /\ overlap <= Cardinality(ran) /\ overlap' \in Nat /\ overlap' <= Cardinality(ran)
  BY <1>1, <1>2, <1>7 DEF IInv, ScrapeIsBounded, TypeOK
<1>9. TypeOK'
  <2>1. {counters, reading, shown.values}' \subseteq [Counters -> Nat]
    BY <1>1, <1>2, <1>4 DEF TypeOK
  <2>2. {overlap, shown.overlap}' \subseteq 0 .. Cardinality(Chains)
    BY <1>1, <1>2, <1>7, <1>8 DEF TypeOK
  <2>3. loaded' \in 0 .. Len(LoadOrder)
    BY <1>1, <1>3
  <2>4. QED
    BY <1>1, <1>2, <2>1, <2>2, <2>3 DEF TypeOK
<1>10. ScriptsAreValid'
  BY <1>1, <1>2 DEF ScriptsAreValid
<1>11. ScrapeIsBounded'
  BY <1>1, <1>8 DEF ScrapeIsBounded
<1>12. InOrder'
  <2>1. ASSUME NEW l \in Counters PROVE shown.values[l] <= View'[l]
    <3>1. shown.values[l] <= View[l] /\ shown.values[l] \in Nat
      BY <1>2 DEF IInv, InOrder, TypeOK
    <3>2. View[l] \in Nat /\ View'[l] \in Nat /\ View[l] <= View'[l]
      BY <1>6
    <3>3. QED
      BY <3>1, <3>2
  <2>2. QED
    BY <1>1, <1>6, <2>1 DEF InOrder
<1>13. Backed'
  BY <1>1 DEF IInv, Backed, Total, Units, Owing
<1>14. ViewIsBacked'
  <2> SUFFICES ASSUME NEW p \in Pairs
               PROVE  Total(p[1], counters) + Cardinality(Owing(p[1])) <= Total(p[2], View') + overlap'
    BY <1>1 DEF ViewIsBacked, Total, Units, Owing
  <2>1. /\ Total(p[1], counters) \in Nat /\ Total(p[2], counters) \in Nat
        /\ Total(p[2], View) \in Nat /\ Total(p[2], View') \in Nat
        /\ Total(p[2], View) <= Total(p[2], View')
    BY <1>4, <1>6, TotalsOfPairs, PairsGrow
  <2>2. /\ Cardinality(Owing(p[1])) \in Nat /\ Cardinality(Owing(p[2])) \in Nat
        /\ Cardinality(Owing(p[2])) <= Cardinality(Running)
    BY <1>7, OwingIs
  <2>3. CASE loaded > 0
    <3>1. Total(p[1], counters) + Cardinality(Owing(p[1])) <= Total(p[2], View) + overlap
      BY <2>3 DEF IInv, ViewIsBacked
    <3>2. overlap' = overlap
      BY <1>1, <1>3, <2>3
    <3>3. QED
      BY <1>8, <2>1, <2>2, <3>1, <3>2
  <2>4. CASE loaded = 0
    <3>1. Total(p[1], counters) + Cardinality(Owing(p[1])) <= Total(p[2], counters) + Cardinality(Owing(p[2]))
      BY DEF IInv, Backed
    <3>2. View = counters /\ overlap' = Cardinality(Running)
      BY <1>1, <1>2, <2>4, ViewIs
    <3>3. Total(p[2], counters) <= Total(p[2], View')
      BY ONLY <2>1, <3>2
    <3>4. QED
      BY <1>7, <2>1, <2>2, <3>1, <3>2, <3>3
  <2>5. QED
    BY <1>3, <2>3, <2>4
<1>15. ShownIsBacked'
  BY <1>1 DEF IInv, ShownIsBacked, Total, Units
<1>16. QED
  BY <1>9, <1>10, <1>11, <1>12, <1>13, <1>14, <1>15 DEF IInv

\* The scrape is complete: what it shows is the view.
LEMMA ShowPreserves ==
  ASSUME IInv, Show
  PROVE  IInv'
<1>1. /\ loaded = Len(LoadOrder)
      /\ shown'.values = reading /\ shown'.overlap = overlap
      /\ scrapes' = scrapes + 1 /\ loaded' = 0 /\ overlap' = 0 /\ reading' = Nothing
      /\ UNCHANGED <<counters, script, ran>>
  BY DEF Show
<1>2. TypeOK /\ ScriptsAreValid
  BY DEF IInv
<1>3. Len(LoadOrder) \in Nat /\ loaded > 0
  BY <1>1, CountersAre
<1>4. /\ counters \in [Counters -> Nat] /\ reading \in [Counters -> Nat] /\ View = reading
      /\ Nothing \in [Counters -> Nat]
  BY <1>1, <1>2, ViewIs DEF TypeOK, Nothing
<1>5. View' = counters
  <2>1. \A l : ~Seen(l)'
    BY <1>1 DEF Seen
  <2>2. View' = [l \in Counters |-> counters[l]]
    BY <1>1, <2>1 DEF View
  <2>3. QED
    BY <1>4, <2>2
<1>6. scrapes < MaxScrapes /\ scrapes \in Nat
  BY <1>2, <1>3, BoundsAssumption DEF IInv, ScrapeIsBounded, TypeOK
<1>7. Cardinality(Chains) \in Nat /\ Cardinality(ran) \in Nat
  BY RunningIs
<1>8. TypeOK'
  <2>1. {counters, reading, shown.values}' \subseteq [Counters -> Nat]
    BY <1>1, <1>4
  <2>2. {overlap, shown.overlap}' \subseteq 0 .. Cardinality(Chains)
    BY <1>1, <1>2, <1>7 DEF TypeOK
  <2>3. loaded' \in 0 .. Len(LoadOrder) /\ scrapes' \in 0 .. MaxScrapes
    BY <1>1, <1>3, <1>6, BoundsAssumption
  <2>4. QED
    BY <1>1, <1>2, <2>1, <2>2, <2>3 DEF TypeOK
<1>9. ScriptsAreValid'
  BY <1>1, <1>2 DEF ScriptsAreValid
<1>10. ScrapeIsBounded'
  BY <1>1, <1>7 DEF ScrapeIsBounded
<1>11. InOrder'
  <2>1. \A l \in Counters : reading[l] <= counters[l] /\ counters[l] <= counters[l]
    BY <1>4 DEF IInv, InOrder
  <2>2. QED
    BY <1>1, <1>5, <2>1 DEF InOrder
<1>12. Backed'
  BY <1>1 DEF IInv, Backed, Total, Units, Owing
<1>13. ViewIsBacked'
  BY <1>1 DEF ViewIsBacked
<1>14. ShownIsBacked'
  <2> SUFFICES ASSUME NEW p \in Pairs
               PROVE  Total(p[1], reading) <= Total(p[2], reading) + overlap
    BY <1>1 DEF ShownIsBacked, Total, Units
  <2>1. Total(p[1], counters) + Cardinality(Owing(p[1])) <= Total(p[2], reading) + overlap
    BY <1>3, <1>4 DEF IInv, ViewIsBacked
  <2>2. \A l \in Counters : reading[l] <= counters[l]
    BY <1>4 DEF IInv, InOrder
  <2>3. /\ Total(p[1], counters) \in Nat /\ Total(p[1], reading) \in Nat /\ Total(p[2], reading) \in Nat
        /\ Total(p[1], reading) <= Total(p[1], counters)
    BY <1>4, <2>2, TotalsOfPairs, PairsGrow
  <2>4. Cardinality(Owing(p[1])) \in Nat /\ overlap \in Nat
    BY <1>2, <1>7, OwingIs DEF TypeOK
  <2>5. QED
    BY <2>1, <2>3, <2>4
<1>15. QED
  BY <1>8, <1>9, <1>10, <1>11, <1>12, <1>13, <1>14 DEF IInv

-----------------------------------------------------------------------------
(* What a scrape promises *)

\* The sum that the model takes over a family, and its counters.
SumOf(tag, v, L) == MapThenSumSet(LAMBDA x : v[<<tag, x>>], L)
Tagged(tag, L)   == {<<tag, x>> : x \in L}

\* The fold is the sum of their values.
LEMMA SumIs ==
  ASSUME NEW L, IsFiniteSet(L), NEW tag, NEW v \in [Counters -> Nat], Tagged(tag, L) \subseteq Counters
  PROVE  SumOf(tag, v, L) = Total(Tagged(tag, L), v)
<1> DEFINE pick(s) == CHOOSE x \in s : TRUE
           IsSum(h) == h = [s \in SUBSET L |-> IF s = {} THEN 0
                                               ELSE v[<<tag, pick(s)>>] + h[s \ {pick(s)}]]
           sum == [s \in SUBSET L |-> Total(Tagged(tag, s), v)]
<1>1. SumOf(tag, v, L) = (CHOOSE h : IsSum(h))[L]
  BY Zenon DEF SumOf, MapThenSumSet, MapThenFoldSet
<1>0. Total(Tagged(tag, {}), v) = 0
  <2>1. Tagged(tag, {}) = {}
    BY DEF Tagged
  <2>2. QED
    BY <2>1, TotalOfNone
<1>2. ASSUME NEW s \in SUBSET L, s # {}
      PROVE  /\ pick(s) \in s
             /\ Total(Tagged(tag, s), v) = v[<<tag, pick(s)>>] + Total(Tagged(tag, s \ {pick(s)}), v)
             /\ Total(Tagged(tag, s \ {pick(s)}), v) \in Nat /\ v[<<tag, pick(s)>>] \in Nat
  <2>1. PICK x : x = pick(s) /\ x \in s
    BY <1>2
  <2>2. PICK k \in Counters : k = <<tag, x>>
    BY <2>1 DEF Tagged
  <2>3. PICK rest : rest = Tagged(tag, s \ {x})
    OBVIOUS
  <2>4. rest \subseteq Counters /\ k \notin rest /\ Tagged(tag, s) = rest \cup {k}
    BY <2>1, <2>2, <2>3 DEF Tagged
  <2>5. IsFiniteSet(rest) /\ \A l \in rest \cup {k} : v[l] \in Nat
    BY <2>4, CountersAreFinite, FS_Subset
  <2>6. /\ Total(rest \cup {k}, v) = Total(rest, v) + v[k]
        /\ Total(rest, v) \in Nat /\ v[k] \in Nat
    BY <2>4, <2>5, TotalOfOneMore
  <2>7. Total(Tagged(tag, s), v) = v[<<tag, x>>] + Total(Tagged(tag, s \ {x}), v)
    <3>1. Total(Tagged(tag, s), v) = v[k] + Total(rest, v)
      BY ONLY <2>4, <2>6
    <3>2. QED
      BY ONLY <2>2, <2>3, <3>1
  <2>8. QED
    BY <2>1, <2>2, <2>3, <2>6, <2>7
<1>3. IsSum(sum)
  <2>1. \A s \in SUBSET L : sum[s] = IF s = {} THEN 0
                                     ELSE v[<<tag, pick(s)>>] + sum[s \ {pick(s)}]
    <3> SUFFICES ASSUME NEW s \in SUBSET L
                 PROVE  sum[s] = IF s = {} THEN 0
                                 ELSE v[<<tag, pick(s)>>] + sum[s \ {pick(s)}]
      OBVIOUS
    <3>1. CASE s = {}
      BY <1>0, <3>1
    <3>2. CASE s # {}
      <4>1. s \ {pick(s)} \in SUBSET L
        OBVIOUS
      <4> HIDE DEF pick
      <4>2. QED
        BY <1>2, <3>2, <4>1
    <3>3. QED
      BY <3>1, <3>2
  <2> HIDE DEF pick
  <2>2. sum = [s \in SUBSET L |-> sum[s]]
    OBVIOUS
  <2> HIDE DEF sum
  <2>3. [s \in SUBSET L |-> sum[s]] = [s \in SUBSET L |-> IF s = {} THEN 0
                                     ELSE v[<<tag, pick(s)>>] + sum[s \ {pick(s)}]]
    BY <2>1
  <2>4. QED
    BY <2>2, <2>3
<1>4. PICK h : h = (CHOOSE g : IsSum(g)) /\ IsSum(h)
  <2> HIDE DEF IsSum, sum
  <2>1. QED
    BY <1>3
<1>5. \A s \in SUBSET L : h[s] = IF s = {} THEN 0 ELSE v[<<tag, pick(s)>>] + h[s \ {pick(s)}]
  <2> HIDE DEF pick
  <2>1. QED
    BY <1>4
<1> HIDE DEF IsSum, sum, pick
<1>6. h[L] = Total(Tagged(tag, L), v)
  <2> DEFINE Bad == {s \in SUBSET L : h[s] # Total(Tagged(tag, s), v)}
  <2> SUFFICES ASSUME Bad # {} PROVE FALSE
    OBVIOUS
  <2>1. Bad \subseteq SUBSET L
    OBVIOUS
  <2>2. IsWellFoundedOn(StrictSubsetOrdering(L), SUBSET L)
    BY FS_StrictSubsetOrderingWellFounded, FS_FiniteSubsetsOfFinite
  <2>3. PICK s \in Bad : \A u \in Bad : <<u, s>> \notin StrictSubsetOrdering(L)
    <3> HIDE DEF Bad
    <3>1. QED
      BY <2>1, <2>2, WFMin
  <2>4. CASE s = {}
    BY <1>0, <1>5, <2>4
  <2>5. CASE s # {}
    <3>1. PICK x : x = pick(s)
      OBVIOUS
    <3>2. /\ x \in s
          /\ Total(Tagged(tag, s), v) = v[<<tag, x>>] + Total(Tagged(tag, s \ {x}), v)
          /\ h[s] = v[<<tag, x>>] + h[s \ {x}]
      BY <1>2, <1>5, <2>5, <3>1
    <3>3. h[s \ {x}] # Total(Tagged(tag, s \ {x}), v)
      BY <3>2
    <3>4. s \ {x} \in Bad
      BY <3>3
    <3>5. <<s \ {x}, s>> \in StrictSubsetOrdering(L)
      BY <3>2 DEF StrictSubsetOrdering
    <3>6. QED
      BY <2>3, <3>4, <3>5
  <2>6. QED
    BY <2>4, <2>5
<1>7. QED
  BY <1>1, <1>4, <1>6

\* Sums of two counters and of one.
LEMMA TotalOfTwo ==
  ASSUME NEW a \in Counters, NEW b \in Counters, a # b, NEW v \in [Counters -> Nat]
  PROVE  Total({a}, v) = v[a] /\ Total({a, b}, v) = v[a] + v[b] /\ v[a] \in Nat /\ v[b] \in Nat
<1>1. IsFiniteSet({}) /\ IsFiniteSet({a}) /\ a \notin {} /\ b \notin {a}
      /\ {a} = {} \cup {a} /\ {a, b} = {a} \cup {b}
  BY FS_EmptySet, FS_Singleton
<1>2. v[a] \in Nat /\ v[b] \in Nat /\ (\A y \in {} \cup {a} : v[y] \in Nat) /\ (\A y \in {a} \cup {b} : v[y] \in Nat)
  OBVIOUS
<1>3. Total({} \cup {a}, v) = Total({}, v) + v[a]
  BY <1>1, <1>2, TotalOfOneMore
<1>4. Total({a} \cup {b}, v) = Total({a}, v) + v[b]
  BY <1>1, <1>2, TotalOfOneMore
<1>5. Total({}, v) = 0
  BY TotalOfNone
<1>6. QED
  BY <1>1, <1>2, <1>3, <1>4, <1>5

\* Of one.
LEMMA TotalOfOne ==
  ASSUME NEW a \in Counters, NEW v \in [Counters -> Nat]
  PROVE  Total({a}, v) = v[a] /\ v[a] \in Nat
<1>1. IsFiniteSet({}) /\ a \notin {} /\ {a} = {} \cup {a} /\ (\A y \in {} \cup {a} : v[y] \in Nat)
  BY FS_EmptySet
<1>2. Total({} \cup {a}, v) = Total({}, v) + v[a] /\ v[a] \in Nat
  BY <1>1, TotalOfOneMore
<1>3. Total({}, v) = 0
  BY TotalOfNone
<1>4. QED
  BY <1>1, <1>2, <1>3

\* No chain adds to the first of a pair what it has not added to the second or
\* owes it, in every state, and no scrape shows more than its overlap hides.
THEOREM Invariance == Spec => []IInv
<1>1. IInv /\ [Next]_vars => IInv'
  <2> SUFFICES ASSUME IInv, [Next]_vars PROVE IInv'
    OBVIOUS
  <2>1. ASSUME NEW c \in Chains, NEW s \in Scripts, Begin(c, s) PROVE IInv'
    BY <2>1, BeginPreserves
  <2>2. ASSUME NEW c \in Chains, NEW k \in Counters, FetchAdd(c, k) PROVE IInv'
    BY <2>2, FetchAddPreserves
  <2>3. CASE Load
    BY <2>3, LoadPreserves
  <2>4. CASE Show
    BY <2>4, ShowPreserves
  <2>5. CASE UNCHANGED vars
    <3>1. View' = View
      BY <2>5 DEF vars, View, Seen
    <3>2. TypeOK' /\ ScriptsAreValid' /\ ScrapeIsBounded'
      BY <2>5 DEF vars, IInv, TypeOK, ScriptsAreValid, ScrapeIsBounded
    <3>3. InOrder' /\ ShownIsBacked'
      BY <2>5, <3>1 DEF vars, IInv, InOrder, ShownIsBacked, Total, Units
    <3>4. Backed' /\ ViewIsBacked'
      BY <2>5, <3>1 DEF vars, IInv, Backed, ViewIsBacked, Total, Units, Owing
    <3>5. QED
      BY <3>2, <3>3, <3>4 DEF IInv
  <2>6. QED
    BY <2>1, <2>2, <2>3, <2>4, <2>5 DEF Next
<1>2. QED
  BY InitEstablishes, <1>1, PTL DEF Spec

\* Every counter and every scrape keeps its type, and no more chains overlap a
\* scrape than there are.
THEOREM TypeCorrect == Spec => []TypeOK
<1>1. IInv => TypeOK
  BY DEF IInv
<1>2. QED
  BY Invariance, <1>1, PTL

\* Collector::collect shows Prometheus counters: no series falls or disappears
\* from one scrape to the next, whatever is recorded during either.
THEOREM OnlyGrow == Spec => ScrapesOnlyGrow
<1>1. IInv /\ [Next]_vars
      => [LET before == shown.values
              after  == shown'.values
          IN /\ \A k \in Counters : before[k] <= after[k]
             /\ Series(before) \subseteq Series(after)]_vars
  <2> SUFFICES ASSUME IInv, [Next]_vars
               PROVE  /\ \A k \in Counters : shown.values[k] <= shown'.values[k]
                      /\ Series(shown.values) \subseteq Series(shown'.values)
    OBVIOUS
  <2>1. /\ shown.values \in [Counters -> Nat] /\ reading \in [Counters -> Nat]
        /\ \A k \in Counters : shown.values[k] <= View[k]
    BY DEF IInv, TypeOK, InOrder
  <2>2. CASE shown' = shown
    BY <2>1, <2>2
  <2>3. CASE Show
    <3>1. shown'.values = reading /\ loaded = Len(LoadOrder)
      BY <2>3 DEF Show
    <3>2. View = reading
      BY <3>1, ViewIs DEF IInv
    <3>3. \A k \in Counters : /\ shown.values[k] <= reading[k]
                              /\ shown.values[k] \in Nat /\ reading[k] \in Nat
      BY <2>1, <3>2
    <3>4. ASSUME NEW m \in Labels, shown.values[<<"answered", m>>] + shown.values[<<"failed", m>>] > 0
          PROVE  reading[<<"answered", m>>] + reading[<<"failed", m>>] > 0
      <4>1. <<"answered", m>> \in Counters /\ <<"failed", m>> \in Counters
        BY CountersAre
      <4>2. QED
        BY <3>3, <3>4, <4>1
    <3>5. Series(shown.values) \subseteq Series(reading)
      BY <3>4 DEF Series
    <3>6. QED
      BY <3>1, <3>3, <3>5
  <2>4. shown' = shown \/ Show
    BY DEF Next, Begin, FetchAdd, Load, vars
  <2>5. QED
    BY <2>2, <2>3, <2>4
<1>2. QED
  BY Invariance, <1>1, PTL DEF Spec, ScrapesOnlyGrow

\* The families of one scrape (Collector::collect) agree but for the chains that
\* were recording while it was taken, for any fleet, methods and chains.
THEOREM AddsUp == Spec => []ScrapeAddsUp
<1>1. IInv => ScrapeAddsUp
  <2> SUFFICES ASSUME IInv PROVE ScrapeAddsUp
    OBVIOUS
  <2>1. PICK v \in [Counters -> Nat], n \in Nat : v = shown.values /\ n = shown.overlap
    <3>1. shown.values \in [Counters -> Nat] /\ shown.overlap \in Nat
      BY ChainsAssumption, FS_CardinalityType DEF IInv, TypeOK
    <3>2. QED
      BY <3>1
  <2>2. \A p \in Pairs : Total(p[1], v) <= Total(p[2], v) + n
    BY <2>1 DEF IInv, ShownIsBacked
  <2>3. ASSUME NEW m \in Labels
        PROVE  /\ v[<<"few", m>>] <= RequestCount(v, m) + n
               /\ RequestCount(v, m) <= v[<<"attempts", m>>] + n
    <3> DEFINE a == <<"answered", m>>
               f == <<"failed", m>>
               w == <<"few", m>>
               t == <<"attempts", m>>
    <3>1. {a, f, w, t} \subseteq Counters /\ a # f
      BY CountersAre
    <3>2. <<{w}, {a, f}>> \in Pairs /\ <<{a, f}, {t}>> \in Pairs
      BY DEF Pairs
    <3> HIDE DEF a, f, w, t
    <3>3. Total({w}, v) <= Total({a, f}, v) + n /\ Total({a, f}, v) <= Total({t}, v) + n
      BY <2>2, <3>2
    <3>4. Total({w}, v) = v[w] /\ Total({t}, v) = v[t] /\ Total({a, f}, v) = v[a] + v[f]
      BY <3>1, TotalOfOne, TotalOfTwo
    <3>5. QED
      BY <3>3, <3>4 DEF RequestCount, a, f, w, t
  <2>4. ASSUME NEW u \in Upstreams, NEW w \in Upstreams, u # w
        PROVE  v[<<"won", u, w>>] <= v[<<"started", u, w>>] + n
    <3> DEFINE a == <<"won", u, w>>
               b == <<"started", u, w>>
    <3>1. a \in Counters /\ b \in Counters
      BY <2>4, CountersAre
    <3>2. <<{a}, {b}>> \in Pairs
      <4>1. PICK o \in {o \in Upstreams \X Upstreams : o[1] # o[2]} : o = <<u, w>>
        BY <2>4
      <4>2. <<{a}, {b}>> = <<{<<"won", o[1], o[2]>>}, {<<"started", o[1], o[2]>>}>>
        BY <4>1
      <4> HIDE DEF a, b
      <4>3. QED
        BY <4>2 DEF Pairs
    <3> HIDE DEF a, b
    <3>3. Total({a}, v) <= Total({b}, v) + n
      BY <2>2, <3>2
    <3>4. Total({a}, v) = v[a] /\ Total({b}, v) = v[b]
      BY <3>1, TotalOfOne
    <3>5. QED
      BY <3>3, <3>4 DEF a, b
  <2>5. SumOf("answered", v, Labels) <= SumOf("success", v, Upstreams) + n
    <3>1. Tagged("answered", Labels) \subseteq Counters /\ Tagged("success", Upstreams) \subseteq Counters
      BY CountersAre DEF Tagged
    <3>2. IsFiniteSet(Labels) /\ IsFiniteSet(Upstreams)
      <4>1. \A s : s \in Seq(Range(s)) => IsFiniteSet(Range(s))
        <5> SUFFICES ASSUME NEW s, s \in Seq(Range(s)) PROVE IsFiniteSet(Range(s))
          OBVIOUS
        <5>1. PICK len \in Nat : len = Len(s) /\ DOMAIN s = 1 .. len /\ s \in [1 .. len -> Range(s)]
          BY LenProperties
        <5>2. s \in Surjection(1 .. len, Range(s)) /\ IsFiniteSet(1 .. len)
          <6>1. \A y \in Range(s) : \E i \in 1 .. len : s[i] = y
            BY <5>1 DEF Range
          <6>2. s \in Surjection(1 .. len, Range(s))
            BY ONLY <5>1, <6>1 DEF Surjection
          <6>3. QED
            BY <6>2, FS_Interval
        <5>3. QED
          BY <5>2, FS_Surjection
      <4>2. QED
        BY <4>1, FleetAssumption DEF Labels, Upstreams
    <3>3. <<Tagged("answered", Labels), Tagged("success", Upstreams)>> \in Pairs
      BY DEF Pairs, Tagged
    <3>4. Total(Tagged("answered", Labels), v) <= Total(Tagged("success", Upstreams), v) + n
      BY <2>2, <3>3
    <3>5. QED
      BY <3>1, <3>2, <3>4, SumIs
  <2>6. ASSUME NEW u \in Upstreams PROVE v[<<"failovers", u>>] <= v[<<"error", u>>] + n
    <3> DEFINE a == <<"failovers", u>>
               b == <<"error", u>>
    <3>1. a \in Counters /\ b \in Counters
      BY CountersAre
    <3>2. <<{a}, {b}>> \in Pairs
      BY DEF Pairs
    <3> HIDE DEF a, b
    <3>3. Total({a}, v) <= Total({b}, v) + n
      BY <2>2, <3>2
    <3>4. Total({a}, v) = v[a] /\ Total({b}, v) = v[b]
      BY <3>1, TotalOfOne
    <3>5. QED
      BY <3>3, <3>4 DEF a, b
  <2>7. MapThenSumSet(LAMBDA m : shown.values[<<"answered", m>>], Labels)
          <= MapThenSumSet(LAMBDA u : shown.values[<<"success", u>>], Upstreams) + shown.overlap
    <3>1. SumOf("answered", shown.values, Labels) <= SumOf("success", shown.values, Upstreams) + shown.overlap
      BY <2>1, <2>5
    <3>2. QED
      BY <3>1, Zenon DEF SumOf, MapThenSumSet, MapThenFoldSet
  <2>8. /\ \A m \in Labels :
             /\ shown.values[<<"few", m>>] <= RequestCount(shown.values, m) + shown.overlap
             /\ RequestCount(shown.values, m) <= shown.values[<<"attempts", m>>] + shown.overlap
        /\ \A u, w \in Upstreams :
             u # w => shown.values[<<"won", u, w>>] <= shown.values[<<"started", u, w>>] + shown.overlap
        /\ \A u \in Upstreams :
             shown.values[<<"failovers", u>>] <= shown.values[<<"error", u>>] + shown.overlap
    BY <2>1, <2>3, <2>4, <2>6
  <2>9. QED
    BY <2>7, <2>8, Zenon DEF ScrapeAddsUp
<1>2. QED
  BY Invariance, <1>1, PTL
=============================================================================
