-------------------------- MODULE MarketDataProofs --------------------------
(***************************************************************************)
(* The data behind a backtest, for every table Yahoo can return and every  *)
(* day: the cutoff is a date of the calendar and moves forward with the    *)
(* latest bar; the clean table has the last complete bar of each day, in   *)
(* order; the splitter cuts it once and takes nothing the cleaner accepts  *)
(* for invalid.  A table is followed through the cleaning by the places    *)
(* its rows had in the table received.                                     *)
(***************************************************************************)
EXTENDS MarketData, SequenceTheorems, FiniteSetTheorems, TLAPS

LEMMA MonthLengthBounds ==
    ASSUME NEW month \in Int
    PROVE  MonthLength(month) \in 28..31
BY DEF MonthLength

LEMMA MinusMonthsParts ==
    ASSUME NEW date \in Dates, NEW n \in Nat
    PROVE  /\ MinusMonths(date, n)[1] = date[1] - n
           /\ MinusMonths(date, n)[2] \in 1..31
           /\ MinusMonths(date, n)[2] <= date[2]
           /\ MinusMonths(date, n)[2] <= MonthLength(date[1] - n)
           /\ date[2] <= MonthLength(date[1] - n) => MinusMonths(date, n)[2] = date[2]
           /\ date[2] > MonthLength(date[1] - n)
                => MinusMonths(date, n)[2] = MonthLength(date[1] - n)
<1>1. date[1] \in Int /\ date[2] \in Int /\ date[2] \in 1..MonthLength(date[1])
  BY DEF Dates, IsDate
<1>2. MonthLength(date[1] - n) \in 28..31 /\ MonthLength(date[1]) \in 28..31
  BY <1>1, MonthLengthBounds
<1> QED
  BY <1>1, <1>2 DEF MinusMonths

\* Six months before a date there is a date: a short month's last day
\* stands for the days it lacks (data_split.py:35).
THEOREM CutoffIsDate ==
    ASSUME NEW latest \in Dates
    PROVE  Cutoff(latest) \in Dates /\ Before(Cutoff(latest), latest)
<1>1. latest[1] \in Int /\ latest[2] \in Int
  BY DEF Dates
<1>2. /\ Cutoff(latest)[1] = latest[1] - 6
      /\ Cutoff(latest)[2] \in 1..31
      /\ Cutoff(latest)[2] <= MonthLength(latest[1] - 6)
  BY MinusMonthsParts DEF Cutoff
<1>3. MonthLength(latest[1] - 6) \in 28..31
  BY <1>1, MonthLengthBounds
<1>4. Cutoff(latest) \in Int \X Int
  <2>1. Cutoff(latest) = <<Cutoff(latest)[1], Cutoff(latest)[2]>>
    BY DEF Cutoff, MinusMonths
  <2> QED
    BY <1>1, <1>2, <2>1
<1>5. IsDate(Cutoff(latest))
  BY <1>1, <1>2, <1>3 DEF IsDate
<1> QED
  BY <1>1, <1>2, <1>4, <1>5 DEF Dates, Before

\* If the latest bar does not go back, the cutoff does not: the step that
\* HeldOutMovesForward rests on, for every pair of dates.
THEOREM CutoffMonotone ==
    ASSUME NEW earlier \in Dates, NEW later \in Dates, ~Before(later, earlier)
    PROVE  ~Before(Cutoff(later), Cutoff(earlier))
<1>1. /\ earlier[1] \in Int /\ earlier[2] \in Int
      /\ later[1] \in Int /\ later[2] \in Int
  BY DEF Dates
<1>2. earlier[1] < later[1] \/ (earlier[1] = later[1] /\ earlier[2] <= later[2])
  BY <1>1 DEF Before
<1>3. Cutoff(earlier)[1] = earlier[1] - 6 /\ Cutoff(later)[1] = later[1] - 6
  BY MinusMonthsParts DEF Cutoff
<1>4. Cutoff(earlier)[2] \in Int /\ Cutoff(later)[2] \in Int
  BY MinusMonthsParts DEF Cutoff
<1>5. CASE earlier[1] < later[1]
  BY <1>1, <1>3, <1>5 DEF Before
<1>6. CASE earlier[1] = later[1] /\ earlier[2] <= later[2]
  <2> DEFINE length == MonthLength(later[1] - 6)
  <2>1. length \in 28..31
    BY <1>1, MonthLengthBounds
  <2>2. /\ Cutoff(later)[2] = IF later[2] <= length THEN later[2] ELSE length
        /\ Cutoff(earlier)[2] = IF earlier[2] <= length THEN earlier[2] ELSE length
    BY <1>1, <1>6 DEF Cutoff, MinusMonths
  <2>3. Cutoff(earlier)[2] <= Cutoff(later)[2]
    BY <1>1, <1>6, <2>1, <2>2
  <2> QED
    BY <1>1, <1>3, <1>4, <1>6, <2>3 DEF Before
<1> QED
  BY <1>2, <1>5, <1>6
-----------------------------------------------------------------------------
(* Tables.                                                                 *)

\* upto gives the places of S that do not come after each of them.
IsOrder(S, upto) ==
    /\ upto \in [S -> SUBSET S]
    /\ \A i \in S : i \in upto[i]
    /\ \A i, j \in S : i \in upto[j] \/ j \in upto[i]
    /\ \A i, j \in S : i \in upto[j] /\ j \in upto[i] => i = j
    /\ \A i, j \in S : i \in upto[j] => upto[i] \subseteq upto[j]

(* The places not after a place number it.                                 *)
LEMMA RanksNumber ==
    ASSUME NEW S, IsFiniteSet(S), NEW upto, IsOrder(S, upto)
    PROVE  /\ [i \in S |-> Cardinality(upto[i])] \in Bijection(S, 1..Cardinality(S))
           /\ \A i, j \in S : i # j /\ i \in upto[j] => Cardinality(upto[i]) < Cardinality(upto[j])
<1> DEFINE rank == [i \in S |-> Cardinality(upto[i])]
           n == Cardinality(S)
<1>1. \A i \in S : IsFiniteSet(upto[i]) /\ upto[i] \subseteq S /\ Cardinality(upto[i]) \in 1..n
  <2> SUFFICES ASSUME NEW i \in S
               PROVE  IsFiniteSet(upto[i]) /\ upto[i] \subseteq S /\ Cardinality(upto[i]) \in 1..n
    OBVIOUS
  <2>1. upto[i] \in SUBSET S /\ i \in upto[i]
    BY DEF IsOrder
  <2>2. IsFiniteSet(upto[i]) /\ Cardinality(upto[i]) <= n
    BY <2>1, FS_Subset
  <2>3. Cardinality(upto[i]) \in Nat /\ n \in Nat
    BY <2>2, FS_CardinalityType
  <2>4. Cardinality(upto[i]) # 0
    BY <2>1, <2>2, FS_EmptySet
  <2> QED
    BY <2>1, <2>2, <2>3, <2>4
<1>2. \A i, j \in S : i # j /\ i \in upto[j] => Cardinality(upto[i]) < Cardinality(upto[j])
  <2> SUFFICES ASSUME NEW i \in S, NEW j \in S, i # j, i \in upto[j]
               PROVE  Cardinality(upto[i]) < Cardinality(upto[j])
    OBVIOUS
  <2>1. upto[i] \in SUBSET upto[j] /\ j \notin upto[i] /\ j \in upto[j]
    BY DEF IsOrder
  <2>2. /\ Cardinality(upto[i]) <= Cardinality(upto[j])
        /\ Cardinality(upto[j]) = Cardinality(upto[i]) => upto[j] = upto[i]
    BY <1>1, <2>1, FS_Subset
  <2>3. Cardinality(upto[i]) \in Nat /\ Cardinality(upto[j]) \in Nat
    BY <1>1
  <2> QED
    BY <2>1, <2>2, <2>3
<1>3. rank \in Injection(S, 1..n)
  <2>1. rank \in [S -> 1..n]
    BY <1>1
  <2>2. \A i, j \in S : rank[i] = rank[j] => i = j
    <3> SUFFICES ASSUME NEW i \in S, NEW j \in S, i # j PROVE rank[i] # rank[j]
      OBVIOUS
    <3>1. i \in upto[j] \/ j \in upto[i]
      BY DEF IsOrder
    <3>2. Cardinality(upto[i]) \in Nat /\ Cardinality(upto[j]) \in Nat
      BY <1>1
    <3> QED
      BY <1>2, <3>1, <3>2
  <2> QED
    BY <2>1, <2>2 DEF Injection, IsInjective
<1>4. n \in Nat
  BY FS_CardinalityType
<1>5. IsFiniteSet(1..n) /\ Cardinality(1..n) = n
  BY <1>4, FS_Interval
<1>6. rank \in Surjection(S, 1..n)
  BY <1>3, <1>5, FS_Injection
<1> QED
  BY <1>2, <1>3, <1>6 DEF Bijection

\* p numbers the places of S in their order.
Numbers(p, S, upto) ==
    /\ p \in Bijection(1..Cardinality(S), S)
    /\ \A k, l \in 1..Cardinality(S) : k < l => p[k] \in upto[p[l]] /\ p[k] # p[l]
    /\ \A k \in 1..Cardinality(S) : Cardinality(upto[p[k]]) = k

(* A listing has the rows of all places, each once, in the order.          *)
LEMMA ListedPlaces ==
    ASSUME NEW S, IsFiniteSet(S), NEW upto, IsOrder(S, upto)
    PROVE  \E p : /\ Numbers(p, S, upto)
                  /\ \A rs : Listed(rs, upto) = [k \in 1..Cardinality(S) |-> rs[p[k]]]
<1> DEFINE n == Cardinality(S)
           p == [k \in 1..n |-> CHOOSE i \in S : Cardinality(upto[i]) = k]
           rank == [i \in S |-> Cardinality(upto[i])]
<1>0. DOMAIN upto = S
  BY DEF IsOrder
<1>1. /\ rank \in Bijection(S, 1..n)
      /\ \A i, j \in S : i # j /\ i \in upto[j] => Cardinality(upto[i]) < Cardinality(upto[j])
  BY RanksNumber
<1>2. \A k \in 1..n : \E i \in S : Cardinality(upto[i]) = k
  <2>1. \A k \in 1..n : \E i \in S : rank[i] = k
    BY <1>1 DEF Bijection, Surjection
  <2> QED
    BY <2>1
<1>3. \A i, j \in S : Cardinality(upto[i]) = Cardinality(upto[j]) => i = j
  <2>1. \A i, j \in S : rank[i] = rank[j] => i = j
    BY <1>1 DEF Bijection, Injection, IsInjective
  <2> QED
    BY <2>1
<1>4. \A k \in 1..n : p[k] \in S /\ Cardinality(upto[p[k]]) = k
  BY <1>2
<1>5. \A i \in S : Cardinality(upto[i]) \in 1..n
  <2>1. \A i \in S : rank[i] \in 1..n
    BY <1>1 DEF Bijection, Injection, IsInjective
  <2> QED
    BY <2>1
<1>6. p \in Bijection(1..n, S)
  <2>1. p \in [1..n -> S]
    BY <1>4
  <2>2. \A k, l \in 1..n : p[k] = p[l] => k = l
    BY <1>4
  <2>3. \A i \in S : \E k \in 1..n : p[k] = i
    <3> SUFFICES ASSUME NEW i \in S PROVE \E k \in 1..n : p[k] = i
      OBVIOUS
    <3>1. p[Cardinality(upto[i])] = i
      BY <1>3, <1>4, <1>5
    <3> QED
      BY <1>5, <3>1
  <2>4. p \in Injection(1..n, S)
    BY <2>1, <2>2 DEF Injection, IsInjective
  <2>5. p \in Surjection(1..n, S)
    BY <2>1, <2>3 DEF Surjection
  <2> QED
    BY <2>4, <2>5 DEF Bijection
<1>7. \A k, l \in 1..n : k < l => p[k] \in upto[p[l]] /\ p[k] # p[l]
  <2> SUFFICES ASSUME NEW k \in 1..n, NEW l \in 1..n, k < l
               PROVE  p[k] \in upto[p[l]] /\ p[k] # p[l]
    OBVIOUS
  <2>1. /\ p[k] \in S /\ Cardinality(upto[p[k]]) = k
        /\ p[l] \in S /\ Cardinality(upto[p[l]]) = l
    BY <1>4
  <2>2. p[k] \in upto[p[l]] \/ p[l] \in upto[p[k]]
    BY <2>1 DEF IsOrder
  <2>3. k \in Int /\ l \in Int /\ k # l /\ ~(l < k)
    OBVIOUS
  <2> QED
    BY <1>1, <2>1, <2>2, <2>3
<1>8. \A rs : Listed(rs, upto) = [k \in 1..n |-> rs[p[k]]]
  BY <1>0 DEF Listed
<1> HIDE DEF p
<1> QED
  BY <1>4, <1>6, <1>7, <1>8 DEF Numbers

\* p numbers a set of places by size.
Places(p, S) ==
    /\ p \in Bijection(1..Cardinality(S), S)
    /\ \A k, l \in 1..Cardinality(S) : k < l => p[k] < p[l]

\* t has of rs the rows at the places S, as p numbers them.
Follows(t, rs, S, p) ==
    /\ Places(p, S)
    /\ t = [k \in 1..Cardinality(S) |-> rs[p[k]]]

LEMMA PlacesAreOrdered ==
    ASSUME NEW S \in SUBSET Int
    PROVE  IsOrder(S, [i \in S |-> {j \in S : j <= i}])
<1> DEFINE upto == [i \in S |-> {j \in S : j <= i}]
<1>1. upto \in [S -> SUBSET S]
  OBVIOUS
<1>2. \A i, j \in S : i \in upto[j] <=> i <= j
  OBVIOUS
<1>3. \A i, j \in S : i \in upto[j] => upto[i] \subseteq upto[j]
  <2> SUFFICES ASSUME NEW i \in S, NEW j \in S, i <= j, NEW k \in upto[i]
               PROVE  k \in upto[j]
    BY <1>2
  <2>1. k \in S /\ k <= i
    OBVIOUS
  <2>2. i \in Int /\ j \in Int /\ k \in Int
    BY <2>1
  <2> QED
    BY <2>1, <2>2
<1>4. \A i \in S : i \in Int
  OBVIOUS
<1> HIDE DEF upto
<1>5. /\ \A i \in S : i \in upto[i]
      /\ \A i, j \in S : i \in upto[j] \/ j \in upto[i]
      /\ \A i, j \in S : i \in upto[j] /\ j \in upto[i] => i = j
  <2> SUFFICES ASSUME NEW i \in S, NEW j \in S
               PROVE  /\ i \in upto[i]
                      /\ i \in upto[j] \/ j \in upto[i]
                      /\ i \in upto[j] /\ j \in upto[i] => i = j
    OBVIOUS
  <2>1. i \in Int /\ j \in Int
    BY <1>4
  <2>2. i \in upto[i] <=> i <= i
    BY <1>2
  <2>3. i \in upto[j] <=> i <= j
    BY <1>2
  <2>4. j \in upto[i] <=> j <= i
    BY <1>2
  <2> QED
    BY <2>1, <2>2, <2>3, <2>4
<1>6. IsOrder(S, upto)
  BY <1>1, <1>3, <1>5 DEF IsOrder
<1> QED
  BY <1>6 DEF upto

(* A mask keeps its rows in their order.                                   *)
LEMMA MaskedPlaces ==
    ASSUME NEW S \in SUBSET Int, IsFiniteSet(S), NEW rs
    PROVE  \E p : Follows(Masked(rs, S), rs, S, p)
<1> DEFINE upto == [i \in S |-> {j \in S : j <= i}]
           n == Cardinality(S)
<1>0. IsOrder(S, upto)
  BY PlacesAreOrdered
<1>6. Masked(rs, S) = Listed(rs, upto)
  BY DEF Masked
<1>7. \A i, j \in S : i \in upto[j] <=> i <= j
  OBVIOUS
<1> HIDE DEF upto
<1>1. PICK p : /\ Numbers(p, S, upto)
               /\ \A r : Listed(r, upto) = [k \in 1..n |-> r[p[k]]]
  BY <1>0, ListedPlaces
<1>2. p \in Bijection(1..n, S)
  BY <1>1 DEF Numbers
<1>3. \A k \in 1..n : p[k] \in S
  BY <1>2 DEF Bijection, Injection, IsInjective
<1>4. \A k, l \in 1..n : k < l => p[k] < p[l]
  <2> SUFFICES ASSUME NEW k \in 1..n, NEW l \in 1..n, k < l PROVE p[k] < p[l]
    OBVIOUS
  <2>1. p[k] \in upto[p[l]] /\ p[k] # p[l]
    BY <1>1 DEF Numbers
  <2>2. p[k] \in Int /\ p[l] \in Int /\ p[l] \in S
    BY <1>3
  <2> QED
    BY <1>3, <1>7, <2>1, <2>2
<1>5. Masked(rs, S) = [k \in 1..n |-> rs[p[k]]]
  BY <1>1, <1>6
<1> QED
  BY <1>2, <1>4, <1>5 DEF Follows, Places

LEMMA BijectionParts ==
    ASSUME NEW S, NEW T, NEW f
    PROVE  f \in Bijection(S, T) <=>
               /\ f \in [S -> T]
               /\ \A a, b \in S : f[a] = f[b] => a = b
               /\ \A t \in T : \E s \in S : f[s] = t
BY DEF Bijection, Injection, Surjection, IsInjective

LEMMA FollowsParts ==
    ASSUME NEW t, NEW rs, NEW S, NEW p, Follows(t, rs, S, p)
    PROVE  /\ p \in [1..Cardinality(S) -> S]
           /\ \A a, b \in 1..Cardinality(S) : p[a] = p[b] => a = b
           /\ \A i \in S : \E a \in 1..Cardinality(S) : p[a] = i
           /\ \A a, b \in 1..Cardinality(S) : a < b => p[a] < p[b]
           /\ t = [k \in 1..Cardinality(S) |-> rs[p[k]]]
<1>1. p \in Bijection(1..Cardinality(S), S)
  BY DEF Follows, Places
<1>2. \A a, b \in 1..Cardinality(S) : a < b => p[a] < p[b]
  BY DEF Follows, Places
<1>3. t = [k \in 1..Cardinality(S) |-> rs[p[k]]]
  BY DEF Follows
<1>4. /\ p \in [1..Cardinality(S) -> S]
      /\ \A a, b \in 1..Cardinality(S) : p[a] = p[b] => a = b
      /\ \A i \in S : \E a \in 1..Cardinality(S) : p[a] = i
  BY <1>1 DEF Bijection, Injection, Surjection, IsInjective
<1> QED
  BY <1>2, <1>3, <1>4

(* A mask over rows already picked picks among their places.               *)
LEMMA MaskKeeps ==
    ASSUME NEW rs, NEW S \in SUBSET Int, IsFiniteSet(S), NEW p, NEW t, Follows(t, rs, S, p),
           NEW T \in SUBSET (1..Cardinality(S)), NEW U \in SUBSET S,
           \A k \in 1..Cardinality(S) : k \in T <=> p[k] \in U
    PROVE  \E q : Follows(Masked(t, T), rs, U, q)
<1> DEFINE n == Cardinality(S)
           m == Cardinality(T)
<1>1. n \in Nat /\ IsFiniteSet(1..n)
  BY FS_CardinalityType, FS_Interval
<1>2. T \in SUBSET Int /\ IsFiniteSet(T) /\ m \in Nat
  <2>1. T \in SUBSET Int
    OBVIOUS
  <2>2. IsFiniteSet(T)
    BY <1>1, FS_Subset
  <2> QED
    BY <2>1, <2>2, FS_CardinalityType
<1>3. PICK r : Follows(Masked(t, T), t, T, r)
  BY <1>2, MaskedPlaces
<1>4. /\ r \in [1..m -> T]
      /\ \A a, b \in 1..m : r[a] = r[b] => a = b
      /\ \A k \in T : \E a \in 1..m : r[a] = k
      /\ \A a, b \in 1..m : a < b => r[a] < r[b]
      /\ Masked(t, T) = [a \in 1..m |-> t[r[a]]]
  <2>1. /\ r \in [1..Cardinality(T) -> T]
        /\ \A a, b \in 1..Cardinality(T) : r[a] = r[b] => a = b
        /\ \A k \in T : \E a \in 1..Cardinality(T) : r[a] = k
        /\ \A a, b \in 1..Cardinality(T) : a < b => r[a] < r[b]
    BY ONLY <1>3, FollowsParts
  <2>2. Masked(t, T) = [a \in 1..Cardinality(T) |-> t[r[a]]]
    BY <1>3 DEF Follows
  <2> QED
    BY <2>1, <2>2
<1>5. /\ p \in [1..n -> S]
      /\ \A a, b \in 1..n : p[a] = p[b] => a = b
      /\ \A i \in S : \E a \in 1..n : p[a] = i
      /\ \A a, b \in 1..n : a < b => p[a] < p[b]
      /\ t = [k \in 1..n |-> rs[p[k]]]
  BY FollowsParts
<1> DEFINE q == [a \in 1..m |-> p[r[a]]]
<1>6. \A a \in 1..m : r[a] \in T /\ r[a] \in 1..n /\ q[a] \in U
  BY <1>4, <1>5
<1>7. q \in Bijection(1..m, U)
  <2>1. q \in [1..m -> U]
    BY <1>6
  <2>2. \A a, b \in 1..m : q[a] = q[b] => a = b
    BY <1>4, <1>5, <1>6
  <2>3. \A i \in U : \E a \in 1..m : q[a] = i
    <3> SUFFICES ASSUME NEW i \in U PROVE \E a \in 1..m : q[a] = i
      OBVIOUS
    <3>1. PICK k \in 1..n : p[k] = i
      BY <1>5
    <3>2. PICK a \in 1..m : r[a] = k
      BY <1>4, <3>1
    <3> QED
      BY <3>1, <3>2
  <2> HIDE DEF q
  <2> QED
    BY <2>1, <2>2, <2>3, BijectionParts
<1>8. Cardinality(U) = m
  BY <1>2, <1>7, FS_CountingElements DEF ExistsBijection
<1>9. \A a, b \in 1..m : a < b => q[a] < q[b]
  BY <1>4, <1>5, <1>6
<1>10. Masked(t, T) = [a \in 1..m |-> rs[q[a]]]
  BY <1>4, <1>5, <1>6
<1> HIDE DEF q
<1> QED
  BY <1>7, <1>8, <1>9, <1>10 DEF Follows, Places
-----------------------------------------------------------------------------
(* Cleaning.                                                               *)

Usable(rs) == {i \in DOMAIN rs : rs[i].at # NaT /\ IsComplete(rs[i])}
Wanted(rs) == {i \in Usable(rs) : \A j \in Usable(rs) : rs[j].at = rs[i].at => j <= i}

LEMMA TablePlaces ==
    ASSUME NEW rs \in Seq(RawRows), NEW S \in SUBSET DOMAIN rs
    PROVE  S \in SUBSET Int /\ IsFiniteSet(S)
<1>1. Len(rs) \in Nat /\ DOMAIN rs = 1..Len(rs)
  OBVIOUS
<1>2. IsFiniteSet(1..Len(rs))
  BY <1>1, FS_Interval
<1>3. IsFiniteSet(S)
  BY <1>1, <1>2, FS_Subset
<1>4. S \in SUBSET Int
  BY <1>1
<1> QED
  BY <1>3, <1>4

(* Before sorting, the clean table has the last complete row of each day.  *)
LEMMA KeptPlaces ==
    ASSUME NEW rs \in Seq(RawRows)
    PROVE  \E p : Follows(KeepLast(DropIncomplete(DropUndated(rs))), rs, Wanted(rs), p)
<1> DEFINE S0 == {i \in DOMAIN rs : rs[i].at # NaT}
           S1 == Usable(rs)
           S2 == Wanted(rs)
           t0 == DropUndated(rs)
           t1 == DropIncomplete(t0)
           T0 == {k \in DOMAIN t0 : IsComplete(t0[k])}
           T1 == {k \in DOMAIN t1 : \A j \in DOMAIN t1 : t1[j].at = t1[k].at => j <= k}
<1>1. S0 \in SUBSET Int /\ IsFiniteSet(S0)
  BY TablePlaces
<1>2. S1 \in SUBSET Int /\ IsFiniteSet(S1) /\ S1 \in SUBSET S0
  <2>1. S1 \in SUBSET DOMAIN rs /\ S1 \in SUBSET S0
    BY DEF Usable
  <2>2. S1 \in SUBSET Int /\ IsFiniteSet(S1)
    BY <2>1, TablePlaces
  <2> QED
    BY <2>1, <2>2
<1>3. S2 \in SUBSET S1
  BY DEF Wanted
<1>4. \A i \in S0 : i \in S1 <=> IsComplete(rs[i])
  BY DEF Usable
<1>5. \A i \in S1 : i \in S2 <=> \A j \in S1 : rs[j].at = rs[i].at => j <= i
  BY DEF Wanted
<1>6. t0 = Masked(rs, S0)
  BY DEF DropUndated
<1>7. t1 = Masked(t0, T0)
  BY DEF DropIncomplete
<1>8. KeepLast(t1) = Masked(t1, T1)
  BY DEF KeepLast
<1> HIDE DEF S0, S1, S2, t0, t1
<1>9. PICK p0 : Follows(t0, rs, S0, p0)
  BY <1>1, <1>6, MaskedPlaces
<1>10. PICK p1 : Follows(t1, rs, S1, p1)
  <2>1. /\ p0 \in [1..Cardinality(S0) -> S0]
        /\ t0 = [k \in 1..Cardinality(S0) |-> rs[p0[k]]]
    BY <1>9, FollowsParts
  <2>2. DOMAIN t0 = 1..Cardinality(S0)
    BY <2>1
  <2>3. \A k \in 1..Cardinality(S0) : t0[k] = rs[p0[k]] /\ p0[k] \in S0
    BY <2>1
  <2>4. \A k \in 1..Cardinality(S0) : k \in T0 <=> p0[k] \in S1
    BY <1>4, <2>2, <2>3
  <2>5. T0 \in SUBSET (1..Cardinality(S0))
    BY <2>2
  <2> HIDE DEF T0
  <2>6. \E q : Follows(Masked(t0, T0), rs, S1, q)
    BY <1>1, <1>2, <1>9, <2>4, <2>5, MaskKeeps
  <2> QED
    BY <1>7, <2>6
<1>11. \E q : Follows(Masked(t1, T1), rs, S2, q)
  <2> DEFINE n == Cardinality(S1)
  <2>1. /\ p1 \in [1..n -> S1]
        /\ \A i \in S1 : \E a \in 1..n : p1[a] = i
        /\ \A a, b \in 1..n : a < b => p1[a] < p1[b]
        /\ t1 = [k \in 1..n |-> rs[p1[k]]]
    BY <1>10, FollowsParts
  <2>2. DOMAIN t1 = 1..n
    BY <2>1
  <2>3. \A k \in 1..n : t1[k] = rs[p1[k]] /\ p1[k] \in S1 /\ p1[k] \in Int
    BY <1>2, <2>1
  <2>4. \A a, b \in 1..n : p1[a] <= p1[b] <=> a <= b
    <3> SUFFICES ASSUME NEW a \in 1..n, NEW b \in 1..n
                 PROVE  p1[a] <= p1[b] <=> a <= b
      OBVIOUS
    <3>1. p1[a] \in Int /\ p1[b] \in Int /\ a \in Int /\ b \in Int
      BY <2>3
    <3>2. (a < b => p1[a] < p1[b]) /\ (b < a => p1[b] < p1[a])
      BY <2>1
    <3> QED
      BY <3>1, <3>2
  <2>5. ASSUME NEW k \in 1..n
        PROVE  k \in T1 <=> p1[k] \in S2
    <3>1. p1[k] \in S2 <=> \A j \in S1 : rs[j].at = rs[p1[k]].at => j <= p1[k]
      BY <1>5, <2>3
    <3>2. (\A j \in S1 : rs[j].at = rs[p1[k]].at => j <= p1[k])
            <=> \A a \in 1..n : rs[p1[a]].at = rs[p1[k]].at => p1[a] <= p1[k]
      BY <2>1, <2>3
    <3>3. (\A a \in 1..n : rs[p1[a]].at = rs[p1[k]].at => p1[a] <= p1[k])
            <=> \A a \in 1..n : t1[a].at = t1[k].at => a <= k
      BY <2>3, <2>4
    <3> QED
      BY <2>2, <3>1, <3>2, <3>3
  <2>6. T1 \in SUBSET (1..n)
    BY <2>2
  <2> HIDE DEF T1
  <2> QED
    BY <1>2, <1>3, <1>10, <2>5, <2>6, MaskKeeps
<1>12. \E q : Follows(KeepLast(t1), rs, S2, q)
  BY <1>8, <1>11
<1> QED
  BY <1>12 DEF t0, t1, S2

\* t has of rs the rows at the places S, as q puts them.
Arranges(t, rs, S, q) ==
    /\ q \in [1..Cardinality(S) -> S]
    /\ \A a, b \in 1..Cardinality(S) : q[a] = q[b] => a = b
    /\ \A i \in S : \E a \in 1..Cardinality(S) : q[a] = i
    /\ t = [k \in 1..Cardinality(S) |-> rs[q[k]]]

(* Sorting rows of different days puts them in order.                      *)
LEMMA SortedPlaces ==
    ASSUME NEW t, NEW rs, NEW S, IsFiniteSet(S), NEW p, Arranges(t, rs, S, p),
           \A i \in S : rs[i].at \in Int \X Int,
           \A i, j \in S : rs[i].at = rs[j].at => i = j
    PROVE  \E q : Arranges(SortIndex(t), rs, S, q) /\ IsChronological(SortIndex(t))
<1> DEFINE n == Cardinality(S)
           upto == [i \in DOMAIN t |->
                      {j \in DOMAIN t : \/ Before(t[j].at, t[i].at)
                                        \/ t[j].at = t[i].at /\ j <= i}]
<1>1. /\ p \in [1..n -> S]
      /\ \A a, b \in 1..n : p[a] = p[b] => a = b
      /\ \A i \in S : \E a \in 1..n : p[a] = i
      /\ t = [k \in 1..n |-> rs[p[k]]]
  BY DEF Arranges
<1>2. n \in Nat /\ IsFiniteSet(1..n) /\ Cardinality(1..n) = n
  BY FS_CardinalityType, FS_Interval
<1>3. DOMAIN t = 1..n /\ \A k \in 1..n : t[k] = rs[p[k]]
  BY <1>1
<1>4. \A k \in 1..n : t[k].at \in Int \X Int
  BY <1>1, <1>3
<1>5. \A a, b \in 1..n : t[a].at = t[b].at => a = b
  BY <1>1, <1>3
<1>6. SortIndex(t) = Listed(t, upto)
  BY DEF SortIndex
<1>7. \A i, j \in 1..n : j \in upto[i] <=> \/ Before(t[j].at, t[i].at)
                                           \/ t[j].at = t[i].at /\ j <= i
  BY <1>3
<1>8. upto \in [1..n -> SUBSET (1..n)]
  BY <1>3
<1> HIDE DEF upto
<1>9. IsOrder(1..n, upto)
  <2>1. \A i \in 1..n : i \in upto[i]
    BY <1>7
  <2>2. \A i, j \in 1..n : i \in upto[j] \/ j \in upto[i]
    BY <1>4, <1>7 DEF Before
  <2>3. \A i, j \in 1..n : i \in upto[j] /\ j \in upto[i] => i = j
    BY <1>4, <1>7 DEF Before
  <2>4. \A i, j \in 1..n : i \in upto[j] => upto[i] \subseteq upto[j]
    <3> SUFFICES ASSUME NEW i \in 1..n, NEW j \in 1..n, i \in upto[j], NEW k \in upto[i]
                 PROVE  k \in upto[j]
      OBVIOUS
    <3>1. k \in 1..n
      BY <1>8
    <3> QED
      BY <1>4, <1>7, <3>1 DEF Before
  <2> QED
    BY <1>8, <2>1, <2>2, <2>3, <2>4 DEF IsOrder
<1>10. PICK r : /\ Numbers(r, 1..n, upto)
                /\ \A x : Listed(x, upto) = [k \in 1..Cardinality(1..n) |-> x[r[k]]]
  BY <1>2, <1>9, ListedPlaces
<1>11. /\ r \in [1..n -> 1..n]
       /\ \A a, b \in 1..n : r[a] = r[b] => a = b
       /\ \A k \in 1..n : \E a \in 1..n : r[a] = k
  <2>1. r \in Bijection(1..n, 1..n)
    BY <1>2, <1>10 DEF Numbers
  <2> QED
    BY <2>1 DEF Bijection, Injection, Surjection, IsInjective
<1>12. \A k, l \in 1..n : k < l => r[k] \in upto[r[l]] /\ r[k] # r[l]
  BY <1>2, <1>10 DEF Numbers
<1>13. SortIndex(t) = [k \in 1..n |-> t[r[k]]]
  BY <1>2, <1>6, <1>10
<1> DEFINE q == [k \in 1..n |-> p[r[k]]]
<1>14. Arranges(SortIndex(t), rs, S, q)
  <2>1. q \in [1..n -> S]
    BY <1>1, <1>11
  <2>2. \A a, b \in 1..n : q[a] = q[b] => a = b
    BY <1>1, <1>11
  <2>3. \A i \in S : \E a \in 1..n : q[a] = i
    <3> SUFFICES ASSUME NEW i \in S PROVE \E a \in 1..n : q[a] = i
      OBVIOUS
    <3>1. PICK k \in 1..n : p[k] = i
      BY <1>1
    <3>2. PICK a \in 1..n : r[a] = k
      BY <1>11
    <3> QED
      BY <3>1, <3>2
  <2>4. \A k \in 1..n : t[r[k]] = rs[q[k]]
    BY <1>3, <1>11
  <2>5. SortIndex(t) = [k \in 1..n |-> rs[q[k]]]
    BY <1>13, <2>4
  <2> HIDE DEF q
  <2> QED
    BY <2>1, <2>2, <2>3, <2>5 DEF Arranges
<1>15. IsChronological(SortIndex(t))
  <2>1. DOMAIN SortIndex(t) = 1..n /\ \A k \in 1..n : SortIndex(t)[k] = t[r[k]]
    BY <1>13
  <2>2. \A k, l \in 1..n : k < l => Before(t[r[k]].at, t[r[l]].at)
    <3> SUFFICES ASSUME NEW k \in 1..n, NEW l \in 1..n, k < l
                 PROVE  Before(t[r[k]].at, t[r[l]].at)
      OBVIOUS
    <3>1. r[k] \in upto[r[l]] /\ r[k] # r[l] /\ r[k] \in 1..n /\ r[l] \in 1..n
      BY <1>11, <1>12
    <3> QED
      BY <1>5, <1>7, <3>1
  <2> QED
    BY <2>1, <2>2 DEF IsChronological
<1> QED
  BY <1>14, <1>15

\* The clean table, by the places its rows had: the last complete row of
\* each day and no other, in the order of the days (ohlcv_cleaner.py:94-114).
THEOREM CleaningIsExact ==
    ASSUME NEW rs \in Seq(RawRows)
    PROVE  /\ \E q : Arranges(CleanRows(rs), rs, Wanted(rs), q)
           /\ IsChronological(CleanRows(rs))
<1> DEFINE t == KeepLast(DropIncomplete(DropUndated(rs)))
           W == Wanted(rs)
<1>1. PICK p : Follows(t, rs, W, p)
  BY KeptPlaces
<1>2. Arranges(t, rs, W, p)
  <2>1. /\ p \in [1..Cardinality(W) -> W]
        /\ \A a, b \in 1..Cardinality(W) : p[a] = p[b] => a = b
        /\ \A i \in W : \E a \in 1..Cardinality(W) : p[a] = i
        /\ t = [k \in 1..Cardinality(W) |-> rs[p[k]]]
    BY ONLY <1>1, FollowsParts
  <2> QED
    BY <2>1 DEF Arranges
<1>3. W \in SUBSET DOMAIN rs
  BY DEF Wanted, Usable
<1>4. W \in SUBSET Int /\ IsFiniteSet(W)
  BY <1>3, TablePlaces
<1>5. \A i \in W : rs[i].at \in Int \X Int
  <2>1. \A i \in DOMAIN rs : rs[i] \in RawRows
    OBVIOUS
  <2>2. \A i \in W : rs[i].at # NaT
    BY DEF Wanted, Usable
  <2> QED
    BY <1>3, <2>1, <2>2 DEF RawRows, Dates
<1>6. \A i, j \in W : rs[i].at = rs[j].at => i = j
  <2>1. \A i, j \in W : rs[i].at = rs[j].at => i <= j /\ j <= i
    BY DEF Wanted
  <2> QED
    BY <1>4, <2>1
<1>7. CleanRows(rs) = SortIndex(t)
  BY DEF CleanRows
<1> HIDE DEF t, W
<1>8. \E q : Arranges(SortIndex(t), rs, W, q) /\ IsChronological(SortIndex(t))
  BY <1>2, <1>4, <1>5, <1>6, SortedPlaces
<1> QED
  BY <1>7, <1>8 DEF W

LEMMA CleanRowsParts ==
    ASSUME NEW rs \in Seq(RawRows)
    PROVE  /\ CleanRows(rs) \in Seq(RawRows)
           /\ Len(CleanRows(rs)) = Cardinality(Wanted(rs))
           /\ Range(CleanRows(rs)) = {rs[i] : i \in Wanted(rs)}
           /\ \A k \in DOMAIN CleanRows(rs) :
                 \E i \in DOMAIN rs : CleanRows(rs)[k] = rs[i] /\ rs[i].at \in Dates /\ rs[i].at # NaT
<1> DEFINE W == Wanted(rs)
           n == Cardinality(W)
           t == CleanRows(rs)
<1>1. PICK q : Arranges(t, rs, W, q)
  BY CleaningIsExact
<1>2. /\ q \in [1..n -> W]
      /\ \A i \in W : \E a \in 1..n : q[a] = i
      /\ t = [k \in 1..n |-> rs[q[k]]]
  BY <1>1 DEF Arranges
<1>3. W \in SUBSET DOMAIN rs /\ \A i \in W : rs[i].at # NaT
  BY DEF Wanted, Usable
<1>4. \A i \in DOMAIN rs : rs[i] \in RawRows
  OBVIOUS
<1>5. \A i \in W : rs[i] \in RawRows /\ rs[i].at \in Dates
  BY <1>3, <1>4 DEF RawRows
<1>6. n \in Nat
  BY <1>3, TablePlaces, FS_CardinalityType
<1> HIDE DEF W, n, t
<1>7. \A k \in 1..n : t[k] = rs[q[k]] /\ q[k] \in W
  BY <1>2
<1>8. DOMAIN t = 1..n /\ t = [k \in 1..n |-> t[k]]
  BY <1>2
<1>9. t \in [1..n -> RawRows]
  BY <1>5, <1>7, <1>8
<1>10. t \in Seq(RawRows) /\ Len(t) = n
  BY <1>6, <1>8, <1>9
<1>11. Range(t) = {rs[i] : i \in W}
  BY <1>2, <1>7, <1>8 DEF Range
<1>12. \A k \in DOMAIN t : \E i \in DOMAIN rs : t[k] = rs[i] /\ rs[i].at \in Dates /\ rs[i].at # NaT
  BY <1>3, <1>5, <1>7, <1>8
<1> QED
  BY <1>10, <1>11, <1>12 DEF W, n, t

-----------------------------------------------------------------------------
(* The split.                                                              *)

LEMMA BeforeIsStrict ==
    ASSUME NEW a \in Int \X Int, NEW b \in Int \X Int, NEW c \in Int \X Int
    PROVE  /\ ~Before(a, a)
           /\ Before(a, b) => ~Before(b, a)
           /\ Before(a, b) /\ Before(b, c) => Before(a, c)
           /\ Before(a, b) \/ Before(b, a) \/ a = b
BY DEF Before

\* A table the splitter takes: dated, in order, not empty.
IsTable(t) ==
    /\ t \in Seq(RawRows)
    /\ t # <<>>
    /\ \A i \in DOMAIN t : t[i].at \in Dates
    /\ IsChronological(t)

LEMMA TableDates ==
    ASSUME NEW t, IsTable(t)
    PROVE  /\ Len(t) \in Nat \ {0} /\ DOMAIN t = 1..Len(t)
           /\ \A i \in 1..Len(t) : t[i].at \in Dates /\ t[i].at \in Int \X Int
           /\ \A i, j \in 1..Len(t) : i < j => Before(t[i].at, t[j].at)
<1>1. t \in Seq(RawRows) /\ t # <<>>
  BY DEF IsTable
<1>2. Len(t) \in Nat /\ DOMAIN t = 1..Len(t) /\ Len(t) # 0
  BY <1>1, EmptySeq
<1>3. \A i \in 1..Len(t) : t[i].at \in Dates
  BY <1>2 DEF IsTable
<1>4. \A i \in 1..Len(t) : t[i].at \in Int \X Int
  BY <1>3 DEF Dates
<1>5. \A i, j \in 1..Len(t) : i < j => Before(t[i].at, t[j].at)
  BY <1>2 DEF IsTable, IsChronological
<1> QED
  BY <1>2, <1>3, <1>4, <1>5

LEMMA LatestIsLast ==
    ASSUME NEW t, IsTable(t)
    PROVE  Latest(t) = Last(t).at /\ Latest(t) \in Dates /\ Latest(t) = t[Len(t)].at
<1> DEFINE n == Len(t)
           ds == {t[i].at : i \in DOMAIN t}
           last == t[n].at
<1>1. /\ n \in Nat \ {0} /\ DOMAIN t = 1..n
      /\ \A i \in 1..n : t[i].at \in Dates /\ t[i].at \in Int \X Int
      /\ \A i, j \in 1..n : i < j => Before(t[i].at, t[j].at)
  BY TableDates
<1>2. n \in 1..n
  BY <1>1
<1>3. last \in ds /\ last \in Dates
  BY <1>1, <1>2
<1>4. \A i \in 1..n : ~Before(last, t[i].at)
  <2> SUFFICES ASSUME NEW i \in 1..n PROVE ~Before(last, t[i].at)
    OBVIOUS
  <2>1. t[i].at \in Int \X Int /\ last \in Int \X Int
    BY <1>1, <1>2
  <2>2. i < n => Before(t[i].at, last)
    BY <1>1, <1>2
  <2>3. n \in Int /\ i \in Int /\ i <= n
    BY <1>1
  <2>4. i < n \/ i = n
    BY <2>3
  <2> QED
    BY <2>1, <2>2, <2>4, BeforeIsStrict
<1>5. \A d \in ds : (\A i \in DOMAIN t : ~Before(d, t[i].at)) => d = last
  <2> SUFFICES ASSUME NEW k \in 1..n, \A i \in DOMAIN t : ~Before(t[k].at, t[i].at)
               PROVE  t[k].at = last
    BY <1>1
  <2>1. ~(k < n)
    BY <1>1, <1>2
  <2> QED
    BY <1>1, <2>1
<1>6. Latest(t) = last
  <2>1. last \in ds /\ \A i \in DOMAIN t : ~Before(last, t[i].at)
    BY <1>1, <1>3, <1>4
  <2>2. Latest(t) = CHOOSE d \in ds : \A i \in DOMAIN t : ~Before(d, t[i].at)
    BY DEF Latest
  <2> HIDE DEF ds, last
  <2>3. Latest(t) \in ds /\ \A i \in DOMAIN t : ~Before(Latest(t), t[i].at)
    BY <2>1, <2>2
  <2> QED
    BY <1>5, <2>3
<1>7. Last(t) = t[n]
  BY DEF Last
<1> QED
  BY <1>3, <1>6, <1>7

(* An initial part of the places is numbered by its own places.            *)
LEMMA InitialPlaces ==
    ASSUME NEW n \in Nat, NEW K \in SUBSET (1..n),
           \A i \in K, j \in 1..n : j <= i => j \in K
    PROVE  Cardinality(K) \in 0..n /\ K = 1..Cardinality(K)
<1> DEFINE upto == [i \in K |-> {j \in K : j <= i}]
           m == Cardinality(K)
           rank == [i \in K |-> Cardinality(upto[i])]
<1>1. IsFiniteSet(1..n) /\ Cardinality(1..n) = n
  BY FS_Interval
<1>2. IsFiniteSet(K) /\ m \in Nat /\ m <= n
  <2>1. IsFiniteSet(K) /\ Cardinality(K) <= Cardinality(1..n)
    BY <1>1, FS_Subset
  <2>2. m \in Nat
    BY <2>1, FS_CardinalityType
  <2> QED
    BY <1>1, <2>1, <2>2
<1>3. K \in SUBSET Int
  OBVIOUS
<1>4. IsOrder(K, upto)
  BY <1>3, PlacesAreOrdered
<1>5. \A i \in K : Cardinality(upto[i]) = i
  <2> SUFFICES ASSUME NEW i \in K PROVE Cardinality(upto[i]) = i
    OBVIOUS
  <2>1. i \in 1..n
    OBVIOUS
  <2>2. \A j \in 1..i : j \in 1..n /\ j <= i
    BY <2>1
  <2>3. \A j \in 1..i : j \in K
    BY <2>2
  <2>4. \A j \in K : j <= i => j \in 1..i
    BY <2>1
  <2>5. upto[i] = 1..i
    BY <2>2, <2>3, <2>4
  <2>6. Cardinality(1..i) = i
    BY <2>1, FS_Interval
  <2> QED
    BY <2>5, <2>6
<1> HIDE DEF upto
<1>6. rank \in Bijection(K, 1..m)
  BY <1>2, <1>4, RanksNumber
<1>7. \A i \in K : rank[i] = i
  BY <1>5
<1> HIDE DEF rank, m
<1>8. /\ rank \in [K -> 1..m]
      /\ \A k \in 1..m : \E i \in K : rank[i] = k
  BY <1>6 DEF Bijection, Injection, Surjection, IsInjective
<1>9. K = 1..m
  BY <1>7, <1>8
<1> QED
  BY <1>2, <1>9 DEF m

(* A mask that keeps adjoining rows.                                       *)
LEMMA IntervalMask ==
    ASSUME NEW a \in Nat, NEW b \in Nat, a <= b, NEW rs
    PROVE  Masked(rs, (a + 1)..b) = [k \in 1..(b - a) |-> rs[a + k]]
<1> DEFINE K == (a + 1)..b
           upto == [i \in K |-> {j \in K : j <= i}]
<1>1. Cardinality(K) = b - a
  <2>1. Cardinality((a + 1)..b) = IF a + 1 > b THEN 0 ELSE b - (a + 1) + 1
    BY FS_Interval
  <2> QED
    BY <2>1
<1>2. \A i \in K : Cardinality(upto[i]) = i - a
  <2> SUFFICES ASSUME NEW i \in K PROVE Cardinality(upto[i]) = i - a
    OBVIOUS
  <2>1. upto[i] = (a + 1)..i
    OBVIOUS
  <2>2. i \in Int /\ a + 1 \in Int /\ a + 1 <= i
    OBVIOUS
  <2>3. Cardinality((a + 1)..i) = IF a + 1 > i THEN 0 ELSE i - (a + 1) + 1
    BY <2>2, FS_Interval
  <2>4. Cardinality((a + 1)..i) = i - a
    BY <2>2, <2>3
  <2> QED
    BY <2>1, <2>4
<1>3. Masked(rs, K) = Listed(rs, upto)
  BY DEF Masked
<1>4. DOMAIN upto = K
  OBVIOUS
<1> HIDE DEF upto
<1>5. \A k \in 1..(b - a) : (CHOOSE i \in K : Cardinality(upto[i]) = k) = a + k
  <2> SUFFICES ASSUME NEW k \in 1..(b - a)
               PROVE  (CHOOSE i \in K : Cardinality(upto[i]) = k) = a + k
    OBVIOUS
  <2>1. a + k \in K /\ Cardinality(upto[a + k]) = k
    <3>1. a + k \in K /\ (a + k) - a = k
      OBVIOUS
    <3> QED
      BY <1>2, <3>1
  <2>2. \A i \in K : Cardinality(upto[i]) = k => i = a + k
    <3> SUFFICES ASSUME NEW i \in K, i - a = k PROVE i = a + k
      BY <1>2
    <3> QED
      OBVIOUS
  <2> HIDE DEF K
  <2> QED
    BY <2>1, <2>2
<1>6. Listed(rs, upto) = [k \in 1..(b - a) |-> rs[CHOOSE i \in K : Cardinality(upto[i]) = k]]
  BY <1>1, <1>4 DEF Listed
<1> QED
  BY <1>3, <1>5, <1>6

\* The splitter cuts a table in two at one place, and the later part is
\* never empty (data_split.py:34-37).
THEOREM SplitIsACut ==
    ASSUME NEW t, IsTable(t)
    PROVE  \E m \in 0..(Len(t) - 1) :
              /\ History(t) = [k \in 1..m |-> t[k]]
              /\ HeldOut(t) = [k \in 1..(Len(t) - m) |-> t[m + k]]
              /\ \A i \in 1..Len(t) : Before(t[i].at, Cutoff(Latest(t))) <=> i <= m
<1> DEFINE n == Len(t)
           c == Cutoff(Latest(t))
           K == {i \in 1..n : Before(t[i].at, c)}
           m == Cardinality(K)
<1>1. /\ n \in Nat \ {0} /\ DOMAIN t = 1..n
      /\ \A i \in 1..n : t[i].at \in Dates /\ t[i].at \in Int \X Int
      /\ \A i, j \in 1..n : i < j => Before(t[i].at, t[j].at)
  BY TableDates
<1>2. Latest(t) = t[n].at /\ Latest(t) \in Dates
  BY LatestIsLast
<1>3. c \in Dates /\ Before(c, Latest(t))
  BY <1>2, CutoffIsDate
<1>4. c \in Int \X Int /\ Latest(t) \in Int \X Int
  BY <1>2, <1>3 DEF Dates
<1>5. History(t) = Masked(t, K)
  BY <1>1 DEF History
<1>6. HeldOut(t) = Masked(t, {i \in 1..n : ~Before(t[i].at, c)})
  BY <1>1 DEF HeldOut
<1>7. n \notin K /\ n \in 1..n
  <2>1. ~Before(Latest(t), c)
    BY <1>3, <1>4, BeforeIsStrict
  <2> QED
    BY <1>1, <1>2, <2>1
<1> HIDE DEF c
<1>8. \A i \in K, j \in 1..n : j <= i => j \in K
  <2> SUFFICES ASSUME NEW i \in K, NEW j \in 1..n, j <= i PROVE Before(t[j].at, c)
    OBVIOUS
  <2>1. i \in 1..n /\ Before(t[i].at, c)
    OBVIOUS
  <2>2. j < i \/ j = i
    BY <2>1
  <2>3. j < i => Before(t[j].at, t[i].at)
    BY <1>1, <2>1
  <2>4. t[i].at \in Int \X Int /\ t[j].at \in Int \X Int
    BY <1>1, <2>1
  <2> QED
    BY <1>4, <2>1, <2>2, <2>3, <2>4, BeforeIsStrict
<1>9. m \in 0..n /\ K = 1..m
  <2>1. n \in Nat /\ K \in SUBSET (1..n)
    BY <1>1
  <2> HIDE DEF K, n
  <2> QED
    BY <1>8, <2>1, InitialPlaces
<1>10. {i \in 1..n : ~Before(t[i].at, c)} = (1..n) \ K
  OBVIOUS
<1> HIDE DEF m, n
<1>11. \A i \in 1..n : Before(t[i].at, c) <=> i <= m
  <2>1. \A i \in 1..n : Before(t[i].at, c) <=> i \in K
    OBVIOUS
  <2> HIDE DEF K
  <2> QED
    BY <1>1, <1>9, <2>1
<1> HIDE DEF K
<1>12. m \in 0..(n - 1) /\ m \in Nat /\ n \in Nat /\ m <= n
  BY <1>1, <1>7, <1>9
<1>13. (1..n) \ K = (m + 1)..n /\ K = (0 + 1)..m
  BY <1>9, <1>12
<1>14. Masked(t, (m + 1)..n) = [k \in 1..(n - m) |-> t[m + k]]
  BY <1>12, IntervalMask
<1>15. Masked(t, (0 + 1)..m) = [k \in 1..m |-> t[k]]
  <2>1. PICK z \in Nat : z = 0
    OBVIOUS
  <2>2. z <= m
    BY <1>12, <2>1
  <2>3. Masked(t, (z + 1)..m) = [k \in 1..(m - z) |-> t[z + k]]
    BY <1>12, <2>2, IntervalMask
  <2>4. 1..(m - 0) = 1..m /\ \A k \in 1..m : 0 + k = k
    BY <1>12
  <2> QED
    BY <2>1, <2>3, <2>4
<1>16. History(t) = [k \in 1..m |-> t[k]] /\ HeldOut(t) = [k \in 1..(n - m) |-> t[m + k]]
  BY <1>5, <1>6, <1>10, <1>13, <1>14, <1>15
<1> QED
  BY <1>11, <1>12, <1>16 DEF c, n

\* History and held-out bars are the table again, and no bar is in both:
\* the splitter answers invalid for no table in order (data_split.py:42 is
\* never reached with one).
THEOREM SplitMeetsTable ==
    ASSUME NEW t, IsTable(t)
    PROVE  /\ History(t) \o HeldOut(t) = t
           /\ SplitOutcome(t) \in {"ok", "InsufficientMarketDataError"}
           /\ SplitOutcome(t) = "ok" => History(t) # <<>> /\ Len(HeldOut(t)) >= MinimumTestBars
<1> DEFINE n == Len(t)
           h == History(t)
           u == HeldOut(t)
<1>1. /\ n \in Nat \ {0} /\ DOMAIN t = 1..n
      /\ \A i \in 1..n : t[i].at \in Dates /\ t[i].at \in Int \X Int
      /\ \A i, j \in 1..n : i < j => Before(t[i].at, t[j].at)
  BY TableDates
<1>2. t \in Seq(RawRows) /\ t # <<>> /\ IsChronological(t)
  BY DEF IsTable
<1>3. PICK m \in 0..(n - 1) : /\ h = [k \in 1..m |-> t[k]]
                              /\ u = [k \in 1..(n - m) |-> t[m + k]]
  BY SplitIsACut
<1>4. \A i \in 1..n : t[i] \in RawRows
  BY <1>1, <1>2
<1>5. m \in Nat /\ n - m \in Nat /\ n \in Nat /\ m <= n
  BY <1>1
<1>6. SplitOutcome(t) = IF h = <<>> \/ Len(u) < MinimumTestBars
                        THEN "InsufficientMarketDataError"
                        ELSE IF \E x \in Range(h), y \in Range(u) : x.at = y.at
                             THEN "InvalidMarketDataError"
                             ELSE "ok"
  BY <1>2 DEF SplitOutcome
<1> HIDE DEF h, u, n
<1>7. /\ h \in Seq(RawRows) /\ Len(h) = m
      /\ \A k \in 1..m : h[k] = t[k] /\ k \in 1..n
  <2>1. \A k \in 1..m : h[k] = t[k] /\ k \in 1..n
    BY <1>3, <1>5
  <2>2. h \in [1..m -> RawRows]
    BY <1>3, <1>4, <2>1
  <2>3. h \in Seq(RawRows) /\ Len(h) = m
    BY <1>5, <2>2
  <2> QED
    BY <2>1, <2>3
<1>8. /\ u \in Seq(RawRows) /\ Len(u) = n - m
      /\ \A k \in 1..(n - m) : u[k] = t[m + k] /\ m + k \in 1..n
  <2>1. \A k \in 1..(n - m) : u[k] = t[m + k] /\ m + k \in 1..n
    BY <1>3, <1>5
  <2>2. u \in [1..(n - m) -> RawRows]
    BY <1>3, <1>4, <2>1
  <2>3. u \in Seq(RawRows) /\ Len(u) = n - m
    BY <1>5, <2>2
  <2> QED
    BY <2>1, <2>3
<1>9. h \o u = t
  <2>1. /\ h \o u \in Seq(RawRows)
        /\ Len(h \o u) = m + (n - m)
        /\ \A i \in 1..(m + (n - m)) : (h \o u)[i] = IF i <= m THEN h[i] ELSE u[i - m]
    <3>1. h \in Seq(RawRows) /\ u \in Seq(RawRows)
      BY <1>7, <1>8
    <3>2. /\ h \o u \in Seq(RawRows)
          /\ Len(h \o u) = Len(h) + Len(u)
          /\ \A i \in 1..(Len(h) + Len(u)) :
                (h \o u)[i] = IF i <= Len(h) THEN h[i] ELSE u[i - Len(h)]
      BY <3>1, ConcatProperties
    <3> QED
      BY <1>7, <1>8, <3>2
  <2>2. m + (n - m) = n
    BY <1>5
  <2>3. \A i \in 1..n : (h \o u)[i] = t[i]
    <3> SUFFICES ASSUME NEW i \in 1..n PROVE (h \o u)[i] = t[i]
      OBVIOUS
    <3>1. CASE i <= m
      <4>1. i \in 1..m
        BY <1>5, <3>1
      <4> QED
        BY <1>7, <2>1, <2>2, <3>1, <4>1
    <3>2. CASE ~(i <= m)
      <4>1. i - m \in 1..(n - m) /\ m + (i - m) = i
        BY <1>5, <3>2
      <4> QED
        BY <1>8, <2>1, <2>2, <3>2, <4>1
    <3> QED
      BY <3>1, <3>2
  <2>4. Len(t) = n
    BY DEF n
  <2> QED
    BY <1>2, <2>1, <2>2, <2>3, <2>4, SeqEqual
<1>10. ~ \E x \in Range(h), y \in Range(u) : x.at = y.at
  <2> SUFFICES ASSUME NEW x \in Range(h), NEW y \in Range(u)
               PROVE  x.at # y.at
    OBVIOUS
  <2>1. PICK a \in 1..m : x = t[a]
    BY <1>3, <1>7 DEF Range
  <2>2. PICK b \in 1..(n - m) : y = t[m + b]
    BY <1>3, <1>8 DEF Range
  <2>3. a \in 1..n /\ m + b \in 1..n /\ a < m + b
    BY <1>5, <1>7, <1>8
  <2>4. Before(t[a].at, t[m + b].at)
    BY <1>1, <2>3
  <2>5. t[a].at \in Int \X Int
    BY <1>1, <2>3
  <2> QED
    BY <2>1, <2>2, <2>4, <2>5, BeforeIsStrict
<1>11. Len(u) \in Nat
  BY <1>5, <1>8
<1>12. SplitOutcome(t) = "ok" => h # <<>> /\ Len(u) >= MinimumTestBars
  <2>1. MinimumTestBars \in Nat
    BY MarketAssumption
  <2> QED
    BY <1>6, <1>11, <2>1
<1> QED
  BY <1>6, <1>9, <1>10, <1>12 DEF h, u

LEMMA AcceptedIsTable ==
    ASSUME frame.rows \in Seq(RawRows), Accepts(frame)
    PROVE  IsTable(CleanRows(frame.rows))
<1>1. CleanRows(frame.rows) # <<>>
  BY DEF Accepts
<1>2. IsChronological(CleanRows(frame.rows))
  BY CleaningIsExact
<1>3. CleanRows(frame.rows) \in Seq(RawRows)
  BY CleanRowsParts
<1>4. \A k \in DOMAIN CleanRows(frame.rows) : CleanRows(frame.rows)[k].at \in Dates
  BY CleanRowsParts
<1> QED
  BY <1>1, <1>2, <1>3, <1>4 DEF IsTable

-----------------------------------------------------------------------------
(* The requests.                                                           *)

Outcomes == {"ok", "UnsupportedBistSymbolError", "InsufficientMarketDataError",
             "MarketDataUnavailableError", "InvalidMarketDataError", "BacktestExecutionError"}

\* What Yahoo returned is older than today.
FrameIsPast ==
    /\ frame.rows \in Seq(RawRows)
    /\ \A i \in DOMAIN frame.rows : frame.rows[i].at = NaT \/ Before(frame.rows[i].at, today)

\* The clean table is of the frame at hand.
RowsAreClean ==
    /\ pc \in {"idle", "downloading", "preparing"} => rows = <<>>
    /\ rows # <<>> => Accepts(frame) /\ rows = CleanRows(frame.rows)

\* There is an answer once the request is over, and each says what it means.
AnswersFit ==
    /\ IF pc = "answered"
       THEN \E o \in Outcomes : response = [status |-> HttpStatus(o), error |-> o]
       ELSE response = NoAnswer
    /\ response.error = "InvalidMarketDataError" => ~Accepts(frame)
    /\ Prepared => rows # <<>> /\ SplitOutcome(rows) = "ok"

HeldFits == held # <<>> => held[1] \in Dates /\ held[2] = Cutoff(held[1])

IInv ==
    /\ today \in Days
    /\ pc \in {"idle", "downloading", "preparing", "testing", "answered"}
    /\ FrameIsPast
    /\ RowsAreClean
    /\ AnswersFit
    /\ HeldFits

(* A mask over a table is a table of some of its rows.                     *)
LEMMA MaskIsTable ==
    ASSUME NEW rs \in Seq(RawRows), NEW S \in SUBSET DOMAIN rs
    PROVE  /\ Masked(rs, S) \in Seq(RawRows)
           /\ \A k \in DOMAIN Masked(rs, S) : \E i \in S : Masked(rs, S)[k] = rs[i]
<1> DEFINE n == Cardinality(S)
           t == Masked(rs, S)
<1>1. S \in SUBSET Int /\ IsFiniteSet(S)
  BY TablePlaces
<1>2. PICK p : Follows(t, rs, S, p)
  BY <1>1, MaskedPlaces
<1>3. p \in [1..n -> S] /\ t = [k \in 1..n |-> rs[p[k]]]
  BY <1>2, FollowsParts
<1>4. n \in Nat
  BY <1>1, FS_CardinalityType
<1>5. \A i \in S : rs[i] \in RawRows
  OBVIOUS
<1> HIDE DEF t, n
<1>6. DOMAIN t = 1..n /\ \A k \in 1..n : p[k] \in S /\ t[k] = rs[p[k]]
  BY <1>3
<1>7. t \in [1..n -> RawRows]
  BY <1>3, <1>5, <1>6
<1>8. t \in Seq(RawRows)
  BY <1>4, <1>7
<1> QED
  BY <1>6, <1>8 DEF t

LEMMA WindowIsPast ==
    ASSUME NEW all \in Frames
    PROVE  /\ InWindow(all).rows \in Seq(RawRows)
           /\ \A i \in DOMAIN InWindow(all).rows :
                 \/ InWindow(all).rows[i].at = NaT
                 \/ Before(InWindow(all).rows[i].at, today)
<1> DEFINE rs == all.rows
           S == {i \in DOMAIN rs :
                    \/ rs[i].at = NaT
                    \/ ~Before(rs[i].at, StartDate(today)) /\ Before(rs[i].at, EndDate(today))}
<1>1. all \in [levels : Seq(Seq(STRING)), rows : Seq(RawRows)]
  BY FramesAssumption
<1>2. rs \in Seq(RawRows)
  BY <1>1
<1>3. InWindow(all).rows = Masked(rs, S)
  BY <1>1 DEF InWindow
<1>4. \A i \in S : rs[i].at = NaT \/ Before(rs[i].at, today)
  BY DEF EndDate
<1>5. S \in SUBSET DOMAIN rs
  OBVIOUS
<1> HIDE DEF S
<1>6. /\ Masked(rs, S) \in Seq(RawRows)
      /\ \A k \in DOMAIN Masked(rs, S) : \E i \in S : Masked(rs, S)[k] = rs[i]
  BY <1>2, <1>5, MaskIsTable
<1> QED
  BY <1>3, <1>4, <1>6

LEMMA InitInvariant == Init => IInv
<1> SUFFICES ASSUME Init PROVE IInv
  OBVIOUS
<1>1. frame.rows = <<>> /\ rows = <<>> /\ response = NoAnswer /\ held = <<>> /\ pc = "idle"
  BY DEF Init, NoFrame
<1>2. frame.rows \in Seq(RawRows) /\ DOMAIN frame.rows = {}
  BY <1>1
<1> QED
  BY <1>1, <1>2 DEF Init, IInv, FrameIsPast, RowsAreClean, AnswersFit, HeldFits, Prepared, NoAnswer

LEMMA NewDayInvariant == IInv /\ NewDay => IInv'
<1> SUFFICES ASSUME IInv, NewDay PROVE IInv'
  OBVIOUS
<1>1. /\ frame'.rows = <<>> /\ rows' = <<>> /\ response' = NoAnswer /\ held' = held
      /\ pc' = "idle" /\ today' \in Days
  BY DEF NewDay, NoFrame
<1>2. frame'.rows \in Seq(RawRows) /\ DOMAIN frame'.rows = {}
  BY <1>1
<1>3. HeldFits'
  BY <1>1 DEF IInv, HeldFits
<1> QED
  BY <1>1, <1>2, <1>3 DEF IInv, FrameIsPast, RowsAreClean, AnswersFit, Prepared, NoAnswer

LEMMA RequestInvariant == IInv /\ Request => IInv'
<1> SUFFICES ASSUME IInv, Request PROVE IInv'
  OBVIOUS
<1>1. /\ today' = today /\ frame' = frame /\ rows' = rows /\ held' = held
      /\ pc = "idle" /\ response = NoAnswer /\ rows = <<>>
  BY DEF Request, IInv, AnswersFit, RowsAreClean
<1>2. today' \in Days /\ FrameIsPast' /\ HeldFits'
  BY <1>1 DEF IInv, FrameIsPast, HeldFits
<1>3. CASE pc' = "downloading" /\ response' = response
  BY <1>1, <1>2, <1>3 DEF IInv, RowsAreClean, AnswersFit, Prepared, NoAnswer
<1>4. CASE Answer("UnsupportedBistSymbolError")
  BY <1>1, <1>2, <1>4 DEF IInv, RowsAreClean, AnswersFit, Prepared, NoAnswer, Answer, Outcomes
<1> QED
  BY <1>3, <1>4 DEF Request

LEMMA DownloadInvariant == IInv /\ Download => IInv'
<1> SUFFICES ASSUME IInv, Download PROVE IInv'
  OBVIOUS
<1>1. /\ today' = today /\ rows' = rows /\ held' = held
      /\ pc = "downloading" /\ response = NoAnswer /\ rows = <<>>
  BY DEF Download, IInv, AnswersFit, RowsAreClean
<1>2. today' \in Days /\ HeldFits'
  BY <1>1 DEF IInv, HeldFits
<1>3. FrameIsPast'
  <2>1. CASE \E all \in Frames : frame' = InWindow(all)
    BY <1>1, <2>1, WindowIsPast DEF FrameIsPast
  <2>2. CASE frame' = frame
    BY <1>1, <2>2 DEF IInv, FrameIsPast
  <2> QED
    BY <2>1, <2>2 DEF Download
<1>4. CASE Answer("MarketDataUnavailableError")
  BY <1>1, <1>2, <1>3, <1>4 DEF IInv, RowsAreClean, AnswersFit, Prepared, NoAnswer, Answer, Outcomes
<1>5. CASE pc' = "preparing" /\ response' = response
  BY <1>1, <1>2, <1>3, <1>5 DEF IInv, RowsAreClean, AnswersFit, Prepared, NoAnswer
<1> QED
  BY <1>4, <1>5 DEF Download

LEMMA PrepareInvariant == IInv /\ Prepare => IInv'
<1> SUFFICES ASSUME IInv, Prepare PROVE IInv'
  OBVIOUS
<1>1. /\ today' = today /\ frame' = frame
      /\ pc = "preparing" /\ response = NoAnswer /\ rows = <<>> /\ frame.rows \in Seq(RawRows)
  BY DEF Prepare, IInv, AnswersFit, RowsAreClean, FrameIsPast
<1>2. today' \in Days /\ FrameIsPast'
  BY <1>1 DEF IInv, FrameIsPast
<1>3. Accepts(frame)' <=> Accepts(frame)
  BY <1>1 DEF Accepts
<1>4. CASE ~Accepts(frame)
  <2>1. rows' = rows /\ held' = held /\ Answer("InvalidMarketDataError")
    BY <1>4 DEF Prepare
  <2>2. HeldFits' /\ RowsAreClean' /\ pc' = "answered"
    BY <1>1, <2>1 DEF IInv, HeldFits, RowsAreClean, Answer
  <2>3. response' = [status |-> HttpStatus("InvalidMarketDataError"), error |-> "InvalidMarketDataError"]
    BY <2>1 DEF Answer
  <2>4. AnswersFit'
    BY <1>3, <1>4, <2>2, <2>3 DEF AnswersFit, Prepared, Outcomes
  <2> QED
    BY <1>2, <2>2, <2>4 DEF IInv
<1>5. CASE Accepts(frame)
  <2>1. rows' = CleanRows(frame.rows)
    BY <1>5 DEF Prepare
  <2>2. IsTable(rows')
    BY <1>1, <1>5, <2>1, AcceptedIsTable
  <2>3. SplitOutcome(rows') \in {"ok", "InsufficientMarketDataError"}
    BY <2>2, SplitMeetsTable
  <2>4. Latest(rows') \in Dates
    BY <2>2, LatestIsLast
  <2>5. rows' # <<>>
    BY <2>2 DEF IsTable
  <2>6. CASE SplitOutcome(rows') = "ok"
    <3>1. pc' = "testing" /\ held' = <<Latest(rows'), Cutoff(Latest(rows'))>> /\ response' = response
      BY <1>5, <2>6 DEF Prepare
    <3>2. HeldFits'
      BY <2>4, <3>1 DEF HeldFits
    <3>3. RowsAreClean'
      BY <1>1, <1>3, <1>5, <2>1, <3>1 DEF RowsAreClean
    <3>4. AnswersFit'
      BY <1>1, <2>5, <2>6, <3>1 DEF AnswersFit, NoAnswer
    <3> QED
      BY <1>2, <3>1, <3>2, <3>3, <3>4 DEF IInv
  <2>7. CASE SplitOutcome(rows') = "InsufficientMarketDataError"
    <3>1. Answer("InsufficientMarketDataError") /\ held' = held
      BY <1>5, <2>7 DEF Prepare
    <3>2. /\ pc' = "answered" /\ response' = [status |-> HttpStatus("InsufficientMarketDataError"),
                                              error |-> "InsufficientMarketDataError"]
      BY <3>1 DEF Answer
    <3>3. HeldFits'
      BY <3>1 DEF IInv, HeldFits
    <3>4. RowsAreClean'
      BY <1>1, <1>3, <1>5, <2>1, <3>2 DEF RowsAreClean
    <3>5. AnswersFit'
      BY <3>2 DEF AnswersFit, Prepared, Outcomes
    <3> QED
      BY <1>2, <3>2, <3>3, <3>4, <3>5 DEF IInv
  <2> QED
    BY <2>3, <2>6, <2>7
<1> QED
  BY <1>4, <1>5

LEMMA TestInvariant == IInv /\ Test => IInv'
<1> SUFFICES ASSUME IInv, Test PROVE IInv'
  OBVIOUS
<1>1. /\ today' = today /\ frame' = frame /\ rows' = rows /\ held' = held
      /\ pc = "testing" /\ response = NoAnswer
  BY DEF Test, IInv, AnswersFit
<1>2. PICK o \in {"ok", "BacktestExecutionError"} : Answer(o)
  BY DEF Test
<1>3. pc' = "answered" /\ response' = [status |-> HttpStatus(o), error |-> o]
  BY <1>2 DEF Answer
<1>4. today' \in Days /\ FrameIsPast' /\ HeldFits'
  BY <1>1 DEF IInv, FrameIsPast, HeldFits
<1>5. RowsAreClean'
  <2>1. rows # <<>> => Accepts(frame) /\ rows = CleanRows(frame.rows)
    BY DEF IInv, RowsAreClean
  <2>2. Accepts(frame)' <=> Accepts(frame)
    BY <1>1 DEF Accepts
  <2> QED
    BY <1>1, <1>3, <2>1, <2>2 DEF RowsAreClean
<1>6. AnswersFit'
  <2>1. rows # <<>> /\ SplitOutcome(rows) = "ok"
    BY <1>1 DEF IInv, AnswersFit, Prepared
  <2>2. SplitOutcome(rows)' = SplitOutcome(rows)
    BY <1>1
  <2> QED
    BY <1>1, <1>3, <2>1, <2>2 DEF AnswersFit, Outcomes
<1> QED
  BY <1>3, <1>4, <1>5, <1>6 DEF IInv

LEMMA StutterInvariant == IInv /\ UNCHANGED vars => IInv'
BY DEF IInv, vars, FrameIsPast, RowsAreClean, AnswersFit, HeldFits, Accepts, Prepared

LEMMA Invariance == Spec => []IInv
<1>1. IInv /\ [Next]_vars => IInv'
  BY NewDayInvariant, RequestInvariant, DownloadInvariant, PrepareInvariant, TestInvariant,
     StutterInvariant DEF Next
<1> QED
  BY InitInvariant, <1>1, PTL DEF Spec

-----------------------------------------------------------------------------
(* What every request keeps.                                               *)

\* TypeOK: what the service works on has its type, and a split is made of
\* dates of the calendar.
THEOREM TypeCorrect == Spec => []TypeOK
<1>1. IInv => TypeOK
  <2> SUFFICES ASSUME IInv PROVE TypeOK
    OBVIOUS
  <2>1. (pc = "answered") = (response.status \in {200, 422, 500, 502})
    <3>1. CASE pc = "answered"
      <4>1. PICK o \in Outcomes : response = [status |-> HttpStatus(o), error |-> o]
        BY <3>1 DEF IInv, AnswersFit
      <4>2. HttpStatus(o) \in {200, 422, 500, 502}
        BY DEF Outcomes, HttpStatus
      <4> QED
        BY <3>1, <4>1, <4>2
    <3>2. CASE pc # "answered"
      BY <3>2 DEF IInv, AnswersFit, NoAnswer
    <3> QED
      BY <3>1, <3>2
  <2>2. held # <<>> => IsDate(held[1]) /\ IsDate(held[2])
    <3> SUFFICES ASSUME held # <<>> PROVE IsDate(held[1]) /\ IsDate(held[2])
      OBVIOUS
    <3>1. held[1] \in Dates /\ held[2] = Cutoff(held[1])
      BY DEF IInv, HeldFits
    <3>2. Cutoff(held[1]) \in Dates
      BY <3>1, CutoffIsDate
    <3> QED
      BY <3>1, <3>2 DEF Dates
  <2> QED
    BY <2>1, <2>2 DEF IInv, TypeOK
<1> QED
  BY <1>1, Invariance, PTL

\* LastCompleteBarKept: whatever Yahoo returns, the clean table has the last
\* complete bar of each day and no other bar (clean_ohlcv).
THEOREM EveryDayKeepsItsBar == Spec => []LastCompleteBarKept
<1>1. IInv => LastCompleteBarKept
  <2> SUFFICES ASSUME IInv, rows # <<>>
               PROVE  /\ Range(rows) = {frame.rows[i] : i \in Wanted(frame.rows)}
                      /\ Len(rows) = Cardinality(Wanted(frame.rows))
    BY DEF LastCompleteBarKept, Wanted, Usable
  <2>1. frame.rows \in Seq(RawRows) /\ rows = CleanRows(frame.rows)
    BY DEF IInv, FrameIsPast, RowsAreClean
  <2> QED
    BY <2>1, CleanRowsParts
<1> QED
  BY <1>1, Invariance, PTL

LEMMA PreparedTable ==
    ASSUME IInv, Prepared
    PROVE  IsTable(rows) /\ SplitOutcome(rows) = "ok"
<1>1. rows # <<>> /\ SplitOutcome(rows) = "ok"
  BY DEF IInv, AnswersFit
<1>2. Accepts(frame) /\ rows = CleanRows(frame.rows) /\ frame.rows \in Seq(RawRows)
  BY <1>1 DEF IInv, RowsAreClean, FrameIsPast
<1> QED
  BY <1>1, <1>2, AcceptedIsTable

\* SplitIsExact: what is learnt from and what is tested on are the clean
\* table, cut once, with enough to test on (split_market_data).
THEOREM SplitAlwaysExact == Spec => []SplitIsExact
<1>1. IInv => SplitIsExact
  <2> SUFFICES ASSUME IInv, Prepared
               PROVE  /\ History(rows) \o HeldOut(rows) = rows
                      /\ History(rows) # <<>>
                      /\ Len(HeldOut(rows)) >= MinimumTestBars
                      /\ Last(rows).at = Latest(rows)
    BY DEF SplitIsExact
  <2>1. IsTable(rows) /\ SplitOutcome(rows) = "ok"
    BY PreparedTable
  <2>2. Last(rows).at = Latest(rows)
    BY <2>1, LatestIsLast
  <2> QED
    BY <2>1, <2>2, SplitMeetsTable
<1> QED
  BY <1>1, Invariance, PTL

\* CleanerMeetsSplitter: only the cleaner ever calls data invalid; what
\* clean_ohlcv returns meets what split_market_data asks.
THEOREM OnlyTheCleanerRejects == Spec => []CleanerMeetsSplitter
<1>1. IInv => CleanerMeetsSplitter
  BY DEF IInv, AnswersFit, CleanerMeetsSplitter
<1> QED
  BY <1>1, Invariance, PTL

\* NoUnfinishedBar: no table has the bar of the day that is still traded
\* (the end of download_daily's window is excluded).
THEOREM TodayIsNeverUsed == Spec => []NoUnfinishedBar
<1>1. IInv => NoUnfinishedBar
  <2> SUFFICES ASSUME IInv, NEW k \in DOMAIN rows PROVE Before(rows[k].at, today)
    BY DEF NoUnfinishedBar
  <2>1. rows # <<>>
    OBVIOUS
  <2>2. rows = CleanRows(frame.rows) /\ frame.rows \in Seq(RawRows)
    BY <2>1 DEF IInv, RowsAreClean, FrameIsPast
  <2>3. PICK i \in DOMAIN frame.rows : rows[k] = frame.rows[i] /\ frame.rows[i].at # NaT
    BY <2>2, CleanRowsParts
  <2> QED
    BY <2>3 DEF IInv, FrameIsPast
<1> QED
  BY <1>1, Invariance, PTL

\* HeldOutMovesForward: a day that was history in one request is not test
\* data in a later one whose latest bar is no older.
THEOREM CutoffNeverGoesBack == Spec => HeldOutMovesForward
<1> DEFINE A == (held # <<>> /\ ~Before(held'[1], held[1])) => ~Before(held'[2], held[2])
<1>1. IInv /\ IInv' /\ [Next]_vars => [A]_held
  <2> SUFFICES ASSUME IInv, IInv', [Next]_vars, held' # held, held # <<>>,
                      ~Before(held'[1], held[1])
               PROVE  ~Before(held'[2], held[2])
    OBVIOUS
  <2>1. held' # <<>>
    <3>1. Prepare
      BY DEF Next, vars, NewDay, Request, Download, Test
    <3>2. held' = <<Latest(rows'), Cutoff(Latest(rows'))>>
      BY <3>1 DEF Prepare
    <3> QED
      BY <3>2
  <2>2. held[1] \in Dates /\ held[2] = Cutoff(held[1])
    BY DEF IInv, HeldFits
  <2>3. held'[1] \in Dates /\ held'[2] = Cutoff(held'[1])
    BY <2>1 DEF IInv, HeldFits
  <2> QED
    BY <2>2, <2>3, CutoffMonotone
<1> QED
  BY <1>1, Invariance, PTL DEF Spec, HeldOutMovesForward
=============================================================================
