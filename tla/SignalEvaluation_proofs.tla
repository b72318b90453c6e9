----------------------- MODULE SignalEvaluation_proofs ----------------------
(***************************************************************************)
(* Theorems about SignalRules and SignalEvaluation, for any windows,       *)
(* thresholds and limits, any rows, and any number of evaluators: the      *)
(* rules, computed over what a query of limited reach returns, are         *)
(* conditions on the whole tables, and on the days Agreed names they are   *)
(* the promised ones; so an evaluation or a backfill that no write raced   *)
(* reports exactly those of these days on which the rule holds.            *)
(***************************************************************************)
EXTENDS SignalEvaluation, FoldLemmas, SequenceTheorems

(***************************************************************************)
(* The days of a set in ascending order.                                   *)
(***************************************************************************)
Enumerates(q, S) ==
    /\ q \in [1..Cardinality(S) -> S]
    /\ \A m, n \in DOMAIN q : m < n => q[m] < q[n]

\* The largest element is the last of an enumeration.
LEMMA OrderExists ==
  ASSUME NEW S, \A x \in S : x \in Nat, IsFiniteSet(S)
  PROVE  \E q : Enumerates(q, S)
<1> DEFINE C == {s \in SUBSET S : ~\E q : Enumerates(q, s)}
<1>1. CASE C = {}
  BY <1>1
<1>2. CASE C # {}
  <2>1. PICK T \in C : \A U \in C : U \subseteq T => U = T
    <3>1. C \in SUBSET SUBSET S /\ C # {}
      BY <1>2
    <3> HIDE DEF C
    <3> QED BY <3>1, MinimalSet
  <2>2. IsFiniteSet(T) /\ T \in SUBSET Nat /\ Cardinality(T) \in Nat
    BY <2>1, FS_Subset, FS_CardinalityType
  <2>3. CASE T = {}
    <3> DEFINE q == [n \in 1..0 |-> 0]
    <3>1. Cardinality(T) = 0
      BY <2>3, FS_EmptySet
    <3>2. Enumerates(q, T)
      BY <3>1 DEF Enumerates
    <3> QED BY <2>1, <3>2
  <2>4. CASE T # {}
    <3> DEFINE m == Max(T)
               U == T \ {m}
               k == Cardinality(T)
    <3>1. m \in T /\ \A x \in T : m >= x
      <4>1. \A x \in T : x \in Int
        BY <2>2
      <4> HIDE DEF m, U, k, C
      <4>2. Max(T) \in T /\ \A x \in T : Max(T) >= x
        BY <2>2, <2>4, <4>1, MaxExists
      <4> QED BY <4>2 DEF m
    <3> HIDE DEF m
    <3>2. Cardinality(U) = k - 1 /\ U \in SUBSET S /\ U # T
      BY <2>1, <2>2, <3>1, FS_RemoveElement
    <3>3. PICK q : Enumerates(q, U)
      BY <2>1, <3>2
    <3> DEFINE r == [n \in 1..k |-> IF n = k THEN m ELSE q[n]]
    <3>4. k \in Nat /\ k >= 1
      BY <2>2, <2>4, FS_EmptySet
    <3> HIDE DEF k
    <3>5. q \in [1..(k - 1) -> U] /\ \A i, j \in 1..(k - 1) : i < j => q[i] < q[j]
      BY <3>2, <3>3 DEF Enumerates
    <3>6. \A n \in 1..k : n # k => n \in 1..(k - 1)
      BY <3>4
    <3>7. r \in [1..k -> T]
      BY <3>1, <3>5, <3>6
    <3>8. \A i, j \in 1..k : i < j => r[i] < r[j]
      <4> SUFFICES ASSUME NEW i \in 1..k, NEW j \in 1..k, i < j PROVE r[i] < r[j]
        OBVIOUS
      <4>1. i \in 1..(k - 1) /\ r[i] = q[i] /\ q[i] \in U
        BY <3>4, <3>5, <3>6
      <4>2. CASE j = k
        <5>1. r[j] = m
          BY <4>2
        <5>2. q[i] \in Nat /\ m \in Nat /\ q[i] <= m /\ q[i] # m
          BY <2>2, <3>1, <4>1
        <5> HIDE DEF r
        <5> QED BY <4>1, <5>1, <5>2
      <4>3. CASE j # k
        BY <3>5, <3>6, <4>1, <4>3
      <4> QED BY <4>2, <4>3
    <3>9. Enumerates(r, T)
      BY <3>7, <3>8 DEF Enumerates, k
    <3> QED BY <2>1, <3>9
  <2> QED BY <2>3, <2>4
<1> QED BY <1>1, <1>2

\* ORDER BY: each day of the set once.
LEMMA InOrderHolds ==
  ASSUME NEW S \in SUBSET Nat, IsFiniteSet(S), NEW q, q = InOrder(S)
  PROVE  /\ q \in Seq(S) /\ DOMAIN q = 1..Len(q)
         /\ \A m, n \in DOMAIN q : m # n => q[m] # q[n]
         /\ \A x \in S : \E n \in DOMAIN q : q[n] = x
         /\ q = << >> <=> S = {}
<1> DEFINE k == Cardinality(S)
<1>1. k \in Nat
  BY FS_CardinalityType
<1>2. q \in [1..k -> S] /\ \A m, n \in DOMAIN q : m < n => q[m] < q[n]
  BY OrderExists DEF InOrder, Enumerates
<1>3. \A m, n \in DOMAIN q : m # n => q[m] # q[n]
  <2> SUFFICES ASSUME NEW m \in DOMAIN q, NEW n \in DOMAIN q, m # n PROVE q[m] # q[n]
    OBVIOUS
  <2>1. m \in 1..k /\ n \in 1..k /\ q[m] \in Nat /\ q[n] \in Nat
    BY <1>2
  <2>2. m < n \/ n < m
    BY <1>1, <2>1
  <2>3. q[m] < q[n] \/ q[n] < q[m]
    BY <1>2, <2>2
  <2> QED BY ONLY <2>1, <2>3
<1>4. q \in Injection(1..k, S)
  BY <1>2, <1>3 DEF Injection, IsInjective
<1>5. IsFiniteSet(1..k) /\ Cardinality(1..k) = k
  BY <1>1, FS_Interval
<1>6. q \in Surjection(1..k, S)
  BY <1>4, <1>5, FS_Injection
<1>7. \A x \in S : \E n \in 1..k : q[n] = x
  BY <1>6 DEF Surjection
<1>8. q \in Seq(S) /\ Len(q) = k /\ DOMAIN q = 1..k
  BY <1>1, <1>2
<1>9. q = << >> <=> k = 0
  BY <1>8
<1>10. k = 0 <=> S = {}
  BY FS_EmptySet
<1> QED BY <1>3, <1>7, <1>8, <1>9, <1>10

(***************************************************************************)
(* Tables, windows and frames.                                             *)
(***************************************************************************)

LEMMA DaysFacts ==
  /\ Days \subseteq Nat /\ IsFiniteSet(Days)
  /\ \A d \in Days : d \in Nat /\ d >= 1
  /\ \A d, e \in Days, x \in Int : d <= x /\ x <= e => x \in Days
<1>1. MaxDay \in Nat
  BY RuleAssumption
<1>2. IsFiniteSet(1..MaxDay)
  BY <1>1, FS_Interval
<1> QED BY <1>1, <1>2 DEF Days

LEMMA RangeDays ==
  ASSUME NEW a \in Days, NEW b \in Days
  PROVE  a..b \subseteq Days /\ a \in Nat /\ b \in Nat /\ IsFiniteSet(a..b)
<1>1. a \in Nat /\ b \in Nat /\ a \in Int /\ b \in Int
  BY DaysFacts
<1>2. IsFiniteSet(a..b)
  BY <1>1, FS_Interval
<1>3. a..b \subseteq Days
  <2>1. MaxDay \in Nat /\ a >= 1 /\ b <= MaxDay
    BY RuleAssumption DEF Days
  <2> QED BY ONLY <1>1, <2>1 DEF Days
<1> QED BY <1>1, <1>2, <1>3

LEMMA Parameters ==
  /\ SurgeWindow \in Nat /\ SurgeWindow >= 1
  /\ ChaseWindow \in Nat /\ ChaseWindow >= 1
  /\ MinStreak \in Nat /\ MinStreak >= 1
  /\ VolumeMultiple \in Nat /\ MinRedPerMille \in Nat /\ MinGrowthPct \in Nat
BY RuleAssumption

Table(tbl, R) == tbl \in [Days -> R \cup {NoRow}]

\* The days of a table's rows, and what is in them.
LEMMA DatesFacts ==
  ASSUME NEW R, NEW tbl, Table(tbl, R)
  PROVE  /\ Dates(tbl) \subseteq Days /\ IsFiniteSet(Dates(tbl))
         /\ \A d \in Dates(tbl) : d \in Nat /\ tbl[d] \in R
<1>1. Dates(tbl) \in SUBSET Days
  BY DEF Dates
<1>2. IsFiniteSet(Dates(tbl))
  BY <1>1, DaysFacts, FS_Subset
<1>3. ASSUME NEW d \in Dates(tbl) PROVE tbl[d] \in R
  BY DEF Dates, Table
<1> QED BY <1>1, <1>2, <1>3, DaysFacts

\* A query keeps the rows between its two days as they are.
LEMMA FetchedRows ==
  ASSUME NEW R, NEW tbl, Table(tbl, R), NEW lower \in Int, NEW asOf \in Int
  PROVE  LET t == Fetched(tbl, lower, asOf)
         IN  /\ Table(t, R)
             /\ \A e : e \in Dates(t) <=> e \in Dates(tbl) /\ lower <= e /\ e <= asOf
             /\ \A e \in Dates(t) : t[e] = tbl[e]
BY DEF Table, Fetched, Dates

\* A query in a query is one query.
LEMMA FetchedTwice ==
  ASSUME NEW tbl, NEW lower \in Int, NEW near \in Int, NEW asOf \in Int, lower <= near
  PROVE  Fetched(Fetched(tbl, lower, asOf), near, asOf) = Fetched(tbl, near, asOf)
<1>1. ASSUME NEW d \in Days, near <= d PROVE lower <= d
  BY <1>1, DaysFacts
<1> QED BY <1>1 DEF Fetched

\* The frame of a query's last day: the day's row, and those before it that the
\* query reaches.
LEMMA FrameRows ==
  ASSUME NEW R, NEW tbl, Table(tbl, R), NEW lower \in Int, NEW d \in Dates(tbl), lower <= d,
         NEW n \in Nat, n >= 1
  PROVE  Frame(Fetched(tbl, lower, d), d, n) =
             {d} \cup {e \in RowsBefore(tbl, d, n - 1) : lower <= e}
<1> DEFINE t == Fetched(tbl, lower, d)
           After(e) == {f \in Dates(t) : e < f /\ f <= d}
           Between(e) == {f \in Dates(tbl) : e < f /\ f < d}
<1>1. d \in Nat /\ \A e \in Dates(tbl) : e \in Nat
  BY DatesFacts
<1>2. \A e : e \in Dates(t) <=> e \in Dates(tbl) /\ lower <= e /\ e <= d
  BY <1>1, FetchedRows
<1> HIDE DEF t
<1>3. d \in Dates(t) /\ After(d) = {}
  <2>1. d \in Dates(t)
    BY <1>1, <1>2
  <2>2. ASSUME NEW f \in Dates(t), d < f, f <= d PROVE FALSE
    <3>1. f \in Nat
      BY <1>1, <1>2
    <3> QED BY ONLY <1>1, <2>2, <3>1
  <2> QED BY <2>1, <2>2
<1>4. Cardinality(After(d)) = 0
  <2>1. Cardinality({}) = 0
    BY FS_EmptySet
  <2> QED BY <1>3, <2>1
<1>5. ASSUME NEW e \in Dates(t), e # d
      PROVE  Cardinality(After(e)) < n <=> Cardinality(Between(e)) < n - 1
  <2>1. e \in Nat /\ e < d /\ lower <= e
    BY <1>1, <1>2, <1>5
  <2>2. After(e) = Between(e) \cup {d}
    <3>1. ASSUME NEW f \in Dates(t) PROVE (e < f /\ f <= d) <=> (f = d \/ (e < f /\ f < d))
      <4>1. f \in Nat
        BY <1>1, <1>2
      <4> QED BY ONLY <1>1, <2>1, <4>1
    <3>2. ASSUME NEW f \in Dates(tbl), e < f, f < d PROVE f \in Dates(t)
      <4>1. f \in Nat
        BY <1>1
      <4>2. lower <= f /\ f <= d
        BY ONLY <1>1, <2>1, <3>2, <4>1, lower \in Int
      <4> QED BY <1>2, <4>2
    <3>3. \A f \in Dates(t) : f \in Dates(tbl)
      BY <1>2
    <3> QED BY <1>3, <3>1, <3>2, <3>3
  <2>3. Between(e) \in SUBSET Dates(tbl) /\ IsFiniteSet(Dates(tbl)) /\ d \notin Between(e)
    BY <1>1, DatesFacts
  <2> HIDE DEF Between, After
  <2>4. IsFiniteSet(Between(e))
    BY <2>3, FS_Subset
  <2>5. Cardinality(Between(e)) \in Nat
    BY <2>4, FS_CardinalityType
  <2>6. Cardinality(Between(e) \cup {d}) = Cardinality(Between(e)) + 1
    BY <2>3, <2>4, FS_AddElement
  <2> QED BY <2>2, <2>5, <2>6
<1>6. Frame(t, d, n) = {e \in Dates(t) : e <= d /\ Cardinality(After(e)) < n}
  BY DEF Frame
<1>7. RowsBefore(tbl, d, n - 1) = {e \in Dates(tbl) : e < d /\ Cardinality(Between(e)) < n - 1}
  BY DEF RowsBefore
<1> HIDE DEF After, Between
<1>8. ASSUME NEW e PROVE e \in Frame(t, d, n) <=> e = d \/ (e \in RowsBefore(tbl, d, n - 1) /\ lower <= e)
  <2>1. CASE e = d
    <3>1. d <= d
      BY <1>1
    <3> QED BY <1>3, <1>4, <1>6, <2>1, <3>1
  <2>2. CASE e # d
    <3>1. e \in Frame(t, d, n) <=> e \in Dates(t) /\ Cardinality(After(e)) < n
      BY <1>2, <1>6
    <3>2. e \in Dates(t) <=> e \in Dates(tbl) /\ lower <= e /\ e < d
      <4>1. ASSUME e \in Dates(tbl) PROVE e <= d <=> e < d
        <5>1. e \in Nat /\ d \in Nat
          BY <1>1, <4>1
        <5> QED BY ONLY <5>1, <2>2
      <4> QED BY <1>2, <4>1
    <3> QED BY <1>5, <1>7, <2>2, <3>1, <3>2
  <2> QED BY <2>1, <2>2
<1> QED BY <1>8 DEF t

\* There are at most n rows among the n before a day.
LEMMA RowsBeforeFew ==
  ASSUME NEW R, NEW tbl, Table(tbl, R), NEW d \in Nat, NEW n \in Nat
  PROVE  /\ RowsBefore(tbl, d, n) \subseteq Dates(tbl)
         /\ IsFiniteSet(RowsBefore(tbl, d, n)) /\ Cardinality(RowsBefore(tbl, d, n)) <= n
<1> DEFINE S == {e \in Dates(tbl) : e < d}
           T == RowsBefore(tbl, d, n)
<1>1. S \in SUBSET Dates(tbl) /\ S \in SUBSET Nat
  BY DatesFacts
<1>2. IsFiniteSet(S)
  BY <1>1, DatesFacts, FS_Subset
<1>3. \A e : {f \in Dates(tbl) : e < f /\ f < d} = {f \in S : e < f}
  OBVIOUS
<1>4. T = {e \in S : Cardinality({f \in S : e < f}) < n}
  <2>1. T = {e \in S : Cardinality({f \in Dates(tbl) : e < f /\ f < d}) < n}
    BY DEF RowsBefore
  <2> HIDE DEF T
  <2> QED BY <1>3, <2>1
<1> HIDE DEF S, T
<1>5. IsFiniteSet(T) /\ Cardinality(T) <= n
  BY <1>1, <1>2, <1>4, FewAbove
<1> QED BY <1>5 DEF T, RowsBefore

(***************************************************************************)
(* volume_surge_red.                                                       *)
(***************************************************************************)

\* Volumes sum to a natural: the mean the rule divides by is zero or positive.
LEMMA VolumeSumType ==
  ASSUME NEW tbl, Table(tbl, Prices), NEW frame \in SUBSET Dates(tbl)
  PROVE  IsFiniteSet(frame) /\ Cardinality(frame) \in Nat /\ VolumeSum(tbl, frame) \in Nat
<1> DEFINE f == [d \in frame |-> tbl[d].volume]
<1>1. IsFiniteSet(frame)
  BY DatesFacts, FS_Subset
<1>2. \A d \in frame : f[d] \in Nat
  BY DatesFacts, RowsAssumption
<1>3. SumFunctionOnSet(f, frame) \in Nat
  <2> HIDE DEF f
  <2> QED BY <1>1, <1>2, SumNat
<1> QED BY <1>1, <1>3, FS_CardinalityType DEF VolumeSum

LEMMA VolumeSumLocal ==
  ASSUME NEW t, NEW u, NEW frame, \A d \in frame : t[d] = u[d]
  PROVE  VolumeSum(t, frame) = VolumeSum(u, frame)
<1>1. [d \in frame |-> t[d].volume] = [d \in frame |-> u[d].volume]
  OBVIOUS
<1> QED BY <1>1 DEF VolumeSum

LEMMA NatProduct == ASSUME NEW a \in Nat, NEW b \in Nat PROVE a * b \in Nat
OBVIOUS

\* A rule emits nothing, or a severity whose denominator is positive.
LEMMA SurgeType ==
  ASSUME NEW tbl, Table(tbl, Prices), NEW d
  PROVE  SurgeEvent(tbl, d) \in Event \cup {NoEvent}
<1> DEFINE frame == Frame(tbl, d, SurgeWindow)
<1>1. CASE d \in Dates(tbl)
  <2>1. frame \in SUBSET Dates(tbl)
    BY DEF Frame
  <2> HIDE DEF frame
  <2>2. Cardinality(frame) \in Nat /\ VolumeSum(tbl, frame) \in Nat
    BY <2>1, VolumeSumType
  <2>3. tbl[d].volume \in Nat
    BY <1>1, DatesFacts, RowsAssumption
  <2>4. tbl[d].volume * Cardinality(frame) \in Nat
    BY <2>2, <2>3, NatProduct
  <2> QED BY <2>2, <2>4 DEF SurgeEvent, VolumeRatio, Event, frame
<1>2. CASE d \notin Dates(tbl)
  BY <1>2 DEF SurgeEvent
<1> QED BY <1>1, <1>2

\* the rows the code's mean of day d is over: those of the window no older than
\* three windows of calendar days
ReachedRows(d) ==
    {d} \cup {e \in RowsBefore(market.price, d, SurgeWindow - 1) : d - e <= 3 * SurgeWindow}

SurgeReached(d) ==
    LET volume == VolumeSum(market.price, ReachedRows(d))
        bar    == market.price[d]
    IN  /\ d \in Dates(market.price)
        /\ IsRedBar(bar)
        /\ volume > 0
        /\ bar.volume * Cardinality(ReachedRows(d)) >= VolumeMultiple * volume

\* The rule over the rows the service fetches for a day is this condition over the
\* table: window, frame and sum are the same, and a positive mean is a non-zero one.
LEMMA SurgeExact ==
  ASSUME market \in Market, NEW d \in Days,
         NEW event, event = SurgeEvent(Fetched(market.price, d - SurgeWindow * 3, d), d)
  PROVE  /\ event # NoEvent <=> SurgeReached(d)
         /\ event # NoEvent => event = <<market.price[d].volume * Cardinality(ReachedRows(d)),
                                         VolumeSum(market.price, ReachedRows(d))>>
<1> DEFINE P == market.price
           lower == d - SurgeWindow * 3
           t == Fetched(P, lower, d)
           rows == ReachedRows(d)
<1>1. Table(P, Prices) /\ d \in Nat /\ lower \in Int /\ lower <= d
  BY DaysFacts, Parameters DEF Market, Table
<1>2. /\ Table(t, Prices)
      /\ d \in Dates(t) <=> d \in Dates(P)
      /\ \A e \in Dates(t) : t[e] = P[e]
  <2> HIDE DEF P, lower
  <2> QED BY <1>1, FetchedRows
<1>3. CASE d \notin Dates(P)
  BY <1>2, <1>3 DEF SurgeEvent, SurgeReached
<1>4. CASE d \in Dates(P)
  <2>1. Frame(t, d, SurgeWindow) = rows
    <3>1. Frame(t, d, SurgeWindow) = {d} \cup {e \in RowsBefore(P, d, SurgeWindow - 1) : lower <= e}
      <4> HIDE DEF P, lower
      <4> QED BY <1>1, <1>4, Parameters, FrameRows
    <3>2. \A e \in RowsBefore(P, d, SurgeWindow - 1) : lower <= e <=> d - e <= 3 * SurgeWindow
      BY <1>1, DatesFacts, Parameters DEF RowsBefore
    <3> QED BY <3>1, <3>2 DEF ReachedRows
  <2>2. rows \in SUBSET Dates(t)
    BY <2>1 DEF Frame
  <2> HIDE DEF t, rows, P, lower
  <2>3. VolumeSum(t, rows) = VolumeSum(P, rows) /\ t[d] = P[d] /\ d \in Dates(t)
    BY <1>2, <1>4, <2>2, VolumeSumLocal
  <2>4. VolumeSum(t, rows) \in Nat
    BY <1>2, <2>2, VolumeSumType
  <2> DEFINE ratio == <<P[d].volume * Cardinality(rows), VolumeSum(P, rows)>>
  <2>5. VolumeRatio(t, d, rows) = ratio
    BY <2>3 DEF VolumeRatio
  <2>6. event = IF /\ IsRedBar(P[d])
                   /\ ratio[2] # 0
                   /\ ratio[1] >= VolumeMultiple * ratio[2]
                THEN ratio ELSE NoEvent
    BY <2>1, <2>3, <2>5 DEF SurgeEvent, t, P, lower
  <2>8. ratio[2] # 0 <=> VolumeSum(P, rows) > 0
    BY <2>3, <2>4
  <2>9. SurgeReached(d) <=> /\ IsRedBar(P[d])
                       /\ ratio[2] # 0
                       /\ ratio[1] >= VolumeMultiple * ratio[2]
    BY <1>4, <2>8 DEF SurgeReached, P, rows
  <2>10. SurgeReached(d) => ratio # NoEvent
    <3>1. P[d].volume \in Nat
      BY <1>1, <1>4, DatesFacts, RowsAssumption
    <3>2. IsFiniteSet(rows) /\ Cardinality(rows) \in Nat
      BY <1>2, <2>2, VolumeSumType
    <3>3. P[d].volume * Cardinality(rows) \in Nat
      BY <3>1, <3>2, NatProduct
    <3>4. VolumeSum(P, rows) \in Nat /\ (ratio[2] # 0 => VolumeSum(P, rows) \in Nat \ {0})
      BY <2>3, <2>4
    <3>5. ratio[2] # 0 => ratio \in Event
      BY <3>3, <3>4 DEF Event
    <3> QED BY <2>9, <3>5, AbsentAssumption
  <2> QED BY <2>6, <2>9, <2>10 DEF P, rows
<1> QED BY <1>3, <1>4

(***************************************************************************)
(* institutional_chase_warning.                                            *)
(***************************************************************************)

\* The walk back stays within the three windows the query reads.
LEMMA LookbackFacts ==
  LookbackDays \in Nat /\ LookbackDays >= 1 /\ 4 * LookbackDays - 1 <= 3 * ChaseWindow
<1>1. ChaseWindow \in Nat /\ ChaseWindow >= 1
  BY Parameters
<1>2. \A w \in Nat : w >= 1 => (w \div 2) \in Nat /\ 2 * (w \div 2) <= w
  OBVIOUS
<1>3. CASE ChaseWindow \div 2 = 0
  BY <1>1, <1>3 DEF LookbackDays
<1>4. CASE ChaseWindow \div 2 # 0
  BY <1>1, <1>2, <1>4 DEF LookbackDays
<1> QED BY <1>3, <1>4

\* The walk back through the fetched rows ends at the row the promise names: none
\* of the days it may visit is cut off by the query.
LEMMA EarlierIsReference ==
  ASSUME NEW R, NEW tbl, Table(tbl, R), NEW d \in Days,
         NEW t, t = Fetched(tbl, d - ChaseWindow * 3, d)
  PROVE  /\ Earlier(t, d) = Reference(tbl, d)
         /\ Reference(tbl, d) \subseteq Dates(tbl)
         /\ \A e \in Reference(tbl, d) : t[e] = tbl[e]
<1> DEFINE L == LookbackDays
           lower == d - ChaseWindow * 3
           reach == {e \in Dates(t) : d - L * 4 < e /\ e <= d - L}
           back == ((d - 4 * L + 1)..(d - L)) \cap Dates(tbl)
<1>1. L \in Nat /\ L >= 1 /\ 4 * L - 1 <= 3 * ChaseWindow /\ ChaseWindow \in Nat
  BY LookbackFacts, Parameters
<1>2. d \in Nat /\ \A e \in Dates(tbl) : e \in Nat
  BY DaysFacts, DatesFacts
<1>3. lower \in Int
  BY <1>1, <1>2
<1> HIDE DEF L
<1>4. /\ \A e : e \in Dates(t) <=> e \in Dates(tbl) /\ lower <= e /\ e <= d
      /\ \A e \in Dates(t) : t[e] = tbl[e]
  <2> HIDE DEF lower, reach, back
  <2>1. t = Fetched(tbl, lower, d)
    BY DEF lower
  <2> QED BY <1>2, <1>3, <2>1, FetchedRows
<1>5. reach = back
  <2>1. ASSUME NEW e \in reach PROVE e \in back
    BY <1>1, <1>2, <1>4
  <2>2. ASSUME NEW e \in back PROVE e \in reach
    <3>1. e \in Dates(tbl) /\ e \in Nat /\ d - 4 * L + 1 <= e /\ e <= d - L
      BY <1>2
    <3>2. lower <= e /\ e <= d /\ d - L * 4 < e
      BY ONLY <1>1, <1>2, <3>1 DEF lower
    <3> QED BY <1>4, <3>1, <3>2
  <2> QED BY <2>1, <2>2
<1>6. back \in SUBSET Dates(tbl) /\ IsFiniteSet(back) /\ \A e \in back : e \in Int
  <2>1. back \in SUBSET Dates(tbl)
    OBVIOUS
  <2> HIDE DEF back
  <2> QED BY <1>2, <2>1, DatesFacts, FS_Subset
<1>7. Earlier(t, d) = IF back = {} THEN {} ELSE {Max(back)}
  BY <1>5 DEF Earlier, L
<1>8. Reference(tbl, d) = {e \in back : \A f \in back : f <= e}
  BY DEF Reference, L
<1>9. \A e \in back : t[e] = tbl[e]
  BY <1>4, <1>5
<1> HIDE DEF back, reach
<1>10. CASE back = {}
  BY <1>7, <1>8, <1>10
<1>11. CASE back # {}
  <2>1. Max(back) \in back /\ \A f \in back : Max(back) >= f
    BY <1>6, <1>11, MaxExists
  <2>2. ASSUME NEW e \in back, \A f \in back : f <= e PROVE e = Max(back)
    <3>1. e \in Int /\ Max(back) \in Int /\ e <= Max(back) /\ Max(back) <= e
      BY <1>6, <2>1, <2>2
    <3> QED BY ONLY <3>1
  <2>3. \A f \in back : f <= Max(back)
    <3>1. Max(back) \in Int
      BY <1>6, <2>1
    <3> HIDE DEF back
    <3> QED BY <1>6, <2>1, <3>1
  <2>4. {e \in back : \A f \in back : f <= e} = {Max(back)}
    BY <2>1, <2>2, <2>3
  <2> QED BY <1>6, <1>7, <1>8, <1>9, <2>1, <2>4
<1> QED BY <1>10, <1>11

LEMMA ChaseType ==
  ASSUME NEW prices, NEW inst, NEW margin, Table(margin, Balances), NEW d
  PROVE  ChaseEvent(prices, inst, margin, d) \in Event \cup {NoEvent}
<1> DEFINE grown == {g \in MarginGrowth(margin, d) : g[1] * 100 >= g[2] * (100 + MinGrowthPct)}
<1>1. ASSUME NEW e \in Earlier(margin, d) PROVE e \in Dates(margin)
  <2> DEFINE reach == {x \in Dates(margin) : d - LookbackDays * 4 < x /\ x <= d - LookbackDays}
  <2>1. reach \in SUBSET Dates(margin)
    OBVIOUS
  <2>2. reach # {} /\ e = Max(reach)
    BY <1>1 DEF Earlier
  <2> HIDE DEF reach
  <2>3. IsFiniteSet(reach) /\ \A x \in reach : x \in Int
    BY <2>1, DatesFacts, FS_Subset
  <2>4. Max(reach) \in reach
    BY <2>2, <2>3, MaxExists
  <2> QED BY <2>1, <2>2, <2>4
<1>2. ASSUME NEW g \in MarginGrowth(margin, d) PROVE g \in Event
  <2>1. PICK e \in Earlier(margin, d) :
           d \in Dates(margin) /\ margin[d] > 0 /\ margin[e] > 0 /\ g = <<margin[d], margin[e]>>
    BY <1>2 DEF MarginGrowth
  <2>2. margin[d] \in Int /\ margin[e] \in Int
    BY <1>1, <2>1, DatesFacts, RowsAssumption
  <2>3. margin[d] \in Nat /\ margin[e] \in Nat \ {0}
    BY <2>1, <2>2
  <2> QED BY <2>1, <2>3 DEF Event
<1>3. grown # {} => (CHOOSE g \in grown : TRUE) \in Event
  BY <1>2
<1> QED BY <1>3 DEF ChaseEvent

\* The frame holds MinStreak rows exactly when as many less one are before the day
\* and none of them is too far back.
LEMMA StreakExact ==
  ASSUME NEW inst, Table(inst, Nets), NEW d \in Days,
         NEW t, t = Fetched(inst, d - ChaseWindow * 3, d)
  PROVE  BuyingStreak(t, d) <=>
             /\ d \in Dates(inst)
             /\ Cardinality(RowsBefore(inst, d, MinStreak - 1)) = MinStreak - 1
             /\ \A e \in RowsBefore(inst, d, MinStreak - 1) \cup {d} :
                   inst[e] > 0 /\ d - e < 2 * ChaseWindow
<1> DEFINE lower == d - ChaseWindow * 3
           from == d - ChaseWindow * 2 + 1
           past == RowsBefore(inst, d, MinStreak - 1)
           near == {e \in past : from <= e}
           last == Frame(Fetched(t, from, d), d, MinStreak)
<1>1. /\ d \in Nat /\ lower \in Int /\ from \in Int /\ lower <= d /\ lower <= from /\ from <= d
      /\ MinStreak \in Nat /\ MinStreak >= 1 /\ MinStreak - 1 \in Nat /\ ChaseWindow \in Nat
  BY DaysFacts, Parameters
<1>2. /\ d \in Dates(t) <=> d \in Dates(inst)
      /\ \A e : e \in Dates(t) <=> e \in Dates(inst) /\ lower <= e /\ e <= d
      /\ \A e \in Dates(t) : t[e] = inst[e]
  <2>1. /\ \A e : e \in Dates(t) <=> e \in Dates(inst) /\ lower <= e /\ e <= d
        /\ \A e \in Dates(t) : t[e] = inst[e]
    <3>1. t = Fetched(inst, lower, d)
      OBVIOUS
    <3> HIDE DEF lower, from
    <3> QED BY <1>1, <3>1, FetchedRows
  <2>2. d <= d
    BY <1>1
  <2> QED BY <1>1, <2>1, <2>2
<1>3. BuyingStreak(t, d) <=> /\ d \in Dates(t)
                             /\ Cardinality(last) = MinStreak
                             /\ \A e \in last : t[e] > 0
  BY DEF BuyingStreak
<1>4. CASE d \notin Dates(inst)
  BY <1>2, <1>3, <1>4
<1>5. CASE d \in Dates(inst)
  <2>1. Fetched(t, from, d) = Fetched(inst, from, d)
    <3>1. t = Fetched(inst, lower, d)
      OBVIOUS
    <3> HIDE DEF lower, from
    <3> QED BY <1>1, <3>1, FetchedTwice
  <2>2. last = {d} \cup near
    <3>1. Frame(Fetched(inst, from, d), d, MinStreak) = {d} \cup near
      <4> HIDE DEF from
      <4> QED BY <1>1, <1>5, FrameRows
    <3> QED BY <2>1, <3>1
  <2>3. past \subseteq Dates(inst) /\ IsFiniteSet(past) /\ Cardinality(past) <= MinStreak - 1
    BY <1>1, RowsBeforeFew
  <2>4. d \notin past /\ \A e \in past : e \in Nat /\ e < d
    <3>1. \A e \in past : e < d
      BY DEF RowsBefore
    <3> HIDE DEF past
    <3> QED BY <1>1, <2>3, <3>1, DatesFacts
  <2>5. \A e \in past : from <= e <=> d - e < 2 * ChaseWindow
    <3> HIDE DEF past
    <3> QED BY <1>1, <2>4
  <2>6. \A e \in {d} \cup near : t[e] = inst[e]
    <3>1. \A e \in near : lower <= e /\ e <= d /\ e \in Dates(inst)
      <4> HIDE DEF past, lower, from
      <4> QED BY <1>1, <2>3, <2>4
    <3> QED BY <1>2, <1>5, <3>1
  <2>7. d - d < 2 * ChaseWindow
    BY <1>1, Parameters
  <2>8. near \in SUBSET past /\ d \notin near
    BY <2>4
  <2> HIDE DEF last, past, near, lower, from
  <2>9. IsFiniteSet(near) /\ Cardinality(near) \in Nat /\ Cardinality(past) \in Nat
        /\ Cardinality(near) <= Cardinality(past)
        /\ (Cardinality(past) = Cardinality(near) => past = near)
    BY <2>3, <2>8, FS_Subset, FS_CardinalityType
  <2>10. Cardinality(near \cup {d}) = Cardinality(near) + 1
    BY <2>8, <2>9, FS_AddElement
  <2>11. last = near \cup {d}
    BY <2>2
  <2>12. Cardinality(last) = MinStreak <=> Cardinality(near) = MinStreak - 1
    BY <1>1, <2>9, <2>10, <2>11
  <2>13. Cardinality(near) = MinStreak - 1 <=> near = past /\ Cardinality(past) = MinStreak - 1
    BY <1>1, <2>3, <2>9
  <2>14. near = past <=> \A e \in past : d - e < 2 * ChaseWindow
    BY <2>5 DEF near
  <2>15. BuyingStreak(t, d) <=> /\ near = past /\ Cardinality(past) = MinStreak - 1
                                /\ \A e \in near \cup {d} : inst[e] > 0
    BY <1>2, <1>3, <1>5, <2>6, <2>11, <2>12, <2>13
  <2> QED BY <1>5, <2>7, <2>14, <2>15 DEF past
<1> QED BY <1>4, <1>5

LEMMA GrowthPositive ==
  ASSUME NEW a \in Int, NEW b \in Int, NEW k \in Nat, b > 0, a * 100 >= b * (100 + k)
  PROVE  a > 0
<1>1. b * (100 + k) = b * 100 + b * k
  OBVIOUS
<1>2. b * k \in Nat
  BY NatProduct
<1>3. b * 100 > 0
  OBVIOUS
<1>4. a * 100 > 0
  <2> DEFINE c == b * k
  <2> HIDE DEF c
  <2> QED BY <1>1, <1>2, <1>3 DEF c
<1> QED BY <1>4

\* net buying on day d and on the rows before it, margin and price above those of
\* the row found by the calendar
ChaseReached(d) ==
    LET past == RowsBefore(market.inst, d, MinStreak - 1)
    IN  /\ d \in Dates(market.inst) \cap Dates(market.margin) \cap Dates(market.price)
        /\ Cardinality(past) = MinStreak - 1
        /\ \A e \in past \cup {d} : market.inst[e] > 0 /\ d - e < 2 * ChaseWindow
        /\ \E e \in Reference(market.margin, d) :
              /\ market.margin[e] > 0
              /\ market.margin[d] * 100 >= market.margin[e] * (100 + MinGrowthPct)
        /\ \E e \in Reference(market.price, d) :
              market.price[e].close > 0 /\ market.price[d].close > market.price[e].close

\* The rule over the rows the service fetches for a day is this condition over the
\* tables: the same frame, the same reference rows, the same comparisons.
LEMMA ChaseExact ==
  ASSUME market \in Market, NEW d \in Days,
         NEW event, event = ChaseEvent(Fetched(market.price, d - ChaseWindow * 3, d),
                                       Fetched(market.inst, d - ChaseWindow * 3, d),
                                       Fetched(market.margin, d - ChaseWindow * 3, d), d)
  PROVE  /\ event # NoEvent <=> ChaseReached(d)
         /\ event # NoEvent => \E e \in Reference(market.margin, d) :
                                  event = <<market.margin[d], market.margin[e]>>
<1> DEFINE P == market.price
           I == market.inst
           M == market.margin
           lower == d - ChaseWindow * 3
           p == Fetched(P, lower, d)
           i == Fetched(I, lower, d)
           m == Fetched(M, lower, d)
           grown == {g \in MarginGrowth(m, d) : g[1] * 100 >= g[2] * (100 + MinGrowthPct)}
<1>1. Table(P, Prices) /\ Table(I, Nets) /\ Table(M, Balances)
  BY DEF Market, Table
<1>2. d \in Nat /\ lower \in Int /\ lower <= d /\ MinGrowthPct \in Nat
  BY DaysFacts, Parameters
<1>3. /\ Earlier(p, d) = Reference(P, d) /\ Reference(P, d) \subseteq Dates(P)
      /\ \A e \in Reference(P, d) : p[e] = P[e]
      /\ Earlier(m, d) = Reference(M, d) /\ Reference(M, d) \subseteq Dates(M)
      /\ \A e \in Reference(M, d) : m[e] = M[e]
  <2> HIDE DEF P, M, I
  <2> QED BY <1>1, EarlierIsReference
<1>4. BuyingStreak(i, d) <=>
             /\ d \in Dates(I)
             /\ Cardinality(RowsBefore(I, d, MinStreak - 1)) = MinStreak - 1
             /\ \A e \in RowsBefore(I, d, MinStreak - 1) \cup {d} : I[e] > 0 /\ d - e < 2 * ChaseWindow
  <2> HIDE DEF P, M, I
  <2> QED BY <1>1, StreakExact
<1>5. /\ d \in Dates(p) <=> d \in Dates(P)
      /\ d \in Dates(m) <=> d \in Dates(M)
      /\ d \in Dates(P) => p[d] = P[d]
      /\ d \in Dates(M) => m[d] = M[d]
      /\ Table(m, Balances)
  <2> HIDE DEF P, M, I, lower
  <2>1. d <= d
    BY <1>2
  <2> QED BY <1>1, <1>2, <2>1, FetchedRows
<1>6. event = IF BuyingStreak(i, d) /\ grown # {} /\ PriceUp(p, d)
              THEN CHOOSE g \in grown : TRUE ELSE NoEvent
  BY DEF ChaseEvent
<1>8. /\ \A e \in Dates(P) : P[e].close \in Int
      /\ \A e \in Dates(M) : M[e] \in Int
  <2> HIDE DEF P, M
  <2>1. /\ \A e \in Dates(P) : P[e] \in Prices
        /\ \A e \in Dates(M) : M[e] \in Balances
    BY <1>1, DatesFacts
  <2> QED BY <2>1, RowsAssumption
<1> HIDE DEF P, I, M, lower, p, i, m
<1>9. PriceUp(p, d) <=> /\ d \in Dates(P)
                        /\ \E e \in Reference(P, d) : P[e].close > 0 /\ P[d].close > P[e].close
  <2>1. ASSUME d \in Dates(P), NEW e \in Reference(P, d), P[e].close > 0, P[d].close > P[e].close
        PROVE  P[d].close > 0
    <3>1. P[d].close \in Int /\ P[e].close \in Int
      BY <1>3, <1>8, <2>1
    <3> QED BY ONLY <2>1, <3>1
  <2>2. PriceUp(p, d) <=> /\ d \in Dates(P)
                          /\ P[d].close > 0
                          /\ \E e \in Reference(P, d) : P[e].close > 0 /\ P[d].close > P[e].close
    BY <1>3, <1>5 DEF PriceUp
  <2> QED BY <2>1, <2>2
<1>10. \A g : g \in grown <=> \E e \in Reference(M, d) :
           /\ d \in Dates(M) /\ M[d] > 0 /\ M[e] > 0 /\ g = <<M[d], M[e]>>
           /\ M[d] * 100 >= M[e] * (100 + MinGrowthPct)
  <2>1. \A g : g \in MarginGrowth(m, d) <=> \E e \in Reference(M, d) :
           d \in Dates(M) /\ M[d] > 0 /\ M[e] > 0 /\ g = <<M[d], M[e]>>
    BY <1>3, <1>5 DEF MarginGrowth
  <2> QED BY <2>1
<1> HIDE DEF grown
<1>11. grown # {} <=> /\ d \in Dates(M)
                      /\ \E e \in Reference(M, d) :
                            M[e] > 0 /\ M[d] * 100 >= M[e] * (100 + MinGrowthPct)
  <2>1. ASSUME d \in Dates(M), NEW e \in Reference(M, d), M[e] > 0,
               M[d] * 100 >= M[e] * (100 + MinGrowthPct)
        PROVE  M[d] > 0
    <3>1. M[d] \in Int /\ M[e] \in Int
      BY <1>3, <1>8, <2>1
    <3> QED BY <1>2, <2>1, <3>1, GrowthPositive
  <2>2. ASSUME d \in Dates(M), NEW e \in Reference(M, d), M[e] > 0,
               M[d] * 100 >= M[e] * (100 + MinGrowthPct)
        PROVE  <<M[d], M[e]>> \in grown
    BY <1>10, <2>1, <2>2
  <2> QED BY <1>10, <2>2
<1>12. ChaseReached(d) <=> BuyingStreak(i, d) /\ grown # {} /\ PriceUp(p, d)
  BY <1>4, <1>9, <1>11 DEF ChaseReached, P, I, M
<1>13. grown # {} => (CHOOSE g \in grown : TRUE) \in grown
  OBVIOUS
<1>14. ASSUME NEW g \in grown PROVE g # NoEvent
  <2>1. PICK e \in Reference(M, d) :
           /\ d \in Dates(M) /\ M[d] > 0 /\ M[e] > 0 /\ g = <<M[d], M[e]>>
    BY <1>10, <1>14
  <2>2. M[d] \in Nat /\ M[e] \in Nat \ {0}
    <3>1. M[d] \in Int /\ M[e] \in Int
      BY <1>3, <1>8, <2>1
    <3> QED BY <2>1, <3>1
  <2>3. g \in Event
    BY <2>1, <2>2 DEF Event
  <2> QED BY <2>3, AbsentAssumption
<1>15. event # NoEvent <=> ChaseReached(d)
  BY <1>6, <1>12, <1>13, <1>14
<1>16. event # NoEvent => event \in grown
  BY <1>6, <1>13
<1> QED BY <1>10, <1>15, <1>16 DEF M

(***************************************************************************)
(* What an evaluation of a day would emit now, over the committed tables.  *)
(***************************************************************************)
Seen(signal, d) ==
    RuleEvent(signal, FetchWindow(signal, market.price, d), FetchWindow(signal, market.inst, d),
              FetchWindow(signal, market.margin, d), d)

Fires(signal, d) == Seen(signal, d) # NoEvent

\* what the code's rows give
Reached(signal, d) == IF signal = "volume_surge_red" THEN SurgeReached(d) ELSE ChaseReached(d)

SeverityReached(signal, d, event) ==
    IF signal = "volume_surge_red"
    THEN event = <<market.price[d].volume * Cardinality(ReachedRows(d)),
                   VolumeSum(market.price, ReachedRows(d))>>
    ELSE \E e \in Reference(market.margin, d) : event = <<market.margin[d], market.margin[e]>>

LEMMA SeenReached ==
  ASSUME market \in Market, NEW signal, NEW d \in Days
  PROVE  /\ Fires(signal, d) <=> Reached(signal, d)
         /\ Fires(signal, d) => SeverityReached(signal, d, Seen(signal, d))
<1>1. CASE signal = "volume_surge_red"
  <2>1. Seen(signal, d) = SurgeEvent(Fetched(market.price, d - SurgeWindow * 3, d), d)
    BY <1>1 DEF Seen, RuleEvent, FetchWindow, Window
  <2>2. /\ Seen(signal, d) # NoEvent <=> SurgeReached(d)
        /\ Seen(signal, d) # NoEvent =>
              Seen(signal, d) = <<market.price[d].volume * Cardinality(ReachedRows(d)),
                                  VolumeSum(market.price, ReachedRows(d))>>
    BY <2>1, SurgeExact
  <2> QED BY <1>1, <2>2 DEF Fires, Reached, SeverityReached
<1>2. CASE signal # "volume_surge_red"
  <2>1. Seen(signal, d) = ChaseEvent(Fetched(market.price, d - ChaseWindow * 3, d),
                                     Fetched(market.inst, d - ChaseWindow * 3, d),
                                     Fetched(market.margin, d - ChaseWindow * 3, d), d)
    BY <1>2 DEF Seen, RuleEvent, FetchWindow, Window
  <2>2. /\ Seen(signal, d) # NoEvent <=> ChaseReached(d)
        /\ Seen(signal, d) # NoEvent => \E e \in Reference(market.margin, d) :
              Seen(signal, d) = <<market.margin[d], market.margin[e]>>
    BY <2>1, ChaseExact
  <2> QED BY <1>2, <2>2 DEF Fires, Reached, SeverityReached
<1> QED BY <1>1, <1>2

\* A day without a price row has no event: its stock is in neither rule.
LEMMA FiresTrades ==
  ASSUME market \in Market, NEW signal, NEW d \in Days, Fires(signal, d)
  PROVE  d \in Dates(market.price)
BY SeenReached DEF Reached, SurgeReached, ChaseReached

\* Where the documents and the code mean the same rows, it is what the rules promise.
LEMMA SeenExact ==
  ASSUME market \in Market, NEW signal, NEW d \in Days, Agreed(signal, d)
  PROVE  /\ Fires(signal, d) <=> Holds(signal, d)
         /\ Fires(signal, d) => IsSeverity(signal, d, Seen(signal, d))
<1>1. /\ Fires(signal, d) <=> Reached(signal, d)
      /\ Fires(signal, d) => SeverityReached(signal, d, Seen(signal, d))
  BY SeenReached
<1>2. CASE d \notin Dates(market.price)
  <2>1. ~Reached(signal, d) /\ ~Holds(signal, d)
    BY <1>2 DEF Reached, SurgeReached, ChaseReached, Holds, IsSurge, IsChase
  <2> QED BY <1>1, <2>1
<1>3. CASE d \in Dates(market.price) /\ signal = "volume_surge_red"
  <2>1. Cardinality(MeanRows(d)) = SurgeWindow /\ \A e \in MeanRows(d) : d - e <= 3 * SurgeWindow
    BY <1>3 DEF Agreed
  <2>2. ReachedRows(d) = MeanRows(d)
    BY <2>1 DEF ReachedRows, MeanRows
  <2>3. SurgeReached(d) <=> IsSurge(d)
    BY <2>1, <2>2 DEF SurgeReached, IsSurge
  <2>4. ASSUME NEW event, SeverityReached(signal, d, event) PROVE IsSeverity(signal, d, event)
    BY <1>3, <2>1, <2>2, <2>4 DEF SeverityReached, IsSeverity
  <2> QED BY <1>1, <1>3, <2>3, <2>4 DEF Reached, Holds
<1>4. CASE d \in Dates(market.price) /\ signal # "volume_surge_red"
  <2>1. /\ \A e \in RowsBefore(market.inst, d, MinStreak - 1) : d - e < 2 * ChaseWindow
        /\ Reference(market.margin, d) = RowBack(market.margin, d, LookbackDays)
        /\ Reference(market.price, d) = RowBack(market.price, d, LookbackDays)
    BY <1>4 DEF Agreed
  <2>2. d - d < 2 * ChaseWindow
    BY DaysFacts, Parameters
  <2>3. ChaseReached(d) <=> IsChase(d)
    BY <2>1, <2>2 DEF ChaseReached, IsChase
  <2>4. ASSUME NEW event, SeverityReached(signal, d, event) PROVE IsSeverity(signal, d, event)
    BY <1>4, <2>1, <2>4 DEF SeverityReached, IsSeverity
  <2> QED BY <1>1, <1>4, <2>3, <2>4 DEF Reached, Holds
<1> QED BY <1>2, <1>3, <1>4

LEMMA WindowType ==
  ASSUME NEW signal, NEW d \in Days
  PROVE  d \in Int /\ d - Window(signal) * 3 \in Int
BY DaysFacts, Parameters DEF Window

LEMMA FetchedType ==
  ASSUME market \in Market, NEW signal, NEW d \in Days
  PROVE  /\ FetchWindow(signal, market.price, d) \in [Days -> Prices \cup {NoRow}]
         /\ FetchWindow(signal, market.inst, d) \in [Days -> Nets \cup {NoRow}]
         /\ FetchWindow(signal, market.margin, d) \in [Days -> Balances \cup {NoRow}]
BY DEF Market, FetchWindow, Fetched

LEMMA RuleType ==
  ASSUME NEW prices \in [Days -> Prices \cup {NoRow}], NEW inst,
         NEW margin \in [Days -> Balances \cup {NoRow}], NEW signal, NEW d
  PROVE  RuleEvent(signal, prices, inst, margin, d) \in Event \cup {NoEvent}
BY SurgeType, ChaseType DEF RuleEvent, Table

\* A row written for a later day is outside every window up to the day.
LEMMA SeenLater ==
  ASSUME market \in Market, market' \in Market, NEW w \in Days, NEW d \in Days, d < w, NEW signal,
         \A x \in Days : x # w => /\ market'.price[x] = market.price[x]
                                  /\ market'.inst[x] = market.inst[x]
                                  /\ market'.margin[x] = market.margin[x]
  PROVE  /\ FetchWindow(signal, market'.price, d) = FetchWindow(signal, market.price, d)
         /\ FetchWindow(signal, market'.inst, d) = FetchWindow(signal, market.inst, d)
         /\ FetchWindow(signal, market'.margin, d) = FetchWindow(signal, market.margin, d)
         /\ Seen(signal, d)' = Seen(signal, d)
         /\ Fires(signal, d)' = Fires(signal, d)
<1>1. ASSUME NEW x \in Days, x <= d PROVE x # w
  BY <1>1, DaysFacts
<1>2. /\ FetchWindow(signal, market'.price, d) = FetchWindow(signal, market.price, d)
      /\ FetchWindow(signal, market'.inst, d) = FetchWindow(signal, market.inst, d)
      /\ FetchWindow(signal, market'.margin, d) = FetchWindow(signal, market.margin, d)
  <2>1. \A x \in Days : x <= d => /\ market'.price[x] = market.price[x]
                                   /\ market'.inst[x] = market.inst[x]
                                   /\ market'.margin[x] = market.margin[x]
    BY <1>1
  <2>2. \A lower : /\ Fetched(market'.price, lower, d) = Fetched(market.price, lower, d)
                   /\ Fetched(market'.inst, lower, d) = Fetched(market.inst, lower, d)
                   /\ Fetched(market'.margin, lower, d) = Fetched(market.margin, lower, d)
    BY <2>1 DEF Fetched
  <2> QED BY <2>2 DEF FetchWindow
<1> QED BY <1>2 DEF Seen, Fires

LEMMA SeenSame ==
  ASSUME market' = market
  PROVE  \A signal, d : Seen(signal, d)' = Seen(signal, d) /\ Fires(signal, d)' = Fires(signal, d)
BY DEF Seen, Fires

(***************************************************************************)
(* Sequences of pairs.                                                     *)
(***************************************************************************)

LEMMA SeqFacts ==
  ASSUME NEW S, NEW q \in Seq(S), q # << >>
  PROVE  /\ Head(q) \in S /\ Head(q) = q[1] /\ 1 \in DOMAIN q
         /\ Tail(q) \in Seq(S)
         /\ DOMAIN Tail(q) = 1..(Len(q) - 1) /\ DOMAIN q = 1..Len(q)
         /\ Len(q) \in Nat /\ Len(q) >= 1
         /\ \A n \in DOMAIN Tail(q) : n + 1 \in DOMAIN q /\ Tail(q)[n] = q[n + 1]
<1>1. Len(q) \in Nat /\ Len(q) >= 1 /\ DOMAIN q = 1..Len(q) /\ 1 \in DOMAIN q
  BY EmptySeq, LenProperties
<1>2. Head(q) = q[1] /\ q[1] \in S
  BY <1>1, ElementOfSeq
<1>3. /\ Tail(q) \in Seq(S) /\ Len(Tail(q)) = Len(q) - 1
      /\ \A n \in 1..(Len(q) - 1) : Tail(q)[n] = q[n + 1]
  BY HeadTailProperties
<1>4. DOMAIN Tail(q) = 1..(Len(q) - 1)
  BY <1>3, LenProperties
<1>5. ASSUME NEW n \in 1..(Len(q) - 1) PROVE n + 1 \in 1..Len(q)
  BY <1>1, <1>5
<1> QED BY <1>1, <1>2, <1>3, <1>4, <1>5

LEMMA SignalNames ==
  \A n \in DOMAIN Registered : Registered[n] \in Signals
BY DEF Signals, ToSet

\* The days of a backfill, in order: each once, all in the range, and every day of
\* the range on which the stock has a price row.
LEMMA TradingDaysFacts ==
  ASSUME market \in Market, NEW start \in Days, NEW end \in Days, NEW q, q = TradingDays(start, end)
  PROVE  /\ q \in Seq(Days) /\ DOMAIN q = 1..Len(q) /\ Len(q) \in Nat
         /\ \A n \in DOMAIN q : q[n] \in start..end
         /\ \A m, n \in DOMAIN q : m # n => q[m] # q[n]
         /\ \A x \in start..end : x \in Dates(market.price) => \E n \in DOMAIN q : q[n] = x
<1> DEFINE S == (Dates(market.price) \cup OtherDays) \cap (start..end)
<1>1. S \in SUBSET Days
  BY EvalDaysAssumption DEF Dates
<1>2. IsFiniteSet(S) /\ S \in SUBSET Nat
  <2> HIDE DEF S
  <2> QED BY <1>1, DaysFacts, FS_Subset
<1>3. q = InOrder(S)
  BY DEF TradingDays
<1>4. /\ q \in Seq(S) /\ DOMAIN q = 1..Len(q)
      /\ \A m, n \in DOMAIN q : m # n => q[m] # q[n]
      /\ \A x \in S : \E n \in DOMAIN q : q[n] = x
  <2> HIDE DEF S
  <2> QED BY <1>2, <1>3, InOrderHolds
<1>5. Len(q) \in Nat /\ \A n \in DOMAIN q : q[n] \in S
  <2> HIDE DEF S
  <2> QED BY <1>4, LenProperties, ElementOfSeq
<1>6. q \in Seq(Days)
  <2> HIDE DEF S
  <2> QED BY <1>1, <1>4, SeqMonotonic
<1> QED BY <1>4, <1>5, <1>6

(***************************************************************************)
(* Types.                                                                  *)
(***************************************************************************)

Pairs == Signals \X Days

LEMMA IdleType ==
  Idle \in Call
<1>1. NoTable \in [Days -> Prices \cup {NoRow}] /\ NoTable \in [Days -> Nets \cup {NoRow}]
      /\ NoTable \in [Days -> Balances \cup {NoRow}]
  BY DEF NoTable
<1>2. << >> \in Seq(Pairs)
  BY EmptySeq
<1> QED BY <1>1, <1>2 DEF Idle, Call, Pairs

\* A call that is open has a pair to evaluate, and none of its rows yet.
LEMMA OpenedType ==
  ASSUME NEW q \in Seq(Pairs), NEW span \in (Days \X Days) \cup {<< >>}, NEW raced \in BOOLEAN,
         NEW total \in Nat, NEW c, c = Opened(q, span, raced, total)
  PROVE  /\ c \in Call
         /\ c.pc = "price" /\ c.todo = q /\ c.span = span /\ c.raced = raced /\ c.total = total
         /\ ~c.touched
<1>1. ~Idle.touched
  BY DEF Idle
<1>2. Idle \in Call
  BY IdleType
<1> HIDE DEF Idle
<1> QED BY <1>1, <1>2 DEF Opened, Call, Pairs

\* What an open call works on.
LEMMA OpenFacts ==
  ASSUME NEW c \in Call, c.todo # << >>
  PROVE  /\ c.todo \in Seq(Pairs) /\ Head(c.todo) \in Pairs /\ Tail(c.todo) \in Seq(Pairs)
         /\ SignalOf(c) \in Signals /\ AsOf(c) \in Days
<1>1. c.todo \in Seq(Pairs)
  BY DEF Call, Pairs
<1>2. Head(c.todo) \in Pairs /\ Tail(c.todo) \in Seq(Pairs)
  BY <1>1, SeqFacts
<1> QED BY <1>1, <1>2 DEF Pairs, SignalOf, AsOf

LEMMA PairSeq ==
  ASSUME NEW k \in Nat, NEW f, DOMAIN f = 1..k, f = [n \in DOMAIN f |-> f[n]],
         \A n \in 1..k : f[n] \in Pairs
  PROVE  f \in Seq(Pairs) /\ (f = << >> <=> k = 0)
<1>1. f \in [1..k -> Pairs]
  OBVIOUS
<1>2. f \in Seq(Pairs) /\ Len(f) = k
  BY <1>1
<1> QED BY <1>2, EmptySeq

RunType(r) ==
    r \in [Evaluators -> Call] /\ \A e \in Evaluators : r[e].pc = "idle" <=> r[e].todo = << >>

\* Changing one call for a well-typed one.
LEMMA RunStep ==
  ASSUME RunType(run), NEW e \in Evaluators, NEW c \in Call, c.pc = "idle" <=> c.todo = << >>,
         run' = [run EXCEPT ![e] = c]
  PROVE  RunType(run')
BY DEF RunType

LEMMA IdleStep ==
  ASSUME RunType(run), NEW e \in Evaluators, run' = [run EXCEPT ![e] = Idle]
  PROVE  RunType(run')
<1>1. Idle.pc = "idle" <=> Idle.todo = << >>
  BY DEF Idle
<1> HIDE DEF Idle
<1> QED BY <1>1, IdleType, RunStep

LEMMA OpenStep ==
  ASSUME RunType(run), NEW e \in Evaluators, NEW q \in Seq(Pairs), q # << >>,
         NEW span \in (Days \X Days) \cup {<< >>}, NEW raced \in BOOLEAN, NEW total \in Nat,
         run' = [run EXCEPT ![e] = Opened(q, span, raced, total)]
  PROVE  RunType(run')
<1>1. PICK c : c = Opened(q, span, raced, total)
  OBVIOUS
<1>2. c \in Call /\ c.pc # "idle" /\ c.todo # << >>
  BY <1>1, OpenedType
<1> QED BY <1>1, <1>2, RunStep

LEMMA TypeInit == Init => TypeOK
<1> SUFFICES ASSUME Init PROVE TypeOK
  OBVIOUS
<1>1. market \in Market
  BY MarketsAssumption DEF Init
<1>2. events \in EventTable /\ outcome \in EventTable
  BY DEF Init, PerDay, EventTable
<1>3. fresh \in [Signals -> [Days -> BOOLEAN]]
  BY DEF Init, PerDay
<1>4. run \in [Evaluators -> Call] /\ \A e \in Evaluators : run[e].pc = "idle" <=> run[e].todo = << >>
  <2>1. Idle.pc = "idle" <=> Idle.todo = << >>
    BY DEF Idle
  <2> QED BY <2>1, IdleType DEF Init
<1>5. reported \in BackfillReport \cup {NoReport} /\ writes \in 0..MaxWrites /\ calls \in 0..MaxCalls
  BY BoundsAssumption DEF Init
<1> QED BY <1>1, <1>2, <1>3, <1>4, <1>5 DEF TypeOK

LEMMA TypeTransformed ==
  ASSUME TypeOK, NEW w \in WriteDays, Transformed(w)
  PROVE  TypeOK'
<1>1. w \in Days
  BY EvalDaysAssumption
<1>2. market' \in Market
  <2>1. \/ \E p \in Prices : market' = [market EXCEPT !.price[w] = p]
        \/ \E n \in Nets : market' = [market EXCEPT !.inst[w] = n]
        \/ \E b \in Balances : market' = [market EXCEPT !.margin[w] = b]
    BY DEF Transformed, Written
  <2>2. market \in Market
    BY DEF TypeOK
  <2>3. ASSUME NEW p \in Prices, market' = [market EXCEPT !.price[w] = p] PROVE market' \in Market
    BY <1>1, <2>2, <2>3 DEF Market
  <2>4. ASSUME NEW n \in Nets, market' = [market EXCEPT !.inst[w] = n] PROVE market' \in Market
    BY <1>1, <2>2, <2>4 DEF Market
  <2>5. ASSUME NEW b \in Balances, market' = [market EXCEPT !.margin[w] = b] PROVE market' \in Market
    BY <1>1, <2>2, <2>5 DEF Market
  <2> QED BY <2>1, <2>3, <2>4, <2>5
<1>3. fresh' \in [Signals -> [Days -> BOOLEAN]]
  BY DEF TypeOK, Transformed
<1>4. run' \in [Evaluators -> Call] /\ \A e \in Evaluators : run'[e].pc = "idle" <=> run'[e].todo = << >>
  <2> SUFFICES ASSUME NEW e \in Evaluators
               PROVE  run'[e] \in Call /\ (run'[e].pc = "idle" <=> run'[e].todo = << >>)
    BY DEF Transformed
  <2>1. run[e] \in Call /\ (run[e].pc = "idle" <=> run[e].todo = << >>)
    BY DEF TypeOK
  <2>2. PICK table : run'[e] =
                  IF run[e].pc = "idle" THEN run[e]
                  ELSE [run[e] EXCEPT
                          !.touched = @ \/ (HasRead(run[e], table) /\ AsOf(run[e]) >= w),
                          !.raced = @ \/ (run[e].span # << >> /\ run[e].span[2] >= w)]
    BY DEF Transformed
  <2>3. CASE run[e].pc = "idle"
    BY <2>1, <2>2, <2>3
  <2>4. CASE run[e].pc # "idle"
    <3>1. PICK touched \in BOOLEAN, raced \in BOOLEAN :
             run'[e] = [run[e] EXCEPT !.touched = touched, !.raced = raced]
      <4>1. (run[e].touched \/ (HasRead(run[e], table) /\ AsOf(run[e]) >= w)) \in BOOLEAN
            /\ (run[e].raced \/ (run[e].span # << >> /\ run[e].span[2] >= w)) \in BOOLEAN
        OBVIOUS
      <4> QED BY <2>2, <2>4, <4>1
    <3> QED BY <2>1, <3>1 DEF Call
  <2> QED BY <2>3, <2>4
<1>5. reported' \in BackfillReport \cup {NoReport}
  BY DEF TypeOK, Transformed
<1>6. writes' \in 0..MaxWrites
  <2>1. writes \in 0..MaxWrites /\ writes < MaxWrites /\ writes' = writes + 1
    BY DEF TypeOK, Transformed
  <2>2. MaxWrites \in Nat
    BY BoundsAssumption
  <2> QED BY ONLY <2>1, <2>2
<1>7. UNCHANGED <<events, outcome, calls>>
  BY DEF Transformed
<1> QED BY <1>2, <1>3, <1>4, <1>5, <1>6, <1>7 DEF TypeOK

\* Everything but the calls stays, or is one of the tables a call writes.
LEMMA TypeCalls ==
  ASSUME TypeOK, RunType(run'), UNCHANGED <<market, writes>>, calls' \in 0..MaxCalls,
         events' \in EventTable, outcome' \in EventTable, fresh' \in [Signals -> [Days -> BOOLEAN]],
         reported' \in BackfillReport \cup {NoReport}
  PROVE  TypeOK'
BY DEF TypeOK, RunType

LEMMA StartedType ==
  ASSUME TypeOK, NEW e \in Evaluators, Started(e)
  PROVE  calls' \in 0..MaxCalls /\ RunType(run) /\ MaxCalls \in Nat
BY BoundsAssumption DEF TypeOK, Started, RunType

LEMMA StartEvaluateIs ==
  ASSUME NEW e \in Evaluators, NEW signal \in Signals, NEW d \in EvalDays,
         StartEvaluate(e, signal, d)
  PROVE  \E q \in Seq(Pairs) : q # << >> /\ run' = [run EXCEPT ![e] = Opened(q, << >>, FALSE, 0)]
<1>1. <<signal, d>> \in Pairs
  BY EvalDaysAssumption DEF Pairs
<1> DEFINE q == <<<<signal, d>>>>
<1>2. q \in Seq(Pairs) /\ q # << >>
  BY <1>1
<1>3. run' = [run EXCEPT ![e] = Opened(q, << >>, FALSE, 0)]
  BY DEF StartEvaluate
<1> HIDE DEF q
<1> QED BY <1>2, <1>3

LEMMA StartTickIs ==
  ASSUME NEW e \in Evaluators, NEW d \in EvalDays, StartTick(e, d)
  PROVE  \E q \in Seq(Pairs) : q # << >> /\ run' = [run EXCEPT ![e] = Opened(q, << >>, FALSE, 0)]
<1> DEFINE q == [n \in DOMAIN Registered |-> <<Registered[n], d>>]
           k == Len(Registered)
<1>1. k \in Nat /\ DOMAIN Registered = 1..k /\ k # 0
  BY SignalsAssumption, LenProperties, EmptySeq DEF StartTick
<1>2. \A n \in 1..k : q[n] \in Pairs
  BY <1>1, SignalNames, EvalDaysAssumption DEF Pairs
<1>3. DOMAIN q = 1..k /\ q = [n \in DOMAIN q |-> q[n]]
  BY <1>1
<1>4. run' = [run EXCEPT ![e] = Opened(q, << >>, FALSE, 0)]
  BY DEF StartTick
<1> HIDE DEF q, k
<1>5. q \in Seq(Pairs) /\ q # << >>
  BY <1>1, <1>2, <1>3, PairSeq
<1> QED BY <1>4, <1>5

\* A backfill's pairs are one signal on the trading days.
LEMMA BackfillPairs ==
  ASSUME NEW signal \in Signals, NEW days \in Seq(Days), DOMAIN days = 1..Len(days), Len(days) \in Nat,
         NEW q, q = [n \in DOMAIN days |-> <<signal, days[n]>>]
  PROVE  /\ q \in Seq(Pairs) /\ DOMAIN q = DOMAIN days
         /\ q = << >> <=> days = << >>
         /\ \A n \in DOMAIN days : q[n][1] = signal /\ q[n][2] = days[n]
<1>1. \A n \in 1..Len(days) : q[n] \in Pairs /\ q[n][1] = signal /\ q[n][2] = days[n]
  BY ElementOfSeq DEF Pairs
<1>2. DOMAIN q = 1..Len(days) /\ q = [n \in DOMAIN q |-> q[n]]
  OBVIOUS
<1>3. q \in Seq(Pairs) /\ (q = << >> <=> Len(days) = 0)
  BY <1>1, <1>2, PairSeq
<1>4. days = << >> <=> Len(days) = 0
  BY EmptySeq
<1> QED BY <1>1, <1>2, <1>3, <1>4

LEMMA TypeBackfill ==
  ASSUME TypeOK, NEW e \in Evaluators, NEW signal \in Signals, NEW span \in Spans,
         StartBackfill(e, signal, span[1], span[2])
  PROVE  TypeOK'
<1> DEFINE start == span[1]
           end == span[2]
           days == TradingDays(start, end)
<1>1. start \in Days /\ end \in Days /\ <<start, end>> \in Days \X Days
  BY EvalDaysAssumption
<1>2. days \in Seq(Days) /\ DOMAIN days = 1..Len(days) /\ Len(days) \in Nat
  <2> HIDE DEF start, end
  <2> QED BY <1>1, TradingDaysFacts DEF TypeOK
<1>3. calls' \in 0..MaxCalls /\ RunType(run)
  BY StartedType DEF StartBackfill
<1>4. /\ UNCHANGED <<market, events, outcome, fresh, writes>>
      /\ days = << >> => /\ run' = [run EXCEPT ![e] = Idle]
                         /\ reported' = Report(signal, <<start, end>>, 0)
      /\ days # << >> => /\ run' = [run EXCEPT ![e] =
                                Opened([n \in DOMAIN days |-> <<signal, days[n]>>], <<start, end>>, FALSE, 0)]
                         /\ reported' = reported
  BY DEF StartBackfill
<1>5. Report(signal, <<start, end>>, 0) \in BackfillReport
  BY <1>1 DEF Report, BackfillReport
<1> HIDE DEF start, end, days
<1>6. RunType(run')
  <2>1. CASE days = << >>
    BY <1>3, <1>4, <2>1, IdleStep
  <2>2. CASE days # << >>
    <3> DEFINE q == [n \in DOMAIN days |-> <<signal, days[n]>>]
    <3>1. run' = [run EXCEPT ![e] = Opened(q, <<start, end>>, FALSE, 0)]
      BY <1>4, <2>2
    <3>2. q \in Seq(Pairs) /\ q # << >>
      BY <1>2, <2>2, BackfillPairs
    <3> HIDE DEF q
    <3> QED BY <1>1, <1>3, <3>1, <3>2, OpenStep
  <2> QED BY <2>1, <2>2
<1>7. reported' \in BackfillReport \cup {NoReport}
  BY <1>4, <1>5 DEF TypeOK
<1> QED BY <1>3, <1>4, <1>6, <1>7, TypeCalls DEF TypeOK

LEMMA TypeFetch ==
  ASSUME TypeOK, NEW e \in Evaluators, FetchPrices(e) \/ FetchInstitutional(e) \/ FetchMargin(e)
  PROVE  TypeOK'
<1> DEFINE c == run[e]
<1>1. c \in Call /\ (c.pc = "idle" <=> c.todo = << >>) /\ market \in Market /\ RunType(run)
  BY DEF TypeOK, RunType
<1>2. c.pc # "idle"
  BY DEF FetchPrices, FetchInstitutional, FetchMargin
<1>3. SignalOf(c) \in Signals /\ AsOf(c) \in Days
  <2> HIDE DEF c
  <2> QED BY <1>1, <1>2, OpenFacts
<1>4. /\ FetchWindow(SignalOf(c), market.price, AsOf(c)) \in [Days -> Prices \cup {NoRow}]
      /\ FetchWindow(SignalOf(c), market.inst, AsOf(c)) \in [Days -> Nets \cup {NoRow}]
      /\ FetchWindow(SignalOf(c), market.margin, AsOf(c)) \in [Days -> Balances \cup {NoRow}]
  BY <1>1, <1>3, FetchedType
<1>5. PICK b : run' = [run EXCEPT ![e] = b]
               /\ \/ b = [c EXCEPT !.pc = "inst", !.price = FetchWindow(SignalOf(c), market.price, AsOf(c))]
                  \/ b = [c EXCEPT !.pc = "margin", !.inst = FetchWindow(SignalOf(c), market.inst, AsOf(c))]
                  \/ b = [c EXCEPT !.pc = "rule", !.margin = FetchWindow(SignalOf(c), market.margin, AsOf(c))]
  BY <1>1 DEF FetchPrices, FetchInstitutional, FetchMargin, RunType
<1>6. b \in Call /\ b.pc # "idle" /\ b.todo = c.todo
  <2> HIDE DEF c
  <2> QED BY <1>1, <1>4, <1>5 DEF Call
<1>7. RunType(run')
  BY <1>1, <1>2, <1>5, <1>6, RunStep
<1>8. UNCHANGED <<market, events, outcome, fresh, reported, writes, calls>>
  BY DEF FetchPrices, FetchInstitutional, FetchMargin
<1> QED BY <1>7, <1>8, TypeCalls DEF TypeOK

LEMMA TypeEvaluate ==
  ASSUME TypeOK, NEW e \in Evaluators, Evaluate(e)
  PROVE  TypeOK'
<1>1. PICK c \in Call : c = run[e]
  BY DEF TypeOK
<1> DEFINE signal == SignalOf(c)
           d == AsOf(c)
           event == RuleEvent(signal, c.price, c.inst, c.margin, d)
           total == c.total + (IF event = NoEvent THEN 0 ELSE 1)
<1>2. c.pc = "rule" /\ c.todo # << >> /\ RunType(run)
  BY <1>1 DEF TypeOK, RunType, Evaluate
<1>3. signal \in Signals /\ d \in Days /\ Tail(c.todo) \in Seq(Pairs)
  BY <1>2, OpenFacts
<1>4. event \in Event \cup {NoEvent}
  <2>1. c.price \in [Days -> Prices \cup {NoRow}] /\ c.margin \in [Days -> Balances \cup {NoRow}]
    BY DEF Call
  <2> QED BY <2>1, RuleType
<1>5. /\ events' = Upserted(signal, d, event)
      /\ outcome' = [outcome EXCEPT ![signal][d] = event]
      /\ fresh' = [fresh EXCEPT ![signal][d] = ~c.touched]
      /\ run' = [run EXCEPT ![e] = NextPair(c, total)]
      /\ reported' = IF c.span # << >> /\ ~c.raced /\ Tail(c.todo) = << >>
                     THEN Report(signal, c.span, total) ELSE reported
      /\ UNCHANGED <<market, writes, calls>>
  BY <1>1 DEF Evaluate
<1> HIDE DEF event
<1>6. c.total \in Nat /\ total \in Nat /\ c.span \in (Days \X Days) \cup {<< >>} /\ c.raced \in BOOLEAN
  BY DEF Call
<1> HIDE DEF total, signal, d
<1>7. RunType(run')
  <2>1. CASE Tail(c.todo) = << >>
    BY <1>2, <1>5, <2>1, IdleStep DEF NextPair
  <2>2. CASE Tail(c.todo) # << >>
    <3>1. NextPair(c, total) = Opened(Tail(c.todo), c.span, c.raced, total)
      BY <2>2 DEF NextPair
    <3> QED BY <1>2, <1>3, <1>5, <1>6, <2>2, <3>1, OpenStep
  <2> QED BY <2>1, <2>2
<1>8. events' \in EventTable /\ outcome' \in EventTable
  BY <1>3, <1>4, <1>5 DEF TypeOK, EventTable, Upserted
<1>9. fresh' \in [Signals -> [Days -> BOOLEAN]]
  BY <1>3, <1>5 DEF TypeOK
<1>10. reported' \in BackfillReport \cup {NoReport}
  <2>1. c.span # << >> => Report(signal, c.span, total) \in BackfillReport
    BY <1>3, <1>6 DEF Report, BackfillReport
  <2> QED BY <1>5, <2>1 DEF TypeOK
<1> QED BY <1>5, <1>7, <1>8, <1>9, <1>10, TypeCalls DEF TypeOK

LEMMA TypeStep ==
  ASSUME TypeOK, [Next]_vars
  PROVE  TypeOK'
<1>1. ASSUME NEW e \in Evaluators, NEW d \in EvalDays,
             StartTick(e, d) \/ \E signal \in Signals : StartEvaluate(e, signal, d)
      PROVE  TypeOK'
  <2>1. PICK q \in Seq(Pairs) : q # << >> /\ run' = [run EXCEPT ![e] = Opened(q, << >>, FALSE, 0)]
    BY <1>1, StartTickIs, StartEvaluateIs
  <2>2. calls' \in 0..MaxCalls /\ RunType(run)
    BY <1>1, StartedType DEF StartTick, StartEvaluate
  <2>3. RunType(run')
    BY <2>1, <2>2, OpenStep
  <2>4. UNCHANGED <<market, events, outcome, fresh, reported, writes>>
    BY <1>1 DEF StartTick, StartEvaluate
  <2> QED BY <2>2, <2>3, <2>4, TypeCalls DEF TypeOK
<1>2. ASSUME NEW e \in Evaluators, Abandon(e) PROVE TypeOK'
  <2>1. RunType(run')
    BY <1>2, IdleStep DEF TypeOK, RunType, Abandon
  <2>2. UNCHANGED <<market, events, outcome, fresh, reported, writes, calls>>
    BY <1>2 DEF Abandon
  <2> QED BY <2>1, <2>2, TypeCalls DEF TypeOK
<1>3. CASE UNCHANGED vars
  BY <1>3 DEF vars, TypeOK
<1> QED BY <1>1, <1>2, <1>3, TypeTransformed, TypeBackfill, TypeFetch, TypeEvaluate DEF Next

(***************************************************************************)
(* What an evaluation and a backfill have got, when nothing they read was  *)
(* written since.                                                          *)
(***************************************************************************)

Fired(signal, days) == {d \in days : Fires(signal, d)}

\* the windows fetched so far are those of the committed tables
CallSees(c) ==
    LET signal == SignalOf(c)
        d      == AsOf(c)
    IN  /\ c.pc \in {"inst", "margin", "rule"} => c.price = FetchWindow(signal, market.price, d)
        /\ c.pc \in {"margin", "rule"} => c.inst = FetchWindow(signal, market.inst, d)
        /\ c.pc = "rule" => c.margin = FetchWindow(signal, market.margin, d)

DaysOf(q) == {q[n][2] : n \in DOMAIN q}

\* the pairs left: one signal, days of the range, each once
PairsLeft(signal, span, q) ==
    /\ \A n \in DOMAIN q : q[n][1] = signal /\ q[n][2] \in span[1]..span[2]
    /\ \A m, n \in DOMAIN q : m # n => q[m][2] # q[n][2]

\* the total counts the days of the range that are not left, whether evaluated or
\* without a trade
Counts(signal, span, q, total) ==
    PairsLeft(signal, span, q)
    /\ total = Cardinality(Fired(signal, (span[1]..span[2]) \ DaysOf(q)))

CallSound(c) ==
    c.pc # "idle" =>
        /\ ~c.touched => CallSees(c)
        /\ c.span # << >> /\ ~c.raced =>
              ~c.touched /\ Counts(SignalOf(c), c.span, c.todo, c.total)

CallsSound == \A e \in Evaluators : \A c \in Call : run[e] = c => CallSound(c)

\* the last evaluation of a day, and what signal_event shows of it
FreshSeen ==
    \A s \in Signals : \A d \in Days :
        fresh[s][d] => /\ outcome[s][d] = Seen(s, d)
                       /\ Fires(s, d) => events[s][d] = Seen(s, d)

ReportSound(r) == r.total = Cardinality(Fired(r.signal, r.start..r.end))

ReportedSeen == \A r \in BackfillReport : reported = r => ReportSound(r)

EvalInv == TypeOK /\ CallsSound /\ FreshSeen /\ ReportedSeen

LEMMA EvalInit == Init => EvalInv
<1> SUFFICES ASSUME Init PROVE EvalInv
  OBVIOUS
<1>1. \A e \in Evaluators : run[e] = Idle
  BY DEF Init
<1>2. CallsSound
  BY <1>1 DEF CallsSound, CallSound, Idle
<1>3. FreshSeen
  BY DEF Init, PerDay, FreshSeen
<1>4. ReportedSeen
  BY AbsentAssumption DEF Init, ReportedSeen
<1> QED BY <1>2, <1>3, <1>4, TypeInit DEF EvalInv

\* Where the tables stay, what is true of them stays.
LEMMA SoundSame ==
  ASSUME market' = market
  PROVE  /\ \A c : CallSound(c)' = CallSound(c)
         /\ \A r : ReportSound(r)' = ReportSound(r)
         /\ \A s, d : Seen(s, d)' = Seen(s, d) /\ Fires(s, d)' = Fires(s, d)
<1>1. \A s, d : Seen(s, d)' = Seen(s, d) /\ Fires(s, d)' = Fires(s, d)
  BY SeenSame
<1>2. \A s, days : Fired(s, days)' = Fired(s, days)
  BY <1>1 DEF Fired
<1>3. \A c : CallSees(c)' = CallSees(c)
  BY DEF CallSees
<1>4. \A s, span, q, total : Counts(s, span, q, total)' = Counts(s, span, q, total)
  BY <1>2 DEF Counts
<1>5. \A c : CallSound(c)' = CallSound(c)
  BY <1>3, <1>4 DEF CallSound
<1>6. \A r : ReportSound(r)' = ReportSound(r)
  BY <1>2 DEF ReportSound
<1> QED BY <1>1, <1>5, <1>6

\* A step that leaves the tables concerns one call.
LEMMA CallsFrame ==
  ASSUME TypeOK, CallsSound, market' = market, NEW e \in Evaluators, NEW c,
         run' = [run EXCEPT ![e] = c], CallSound(c)
  PROVE  CallsSound'
<1> SUFFICES ASSUME NEW x \in Evaluators, NEW b \in Call, run'[x] = b PROVE CallSound(b)'
  BY DEF CallsSound
<1>1. CallSound(b)
  BY DEF CallsSound, TypeOK
<1> QED BY <1>1, SoundSame

LEMMA IdleSound == CallSound(Idle)
BY DEF CallSound, Idle

LEMMA KeptSeen ==
  ASSUME market' = market, UNCHANGED <<events, outcome, fresh>>, FreshSeen
  PROVE  FreshSeen'
BY SoundSame DEF FreshSeen

LEMMA KeptReport ==
  ASSUME market' = market, reported' = reported, ReportedSeen
  PROVE  ReportedSeen'
BY SoundSame DEF ReportedSeen

LEMMA StartSound ==
  ASSUME EvalInv, NEW e \in Evaluators, NEW d \in EvalDays,
         StartTick(e, d) \/ \E signal \in Signals : StartEvaluate(e, signal, d)
  PROVE  CallsSound' /\ FreshSeen' /\ ReportedSeen'
<1>1. PICK q \in Seq(Pairs) : q # << >> /\ run' = [run EXCEPT ![e] = Opened(q, << >>, FALSE, 0)]
  BY StartTickIs, StartEvaluateIs
<1>2. PICK c : c = Opened(q, << >>, FALSE, 0)
  OBVIOUS
<1>3. c.pc = "price" /\ c.span = << >>
  BY <1>2 DEF Opened, Idle
<1>4. CallSound(c)
  BY <1>3 DEF CallSound, CallSees
<1>5. UNCHANGED <<market, events, outcome, fresh, reported>>
  BY DEF StartTick, StartEvaluate
<1> QED BY <1>1, <1>2, <1>4, <1>5, CallsFrame, KeptSeen, KeptReport DEF EvalInv

\* At its start a backfill counts no day: a day that is not a trading day has no
\* price row, and no rule fires without one.
LEMMA BackfillSound ==
  ASSUME EvalInv, NEW e \in Evaluators, NEW signal \in Signals, NEW span \in Spans,
         StartBackfill(e, signal, span[1], span[2])
  PROVE  CallsSound' /\ FreshSeen' /\ ReportedSeen'
<1>1. PICK start \in Days, end \in Days : start = span[1] /\ end = span[2]
  BY EvalDaysAssumption
<1>2. PICK days : days = TradingDays(start, end)
  OBVIOUS
<1> DEFINE q == [n \in DOMAIN days |-> <<signal, days[n]>>]
<1>3. /\ days \in Seq(Days) /\ DOMAIN days = 1..Len(days) /\ Len(days) \in Nat
      /\ \A n \in DOMAIN days : days[n] \in start..end
      /\ \A m, n \in DOMAIN days : m # n => days[m] # days[n]
      /\ \A x \in start..end : x \in Dates(market.price) => \E n \in DOMAIN days : days[n] = x
  BY <1>2, TradingDaysFacts DEF EvalInv, TypeOK
<1>4. /\ UNCHANGED <<market, events, outcome, fresh>>
      /\ days = << >> => /\ run' = [run EXCEPT ![e] = Idle]
                         /\ reported' = Report(signal, <<start, end>>, 0)
      /\ days # << >> => /\ run' = [run EXCEPT ![e] = Opened(q, <<start, end>>, FALSE, 0)]
                         /\ reported' = reported
  BY <1>1, <1>2 DEF StartBackfill
<1>5. /\ q \in Seq(Pairs) /\ DOMAIN q = DOMAIN days
      /\ q = << >> <=> days = << >>
      /\ \A n \in DOMAIN days : q[n][1] = signal /\ q[n][2] = days[n]
  BY <1>3, BackfillPairs
<1> HIDE DEF q
<1>6. FreshSeen'
  BY <1>4, KeptSeen DEF EvalInv
<1>7. Fired(signal, (start..end) \ DaysOf(q)) = {}
  <2> SUFFICES ASSUME NEW x \in (start..end) \ DaysOf(q), Fires(signal, x) PROVE FALSE
    BY DEF Fired
  <2>1. x \in Days
    BY DaysFacts
  <2>2. x \in Dates(market.price)
    BY <2>1, FiresTrades DEF EvalInv, TypeOK
  <2>3. PICK n \in DOMAIN days : days[n] = x
    BY <1>3, <2>2
  <2> QED BY <1>5, <2>3 DEF DaysOf
<1>8. Cardinality(Fired(signal, (start..end) \ DaysOf(q))) = 0
  <2>1. Cardinality({}) = 0
    BY FS_EmptySet
  <2> QED BY <1>7, <2>1
<1>9. CASE days = << >>
  <2>1. CallsSound'
    BY <1>4, <1>9, IdleSound, CallsFrame DEF EvalInv
  <2>2. DaysOf(q) = {}
    <3>1. DOMAIN days = {}
      BY <1>9
    <3> QED BY <1>5, <3>1 DEF DaysOf
  <2>3. Cardinality(Fired(signal, start..end)) = 0
    <3>1. (start..end) \ DaysOf(q) = start..end
      BY <2>2
    <3> QED BY <1>8, <3>1
  <2>4. ASSUME NEW r \in BackfillReport, reported' = r PROVE ReportSound(r)'
    <3>1. r.signal = signal /\ r.start = start /\ r.end = end /\ r.total = 0
      BY <1>4, <1>9, <2>4 DEF Report
    <3>2. ReportSound(r)
      BY <2>3, <3>1 DEF ReportSound
    <3> QED BY <1>4, <3>2, SoundSame
  <2> QED BY <1>6, <2>1, <2>4 DEF ReportedSeen
<1>10. CASE days # << >>
  <2>1. PICK c : c = Opened(q, <<start, end>>, FALSE, 0)
    OBVIOUS
  <2>2. /\ c.pc = "price" /\ c.todo = q /\ c.span = <<start, end>> /\ c.total = 0 /\ ~c.touched
    BY <2>1 DEF Opened, Idle
  <2>3. PairsLeft(signal, <<start, end>>, q)
    BY <1>3, <1>5 DEF PairsLeft
  <2>4. Counts(signal, <<start, end>>, q, 0)
    BY <1>8, <2>3 DEF Counts
  <2>5. SignalOf(c) = signal
    <3>1. Head(q) = q[1] /\ 1 \in DOMAIN q
      BY <1>5, <1>10, SeqFacts
    <3> QED BY <1>5, <2>2, <3>1 DEF SignalOf
  <2>6. CallSound(c)
    BY <2>2, <2>4, <2>5 DEF CallSound, CallSees
  <2>7. CallsSound'
    BY <1>4, <1>10, <2>1, <2>6, CallsFrame DEF EvalInv
  <2> QED BY <1>4, <1>6, <1>10, <2>7, KeptReport DEF EvalInv
<1> QED BY <1>9, <1>10

LEMMA FetchSound ==
  ASSUME EvalInv, NEW e \in Evaluators, FetchPrices(e) \/ FetchInstitutional(e) \/ FetchMargin(e)
  PROVE  CallsSound' /\ FreshSeen' /\ ReportedSeen'
<1>1. PICK c \in Call : c = run[e]
  BY DEF EvalInv, TypeOK
<1>2. CallSound(c) /\ c.pc # "idle"
  BY <1>1 DEF EvalInv, CallsSound, FetchPrices, FetchInstitutional, FetchMargin
<1>3. PICK b : run' = [run EXCEPT ![e] = b]
               /\ \/ c.pc = "price"
                     /\ b = [c EXCEPT !.pc = "inst", !.price = FetchWindow(SignalOf(c), market.price, AsOf(c))]
                  \/ c.pc = "inst"
                     /\ b = [c EXCEPT !.pc = "margin", !.inst = FetchWindow(SignalOf(c), market.inst, AsOf(c))]
                  \/ c.pc = "margin"
                     /\ b = [c EXCEPT !.pc = "rule", !.margin = FetchWindow(SignalOf(c), market.margin, AsOf(c))]
  BY <1>1 DEF FetchPrices, FetchInstitutional, FetchMargin, EvalInv, TypeOK
<1>4. /\ b.todo = c.todo /\ b.touched = c.touched /\ b.span = c.span
      /\ b.raced = c.raced /\ b.total = c.total
  BY <1>3 DEF Call
<1>5. CallSees(c) => CallSees(b)
  <2>1. SignalOf(b) = SignalOf(c) /\ AsOf(b) = AsOf(c)
    BY <1>4 DEF SignalOf, AsOf
  <2> DEFINE signal == SignalOf(c)
             d == AsOf(c)
  <2>2. CallSees(b) <=>
           /\ b.pc \in {"inst", "margin", "rule"} => b.price = FetchWindow(signal, market.price, d)
           /\ b.pc \in {"margin", "rule"} => b.inst = FetchWindow(signal, market.inst, d)
           /\ b.pc = "rule" => b.margin = FetchWindow(signal, market.margin, d)
    BY <2>1 DEF CallSees
  <2>3. CallSees(c) =>
           /\ c.pc \in {"inst", "margin", "rule"} => c.price = FetchWindow(signal, market.price, d)
           /\ c.pc \in {"margin", "rule"} => c.inst = FetchWindow(signal, market.inst, d)
    BY DEF CallSees
  <2>4. CASE b = [c EXCEPT !.pc = "inst", !.price = FetchWindow(signal, market.price, d)]
    <3>1. b.pc = "inst" /\ b.price = FetchWindow(signal, market.price, d)
      BY <2>4 DEF Call
    <3> QED BY <2>2, <3>1
  <2>5. CASE /\ c.pc = "inst"
             /\ b = [c EXCEPT !.pc = "margin", !.inst = FetchWindow(signal, market.inst, d)]
    <3>1. b.pc = "margin" /\ b.price = c.price /\ b.inst = FetchWindow(signal, market.inst, d)
      BY <2>5 DEF Call
    <3> QED BY <2>2, <2>3, <2>5, <3>1
  <2>6. CASE /\ c.pc = "margin"
             /\ b = [c EXCEPT !.pc = "rule", !.margin = FetchWindow(signal, market.margin, d)]
    <3>1. /\ b.pc = "rule" /\ b.price = c.price /\ b.inst = c.inst
          /\ b.margin = FetchWindow(signal, market.margin, d)
      BY <2>6 DEF Call
    <3> QED BY <2>2, <2>3, <2>6, <3>1
  <2> QED BY <1>3, <2>4, <2>5, <2>6
<1>6. CallSound(b)
  BY <1>2, <1>4, <1>5 DEF CallSound, SignalOf
<1>7. UNCHANGED <<market, events, outcome, fresh, reported>>
  BY DEF FetchPrices, FetchInstitutional, FetchMargin
<1> QED BY <1>3, <1>6, <1>7, CallsFrame, KeptSeen, KeptReport DEF EvalInv

\* An evaluation takes the first day out of the days left and counts it if the
\* rule fires, once, because no other pair has that day.
LEMMA CountOne ==
  ASSUME NEW signal, NEW span, span[1] \in Days, span[2] \in Days, NEW q \in Seq(Pairs), q # << >>, NEW total \in Nat,
         Counts(signal, span, q, total),
         NEW next, Fires(signal, Head(q)[2]) => next = total + 1,
         ~Fires(signal, Head(q)[2]) => next = total
  PROVE  /\ Counts(signal, span, Tail(q), next)
         /\ Tail(q) # << >> => Head(Tail(q))[1] = signal
         /\ Tail(q) = << >> => next = Cardinality(Fired(signal, span[1]..span[2]))
<1> DEFINE d == Head(q)[2]
           range == span[1]..span[2]
           old == range \ DaysOf(q)
           new == range \ DaysOf(Tail(q))
<1>1. /\ Head(q) = q[1] /\ 1 \in DOMAIN q /\ Tail(q) \in Seq(Pairs)
      /\ DOMAIN Tail(q) = 1..(Len(q) - 1) /\ DOMAIN q = 1..Len(q) /\ Len(q) \in Nat /\ Len(q) >= 1
      /\ \A n \in DOMAIN Tail(q) : n + 1 \in DOMAIN q /\ Tail(q)[n] = q[n + 1]
  BY SeqFacts
<1>2. PairsLeft(signal, span, q) /\ total = Cardinality(Fired(signal, old))
  BY DEF Counts
<1>3. d \in range /\ q[1][2] = d
  BY <1>1, <1>2 DEF PairsLeft
<1>4. PairsLeft(signal, span, Tail(q))
  <2>1. \A n \in DOMAIN Tail(q) : Tail(q)[n][1] = signal /\ Tail(q)[n][2] \in range
    BY <1>1, <1>2 DEF PairsLeft
  <2>2. ASSUME NEW m \in DOMAIN Tail(q), NEW n \in DOMAIN Tail(q), m # n
        PROVE  Tail(q)[m][2] # Tail(q)[n][2]
    <3>1. m + 1 \in DOMAIN q /\ n + 1 \in DOMAIN q /\ m + 1 # n + 1
      BY <1>1, <2>2
    <3> QED BY <1>1, <1>2, <3>1 DEF PairsLeft
  <2> QED BY <2>1, <2>2 DEF PairsLeft
<1>5. d \notin DaysOf(Tail(q))
  <2> SUFFICES ASSUME NEW n \in DOMAIN Tail(q), Tail(q)[n][2] = d PROVE FALSE
    BY DEF DaysOf
  <2>1. n + 1 \in DOMAIN q /\ n + 1 # 1 /\ q[n + 1][2] = d
    BY <1>1
  <2> QED BY <1>1, <1>2, <1>3, <2>1 DEF PairsLeft
<1>6. DaysOf(q) = DaysOf(Tail(q)) \cup {d}
  <2>1. ASSUME NEW n \in DOMAIN q PROVE q[n][2] \in DaysOf(Tail(q)) \cup {d}
    <3>1. CASE n = 1
      BY <1>3, <3>1
    <3>2. CASE n # 1
      <4>1. n - 1 \in DOMAIN Tail(q) /\ n = (n - 1) + 1
        BY <1>1, <3>2
      <4>2. Tail(q)[n - 1] = q[n]
        BY <1>1, <4>1
      <4> QED BY <4>1, <4>2 DEF DaysOf
    <3> QED BY <3>1, <3>2
  <2>2. ASSUME NEW n \in DOMAIN Tail(q) PROVE Tail(q)[n][2] \in DaysOf(q)
    BY <1>1 DEF DaysOf
  <2>3. d \in DaysOf(q)
    BY <1>1, <1>3 DEF DaysOf
  <2>4. DaysOf(q) \subseteq DaysOf(Tail(q)) \cup {d}
    BY <2>1 DEF DaysOf
  <2>5. DaysOf(Tail(q)) \subseteq DaysOf(q)
    BY <2>2 DEF DaysOf
  <2> QED BY <2>3, <2>4, <2>5
<1>7. new = old \cup {d} /\ d \notin old
  <2> HIDE DEF d, range
  <2> QED BY <1>3, <1>5, <1>6
<1>8. IsFiniteSet(Fired(signal, old))
  <2>1. IsFiniteSet(range)
    BY RangeDays
  <2>2. Fired(signal, old) \in SUBSET range
    BY DEF Fired
  <2> HIDE DEF range
  <2> QED BY <2>1, <2>2, FS_Subset
<1> HIDE DEF d, range, old, new
<1>9. next = Cardinality(Fired(signal, new))
  <2>1. CASE Fires(signal, d)
    <3>1. Fired(signal, new) = Fired(signal, old) \cup {d} /\ d \notin Fired(signal, old)
      BY <1>7, <2>1 DEF Fired
    <3>2. Cardinality(Fired(signal, old) \cup {d}) = Cardinality(Fired(signal, old)) + 1
      BY <1>8, <3>1, FS_AddElement
    <3>3. next = total + 1
      BY <2>1 DEF d
    <3> QED BY <1>2, <3>1, <3>2, <3>3
  <2>2. CASE ~Fires(signal, d)
    <3>1. Fired(signal, new) = Fired(signal, old)
      BY <1>7, <2>2 DEF Fired
    <3>2. next = total
      BY <2>2 DEF d
    <3> QED BY <1>2, <3>1, <3>2
  <2> QED BY <2>1, <2>2
<1>10. Counts(signal, span, Tail(q), next)
  BY <1>4, <1>9 DEF Counts, new, range
<1>11. Tail(q) # << >> => Head(Tail(q))[1] = signal
  <2> SUFFICES ASSUME Tail(q) # << >> PROVE Head(Tail(q))[1] = signal
    OBVIOUS
  <2>1. Head(Tail(q)) = Tail(q)[1] /\ 1 \in DOMAIN Tail(q)
    BY <1>1, SeqFacts
  <2> QED BY <1>4, <2>1 DEF PairsLeft
<1>12. Tail(q) = << >> => next = Cardinality(Fired(signal, span[1]..span[2]))
  <2> SUFFICES ASSUME Tail(q) = << >> PROVE next = Cardinality(Fired(signal, range))
    BY DEF range
  <2>1. DOMAIN Tail(q) = {}
    OBVIOUS
  <2>2. new = range
    BY <2>1 DEF new, DaysOf
  <2> QED BY <1>9, <2>2
<1> QED BY <1>10, <1>11, <1>12

\* The rule sees the committed tables if nothing was written: its outcome is fresh,
\* what is stored is its event, and a backfill counts it.
LEMMA EvaluateSound ==
  ASSUME EvalInv, NEW e \in Evaluators, Evaluate(e)
  PROVE  CallsSound' /\ FreshSeen' /\ ReportedSeen'
<1>1. PICK c \in Call : c = run[e]
  BY DEF EvalInv, TypeOK
<1> DEFINE signal == SignalOf(c)
           d == AsOf(c)
           event == RuleEvent(signal, c.price, c.inst, c.margin, d)
           total == c.total + (IF event = NoEvent THEN 0 ELSE 1)
<1>2. c.pc = "rule" /\ c.todo # << >>
  BY <1>1 DEF EvalInv, TypeOK, Evaluate
<1>3. signal \in Signals /\ d \in Days /\ c.todo \in Seq(Pairs)
  BY <1>2, OpenFacts
<1>4. CallSound(c)
  BY <1>1 DEF EvalInv, CallsSound
<1>5. /\ events' = Upserted(signal, d, event)
      /\ outcome' = [outcome EXCEPT ![signal][d] = event]
      /\ fresh' = [fresh EXCEPT ![signal][d] = ~c.touched]
      /\ run' = [run EXCEPT ![e] = NextPair(c, total)]
      /\ reported' = IF c.span # << >> /\ ~c.raced /\ Tail(c.todo) = << >>
                     THEN Report(signal, c.span, total) ELSE reported
      /\ UNCHANGED <<market, writes, calls>>
  BY <1>1 DEF Evaluate
<1>6. ~c.touched => event = Seen(signal, d)
  BY <1>2, <1>4 DEF CallSound, CallSees, Seen
<1>7. c.total \in Nat /\ c.span \in (Days \X Days) \cup {<< >>}
  BY DEF Call
<1>8. signal = Head(c.todo)[1] /\ d = Head(c.todo)[2]
  BY DEF SignalOf, AsOf
<1>9. total = c.total + (IF event # NoEvent THEN 1 ELSE 0)
  OBVIOUS
<1> HIDE DEF event, total, signal, d
<1>10. ASSUME c.span # << >>, ~c.raced
       PROVE  /\ Counts(signal, c.span, Tail(c.todo), total)
              /\ Tail(c.todo) # << >> => Head(Tail(c.todo))[1] = signal
              /\ Tail(c.todo) = << >> => total = Cardinality(Fired(signal, c.span[1]..c.span[2]))
  <2>1. ~c.touched /\ Counts(signal, c.span, c.todo, c.total)
    BY <1>2, <1>4, <1>10 DEF CallSound, signal
  <2>2. event # NoEvent <=> Fires(signal, d)
    BY <1>6, <2>1 DEF Fires
  <2>3. total = c.total + (IF Fires(signal, Head(c.todo)[2]) THEN 1 ELSE 0)
    BY <1>8, <1>9, <2>2
  <2>4. c.span \in Days \X Days
    BY <1>7, <1>10
  <2>5. PICK s, next : s = signal /\ next = total
    OBVIOUS
  <2>6. /\ c.todo # << >> /\ Counts(s, c.span, c.todo, c.total)
        /\ Fires(s, Head(c.todo)[2]) => next = c.total + 1
        /\ ~Fires(s, Head(c.todo)[2]) => next = c.total
        /\ c.total \in Nat /\ c.span[1] \in Days /\ c.span[2] \in Days /\ c.todo \in Seq(Pairs)
    BY <1>2, <1>3, <1>7, <2>1, <2>3, <2>4, <2>5
  <2>7. /\ Counts(s, c.span, Tail(c.todo), next)
        /\ Tail(c.todo) # << >> => Head(Tail(c.todo))[1] = s
        /\ Tail(c.todo) = << >> => next = Cardinality(Fired(s, c.span[1]..c.span[2]))
    BY <2>6, CountOne
  <2> QED BY <2>5, <2>7
<1>11. CallSound(NextPair(c, total))
  <2>1. CASE Tail(c.todo) = << >>
    BY <2>1, IdleSound DEF NextPair
  <2>2. CASE Tail(c.todo) # << >>
    <3>1. PICK b : b = Opened(Tail(c.todo), c.span, c.raced, total)
      OBVIOUS
    <3>2. /\ b.pc = "price" /\ b.todo = Tail(c.todo) /\ b.span = c.span /\ b.raced = c.raced
          /\ b.total = total /\ ~b.touched
      BY <3>1 DEF Opened, Idle
    <3>3. CallSound(b)
      <4>1. CallSees(b)
        BY <3>2 DEF CallSees
      <4>2. b.span # << >> /\ ~b.raced => Counts(SignalOf(b), b.span, b.todo, b.total)
        BY <1>10, <2>2, <3>2 DEF SignalOf
      <4> QED BY <3>2, <4>1, <4>2 DEF CallSound
    <3>4. NextPair(c, total) = b
      BY <2>2, <3>1 DEF NextPair
    <3> QED BY <3>3, <3>4
  <2> QED BY <2>1, <2>2
<1>12. CallsSound'
  <2>1. PICK b : b = NextPair(c, total)
    OBVIOUS
  <2> QED BY <1>5, <1>11, <2>1, CallsFrame DEF EvalInv
<1>13. FreshSeen'
  <2> SUFFICES ASSUME NEW s \in Signals, NEW x \in Days, fresh'[s][x]
               PROVE  /\ outcome'[s][x] = Seen(s, x)
                      /\ Fires(s, x) => events'[s][x] = Seen(s, x)
    BY <1>5, SoundSame DEF FreshSeen
  <2>0. events \in EventTable /\ outcome \in EventTable /\ fresh \in [Signals -> [Days -> BOOLEAN]]
        /\ FreshSeen
    BY DEF EvalInv, TypeOK
  <2>1. CASE s = signal /\ x = d
    <3>1. ~c.touched /\ outcome'[s][x] = event
      BY <1>3, <1>5, <2>0, <2>1 DEF EventTable
    <3>2. event # NoEvent => events'[s][x] = event
      BY <1>3, <1>5, <2>0, <2>1 DEF EventTable, Upserted
    <3> QED BY <1>6, <2>1, <3>1, <3>2 DEF Fires
  <2>2. CASE ~(s = signal /\ x = d)
    <3>1. fresh[s][x] /\ outcome'[s][x] = outcome[s][x]
      BY <1>3, <1>5, <2>0, <2>2 DEF EventTable
    <3>2. events'[s][x] = events[s][x]
      BY <1>3, <1>5, <2>0, <2>2 DEF EventTable, Upserted
    <3> QED BY <2>0, <3>1, <3>2 DEF FreshSeen
  <2> QED BY <2>1, <2>2
<1>14. ReportedSeen'
  <2>1. CASE c.span # << >> /\ ~c.raced /\ Tail(c.todo) = << >>
    <3>1. reported' = Report(signal, c.span, total)
      BY <1>5, <2>1
    <3>2. total = Cardinality(Fired(signal, c.span[1]..c.span[2]))
      BY <1>10, <2>1
    <3>3. ASSUME NEW r \in BackfillReport, reported' = r PROVE ReportSound(r)'
      <4>1. r.signal = signal /\ r.start = c.span[1] /\ r.end = c.span[2] /\ r.total = total
        BY <3>1, <3>3 DEF Report
      <4>2. ReportSound(r)
        BY <3>2, <4>1 DEF ReportSound
      <4> QED BY <1>5, <4>2, SoundSame
    <3> QED BY <3>3 DEF ReportedSeen
  <2>2. CASE ~(c.span # << >> /\ ~c.raced /\ Tail(c.todo) = << >>)
    <3>1. reported' = reported
      BY <1>5, <2>2
    <3> QED BY <1>5, <3>1, KeptReport DEF EvalInv
  <2> QED BY <2>1, <2>2
<1> QED BY <1>12, <1>13, <1>14

LEMMA AbandonSound ==
  ASSUME EvalInv, NEW e \in Evaluators, Abandon(e)
  PROVE  CallsSound' /\ FreshSeen' /\ ReportedSeen'
<1>1. run' = [run EXCEPT ![e] = Idle] /\ UNCHANGED <<market, events, outcome, fresh, reported>>
  BY DEF Abandon
<1> QED BY <1>1, IdleSound, CallsFrame, KeptSeen, KeptReport DEF EvalInv

\* A written row is in no window of an earlier day or of another table, and an
\* evaluation of its day or a later one is not fresh any more, nor a call that has
\* read its table, nor a report that covers it.
LEMMA TransformedSound ==
  ASSUME EvalInv, TypeOK', NEW w \in WriteDays, Transformed(w)
  PROVE  CallsSound' /\ FreshSeen' /\ ReportedSeen'
<1>1. w \in Days /\ w \in Nat
  BY EvalDaysAssumption, DaysFacts
<1>2. market \in Market /\ market' \in Market
  BY DEF EvalInv, TypeOK
<1>0. PICK table \in {"price", "inst", "margin"} :
         /\ Written(table, w)
         /\ run' = [e \in Evaluators |->
                       IF run[e].pc = "idle" THEN run[e]
                       ELSE [run[e] EXCEPT
                               !.touched = @ \/ (HasRead(run[e], table) /\ AsOf(run[e]) >= w),
                               !.raced = @ \/ (run[e].span # << >> /\ run[e].span[2] >= w)]]
  BY DEF Transformed
<1>3. \A x \in Days : x # w => /\ market'.price[x] = market.price[x]
                               /\ market'.inst[x] = market.inst[x]
                               /\ market'.margin[x] = market.margin[x]
  <2>1. \/ \E p \in Prices : market' = [market EXCEPT !.price[w] = p]
        \/ \E n \in Nets : market' = [market EXCEPT !.inst[w] = n]
        \/ \E b \in Balances : market' = [market EXCEPT !.margin[w] = b]
    BY <1>0 DEF Written
  <2> QED BY <1>1, <1>2, <2>1 DEF Market
<1>9. /\ table # "price" => market'.price = market.price
      /\ table # "inst" => market'.inst = market.inst
      /\ table # "margin" => market'.margin = market.margin
  BY <1>0, <1>2 DEF Written, Market
<1>4. ASSUME NEW s, NEW d \in Days, d < w
      PROVE  /\ FetchWindow(s, market'.price, d) = FetchWindow(s, market.price, d)
             /\ FetchWindow(s, market'.inst, d) = FetchWindow(s, market.inst, d)
             /\ FetchWindow(s, market'.margin, d) = FetchWindow(s, market.margin, d)
             /\ Seen(s, d)' = Seen(s, d)
             /\ Fires(s, d)' = Fires(s, d)
  BY <1>1, <1>2, <1>3, <1>4, SeenLater
<1>5. ASSUME NEW s, NEW days \in SUBSET Days, \A x \in days : x < w
      PROVE  Fired(s, days)' = Fired(s, days)
  BY <1>4, <1>5 DEF Fired
<1>6. FreshSeen'
  <2> SUFFICES ASSUME NEW s \in Signals, NEW x \in Days, fresh'[s][x]
               PROVE  /\ outcome'[s][x] = Seen(s, x)'
                      /\ Fires(s, x)' => events'[s][x] = Seen(s, x)'
    BY DEF FreshSeen
  <2>1. fresh[s][x] /\ x < w /\ outcome' = outcome /\ events' = events
    BY DEF Transformed
  <2> QED BY <1>4, <2>1 DEF EvalInv, FreshSeen
<1>7. ReportedSeen'
  <2> SUFFICES ASSUME NEW r \in BackfillReport, reported' = r PROVE ReportSound(r)'
    BY DEF ReportedSeen
  <2>1. reported = r /\ ~(r.end >= w)
    <3>1. reported' = IF reported # NoReport /\ reported.end >= w THEN NoReport ELSE reported
      BY DEF Transformed
    <3>2. reported' = r /\ r # NoReport
      BY AbsentAssumption
    <3> QED BY ONLY <3>1, <3>2
  <2>2. r.start \in Days /\ r.end \in Days
    BY DEF BackfillReport
  <2>3. \A x \in r.start..r.end : x \in Days /\ x < w
    <3>1. r.start..r.end \subseteq Days /\ r.start \in Nat /\ r.end \in Nat
      BY <2>2, RangeDays
    <3> QED BY <1>1, <2>1, <3>1
  <2>4. ReportSound(r)
    BY <2>1 DEF EvalInv, ReportedSeen
  <2>5. Fired(r.signal, r.start..r.end)' = Fired(r.signal, r.start..r.end)
    BY <1>5, <2>3
  <2> QED BY <2>4, <2>5 DEF ReportSound
<1>8. CallsSound'
  <2> SUFFICES ASSUME NEW e \in Evaluators, NEW b \in Call, run'[e] = b, b.pc # "idle"
               PROVE  CallSound(b)'
    BY DEF CallsSound, CallSound
  <2>1. PICK c \in Call : c = run[e]
    BY DEF EvalInv, TypeOK
  <2>2. c.pc # "idle" /\ b = [c EXCEPT !.touched = @ \/ (HasRead(c, table) /\ AsOf(c) >= w),
                                       !.raced = @ \/ (c.span # << >> /\ c.span[2] >= w)]
    BY <1>0, <2>1
  <2>3. /\ b.pc = c.pc /\ b.todo = c.todo /\ b.price = c.price /\ b.inst = c.inst
        /\ b.margin = c.margin /\ b.span = c.span /\ b.total = c.total
        /\ ~b.touched <=> ~c.touched /\ ~(HasRead(c, table) /\ AsOf(c) >= w)
        /\ ~b.raced <=> ~c.raced /\ ~(c.span # << >> /\ c.span[2] >= w)
    BY <2>2 DEF Call
  <2>4. c.todo # << >>
    BY <2>1, <2>2 DEF EvalInv, TypeOK
  <2>5. SignalOf(b) = SignalOf(c) /\ AsOf(b) = AsOf(c) /\ AsOf(c) \in Days /\ AsOf(c) \in Nat
    BY <2>3, <2>4, OpenFacts, DaysFacts DEF SignalOf, AsOf
  <2>6. CallSound(c)
    BY <2>1 DEF EvalInv, CallsSound
  <2>7. ASSUME ~b.touched PROVE CallSees(b)'
    <3>1. ~c.touched /\ CallSees(c)
      BY <2>2, <2>3, <2>6, <2>7 DEF CallSound
    <3>2. CASE AsOf(c) < w
      <4>1. /\ FetchWindow(SignalOf(c), market'.price, AsOf(c)) = FetchWindow(SignalOf(c), market.price, AsOf(c))
            /\ FetchWindow(SignalOf(c), market'.inst, AsOf(c)) = FetchWindow(SignalOf(c), market.inst, AsOf(c))
            /\ FetchWindow(SignalOf(c), market'.margin, AsOf(c)) = FetchWindow(SignalOf(c), market.margin, AsOf(c))
        BY <1>4, <2>5, <3>2
      <4> QED BY <2>3, <2>5, <3>1, <4>1 DEF CallSees
    <3>3. CASE ~(AsOf(c) < w)
      <4>1. ~HasRead(c, table)
        BY <1>1, <2>3, <2>5, <2>7, <3>3
      <4>2. /\ c.pc \in {"inst", "margin", "rule"} => market'.price = market.price
            /\ c.pc \in {"margin", "rule"} => market'.inst = market.inst
            /\ c.pc = "rule" => market'.margin = market.margin
        BY <1>9, <4>1 DEF HasRead
      <4> QED BY <2>3, <2>5, <3>1, <4>2 DEF CallSees
    <3> QED BY <3>2, <3>3
  <2>8. ASSUME b.span # << >>, ~b.raced
        PROVE  ~b.touched /\ Counts(SignalOf(b), b.span, b.todo, b.total)'
    <3>1. ~c.raced /\ ~(c.span[2] >= w) /\ ~c.touched
          /\ Counts(SignalOf(c), c.span, c.todo, c.total) /\ c.span \in Days \X Days
      BY <2>2, <2>3, <2>6, <2>8 DEF CallSound, Call
    <3>2. \A x \in c.span[1]..c.span[2] : x \in Days /\ x < w
      <4>1. c.span[1] \in Days /\ c.span[2] \in Days
        BY <3>1
      <4>2. c.span[1]..c.span[2] \subseteq Days /\ c.span[1] \in Nat /\ c.span[2] \in Nat
        BY <4>1, RangeDays
      <4> QED BY <1>1, <3>1, <4>2
    <3>3. AsOf(c) \in c.span[1]..c.span[2]
      <4>1. c.todo \in Seq(Pairs)
        BY <2>4, OpenFacts
      <4>2. Head(c.todo) = c.todo[1] /\ 1 \in DOMAIN c.todo
        BY <2>4, <4>1, SeqFacts
      <4> QED BY <3>1, <4>2 DEF Counts, PairsLeft, AsOf
    <3>4. ~b.touched
      BY <1>1, <2>3, <2>5, <3>1, <3>2, <3>3
    <3>5. Fired(SignalOf(c), (c.span[1]..c.span[2]) \ DaysOf(c.todo))'
             = Fired(SignalOf(c), (c.span[1]..c.span[2]) \ DaysOf(c.todo))
      BY <1>5, <3>2
    <3>6. Counts(SignalOf(c), c.span, c.todo, c.total)'
      BY <3>1, <3>5 DEF Counts
    <3> QED BY <2>3, <2>5, <3>4, <3>6
  <2> QED BY <2>7, <2>8 DEF CallSound
<1> QED BY <1>6, <1>7, <1>8

LEMMA EvalStep ==
  ASSUME EvalInv, [Next]_vars
  PROVE  EvalInv'
<1>1. TypeOK'
  BY TypeStep DEF EvalInv
<1>2. CASE UNCHANGED vars
  <2>1. UNCHANGED <<market, events, run, outcome, fresh, reported>>
    BY <1>2 DEF vars
  <2>2. CallsSound'
    BY <2>1, SoundSame DEF EvalInv, CallsSound
  <2> QED BY <1>1, <2>1, <2>2, KeptSeen, KeptReport DEF EvalInv
<1>3. CASE Next
  <2>1. CallsSound' /\ FreshSeen' /\ ReportedSeen'
    BY <1>1, <1>3, TransformedSound, StartSound, BackfillSound, FetchSound, EvaluateSound, AbandonSound
       DEF Next
  <2> QED BY <1>1, <2>1 DEF EvalInv
<1> QED BY <1>2, <1>3

\* Whatever the tables hold and however calls and writes interleave, the state stays
\* in its types: a rule emits a severity with a positive denominator or nothing.
THEOREM TypeCorrect == Spec => []TypeOK
<1>1. Init => TypeOK
  BY TypeInit
<1>2. TypeOK /\ [Next]_vars => TypeOK'
  BY TypeStep
<1> QED BY <1>1, <1>2, PTL DEF Spec

\* What the two properties of a single evaluation say.
LEMMA FreshExact ==
  ASSUME EvalInv, NEW s \in Signals, NEW d \in Days, fresh[s][d], Agreed(s, d)
  PROVE  /\ outcome[s][d] # NoEvent <=> Holds(s, d)
         /\ Holds(s, d) => IsSeverity(s, d, events[s][d])
<1>1. market \in Market /\ outcome[s][d] = Seen(s, d) /\ (Fires(s, d) => events[s][d] = Seen(s, d))
  BY DEF EvalInv, TypeOK, FreshSeen
<1>2. /\ Fires(s, d) <=> Holds(s, d)
      /\ Fires(s, d) => IsSeverity(s, d, Seen(s, d))
  BY <1>1, SeenExact
<1> QED BY <1>1, <1>2 DEF Fires

\* For any windows, thresholds and tables: an evaluation that read the rows up to its
\* day as they are emits an event exactly when the rule holds of them, on the days
\* where the documents and the code mean the same rows.
THEOREM LastEvaluationExactHolds == Spec => []LastEvaluationExact
<1>1. Init => EvalInv
  BY EvalInit
<1>2. EvalInv /\ [Next]_vars => EvalInv'
  BY EvalStep
<1>3. EvalInv => LastEvaluationExact
  BY FreshExact DEF LastEvaluationExact
<1> QED BY <1>1, <1>2, <1>3, PTL DEF Spec

\* And signal_event then shows the severity of those rows, whatever an earlier
\* evaluation of the day stored.
THEOREM StoredEventCurrentHolds == Spec => []StoredEventCurrent
<1>1. Init => EvalInv
  BY EvalInit
<1>2. EvalInv /\ [Next]_vars => EvalInv'
  BY EvalStep
<1>3. EvalInv => StoredEventCurrent
  BY FreshExact DEF StoredEventCurrent
<1> QED BY <1>1, <1>2, <1>3, PTL DEF Spec

\* A backfill no write raced returns the number of days of its range on which the
\* rule holds, give or take those on which the documents and the code disagree, for
\* any range and any other stocks' trading days.
THEOREM BackfillExactHolds == Spec => []BackfillExact
<1>1. Init => EvalInv
  BY EvalInit
<1>2. EvalInv /\ [Next]_vars => EvalInv'
  BY EvalStep
<1>3. ASSUME EvalInv, NEW r \in BackfillReport, reported = r
      PROVE  LET range == r.start..r.end
             IN  /\ Cardinality({d \in range : Agreed(r.signal, d) /\ Holds(r.signal, d)}) <= r.total
                 /\ r.total <= Cardinality({d \in range : Agreed(r.signal, d) => Holds(r.signal, d)})
  <2> DEFINE range == r.start..r.end
             least == {d \in range : Agreed(r.signal, d) /\ Holds(r.signal, d)}
             most == {d \in range : Agreed(r.signal, d) => Holds(r.signal, d)}
             fired == Fired(r.signal, range)
  <2>1. r.total = Cardinality(fired)
    BY <1>3 DEF EvalInv, ReportedSeen, ReportSound
  <2>2. IsFiniteSet(range) /\ \A d \in range : d \in Days
    BY RangeDays DEF BackfillReport
  <2>3. \A d \in range : Agreed(r.signal, d) => (Fires(r.signal, d) <=> Holds(r.signal, d))
    BY <1>3, <2>2, SeenExact DEF EvalInv, TypeOK
  <2>4. least \in SUBSET fired /\ fired \in SUBSET most /\ most \in SUBSET range
    BY <2>3 DEF Fired
  <2> HIDE DEF least, most, fired, range
  <2>5. Cardinality(least) <= Cardinality(fired) /\ Cardinality(fired) <= Cardinality(most)
    BY <2>2, <2>4, FS_Subset
  <2> QED BY <2>1, <2>5 DEF least, most, range
<1>4. EvalInv => BackfillExact
  <2> SUFFICES ASSUME EvalInv, reported # NoReport PROVE BackfillExact
    BY DEF BackfillExact
  <2>1. PICK r \in BackfillReport : reported = r
    BY DEF EvalInv, TypeOK
  <2> QED BY <1>3, <2>1 DEF BackfillExact
<1> QED BY <1>1, <1>2, <1>4, PTL DEF Spec
=============================================================================
