------------------------ MODULE MarketStructure_proofs ------------------------
(***************************************************************************)
(* Proofs about MarketStructure, for any candles, lookbacks, tolerances    *)
(* and lengths of the series.                                              *)
(***************************************************************************)
EXTENDS MarketStructure, SequenceTheorems, FiniteSetTheorems, WellFoundedInduction, TLAPS

(* Induction and recursion over the positions of a sequence *)

\* The library states induction for a predicate, which the provers cannot instantiate.
LEMMA SetInduction ==
    ASSUME NEW S, 0 \in S, \A n \in Nat : n \in S => n + 1 \in S
    PROVE  Nat \subseteq S
<1> SUFFICES ASSUME Nat \ S # {} PROVE FALSE
  OBVIOUS
<1> DEFINE less == {pair \in Nat \X Nat : pair[1] < pair[2]}
           left == Nat \ S
<1>1. IsWellFoundedOn(less, Nat)
  BY NatLessThanWellFounded DEF OpToRel
<1>2. PICK m \in left : \A n \in left : <<n, m>> \notin less
  <2>1. left \subseteq Nat /\ left # {}
    OBVIOUS
  <2> HIDE DEF less, left
  <2> QED
    BY <1>1, <2>1, WFMin
<1>3. m - 1 \in Nat /\ m - 1 < m
  BY <1>2
<1>4. m - 1 \in left
  BY <1>2, <1>3
<1> QED
  BY <1>2, <1>3, <1>4

\* A value for each of 0..n, each from the one before it.
HasRuns(n, X, start, step) ==
    \E f \in [0..n -> X] : f[0] = start /\ \A i \in 1..n : f[i] = step[i][f[i - 1]]

LEMMA Recursion ==
    ASSUME NEW n \in Nat, NEW X, NEW start \in X, NEW step \in [1..n -> [X -> X]]
    PROVE  HasRuns(n, X, start, step)
<1> DEFINE Runs(f, m) == f[0] = start /\ \A i \in 1..m : f[i] = step[i][f[i - 1]]
           S == {m \in Nat : m <= n => \E f \in [0..m -> X] : Runs(f, m)}
<1>1. 0 \in S
  <2>1. [i \in 0..0 |-> start] \in [0..0 -> X] /\ Runs([i \in 0..0 |-> start], 0)
    OBVIOUS
  <2> QED
    BY <2>1
<1>2. ASSUME NEW m \in Nat, m \in S PROVE m + 1 \in S
  <2> SUFFICES ASSUME m + 1 <= n
               PROVE  \E f \in [0..m + 1 -> X] : Runs(f, m + 1)
    OBVIOUS
  <2>1. PICK f \in [0..m -> X] : Runs(f, m)
    BY <1>2
  <2> DEFINE g == [i \in 0..m + 1 |-> IF i = m + 1 THEN step[m + 1][f[m]] ELSE f[i]]
  <2>2. step[m + 1][f[m]] \in X
    <3>1. f[m] \in X /\ step[m + 1] \in [X -> X]
      OBVIOUS
    <3> QED
      BY <3>1
  <2>3. g \in [0..m + 1 -> X]
    BY <2>2
  <2>4. g[0] = start
    BY <2>1
  <2>5. ASSUME NEW i \in 1..m + 1 PROVE g[i] = step[i][g[i - 1]]
    <3>1. CASE i = m + 1
      BY <3>1
    <3>2. CASE i # m + 1
      <4>1. i \in 1..m /\ i - 1 \in 0..m
        BY <3>2
      <4> QED
        BY <2>1, <4>1
    <3> QED
      BY <3>1, <3>2
  <2> QED
    BY <2>3, <2>4, <2>5
<1>3. n \in S
  <2> HIDE DEF S
  <2> QED
    BY <1>1, <1>2, SetInduction
<1> QED
  BY <1>3 DEF HasRuns

-----------------------------------------------------------------------------
(* FlattenSeq *)

\* What it joins, one part after the other.
Joins(n, X, parts) ==
    \E f \in [0..n -> Seq(X)] :
        /\ f[0] = <<>>
        /\ \A i \in 1..n : f[i] = f[i - 1] \o parts[i]
        /\ FlattenSeq(parts) = f[n]

LEMMA FlattenIs ==
    ASSUME NEW n \in Nat, NEW X, NEW parts \in [1..n -> Seq(X)]
    PROVE  Joins(n, X, parts)
<1>1. parts \in Seq(Seq(X)) /\ Len(parts) = n /\ DOMAIN parts = 1..n
  OBVIOUS
<1> DEFINE step == [i \in 1..n |-> [x \in Seq(X) |-> x \o parts[i]]]
<1>2. step \in [1..n -> [Seq(X) -> Seq(X)]]
  BY ConcatProperties
<1>3. PICK f \in [0..n -> Seq(X)] : f[0] = <<>> /\ \A i \in 1..n : f[i] = step[i][f[i - 1]]
  <2>1. <<>> \in Seq(X)
    OBVIOUS
  <2> HIDE DEF step
  <2>2. HasRuns(n, Seq(X), <<>>, step)
    BY <1>2, <2>1, Recursion
  <2> QED
    BY <2>2 DEF HasRuns
<1>4. ASSUME NEW i \in 1..n PROVE f[i] = f[i - 1] \o parts[i]
  <2>1. i - 1 \in 0..n
    OBVIOUS
  <2>2. f[i - 1] \in Seq(X) /\ f[i] = step[i][f[i - 1]]
    <3> HIDE DEF step
    <3> QED
      BY <1>3, <2>1
  <2>3. step[i][f[i - 1]] = f[i - 1] \o parts[i]
    BY <2>2
  <2> QED
    BY <2>2, <2>3
<1> HIDE DEF step
<1>5. CASE n = 0
  <2>1. Len(parts) = 0 /\ parts = <<>>
    <3>1. parts # <<>> => Len(parts) \in Nat \ {0}
      BY <1>1, EmptySeq, Zenon
    <3> QED
      BY <1>1, <1>5, <3>1
  <2>2. FlattenSeq(parts) = parts
    BY <2>1, Zenon DEF FlattenSeq
  <2> QED
    BY <1>3, <1>4, <1>5, <2>1, <2>2 DEF Joins
<1>6. CASE n # 0
  <2> DEFINE body(h) == [i \in 1..Len(parts) |-> IF i = 1 THEN parts[i] ELSE h[i - 1] \o parts[i]]
             g == [i \in 1..n |-> f[i]]
             h == CHOOSE h : h = body(h)
  <2>1. FlattenSeq(parts) = h[n]
    <3>1. Len(parts) = n /\ n # 0
      BY <1>1, <1>6
    <3>2. FlattenSeq(parts) = h[Len(parts)]
      BY <3>1, Zenon DEF FlattenSeq
    <3> QED
      BY <3>1, <3>2
  <2>2. ASSUME NEW i \in 1..n
        PROVE  g[i] = IF i = 1 THEN parts[i] ELSE g[i - 1] \o parts[i]
    <3>1. CASE i = 1
      <4>1. i - 1 = 0 /\ parts[i] \in Seq(X)
        BY <3>1
      <4>2. f[i] = <<>> \o parts[i]
        <5>1. f[i - 1] = <<>>
          BY <1>3, <4>1
        <5> QED
          BY <1>4, <5>1
      <4>3. <<>> \o parts[i] = parts[i]
        BY <4>1
      <4> QED
        BY <3>1, <4>2, <4>3
    <3>2. CASE i # 1
      <4>1. i - 1 \in 1..n
        BY <3>2
      <4> QED
        BY <1>4, <3>2, <4>1
    <3> QED
      BY <3>1, <3>2
  <2> DEFINE joined == [i \in 1..n |-> IF i = 1 THEN parts[i] ELSE g[i - 1] \o parts[i]]
  <2>3. g = joined
    BY <2>2
  <2>4. joined = body(g)
    <3> HIDE DEF g
    <3> QED
      BY <1>1
  <2>5. h = body(h)
    <3> HIDE DEF g, joined
    <3> QED
      BY <2>3, <2>4, Zenon
  <2> HIDE DEF h
  <2>6. ASSUME NEW i \in 1..n
        PROVE  h[i] = IF i = 1 THEN parts[i] ELSE h[i - 1] \o parts[i]
    <3>1. i \in 1..Len(parts)
      BY <1>1
    <3>2. body(h)[i] = IF i = 1 THEN parts[i] ELSE h[i - 1] \o parts[i]
      BY <3>1
    <3> HIDE DEF body
    <3> QED
      BY <2>5, <3>2
  <2> DEFINE S == {m \in Nat : m \in 1..n => h[m] = f[m]}
  <2>7. 0 \in S
    OBVIOUS
  <2>8. ASSUME NEW m \in Nat, m \in S PROVE m + 1 \in S
    <3> SUFFICES ASSUME m + 1 \in 1..n PROVE h[m + 1] = f[m + 1]
      OBVIOUS
    <3>1. CASE m = 0
      <4>1. m + 1 \in 1..n /\ m + 1 = 1
        BY <3>1
      <4>2. h[m + 1] = parts[m + 1] /\ g[m + 1] = parts[m + 1]
        <5> HIDE DEF g, body, joined
        <5> QED
          BY <2>2, <2>6, <4>1, Zenon
      <4> QED
        BY <4>1, <4>2
    <3>2. CASE m # 0
      <4>1. m \in 1..n /\ h[m] = f[m] /\ g[m] = f[m] /\ (m + 1) - 1 = m
        BY <2>8, <3>2
      <4>2. /\ h[m + 1] = h[(m + 1) - 1] \o parts[m + 1]
            /\ f[m + 1] = f[(m + 1) - 1] \o parts[m + 1]
        <5>1. m + 1 # 1
          BY <3>2
        <5> HIDE DEF g, body, joined
        <5> QED
          BY <1>4, <2>6, <5>1
      <4> QED
        BY <4>1, <4>2
    <3> QED
      BY <3>1, <3>2
  <2>9. n \in S
    <3> HIDE DEF S
    <3> QED
      BY <2>7, <2>8, SetInduction
  <2>10. FlattenSeq(parts) = f[n]
    BY <1>6, <2>1, <2>9
  <2> QED
    BY <1>3, <1>4, <2>10 DEF Joins
<1> QED
  BY <1>5, <1>6

-----------------------------------------------------------------------------
(* What swings, points and pools are *)

SwingRecord == [index : Nat, kind : {"HIGH", "LOW"}, price : Nat]

LEMMA ConfirmedTyped ==
    ASSUME NEW series \in Seq(Bars), NEW i \in 1..Len(series)
    PROVE  ConfirmedAt(series, i) \in Seq(SwingRecord)
<1>1. series[i] \in Bars
  OBVIOUS
<1>2. series[i].high \in Nat /\ series[i].low \in Nat
  BY <1>1, StructureAssumption
<1>3. i \in Nat
  BY LenProperties
<1>4. ASSUME NEW kind \in {"HIGH", "LOW"} PROVE Swing(series, i, kind) \in SwingRecord
  BY <1>2, <1>3 DEF Swing, SwingRecord
<1>5. <<Swing(series, i, "HIGH")>> \in Seq(SwingRecord)
      /\ <<Swing(series, i, "LOW")>> \in Seq(SwingRecord) /\ <<>> \in Seq(SwingRecord)
  BY <1>4
<1>6. ASSUME NEW s \in Seq(SwingRecord), NEW t \in Seq(SwingRecord)
      PROVE  s \o t \in Seq(SwingRecord)
  BY ConcatProperties
<1>7. SwingsAt(series, i) \in Seq(SwingRecord)
  BY <1>5, <1>6 DEF SwingsAt
<1> QED
  BY <1>5, <1>7 DEF ConfirmedAt

LEMMA SwingsTyped ==
    ASSUME NEW series \in Seq(Bars)
    PROVE  Swings(series) \in Seq(SwingRecord)
<1> DEFINE n == Len(series)
           parts == [i \in 1..n |-> ConfirmedAt(series, i)]
<1>1. n \in Nat
  BY LenProperties
<1>2. parts \in [1..n -> Seq(SwingRecord)]
  BY ConfirmedTyped
<1>3. Swings(series) = FlattenSeq(parts)
  BY DEF Swings
<1> HIDE DEF n, parts
<1>4. FlattenSeq(parts) \in Seq(SwingRecord)
  <2>1. Joins(n, SwingRecord, parts)
    BY <1>1, <1>2, FlattenIs
  <2>2. PICK f \in [0..n -> Seq(SwingRecord)] : FlattenSeq(parts) = f[n]
    BY <2>1 DEF Joins
  <2> QED
    BY <1>1, <2>2
<1> QED
  BY <1>3, <1>4

LEMMA PointsAre ==
    ASSUME NEW swings \in Seq(SwingRecord)
    PROVE  /\ Len(Structures(swings)) = Len(swings) /\ Len(swings) \in Nat
           /\ \A k \in 1..Len(swings) :
                 Structures(swings)[k] = [swing |-> swings[k], label |-> Label(swings, k)]
BY LenProperties DEF Structures

-----------------------------------------------------------------------------
(* The two trends *)

\* Whatever the points are.
LEMMA TrendsAgreeFor ==
    ASSUME NEW points, Len(points) \in Nat, NEW analysis, analysis = Analysis(points),
           NEW broken, broken = Broken(points, analysis),
           NEW changed, changed = Changed(points, broken),
           NEW direction \in {"BULLISH", "BEARISH"}
    PROVE  /\ Trend(points, analysis) = direction => Regime(analysis, broken, changed) = direction
           /\ Regime(analysis, broken, changed) = direction =>
                 Trend(points, analysis) \in {direction, "RANGE"}
<1> DEFINE n == Len(points)
           last == SubSeq(points, n - 2, n)
<1>1. changed = "NONE"
  BY DEF Changed, Broken, Is
<1>2. n >= 3 => last[3] = Last(points)
  BY DEF Last
<1>3. points = <<>> => n = 0
  OBVIOUS
<1>4. /\ analysis.intact => broken = "NONE" /\ analysis.current \in {"BULLISH", "BEARISH"}
      /\ analysis.intact \in BOOLEAN
      /\ ~analysis.intact => analysis.current \in {"NEUTRAL", "UNKNOWN"}
      /\ broken \in {"NONE", "BULLISH", "BEARISH"}
  <2>1. /\ analysis \in [previous : {"UNKNOWN", "NEUTRAL", "BULLISH", "BEARISH"},
                         current : {"UNKNOWN", "NEUTRAL", "BULLISH", "BEARISH"},
                         intact : BOOLEAN]
        /\ ~analysis.intact => analysis.current \in {"NEUTRAL", "UNKNOWN"}
        /\ analysis.intact => n >= 3 /\ analysis.current \in {"BULLISH", "BEARISH"}
        /\ analysis.intact => \/ analysis.previous = "BULLISH" /\ Is(last[3], "HIGHER", "HIGH")
                              \/ analysis.previous = "BEARISH" /\ Is(last[3], "LOWER", "LOW")
    BY DEF Analysis, Bias, Alternating
  <2>2. broken \in {"NONE", "BULLISH", "BEARISH"}
    BY DEF Broken
  <2>3. analysis.intact => broken = "NONE"
    BY <1>2, <2>1 DEF Broken, Is
  <2> QED
    BY <2>1, <2>2, <2>3
<1> QED
  BY <1>1, <1>4 DEF Regime, Trend
-----------------------------------------------------------------------------
(* Least elements *)

LEMMA LeastOfTwo ==
    ASSUME NEW a \in Int, NEW b \in Int
    PROVE  Min({a, b}) = IF a <= b THEN a ELSE b
<1> DEFINE least == IF a <= b THEN a ELSE b
<1>1. least \in {a, b} /\ \A y \in {a, b} : least <= y
  OBVIOUS
<1>2. Min({a, b}) \in {a, b} /\ \A y \in {a, b} : Min({a, b}) <= y
  <2> HIDE DEF least
  <2> QED
    BY <1>1 DEF Min
<1> QED
  BY <1>2

LEMMA LeastExists ==
    ASSUME NEW places \in SUBSET Nat, places # {}
    PROVE  Min(places) \in places /\ \A x \in places : Min(places) <= x
<1> DEFINE less == {pair \in Nat \X Nat : pair[1] < pair[2]}
<1>1. IsWellFoundedOn(less, Nat)
  BY NatLessThanWellFounded DEF OpToRel
<1>2. PICK m \in places : \A x \in places : <<x, m>> \notin less
  <2> HIDE DEF less
  <2> QED
    BY <1>1, WFMin
<1>3. ASSUME NEW x \in places PROVE m <= x
  <2>1. m \in Nat /\ x \in Nat /\ <<x, m>> \notin less
    BY <1>2
  <2>2. ~(x < m)
    BY <2>1
  <2> QED
    BY <2>1, <2>2
<1> QED
  BY <1>3 DEF Min

-----------------------------------------------------------------------------
(* What pools are *)

PoolRecord == [side : {"BUY", "SELL"}, price : Nat, created : Nat, swings : Nat]

LEMMA MergeTyped ==
    ASSUME NEW pools \in Seq(PoolRecord), NEW pool \in PoolRecord
    PROVE  Merge(pools, pool) \in Seq(PoolRecord)
<1> DEFINE near == {k \in 1..Len(pools) :
                       pools[k].side = pool.side /\ SameLevel(pools[k].price, pool.price)}
           into == pools[Min(near)]
           merged == [side |-> into.side, price |-> (into.price + pool.price) \div 2,
                      created |-> Min({into.created, pool.created}),
                      swings |-> into.swings + pool.swings]
<1>1. CASE near = {}
  BY <1>1, AppendProperties DEF Merge
<1>2. CASE near # {}
  <2>1. Min(near) \in 1..Len(pools)
    <3>1. near \in SUBSET Nat
      OBVIOUS
    <3>2. near \subseteq 1..Len(pools)
      OBVIOUS
    <3> HIDE DEF near
    <3> QED
      BY <1>2, <3>1, <3>2, LeastExists
  <2>2. into \in PoolRecord
    <3> HIDE DEF near
    <3> QED
      BY <2>1
  <2>3. merged \in PoolRecord
    <3> HIDE DEF into
    <3>1. Min({into.created, pool.created}) \in Nat
      <4>1. into.created \in Nat /\ pool.created \in Nat
        BY <2>2 DEF PoolRecord
      <4> QED
        BY <4>1, LeastOfTwo
    <3>2. (into.price + pool.price) \div 2 \in Nat
      <4>1. into.price + pool.price \in Nat
        BY <2>2 DEF PoolRecord
      <4>2. \A sum \in Nat : sum \div 2 \in Nat
        OBVIOUS
      <4> QED
        BY <4>1, <4>2
    <3>3. into.side \in {"BUY", "SELL"} /\ into.swings + pool.swings \in Nat
      BY <2>2 DEF PoolRecord
    <3> QED
      BY <3>1, <3>2, <3>3 DEF PoolRecord
  <2>4. Merge(pools, pool) = [pools EXCEPT ![Min(near)] = merged]
    BY <1>2, Zenon DEF Merge
  <2> HIDE DEF near, merged
  <2> QED
    BY <2>1, <2>3, <2>4
<1> QED
  BY <1>1, <1>2

LEMMA PoolsTyped ==
    ASSUME NEW swings \in Seq(SwingRecord)
    PROVE  Pools(swings) \in Seq(PoolRecord)
<1> DEFINE n == Len(swings)
           body(h) == [k \in 0..Len(swings) |->
                          IF k = 0 THEN <<>> ELSE Merge(h[k - 1], Pool(swings[k]))]
           step == [k \in 1..n |-> [x \in Seq(PoolRecord) |-> Merge(x, Pool(swings[k]))]]
           h == CHOOSE h : h = body(h)
<1>1. n \in Nat
  BY LenProperties
<1>2. ASSUME NEW k \in 1..n PROVE Pool(swings[k]) \in PoolRecord
  <2>1. swings[k] \in SwingRecord
    OBVIOUS
  <2> QED
    BY <2>1 DEF Pool, SwingRecord, PoolRecord
<1>3. step \in [1..n -> [Seq(PoolRecord) -> Seq(PoolRecord)]]
  BY <1>2, MergeTyped
<1>4. HasRuns(n, Seq(PoolRecord), <<>>, step)
  <2>1. <<>> \in Seq(PoolRecord)
    OBVIOUS
  <2> HIDE DEF step, n
  <2> QED
    BY <1>1, <1>3, <2>1, Recursion
<1>5. PICK f \in [0..n -> Seq(PoolRecord)] :
         f[0] = <<>> /\ \A k \in 1..n : f[k] = step[k][f[k - 1]]
  BY <1>4 DEF HasRuns
<1>6. f = body(f)
  <2>1. ASSUME NEW k \in 1..n PROVE f[k] = Merge(f[k - 1], Pool(swings[k]))
    <3>1. f[k] = step[k][f[k - 1]] /\ f[k - 1] \in Seq(PoolRecord)
      <4>1. k - 1 \in 0..n
        BY <1>1
      <4> HIDE DEF step
      <4> QED
        BY <1>5, <4>1
    <3> QED
      BY <3>1
  <2>2. ASSUME NEW k \in 0..n PROVE f[k] = body(f)[k]
    BY <1>5, <2>1
  <2> QED
    BY <2>2
<1>7. h = body(h)
  BY <1>6, Zenon
<1>8. Pools(swings) = h[n]
  BY DEF Pools
<1> HIDE DEF h
<1>9. /\ n > 0 => h[n] = Merge(h[n - 1], Pool(swings[n]))
      /\ h[0] = <<>>
      /\ \A k \in 1..n : h[k] = Merge(h[k - 1], Pool(swings[k]))
  <2>1. \A k \in 0..n : h[k] = IF k = 0 THEN <<>> ELSE Merge(h[k - 1], Pool(swings[k]))
    BY <1>7
  <2> QED
    BY <1>1, <2>1
<1> DEFINE S == {m \in Nat : m <= n => h[m] \in Seq(PoolRecord)}
<1>10. 0 \in S
  <2>1. h[0] = <<>> /\ <<>> \in Seq(PoolRecord)
    BY <1>9
  <2>2. h[0] \in Seq(PoolRecord)
    BY <2>1
  <2> QED
    BY <2>2
<1>11. ASSUME NEW m \in Nat, m \in S PROVE m + 1 \in S
  <2> SUFFICES ASSUME m + 1 <= n PROVE h[m + 1] \in Seq(PoolRecord)
    OBVIOUS
  <2>1. m + 1 \in 1..n /\ (m + 1) - 1 = m
    BY <1>1
  <2>2. h[m] \in Seq(PoolRecord)
    BY <1>1, <1>11
  <2>3. h[m + 1] = Merge(h[m], Pool(swings[m + 1]))
    BY <1>9, <2>1
  <2> QED
    BY <1>2, <2>1, <2>2, <2>3, MergeTyped
<1>12. n \in S
  <2> HIDE DEF S
  <2> QED
    BY <1>1, <1>10, <1>11, SetInduction
<1> QED
  BY <1>1, <1>8, <1>12
-----------------------------------------------------------------------------
(* Events *)

LEMMA LeastIs ==
    ASSUME NEW places \in SUBSET Nat, NEW m \in places, \A x \in places : m <= x
    PROVE  Min(places) = m
<1>1. Min(places) \in places /\ \A x \in places : Min(places) <= x
  BY DEF Min
<1>2. Min(places) \in Nat /\ m \in Nat /\ m <= Min(places) /\ Min(places) <= m
  BY <1>1
<1> QED
  BY <1>2

Breaches(pool, series) == {i \in pool.created + 1..Len(series) : Beyond(pool, series[i])}

LEMMA WindowIs ==
    ASSUME NEW series, Len(series) \in Nat, NEW m \in 1..Len(series)
    PROVE  /\ Cardinality(Window(series, m)) =
                (IF m + Confirmations <= Len(series) THEN Confirmations ELSE Len(series) - m)
           /\ m + Confirmations <= Len(series) => Window(series, m) = m + 1..m + Confirmations
<1> DEFINE n == Len(series)
           last == IF m + Confirmations <= n THEN m + Confirmations ELSE n
<1>1. m \in Nat /\ n \in Nat /\ Confirmations \in Nat \ {0}
  BY StructureAssumption
<1>2. Min({m + Confirmations, n}) = last
  BY <1>1, LeastOfTwo
<1>3. Window(series, m) = m + 1..last
  BY <1>2 DEF Window
<1>4. Cardinality(m + 1..last) = last - m
  <2>1. m + 1 \in Int /\ last \in Int
    BY <1>1
  <2>2. Cardinality(m + 1..last) = IF m + 1 > last THEN 0 ELSE last - (m + 1) + 1
    <3> HIDE DEF last
    <3> QED
      BY <2>1, FS_Interval
  <2> QED
    BY <1>1, <2>2
<1> QED
  BY <1>1, <1>3, <1>4

\* Candles that come after the confirmation candles change nothing.
LEMMA EventSettled ==
    ASSUME NEW pool, pool.created \in Nat, NEW series \in Seq(Bars), NEW bar \in Bars,
           Event(pool, series).checked = Confirmations
    PROVE  Event(pool, Append(series, bar)) = Event(pool, series)
<1> DEFINE longer == Append(series, bar)
           n == Len(series)
           early == Breaches(pool, series)
           late == Breaches(pool, longer)
           m == Min(early)
<1>1. /\ n \in Nat /\ Len(longer) = n + 1 /\ Confirmations \in Nat \ {0}
      /\ \A i \in 1..n : longer[i] = series[i]
  BY StructureAssumption, AppendProperties, LenProperties
<1>2. early # {}
  <2> SUFFICES ASSUME early = {} PROVE FALSE
    OBVIOUS
  <2>1. Event(pool, series) = [pool |-> pool, breach |-> 0, checked |-> 0, type |-> "NONE"]
    BY DEF Event, Breaches
  <2> QED
    BY <1>1, <2>1
<1>3. m \in early /\ m \in 1..n /\ \A i \in early : m <= i
  <2>1. early \in SUBSET Nat /\ early \subseteq 1..n
    BY <1>1 DEF Breaches
  <2> HIDE DEF early, n
  <2> QED
    BY <1>2, <2>1, LeastExists
<1>4. Min(late) = m /\ late # {}
  <2>1. late \in SUBSET Nat /\ m \in late
    BY <1>1, <1>3 DEF Breaches
  <2>2. ASSUME NEW i \in late PROVE m <= i
    <3>1. CASE i \in 1..n
      <4>1. i \in early
        BY <1>1, <3>1 DEF Breaches
      <4> QED
        BY <1>3, <4>1
    <3>2. CASE i \notin 1..n
      <4>1. i = n + 1
        BY <1>1, <3>2 DEF Breaches
      <4> QED
        BY <1>1, <1>3, <4>1
    <3> QED
      BY <3>1, <3>2
  <2> HIDE DEF late, m
  <2> QED
    BY <2>1, <2>2, LeastIs
<1>5. /\ Event(pool, series).checked = Cardinality(Window(series, m))
      /\ Event(pool, series) =
           [pool |-> pool, breach |-> m, checked |-> Cardinality(Window(series, m)),
            type |-> IF \E i \in Window(series, m) : ClosedBack(pool, series[i]) THEN "SWEEP"
                     ELSE IF Window(series, m) # {}
                               /\ \A i \in Window(series, m) : ClosedOn(pool, series[i])
                     THEN "BREAKOUT" ELSE "NONE"]
  BY <1>2 DEF Event, Breaches
<1>6. Event(pool, longer) =
           [pool |-> pool, breach |-> m, checked |-> Cardinality(Window(longer, m)),
            type |-> IF \E i \in Window(longer, m) : ClosedBack(pool, longer[i]) THEN "SWEEP"
                     ELSE IF Window(longer, m) # {}
                               /\ \A i \in Window(longer, m) : ClosedOn(pool, longer[i])
                     THEN "BREAKOUT" ELSE "NONE"]
  <2>1. Event(pool, longer) =
           [pool |-> pool, breach |-> Min(late), checked |-> Cardinality(Window(longer, Min(late))),
            type |-> IF \E i \in Window(longer, Min(late)) : ClosedBack(pool, longer[i]) THEN "SWEEP"
                     ELSE IF Window(longer, Min(late)) # {}
                               /\ \A i \in Window(longer, Min(late)) : ClosedOn(pool, longer[i])
                     THEN "BREAKOUT" ELSE "NONE"]
    BY <1>4 DEF Event, Breaches
  <2> HIDE DEF m, late, longer
  <2> QED
    BY <1>4, <2>1
<1> HIDE DEF m
<1>7. m + Confirmations <= n
  <2>1. Cardinality(Window(series, m)) = IF m + Confirmations <= n THEN Confirmations ELSE n - m
    BY <1>1, <1>3, WindowIs
  <2>2. Cardinality(Window(series, m)) = Confirmations
    BY <1>5
  <2> QED
    BY <1>1, <1>3, <2>1, <2>2
<1>8. Window(series, m) = m + 1..m + Confirmations /\ Window(longer, m) = m + 1..m + Confirmations
  <2>1. m \in 1..Len(longer) /\ Len(longer) \in Nat /\ m + Confirmations <= Len(longer)
    BY <1>1, <1>3, <1>7
  <2> HIDE DEF longer
  <2> QED
    BY <1>1, <1>3, <1>7, <2>1, WindowIs
<1>9. \A i \in m + 1..m + Confirmations : longer[i] = series[i]
  BY <1>1, <1>3, <1>7
<1>10. /\ (\E i \in Window(longer, m) : ClosedBack(pool, longer[i]))
             <=> (\E i \in Window(series, m) : ClosedBack(pool, series[i]))
       /\ (\A i \in Window(longer, m) : ClosedOn(pool, longer[i]))
             <=> (\A i \in Window(series, m) : ClosedOn(pool, series[i]))
       /\ Window(longer, m) = Window(series, m)
  <2> HIDE DEF longer
  <2> QED
    BY <1>8, <1>9
<1> HIDE DEF longer, n
<1> DEFINE told(s) == IF \E i \in Window(s, m) : ClosedBack(pool, s[i]) THEN "SWEEP"
                      ELSE IF Window(s, m) # {}
                                /\ \A i \in Window(s, m) : ClosedOn(pool, s[i])
                      THEN "BREAKOUT" ELSE "NONE"
<1>11. told(longer) = told(series)
  BY <1>10
<1>12. Event(pool, longer) = [pool |-> pool, breach |-> m,
                              checked |-> Cardinality(Window(longer, m)), type |-> told(longer)]
       /\ Event(pool, series) = [pool |-> pool, breach |-> m,
                              checked |-> Cardinality(Window(series, m)), type |-> told(series)]
  BY <1>5, <1>6
<1> HIDE DEF told
<1>13. Event(pool, longer) = Event(pool, series)
  BY <1>10, <1>11, <1>12
<1> QED
  BY <1>13 DEF longer
-----------------------------------------------------------------------------
(* The report *)

\* What the engines say is of the candles there are.
StructureInv ==
    /\ lookback \in Nat \ {0}
    /\ candles \in Seq(Bars)
    /\ report = Evaluate(candles)

\* The swings at a later point, with the same lookback.
LEMMA SwingsLater ==
    ASSUME lookback' = lookback
    PROVE  Swings(candles)' = Swings(candles')
<1>1. ASSUME NEW i PROVE ConfirmedAt(candles, i)' = ConfirmedAt(candles', i)
  <2>1. /\ Status(candles, i)' = Status(candles', i)
        /\ Right(candles, i)' = Right(candles', i)
        /\ Around(candles, i)' = Around(candles', i)
    BY DEF Status, Right, Around
  <2>2. /\ IsHigh(candles, i)' <=> IsHigh(candles', i)
        /\ IsLow(candles, i)' <=> IsLow(candles', i)
    BY <2>1 DEF IsHigh, IsLow
  <2>3. SwingsAt(candles, i)' = SwingsAt(candles', i)
    BY <2>1, <2>2 DEF SwingsAt, Swing
  <2> QED
    BY <2>1, <2>3 DEF ConfirmedAt
<1> DEFINE here == [i \in 1..Len(candles) |-> ConfirmedAt(candles, i)]'
           there == [i \in 1..Len(candles') |-> ConfirmedAt(candles', i)]
<1>2. here = there
  BY <1>1
<1>3. Swings(candles)' = FlattenSeq(here) /\ Swings(candles') = FlattenSeq(there)
  BY DEF Swings
<1> QED
  BY <1>2, <1>3

LEMMA StructureStep ==
    ASSUME StructureInv, [Next]_structureVars
    PROVE  StructureInv'
<1>1. CASE UNCHANGED structureVars
  <2>1. lookback' = lookback /\ candles' = candles /\ report' = report
    BY <1>1 DEF structureVars
  <2>2. Evaluate(candles)' = Evaluate(candles')
    BY <2>1, SwingsLater DEF Evaluate
  <2> QED
    BY <2>1, <2>2 DEF StructureInv
<1>2. CASE Next
  <2>1. lookback' = lookback /\ report' = Evaluate(candles')
    BY <1>2 DEF Next
  <2>2. candles' \in Seq(Bars)
    BY <1>2, AppendProperties DEF Next, StructureInv
  <2>3. Evaluate(candles)' = Evaluate(candles')
    BY <2>1, SwingsLater DEF Evaluate
  <2> QED
    BY <2>1, <2>2, <2>3 DEF StructureInv
<1> QED
  BY <1>1, <1>2

LEMMA StructureInvariant == Spec => []StructureInv
<1>1. Init => StructureInv
  <2> SUFFICES ASSUME Init PROVE StructureInv
    OBVIOUS
  <2>1. lookback \in Nat \ {0}
    BY StructureAssumption DEF Init
  <2>2. candles \in Seq(Bars) /\ report = Evaluate(candles)
    BY DEF Init
  <2> QED
    BY <2>1, <2>2 DEF StructureInv
<1>2. StructureInv /\ [Next]_structureVars => StructureInv'
  BY StructureStep
<1> QED
  BY <1>1, <1>2, PTL DEF Spec

\* For any series and settings, the trend of the breaks and the trend of the bias
\* and the range name the same direction, when they name one.
THEOREM TrendsAlwaysAgree == Spec => []TrendsAgree
<1>1. StructureInv => TrendsAgree
  <2> SUFFICES ASSUME StructureInv, NEW direction \in {"BULLISH", "BEARISH"}
               PROVE  /\ report.trend = direction => report.regime = direction
                      /\ report.regime = direction => report.trend \in {direction, "RANGE"}
    BY DEF TrendsAgree
  <2> DEFINE swings == Swings(candles)
             points == Structures(swings)
             analysis == Analysis(points)
             broken == Broken(points, analysis)
             changed == Changed(points, broken)
  <2>1. swings \in Seq(SwingRecord)
    BY SwingsTyped DEF StructureInv
  <2>2. Len(points) \in Nat
    BY <2>1, PointsAre
  <2>3. /\ report.trend = Trend(points, analysis)
        /\ report.regime = Regime(analysis, broken, changed)
    BY DEF StructureInv, Evaluate
  <2> HIDE DEF swings, points, analysis, broken, changed
  <2>4. /\ Trend(points, analysis) = direction => Regime(analysis, broken, changed) = direction
        /\ Regime(analysis, broken, changed) = direction =>
                 Trend(points, analysis) \in {direction, "RANGE"}
    BY <2>2, TrendsAgreeFor DEF analysis, broken, changed
  <2> QED
    BY <2>3, <2>4
<1> QED
  BY <1>1, StructureInvariant, PTL

\* What the report says of events.
LEMMA EventsAre ==
    ASSUME NEW series
    PROVE  Range(Evaluate(series).events) =
              {Event(Pools(Swings(series))[k], series) : k \in DOMAIN Pools(Swings(series))}
BY DEF Evaluate, Range

\* A breach is classified for good by its confirmation candles, for any pools,
\* tolerances and number of confirmations.
THEOREM EventsAlwaysSettle == Spec => EventsSettle
<1> DEFINE Settle ==
      \A event \in Range(report.events) :
         event.checked = Confirmations =>
            \A other \in Range(report.events)' :
               other.pool = event.pool => other = event
<1>1. StructureInv /\ [Next]_structureVars => [Settle]_structureVars
  <2> SUFFICES ASSUME StructureInv, Next, NEW event \in Range(report.events),
                      event.checked = Confirmations,
                      NEW other \in Range(report.events)', other.pool = event.pool
               PROVE  other = event
    BY DEF structureVars
  <2>1. PICK bar \in Bars : candles' = Append(candles, bar)
    BY DEF Next
  <2>2. candles \in Seq(Bars) /\ report = Evaluate(candles) /\ report' = Evaluate(candles')
    BY DEF StructureInv, Next
  <2>3. PICK p : p.created \in Nat /\ event = Event(p, candles)
    <3>1. PICK k \in DOMAIN Pools(Swings(candles)) :
             event = Event(Pools(Swings(candles))[k], candles)
      BY <2>2, EventsAre
    <3>2. Pools(Swings(candles)) \in Seq(PoolRecord)
      BY <2>2, SwingsTyped, PoolsTyped
    <3>3. Pools(Swings(candles))[k] \in PoolRecord
      BY <3>1, <3>2
    <3> QED
      BY <3>1, <3>3 DEF PoolRecord
  <2>4. PICK q : other = Event(q, candles')
    <3>1. other \in Range(Evaluate(candles').events)
      BY <2>2 DEF Range
    <3> QED
      BY <3>1, EventsAre
  <2>5. p = q
    <3>1. event.pool = p /\ other.pool = q
      BY <2>3, <2>4 DEF Event
    <3> QED
      BY <3>1
  <2>6. Event(p, Append(candles, bar)) = Event(p, candles)
    BY <2>2, <2>3, EventSettled
  <2> QED
    BY <2>1, <2>3, <2>4, <2>5, <2>6
<1> QED
  BY <1>1, StructureInvariant, PTL DEF Spec, EventsSettle
-----------------------------------------------------------------------------
(* Confirmed points stay *)

LEMMA GreatestExists ==
    ASSUME NEW n \in Nat, NEW places \in SUBSET (1..n), places # {}
    PROVE  Max(places) \in places
<1> DEFINE back == {n - x : x \in places}
<1>1. back \in SUBSET Nat /\ back # {}
  <2>1. \A x \in places : n - x \in Nat
    OBVIOUS
  <2>2. PICK x \in places : TRUE
    OBVIOUS
  <2>3. n - x \in back
    OBVIOUS
  <2> QED
    BY <2>1, <2>3
<1>2. Min(back) \in back /\ \A d \in back : Min(back) <= d
  <2> HIDE DEF back
  <2> QED
    BY <1>1, LeastExists
<1>3. PICK m \in places : Min(back) = n - m
  BY <1>2
<1>4. ASSUME NEW x \in places PROVE m >= x
  <2>1. n - m <= n - x
    BY <1>2, <1>3
  <2> QED
    BY <2>1
<1> QED
  BY <1>4 DEF Max

\* A candle that is confirmed is so for good, with all candles it is compared with;
\* the others tell nothing yet.
LEMMA ConfirmedStay ==
    ASSUME lookback \in Nat \ {0}, NEW series \in Seq(Bars), NEW bar \in Bars,
           NEW i \in 1..Len(series)
    PROVE  /\ i + lookback <= Len(series) =>
                 ConfirmedAt(Append(series, bar), i) = ConfirmedAt(series, i)
           /\ i + lookback > Len(series) => ConfirmedAt(series, i) = <<>>
<1> DEFINE longer == Append(series, bar)
           n == Len(series)
<1>1. /\ n \in Nat /\ Len(longer) = n + 1
      /\ \A j \in 1..n : longer[j] = series[j]
  BY AppendProperties, LenProperties
<1>2. i + lookback > n => ConfirmedAt(series, i) = <<>>
  BY <1>1 DEF ConfirmedAt, Status
<1>3. ASSUME i + lookback <= n PROVE ConfirmedAt(longer, i) = ConfirmedAt(series, i)
  <2>1. Right(longer, i) = i + 1..i + lookback /\ Right(series, i) = i + 1..i + lookback
    <3>1. i + lookback \in Int /\ n \in Int /\ n + 1 \in Int
      BY <1>1
    <3>2. Min({i + lookback, n}) = i + lookback /\ Min({i + lookback, n + 1}) = i + lookback
      BY <1>1, <1>3, <3>1, LeastOfTwo
    <3> HIDE DEF longer
    <3> QED
      BY <1>1, <3>2 DEF Right
  <2>2. Around(longer, i) = Around(series, i)
    BY <2>1 DEF Around
  <2>3. i > lookback => \A j \in Around(series, i) : j \in 1..n
    BY <1>1, <1>3, <2>1 DEF Around
  <2>4. i > lookback => /\ IsHigh(longer, i) <=> IsHigh(series, i)
                        /\ IsLow(longer, i) <=> IsLow(series, i)
    <3> HIDE DEF longer
    <3> QED
      BY <1>1, <2>2, <2>3 DEF IsHigh, IsLow
  <2>5. \A kind : Swing(longer, i, kind) = Swing(series, i, kind)
    BY <1>1 DEF Swing
  <2>6. SwingsAt(longer, i) = SwingsAt(series, i)
    <3> HIDE DEF longer
    <3>1. CASE i <= lookback
      BY <3>1 DEF SwingsAt
    <3>2. CASE ~(i <= lookback)
      <4> DEFINE high(x) == IF IsHigh(x, i) THEN <<Swing(x, i, "HIGH")>> ELSE <<>>
                 low(x) == IF IsLow(x, i) THEN <<Swing(x, i, "LOW")>> ELSE <<>>
      <4>1. high(longer) = high(series) /\ low(longer) = low(series)
        BY <2>4, <2>5, <3>2
      <4>2. Right(longer, i) = Right(series, i)
        BY <2>1
      <4>3. \A x : SwingsAt(x, i) = IF Right(x, i) = {} THEN <<>> ELSE high(x) \o low(x)
        BY <3>2 DEF SwingsAt
      <4> HIDE DEF high, low
      <4> QED
        BY <4>1, <4>2, <4>3
    <3> QED
      BY <3>1, <3>2
  <2>7. Status(longer, i) = "CONFIRMED" /\ Status(series, i) = "CONFIRMED"
    BY <1>1, <1>3 DEF Status
  <2> QED
    BY <2>6, <2>7 DEF ConfirmedAt
<1> QED
  BY <1>2, <1>3

\* t is s and what comes after it.
Begins(X, s, t) == \E rest \in Seq(X) : t = s \o rest

LEMMA BeginsItself ==
    ASSUME NEW X, NEW s \in Seq(X)
    PROVE  Begins(X, s, s)
<1>1. s = s \o <<>> /\ <<>> \in Seq(X)
  BY ConcatEmptySeq
<1> QED
  BY <1>1 DEF Begins

LEMMA BeginsLonger ==
    ASSUME NEW X, NEW s \in Seq(X), NEW t \in Seq(X), NEW u \in Seq(X), Begins(X, s, t)
    PROVE  Begins(X, s, t \o u)
<1>1. PICK rest \in Seq(X) : t = s \o rest
  BY DEF Begins
<1>2. t \o u = s \o (rest \o u) /\ rest \o u \in Seq(X)
  BY <1>1, ConcatAssociative, ConcatProperties
<1> QED
  BY <1>2 DEF Begins

\* Parts that come in later, behind all that tells something, come after it.
LEMMA FlattenLonger ==
    ASSUME NEW n \in Nat, NEW X, NEW m \in 0..n,
           NEW parts \in [1..n -> Seq(X)], NEW more \in [1..n + 1 -> Seq(X)],
           \A i \in 1..m : more[i] = parts[i],
           \A i \in m + 1..n : parts[i] = <<>>
    PROVE  Begins(X, FlattenSeq(parts), FlattenSeq(more))
<1>1. PICK f \in [0..n -> Seq(X)] :
         /\ f[0] = <<>>
         /\ \A i \in 1..n : f[i] = f[i - 1] \o parts[i]
         /\ FlattenSeq(parts) = f[n]
  <2>1. Joins(n, X, parts)
    BY FlattenIs
  <2> QED
    BY <2>1 DEF Joins
<1>2. PICK g \in [0..n + 1 -> Seq(X)] :
         /\ g[0] = <<>>
         /\ \A i \in 1..n + 1 : g[i] = g[i - 1] \o more[i]
         /\ FlattenSeq(more) = g[n + 1]
  <2>1. Joins(n + 1, X, more)
    <3>1. n + 1 \in Nat
      OBVIOUS
    <3> QED
      BY <3>1, FlattenIs
  <2> QED
    BY <2>1 DEF Joins
<1> DEFINE S == {k \in Nat : k <= n =>
                    /\ k <= m => g[k] = f[k]
                    /\ Begins(X, f[k], g[k])}
<1>3. 0 \in S
  <2>1. g[0] = f[0] /\ f[0] \in Seq(X)
    BY <1>1, <1>2
  <2> QED
    BY <2>1, BeginsItself
<1>4. ASSUME NEW k \in Nat, k \in S PROVE k + 1 \in S
  <2> SUFFICES ASSUME k + 1 <= n
               PROVE  /\ k + 1 <= m => g[k + 1] = f[k + 1]
                      /\ Begins(X, f[k + 1], g[k + 1])
    OBVIOUS
  <2>1. /\ k + 1 \in 1..n /\ k + 1 \in 1..n + 1 /\ (k + 1) - 1 = k /\ k \in 0..n
    OBVIOUS
  <2>2. f[k + 1] = f[k] \o parts[k + 1] /\ g[k + 1] = g[k] \o more[k + 1]
    BY <1>1, <1>2, <2>1
  <2>3. /\ Begins(X, f[k], g[k]) /\ f[k] \in Seq(X) /\ g[k] \in Seq(X)
        /\ f[k + 1] \in Seq(X) /\ g[k + 1] \in Seq(X)
    <3>1. k <= n /\ k \in 0..n + 1 /\ k + 1 \in 0..n /\ k + 1 \in 0..n + 1
      OBVIOUS
    <3>2. Begins(X, f[k], g[k])
      BY <1>4, <3>1
    <3> QED
      BY <2>1, <3>1, <3>2
  <2>4. CASE k + 1 <= m
    <3>1. g[k] = f[k] /\ more[k + 1] = parts[k + 1]
      BY <1>4, <2>1, <2>4
    <3>2. g[k + 1] = f[k + 1]
      BY <2>2, <3>1
    <3> QED
      BY <2>3, <3>2, BeginsItself
  <2>5. CASE ~(k + 1 <= m)
    <3>1. parts[k + 1] = <<>> /\ f[k] \in Seq(X) /\ more[k + 1] \in Seq(X)
      BY <2>1, <2>5
    <3>2. f[k + 1] = f[k]
      BY <2>2, <3>1, ConcatEmptySeq
    <3>3. Begins(X, f[k], g[k + 1])
      BY <2>2, <2>3, <3>1, BeginsLonger
    <3> QED
      BY <2>5, <3>2, <3>3
  <2> QED
    BY <2>4, <2>5
<1>5. n \in S
  <2> HIDE DEF S
  <2> QED
    BY <1>3, <1>4, SetInduction
<1>6. Begins(X, f[n], g[n])
  BY <1>5
<1>7. /\ g[n + 1] = g[n] \o more[n + 1]
      /\ f[n] \in Seq(X) /\ g[n] \in Seq(X) /\ more[n + 1] \in Seq(X)
  <2>1. n + 1 \in 1..n + 1 /\ (n + 1) - 1 = n /\ n \in 0..n /\ n \in 0..n + 1
    OBVIOUS
  <2> QED
    BY <1>2, <2>1
<1> QED
  BY <1>1, <1>2, <1>6, <1>7, BeginsLonger

LEMMA SwingsStay ==
    ASSUME lookback \in Nat \ {0}, NEW series \in Seq(Bars), NEW bar \in Bars
    PROVE  Begins(SwingRecord, Swings(series), Swings(Append(series, bar)))
<1> DEFINE longer == Append(series, bar)
           n == Len(series)
           parts == [i \in 1..n |-> ConfirmedAt(series, i)]
           more == [i \in 1..n + 1 |-> ConfirmedAt(longer, i)]
           m == IF n >= lookback THEN n - lookback ELSE 0
<1>1. /\ n \in Nat /\ longer \in Seq(Bars) /\ Len(longer) = n + 1 /\ m \in 0..n
  BY AppendProperties, LenProperties
<1>2. Swings(series) = FlattenSeq(parts) /\ Swings(longer) = FlattenSeq(more)
  <2> HIDE DEF longer
  <2> QED
    BY <1>1 DEF Swings
<1>3. parts \in [1..n -> Seq(SwingRecord)] /\ more \in [1..n + 1 -> Seq(SwingRecord)]
  <2>1. ASSUME NEW i \in 1..n + 1 PROVE ConfirmedAt(longer, i) \in Seq(SwingRecord)
    <3> HIDE DEF longer
    <3> QED
      BY <1>1, ConfirmedTyped
  <2>2. ASSUME NEW i \in 1..n PROVE ConfirmedAt(series, i) \in Seq(SwingRecord)
    BY ConfirmedTyped
  <2> QED
    BY <2>1, <2>2
<1>4. ASSUME NEW i \in 1..m PROVE more[i] = parts[i]
  <2>1. i \in 1..n /\ i \in 1..n + 1 /\ i + lookback <= n
    BY <1>1
  <2>2. ConfirmedAt(longer, i) = ConfirmedAt(series, i)
    BY <2>1, ConfirmedStay
  <2> QED
    BY <2>1, <2>2
<1>5. ASSUME NEW i \in m + 1..n PROVE parts[i] = <<>>
  <2>1. i \in 1..n /\ i + lookback > n
    BY <1>1
  <2> QED
    BY <2>1, ConfirmedStay
<1> HIDE DEF longer, n, parts, more, m
<1>6. Begins(SwingRecord, FlattenSeq(parts), FlattenSeq(more))
  BY <1>1, <1>3, <1>4, <1>5, FlattenLonger
<1> QED
  BY <1>2, <1>6 DEF longer

LEMMA PointsStay ==
    ASSUME NEW swings \in Seq(SwingRecord), NEW rest \in Seq(SwingRecord)
    PROVE  IsPrefix(Structures(swings), Structures(swings \o rest))
<1> DEFINE more == swings \o rest
           n == Len(swings)
           before == Structures(swings)
           after == Structures(more)
<1>1. /\ n \in Nat /\ more \in Seq(SwingRecord) /\ Len(more) = n + Len(rest) /\ Len(rest) \in Nat
      /\ \A i \in 1..n : more[i] = swings[i]
  BY ConcatProperties, LenProperties
<1>2. ASSUME NEW k \in 1..n PROVE Label(more, k) = Label(swings, k)
  <2> DEFINE earlier == {j \in 1..k - 1 : swings[j].kind = swings[k].kind}
             earlier2 == {j \in 1..k - 1 : more[j].kind = more[k].kind}
  <2>1. earlier2 = earlier
    <3> HIDE DEF more
    <3> QED
      BY <1>1
  <2>2. earlier # {} => Max(earlier) \in 1..n
    <3>1. k - 1 \in Nat /\ earlier \in SUBSET (1..k - 1)
      BY <1>1
    <3>2. earlier # {} => Max(earlier) \in earlier
      <4> HIDE DEF earlier
      <4> QED
        BY <3>1, GreatestExists
    <3> QED
      BY <1>1, <3>1, <3>2
  <2>3. Label(more, k) = IF earlier2 = {} THEN "FIRST"
                         ELSE IF more[k].price > more[Max(earlier2)].price THEN "HIGHER" ELSE "LOWER"
    BY DEF Label
  <2>4. Label(swings, k) = IF earlier = {} THEN "FIRST"
                           ELSE IF swings[k].price > swings[Max(earlier)].price THEN "HIGHER" ELSE "LOWER"
    BY DEF Label
  <2> HIDE DEF earlier, earlier2, more
  <2> QED
    BY <1>1, <2>1, <2>2, <2>3, <2>4
<1>3. /\ Len(before) = n /\ Len(after) = n + Len(rest)
      /\ \A k \in 1..n : after[k] = before[k]
  <2>1. Len(before) = n /\ Len(after) = Len(more)
    BY <1>1, PointsAre
  <2>2. ASSUME NEW k \in 1..n PROVE after[k] = before[k]
    <3>1. k \in 1..Len(more) /\ more[k] = swings[k]
      BY <1>1
    <3> HIDE DEF more
    <3> QED
      BY <1>1, <1>2, <3>1, PointsAre
  <2> QED
    BY <1>1, <2>1, <2>2
<1> HIDE DEF before, after, n
<1>4. SubSeq(before, 1, Len(before)) = SubSeq(after, 1, Len(before))
  BY <1>1, <1>3
<1> QED
  BY <1>1, <1>3, <1>4 DEF IsPrefix, before, after

\* For any candles and lookback: a point, once reported, is reported for ever, the
\* same and in the same place, and new ones come after it.
THEOREM NeverRepaints == Spec => NoRepaint
<1>1. StructureInv /\ [Next]_structureVars => [IsPrefix(report.points, report'.points)]_structureVars
  <2> SUFFICES ASSUME StructureInv, Next
               PROVE  IsPrefix(report.points, report'.points)
    BY DEF structureVars
  <2>1. PICK bar \in Bars : candles' = Append(candles, bar)
    BY DEF Next
  <2>2. /\ lookback \in Nat \ {0} /\ candles \in Seq(Bars)
        /\ report = Evaluate(candles) /\ report' = Evaluate(candles')
    BY DEF StructureInv, Next
  <2>3. PICK rest \in Seq(SwingRecord) : Swings(candles') = Swings(candles) \o rest
    BY <2>1, <2>2, SwingsStay DEF Begins
  <2>4. Swings(candles) \in Seq(SwingRecord)
    BY <2>2, SwingsTyped
  <2>5. /\ report.points = Structures(Swings(candles))
        /\ report'.points = Structures(Swings(candles'))
    BY <2>2 DEF Evaluate
  <2> QED
    BY <2>3, <2>4, <2>5, PointsStay
<1> QED
  BY <1>1, StructureInvariant, PTL DEF Spec, NoRepaint
=============================================================================
