--------------------------- MODULE MarketStructure ---------------------------
(***************************************************************************)
(* What the analysis engines say of a series of candles as it grows: the   *)
(* swings, the structure they make, its bias, breaks of it, the regime,    *)
(* the liquidity pools and what became of them, and the descriptive trend. *)
(* The engines keep nothing; at every evaluation point the pipeline gives  *)
(* them the candles up to that point and they work it all out again.       *)
(*                                                                         *)
(* Instants are positions: candles are in order and no two share an        *)
(* instant.  Prices are integers; a pool's price is an average taken once  *)
(* per merge, so prices are multiples of a power of two that keeps it one. *)
(***************************************************************************)
EXTENDS Integers, Sequences, FiniteSetsExt, SequencesExt

CONSTANTS
    Bars,           \* candles there can be: [low, high, close]
    Lookbacks,      \* SwingConfig.lookback: what it may be set to
    Confirmations,  \* LiquidityEventConfig.confirmation_candles
    PoolTolerance,  \* LiquidityConfig.equal_level_tolerance_percent, in 1/1000 percent
    RangeTolerance, \* RangeDetectionConfig.range_tolerance, in percent
    MinSwings,      \* RangeDetectionConfig.min_swings
    MinFlat,        \* RangeDetectionConfig.min_flat_count
    MaxCandles      \* bound: candles in the series

ASSUME StructureAssumption ==
    /\ Bars \subseteq [low : Nat \ {0}, high : Nat \ {0}, close : Nat \ {0}]
    /\ \A bar \in Bars : bar.low <= bar.close /\ bar.close <= bar.high
    /\ Lookbacks \subseteq Nat \ {0}
    /\ Confirmations \in Nat \ {0}
    /\ PoolTolerance \in Nat /\ RangeTolerance \in Nat
    /\ MinSwings \in Nat \ {0} /\ MinFlat \in Nat \ {0}
    /\ MaxCandles \in Nat

VARIABLES
    lookback,   \* as configured
    candles,    \* the series up to the evaluation point
    report      \* what the engines say at that point

structureVars == <<lookback, candles, report>>

-----------------------------------------------------------------------------
(* Swings *)

\* The candles after i that are looked at, and those before it.
Right(series, i) == i + 1..Min({i + lookback, Len(series)})
Around(series, i) == (i - lookback..i - 1) \cup Right(series, i)

\* The newest candles have not all the candles to their right yet; the last has none.
Status(series, i) == IF i + lookback <= Len(series) THEN "CONFIRMED" ELSE "CANDIDATE"

IsHigh(series, i) == \A j \in Around(series, i) : series[i].high > series[j].high
IsLow(series, i) == \A j \in Around(series, i) : series[i].low < series[j].low

Swing(series, i, kind) ==
    [index |-> i, kind |-> kind,
     price |-> IF kind = "HIGH" THEN series[i].high ELSE series[i].low]

\* A candle can be both: the high comes first.
SwingsAt(series, i) ==
    IF i <= lookback \/ Right(series, i) = {} THEN <<>>
    ELSE (IF IsHigh(series, i) THEN <<Swing(series, i, "HIGH")>> ELSE <<>>)
           \o (IF IsLow(series, i) THEN <<Swing(series, i, "LOW")>> ELSE <<>>)

\* mutant: candidates count as well
EitherAt(series, i) == SwingsAt(series, i)

\* Structure and pools are made of the confirmed ones; a candle's have one status.
ConfirmedAt(series, i) ==
    IF Status(series, i) = "CONFIRMED" THEN SwingsAt(series, i) ELSE <<>>

Swings(series) == FlattenSeq([i \in 1..Len(series) |-> ConfirmedAt(series, i)])

-----------------------------------------------------------------------------
(* Structure, its bias, its breaks *)

\* Against the last swing of its kind; equal is lower.
Label(swings, k) ==
    LET earlier == {j \in 1..k - 1 : swings[j].kind = swings[k].kind}
    IN  IF earlier = {} THEN "FIRST"
        ELSE IF swings[k].price > swings[Max(earlier)].price THEN "HIGHER" ELSE "LOWER"

Structures(swings) ==
    [k \in 1..Len(swings) |-> [swing |-> swings[k], label |-> Label(swings, k)]]

Is(point, label, kind) == point.label = label /\ point.swing.kind = kind

Alternating(last, label, kind, other) ==
    Is(last[1], label, kind) /\ Is(last[2], label, other) /\ Is(last[3], label, kind)

Bias(previous, current, intact) ==
    [previous |-> previous, current |-> current, intact |-> intact]

Analysis(points) ==
    LET n == Len(points)
        last == SubSeq(points, n - 2, n)
    IN  IF n = 0 THEN Bias("UNKNOWN", "UNKNOWN", FALSE)
        ELSE IF n < 3 THEN Bias("UNKNOWN", "NEUTRAL", FALSE)
        ELSE IF Alternating(last, "HIGHER", "HIGH", "LOW") THEN Bias("BULLISH", "BULLISH", TRUE)
        ELSE IF Alternating(last, "LOWER", "LOW", "HIGH") THEN Bias("BEARISH", "BEARISH", TRUE)
        ELSE IF Is(last[3], "LOWER", "LOW") /\ last[2].label = "HIGHER"
             THEN Bias("BULLISH", "NEUTRAL", FALSE)
        ELSE IF Is(last[3], "HIGHER", "HIGH") /\ last[2].label = "LOWER"
             THEN Bias("BEARISH", "NEUTRAL", FALSE)
        ELSE Bias("NEUTRAL", "NEUTRAL", FALSE)

\* mutant: a bullish bias alone is broken by whatever comes
BrokenByAnything(points, analysis) ==
    IF points = <<>> THEN "NONE"
    ELSE IF analysis.previous = "BULLISH" THEN "BEARISH"
    ELSE IF analysis.previous = "BEARISH" /\ Is(Last(points), "HIGHER", "HIGH") THEN "BULLISH"
    ELSE "NONE"

\* The break of structure.
Broken(points, analysis) ==
    IF points = <<>> THEN "NONE"
    ELSE IF analysis.previous = "BULLISH" /\ Is(Last(points), "LOWER", "LOW") THEN "BEARISH"
    ELSE IF analysis.previous = "BEARISH" /\ Is(Last(points), "HIGHER", "HIGH") THEN "BULLISH"
    ELSE "NONE"

\* The change of character.
Changed(points, broken) ==
    IF broken = "BEARISH" /\ Is(Last(points), "LOWER", "HIGH") THEN "BEARISH"
    ELSE IF broken = "BULLISH" /\ Is(Last(points), "HIGHER", "LOW") THEN "BULLISH"
    ELSE "NONE"

Regime(analysis, broken, changed) ==
    IF changed # "NONE" THEN changed
    ELSE IF broken # "NONE" THEN "TRANSITION"
    ELSE IF analysis.current = "NEUTRAL" THEN "RANGING"
    ELSE analysis.current

-----------------------------------------------------------------------------
(* The descriptive trend *)

Prices(points, kind) ==
    LET ofKind == SelectSeq(points, LAMBDA p : p.swing.kind = kind)
    IN  [k \in 1..Len(ofKind) |-> ofKind[k].swing.price]

Latest(prices) == SubSeq(prices, Len(prices) - MinFlat + 1, Len(prices))
Total(prices) == FoldLeft(LAMBDA sum, p : sum + p, 0, prices)

IsFlat(prices) ==
    /\ Len(prices) >= MinFlat
    /\ LET total == Total(Latest(prices))
       IN  \A p \in Range(Latest(prices)) :
              /\ (MinFlat * p - total) * 100 <= RangeTolerance * total
              /\ (total - MinFlat * p) * 100 <= RangeTolerance * total

InRange(points) ==
    LET highs == Prices(points, "HIGH")
        lows == Prices(points, "LOW")
    IN  /\ Len(points) >= MinSwings
        /\ IsFlat(highs) /\ IsFlat(lows)
        /\ Total(Latest(highs)) > Total(Latest(lows))

Trend(points, analysis) ==
    IF InRange(points) THEN "RANGE"
    ELSE IF analysis.current \in {"BULLISH", "BEARISH"} /\ ~analysis.intact THEN "UNKNOWN"
    ELSE analysis.current

-----------------------------------------------------------------------------
(* Liquidity *)

Pool(swing) ==
    [side |-> IF swing.kind = "HIGH" THEN "BUY" ELSE "SELL",
     price |-> swing.price, created |-> swing.index, swings |-> 1]

\* The difference against the mean of the two.
SameLevel(a, b) ==
    /\ (a - b) * 200000 <= PoolTolerance * (a + b)
    /\ (b - a) * 200000 <= PoolTolerance * (a + b)

\* Into the first pool of its side that is near enough; the price moves.
Merge(pools, pool) ==
    LET near == {k \in 1..Len(pools) :
                    pools[k].side = pool.side /\ SameLevel(pools[k].price, pool.price)}
        into == pools[Min(near)]
    IN  IF near = {} THEN Append(pools, pool)
        ELSE [pools EXCEPT ![Min(near)] =
                [side |-> into.side, price |-> (into.price + pool.price) \div 2,
                 created |-> Min({into.created, pool.created}),
                 swings |-> into.swings + pool.swings]]

Pools(swings) ==
    LET pools[k \in 0..Len(swings)] ==
            IF k = 0 THEN <<>> ELSE Merge(pools[k - 1], Pool(swings[k]))
    IN  pools[Len(swings)]

Beyond(pool, bar) == IF pool.side = "BUY" THEN bar.high > pool.price ELSE bar.low < pool.price
ClosedBack(pool, bar) == IF pool.side = "BUY" THEN bar.close < pool.price ELSE bar.close > pool.price
ClosedOn(pool, bar) == IF pool.side = "BUY" THEN bar.close > pool.price ELSE bar.close < pool.price

\* mutant: the slice of the confirmation candles has no end
WindowAll(series, breach) == breach + 1..Len(series)
\* The candles that settle what a breach was.
Window(series, breach) == breach + 1..Min({breach + Confirmations, Len(series)})

Event(pool, series) ==
    LET breaches == {i \in pool.created + 1..Len(series) : Beyond(pool, series[i])}
        window == Window(series, Min(breaches))
    IN  IF breaches = {} THEN [pool |-> pool, breach |-> 0, checked |-> 0, type |-> "NONE"]
        ELSE [pool |-> pool, breach |-> Min(breaches), checked |-> Cardinality(window),
              type |->
                IF \E i \in window : ClosedBack(pool, series[i]) THEN "SWEEP"
                ELSE IF window # {} /\ \A i \in window : ClosedOn(pool, series[i]) THEN "BREAKOUT"
                ELSE "NONE"]

-----------------------------------------------------------------------------
(* One evaluation point after another *)

\* Everything is worked out from the candles up to the point.
Evaluate(series) ==
    LET swings == Swings(series)
        points == Structures(swings)
        analysis == Analysis(points)
        broken == Broken(points, analysis)
        changed == Changed(points, broken)
    IN  [points |-> points, broken |-> broken, changed |-> changed,
         regime |-> Regime(analysis, broken, changed),
         trend |-> Trend(points, analysis),
         bias |-> analysis.current,
         events |-> [k \in DOMAIN Pools(swings) |-> Event(Pools(swings)[k], series)]]

Init ==
    /\ lookback \in Lookbacks
    /\ candles = <<>>
    /\ report = Evaluate(<<>>)

\* A candle completes and becomes the evaluation point.
Next ==
    /\ Len(candles) < MaxCandles
    /\ \E bar \in Bars : candles' = Append(candles, bar)
    /\ report' = Evaluate(candles')
    /\ UNCHANGED lookback

Spec == Init /\ [][Next]_structureVars

-----------------------------------------------------------------------------
(* Properties *)

\* Confirmed structure does not repaint: whatever candles come, the points already
\* reported stay as they are, label included, and new ones come after them.  Each
\* point is worked out anew from a longer series, with windows to its right and a
\* comparison with the swing before it.
NoRepaint == [][IsPrefix(report.points, report'.points)]_structureVars

\* What a breach of a pool was is settled once all its confirmation candles are in:
\* as long as the pool itself is not merged with another, no later candle makes a
\* sweep of a breakout or the reverse, nor takes another candle for the breach.
EventsSettle ==
    [][\A event \in Range(report.events) :
         event.checked = Confirmations =>
            \A other \in Range(report.events)' :
               other.pool = event.pool => other = event]_structureVars

\* The two trends agree, though one comes from breaks and changes of character and
\* the other from the bias and the range: a trend described as directional is the
\* regime, and a directional regime is described so or as a range.
TrendsAgree ==
    \A direction \in {"BULLISH", "BEARISH"} :
        /\ report.trend = direction => report.regime = direction
        /\ report.regime = direction => report.trend \in {direction, "RANGE"}
=============================================================================
