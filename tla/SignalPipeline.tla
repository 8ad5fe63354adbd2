---------------------------- MODULE SignalPipeline ----------------------------
(***************************************************************************)
(* From what the engines say at a point to trade signals and verdicts on   *)
(* them: the confluence of the evidence, the decision, the signal with its *)
(* entry, stop and target, and the walk of the historical pipeline, which  *)
(* takes one signal at a time and validates it on the candles after it.    *)
(*                                                                         *)
(* A signal is offered from the candles up to its point only.  The walk is *)
(* made anew over the whole history whenever the history is longer, so it  *)
(* is a function of the offers and the candles.  Scores are in 1/100.      *)
(***************************************************************************)
EXTENDS MarketStructure

CONSTANTS
    Recency,        \* percent a liquidity event weighs, by its age in candles
    MinHistory,     \* PipelineConfig.min_history
    MaxValidation   \* PipelineConfig.max_validation_candles; None is MaxCandles

ASSUME SignalAssumption ==
    /\ Recency \in [0..MaxCandles -> 1..100]
    /\ MinHistory \in Nat /\ MaxValidation \in Nat

VARIABLE
    offers    \* the eligible signal of each point, or that there is none

signalVars == <<lookback, candles, report, offers>>

-----------------------------------------------------------------------------
(* Confluence *)

Directions == {"BULLISH", "BEARISH"}

\* A sweep points away from the pool, a breakout through it.
Pointing(event) ==
    IF (event.type = "SWEEP") = (event.pool.side = "SELL") THEN "BULLISH" ELSE "BEARISH"

Contribution(event, point) ==
    [direction |-> Pointing(event), price |-> event.pool.price, breach |-> event.breach,
     score |-> (IF event.type = "BREAKOUT" THEN 12 ELSE 10) * Recency[point - event.breach]]

\* Newest first, then the heavier one; else as the pools are.
Contributions(rep, point) ==
    LET told == SelectSeq(rep.events, LAMBDA e : e.type # "NONE")
        weighed == [k \in DOMAIN told |-> <<Contribution(told[k], point), k>>]
        Before(a, b) ==
            \/ a[1].breach > b[1].breach
            \/ a[1].breach = b[1].breach /\ a[1].score > b[1].score
            \/ a[1].breach = b[1].breach /\ a[1].score = b[1].score /\ a[2] < b[2]
        sorted == SortSeq(weighed, Before)
    IN  [k \in DOMAIN sorted |-> sorted[k][1]]

\* Within half a percent of the higher one.
SameZone(a, b) == 200 * Max({a - b, b - a}) <= Max({a, b})

\* Each zone counts once for a direction, and all of them for 40 at most.
Accept(liquidity, contribution) ==
    LET d == contribution.direction
        remaining == 4000 - liquidity[d].score
        known == \E zone \in liquidity[d].zones : SameZone(contribution.price, zone)
    IN  IF remaining <= 0 THEN liquidity
        ELSE [liquidity EXCEPT ![d] =
                [score |-> IF known THEN @.score
                           ELSE @.score + Min({contribution.score, remaining}),
                 zones |-> @.zones \cup {contribution.price}]]

Liquidity(rep, point) ==
    FoldLeft(Accept, [d \in Directions |-> [score |-> 0, zones |-> {}]],
             Contributions(rep, point))

\* Bias and trend weigh 30, a break and a change of character 10.
Score(rep, point, d) ==
    Liquidity(rep, point)[d].score
        + (IF rep.bias = d THEN 3000 ELSE 0) + (IF rep.regime = d THEN 3000 ELSE 0)
        + (IF rep.broken = d THEN 1000 ELSE 0) + (IF rep.changed = d THEN 1000 ELSE 0)

\* The dominant direction needs a net of 15 percent of the total.
Confluence(rep, point) ==
    LET bullish == Score(rep, point, "BULLISH")
        bearish == Score(rep, point, "BEARISH")
        net == Max({bullish - bearish, bearish - bullish})
        total == bullish + bearish
    IN  [net |-> net, total |-> total,
         direction |-> IF total = 0 THEN "UNKNOWN"
                       ELSE IF 20 * net < 3 * total THEN "NEUTRAL"
                       ELSE IF bullish > bearish THEN "BULLISH" ELSE "BEARISH"]

\* The conflict is low; confidence and evidence are then above their thresholds.
Ready(confluence) ==
    confluence.direction \in Directions /\ 10 * confluence.net >= 6 * confluence.total

-----------------------------------------------------------------------------
(* The signal; its prices are in 1/100 *)

NoSignal == [direction |-> "NONE", entry |-> 0, stop |-> 0, target |-> 0]

\* All of the pools that the signal engine is given: the highest one above
\* highs, the lowest one below lows.
Anchors(rep) ==
    LET Of(side) == {100 * e.pool.price : e \in {x \in Range(rep.events) : x.pool.side = side}}
    IN  {a \in Of("BUY") : \A b \in Of("BUY") : b <= a}
            \cup {a \in Of("SELL") : \A b \in Of("SELL") : a <= b}

\* Stop and target are the nearest anchors on their sides of the entry; without
\* one the stop is 2 percent away and the target at twice the risk.
Long(entry, anchors) ==
    LET below == {a \in anchors : a < entry}
        above == {a \in anchors : a > entry}
        stop == IF below # {} THEN Max(below) ELSE entry - entry \div 50
    IN  [direction |-> "LONG", entry |-> entry, stop |-> stop,
         target |-> IF above # {} THEN Min(above) ELSE entry + 2 * (entry - stop)]

Short(entry, anchors) ==
    LET below == {a \in anchors : a < entry}
        above == {a \in anchors : a > entry}
        stop == IF above # {} THEN Min(above) ELSE entry + entry \div 50
    IN  [direction |-> "SHORT", entry |-> entry, stop |-> stop,
         target |-> IF below # {} THEN Max(below) ELSE entry - 2 * (stop - entry)]

\* The reward has to be one and a half times the risk.
Worthwhile(signal) ==
    LET Distance(a, b) == Max({a - b, b - a})
    IN  /\ signal.target > 0
        /\ 2 * Distance(signal.target, signal.entry) >= 3 * Distance(signal.entry, signal.stop)

Offer(rep, series) ==
    LET confluence == Confluence(rep, Len(series))
        entry == 100 * Last(series).close
        signal == IF confluence.direction = "BULLISH" THEN Long(entry, Anchors(rep))
                  ELSE Short(entry, Anchors(rep))
    IN  IF Ready(confluence) /\ Worthwhile(signal) THEN signal ELSE NoSignal

-----------------------------------------------------------------------------
(* Validation on the candles after the signal *)

Future(t, series) == t + 1..Min({t + MaxValidation, Len(series)})

Covers(bar, price) == 100 * bar.low <= price /\ price <= 100 * bar.high

Won(signal, bar) ==
    IF signal.direction = "LONG" THEN 100 * bar.high >= signal.target
    ELSE 100 * bar.low <= signal.target
Lost(signal, bar) ==
    IF signal.direction = "LONG" THEN 100 * bar.low <= signal.stop
    ELSE 100 * bar.high >= signal.stop

\* The entry candle may be the exit candle as well.
Validate(signal, t, series) ==
    LET future == Future(t, series)
        entries == {i \in future : Covers(series[i], signal.entry)}
        exits == {i \in future : /\ i >= Min(entries)
                                 /\ Won(signal, series[i]) \/ Lost(signal, series[i])}
        exit == series[Min(exits)]
        Verdict(status, evaluated) == [status |-> status, evaluated |-> evaluated]
    IN  IF future = {} THEN Verdict("OPEN", 0)
        ELSE IF entries = {} THEN Verdict("NOT_TRIGGERED", Cardinality(future))
        ELSE IF exits = {} THEN Verdict("EXPIRED", Cardinality(future))
        ELSE Verdict(IF ~Lost(signal, exit) THEN "WIN"
                     ELSE IF ~Won(signal, exit) THEN "LOSS" ELSE "AMBIGUOUS",
                     Min(exits) - t)

-----------------------------------------------------------------------------
(* The walk *)

\* mutant: a signal that was not triggered does not hold back the next
UntilTriggered(t, verdict) ==
    IF verdict.status \in {"OPEN", "NOT_TRIGGERED"} THEN t + 1
    ELSE t + 1 + Max({verdict.evaluated, 1})

\* mutant: the last candle looked at is free again
UntilExit(t, verdict) ==
    IF verdict.status = "OPEN" THEN t + 1 ELSE t + Max({verdict.evaluated, 1})

\* The first point at which another signal may be taken.
NextSignal(t, verdict) ==
    IF verdict.status = "OPEN" THEN t + 1 ELSE t + 1 + Max({verdict.evaluated, 1})

\* A signal is taken with its verdict, or suppressed.
Gate(walk, t, signals, series) ==
    LET verdict == Validate(signals[t], t, series)
    IN  IF t <= MinHistory \/ signals[t] = NoSignal \/ t < walk.next THEN walk
        ELSE [next |-> NextSignal(t, verdict),
              taken |-> Append(walk.taken,
                          [at |-> t, signal |-> signals[t], verdict |-> verdict])]

\* The signals taken, each with its point and verdict.
Walk(signals, series) ==
    LET walk[t \in 0..Len(signals)] ==
            IF t = 0 THEN [next |-> 1, taken |-> <<>>]
            ELSE Gate(walk[t - 1], t, signals, series)
    IN  walk[Len(signals)].taken

SignalInit == Init /\ offers = <<>>

SignalNext == Next /\ offers' = Append(offers, Offer(report', candles'))

SignalSpec == SignalInit /\ [][SignalNext]_signalVars

-----------------------------------------------------------------------------
(* Properties *)

Taken == Range(Walk(offers, candles))

\* No further candle changes what the walk is told by then: the verdict has its exit,
\* or the window is full.
IsSettled(trade) ==
    \/ trade.verdict.status \in {"WIN", "LOSS", "AMBIGUOUS"}
    \/ trade.verdict.evaluated = MaxValidation

\* The backtest has no look-ahead: whatever candles follow, the signals taken so far
\* are taken again, and the verdicts that are settled stay.  Which signals are taken
\* depends on the verdicts of those before them, and these on candles that come after
\* the signal.
SignalsSettle ==
    [][LET before == Walk(offers, candles)
           after == Walk(offers, candles)'
       IN  /\ Len(before) <= Len(after)
           /\ \A k \in 1..Len(before) :
                 /\ after[k].at = before[k].at /\ after[k].signal = before[k].signal
                 /\ IsSettled(before[k]) => after[k] = before[k]]_signalVars

\* One active signal at a time ("no two active validation windows may overlap"): an
\* eligible signal is suppressed if, and only if, it comes on a candle that the
\* verdict on one taken before it looks at.
OneSignalAtATime ==
    \A t \in DOMAIN offers :
        offers[t] # NoSignal /\ t > MinHistory =>
            ((\E trade \in Taken : trade.at = t)
                <=> ~\E trade \in Taken :
                        trade.at < t /\ t <= trade.at + trade.verdict.evaluated)
=============================================================================
