-------------------------- MODULE HistoricalOutcomes --------------------------
(***************************************************************************)
(* What the historical side says came after a candle: the outcome of a     *)
(* setup that is taken there (OutcomeEvaluator, for the replay and setup   *)
(* research), the forward outcome of an observation (ForwardOutcomeEngine) *)
(* and the window of the fixed-horizon metrics (ForwardReturnEngine,       *)
(* PriceExcursionEngine).  All are functions of the candles they are given.*)
(*                                                                         *)
(* They share the candles and the horizon of the paper trades, and nothing *)
(* of their code.  Prices, returns and excursions are functions of the     *)
(* candles of a window and left out.                                       *)
(***************************************************************************)
EXTENDS PaperTradeEngine, Sequences

\* mutant: the candle of the decision counts
AfterwardsToo(market, anchor) == {b \in DOMAIN market : b >= anchor}
Afterwards(market, anchor) == {b \in DOMAIN market : b > anchor}

-----------------------------------------------------------------------------
(* OutcomeEvaluator *)

\* mutant: no horizon
InspectedAll(market, anchor) == Afterwards(market, anchor)
Inspected(market, anchor) == Leading(Afterwards(market, anchor), MaxHolding)

Verdict(status, bar, held) == [status |-> status, bar |-> bar, held |-> held]

\* evaluate, of complete geometry: each level's first touch is looked for in the
\* whole window, and the two are compared.
Evaluate(market, anchor) ==
    LET window == Inspected(market, anchor)
        Touching(level) == {b \in window : level \in market[b]}
        First(level) == Min(Touching(level))
        Reached(status, bar) == Verdict(status, bar, bar - Min(window) + 1)
    IN  IF window = {} THEN Verdict("INSUFFICIENT_DATA", 0, 0)
        ELSE IF Touching("target") = {} /\ Touching("stop") = {}
             THEN Verdict("EXPIRED", 0, Cardinality(window))
        ELSE IF Touching("stop") = {} THEN Reached("TARGET_HIT", First("target"))
        ELSE IF Touching("target") = {} \/ First("stop") < First("target")
             THEN Reached("STOP_HIT", First("stop"))
        ELSE IF First("target") < First("stop") THEN Reached("TARGET_HIT", First("target"))
        ELSE Reached("BOTH_TOUCHED", First("target"))

-----------------------------------------------------------------------------
(* ForwardOutcomeEngine, ForwardReturnEngine, PriceExcursionEngine *)

\* measure at an instant: candle b opens at b and is complete when the next opens;
\* the caller may show candles that are not.
Measure(market, anchor, at) ==
    LET completed == {b \in Afterwards(market, anchor) : b + 1 <= at}
    IN  [used |-> Leading(completed, MaxHolding),
         complete |-> Cardinality(completed) >= MaxHolding]

\* A partial window is never used.
FixedHorizon(market, anchor, n) ==
    LET forward == Afterwards(market, anchor)
    IN  IF Cardinality(forward) < n THEN {} ELSE Leading(forward, n)
=============================================================================
