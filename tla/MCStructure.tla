----------------------------- MODULE MCStructure -----------------------------
(* Instances of MarketStructure and SignalPipeline for TLC. *)
EXTENDS SignalPipeline

\* A bar of one price, and one that spans all of them.
Flat(price) == [low |-> price, high |-> price, close |-> price]

\* The first two prices are near enough for one pool and one edge of a range.
FiveBars ==
    {Flat(1600), Flat(1616), Flat(3200), Flat(6400), [low |-> 1584, high |-> 6464, close |-> 3200]}

\* Weekly candles: a week counts in full, four weeks for 85 percent.
Weekly == [age \in 0..MaxCandles |-> IF age <= 1 THEN 100 ELSE IF age <= 4 THEN 85 ELSE 65]
=============================================================================
