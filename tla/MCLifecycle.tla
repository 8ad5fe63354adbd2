---------------------------- MODULE MCLifecycle ----------------------------
(* Instances of SetupLifecycle for TLC. *)
EXTENDS SetupLifecycle

\* Two types of one direction displace each other, the third setup opposes both.
ThreeSetups ==
    {[direction |-> "BULLISH", type |-> "BREAKOUT"],
     [direction |-> "BULLISH", type |-> "TREND_CONTINUATION"],
     [direction |-> "BEARISH", type |-> "BREAKOUT"]}
TwoSetups ==
    {[direction |-> "BULLISH", type |-> "BREAKOUT"],
     [direction |-> "BEARISH", type |-> "BREAKOUT"]}

\* Ids of one setup's instances are in no order, nor are those of two setups.
HashOrder ==
    [i \in Setups \X (1..MaxRecorded) |->
        (IF i[1].direction = "BULLISH" THEN 3 ELSE 5) * i[2]
            + ((IF i[1].type = "BREAKOUT" THEN 4 ELSE 8) % (i[2] + 2))]
=============================================================================
