----------------------------- MODULE MCPipeline -----------------------------
(* Instances of AlertPipeline for TLC. *)
EXTENDS AlertPipeline

TwoSetups ==
    {[direction |-> "BULLISH", type |-> "BREAKOUT"],
     [direction |-> "BEARISH", type |-> "BREAKOUT"]}

\* Ids of one setup's instances are in no order, nor are those of two setups.
HashOrder ==
    [i \in Setups \X (1..MaxRecorded) |->
        (IF i[1].direction = "BULLISH" THEN 3 ELSE 5) * i[2]]

\* The default policy: a detection is not told of.
DefaultKinds == {"CONFIRMED", "INVALIDATED", "EXPIRED"}
=============================================================================
