------------------------------ MODULE MCPapers ------------------------------
(* Instances of PaperTrades for TLC. *)
EXTENDS PaperTrades, TLC

\* The entry is looked for in "entry" alone and the exit in the other two: these
\* are all the pairs of the other two, and both answers for the first.
FourShapes == {{}, {"target"}, {"entry", "stop"}, {"entry", "stop", "target"}}

\* Bound: a trade is made of the first candle or of none, whenever it is made.  What is
\* made of a later one has fewer candles after it and more before it.
MadeEarly ==
    /\ \A id \in Stored : id.bar <= 1
    /\ \A o \in Operators : op[o].at = "create" => op[o].id.bar <= 1

OperatorSymmetry == Permutations(Operators)
=============================================================================
