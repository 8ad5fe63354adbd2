-------------------------- MODULE PaperTradeEngine --------------------------
(***************************************************************************)
(* What PaperTradingEngine does to one trade: a pure function of the trade *)
(* and of the completed candles it is shown.                               *)
(*                                                                         *)
(* Candles are numbered by their time.  Of a candle only the levels of the *)
(* trade that its range reached are kept; a long trade whose candle        *)
(* reached the stop has reached the entry above it (and a short one the    *)
(* entry below).  Prices, R and P&L are functions of these and left out.   *)
(***************************************************************************)
EXTENDS Naturals, FiniteSetsExt

CONSTANTS
    MaxEntry,     \* max_entry_bars
    MaxHolding    \* max_holding_bars

ASSUME EngineAssumption == MaxEntry \in Nat \ {0} /\ MaxHolding \in Nat \ {0}

Candles == {c \in SUBSET {"entry", "stop", "target"} : "stop" \in c => "entry" \in c}

Terminal == {"CLOSED", "CANCELLED", "INVALIDATED"}
Reasons == {"none", "TARGET_HIT", "STOP_HIT", "BOTH_TOUCHED", "MANUAL_CLOSE",
            "EXPIRED", "NO_GEOMETRY", "CANCELLED"}

\* entry and exit are the times of the candles; 0 stands for none.
TradesUpTo(n) ==
    [status : {"WAITING_FOR_ENTRY", "OPEN"} \cup Terminal, created : 0..n + 1,
     target : BOOLEAN, entry : 0..n, exit : 0..n, reason : Reasons]

NoTrade == [status |-> "none", created |-> 0, target |-> FALSE,
            entry |-> 0, exit |-> 0, reason |-> "none"]

\* create(): geometry is "full", "no_target" or "none".
NewTrade(created, geometry) ==
    [status |-> IF geometry = "none" THEN "INVALIDATED" ELSE "WAITING_FOR_ENTRY",
     created |-> created, target |-> geometry = "full", entry |-> 0, exit |-> 0,
     reason |-> IF geometry = "none" THEN "NO_GEOMETRY" ELSE "none"]

\* candidates[:n] of consecutive candles
Leading(bars, n) == LET first == Min(bars) IN {b \in bars : b < first + n}

-----------------------------------------------------------------------------
(* track *)

After(bars, t) == {b \in bars : b > t}

SinceCreation(trade, window) == Leading(After(window, trade.created), MaxEntry)

\* mutant: the loop goes on after a candle that touches
TrackEntryLast(trade, market, window) ==
    LET touching == {b \in SinceCreation(trade, window) : "entry" \in market[b]}
    IN  IF touching = {} THEN trade
        ELSE [trade EXCEPT !.status = "OPEN", !.entry = Max(touching)]

TrackEntry(trade, market, window) ==
    LET touching == {b \in SinceCreation(trade, window) : "entry" \in market[b]}
    IN  IF touching = {} THEN trade
        ELSE [trade EXCEPT !.status = "OPEN", !.entry = Min(touching)]

Closed(trade, bar, reason) ==
    [trade EXCEPT !.status = "CLOSED", !.exit = bar, !.reason = reason]

Touch(candle) ==
    CASE {"stop", "target"} \subseteq candle -> "BOTH_TOUCHED"
      [] "target" \in candle /\ "stop" \notin candle -> "TARGET_HIT"
      [] OTHER -> "STOP_HIT"

\* mutant: the target is looked for first
ResolveOptimistic(trade, market, held) ==
    LET hits == {b \in held : "target" \in market[b]}
        touching == {b \in held : market[b] \cap {"stop", "target"} # {}}
    IN  IF hits # {} THEN Closed(trade, Min(hits), Touch(market[Min(hits)]))
        ELSE IF touching # {} THEN Closed(trade, Min(touching), Touch(market[Min(touching)]))
        ELSE Closed(trade, Max(held), "EXPIRED")

Resolve(trade, market, held) ==
    LET touching == {b \in held : market[b] \cap {"stop", "target"} # {}}
    IN  IF touching = {} THEN Closed(trade, Max(held), "EXPIRED")
        ELSE Closed(trade, Min(touching), Touch(market[Min(touching)]))

TrackExit(trade, market, window) ==
    LET held == Leading(After(window, trade.entry), MaxHolding)
    IN  IF ~trade.target \/ held = {} THEN trade ELSE Resolve(trade, market, held)

\* A trade that enters is followed to its exit in the same call.
Track(trade, market, window) ==
    CASE trade.status = "WAITING_FOR_ENTRY" ->
            LET entered == TrackEntry(trade, market, window)
            IN  IF entered.status = "OPEN" THEN TrackExit(entered, market, window) ELSE entered
      [] trade.status = "OPEN" -> TrackExit(trade, market, window)
      [] OTHER -> trade

-----------------------------------------------------------------------------
(* close_manually and cancel *)

MayClose(trade) == trade.status = "OPEN"
MayCancel(trade) == trade.status = "WAITING_FOR_ENTRY"

CloseManually(trade) == Closed(trade, 0, "MANUAL_CLOSE")
Cancel(trade) == [trade EXCEPT !.status = "CANCELLED", !.reason = "CANCELLED"]
=============================================================================
